---------------------------- MODULE MCParserRuns ----------------------------
(* Two files in the order of their ids, and two workers. *)
EXTENDS ParserRuns, TLC

CONSTANTS f1, f2

MCRank == (f1 :> 1) @@ (f2 :> 2)
=============================================================================
