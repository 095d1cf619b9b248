------------------------------ MODULE KaiIntake ------------------------------
(***************************************************************************)
(* The intake of a file from its reservation to its profile: the parser's  *)
(* workers beside the upload lifecycle itself, where ParserRuns has only   *)
(* the contract of it.  The two meet in kai.intake_files: the workers read *)
(* the verdict and the object version, and write none of the row.          *)
(*                                                                         *)
(* A worker reads the object at the generation bound to the version and    *)
(* compares its checksum once more (createP1ObjectVersionByteSource); what *)
(* does not match fails the run, and after its retries the file for good.  *)
(* That the bytes match is therefore left to everything before, from the   *)
(* reservation to the verdict.                                             *)
(***************************************************************************)
EXTENDS UploadLifecycle

CONSTANTS Workers, Rank, SweepLimit, MaxRetries     \* as in ParserRuns

ASSUME FilesRanked ==
    /\ IsFiniteSet(Files)
    /\ Rank \in [Files -> Nat] /\ \A f, g \in Files : Rank[f] = Rank[g] => f = g
ASSUME TickBounds == SweepLimit \in Nat \ {0} /\ MaxRetries \in Nat \ {0}

VARIABLES run, worker       \* as in ParserRuns

intakeVars == <<row, object, url, tx, run, worker>>

Parser == INSTANCE ParserRuns WITH
    stage <- [f \in Files |-> row[f].state],
    version <- [f \in Files |-> row[f].version],
    verdict <- [f \in Files |-> row[f].policy]

IntakeInit ==
    /\ Init
    /\ run = [f \in Files |-> Parser!NoRun]
    /\ worker = [w \in Workers |-> Parser!Idle]

UploadPart == Next /\ UNCHANGED <<run, worker>>
ParserPart == UNCHANGED vars /\ (Parser!Ticking \/ Parser!Failing)

IntakeNext == UploadPart \/ ParserPart

IntakeSpec == IntakeInit /\ [][IntakeNext]_intakeVars

\* No worker has to act for an upload to be confirmed.
IntakeFairSpec == IntakeSpec /\ Fairness

(***************************************************************************)
(* Properties.                                                             *)
(***************************************************************************)

\* A file that has a parser run has in the bucket, at the generation bound to
\* its version, the very bytes its client declared, and these can be judged
\* clean: whichever requests, uploads, retries, ticks and operators overlapped,
\* the worker's own comparison of the checksum never fails a passed file
\* (createP1ObjectVersionByteSource).
ParsedIsDeclared ==
    \A f \in Files : run[f].status # "none" =>
        /\ row[f].version # None /\ row[f].gen # 0
        /\ object[f] = [gen |-> row[f].gen, content |-> Declared[f]]
        /\ "passed" \in Judgements[Declared[f]]

\* From the confirmation of a file to its profile, the bytes meant are those
\* declared (confirmGcsObjectVersion, activateParserProfileWorkForIntakeFile).
BytesAreDeclared == ConfirmedIsDeclared /\ ParsedIsDeclared
=============================================================================
