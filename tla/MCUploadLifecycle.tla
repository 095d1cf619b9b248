-------------------------- MODULE MCUploadLifecycle --------------------------
(* Four reservation requests of one batch: f4 has the key and the content    *)
(* of f1, f3 the key of f2 and another content.  The batch has room for one  *)
(* active upload.                                                            *)
EXTENDS KaiIntake, TLC

CONSTANTS f1, f2, f3, f4, k1, k2, clean, dirty, other

MCKeyOf == (f1 :> k1) @@ (f2 :> k2) @@ (f3 :> k2) @@ (f4 :> k1)
MCDeclared == (f1 :> clean) @@ (f2 :> dirty) @@ (f3 :> other) @@ (f4 :> clean)
MCJudgements == (clean :> {"passed", "failed", "blocked"}) @@ (dirty :> {"failed"})
                @@ (other :> {"passed"})
MCRank == (f1 :> 1) @@ (f2 :> 2) @@ (f3 :> 3) @@ (f4 :> 4)
=============================================================================
