--------------------------- MODULE ExportContract ---------------------------
(***************************************************************************)
(* What the way of a generated draft to an export candidate promises,      *)
(* without sessions, locks or rows: the draft is written, reviewed and     *)
(* cleared for export in this order and each once; meanwhile the           *)
(* limitations of what it cites are confirmed, each confirmation changing  *)
(* what was confirmed before; and once it is cleared, candidates are       *)
(* issued, at most one for each confirmed set of limitations.              *)
(***************************************************************************)
EXTENDS Naturals

CONSTANTS
    Postures,   \* what can be confirmed about the limitations of the citations
    NoPosture

VARIABLES
    stage,      \* how many of the steps to clearance the draft has taken
    current,    \* the posture in force
    seen,       \* the postures that are or were in force
    issued      \* the postures with a candidate

vars == <<stage, current, seen, issued>>

\* 1 written, 2 in review, 3 reviewed, 4 export review requested, 5 in export
\* review, 6 cleared.
Cleared == 6

Init ==
    /\ stage = 0
    /\ current = NoPosture
    /\ seen = {}
    /\ issued = {}

Advance ==
    /\ stage < Cleared
    /\ stage' = stage + 1
    /\ UNCHANGED <<current, seen, issued>>

Confirm(p) ==
    /\ stage > 0 /\ p # current
    /\ current' = p
    /\ seen' = seen \cup {p}
    /\ UNCHANGED <<stage, issued>>

\* The posture need not be in force any more when its candidate is written.
Issue(p) ==
    /\ stage = Cleared /\ p \in seen \ issued
    /\ issued' = issued \cup {p}
    /\ UNCHANGED <<stage, current, seen>>

Next == Advance \/ \E p \in Postures : Confirm(p) \/ Issue(p)

Spec == Init /\ [][Next]_vars
=============================================================================
