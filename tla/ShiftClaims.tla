---------------------------- MODULE ShiftClaims ----------------------------
(***************************************************************************)
(* What the credit workflow promises about one shift, without sessions,    *)
(* locks or statements: its claim is opened, refused and opened again, or  *)
(* settled for good, and it is paid once, by settling the claim or beside  *)
(* it.                                                                     *)
(***************************************************************************)
EXTENDS Naturals

CONSTANT Shifts

VARIABLES
    claim,  \* the state of the shift's claim
    paid    \* how many credits its volunteer got for it

vars == <<claim, paid>>

Init ==
    /\ claim = [s \in Shifts |-> "none"]
    /\ paid = [s \in Shifts |-> 0]

Open(s) ==
    /\ claim[s] \in {"none", "refused"}
    /\ claim' = [claim EXCEPT ![s] = "open"]
    /\ UNCHANGED paid

Refuse(s) ==
    /\ claim[s] = "open"
    /\ claim' = [claim EXCEPT ![s] = "refused"]
    /\ UNCHANGED paid

\* Settling an open claim pays the shift, unless it was paid beside the claim.
Settle(s) ==
    /\ claim[s] = "open"
    /\ claim' = [claim EXCEPT ![s] = "settled"]
    /\ paid' = [paid EXCEPT ![s] = 1]

PayBeside(s) ==
    /\ paid[s] = 0
    /\ paid' = [paid EXCEPT ![s] = 1]
    /\ UNCHANGED claim

Next == \E s \in Shifts : Open(s) \/ Refuse(s) \/ Settle(s) \/ PayBeside(s)

Spec == Init /\ [][Next]_vars
=============================================================================
