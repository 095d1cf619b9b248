-------------------------- MODULE MCFundingLedger --------------------------
(***************************************************************************)
(* Model checking of FundingLedger.  Two organisations' worth of scopes,   *)
(* the pool of one of them and the shared pool; the amounts are chosen so  *)
(* that a shift needs more than one credit and a credit serves more than   *)
(* one shift.                                                              *)
(***************************************************************************)
EXTENDS FundingLedger, TLC

CONSTANTS p1, p2, d1, d2, d3, d4, g1, o1, o2, e1, e2, w1, w2, w3

PaymentAmounts == [p \in Payments |-> IF p = p1 THEN 2 ELSE 1]
PaymentPools == [p \in Payments |-> IF p = p1 THEN Base ELSE o1]
GrantAmounts == [g \in Grants |-> 2]
GrantOrgs == [g \in Grants |-> o1]
ShiftEvents == [w \in Shifts |-> IF w = w3 THEN e2 ELSE e1]
ShiftAmounts == [w \in Shifts |-> IF w = w1 THEN 1 ELSE 2]
Hosts == [e \in Events |-> o1]
Ages == [c \in Credits |-> CASE c = d1 -> 1 [] c = d2 -> 2 [] c = d3 -> 3 [] c = d4 -> 4 [] OTHER -> 5]

Symmetry == Permutations(Sessions)
=============================================================================
