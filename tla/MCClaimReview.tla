---------------------------- MODULE MCClaimReview ----------------------------
(* Claims of two sources, in an order that makes two pairs lock them crosswise. *)
EXTENDS ClaimReview

CONSTANTS k1, k2

Sources == [c \in Claims |-> IF c = 2 THEN k2 ELSE k1]
Crosswise == {<<1, 2>>, <<2, 3>>}
=============================================================================
