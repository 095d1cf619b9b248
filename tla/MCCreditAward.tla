--------------------------- MODULE MCCreditAward ---------------------------
(***************************************************************************)
(* Model checking of CreditAward, with the redemptions that draw on the    *)
(* wallet it credits, on small sets.                                       *)
(***************************************************************************)
EXTENDS WalletRedemption, TLC

CONSTANTS s1, cheap, dear

MCCost == (cheap :> 1) @@ (dear :> 2)
MCShiftCredits == s1 :> 3

=============================================================================
