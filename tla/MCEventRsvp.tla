---------------------------- MODULE MCEventRsvp ----------------------------
(***************************************************************************)
(* Model checking of EventRsvp on small sets; the handlers that are called *)
(* differ from one configuration to the next.                              *)
(***************************************************************************)
EXTENDS EventRsvp, TLC

Symmetry ==
    Permutations(Volunteers) \cup Permutations(Sessions) \cup Permutations(Roles)
=============================================================================
