\* Three claims of two sources: the pairs (1, 2) and (2, 3) lock the sources in
\* opposite orders.  One claim is evaluated, followed up and accepted, in two
\* overlapping transactions.  No symmetry, for liveness.
CONSTANTS
    k1 = k1
    k2 = k2
    Claims = {1, 2, 3}
    Candidates = {k1, k2}
    CandidateOf <- Sources
    Suspected <- Crosswise
    Evaluated = {1}
    Unresolved = {"period"}
    ClientAnswerable = {"period"}
    Sessions = {t1, t2}
    NoClaim = NoClaim
SPECIFICATION FairSpec
INVARIANTS
    FoundIsEligible
PROPERTIES
    EligibleStaysEligible
    EveryTransactionEnds
