\* One shift with three requests and three concurrent transactions: a request can
\* be refused and opened again, and every path meets every other.  The shift's three
\* credits pay for a cheap and a dear offer, which two redemptions compete for.  No
\* symmetry, for liveness.
CONSTANTS
    s1 = s1
    cheap = cheap
    dear = dear
    Shifts = {s1}
    Slots = {k1, k2, k3}
    Sessions = {t1, t2, t3}
    Offers = {cheap, dear}
    Cost <- MCCost
    ShiftCredits <- MCShiftCredits
    Clients = {c1, c2}
    NoShift = NoShift
    NoSlot = NoSlot
SPECIFICATION WalletSpec
INVARIANTS
    OneAwardPerShift
    ApprovedIffPaid
    SettledShiftHasOneRequest
    VerifiedShiftHasClaim
    NeverOverdrawn
PROPERTIES
    DecisionsAreFinal
    EveryTransactionEnds
    ImplementsShiftClaims
