\* A donation under review and a shift without a credit it may use.
CONSTANTS
    p1 = p1
    p2 = p2
    d1 = d1
    d2 = d2
    d3 = d3
    d4 = d4
    g1 = g1
    o1 = o1
    o2 = o2
    e1 = e1
    e2 = e2
    w1 = w1
    w2 = w2
    w3 = w3
    Base = Base
    Unrestricted = Unrestricted
    None = None
    Payments = {p1}
    PaymentAmount <- PaymentAmounts
    ShiftEvent <- ShiftEvents
    ShiftAmount <- ShiftAmounts
    OrgOf <- Hosts
    Donations = {d1, d2}
    Grants = {}
    Orgs = {o1}
    Events = {e1}
    Shifts = {w1}
    Sessions = {t1, t2}
    PaymentPool <- PaymentPools
    GrantAmount <- GrantAmounts
    GrantOrg <- GrantOrgs
    Age <- Ages
    Subsidised = {e1}
    PolicyTargets = {o1}
SPECIFICATION Spec
SYMMETRY Symmetry
INVARIANT HeldDonationFundsNothing
