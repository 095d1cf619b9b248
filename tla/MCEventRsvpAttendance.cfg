\* Attendance against sign-ups: two volunteers who take, leave and change two roles
\* of one spot each, are verified on two paths and marked as no-shows.
CONSTANTS
    Volunteers = {v1, v2}
    Roles = {r1, r2}
    NoRole = NoRole
    NoVolunteer = NoVolunteer
    Sessions = {t1, t2}
    Handlers = {"accept", "decline", "approve", "org_decline", "no_show",
                "verify", "portal_verify"}
    Capacities = {1}
    SpotsNeeded = 1
    MaxFilled = 2
SPECIFICATION Spec
SYMMETRY Symmetry
INVARIANTS
    HostVerifiedAttended
    OpenTransactionsMove
PROPERTIES
    RoleCounterFollowsSignups
