\* Seats and waitlist: three volunteers, an event whose capacity is edited
\* between unlimited, one and two seats and that is cancelled or completed, and
\* two concurrent transactions.
CONSTANTS
    Volunteers = {v1, v2, v3}
    Roles = {r1}
    NoRole = NoRole
    NoVolunteer = NoVolunteer
    Sessions = {t1, t2}
    Handlers = {"accept", "decline", "approve", "check_in", "admin_signup",
                "update_event", "admin_patch", "cancel", "complete"}
    Capacities = {0, 1, 2}
    SpotsNeeded = 2
    MaxFilled = 3
SPECIFICATION Spec
SYMMETRY Symmetry
INVARIANTS
    TypeOK
    CapacityRespected
PROPERTIES
    WaitlistedOnlyWhenFull
    ReleasedSeatIsOffered
    CancelledTakesNoSignups
