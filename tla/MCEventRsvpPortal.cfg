\* The portal's verification of a volunteer marked as a no-show.
CONSTANTS
    Volunteers = {v1, v2}
    Roles = {r1}
    NoRole = NoRole
    NoVolunteer = NoVolunteer
    Sessions = {t1, t2}
    Handlers = {"accept", "approve", "no_show", "portal_verify"}
    Capacities = {2}
    SpotsNeeded = 1
    MaxFilled = 2
SPECIFICATION Spec
INVARIANTS
    NoShowNeverVerified
