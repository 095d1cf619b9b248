\* A draft of two possible contents, whose limitations are confirmed up to three times,
\* by three overlapping sessions.
CONSTANTS
    Sessions = {s1, s2, s3}
    Requests = {q1, q2}
    Postures = {p1, p2}
    Snapshots = {n1, n2, n3}
    Candidates = {c1, c2}
    PacketFits = TRUE
    NoRequest = NoRequest
    NoPosture = NoPosture
    NoSnapshot = NoSnapshot
SPECIFICATION Spec
SYMMETRY Symmetry
INVARIANTS
    OneCurrentCandidate
PROPERTIES
    ImplementsExportContract
