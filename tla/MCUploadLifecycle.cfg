\* One file goes from reservation to profile while three more requests crowd its batch.
SPECIFICATION IntakeFairSpec
CONSTANTS
    f1 = f1  f2 = f2  f3 = f3  f4 = f4
    k1 = k1  k2 = k2
    clean = clean  dirty = dirty  other = other
    v1 = v1  v2 = v2
    s1 = s1  s2 = s2
    w1 = w1
    None = None
    Files = {f1, f2, f3, f4}
    Clients = {f1}
    Contents = {clean, dirty, other}
    Versions = {v1, v2}
    Keys = {k1, k2}
    Sessions = {s1, s2}
    KeyOf <- MCKeyOf
    Declared <- MCDeclared
    Judgements <- MCJudgements
    Limit = 1
    Workers = {w1}
    Rank <- MCRank
    SweepLimit = 1
    MaxRetries = 1
CHECK_DEADLOCK FALSE
INVARIANTS OneRowPerChecksum OverfullNeedsOverlap BytesAreDeclared
           ReplayMatchesVerdict
PROPERTIES ImplementsUploadContract RetriedUploadConfirms
