\* More passed files than one tick lists.
SPECIFICATION FairSpec
CONSTANTS
    f1 = f1  f2 = f2
    v1 = v1
    w1 = w1
    None = None
    Files = {f1, f2}
    Versions = {v1}
    Workers = {w1}
    Rank <- MCRank
    SweepLimit = 1
    MaxRetries = 1
CHECK_DEADLOCK FALSE
PROPERTY EveryPassedFileIsActivated
