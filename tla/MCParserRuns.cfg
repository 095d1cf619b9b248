\* Two ticks or operators over two files; a tick lists both.
SPECIFICATION FairSpec
CONSTANTS
    f1 = f1  f2 = f2
    v1 = v1
    w1 = w1  w2 = w2
    None = None
    Files = {f1, f2}
    Versions = {v1}
    Workers = {w1, w2}
    Rank <- MCRank
    SweepLimit = 2
    MaxRetries = 3
CHECK_DEADLOCK FALSE
INVARIANTS OneWorkerPerRun DerivedInOrder
PROPERTY SweptFileSettles
