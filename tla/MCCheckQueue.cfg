CONSTANTS
    Workers = {w1, w2}
    Master = m
    Checks = {good1, good2, bad1, bad2}
    Passing = {good1, good2}
    BatchSize = 2
SPECIFICATION FairSpec
INVARIANTS
    WaitTellsTheTruth
    CountersExact
PROPERTY
    WaitReturns
