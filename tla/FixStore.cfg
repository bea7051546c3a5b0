\* Two writers, passes again and again and another script that starts, faults and a killed process.
SPECIFICATION FairSpec
CONSTANTS
    Writers = {w1, w2}
    Workers = {k1}
    Starters = {s1}
    BatchSize = 1
    Limits <- MCLimits
    NoLimit = NoLimit
    MaxAttempts = 2
    MaxFixes = 2
    MaxStarts = 1
    MaxFaults = 2
    MaxDeaths = 1
INVARIANTS
    TypeOK
    VectorsHaveRows
    PassClosesGaps
    CountsAddUp
PROPERTY
    EveryFixIsIndexed
