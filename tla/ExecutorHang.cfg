\* A descendant of the command holds its pipes.
SPECIFICATION HungSpec
CONSTANTS
    Calls = {x1}
    Commands <- MCCommands
    Allowlist <- MCAllowlist
    Fixes = {f1}
    Profiles <- MCProfiles
    Smoothing = 2
    TopN = 2
    Multiplier = 1
PROPERTIES
    HardTimeout
CHECK_DEADLOCK FALSE
