\* Two calls of the executor; three fixes, searches of two, two fixes shown.
SPECIFICATION ToolsSpec
CONSTANTS
    Calls = {x1, x2}
    Commands <- MCCommands
    Allowlist <- MCAllowlist
    Fixes = {f1, f2, f3}
    Profiles <- MCProfiles
    Smoothing = 2
    TopN = 2
    Multiplier = 1
INVARIANTS
    AnswerTellsTheChild
    AgreementComesFirst
    StaleComesLast
PROPERTIES
    CallsEnd
CHECK_DEADLOCK FALSE
