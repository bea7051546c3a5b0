\* An engineer who always answers, with any answer: the session ends.
SPECIFICATION FairSpec
CONSTANTS
    None = None
    f1 = f1
    f2 = f2
    ghost = ghost
    good = good
    bad = bad
    Clients = {c1}
    Fixes = {f1, f2}
    UnknownFixes = {ghost}
    Steps <- MCSteps
    Commands = {good, bad}
    SafeCommands = {good}
    Shortlist = {}
    DryRun = TRUE
    MaxRedo = 1
    Decisions = {"continue", "redo", "manual", "autonomous", "other"}
    Picks = {None, f1, ghost}
    Edits = {None}
    MaxStarts = 1
    MaxPosts = 12
    MaxDeaths = 2
PROPERTY
    SessionEnds
CHECK_DEADLOCK FALSE
