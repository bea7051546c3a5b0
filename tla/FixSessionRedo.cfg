\* A redo is answered by moving on.
SPECIFICATION Spec
CONSTANTS
    None = None
    f1 = f1
    f2 = f2
    ghost = ghost
    good = good
    bad = bad
    Clients = {c1}
    Fixes = {f1, f2}
    UnknownFixes = {ghost}
    Steps <- MCSteps
    Commands = {good, bad}
    SafeCommands = {good}
    Shortlist = {}
    DryRun = FALSE
    MaxRedo = 3
    Decisions = {"continue", "redo", "manual", "autonomous"}
    Picks = {None, f1}
    Edits = {None}
    MaxStarts = 1
    MaxPosts = 5
    MaxDeaths = 0
PROPERTY
    RedoRepeatsTheStep
CHECK_DEADLOCK FALSE
