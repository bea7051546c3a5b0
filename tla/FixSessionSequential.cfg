\* One request at a time, every decision, edited commands, a restart and a dead request.
SPECIFICATION Spec
CONSTANTS
    None = None
    f1 = f1
    f2 = f2
    ghost = ghost
    good = good
    bad = bad
    Clients = {c1}
    Fixes = {f1, f2}
    UnknownFixes = {ghost}
    Steps <- MCSteps
    Commands = {good, bad}
    SafeCommands = {good}
    Shortlist = {f2}
    DryRun = FALSE
    MaxRedo = 1
    Decisions = {"continue", "redo", "manual", "autonomous"}
    Picks = {None, f1, ghost}
    Edits = {None, good}
    MaxStarts = 2
    MaxPosts = 7
    MaxDeaths = 1
INVARIANTS
    TypeOK
    CompletedMeansEveryStepActed
    IndexIsBacked
    ResultsFollowPlan
    EachVisitHasItsOwnApproval
    RepeatsAreAccounted
    RecordIsOfThisRun
PROPERTIES
    ImplementsReplay
    PickIsReplayed
    ExecutedOutputIsKept
CHECK_DEADLOCK FALSE
