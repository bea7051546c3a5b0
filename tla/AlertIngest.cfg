\* A poller beside webhooks; alerts are raised while it lists them page by page.
SPECIFICATION FairSpec
CONSTANTS
    Pollers = {p1}
    Tasks = {t1}
    PageSize = 1
    NoTag = NoTag
    MaxAlerts = 3
    MaxRequests = 2
    MaxFailures = 1
    MaxDeaths = 1
INVARIANTS
    TypeOK
    NoAlertIsMissed
    SeenHasRun
    RunsAreBounded
PROPERTY
    EveryAlertIsTaken
