\* A webhook and a poll meet at one alert.
SPECIFICATION Spec
CONSTANTS
    Pollers = {p1}
    Tasks = {t1}
    PageSize = 1
    NoTag = NoTag
    MaxAlerts = 1
    MaxRequests = 1
    MaxFailures = 0
    MaxDeaths = 0
INVARIANT
    OneRunPerAlert
