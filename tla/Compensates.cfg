SPECIFICATION Spec
CONSTANTS
    r1 = r1
    r2 = r2
    Request = {r1, r2}
    Worker = {w1}
    Message = {}
    Email <- Emails
    Repo <- Repos
    Asks <- SameTwice
    None = None
    MaxFaults = 0
    MaxCrashes = 0
PROPERTY CompensatesUnconfirmedOnly
CHECK_DEADLOCK FALSE
