SPECIFICATION Spec
CONSTANTS
    r1 = r1
    r2 = r2
    Request = {r1, r2}
    Worker = {w1}
    Message = {m1}
    Email <- Emails
    Repo <- Repos
    Asks <- SameTwice
    None = None
    MaxFaults = 1
    MaxCrashes = 0
PROPERTY StaysUp
CHECK_DEADLOCK FALSE
