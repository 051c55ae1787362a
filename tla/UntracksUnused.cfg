SPECIFICATION Spec
CONSTANTS
    r1 = r1
    r2 = r2
    Request = {r1, r2}
    Worker = {w1, w2}
    Message = {m1, m2}
    Email <- Emails
    Repo <- Repos
    Asks <- TwoEmails
    None = None
    MaxFaults = 0
    MaxCrashes = 0
PROPERTY UntracksUnused
CHECK_DEADLOCK FALSE
