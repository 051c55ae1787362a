SPECIFICATION TrackingSpec
CONSTANTS
    r1 = r1
    r2 = r2
    u1 = u1
    golang = golang
    ghost = ghost
    Request = {r1, r2}
    Worker = {w1}
    Message = {m1, m2}
    Email <- Emails
    Repo = {golang, ghost}
    Asks <- Wishes
    Leave = {u1}
    Leaves <- Golang
    OnGithub = {golang}
    None = None
    MaxId = 1
    MaxFaults = 0
    MaxCrashes = 0
    MaxRepoFaults = 1
    MaxRepoCrashes = 0
SYMMETRY Interchangeable
INVARIANTS
    CompletedIsTracked
    AnswersAreTrue
CHECK_DEADLOCK FALSE
