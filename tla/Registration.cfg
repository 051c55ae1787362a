SPECIFICATION Spec
CONSTANTS
    golang = golang
    ghost = ghost
    rust = rust
    AboutRust = {}
    AboutGhost = {}
    Register = {d1, d2}
    Untrack = {u1}
    Post = {}
    Repo = {golang}
    Names <- Named
    OnGithub = {golang}
    None = None
    MaxTag = 2
    MaxId = 2
    MaxFaults = 1
    MaxCrashes = 1
SYMMETRY Same
INVARIANTS
    TypeOK
    SeenWasAnnounced
    
    FewDuplicates
    RegisterIsAnswered
PROPERTIES
    SeenMovesForward
    FeedsReleases
