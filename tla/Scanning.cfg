SPECIFICATION FairSpec
CONSTANTS
    golang = golang
    ghost = ghost
    rust = rust
    AboutRust = {p1}
    AboutGhost = {d2}
    Register = {d1, d2}
    Untrack = {u1}
    Post = {p1}
    Repo = {golang, rust, ghost}
    Names <- Named
    OnGithub = {golang, rust}
    None = None
    MaxTag = 1
    MaxId = 2
    MaxFaults = 1
    MaxCrashes = 0
INVARIANT RepliesAreTrue
PROPERTY ReleasesAreSeen
