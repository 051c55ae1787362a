SPECIFICATION FairSpec
CONSTANTS
    Name <- SomeNames
    Pieces <- SomePieces
    Typed <- SomeTyped
    Unset = Unset
    None = None
    Mode = "rest"
    Email = {a, b}
    Subscribed = {a}
    Tag = {v1, Unset}
    Fetch = {own, f1, f2}
    own = own
    MaxVersion = 1
INVARIANTS
    TypeOK
    NeverBlank
    OneViewAtATime
    ShowsOwnFreshList
    LookupsAgree
PROPERTIES
    PastedUrlsWork
    ButtonComesBack
