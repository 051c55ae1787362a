SPECIFICATION FairSpec
CONSTANTS
    Id = {1, 2, 3}
    MaxFaults = 1
    MaxCrashes = 2
INVARIANTS
    TypeOK
    PublishedWasCommitted
    FewCopies
PROPERTIES
    NeverAfterMark
    DeliversAtLeastOnce
    RecordsAreProcessed
    CommittedArrives
