SPECIFICATION FairSpec
CONSTANTS
    Subscriber = {s1, s2}
    Event = {e1}
    Confirmation = Confirmation
    MaxRequests = 1
    MaxFailures = 1
INVARIANTS TypeOK NobodyForgotten OnlyInvited FewRepeats
PROPERTIES EverybodyHears KeepsMailing
CHECK_DEADLOCK FALSE

