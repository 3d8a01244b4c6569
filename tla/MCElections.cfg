SPECIFICATION MCSpec
CONSTANTS
    none = none  a = a  b = b  c = c  d = d
    i1 = i1  i2 = i2  i3 = i3
    None = none
    Supply = 100
    Quorum = 50
    MinimumWeight = 30
    AnnouncementMin = 2
    RetryLimit = 1
    ForcedMax = 1
    Hash <- MCHash
    Root <- MCRoot
    Previous <- MCPrevious
    Source <- MCSource
    Rep <- MCRep
    Weight <- MCWeight
    Ballot <- MCBallot
    Startable = {1, 3}
    Id = {i1, i2, i3}
    AnnouncementLong = 2
    BlockLimit = 1
    EscalationLimit = 100
    Watched = {}
    MayErase = TRUE
    MayStop = TRUE
    Scenarios = {"fork", "chain", "erase"}
INVARIANTS
    WinnerFollowsVotes ElectionsIndexed
PROPERTIES
    ConfirmedRightly OnlyFinishedLeave
