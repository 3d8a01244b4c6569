SPECIFICATION ServicesSpec
CONSTANTS
    none = none  a = a  b = b  c = c  d = d
    i1 = i1  i2 = i2  i3 = i3
    None = none
    Supply = 100
    Quorum = 50
    MinimumWeight = 30
    AnnouncementMin = 2
    RetryLimit = 1
    ForcedMax = 1
    Hash <- MCHash
    Root <- MCRoot
    Previous <- MCPrevious
    Source <- MCSource
    Rep <- MCRep
    Weight <- MCWeight
    Ballot <- MCBallot
    Startable = {1, 3}
    Id = {i1, i2, i3}
    AnnouncementLong = 2
    BlockLimit = 1
    EscalationLimit = 100
    Watched = {2}
    MayErase = TRUE
    MayStop = TRUE
    q1 = q1  q2 = q2  q3 = q3  n1 = n1
    Scenarios = {"store"}
    Receiver = {r1}  Processor = {p1}  Count = 3  Datagram = {d1, d2}  Empty = Empty
    WorkThread = {t1, t2}  WorkRequest = {q1, q2, q3}  WorkRoot <- MCWorkRoot
    Strict = {q3}  Distributed = {q3}  MaxCancels = 1  Nobody = Nobody
    Peer = {n1}  Addresses <- MCAddresses  BackoffLimit = 3  MaxFailures = 2
    PoolThread = {t1, t2}  BatchSize = 2  Cutoff = 5  SetSizes = {3, 5, 8}
    SequenceReader = {"generate", "hear"}  ReplayGap = 0
    MaxSequence = 2  MaxSequenceCrashes = 1
    QueueLevels <- MCLevels  VotingRep = {"big", "mid", "small"}  RepWeights <- MCRepWeights
    OnlineStake = 2000  MaxQueued = 5
    PerVote = 2  MaxAdded = 3
    Endpoint = {"own", "e", "g", "m", "f", "k"}  Own = "own"  Ip <- MCIp  Legacy = {"k"}
    Preconfigured = {"f"}  MaxPeersPerIp = 2  MaxFaults = 1  MaxRestarts = 1
    Seed = {"s", "r"}  Adhoc <- MCAdhoc  MaxIndex = 4  Gap = 3  SeedCounts = {0, 2}  UsedSets <- MCUsed
    WalletPassword = {"", "p"}  MaxCommands = 2  MaxWalletCrashes = 1
    WalletCaller = {c1, c2}  WalletId = {w1, w2}  FirstWallets = {w1}  MaxCallers = 3
    NoThread = NoThread
    SendId = {"i", "j", "k"}  Pays <- MCPays  MaxChain = 3  MaxSendCrashes = 1  MaxForks = 1
    Incoming = {"u", "v"}  SendAmount <- MCSendAmount  ReceiveMinimum = 2  HasPassword = TRUE
    MaxReceives = 2  MaxTroubles = 2
    OldAccounts = 2  OldChain = 2  Choice = {"x", "y"}  SidebandBatch = 17  MaxHeight = 3
    MaxWrites = 2  MaxHalts = 1
    AlarmOperation = {1, 2}  Final = 0  MaxTime = 1  MaxWaits = 2  Timeout = 1  MaxPayments = 1
CHECK_DEADLOCK FALSE
INVARIANT RestoreComplete
