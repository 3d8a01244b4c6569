SPECIFICATION MCSpec
CONSTANTS
    zero = zero
    epochlink = epochlink
    epochkey = epochkey
    G = G
    A = A
    B = B
    Zero = zero
    EpochLink = epochlink
    EpochSigner = epochkey
    Genesis = "genesis"
    Hash <- MCHash
    Content <- MCContent
    Account <- MCAccount
    AmountLimit <- MCAmountLimit
    Deliveries <- AllDeliveries
    Damaged <- AllDamaged
    Winners <- AllWinners
    ForcedMax = 1
    VerifyMax = 2
    RolledBackMax = 1
    MaxCrashes = 1
    MayFlush = TRUE
    MayStop = TRUE
    Scenarios = {"arrival", "signatures", "contest", "misplaced", "damaged"}
INVARIANTS
    ArrivalsHeld
PROPERTIES
    LedgerSafety FlushReturns AllArrive WinnerInserted
