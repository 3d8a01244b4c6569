SPECIFICATION MCSpec
CONSTANTS
    zero = zero
    epochlink = epochlink
    epochkey = epochkey
    G = G
    A = A
    B = B
    Zero = zero
    EpochLink = epochlink
    EpochSigner = epochkey
    Genesis = "genesis"
    Hash <- MCHash
    Content <- MCContent
    Account <- MCAccount
    AmountLimit <- MCAmountLimit
INVARIANTS
    NoFork NoDoubleReceive IInv TablesMatchBlocks RollbackAssertions
PROPERTIES
    RollbackTerminates
