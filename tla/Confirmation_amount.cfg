CONSTANTS
    None = None
    Keys <- MCKeys
    NUMS <- MCNums
    KnownGuardians <- MCKnownGuardians
    MaxDataRows = 1
    Requests <- MCRequests
    wallet = wallet
    first = first
    second = second
    chain = chain

SPECIFICATION Spec

INVARIANT ActionAmountIsAllocated

CHECK_DEADLOCK FALSE
