CONSTANTS
    None = None
    Keys <- MCKeys
    NUMS <- MCNums
    KnownGuardians <- MCKnownGuardians
    MaxDataRows = 1
    Requests <- MCRequests
    wallet = wallet
    first = first
    second = second
    chain = chain

SPECIFICATION Spec

INVARIANTS
    TypeOK
    AllOrNothing
    NothingLeavesUnseen
    UnitShownIsAllocated
    BeforeIsSpentVault
    AppFiguresYield

CHECK_DEADLOCK FALSE
