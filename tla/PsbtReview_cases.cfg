CONSTANTS
    regtest = regtest
    mutinynet = mutinynet
    mainnet = mainnet
    None = None
    Mainnet = mainnet
    NUMS <- MCNums
    Keys <- MCKeys
    Guardians <- MCGuardians
    Cases <- MCCases
SPECIFICATION Spec
INVARIANTS TypeOK LeavesAreCanonical SignaturesAreOwnSpends TimeoutSpendMatures ShownIsSigned MineIsOwn BeforeIsOwnVault
CHECK_DEADLOCK FALSE
