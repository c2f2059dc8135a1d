CONSTANTS
    base = base
    pay = pay
    chained = chained
    rival = rival
    theirs = theirs
    inflated = inflated
    derived = derived
    imported = imported
    None = None
    TxIds = {base, pay, chained, rival, theirs, inflated}
    Base = {base}
    Accounts = {derived, imported}
    MaxBatchEntries = 2
    MaxPsbtInputs = 2
    MaxPsbtOutputs = 4
    MaxSignInputs = 2
    MaxHistory = 3
    InventoryScripts <- MCInventoryScripts
    Tx <- MCTx
    Signable <- MCSignable
    Batches <- MCBatches
SPECIFICATION Spec
INVARIANTS TypeOK ShownIsTrue SignsOnlyOwn BatchConfirmsInOrder UnspentAtRequest
CHECK_DEADLOCK FALSE
