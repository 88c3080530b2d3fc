SPECIFICATION Spec
CONSTANTS
    Txs = {t1, t2}
    NoTx = NoTx
    NoRow = NoRow
    Bodies <- MCBodies
    MaxSerial = 4
CHECK_DEADLOCK FALSE
INVARIANTS IntactChainVerifies
