SPECIFICATION Spec
CONSTANTS
    Txs = {t1, t2}
    Total = 2
    Amounts = {1, 2}
    MaxInvoices = 2
    MaxNumber = 4
    MaxReceived = 3
SYMMETRY TxSymmetry
INVARIANTS
    TypeOK
    PaidIsCovered
    StatementIsChased
PROPERTY DocumentNumbers
