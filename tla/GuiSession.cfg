SPECIFICATION GuiSpec
CONSTANTS
    w1 = w1  w2 = w2  t1 = t1  t2 = t2
    Wallet = {w1, w2}
    NoWallet = NoWallet
    TxID = {t1, t2}
    Signer <- MCSigner
    NoTx = NoTx
    Metric = {peers}
    MaxClients = 2
    MaxSeq = 3
INVARIANTS RowsAreCurrent MetricsAreCurrent
