SPECIFICATION GuiSpec
CONSTANTS
    w1 = w1  w2 = w2  t1 = t1  t2 = t2
    Wallet = {w1}
    NoWallet = NoWallet
    TxID = {t1}
    Signer <- MCSigner
    NoTx = NoTx
    Metric = {}
    MaxClients = 2
    MaxSeq = 1
INVARIANT SentIsRecorded
