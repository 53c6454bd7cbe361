SPECIFICATION FileSpec
CONSTANTS
    gui = gui  cli = cli  s1 = s1  s2 = s2  f1 = f1  f2 = f2
    Process <- MCProcess
    Seed <- MCSeed
    File <- MCFile
    NoFile = NoFile
    NoSeed = NoSeed
    PoolSize = 2
    MaxUsed = 1
INVARIANTS FInv CreatedStays OneSeedPerFile OpenIsReopenable NobodyWaitsInACircle
