SPECIFICATION PaySpec
CONSTANTS
    SLHDSASigLen = 253
    SLHDSAPKLen = 32
    Far = 8388607
    Payees <- MCPayees
    Source <- MCSource
    SourceKey <- MCSourceKey
    OwnProgram <- MCOwnProgram
    MaxMistakes = 2
    Places = {3, 5, 56, 62}
    Typed = {"q", "s", "1"}
    Decimals = 2
    MaxInt64 = 32767
    Amounts <- MCAmounts
    Changes = {0, 300}
    BadBytes = {0, 253}
INVARIANTS PaysWhatWasShown NodeReadsWhatWasSigned OffersWhatWasSigned
