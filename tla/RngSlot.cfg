CONSTANTS
  Thread = {th1, th2}
  NoThread = NoThread
  Seed = {s1, s2}
  System = System
  Zeros = Zeros
  MaxDraws = 2
SPECIFICATION RngSpec
INVARIANTS
  RngTypeOK
  CallbackIsExclusive
  KeyIsFromItsSeed
  RandomnessIsSystem
PROPERTIES
  CallsFinish
