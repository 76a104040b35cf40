SPECIFICATION Spec
CONSTANTS
  plain = plain  usesA = usesA  usesB = usesB  wrong = wrong
  a = a  b = b
  blockAB = blockAB  blockBA = blockBA  blockA = blockA  blockBad = blockBad
  Programs = {0, 1}
  Texts = {plain, usesA, usesB, wrong}
  NoFile = NoFile  Torn = Torn
  NoText = NoText  Noise = Noise  NoName = NoName
  NoGlobals = NoGlobals  Broken = Broken
  SizeOf <- MCSizeOf
  PoolSize = 3
  Valid = {plain, usesA, usesB}
  UsesOf <- MCUsesOf
  IrNeed <- MCIrNeed
  IrPoolSize = 3
  GTexts = {blockAB, blockBA, blockBad}
  LayoutOf <- MCLayoutOf
  Intervals = {2, 10}
  MinInterval = 2
  DefaultInterval = 10
  Backups <- MCBackups
  MaxCalls = 4
  HeapFails = TRUE
  PowerFails = TRUE
CHECK_DEADLOCK FALSE
INVARIANTS RunsItsText BootRunsSaved
PROPERTY OnlyBootMisbinds
