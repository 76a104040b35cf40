SPECIFICATION RunsSpec
CONSTANTS
  IntBits = 6
  DIntBits = 12
  RealUnit = 4
  ClockMod = 64
  Sources <- MCSources
  Programs <- MCPrograms
  Globals <- MCGlobals
  GlobalNames <- MCGlobalNames
  Samples <- Sampled
  Gaps = {2}
  Cycle = 2
  StackLimit = 12
  LocalLimit = 10
  DepthLimit = 4
  MaxSteps = 200
  MaxScans = 3
  MaxDepth = 32
  MaxVars = 16
  MaxLoops = 8
  MaxInstances = 8
  MaxFbs = 16
  MaxFuns = 16
  MaxCode = 2048
  Kinds = {"R_TRIG", "F_TRIG", "SR", "RS", "HYSTERESIS", "BLINK", "FILTER",
           "TON", "TOF", "TP", "CTU", "CTD", "CTUD"}
  Presets <- MCPresets
  Signal <- MCSignal
CHECK_DEADLOCK FALSE
INVARIANTS RunsAsWritten CodeVerified NeverStrays HistoryDecides
