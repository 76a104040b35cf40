SPECIFICATION Spec
CONSTANTS
  Tasks = {"http", "loop"}
  Names = {"a", "b"}
  Regs = {1, 2}
  Values = {0, 1}
  MaxGroups = 2
  MaxRegs = 2
  MaxAuto = 1
  GroupCalls = 5
  SafeStreak = 3
  MaxStreak = 4
  MaxEnds = 6
  MaxValue = 3
  PcntMod = 5
  Big = 16
  Burst = 2
  CounterCalls = 2
  TimerMod = 4
  TimerCalls = 2
  Origins = {19, 21, 22, 24, 26, 29, 30, 32, 34}
  Editable = {"head"}
  SettingCalls = 6
  ConfigCalls = 3
  Top = 2
  MaxQuantity = 2
  Silence = 2
  BufferMax = 4
  MaxSent = 2
  MaxNoise = 1
  MaxClients = 2
  Limits = {0, 1, 2}
  Counters = {}
  Timers = {}
  Registers = {}
  First = {}
  Statistics = {}
  External = {}
  Queries <- MCQueries
  NoEntry = NoEntry
  NoItem = NoItem
  BusTask = "task"
  Consoles = {"loop"}
  RateOf <- MCRateOf
  Rates = {"r1", "r2"}
  Asks <- MCAsks
  MaxAsked = 2
  Sends <- MCSends
  Types <- MCTypes
  WebLines <- MCWebLines
  Accounts <- MCAccounts
  UploadLine <- MCUploadLine
  EndLine <- MCEndLine
  ExitLine <- MCExitLine
  LineSize = 2
  UploadSize = 4
  HistorySize = 2
  PasteMax = 4
  MaxAttempts = 2
  TerminalCalls = 4
INVARIANT ValuesFollow
INVARIANT CrashLoopIsCaught
INVARIANT EveryEdgeOnce
INVARIANT CopiesComeBack
INVARIANT RoomWhenIdle
INVARIANT AnswersAreFresh
INVARIANT LinesAreTheirs
PROPERTY SavedComesBack
PROPERTY PhasesLast
PROPERTY SettingsSurvive
PROPERTY RestoreGivesBackup
PROPERTY QuestionsAreAnswered
CHECK_DEADLOCK FALSE
