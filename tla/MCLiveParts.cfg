SPECIFICATION LiveSpec
CONSTANTS
  ta = ta  tb = tb  tc = tc
  Programs = {0, 1, 2}
  Texts = {ta, tb, tc}
  NoText = NoText
  Noise = Noise
  SizeOf <- MCSizeOf
  PoolSize = 5
  Tasks = {"http", "loop"}
  Addresses <- MCAddresses
  Rules <- MCRules
  Backups <- MCBackups
  MaxRules = 2
  AclCalls = 3
  Timeout = 1
  ClockMod = 8
  Delay = 2
  MaxUploads = 3
  MaxClients = 1
  Limits = {1}
  Counters = {}
  Timers = {}
  Registers = {"r"}
  First = {"r"}
  Statistics = {}
  External = {"x"}
  Queries <- MCQueries
  Values = {0, 1, NoEntry}
  NoEntry = NoEntry
  NoItem = NoItem
  Setups = {{"wifi"}, {"ethernet"}}
  Servers = {"http"}
  Interval = 1
  MaxInterval = 2
  DhcpTimeout = 1
  JoinTimeout = 1
  MaxEvents = 1
PROPERTY IsAStore
PROPERTY MgmtNeverCloses
PROPERTY LockOutEnds
PROPERTY DoneMeansStarted
PROPERTY ChangesArrive
PROPERTY LinksComeBack
CHECK_DEADLOCK FALSE
