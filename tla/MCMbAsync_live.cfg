SPECIFICATION FairSpec
CONSTANTS
  st1 = st1  st2 = st2  ext1 = ext1
  NoOp = NoOp  NoRequest = NoRequest  NoSlave = NoSlave
  StCallers = {st1}
  ExtCallers = {ext1}
  Addrs = {1, 2}
  Slaves = {1}
  SlaveOf <- MCSlaveOf
  Vals = {0, 1}
  Zero = 0
  Ops <- LiveOps
  MaxOps = 3
  QueueLimit = 2
  SemMax = 2
  SeqWrap = 8
  PoolSize = 2
  MaxCount = 2
  CacheLimit = 1
  BackoffSlots = 1
  BackoffInit = 1  BackoffMax = 1  BackoffDecay = 2
  StaleLimit = 1
  SweepInterval = 0
  StarvationAge = 0  ExtAge = 0
  TtlSet = TRUE
  MutexTimeouts = FALSE
  BusResults = {"ok", "timeout"}
  FilterResults = {"accept"}
PROPERTY PendingRecovers
PROPERTY QueueDrains
PROPERTY AgedNotOvertaken
