SPECIFICATION Spec
CONSTANTS
  st1 = st1  st2 = st2  ext1 = ext1
  NoOp = NoOp  NoRequest = NoRequest  NoSlave = NoSlave
  StCallers = {st1}
  ExtCallers = {}
  Addrs = {1, 2}
  Slaves = {1}
  SlaveOf <- MCSlaveOf
  Vals = {0, 1}
  Zero = 0
  Ops <- AllOps
  MaxOps = 3
  QueueLimit = 1
  SemMax = 2
  SeqWrap = 8
  PoolSize = 2
  MaxCount = 2
  CacheLimit = 1
  BackoffSlots = 1
  BackoffInit = 1  BackoffMax = 2  BackoffDecay = 2
  StaleLimit = 1
  SweepInterval = 1
  StarvationAge = 1  ExtAge = 2
  TtlSet = TRUE
  MutexTimeouts = TRUE
  BusResults = {"ok", "timeout", "other"}
  FilterResults = {"accept", "hold", "invalid"}
PROPERTY WritesKept
