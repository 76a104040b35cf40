SPECIFICATION Spec
CONSTANTS
  st1 = st1  st2 = st2  ext1 = ext1
  NoOp = NoOp  NoRequest = NoRequest  NoSlave = NoSlave
  StCallers = {st1}
  ExtCallers = {ext1}
  Addrs = {1, 2}
  Slaves = {1}
  SlaveOf <- MCSlaveOf
  Vals = {0, 1, 2}
  Zero = 0
  Ops <- WriteOps
  MaxOps = 4
  QueueLimit = 3
  SemMax = 3
  SeqWrap = 8
  PoolSize = 4
  MaxCount = 2
  CacheLimit = 1
  BackoffSlots = 1
  BackoffInit = 1  BackoffMax = 2  BackoffDecay = 2
  StaleLimit = 0
  SweepInterval = 0
  StarvationAge = 0  ExtAge = 0
  TtlSet = TRUE
  MutexTimeouts = FALSE
  BusResults = {"ok"}
  FilterResults = {"accept"}
INVARIANT NoLostWakeup
PROPERTY WritesAreFifo
