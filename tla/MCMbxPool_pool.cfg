SPECIFICATION Spec
CONSTANTS
  w1 = w1  w2 = w2  c1 = c1  c2 = c2  c3 = c3
  b1 = b1  b2 = b2  ip1 = ip1  ip2 = ip2
  NoChannel = NoChannel  NoWorker = NoWorker
  NoAddress = NoAddress  NoReq = NoReq
  Workers = {w1, w2}
  Channels = {c1, c2, c3}
  Boards = {b1, b2}
  BoardOf <- MCBoardOf
  Addresses = {ip1}
  Slots = 2
  QueueLimit = 2
  MaxReqs = 3
  MaxEdits = 0
  MaxPauses = 0
  LockTimeouts = TRUE
  Leaks = FALSE
  Reaps = TRUE
  Classes = {0, 1}
  StarvationAge = 1  ExtAge = 1
SYMMETRY Symmetric
INVARIANTS ChannelSerial WritesInOrder AnswersMatch
PROPERTY SocketUntouched
