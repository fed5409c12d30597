CONSTANTS
  NoItem = NoItem
  Items = {i1, i2}
  Workers = {w1, w2}
  Stoppers = {s1}
  Drainers = {d1, d2}
  Threads = {t1, t2, t3, t4}
  Clients = {c1, c2, c3}
  Nobody = Nobody
  TTL = 3
  Callers = {p1, p2, p3}
  Channels = {unbuffered, buffered}
  Capacity <- MCCapacity
  unbuffered = unbuffered
  buffered = buffered
  MaxMessages = 2
  Delays = {0, 1}
  Intervals = {1}
  MaxWall = 1
  MaxTasks = 3
  MaxContexts = 3
  MaxResets = 2
  MaxControls = 2
SPECIFICATION SyncSpec
INVARIANTS
  QueueIsSound
  NoLostWakeup
  RWMutexIsSound
  ChannelIsSound
  LockIsSound
  ClockIsSound
PROPERTIES
  ImplementsWorkSet
  NoOvertaking
  DelaysGoRight
CHECK_DEADLOCK FALSE
