CONSTANTS
  e = e  f = f  ch = ch  E = E  NoTask = NoTask
  Tasks = {e, f}
  Channels = {ch}
  Tables = {E}
  Listens <- ChainListens
  Reads <- ChainReads
  Writes <- ChainWrites
  MaxWorkers <- One
  PoolSize = 2
  Slots = {1, 2, 3}
  Emitters = {1}
  Movable = {e}
  Budget <- AllowAll
  Together = 3
SPECIFICATION Spec
INVARIANTS RunOnce PermitsExact SubscriptionsExact ChainExact
PROPERTIES RunsResolve
CHECK_DEADLOCK FALSE
