CONSTANTS
  p1 = p1  p2 = p2  a = a  b = b  c = c  x = x  A = A  B = B  C = C  X = X
  scan = scan  live = live  NoPath = NoPath  NoTask = NoTask  NoTable = NoTable
  Paths = {p1}
  Present = {p1}
  Attachments = {}
  Tasks = {a, c}
  Tables = {A, C}
  Registered <- ChainOrder
  TasksFor <- ChainBothFor
  Reads <- ChainReads
  Writes <- ChainWrites
  AllInputs = {a, c}
  Openers = {}
  Also <- NoneAlso
  Children <- NoneAlso
  Containers = A
  BatchSize <- One
  MaxWorkers <- One
  PoolSize = 4
  Reporters = {scan}
  Budget <- AllowOutage
  Calm = TRUE
SPECIFICATION Spec
PROPERTIES Settles ClaimsResolve
