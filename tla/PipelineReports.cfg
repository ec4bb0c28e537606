CONSTANTS
  p1 = p1  p2 = p2  a = a  b = b  c = c  x = x  A = A  B = B  C = C  X = X
  scan = scan  live = live  NoPath = NoPath  NoTask = NoTask  NoTable = NoTable
  Paths = {p1}
  Present = {p1}
  Attachments = {}
  Tasks = {a, b, c}
  Tables = {A, B, C}
  Registered <- JoinOrder
  TasksFor <- JoinFor
  Reads <- JoinReads
  Writes <- JoinWrites
  AllInputs = {a, b, c}
  Openers = {}
  Also <- NoneAlso
  Children <- NoneAlso
  Containers = A
  BatchSize <- One
  MaxWorkers <- FirstTwo
  PoolSize = 2
  Reporters = {scan}
  Budget <- AllowEditCrash
  Calm = FALSE
SPECIFICATION Spec
INVARIANTS NoLostTrigger
