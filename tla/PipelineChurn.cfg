CONSTANTS
  p1 = p1  p2 = p2  a = a  b = b  c = c  x = x  A = A  B = B  C = C  X = X
  scan = scan  live = live  NoPath = NoPath  NoTask = NoTask  NoTable = NoTable
  Paths = {p1, p2}
  Present = {p1}
  Attachments = {}
  Tasks = {x, a, c}
  Tables = {A, C, X}
  Registered <- BoxOrder
  TasksFor <- BoxFor
  Reads <- BoxReads
  Writes <- BoxWrites
  AllInputs = {x, a, c}
  Openers = {x}
  Also <- BoxAlso
  Children <- BoxChildren
  Containers = X
  BatchSize <- Two
  MaxWorkers <- One
  PoolSize = 2
  Reporters = {scan}
  Budget <- AllowChurn
  Calm = TRUE
SPECIFICATION Spec
INVARIANTS PermitsAddUp FreshWhenQuiet  NoGhosts ChildrenFollow
