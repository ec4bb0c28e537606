CONSTANTS
  c1 = c1  c2 = c2  tool = tool  tick = tick
  Callers = {c1, c2}
  Ticker = Ticker
  MaxMessages = 2
  Requests = {tool, tick}
  Background = {tick}
  AnyRequest = AnyRequest
  NoRequest = NoRequest
  MaxDrives = 2
  MaxSteps = 2
  Budget <- Twice
  Together = 2
SPECIFICATION Spec
INVARIANTS MessagesKept  FloorHasTurn MarkerRecovers
PROPERTIES QueuedIsHeard CallsReturn
CHECK_DEADLOCK FALSE
