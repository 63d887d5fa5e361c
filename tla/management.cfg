SPECIFICATION Spec
CONSTANTS
  None = None
  Client = {c1, c2}
  Agent <- MCAgent
  Socket <- MCSocket
  Task <- MCTask
  Starts <- MCStarts
  QueueSize = 2
CHECK_DEADLOCK FALSE
INVARIANTS
  TypeOK NewestArrives
PROPERTIES
  QuietOnceReplaced AgentReturns
