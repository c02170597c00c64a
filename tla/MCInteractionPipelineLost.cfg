\* What the design document says of the lock, under a lapsing lease.
SPECIFICATION Spec
CONSTANTS
  r1 = r1
  r2 = r2
  p1 = p1
  p2 = p2
  a1 = a1
  Requests = {r1, r2}
  Processes = {p1, p2}
  Agents = {a1}
  ProcOf <- MCProcOf
  AgentOf <- MCAgentOf
  MaxAdmin = 0
  NoState = NoState
INVARIANT LockPreventsLostUpdates
CHECK_DEADLOCK FALSE
