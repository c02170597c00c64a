\* What the design document says of the ownership token.
SPECIFICATION Spec
CONSTANTS
  r1 = r1
  r2 = r2
  r3 = r3
  p1 = p1
  p2 = p2
  a1 = a1
  Requests = {r1, r2, r3}
  Processes = {p1, p2}
  Agents = {a1}
  ProcOf <- MCProcOf
  AgentOf <- MCAgentOf
  AnonymousSets = {{}}
  Stuck = {}
  Attempts = 1
  MaxAcquires = 1
  NoToken = NoToken
PROPERTY ReleasesOnlyItsOwnLock
CHECK_DEADLOCK FALSE
