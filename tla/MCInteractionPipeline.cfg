\* Two interactions against two calls of the agent handlers.
SPECIFICATION Spec
CONSTANTS
  r1 = r1
  r2 = r2
  p1 = p1
  p2 = p2
  a1 = a1
  Requests = {r1, r2}
  Processes = {p1, p2}
  Agents = {a1}
  ProcOf <- MCProcOf
  AgentOf <- MCAgentOf
  MaxAdmin = 2
  NoState = NoState
INVARIANTS
  TypeOK
  HolderSeesCurrentState
  RowsAreJustified
PROPERTY StateIsCumulative
CHECK_DEADLOCK FALSE
