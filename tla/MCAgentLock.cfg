\* Requests r1 and r2 of one process and r3 of another, for one agent.  Either
\* r1 or r3 has no agent id; the other two compete again and again.  Every
\* interleaving of lost, late and repeated commands with expiry and crashes;
\* r2 may hang in fn for ever.
SPECIFICATION FairSpec
CONSTANTS
  r1 = r1
  r2 = r2
  r3 = r3
  p1 = p1
  p2 = p2
  a1 = a1
  Requests = {r1, r2, r3}
  Processes = {p1, p2}
  Agents = {a1}
  ProcOf <- MCProcOf
  AgentOf <- MCAgentOf
  AnonymousSets = {{r1}, {r3}}
  Stuck = {r2}
  Attempts = 2
  MaxAcquires = 2
  NoToken = NoToken
INVARIANTS
  TypeOK
  ExclusionWhileLeased
  HolderOwnsKey
PROPERTIES
  ImplementsLease
  EveryRequestReturns
  LocksDrain
CHECK_DEADLOCK FALSE
