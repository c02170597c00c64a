\* Two interactions of one agent, whose writes are outside the lock.
SPECIFICATION Spec
CONSTANTS
  r1 = r1
  r2 = r2
  Requests = {r1, r2}
  Inputs <- MCInputs
  Rows <- MCRows
  LegacyIds = {"goal_1", "goal_2"}
  Rank <- MCRank
  MaxRank = 11
  MaxLate = 1
  NoRequest = NoRequest
SYMMETRY MCSymmetry
INVARIANTS
  TypeOK
  ResolveRequestIsActive
  StrongGoalsFollowContext
