SPECIFICATION Spec
CONSTANTS
  agent = agent
  human = human
  main = main
  t1 = t1
  t2 = t2
  k1 = k1
  k2 = k2
  w1 = w1
  w2 = w2
  None = None
  Transitions = {t1, t2}
  Tokens = {k1, k2}
  Workers = {w1, w2}
  Principals <- MCPrincipals
  Branches <- MCBranches
  Admins <- MCAdmins
  AgentOf <- MCAgentOf
  BranchOf <- MCBranchOf
  Commands = {"cancel", "mark_uncertain", "reconcile_succeeded", "reconcile_failed"}
  Faults = {"crash", "db_error", "lost_reply"}
SYMMETRY Symmetry
INVARIANTS
  BranchChainIsLinear
PROPERTIES
  ProxyKeepsExpectation
CHECK_DEADLOCK FALSE
