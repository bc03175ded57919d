SPECIFICATION Spec
CONSTANTS
  agent = agent
  human = human
  main = main
  t1 = t1
  t2 = t2
  k1 = k1
  k2 = k2
  w1 = w1
  w2 = w2
  w3 = w3
  None = None
  Transitions = {t1, t2}
  Tokens = {k1, k2}
  Workers = {w1, w2, w3}
  Principals <- MCPrincipals
  Branches <- MCBranches
  Admins <- MCAdmins
  AgentOf <- MCAgentOf
  BranchOf <- MCBranchOf
  Commands = {"decide", "mark_uncertain", "reconcile_succeeded"}
  Faults = {"lost_reply"}
SYMMETRY Symmetry
INVARIANTS
  TrailFollowsStage
  NoChangeForgotten
PROPERTIES
  ImplementsLifecycle
CHECK_DEADLOCK FALSE
