SPECIFICATION Spec
CONSTANTS
  agent = agent
  human = human
  main = main
  t1 = t1
  k1 = k1
  k2 = k2
  w1 = w1
  w2 = w2
  w3 = w3
  None = None
  Transitions = {t1}
  Tokens = {k1, k2}
  Workers = {w1, w2, w3}
  Principals <- MCPrincipals
  Branches <- MCBranches
  Admins <- MCAdmins
  AgentOf <- MCAgentOf
  BranchOf <- MCBranchOf
  Commands = {"decide", "cancel", "expire", "mark_uncertain", "reconcile_succeeded", "reconcile_failed"}
  Faults = {"crash", "db_error", "lost_reply"}
SYMMETRY Symmetry
INVARIANTS
  TypeOK
  AtMostOneInvocation
  InvokedOnlyIfGranted
  OneNodePerTransition
  UncertainIsFlagged
  IInv
PROPERTIES
  DecisionsAreFinal
CHECK_DEADLOCK FALSE
