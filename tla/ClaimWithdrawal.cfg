SPECIFICATION Spec
CONSTANTS
  agent = agent
  human = human
  main = main
  t1 = t1
  k1 = k1
  w1 = w1
  w2 = w2
  None = None
  Transitions = {t1}
  Tokens = {k1}
  Workers = {w1, w2}
  Principals <- MCPrincipals
  Branches <- MCBranches
  Admins <- MCAdmins
  AgentOf <- MCAgentOf
  BranchOf <- MCBranchOf
  Commands = {"cancel", "expire"}
  Faults = {}
SYMMETRY Symmetry
PROPERTIES
  NoWithdrawalDuringExecution
CHECK_DEADLOCK FALSE
