SPECIFICATION MCSpec
CONSTANTS
  agent = agent
  other = other
  proj = proj
  trunk = trunk
  alice = alice
  service = service
  Service = service
  deny = deny
  exempt = exempt
  widen = widen
  review = review
  late = late
  open = open
  guide = guide
  broken = broken
  Null = Null
  Glob <- MCGlob
  Policies <- MCPolicies
  Catalog <- MCCatalog
  Queries <- MCQueries
  LastInstant = 3
  Definition <- MCDefinition
  Requests = {"request"}
  Content <- MCContent
  Approvers = {service}
  BranchesOf <- MCBranchesOf
  Revalidates = TRUE
INVARIANTS
  UnmatchedIsAllowed
CHECK_DEADLOCK FALSE
