SPECIFICATION MCSpec
CONSTANTS
  Null = Null
  Controller = "controller"
  Own = "own"
  Governed = {"ep_execute"}
  Secrets = {"docker socket"}
  Assertions = {"egress blocked"}
  AgentLifetime = 1
  MaxLifetime = 2
  Skew = 1
  Environments <- MCEnvironments
  Attestations <- MCAttestations
  Tool = "postgres.execute"
  Attested = {"select"}
  Horizon = 3
  Clients = {here, there}
  MaxRequests = 2
  Window = 2
  EndOfTime = 4
  Width = 3
  LastTick = 3
  MaxIds = 7
  Dialect = "postgresql"
  Operators = {first, second}
  Humans = {ann, ben}
  Agents = {bot}
  Tools <- MCTools
  Required <- MCRequired
  SetupTools = {"ep_list_policies"}
  Workers = {w1, w2}
  Regions = {north, south}
  ClaimIds = {c1, c2, c3}
  Restorers = {r1, r2}
  Keys = {k1}
  Submitters = {s1, s2, s3}
  MaxRows = 3
  Lattices = {l1, l2}
  Writers = {w1, w2}
  Data = {d1, d2}
  MaxEvents = 3
  Losses = {"drop", "alter"}
INVARIANTS
  IssuedUnderIsolation
  ExecutedUnderAttestation
  ProductionIssuesNothing
  LimitIsExact
  EqualOnlyAfterWrap
  AtMostOneAdministrator
  CompletedNamesAdministrator
  SetupEndsWithEnrollment
  OneHolderPerRegion
  NobodyLosesAClaim
  LiveWasCounted
  AtMostOneEffectPerKey
  ChainIsTheLog
  UndamagedVerifies
  AppendNeverConflicts
  VerifiedIsPrefix
CHECK_DEADLOCK FALSE
