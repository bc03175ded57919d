-------------------------- MODULE EnforcementProofs -------------------------
(***************************************************************************)
(* Proofs of the invariants of Enforcement, for any environments,          *)
(* attestations and lifetimes. Each follows from what a running process    *)
(* remembers: a server that starts has seen a condition only if it held at *)
(* that moment, and what held once during the start is never forgotten; a  *)
(* proxy carries the fields of the attestation that it accepted.           *)
(***************************************************************************)
EXTENDS Enforcement, TLAPS

\* The clock runs behind no moment that is remembered.
TimesOK == /\ clock \in Nat /\ took \in Nat
           /\ began \in Nat /\ began <= clock
           /\ production \in BOOLEAN

\* What the looks already taken found to be in order has held since the start began.
OwnedSeen == "owned" \in held

ManifestSeen(tools) ==
    tools /= Null => "owned" \in held /\ (tools \subseteq Governed => "restricted" \in held)

AssertionsSeen(asserted) == Assertions \intersect asserted \subseteq held

SecretsSeen(sought, found) == \A x \in Secrets : x \in sought /\ x \notin found => x \in held

\* The record of a server that still looks has these fields and no others.
Looking(x) == x = [at |-> x.at, requested |-> x.requested, tools |-> x.tools,
                   asserted |-> x.asserted, sought |-> x.sought, found |-> x.found]

LooksSeen ==
    starting /= Null =>
        /\ server = Null
        /\ starting.at \in {"read", "probe"} => Looking(starting)
        /\ starting.at = "read" =>
              /\ OwnedSeen /\ AssertionsSeen(starting.asserted)
              /\ starting.sought = {} /\ starting.found = {}
        /\ starting.at = "probe" =>
              /\ ManifestSeen(starting.tools) /\ AssertionsSeen(starting.asserted)
              /\ SecretsSeen(starting.sought, starting.found)
        /\ starting.at = "verified" =>
              (starting.status = "enforced" => Conditions \subseteq held)

\* An active server has seen everything not long before its capability was made.
ServerIsolated ==
    server /= Null =>
        /\ server.trust = "unverified"
        /\ server.expires = began + took + AgentLifetime
        /\ server.active => Conditions \subseteq held

IssueInv == /\ TimesOK /\ LooksSeen /\ ServerIsolated
            /\ IssuedUnderIsolation /\ ProductionIssuesNothing

\* The checks leave nothing of the isolation out: with no failure, all that was looked at
\* was in order.
LEMMA EnforcedMeansPassed ==
    ASSUME NEW found, NEW tools, NEW asserted, NEW answered,
           Status(FailedChecks(found, tools, asserted, answered, FALSE)) = "enforced"
    PROVE  /\ found = {} /\ tools /= Null /\ tools \subseteq Governed
           /\ Assertions \subseteq asserted /\ answered
<1>1. FailedChecks(found, tools, asserted, answered, FALSE) = {}
  BY DEF Status
<1>2. found = {} /\ FailedManifest(tools) = {} /\ Assertions \subseteq asserted
      /\ FailedHealth(answered, FALSE) = {}
  BY <1>1 DEF FailedChecks, FailedAssertions
<1>3. answered
  BY <1>2 DEF FailedHealth, HealthPasses
<1>4. tools /= Null /\ tools \subseteq Governed
  <2>1. CASE tools = Null
    BY <1>2, <2>1 DEF FailedManifest
  <2>2. CASE tools /= Null /\ ~(tools \subseteq Governed)
    BY <1>2, <2>2 DEF FailedManifest
  <2> QED
    BY <2>1, <2>2
<1> QED
  BY <1>2, <1>3, <1>4

\* Nothing that held during the start is forgotten while the server starts or runs.
LEMMA HeldStays ==
    ASSUME held' = Held, starting /= Null, starting' /= Null
    PROVE  held \subseteq held' /\ Holding(env', proxy') \subseteq held'
BY DEF Held

LEMMA HeldFrozen ==
    ASSUME held' = Held, starting' = Null, server' /= Null
    PROVE  held' = held
BY DEF Held

\* What was seen stays seen as the history grows.
LEMMA LooksStay ==
    ASSUME LooksSeen, held \subseteq held', starting' = starting, server' = server
    PROVE  LooksSeen'
BY DEF LooksSeen, OwnedSeen, ManifestSeen, AssertionsSeen, SecretsSeen

LEMMA IssueInit == Init => IssueInv
BY DEF Init, IssueInv, TimesOK, LooksSeen, ServerIsolated, IssuedUnderIsolation,
       ProductionIssuesNothing

\* The conditions a server that starts relies on hold when it looks: the environment and
\* the proxy do not change in the step of the server itself.
LEMMA HoldingNow ==
    ASSUME held' = Held, starting' /= Null, UNCHANGED <<env, proxy>>
    PROVE  Holding(env, proxy) \subseteq held'
<1>1. Holding(env', proxy') = Holding(env, proxy)
  BY DEF Holding
<1> QED
  BY <1>1 DEF Held

\* What a step of the server's own writes into the record.
WithTools(x, t) == [x EXCEPT !.at = "probe", !.tools = t]

WithSought(x, s, f) == [x EXCEPT !.sought = s, !.found = f]

LEMMA ManifestRead ==
    ASSUME NEW x, Looking(x), NEW t, NEW y, y = WithTools(x, t)
    PROVE  /\ Looking(y) /\ y.at = "probe" /\ y.tools = t /\ y.asserted = x.asserted
           /\ y.sought = x.sought /\ y.found = x.found
<1> DEFINE R(tools) == [at : {x.at, "probe"}, requested : {x.requested}, tools : tools,
                        asserted : {x.asserted}, sought : {x.sought}, found : {x.found}]
<1>1. x \in R({x.tools})
  BY DEF Looking
<1>2. y \in R({t}) /\ y.at = "probe"
  BY <1>1 DEF WithTools
<1> QED
  BY <1>2 DEF Looking

LEMMA SecretSought ==
    ASSUME NEW x, Looking(x), NEW s, NEW f, NEW y, y = WithSought(x, s, f)
    PROVE  /\ Looking(y) /\ y.at = x.at /\ y.tools = x.tools /\ y.asserted = x.asserted
           /\ y.sought = s /\ y.found = f
<1> DEFINE R(sought, found) == [at : {x.at}, requested : {x.requested}, tools : {x.tools},
                                asserted : {x.asserted}, sought : sought, found : found]
<1>1. x \in R({x.sought}, {x.found})
  BY DEF Looking
<1>2. y \in R({s}, {f})
  BY <1>1 DEF WithSought
<1> QED
  BY <1>2 DEF Looking

LEMMA IssueStep == IssueInv /\ [Next]_vars => IssueInv'
<1> SUFFICES ASSUME IssueInv, [Next]_vars
             PROVE  IssueInv'
  OBVIOUS
<1> USE DeploymentAssumption DEF DeploymentAssumption
<1>1. ASSUME UNCHANGED vars
      PROVE  IssueInv'
  BY <1>1 DEF vars, IssueInv, TimesOK, LooksSeen, OwnedSeen, ManifestSeen, AssertionsSeen,
              SecretsSeen, ServerIsolated, IssuedUnderIsolation, ProductionIssuesNothing
<1>2. ASSUME Next
      PROVE  IssueInv'
  <2>1. held' = Held
    BY <1>2 DEF Next
  <2> DEFINE Quiet == /\ UNCHANGED <<production, serverVars>>
                      /\ deed' /= deed => deed'.did = "execute"
                      /\ clock' \in Nat /\ clock <= clock'
  <2>2. ASSUME Quiet
        PROVE  IssueInv'
    <3>1. starting' = starting /\ server' = server /\ began' = began /\ took' = took
      BY <2>2 DEF serverVars
    <3>2. TimesOK'
      BY <2>2, <3>1 DEF IssueInv, TimesOK
    <3>3. LooksSeen'
      <4>1. CASE starting = Null
        BY <3>1, <4>1 DEF LooksSeen
      <4>2. CASE starting /= Null
        BY <2>1, <3>1, <4>2, HeldStays, LooksStay DEF IssueInv
      <4> QED
        BY <4>1, <4>2
    <3>4. ServerIsolated'
      <4>1. server /= Null => held \subseteq held'
        BY <2>1, <3>1 DEF Held
      <4> QED
        BY <3>1, <4>1 DEF IssueInv, ServerIsolated
    <3>5. (IssuedUnderIsolation /\ ProductionIssuesNothing)'
      BY <2>2 DEF IssueInv, IssuedUnderIsolation, ProductionIssuesNothing
    <3> QED
      BY <3>2, <3>3, <3>4, <3>5 DEF IssueInv
  <2>3. CASE Tick
    BY <2>2, <2>3 DEF Tick, IssueInv, TimesOK
  <2>4. CASE ChangeEnvironment
    BY <2>2, <2>4 DEF ChangeEnvironment, IssueInv, TimesOK
  <2>5. CASE WriteFile
    BY <2>2, <2>5 DEF WriteFile, IssueInv, TimesOK
  <2>6. CASE Refresh
    BY <2>2, <2>6 DEF Refresh, IssueInv, TimesOK
  <2>7. CASE StartProxy
    BY <2>2, <2>7 DEF StartProxy, IssueInv, TimesOK
  <2>8. CASE StopProxy
    BY <2>2, <2>8 DEF StopProxy, IssueInv, TimesOK
  <2>9. CASE Execute
    BY <2>2, <2>9 DEF Execute, IssueInv, TimesOK
  \* In a step of a server that starts, what is left to show is what it has seen.
  <2> DEFINE StartStep == /\ UNCHANGED <<clock, production, env, proxy, deed, took>>
                          /\ server = Null /\ server' = Null
                          /\ began' \in {began, clock}
  <2>10. ASSUME StartStep, LooksSeen'
         PROVE  IssueInv'
    <3>1. TimesOK' /\ ServerIsolated'
      BY <2>10 DEF IssueInv, TimesOK, ServerIsolated
    <3> QED
      BY <2>10, <3>1 DEF IssueInv, IssuedUnderIsolation, ProductionIssuesNothing
  <2>11. ASSUME NEW requested \in {"enforced", "advisory"}, NEW given \in BOOLEAN,
                BeginServe(requested, given)
         PROVE  IssueInv'
    <3>1. /\ StartStep
          /\ given => env.manifest /= Null /\ OwnershipPasses(env.manifest)
          /\ starting' = [at |-> IF given THEN "read" ELSE "probe", requested |-> requested,
                          tools |-> Null, asserted |-> env.asserted, sought |-> {},
                          found |-> {}]
      BY <2>11 DEF BeginServe
    <3>2. /\ starting'.at = (IF given THEN "read" ELSE "probe") /\ starting'.tools = Null
          /\ starting'.asserted = env.asserted /\ starting'.sought = {}
          /\ starting'.found = {} /\ Looking(starting)'
      BY <3>1 DEF Looking
    <3>3. CASE starting' = Null
      BY <2>10, <3>1, <3>3 DEF LooksSeen
    <3>4. CASE starting' /= Null
      <4>1. Holding(env, proxy) \subseteq held'
        BY <2>1, <3>1, <3>4, HoldingNow
      <4>2. Assertions \intersect env.asserted \subseteq held'
        BY <4>1 DEF Holding
      <4>3. given => "owned" \in held'
        BY <3>1, <4>1 DEF Holding
      <4>4. LooksSeen'
        BY <3>1, <3>2, <4>2, <4>3
           DEF LooksSeen, OwnedSeen, AssertionsSeen, ManifestSeen, SecretsSeen
      <4> QED
        BY <2>10, <3>1, <4>4
    <3> QED
      BY <3>3, <3>4
  <2>12. CASE ReadManifest
    <3>1. /\ StartStep /\ Looking(starting) /\ starting.sought = {}
          /\ OwnedSeen /\ AssertionsSeen(starting.asserted) /\ starting /= Null
      BY <2>12 DEF ReadManifest, IssueInv, LooksSeen
    <3>2. CASE starting' = Null
      BY <2>10, <3>1, <3>2 DEF LooksSeen
    <3>3. CASE starting' /= Null
      <4>1. /\ env.manifest /= Null
            /\ starting' = WithTools(starting, env.manifest.tools)
        BY <2>12, <3>3 DEF ReadManifest, WithTools
      <4>2. /\ Looking(starting') /\ starting'.at = "probe"
            /\ starting'.tools = env.manifest.tools /\ starting'.asserted = starting.asserted
            /\ starting'.sought = {}
        BY <3>1, <4>1, ManifestRead
      <4>3. held \subseteq held' /\ Holding(env, proxy) \subseteq held'
        BY <2>1, <3>1, <3>3, HeldStays, HoldingNow
      <4>4. env.manifest.tools \subseteq Governed => "restricted" \in held'
        BY <4>1, <4>3 DEF Holding
      <4>5. "owned" \in held' /\ Assertions \intersect starting'.asserted \subseteq held'
        BY <3>1, <4>2, <4>3 DEF OwnedSeen, AssertionsSeen
      <4>6. LooksSeen'
        BY <3>1, <4>2, <4>4, <4>5
           DEF LooksSeen, Looking, ManifestSeen, AssertionsSeen, SecretsSeen
      <4> QED
        BY <2>10, <3>1, <4>6
    <3> QED
      BY <3>2, <3>3
  <2>13. CASE SkipChecks
    <3>1. StartStep /\ starting'.at = "verified" /\ starting'.status = "advisory"
      BY <2>13 DEF SkipChecks, IssueInv, LooksSeen
    <3> QED
      BY <2>10, <3>1 DEF LooksSeen
  <2>14. ASSUME NEW x \in Secrets, Probe(x)
         PROVE  IssueInv'
    <3>1. /\ StartStep /\ Looking(starting) /\ starting.at = "probe" /\ starting /= Null
          /\ ManifestSeen(starting.tools) /\ AssertionsSeen(starting.asserted)
          /\ SecretsSeen(starting.sought, starting.found)
      BY <2>14 DEF Probe, IssueInv, LooksSeen
    <3>2. CASE starting' = Null
      BY <2>10, <3>1, <3>2 DEF LooksSeen
    <3>3. CASE starting' /= Null
      <4> DEFINE so == starting.sought \union {x}
                 fo == starting.found \union ({x} \intersect env.secrets)
      <4>1. starting' = WithSought(starting, so, fo)
        BY <2>14 DEF Probe, WithSought
      <4>2. /\ Looking(starting') /\ starting'.at = "probe" /\ starting'.tools = starting.tools
            /\ starting'.asserted = starting.asserted
            /\ starting'.sought = so /\ starting'.found = fo
        BY <3>1, <4>1, SecretSought
      <4>3. held \subseteq held' /\ Holding(env, proxy) \subseteq held'
        BY <2>1, <3>1, <3>3, HeldStays, HoldingNow
      <4>4. x \notin env.secrets => x \in held'
        BY <4>3 DEF Holding
      <4>5. SecretsSeen(starting.sought, starting.found)'
        BY <3>1, <4>2, <4>3, <4>4 DEF SecretsSeen
      <4>6. ManifestSeen(starting.tools)' /\ AssertionsSeen(starting.asserted)'
        BY <3>1, <4>2, <4>3 DEF ManifestSeen, AssertionsSeen
      <4>7. LooksSeen'
        BY <3>1, <4>2, <4>5, <4>6 DEF LooksSeen, Looking
      <4> QED
        BY <2>10, <3>1, <4>7
    <3> QED
      BY <3>2, <3>3
  <2>15. CASE CheckHealth
    <3>1. /\ StartStep /\ starting.sought = Secrets /\ starting /= Null
          /\ ManifestSeen(starting.tools) /\ AssertionsSeen(starting.asserted)
          /\ SecretsSeen(starting.sought, starting.found)
      BY <2>15 DEF CheckHealth, IssueInv, LooksSeen
    <3>2. CASE starting' = Null
      BY <2>10, <3>1, <3>2 DEF LooksSeen
    <3>3. CASE starting' /= Null
      <4>1. PICK answered \in {FALSE, proxy /= Null} :
              starting' = [at |-> "verified",
                           status |-> Status(FailedChecks(starting.found, starting.tools,
                                                 starting.asserted, answered, FALSE))]
        BY <2>15 DEF CheckHealth
      <4>2. starting'.at = "verified"
            /\ starting'.status = Status(FailedChecks(starting.found, starting.tools,
                                                 starting.asserted, answered, FALSE))
        BY <4>1
      <4>3. held \subseteq held' /\ Holding(env, proxy) \subseteq held'
        BY <2>1, <3>1, <3>3, HeldStays, HoldingNow
      <4>4. ASSUME starting'.status = "enforced"
            PROVE  Conditions \subseteq held'
        <5>1. /\ starting.found = {} /\ starting.tools /= Null
              /\ starting.tools \subseteq Governed /\ Assertions \subseteq starting.asserted
              /\ answered
          BY <4>2, <4>4, EnforcedMeansPassed
        <5>2. "owned" \in held' /\ "restricted" \in held'
          BY <3>1, <4>3, <5>1 DEF ManifestSeen
        <5>3. "up" \in held'
          BY <4>3, <5>1 DEF Holding
        <5>4. Assertions \subseteq held' /\ Secrets \subseteq held'
          BY <3>1, <4>3, <5>1 DEF AssertionsSeen, SecretsSeen
        <5> QED
          BY <5>2, <5>3, <5>4 DEF Conditions
      <4>5. Conditions' = Conditions
        BY DEF Conditions
      <4>6. LooksSeen'
        BY <3>1, <4>2, <4>4, <4>5 DEF LooksSeen
      <4> QED
        BY <2>10, <3>1, <4>6
    <3> QED
      BY <3>2, <3>3
  <2>16. CASE StartServer
    <3>1. /\ clock' = clock /\ deed' = deed /\ production' = production /\ began' = began
          /\ starting /= Null /\ starting.at = "verified" /\ starting' = Null
          /\ server' = FromStatus(starting.status, clock) /\ took' = clock - began
      BY <2>16 DEF StartServer
    <3>2. TimesOK' /\ LooksSeen'
      BY <3>1 DEF IssueInv, TimesOK, LooksSeen
    <3>3. ServerIsolated'
      <4>1. /\ server'.trust = "unverified" /\ server'.expires = clock + AgentLifetime
            /\ server'.active => starting.status = "enforced"
        BY <3>1 DEF FromStatus
      <4>2. server'.expires = began' + took' + AgentLifetime
        BY <3>1, <4>1 DEF IssueInv, TimesOK
      <4>3. server' /= Null /\ server'.active => Conditions \subseteq held'
        BY <2>1, <3>1, <4>1, HeldFrozen DEF IssueInv, LooksSeen
      <4> QED
        BY <4>1, <4>2, <4>3 DEF ServerIsolated, Conditions
    <3> QED
      BY <3>1, <3>2, <3>3 DEF IssueInv, IssuedUnderIsolation, ProductionIssuesNothing
  <2>17. CASE StopServer
    <3>1. /\ clock' = clock /\ deed' = deed /\ production' = production
          /\ starting' = Null /\ server' = Null /\ began' = 0 /\ took' = 0
      BY <2>17 DEF StopServer
    <3> QED
      BY <3>1 DEF IssueInv, TimesOK, LooksSeen, ServerIsolated, IssuedUnderIsolation,
                  ProductionIssuesNothing
  <2>18. CASE Issue
    <3>1. /\ clock' = clock /\ production' = production /\ starting' = starting
          /\ server' = server /\ began' = began /\ took' = took
          /\ deed' = [did |-> "issue", lacking |-> Conditions \ held, age |-> clock - began,
                      took |-> took]
          /\ server /= Null /\ Permits(server, clock, production)
      BY <2>18 DEF Issue, serverVars
    <3>2. Conditions \subseteq held /\ clock - began <= AgentLifetime + took
      BY <3>1 DEF IssueInv, TimesOK, ServerIsolated, Permits
    <3>3. ~production
      BY <3>1 DEF IssueInv, TimesOK, ServerIsolated, Permits
    <3>4. (IssuedUnderIsolation /\ ProductionIssuesNothing)'
      BY <3>1, <3>2, <3>3 DEF IssuedUnderIsolation, ProductionIssuesNothing
    <3>5. starting = Null
      BY <3>1 DEF IssueInv, LooksSeen
    <3>6. held' = held
      BY <2>1, <3>1, <3>5, HeldFrozen
    <3> QED
      BY <3>1, <3>4, <3>5, <3>6 DEF IssueInv, TimesOK, LooksSeen, ServerIsolated, Conditions
  <2> QED
    BY <1>2, <2>3, <2>4, <2>5, <2>6, <2>7, <2>8, <2>9, <2>11, <2>12, <2>13, <2>14, <2>15,
       <2>16, <2>17, <2>18 DEF Next
<1> QED
  BY <1>1, <1>2

\* No token is issued unless each condition of the isolation held at some moment of the
\* start of its server, and that start lies no further back than a capability lives and
\* the start took (cli.py, deployment.py).
THEOREM NoTokenWithoutIsolation == Spec => []IssuedUnderIsolation
<1>1. IssueInv => IssuedUnderIsolation
  BY DEF IssueInv
<1> QED
  BY <1>1, IssueInit, IssueStep, PTL DEF Spec

\* serve issues nothing in production (deployment.py, cli.py).
THEOREM NoTokenInProduction == Spec => []ProductionIssuesNothing
<1>1. IssueInv => ProductionIssuesNothing
  BY DEF IssueInv
<1> QED
  BY <1>1, IssueInit, IssueStep, PTL DEF Spec

(***************************************************************************)
(* The proxy                                                               *)
(***************************************************************************)
\* What the file holds has times.
FileTimed == file /= Null => file.issued \in Int /\ file.expires \in Int

\* The running proxy carries the fields of an attestation it was right to accept.
ProxyLoaded ==
    proxy /= Null =>
        /\ source.signer = Controller /\ source.binding = Own /\ source.actions /= {}
        /\ source.issued \in Int /\ source.expires \in Int
        /\ source.expires - source.issued <= MaxLifetime
        /\ proxy.actions = source.actions /\ proxy.expires = source.expires

RunInv == clock \in Nat /\ FileTimed /\ ProxyLoaded /\ ExecutedUnderAttestation

\* An accepted attestation makes a proxy that is loaded.
LEMMA AcceptedIsLoaded ==
    ASSUME NEW a, a.issued \in Int, a.expires \in Int, Accepts(a, clock),
           proxy' = FromSignedAttestation(a), source' = a
    PROVE  ProxyLoaded'
<1>1. /\ a.signer = Controller /\ a.binding = Own /\ a.actions /= {}
      /\ a.expires - a.issued <= MaxLifetime
  BY DEF Accepts, WellFormed
<1>2. proxy'.actions = a.actions /\ proxy'.expires = a.expires
  BY DEF FromSignedAttestation
<1> QED
  BY <1>1, <1>2 DEF ProxyLoaded

LEMMA RunInit == Init => RunInv
BY DEF Init, RunInv, FileTimed, ProxyLoaded, ExecutedUnderAttestation

LEMMA RunStep == RunInv /\ [Next]_vars => RunInv'
<1> SUFFICES ASSUME RunInv, [Next]_vars
             PROVE  RunInv'
  OBVIOUS
<1> USE DeploymentAssumption, AttestationAssumption
    DEF DeploymentAssumption, AttestationAssumption
<1>1. ASSUME UNCHANGED <<clock, file, proxy, source>>,
             deed' /= deed => deed'.did = "issue"
      PROVE  RunInv'
  BY <1>1 DEF RunInv, FileTimed, ProxyLoaded, ExecutedUnderAttestation
<1>2. CASE UNCHANGED vars
  BY <1>1, <1>2 DEF vars
<1>3. CASE Tick
  BY <1>3 DEF Tick, RunInv, FileTimed, ProxyLoaded, ExecutedUnderAttestation
<1>4. CASE ChangeEnvironment
  BY <1>1, <1>4 DEF ChangeEnvironment
<1>5. CASE WriteFile
  BY <1>5 DEF WriteFile, RunInv, FileTimed, ProxyLoaded, ExecutedUnderAttestation
<1>6. CASE Refresh
  <2>1. clock' = clock /\ deed' = deed /\ file' = Fresh
    BY <1>6 DEF Refresh
  <2>2. Fresh.issued \in Int /\ Fresh.expires \in Int
    BY DEF Fresh, RunInv
  <2>3. ProxyLoaded'
    <3>1. CASE Accepts(Fresh, clock) /\ proxy' = FromSignedAttestation(Fresh)
               /\ source' = Fresh
      BY <2>2, <3>1, AcceptedIsLoaded
    <3>2. CASE proxy' = Null
      BY <3>2 DEF ProxyLoaded
    <3>3. CASE UNCHANGED <<proxy, source>>
      BY <3>3 DEF RunInv, ProxyLoaded
    <3> QED
      BY <1>6, <3>1, <3>2, <3>3 DEF Refresh
  <2> QED
    BY <2>1, <2>2, <2>3 DEF RunInv, FileTimed, ExecutedUnderAttestation
<1>7. CASE StartProxy
  <2>1. ProxyLoaded'
    BY <1>7, AcceptedIsLoaded DEF StartProxy, RunInv, FileTimed
  <2> QED
    BY <1>7, <2>1 DEF StartProxy, RunInv, FileTimed, ExecutedUnderAttestation
<1>8. CASE StopProxy
  BY <1>8 DEF StopProxy, RunInv, FileTimed, ProxyLoaded, ExecutedUnderAttestation
<1>9. CASE Execute
  <2>1. clock <= source.expires /\ Tool \in source.actions
    BY <1>9 DEF Execute, Permits, Supports, RunInv, ProxyLoaded
  <2>2. clock - source.issued <= MaxLifetime
    BY <1>9, <2>1 DEF Execute, RunInv, ProxyLoaded
  <2> QED
    BY <1>9, <2>1, <2>2 DEF Execute, RunInv, FileTimed, ProxyLoaded,
                            ExecutedUnderAttestation
<1>10. ASSUME NEW requested \in {"enforced", "advisory"}, NEW given \in BOOLEAN,
              BeginServe(requested, given)
       PROVE  RunInv'
  BY <1>1, <1>10 DEF BeginServe
<1>11. CASE ReadManifest \/ SkipChecks \/ CheckHealth \/ \E x \in Secrets : Probe(x)
  BY <1>1, <1>11 DEF ReadManifest, SkipChecks, CheckHealth, Probe
<1>12. CASE StartServer
  BY <1>1, <1>12 DEF StartServer
<1>13. CASE StopServer
  BY <1>1, <1>13 DEF StopServer
<1>14. CASE Issue
  <2>1. UNCHANGED <<clock, file, proxy, source>> /\ deed'.did = "issue"
    BY <1>14 DEF Issue
  <2> QED
    BY <1>1, <2>1
<1> QED
  BY <1>2, <1>3, <1>4, <1>5, <1>6, <1>7, <1>8, <1>9, <1>10, <1>11, <1>12, <1>13,
     <1>14 DEF Next

\* Nothing is executed except under an attestation of the controller, for this
\* deployment, that covers the action and is not too old (deployment.py, proxy/base.py).
THEOREM NoActionWithoutAttestation == Spec => []ExecutedUnderAttestation
<1>1. RunInv => ExecutedUnderAttestation
  BY DEF RunInv
<1> QED
  BY <1>1, RunInit, RunStep, PTL DEF Spec

=============================================================================
