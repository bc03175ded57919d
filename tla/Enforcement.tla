---------------------------- MODULE Enforcement -----------------------------
(***************************************************************************)
(* The life of enforcement. A deployment controller signs attestations; a  *)
(* proxy loads one when it starts and keeps its capability until it stops; *)
(* the MCP server of an agent verifies the deployment when it starts, one  *)
(* look after the other, and keeps that result. Meanwhile the environment  *)
(* changes and time passes. Only the expiry of a capability bounds how old *)
(* its truth may be.                                                       *)
(*                                                                         *)
(* An environment is a record: the secrets that are in reach of the        *)
(* server, the file with the manifest of the agent's tools, or Null, and   *)
(* the assertions that are set.                                            *)
(***************************************************************************)
EXTENDS Deployment

CONSTANTS Environments, \* states of the environment
          Attestations, \* what the attestation file may hold
          Tool,         \* the tool of the tokens
          Attested,     \* the action types refresh_attestation.py lists
          Horizon       \* bound of the clock

ASSUME AttestationAssumption == \A a \in Attestations : a.issued \in Int /\ a.expires \in Int

VARIABLES clock,
          production, \* EP_PRODUCTION_MODE
          env,
          file,       \* the mounted attestation, or Null
          proxy,      \* the capability of the running proxy, or Null
          starting,   \* the MCP server that starts: what it has seen so far, or Null
          server,     \* the capability of the running MCP server, or Null
          source,     \* history: the attestation the running proxy loaded
          began,      \* history: when the latest server began to start
          took,       \* history: how long the running server took to start
          held,       \* history: the conditions that held at some moment of its start
          deed        \* history: the last token issued or action executed, or Null

vars == <<clock, production, env, file, proxy, starting, server, source, began, took, held,
          deed>>

\* What is to be established before a token is issued, said without the checks.
Conditions == Secrets \union Assertions \union {"owned", "restricted", "up"}

\* Those that hold in environment e with proxy p: a secret counts when it is absent.
Holding(e, p) ==
    (Secrets \ e.secrets) \union (Assertions \intersect e.asserted)
        \union {c \in {"owned"} : e.manifest /= Null /\ OwnershipPasses(e.manifest)}
        \union {c \in {"restricted"} : e.manifest /= Null /\ e.manifest.tools \subseteq Governed}
        \union {c \in {"up"} : p /= Null}

Init == /\ clock = 0
        /\ production \in BOOLEAN
        /\ env \in Environments
        /\ file = Null /\ proxy = Null /\ starting = Null /\ server = Null
        /\ source = Null /\ began = 0 /\ took = 0 /\ held = {} /\ deed = Null

(***************************************************************************)
(* Outside                                                                 *)
(***************************************************************************)
serverVars == <<starting, server, began, took>>

Tick == /\ clock < Horizon
        /\ clock' = clock + 1
        /\ UNCHANGED <<production, env, file, proxy, source, deed, serverVars>>

ChangeEnvironment ==
    /\ env' \in Environments \ {env}
    /\ UNCHANGED <<clock, production, file, proxy, source, deed, serverVars>>

\* Whoever can write the file may put anything there; only its signature counts.
WriteFile == /\ file' \in Attestations \ {file}
             /\ UNCHANGED <<clock, production, env, proxy, source, deed, serverVars>>

(***************************************************************************)
(* refresh_attestation.py: sign, transfer, then stop, remove and run the   *)
(* container. If that fails, the old proxy goes on or there is none.       *)
(***************************************************************************)
Fresh == [signer |-> Controller, whole |-> TRUE, actions |-> Attested, issued |-> clock,
          expires |-> clock + MaxLifetime, binding |-> Own]

Refresh == /\ file' = Fresh
           /\ \/ /\ Accepts(Fresh, clock)
                 /\ proxy' = FromSignedAttestation(Fresh) /\ source' = Fresh
              \/ proxy' = Null /\ source' = Null
              \/ UNCHANGED <<proxy, source>>
           /\ UNCHANGED <<clock, production, env, deed, serverVars>>

(***************************************************************************)
(* The proxy service                                                       *)
(***************************************************************************)
\* load_proxy_capability; a proxy without an acceptable file exits.
StartProxy == /\ file /= Null
              /\ Accepts(file, clock)
              /\ proxy' = FromSignedAttestation(file)
              /\ source' = file
              /\ UNCHANGED <<clock, production, env, file, deed, serverVars>>

StopProxy == /\ proxy /= Null
             /\ proxy' = Null /\ source' = Null
             /\ UNCHANGED <<clock, production, env, file, deed, serverVars>>

\* GovernedProxy.execute gets past the checks of the capability.
Execute == /\ proxy /= Null
           /\ Permits(proxy, clock, production)
           /\ Supports(proxy, Tool)
           /\ deed' = [did |-> "execute", by |-> source, age |-> clock - source.issued]
           /\ UNCHANGED <<clock, production, env, file, proxy, source, serverVars>>

(***************************************************************************)
(* The MCP server: cli.py serve, which first verifies the deployment, then *)
(* looks its principal up and makes the capability of what it verified. At *)
(* "read" it is about to open the manifest again, at "probe" to look for   *)
(* the secrets it has not "sought" and then to ask the proxy; it is then   *)
(* "verified". Its variables, the assertions among them, are those it was  *)
(* started with.                                                           *)
(***************************************************************************)
\* The manifest, if one is given, passes the ownership check, or serve exits.
BeginServe(requested, given) ==
    /\ server = Null /\ starting = Null
    /\ given => env.manifest /= Null /\ OwnershipPasses(env.manifest)
    /\ starting' = [at |-> IF given THEN "read" ELSE "probe", requested |-> requested,
                    tools |-> Null, asserted |-> env.asserted, sought |-> {}, found |-> {}]
    /\ began' = clock
    /\ UNCHANGED <<clock, production, env, file, proxy, source, server, took, deed>>

\* The file is opened a second time, whatever it is by now. If it cannot be, serve exits.
ReadManifest ==
    /\ starting /= Null /\ starting.at = "read"
    /\ IF env.manifest = Null \/ ~env.manifest.readable
       THEN starting' = Null
       ELSE starting' = [starting EXCEPT !.at = "probe", !.tools = env.manifest.tools]
    /\ UNCHANGED <<clock, production, env, file, proxy, source, server, began, took, deed>>

\* verify_deployment when advisory mode was asked for: no check at all.
SkipChecks ==
    /\ starting /= Null /\ starting.at = "probe" /\ starting.requested = "advisory"
    /\ starting' = [at |-> "verified", status |-> "advisory"]
    /\ UNCHANGED <<clock, production, env, file, proxy, source, server, began, took, deed>>

\* check_runtime_environment looks for one secret after the other.
Probe(s) ==
    /\ starting /= Null /\ starting.at = "probe" /\ starting.requested = "enforced"
    /\ s \notin starting.sought
    /\ starting' = [starting EXCEPT !.sought = @ \union {s},
                                    !.found = @ \union ({s} \intersect env.secrets)]
    /\ UNCHANGED <<clock, production, env, file, proxy, source, server, began, took, deed>>

\* The request to /health ends the verification. It is the plain one: serve passes no key
\* of the proxy. It may fail or time out while the proxy is up.
CheckHealth ==
    /\ starting /= Null /\ starting.at = "probe" /\ starting.requested = "enforced"
    /\ starting.sought = Secrets
    /\ \E answered \in {FALSE, proxy /= Null} :
           starting' = [at |-> "verified",
                        status |-> Status(FailedChecks(starting.found, starting.tools,
                                                       starting.asserted, answered, FALSE))]
    /\ UNCHANGED <<clock, production, env, file, proxy, source, server, began, took, deed>>

\* create_server asks the capability of an enforced server once: one that may not issue
\* does not start.
MayStart(c) == c.active => Permits(c, clock, production)

StartServer ==
    /\ starting /= Null /\ starting.at = "verified"
    /\ LET c == FromStatus(starting.status, clock)
       IN  /\ MayStart(c)
           /\ server' = c
    /\ took' = clock - began
    /\ starting' = Null
    /\ UNCHANGED <<clock, production, env, file, proxy, source, began, deed>>

StopServer == /\ server /= Null \/ starting /= Null
              /\ server' = Null /\ starting' = Null /\ began' = 0 /\ took' = 0
              /\ UNCHANGED <<clock, production, env, file, proxy, source, deed>>

\* ep_execute asks the capability twice, issue_authorization once more.
Issue == /\ server /= Null
         /\ Permits(server, clock, production)
         /\ deed' = [did |-> "issue", lacking |-> Conditions \ held, age |-> clock - began,
                     took |-> took]
         /\ UNCHANGED <<clock, production, env, file, proxy, source, serverVars>>

\* What held at some moment of the start, the moment it began included.
Held == IF starting' /= Null
        THEN (IF starting = Null THEN {} ELSE held) \union Holding(env', proxy')
        ELSE IF server' /= Null THEN held ELSE {}

Next == /\ \/ Tick \/ ChangeEnvironment \/ WriteFile \/ Refresh
           \/ StartProxy \/ StopProxy \/ Execute
           \/ \E requested \in {"enforced", "advisory"}, given \in BOOLEAN :
                 BeginServe(requested, given)
           \/ ReadManifest \/ SkipChecks \/ CheckHealth
           \/ \E s \in Secrets : Probe(s)
           \/ StartServer \/ StopServer \/ Issue
        /\ held' = Held

Spec == Init /\ [][Next]_vars

(***************************************************************************)
(* Properties                                                              *)
(***************************************************************************)
\* A token is issued only if each condition of the isolation, and the proxy being up, held
\* at some moment while its server started, and that start began not longer ago than a
\* capability lives and the server took to start, whatever changed, stopped or was
\* restarted since (cli.py, serve; deployment.py, verify_deployment, from_status and
\* require_binding_enforcement). They need not have held at one moment.
IssuedUnderIsolation ==
    deed /= Null /\ deed.did = "issue" =>
        deed.lacking = {} /\ deed.age <= AgentLifetime + deed.took

\* An action is executed only under an attestation of the trusted controller for this
\* very deployment, no older than an attestation may live, however often the file was
\* replaced and the proxy restarted.
ExecutedUnderAttestation ==
    deed /= Null /\ deed.did = "execute" =>
        /\ deed.by.signer = Controller /\ deed.by.binding = Own
        /\ Tool \in deed.by.actions
        /\ deed.age <= MaxLifetime

\* In production nothing is issued through serve: its capability comes from a status,
\* and production accepts only signed ones.
ProductionIssuesNothing == production /\ deed /= Null => deed.did /= "issue"

=============================================================================
