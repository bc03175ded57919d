----------------------------- MODULE ServicesMC -----------------------------
(***************************************************************************)
(* The services around the engine, for TLC, and two parts of the engine    *)
(* that stand alone: resubmissions and the audit chain. They share no      *)
(* state, so no interleaving of two of them shows more than each of them   *)
(* alone: a behaviour is one of one service, named by "scenario", and the  *)
(* variables of the others stay initial. Enforcement makes two: all the    *)
(* server sees of attestations is whether a proxy is up, so "serve" has    *)
(* good ones and "attest" has no server.                                   *)
(***************************************************************************)
EXTENDS Enforcement, ProxyService, Identifiers, Enrollment, WorkClaims, Backup,
        ProposalRetry, AuditChain

VARIABLE scenario

(***************************************************************************)
(* Instances                                                               *)
(***************************************************************************)
Manifest == [readable |-> TRUE, link |-> FALSE, owner |-> "root", writable |-> {},
             tools |-> Governed]

Isolation == [secrets |-> {}, manifest |-> Manifest, asserted |-> Assertions]

\* Isolated, lacking it in each of the ways that are checked, or not to be trusted.
MCEnvironments ==
    {Isolation,
     [Isolation EXCEPT !.manifest.tools = @ \union {"shell"}],
     [Isolation EXCEPT !.manifest = Null, !.secrets = {"docker socket"}, !.asserted = {}],
     [Isolation EXCEPT !.manifest.writable = {"group"}]}

Signed(issued, expires) ==
    [signer |-> Controller, whole |-> TRUE, actions |-> {Tool}, issued |-> issued,
     expires |-> expires, binding |-> Own]

\* One that is good at first, one issued ahead of time, and one for each reason to refuse.
MCAttestations ==
    {Signed(0, 2), Signed(2, 4), Signed(0, 3),
     [Signed(0, 2) EXCEPT !.signer = "other"], [Signed(0, 2) EXCEPT !.binding = "elsewhere"],
     [Signed(0, 2) EXCEPT !.actions = {}], [Signed(0, 2) EXCEPT !.whole = FALSE]}

\* The roles of a tool of each kind: to act, to look, to decide.
MCRequired == [ep_execute |-> {"agent", "operator", "administrator"},
               ep_list_policies |-> {"observer", "agent", "operator", "administrator"},
               ep_approve |-> {"policy_approver", "administrator"}]

MCTools == DOMAIN MCRequired

(***************************************************************************)
(* One service per behaviour                                               *)
(***************************************************************************)
Scenarios == {"serve", "attest", "proxy", "identifiers", "roles", "claims", "restore",
              "retry", "audit"}

MCInit == /\ scenario \in Scenarios
          /\ Init
          /\ ProxyInit
          /\ IdInit
          /\ EnrollmentInit
          /\ ClaimInit
          /\ BackupInit
          /\ RetryInit
          /\ AuditInit
          /\ scenario /= "serve" => env = Isolation
          /\ scenario \notin {"serve", "attest"} => production
          /\ scenario /= "identifiers" => counter = 0
          /\ scenario /= "roles" => bootstrapMode

\* In a scenario all the services but its own stand still.
Still == /\ UNCHANGED scenario
         /\ scenario \in {"serve", "attest"} \/ UNCHANGED vars
         /\ scenario = "proxy" \/ UNCHANGED proxyVars
         /\ scenario = "identifiers" \/ UNCHANGED idVars
         /\ scenario = "roles" \/ UNCHANGED enrollmentVars
         /\ scenario = "claims" \/ UNCHANGED claimVars
         /\ scenario = "restore" \/ UNCHANGED backupVars
         /\ scenario = "retry" \/ UNCHANGED retryVars
         /\ scenario = "audit" \/ UNCHANGED auditVars

MCNext == /\ \/ /\ scenario = "serve" /\ Next
                /\ file' \in {Null, Signed(0, 2), Signed(2, 4)}
             \/ /\ scenario = "attest" /\ Next
                /\ UNCHANGED <<env, starting>>
             \/ scenario = "proxy" /\ ProxyNext
             \/ scenario = "identifiers" /\ IdNext
             \/ scenario = "roles" /\ EnrollmentNext
             \/ scenario = "claims" /\ ClaimNext
             \/ scenario = "restore" /\ BackupNext
             \/ scenario = "retry" /\ RetryNext
             \/ scenario = "audit" /\ AuditNext
          /\ Still

MCSpec == MCInit /\ [][MCNext]_<<scenario, vars, proxyVars, idVars, enrollmentVars, claimVars,
                                 backupVars, retryVars, auditVars>>

=============================================================================
