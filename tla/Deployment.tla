----------------------------- MODULE Deployment -----------------------------
(***************************************************************************)
(* What deployment.py decides: whether a deployment is isolated enough to  *)
(* be called enforced, which signed attestations are accepted, and what a  *)
(* capability permits at a given time. Pure operators; the processes that  *)
(* use them are in Enforcement.                                            *)
(***************************************************************************)
EXTENDS Absence, Integers, FiniteSets

CONSTANTS Controller,    \* the key whose signature a proxy trusts
          Own,           \* the principal, audience, deployment and target it is bound to
          Governed,      \* tools an agent may have
          Secrets,       \* what the runtime checks look for: variables, sockets, files
          Assertions,    \* what an orchestrator may assert (EP_ASSERT_*)
          AgentLifetime, \* lifetime of a capability made from a status
          MaxLifetime,   \* of a signed attestation
          Skew           \* clock skew allowed to its issuer

ASSUME DeploymentAssumption ==
    /\ {AgentLifetime, MaxLifetime, Skew} \subseteq Nat
    /\ AgentLifetime > 0 /\ MaxLifetime > 0

(***************************************************************************)
(* verify_deployment. Every check is a required one. They are not made at  *)
(* one moment: what each of them saw is passed in by Enforcement.          *)
(***************************************************************************)
\* verify_file_ownership: what is opened is no symbolic link, belongs to root, and is
\* not writable for the group (of root) or the world. Not to open it fails as well.
OwnershipPasses(f) == f.readable /\ ~f.link /\ f.owner = "root" /\ f.writable = {}

\* The raw tools and the unknown ones fail alike; no list at all fails, too.
FailedManifest(tools) ==
    CASE tools = Null -> {"agent tool manifest supplied"}
      [] tools /= Null /\ ~(tools \subseteq Governed) -> {"raw tools in manifest"}
      [] OTHER -> {}

FailedAssertions(asserted) == Assertions \ asserted

\* Without a key of the proxy, any answer of /health will do. With one, the challenge
\* asks for /health?nonce=..., a path that the proxy service does not know.
HealthPasses(answered, keyGiven) == answered /\ ~keyGiven

FailedHealth(answered, keyGiven) ==
    IF HealthPasses(answered, keyGiven) THEN {} ELSE {"proxy health"}

\* The manifest is looked at when there is one.
FaultyFailedChecks(found, tools, asserted, answered, keyGiven) ==
    found \union FailedAssertions(asserted) \union FailedHealth(answered, keyGiven)

\* found: the secrets that the runtime checks came upon.
FailedChecks(found, tools, asserted, answered, keyGiven) ==
    found \union FailedManifest(tools) \union FailedAssertions(asserted)
        \union FailedHealth(answered, keyGiven)

\* The effective mode when enforcement was asked for.
Status(failed) == IF failed = {} THEN "enforced" ELSE "advisory"

(***************************************************************************)
(* EnforcementCapability                                                   *)
(***************************************************************************)
FaultyFromStatus(status, now) ==
    [active |-> status = "enforced", trust |-> "signed_attestation",
     expires |-> now + AgentLifetime, binding |-> Null, actions |-> {}]

FromStatus(status, now) ==
    [active |-> status = "enforced", trust |-> "unverified", expires |-> now + AgentLifetime,
     binding |-> Null, actions |-> {}]

\* Signed by the trusted controller and complete. "whole" says that the text is what was
\* signed and that its version, its fields, their types and their fixed values are right.
WellFormed(a) == a.signer = Controller /\ a.whole /\ a.actions /= {}

FaultyAccepts(a, now) ==
    /\ WellFormed(a)
    /\ now < a.expires
    /\ a.issued <= now + Skew
    /\ a.issued < a.expires
    /\ a.binding = Own

\* It has not expired, was not issued in the future, lives not too long, and is for this
\* principal, audience, deployment and target.
Accepts(a, now) ==
    /\ WellFormed(a)
    /\ now < a.expires
    /\ a.issued <= now + Skew
    /\ a.issued < a.expires /\ a.expires - a.issued <= MaxLifetime
    /\ a.binding = Own

FromSignedAttestation(a) ==
    [active |-> TRUE, trust |-> "signed_attestation", expires |-> a.expires,
     binding |-> a.binding, actions |-> a.actions]

\* require_binding_enforcement: the last instant still counts.
Permits(c, now, production) ==
    /\ c.active
    /\ now <= c.expires
    /\ production => c.trust = "signed_attestation"

\* supports_action_type: no list means every action (only a signed one must have one).
Supports(c, action) == c.actions = {} \/ action \in c.actions

=============================================================================
