------------------------- MODULE PolicyRevalidation -------------------------
(***************************************************************************)
(* Policies as rows that operators change while requests use them.         *)
(*                                                                         *)
(* A request loads the policies of its context, is proposed under that     *)
(* snapshot, possibly approved by a human, receives a token that carries   *)
(* the hash of the matched policies, and is claimed by a proxy. A proxy    *)
(* built with a PolicyEngine evaluates the request again before the claim, *)
(* under the policies that engine was built from; the deployed proxy has   *)
(* no engine (proxy_service.py, main) and does not.                        *)
(***************************************************************************)
EXTENDS PolicyEngine

CONSTANTS Policies,   \* policy ids
          Definition, \* the columns of a policy that its creation fixes
          Requests,   \* the requests
          Content,    \* action, resources, project, branch and agent of a request
          Approvers,  \* principals that approve policies
          Service,    \* the EP service principal, which approves by itself
          BranchesOf, \* the branches of each project
          Revalidates \* whether proxies are built with a policy engine

ASSUME RowsAssumption ==
    /\ IsFiniteSet(Policies) /\ \A id \in Policies : IsPolicy(Definition[id])
    /\ Service \in Approvers /\ Null \notin Approvers \union Statuses

VARIABLES status,     \* ep_policies.status of a row, or Null if there is none
          approvedBy, \* ep_policies.approved_by
          vouched,    \* history: the policies a trusted import brought
          clock,
          engine,     \* the snapshot a request was given, or Null
          stage,      \* stage of a request
          recorded,   \* policy_set_hash of its transition and of its token
          held,       \* the snapshot of the running proxy, or Null
          human,      \* history: a human approved the request
          checked     \* history: the claim passed a revalidation

vars == <<status, approvedBy, vouched, clock, engine, stage, recorded, held, human, checked>>
rowVars == <<status, approvedBy, vouched>>
requestVars == <<engine, stage, recorded, human, checked>>

Horizon == 2 \* bound of the clock

\* A snapshot keeps what can differ between rows that were active: who approved.
Snapshots == UNION {[ids -> Approvers \union {Null}] : ids \in SUBSET Policies}
Rows(snapshot) ==
    [id \in DOMAIN snapshot |->
        [Definition[id] EXCEPT !.status = "active", !.approvedBy = snapshot[id]]]

Init == /\ status = [id \in Policies |-> Null]
        /\ approvedBy = [id \in Policies |-> Null]
        /\ vouched = {}
        /\ clock = 0
        /\ engine = [r \in Requests |-> Null]
        /\ stage = [r \in Requests |-> "unborn"]
        /\ recorded = [r \in Requests |-> {}]
        /\ held = Null
        /\ human = [r \in Requests |-> FALSE]
        /\ checked = [r \in Requests |-> FALSE]

(***************************************************************************)
(* Operators: cli.py policy create, submit, approve, retire. An update     *)
(* names the row by its id alone.                                          *)
(***************************************************************************)
\* insert_policy stores the status the command gives, and no justification.
Create(id) == /\ status[id] = Null
              /\ status' = [status EXCEPT ![id] = "draft"]
              /\ UNCHANGED <<approvedBy, vouched, clock, requestVars, held>>

UpdateStatus(id, new) == /\ status[id] /= Null
                         /\ status' = [status EXCEPT ![id] = new]
                         /\ UNCHANGED <<approvedBy, vouched, clock, requestVars, held>>

Submit(id) == UpdateStatus(id, "pending_approval")
Retire(id) == UpdateStatus(id, "retired")

\* The status alone is set.
FaultyApprovePolicy(id, who) == who \in Approvers /\ UpdateStatus(id, "active")

ApprovePolicy(id, who) == /\ status[id] /= Null
                          /\ status' = [status EXCEPT ![id] = "active"]
                          /\ approvedBy' = [approvedBy EXCEPT ![id] = who]
                          /\ UNCHANGED <<vouched, clock, requestVars, held>>

\* register-agent: the allow policy of the new agent is active from its INSERT on.
RegisterAgent(id) ==
    /\ status[id] = Null
    /\ Definition[id].scope = "agent" /\ Definition[id].effect = "allow"
    /\ status' = [status EXCEPT ![id] = "active"]
    /\ approvedBy' = [approvedBy EXCEPT ![id] = Service]
    /\ UNCHANGED <<vouched, clock, requestVars, held>>

\* Every imported policy is active.
FaultyImportPolicy(id, trusted) ==
    /\ status[id] = Null
    /\ Definition[id].scope = "global"
    /\ status' = [status EXCEPT ![id] = "active"]
    /\ vouched' = IF trusted THEN vouched \union {id} ELSE vouched
    /\ UNCHANGED <<approvedBy, clock, requestVars, held>>

\* import_as_fork: signer and source both trusted make it active, without an approver.
\* An agent-scoped policy arrives as a global one; the INSERT of a project- or
\* branch-scoped one violates the schema, for its binding is not imported.
ImportPolicy(id, trusted) ==
    /\ status[id] = Null
    /\ Definition[id].scope = "global"
    /\ status' = [status EXCEPT ![id] = IF trusted THEN "active" ELSE "draft"]
    /\ vouched' = IF trusted THEN vouched \union {id} ELSE vouched
    /\ UNCHANGED <<approvedBy, clock, requestVars, held>>

(***************************************************************************)
(* Loading: one SELECT over the rows                                       *)
(***************************************************************************)
Active == {id \in Policies : status[id] = "active"}

\* list_effective_policies
EffectiveFor(r) == {id \in Active : InScope(Definition[id], Content[r])}

\* list_active_policies_for_project: no agent-scoped policy is among them.
VisibleTo(project) ==
    {id \in Active : \/ Definition[id].scope = "global"
                     \/ /\ Definition[id].scope = "project"
                        /\ Definition[id].project = project
                     \/ /\ Definition[id].scope = "branch"
                        /\ Definition[id].branch \in BranchesOf[project]}

Snapshot(ids) == [id \in ids |-> approvedBy[id]]

\* _build_policy_engine: a row that is no valid Policy refuses the request.
LoadEngine(r) ==
    /\ stage[r] = "unborn" /\ engine[r] = Null
    /\ \A id \in EffectiveFor(r) : ScopeConsistent(Definition[id])
    /\ engine' = [engine EXCEPT ![r] = Snapshot(EffectiveFor(r))]
    /\ UNCHANGED <<rowVars, clock, stage, recorded, held, human, checked>>

\* _load_policy_engine: a row that is no valid Policy is dropped, and without any
\* policy there is no engine.
StartProxy(project) ==
    LET loaded == {id \in VisibleTo(project) : ScopeConsistent(Definition[id])}
    IN  /\ Revalidates
        /\ held' = IF loaded = {} THEN Null ELSE Snapshot(loaded)
        /\ UNCHANGED <<rowVars, clock, requestVars>>

(***************************************************************************)
(* Requests                                                                *)
(***************************************************************************)
\* Only a deny stops a request.
FaultyStageOf(effect) == IF effect = "deny" THEN "denied" ELSE "authorized"

StageOf(effect) == CASE effect = "deny" -> "denied"
                     [] effect = "require_approval" -> "pending_approval"
                     [] OTHER -> "authorized"

\* propose: evaluated now, under the snapshot loaded before.
Propose(r) ==
    LET answer == Evaluate(Rows(engine[r]), Content[r], clock)
    IN  /\ stage[r] = "unborn" /\ engine[r] /= Null
        /\ stage' = [stage EXCEPT ![r] = StageOf(answer.effect)]
        /\ recorded' = [recorded EXCEPT ![r] =
                            PolicySetHash(Rows(engine[r]), answer.matched)]
        /\ engine' = [engine EXCEPT ![r] = Null]
        /\ UNCHANGED <<rowVars, clock, held, human, checked>>

\* approve, as TransitionEngine describes it.
ApproveRequest(r) ==
    /\ stage[r] = "pending_approval"
    /\ stage' = [stage EXCEPT ![r] = "authorized"]
    /\ human' = [human EXCEPT ![r] = TRUE]
    /\ UNCHANGED <<rowVars, clock, engine, recorded, held, checked>>

\* issue_authorization: the token carries the versions the transition recorded.
IssueToken(r) ==
    /\ stage[r] = "authorized"
    /\ stage' = [stage EXCEPT ![r] = "issued"]
    /\ UNCHANGED <<rowVars, clock, engine, recorded, held, human, checked>>

\* Steps 5b to 5e ask for the same policies, whatever they answer.
FaultyRevalidated(r) ==
    LET answer == Evaluate(Rows(held), Content[r], clock)
    IN  PolicySetHash(Rows(held), answer.matched) = recorded[r]

Revalidated(r) ==
    LET answer == Evaluate(Rows(held), Content[r], clock)
    IN  /\ answer.effect \notin {"deny", "require_approval"}
        /\ PolicySetHash(Rows(held), answer.matched) = recorded[r]

\* verify_and_claim_in_transaction, after the revalidation if there is an engine.
\* A refusal changes nothing: the token stays usable.
Claim(r) ==
    /\ stage[r] = "issued"
    /\ held /= Null => Revalidated(r)
    /\ stage' = [stage EXCEPT ![r] = "executing"]
    /\ checked' = [checked EXCEPT ![r] = held /= Null]
    /\ UNCHANGED <<rowVars, clock, engine, recorded, held, human>>

Tick == /\ clock < Horizon
        /\ clock' = clock + 1
        /\ UNCHANGED <<rowVars, requestVars, held>>

Next ==
    \/ \E id \in Policies : \/ Create(id) \/ Submit(id) \/ Retire(id)
                            \/ RegisterAgent(id)
                            \/ \E trusted \in BOOLEAN : ImportPolicy(id, trusted)
                            \/ \E who \in Approvers : ApprovePolicy(id, who)
    \/ \E r \in Requests : \/ LoadEngine(r) \/ Propose(r) \/ ApproveRequest(r)
                           \/ IssueToken(r) \/ Claim(r)
    \/ \E project \in DOMAIN BranchesOf : StartProxy(project)
    \/ Tick

Spec == Init /\ [][Next]_vars

(***************************************************************************)
(* Properties                                                              *)
(***************************************************************************)
\* No policy governs a request, or a running proxy, unless somebody approved it or
\* an import from a trusted signer and source brought it, however submissions,
\* approvals and retirements of it interleave.
Approved(snapshot) ==
    \A id \in DOMAIN snapshot : snapshot[id] \in Approvers \/ id \in vouched
PoliciesGovernApproved ==
    /\ Approved(Snapshot(Active))
    /\ \A r \in Requests : engine[r] /= Null => Approved(engine[r])
    /\ held /= Null => Approved(held)

\* A request authorized without a human was matched by a policy that says so.
UnattendedIsPermitted ==
    \A r \in Requests :
        stage[r] \in {"authorized", "issued", "executing"} /\ ~human[r] =>
            \E id \in Policies : /\ Definition[id].effect \in {"allow", "warn"}
                                 /\ <<id, Version(Definition[id])>> \in recorded[r]

\* What a human approved never passes a revalidation: the same matched policies
\* give the same answer, and that answer asked for the human. A proxy built with an
\* engine executes only what the policies permit by themselves.
RevalidationExcludesApprovals == \A r \in Requests : checked[r] => ~human[r]

\* The claim sees the policies of its own moment ("Evaluate current active
\* policies", base.py:364; "eliminating the TOCTOU race where a policy could change
\* between evaluation and claim", base.py:437).
ClaimSeesCurrentPolicies ==
    [][\A r \in Requests :
          Claim(r) /\ held /= Null =>
              LET current == Rows(Snapshot(EffectiveFor(r)))
              IN  PolicySetHash(current, MatchedPolicies(current, Content[r], clock))
                      = recorded[r]]_vars

=============================================================================
