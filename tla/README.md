# A specification of ep-governance

TLA+ models of the governance service in this repository (`src/ep_governance`),
the TLC configurations that check them on small instances, and TLAPS proofs of
the theorems that hold for every instance. Paths in this file are relative to the
root of the repository; the modules map to lines of it in `PROJECT.json`.

## 1. The system

Agents do not touch governed targets (databases, repositories, files, mail)
themselves. They *propose* an action; the service classifies it, evaluates policies
and records a **transition**; a human may have to approve it; an
**authorization** is issued for it; and the **governed proxy** claims that
authorization exactly once, performs the action with its own credentials, and
commits the outcome as a node of a branching graph. Each step is an event of a
hash chain. Several processes (the MCP server, the command line, the proxy
service) share one PostgreSQL or SQLite database and nothing else: they
interact only through its rows, its row locks and its unique indexes.

    agent --propose--> TransitionEngine --policy answer--> stage of the row
    human --approve/deny/cancel/expire--> TransitionEngine ----^
    MCP   --issue_authorization--> AuthorizationEngine (token)
    agent --token--> GovernedProxy: pre-check | claim | adapter | head read
                       |-> BranchCommitter.commit | record_result
    operator --mark-uncertain/reconcile--> TransitionEngine -> BranchCommitter
    all of them --write_event_in_transaction--> AuditWriter (chain per lattice)

### Inventory

| Component | State | Operations | What is hard | What makes it correct | Module |
|---|---|---|---|---|---|
| Transition engine (`transitions.py`) | `ep_transitions`: stage, result, manual-reconciliation flag; `ep_approval_requests` | propose, approve, deny_approval, cancel, advance_stage, record_result, reconcile | stage is read in one statement and written, unguarded, in a later one; idempotent resubmission; reconciliation in several transactions | legal stages, one execution, no forgotten effect, decisions final | `TransitionStages`, `TransitionEngine`, `TransitionLifecycle`, `ProposalRetry` |
| Branch committer (`branches.py`) | `ep_branches` head and version, `ep_nodes`, `ep_edges` | commit | unlocked stage read; optimistic version; rollback of several writes | one node per transition, a linear chain per branch, no silent rebase | `TransitionEngine` |
| Authorization engine (`authorizations.py`) | `ep_authorizations`: used_at, expiry | issue, verify, claim | several tokens per transition, replays, clock | single use, never before the grant | `TransitionEngine` |
| Governed proxy (`proxy/base.py`, adapters) | locals of a request | execute | target and database fail independently; replies get lost; crashes | at most one invocation, a result for each | `TransitionEngine` |
| Audit chain (`audit.py`, `canonical.py`) | `ep_events`, `ep_audit_heads` | write_event(_in_transaction), verify | concurrent writers, rollbacks, damaged tables | gapless chain, verification detects damage | `AuditChain` |
| Repositories, transactions (`db/`) | the connection | guarded updates, isolation | READ COMMITTED, lock order | - | in all of the above |
| Operator commands (`cli.py`), MCP server | none | callers of the engine | repair races the proxy | - | `TransitionEngine` |
| Policy engine (`policy_engine.py`, `policies.py`) | the list it was built from | evaluate: matching, overrides, resolution | exceptions, priorities, periods, errors | a deny needs a proper exception; conflicts and errors refuse | `PolicyEngine`, `PolicyDecision` |
| Policy lifecycle | `ep_policies`; snapshots held by requests and proxies; `policy_set_hash` | create, register, import, submit, approve, retire; load, propose, issue, revalidate | updates by id alone; stale snapshots | only approved policies govern; a claim sees the policies it should | `PolicyRevalidation` |
| Branch graph across branches | heads, versions, nodes and edges of a lattice | create-branch, commit, quarantine, at-risk | forks share a head node; commits race | one chain per branch, what is live is a head | `BranchGraph` |
| Transfer (`transfer.py`) | packages; an import's new project | export, import_as_fork | reads without a snapshot, an import in several commits | exports are closed, imports whole once mapped | `Transfer` |
| Deployment verification (`deployment.py`), `refresh_attestation.py`, `serve` | capabilities in the memory of server and proxy; the attestation file | verify_deployment, from_status, from_signed_attestation, require_binding_enforcement, refresh | the environment changes between and after the looks; files replaced, processes restarted | nothing issued unless every condition was seen recently, nothing executed without a valid attestation | `Deployment`, `Enforcement` |
| Proxy service (`proxy_service.py`) | rate-limit lists | do_POST, RateLimiter.check, start, stop | window boundary; one request at a time | the limit is exact | `ProxyService` |
| Roles and enrollment (`cli.py`, `mcp_server.py`) | `ep_role_bindings`, `ep_bootstrap_state` | bootstrap-admin, register-agent, _check_role | concurrent enrollments; bootstrap mode | one administrator; set-up ends | `Enrollment` |
| Work claims | `ep_work_claims` | claim, release | partial unique index, open transactions, repeated calls | one holder per region | `WorkClaims` |
| Identifiers (`xid.py`) | last timestamp, counter | XID.new | clock set back, counter wraps | no repetition within a turn | `Identifiers` |
| Backup (`backup_governance.py`) | live and temporary schema | backup, restore | steps fail unnoticed, the count passes an incomplete schema, restores overlap | a live schema exists, and passed the count | `Backup` |
| Risk ledger, bypass detection, sessions | tables no program writes | - | - | - | not modelled |
| Classification, resources | none | parsers | string processing | - | not modelled |
| Keys, configuration, embeddings, logging, errors, report scripts | none | I/O | - | - | not modelled |

`PROJECT.json` lists every component with its sources, and every hazard with the line
where it bites and the properties that watch it.

## 2. Modules and how they correspond to the code

* **`TransitionStages`** - the stage names of the schema's CHECK constraint,
  `LEGAL_TRANSITIONS`, `is_legal_transition`, and the stages in which `propose` can
  leave a row.
* **`TransitionLifecycle`** - the abstract specification of one governed action: its
  stage moves along legal transitions only, the adapter is invoked at most once
  and after the claim, and a graph node appears in the very step that makes
  the stage `succeeded`, once.
* **`TransitionEngine`** - the engine, authorizations, proxy, committer and operator commands over
  one database. The variables of the first group are columns (`stage`, `flag`,
  `expected`, `approval`, `approver`, `tokenOf`, `tokenState`, `version`, `head`,
  `node`; `trail` is what the latest stage event of the audit chain says); `call[w]` is the
  program counter and the locals of handler `w`; `runs`, `changed`, `commits` and
  `verdict` are history variables that only properties read.

  | Code | Actions |
  |---|---|
  | `propose` (one transaction) | `Propose` |
  | `approve`, `deny_approval` | `BeginDecision`; `FinishDecision` |
  | `cancel` | `BeginCancel`; `FinishCancel` |
  | `expire` command: `advance_stage(.., "expired")` | `BeginExpire`; `FinishExpire` |
  | `issue_authorization`; expiry | `IssueAuthorization`; `Lapse` |
  | `GovernedProxy.execute` 1-4.5, 5-6, 7, 8 | `Present`; `Claim` or `ClaimRefused`; `Invoke`; `ReadHead` |
  | `BranchCommitter.commit` | `CommitBegin`; `CommitWrite` or `CommitRefused` |
  | `record_result` by the proxy | `RecordBegin`; `RecordResult` or `RecordRefused` |
  | `mark-uncertain` command | `MarkUncertain` |
  | `reconcile(succeeded)` | `BeginReconcile`; the commit; `ClearFlag` or `RaiseFlag` |
  | `reconcile(failed)` | `BeginSettle`; `FinishSettle` |
  | process death | `Crash` |

* **`TransitionEngineMC`** - constants for TLC. **`TransitionEngineClaims`** - statements
  of the documentation that the engine does not keep (section 4).
* **`TransitionEngineProofs`**, **`TransitionRefinementProofs`** - section 5.
* **`ProposalRetry`** - resubmission under one idempotency key: the lookup and
  the insert of `propose` are two steps, the unique index decides; all other
  handlers are "the stage of a row moves legally". `TransitionEngine.Propose` is
  the same handler with a key of its own, which is what the CLI and MCP server send. A move of
  the stage is one step here, check and write, since only the claim bears on the property and the
  claim is one guarded update.
* **`AuditChain`** - `write_event_in_transaction` (lock and read the
  head, then insert, update the head and commit, or roll back), the missing
  initialisation of heads, loss and alteration of event rows, and
  `AuditVerifier.verify`. The hash of an envelope is the tuple of its fields. The lock is that of
  PostgreSQL (`audit.py:207`), and so every property and theorem of this module is about
  PostgreSQL; the branch for SQLite takes none (section 4).

* **`PolicyEngine`** - `evaluate` as operators over a list of policies: scope, period, action
  and resource matching, conditions that may fail, `_compute_overrides`, the resolution by
  priority. Globs are a relation, a CEL condition is true, false or an error.
  **`PolicyDecision`** is a list that grows from a `Catalog` while time passes; its properties
  compare the answer to every one of `Queries` with what the evaluation promises.
* **`PolicyRevalidation`** - policies as rows (`Create`, `RegisterAgent`, `ImportPolicy`,
  `Submit`, `ApprovePolicy`, `Retire`) and a request through them: `LoadEngine`, `Propose`,
  the human, `IssueToken`, `Claim` with the revalidation of `GovernedProxy.execute` steps
  4.5 to 6. `Revalidates` says whether proxies are built with an engine; the deployed one is
  not. It details what `TransitionEngine` takes as one refusal.
* **`BranchGraph`** - the graph of a lattice with several branches: commits and
  `create-branch --from-branch` in two steps each (read, then write under the version
  guard), supersession, quarantined and at-risk marks. `TransitionEngine` has the inside of
  one commit, this module its effect on the graph.
* **`Transfer`** - extends `BranchGraph`: an export reads branches, nodes, edges and the count
  of packages one after the other while commits go on, and then stores; an import
  commits after each phase and may fail in between.
* **`Deployment`** - the checks of `verify_deployment`, and the two capabilities, as
  operators. **`Enforcement`** - the processes that hold them: a proxy that loads an
  attestation, the file, the environment and the clock, all of which change at any moment, and
  a server that `serve` starts look by look:

  | Code | Actions |
  |---|---|
  | `serve`: `verify_file_ownership` of the manifest | `BeginServe` |
  | `serve`: the file is opened again | `ReadManifest` |
  | `verify_deployment`: advisory mode; each probe; request to `/health` and result | `SkipChecks`; `Probe`; `CheckHealth` |
  | `serve`: capability, `create_server` | `StartServer` |
  | `_ep_execute`, `issue_authorization` | `Issue` |

  `starting` is what such a server has seen so far; `held` is a history variable: the conditions
  that were the case at some moment since it began.
* **`ProxyService`**, **`Identifiers`**, **`Enrollment`**, **`WorkClaims`**, **`Backup`** - one
  component each, as in the table. `Enrollment` and `WorkClaims` keep checks and writes
  of a transaction apart and model what the database does about it: PostgreSQL fails the
  serializable transaction that read what another changed, SQLite (where the driver
  begins the transaction at the first write) does not; an insert into a partial unique
  index waits for the open transaction that could change its answer. The limiter's loop pops
  requests from the front while they are out of the window, hence `Oldest`, the first within.
* **`Absence`** - the constant `Null`, shared by the services.
* **`PolicyMC`**, **`TransferMC`**, **`ServicesMC`** - instances for TLC. Components that share
  no state are alternatives of one run: `scenario` chooses one at the start and the others
  stay in their initial state, since interleaving them would show nothing more.
* **`ProposalRetryProofs`**, **`AuditChainProofs`**, **`PolicyProofs`** (both policy modules),
  **`GraphTransferProofs`** (`BranchGraph` and `Transfer`), **`EnforcementProofs`**,
  **`ServicesProofs`** (`Identifiers`, `Enrollment`, `WorkClaims`, `ProxyService`, `Backup`, one
  after the other) - section 5.

Operators named `Faulty...` stand before the definition they would replace. Each is that
definition with a plausible mistake; no specification uses them. Substituting one must
break the property `PROJECT.json` pairs it with, which shows that the property depends on the code.

### The steps and why they are fine enough

Transactions run at READ COMMITTED (PostgreSQL's default; the SQLite set-up,
WAL with deferred BEGIN, has the same read-then-write races), except the claim, which
is SERIALIZABLE. Hence:

* A handler that reads a stage and later writes it takes **two steps**, and any other
  handler may commit in between. This is where `cancel`, `expire`, the decisions
  and `reconcile(failed)` can be overtaken: `advance_stage` validates what it read and
  then calls `update_stage` without `expected_current_stage`.
* From its first row lock to its commit a handler is **one step**. Its writes are
  invisible until the commit, it reads nothing after the lock that others can
  change, and rows are locked in one order (node or branch, transition, audit head).
  The writing half of `record_result` is one step for this reason: `update_result` locks the row
  before the stage is read again. But that second read only asks whether the move is legal;
  that the stage is `executing` was asked without a lock, in a step of its own (`RecordBegin`).
* The approval row is locked *before* the stage is read, so that lock is modelled:
  `DecisionInProgress` makes a second decision wait, and the guarded UPDATE then affects no row.
* A read repeated later in the same handler under a condition at least as strong is
  merged with the later one. `expected_head_id` and `expected_version` are one number,
  since a branch's version determines its head.
* In `TransitionEngine` the policy engine is a nondeterministic answer (`PolicyRevalidation` has
  the real one); classification, hashes, signatures and
  capability checks of the proxy are part of one refusal (`ClaimRefused`), which
  may happen whenever it likes. In the deployed proxy no policy engine is configured.
* An adapter that reports success has changed the target. One that raises or times out may
  or may not have.

* The services: an environment, a file or a clock may change between any two steps, and each
  look of a starting server is one step: the ownership of the manifest, its reading, each
  secret, the health request. The variables of the server's process, the assertions among
  them, do not change under it. A `psql -c` with several statements is one transaction, hence
  one step of `Backup` that succeeds or not.

## 3. The runs

State counts are distinct states. `CHECK_DEADLOCK FALSE` everywhere: transitions,
authorizations, keys and events are finite, so the system may stop when everything is done.
Symmetry is used in the safety runs only, over sets the specification treats alike.

| Run | Checks | Instance | States |
|---|---|---|---|
| `EngineRaces` | `TypeOK`, `AtMostOneInvocation`, `InvokedOnlyIfGranted`, `OneNodePerTransition`, `UncertainIsFlagged`, `DecisionsAreFinal`, `IInv` | 1 transition, 2 authorizations, 3 handlers, every command and fault | 64,337 |
| `EngineBranch` | `BranchChainIsLinear`, `ProxyKeepsExpectation` | 2 transitions on one branch, 2 authorizations, 2 handlers; cancel and all of reconciliation; every fault | 329,589 |
| `EngineLifecycle` | `TrailFollowsStage`, `NoChangeForgotten`, `ImplementsLifecycle` | 2 transitions, 2 authorizations, 3 handlers; decisions, mark-uncertain, reconcile(succeeded); lost replies | 1,363,828 |
| `EngineLiveness` | `ExecutionEnds` | 2 transitions, 2 authorizations, 2 handlers; cancel, mark-uncertain; lost replies | 350,417 |
| `Policies` | `SomebodyPermits`, `DenyNeedsException`, `DenyNeverLoosens` (engine); `PoliciesGovernApproved`, `UnattendedIsPermitted`, `RevalidationExcludesApprovals` (rows) | all lists over 8 policies, 4 requests, 4 instants; 3 rows, 1 request, a revalidating proxy, 3 instants | 113,854 |
| `GraphTransfer` | `BranchesAreChains`, `LiveNodesAreHeads`, `PackagesAreClosed`, `SequenceFollowsStore`, `MappedForkIsWhole` | 2 branches, 2 handlers; 3 nodes and 2 exports, or 2 nodes, 1 export, 1 import | 2,423,722 |
| `Services` | `IssuedUnderIsolation`, `ExecutedUnderAttestation`, `ProductionIssuesNothing`, `LimitIsExact`, `EqualOnlyAfterWrap`, `AtMostOneAdministrator`, `CompletedNamesAdministrator`, `SetupEndsWithEnrollment`, `OneHolderPerRegion`, `NobodyLosesAClaim`, `LiveWasCounted`, `AtMostOneEffectPerKey`, `ChainIsTheLog`, `UndamagedVerifies`, `AppendNeverConflicts`, `VerifiedIsPrefix` | one service per behaviour: 4 environments, 7 attestations (2 while a server starts), 4 instants; 2 clients, limit 2, window 2, 5 instants; a counter of 3 values, 7 identifiers; 2 operators, 2 humans, 1 agent, 3 tools; 2 workers, 2 regions, 3 claims; 2 restores; 1 key, 3 clients, up to 3 rows; 2 lattices, 2 writers, 2 contents, 3 events per lattice, rows lost and altered | 580,866 |

**Why these bounds.** The races of the engine are between handlers of *one* transition; handlers of
different transitions meet only at a branch. One transition with two
authorizations lets two proxies pass the pre-check, claim, and commit or be refused while a
third handler withdraws, decides or repairs; every pair of read-then-write
handlers, plus one that separates them, is there. Two transitions make two commits
on one branch race, one of them with an expectation that the other makes stale; decisions and
`expire` add nothing at the branch, since the committer looks at the stage only. `MaxRows = 3` exceeds
the one row the unique index admits, so the index and not the bound stops the second.
Three events admit a hole, an altered middle and a continuation after a loss, and two
lattices show that chains do not mix. `EngineLifecycle` and `EngineLiveness` have two transitions
because the commit that finds a stale head, whose error path must record a result, needs a second
one; in `EngineLiveness` the repair of a transition that has already left `executing` is left out.

The eight policies of `Policies` are one of each kind that the engine tells apart (a deny, a proper
exception and an improper one, a review, a deny for a period, an allow, a warning, a failing
condition), and every sublist is reached; the rows need one policy of each effect that
outlives or ends during a request. Two branches, one forked from the other at any of its
commits, show all that a fork shares; three nodes put a commit before, between and after
the reads of an export. The attestations are a good one, one issued ahead of time and one
for each reason to refuse, and time runs past every lifetime, so that restarts, expiry and
replacement meet. The window of the limiter starts and ends inside the run; the counter wraps
twice; three claims of two regions let a region change hands while an old release is
repeated; two restores are what an overlap takes.

**What they show.** Whatever approvers, operators, crashes and replays do, an adapter
runs at most once per transition and only under a grant; a transition makes at most one
node; the nodes of a branch stay one chain ending in its head; uncertain outcomes stay listed;
and a decision is never revised. The proxy commits a proposal with an expectation on it or not at
all; the `reconcile` command does not (section 4). A key
resubmitted at any moment never makes the action run twice. The chain is the log, it
verifies while it is undamaged, and what verifies is a prefix of it. A request passes the
policies only if one of them says so, which is the code's default and not the one of
`docs/policy-semantics.md` (section 4), and every deny it meets has a proper exception, and what governs it
was approved by somebody. Exports torn by commits still hold every predecessor; a fork that
has its mappings is whole. A token is issued only if each
condition of the isolation held at some moment of its server's start, which began no longer ago than
a capability lives and the start took; that they held *together* is not so (section 4). Actions are
executed only under a valid attestation, and the small services keep the properties named.

**Fairness.** `FairSpec` adds weak fairness of `Proceed(w)` for each handler: a running handler
goes on, since it only ever waits for row locks that are released at a commit. Nothing is
assumed about requests, operators or the clock. The services have no liveness property: the proxy
waits for its client without a timeout, the others answer in the call. `EngineLiveness` has no crash and no
database error: with either, the transition does stay `executing` (section 4).
A lost reply is modelled at the commit of the graph; a claim whose reply is lost equals a crash
after the claim.

**Where a run has fewer commands, and why.** `EngineLifecycle` leaves out
`cancel`, `expire` and `reconcile(failed)`, whose unguarded updates break the lifecycle, and
the first two also lose the record of an effect (section 4); and crashes and database errors, after
which an effect is known only from the stage `executing`. Section 4 describes both losses. The
refinement theorem (section 5) covers the lifecycle under every fault, and the theorem about
effects allows `reconcile(failed)`.

## 4. Where the code and its documentation disagree

Each run checks one statement of the documentation and TLC finds a behaviour of the code
against it. `PROJECT.json` quotes the statement.

| Run | Behaviour |
|---|---|
| `ClaimWithdrawal` | `cancel` reads `authorized`; the proxy claims and the stage is `executing`; `cancel` writes `cancelled`. The action still runs; its commit and result are refused. |
| `ClaimStalePolicies` | A policy is approved or retired after the proxy's engine was built; the revalidation before the claim does not see it. |
| `ClaimUncertainWaits` | A proxy about to record a failure has found `executing`; `mark-uncertain` commits; the proxy writes `failed` over `execution_uncertain`. No operator reconciled it, the trail says `failed`, and the flag stays. |
| `ClaimUnmatchedAllowed` | A request that no policy matches, for instance because there is none, is sent to a human; `docs/policy-semantics.md` says that it is allowed. |
| `ClaimOneAdministrator` | On SQLite two `bootstrap-admin` commands check, then both write: there are two administrators. |

The models have other behaviours that a reader of the documentation would not expect; they follow from
the same lines and have no run of their own.

Engine and branch:

* The unguarded update of `advance_stage` also lets `approve`, which read `pending_approval`, write
  `authorized` over a committed `expired`; and `reconcile(failed)`, which read
  `execution_uncertain`, write `failed` over the `succeeded` of a racing commit, so that the
  graph keeps a node of a failed transition.
* `mark-uncertain` while the adapter runs, followed by the proxy's commit, leaves the flag set, and
  no operation clears it (`docs/state-machines.md:100` says it is cleared): `commit` takes
  `execution_uncertain` to `succeeded`, so this too ends the uncertainty without the operator
  that `docs/operations/runbooks.md:23` asks for ("via reconcile only"). The list of
  operators may thus hold ended transitions; that it holds all uncertain ones is
  `UncertainIsFlagged`.
* The `reconcile` command replaces the expectation of a proposal by the current head and so
  commits it on a version it did not expect (`docs/normative-spec.md:304`).
* A proxy that dies after the claim leaves `executing` until an operator marks it; no timeout does
  (`docs/failure-recovery.md:144`).
* The key of an ended transition can never be used again, since the unique index covers all rows
  (`docs/normative-spec.md:102`). Of two concurrent submissions of a key the second may meet the
  index and gets an error in place of the existing transition.
* Reconciliation moves `execution_uncertain` on, as `LEGAL_TRANSITIONS` says and the tables of
  `docs/state-machines.md` do not.
* The claim and the `expire` command write no audit event (hence the exception in
  `TrailFollowsStage`).
* An adapter whose connection breaks after the effect raises, and the transition is `failed`.

Audit, graph and transfer:

* On SQLite `write_event_in_transaction` reads the head without a lock (`audit.py:191-200`) and
  leaves it to its caller to have begun with BEGIN IMMEDIATE. `transaction` does not send
  one, and `locked_transaction`, which does, has no caller; the class's docstring (`audit.py:116-118`)
  and EP-AUDIT-004 (`docs/normative-spec.md:178`) say that the writes are serialized by it. A
  caller that has written before it appends holds SQLite's write lock anyway.
* Nothing in the package inserts the audit head of a new lattice (`InitHead`).
* `AuditVerifier.verify` accepts a chain whose last events are missing; it does not compare with
  the head (`docs/audit-format.md`, 7.2).
* The head of a fork may be superseded by a commit on its parent. `mark_quarantined` and
  `mark_at_risk` have no callers.
* Overlapping exports may get the same `snapshot_sequence`; an import stores a package of number 0,
  so that the first export of a fork is number 2. Imported branches have no heads and all
  their nodes are `committed`. A failed import leaves part of a fork behind.
* Imported policies with a project or branch scope violate the scope CHECK of the schema;
  those of an agent become global. One from a trusted signer and source is active at once, though
  `docs/transfer-format.md:253-255` has it go through the normal approval workflow; hence the
  exemption in `PoliciesGovernApproved`.

Policies:

* At equal priority a warn beats an allow, say `docs/policy-semantics.md:118-119` and EP-POLICY-004
  (`docs/normative-spec.md:116`); the code answers a conflict and asks a human, as section 3.3 of the
  same document and EP-POLICY-007 have it. `SomebodyPermits` states what the code does, here and for a
  request without a match.
* The engine compares instants as strings. The loaders write them with `isoformat`, but
  `proxy_service.py:393-394` with `str`, whose separator sorts before `T`; only
  `_load_policy_engine`, which nothing calls, is affected. The models compare numbers.
* Overrides are looked up by id without regard to the effect: an exception can also remove a
  `require_approval` policy, once some deny is matched. The branch "everything overridden:
  allow" is never reached. Policies loaded from the database carry no justification, so none
  of them can be an effective exception.
* A condition that raises fails the whole evaluation, although the docstrings at
  `policy_engine.py:321` and `:358` say that it does not match.
* A request that a human approved never passes a revalidating proxy: the policy that asked for
  the human asks again. (The deployed proxy does not revalidate; `_load_policy_engine` of
  `proxy_service.py` has no callers.)
* `submit` makes an active policy pending, and a retired policy can be submitted and approved again.
* Versions as recorded may differ from those in force when `matched_policies` are reused by the
  MCP server.

Enforcement and services:

* A capability from a status lives 300 seconds and is not renewed: an enforced MCP server
  stops issuing then. In production it never issues, since only a signed capability
  is accepted and `serve` does not load one (`ProductionIssuesNothing`).
* `refresh_attestation.py` lists action types such as `select` while tokens carry the tool
  `postgres.execute`: a proxy with such an attestation refuses every execution.
* The deployed proxy answers a health request with a nonce with 404, so the authenticated health
  check always fails; `serve` makes the plain one. Health stays good when the capability
  has expired. `requests_total` is never counted.
* `serve` opens the manifest file again after `verify_file_ownership`, which its docstring
  (`deployment.py:245`) excludes; then come the probes one by one (`deployment.py:1092`) and a
  health request of up to 5 seconds (`deployment.py:1165`). A server may therefore be
  `enforced` although at no moment was everything in order: the manifest's owner at the first
  look, its content at the second, the absence of a secret at the third, the proxy at
  the last. `IssuedUnderIsolation` says what remains true.
* A client that sends less than its Content-Length stops the single-threaded proxy for everyone.
* `ep_audit_verify` is not in the set of governed tools of `check_agent_tool_manifest`.
* `register-agent` works on PostgreSQL only, and fails when the role is missing.
* `release` does not look at the agent. Work claims, sessions, the risk ledger, bypass detection and
  `fork_safe_reseed` have no callers; no code writes the event type that bypass
  detection looks for.
* A restore takes 20 tables for enough (`backup_governance.py:97`) while `001_init.sql` creates 25, and
  does not look at rows: a load that stopped after 20 to 24 tables, or with all tables and
  none of their rows, becomes the live schema, and "Restore complete" is printed, as
  it is whatever the swap did. Two overlapping restores can make a schema with even fewer tables the
  live one (the reason for `overlapped` in `LiveWasCounted`). A count that fails drops a good
  load. The schema's name is replaced in the data, too.

## 5. What is proved

For every set of transitions, authorizations, branches, principals and handlers that
satisfies `ConstantsAssumption` (which only types the constants):

* `TypeCorrect`: `Spec => []TypeOK`.
* `InvCorrect`: `Spec => []IInv`, and from it `AdapterRunsAtMostOnce`,
  `AdapterRunsOnlyIfGranted`, `AtMostOneNode`, `UncertainAlwaysFlagged`, and the action property
  `DecisionsNeverRevised`.
* `EngineImplementsLifecycle`: under `NoWithdrawal` (no `cancel`, `expire` or
  `reconcile_failed` is issued), `Spec => Lifecycle!Spec`.

**The argument.** `runs[t] <= 1` is not inductive: stale writes may take a transition from
`executing` back to, say, `cancelled`, and one must rule out that a further stale write makes it
`authorized` again. What makes the code work is that **a claim is permanent** (`Claimed(t)`: some
authorization of `t` is used). The invariant says that after a claim the stage is never
`authorized` or `pending_approval` again, because the only writer of `authorized` after the proposal is a
decision in progress, which holds a *pending* approval request (`CallInv`), and a pending
request excludes a claim (`RowInv`). Decisions of one request exclude
one another by the row lock and two proxies never stand between claim and invocation
together (`Exclusive`). A grant is permanent once claimed. For nodes: `commit`
writes only over the stage it read (`executing` or `execution_uncertain`), and a transition
with a node is in neither stage. `IInv` is also an invariant of `EngineRaces`.

`record_result` keeps all this although it writes after a stale read: its second look allows
`failed` from `executing` and `execution_uncertain` only (`LEGAL_TRANSITIONS`), the open
stages of a claimed transition, and it never takes the flag away. An uncertain
transition is therefore always flagged (`UncertainAlwaysFlagged`); that a flagged one is
still uncertain is not claimed.

The refinement is the identity on `stage`, `runs` and `commits`. It leaves open which handler moves an
uncertain transition on: a late failure does it without an operator, which `ClaimUncertainWaits` shows. It needs `NoWithdrawal`: with
any of the three commands the overwrites of section 4 are steps the abstract specification
does not have. With guarded updates in
`advance_stage` the theorem would hold without it.

Further invariants of the engine, on top of `IInv`:

* `BranchesAreLinear` (`BranchChainIsLinear`): `BranchInv` adds that versions and heads of a branch agree
  with its nodes and that no node lies above the version; the guarded update of the
  head makes the difference.
* `ProxyNeverRebases` (`ProxyKeepsExpectation`): a proxy between its read of the head and the commit
  carries the expectation of the proposal (`Carries`), which no step changes.
* `TrailKeepsUp` (`TrailFollowsStage`), under `NoWithdrawal`: a node is made with the stage
  `succeeded`, which nothing then changes, and a result is written together with its event, also
  when it comes late.
* `ChangesAreNeverForgotten` (`NoChangeForgotten`), under `NothingDropped`: no `cancel` or
  `expire` is issued, nothing crashes and the database does not fail, but replies may get lost. The
  property speaks only of transitions nobody works on, so it is not inductive; `ChangeInv` adds
  that a changed transition in `executing` has a proxy that will report (`Reports`), and no
  step ends a report without ending `executing`. The hypothesis is weaker than the run's.

The other modules, each from the assumptions named and no others:

* `KeyActsOnce`: the index keeps the rows of a key to one (`KeyInv`), and `executing` is entered
  along one way only (`ClaimIsOneWay`). No assumption on the constants.
* `LogStaysAChain`, `WritersNeverCollide`: the head is the last committed event of a chain
  (`LogIsChain`), an open transaction continues it (`EventContinues`) and is the only one of its
  lattice (the row lock); a stored row, altered or not, bears the number and hash of a logged
  event. Rows may be lost and altered in any way that the model allows.
* `UndamagedChainsVerify`, `VerificationFindsDamage`: a stored row whose hash is right is a row of
  the log (`HashedRowIsLogged`), since a hash determines its envelope. In a chain that verifies,
  take the first row that is not at its place in the log: its link determines the row before
  it, which is at its place, so it is at its own. This holds with SHA-256 as an injection.
* `PermissionIsGiven`, `DenyNeedsItsException`, `MoreDeniesPermitLess`, from `CatalogAssumption`
  (finitely many policies, each with the columns of `Policy`, an effect, a scope and an integer
  priority): the lemmas before them say what `evaluate` answers. What is left after the
  overrides has a top priority, since it is finite; a permission is the effect of a policy at the
  top, of which none disagrees; a deny that is left would be part of it. An added deny
  matches or not, and only takes permissions away as long as exceptions name denies.
* `OnlyApprovedPoliciesGovern`, `UnattendedOnlyIfPermitted`, `RevalidatedWithoutHuman`, from
  `RowsAssumption` (finitely many well-formed policies; no policy is approved by, and no status
  is, `Null`): an active row is approved or vouched for, and the columns that `evaluate` reads do
  not change after the insert, so every snapshot of a row says the same (`RowColumns`). A revalidation
  that sees the versions recorded at the proposal therefore evaluates the same matched policies to the
  same answer, which was not a permission when a human was asked (`HumanWasAsked`).
* `BranchesStayChains`, `LiveNodesStayHeads`, `PackagesStayClosed`, `SequenceGrowsWithStore`,
  `MappedForksAreWhole`, for any branches, handlers and bounds. What a handler has read stays
  true while others write (`Grows`): nodes and edges stay, a stored node gets no further
  predecessor, and a head moves only with its version, so a commit that raced is refused by the
  version guard. `TransferInv` says for each stage of an export what it has read is closed: heads
  within the branches read, nodes that reach from them, edges that join them; for an import
  that its fork has been written up to its phase, by one handler.
* `NoTokenWithoutIsolation`, `NoTokenInProduction`, `NoActionWithoutAttestation`, from
  `DeploymentAssumption` and `AttestationAssumption` (lifetimes are naturals, times integers): a
  process remembers what it has seen. What a starting server has found in order held when it looked
  and stays in `held` (`LooksSeen`), so an `enforced` one leaves no condition out
  (`EnforcedMeansPassed`, `ServerIsolated`); a proxy has the fields of its attestation (`ProxyLoaded`).
* `IdentifiersRepeatOnlyAfterWrap`, `IdentifiersSort`, for every positive width: counts less than a
  turn apart are related by an addition that wraps once (`CountsAdvance`).
* `OneAdministratorAtMost`, `BootstrapNamesAdministrator`, `BootstrapModeEnds`, for PostgreSQL and
  `Null` apart from the principals: what an enrollment has read is still so when it commits, or it
  fails; what a tool call has read about roles only grows.
* `RegionHasOneHolder`, `ClaimsEndByRelease`, with `Null` apart from records: an open claim
  reserves its region and identifier (`ClaimsReserve`).
* `LimitStaysExact`, from `LimitAssumption` (the limit and the end of time are naturals, the window is
  an integer): the limiter's list is the end of what was let through, and what it has evicted is
  out of the window (`ListIsEnd`). Hence requests that are the limit apart are a window apart
  (`SpreadOut`), so that no window holds more; and a client that finds the list full has let that
  many through within the window.
* `LiveStaysCounted`, with `Null` apart from the states of a schema: until two restores overlap at
  most one is under way, and what it swaps in is what it has counted (`RestoresAlone`), complete or not.

Induction over naturals is used as the least element of a set of them (`LeastNumber`, in
`AuditChainProofs`, `PolicyProofs` and `ServicesProofs`), which follows from `WFMin` of the library:
its induction theorems proper take an operator and cannot be instantiated.

**Model-checked only:** `ExecutionEnds`, since liveness under fairness and ENABLED are beyond the
prover. The five disagreements of section 4 are TLC's counterexamples. Without its hypotheses a
theorem may be false: see section 4 for withdrawals, crashes, SQLite and overlapping restores. No
module has RECURSIVE operators.

## 6. Order of the work and what is left

Written in this order: `TransitionStages`, `TransitionLifecycle`, `TransitionEngine` with its
proofs and refinement, `ProposalRetry`, `AuditChain`; then `PolicyEngine`, `PolicyRevalidation`,
`BranchGraph`, `Transfer`, the services, and the proofs about them, `GraphTransferProofs`,
`PolicyProofs` and the later parts of `ServicesProofs` last.

Left: the authorization engine's `check_stale_authorization`; an abstract specification of an
export (a package of one moment) that `Transfer` does not implement as a whole but each branch of
it might; the interplay of the audit chain with the transactions of the engine as one
composition (at present `trail` stands for it).

## 7. Not modelled

SQL text, JSON, signatures and hashes (equal exactly when their inputs are), the parsers of
`classification.py` and `resources.py`, the payload checks of the individual adapters,
the probes of `deployment.py`, the HTTP and MCP transports, key handling,
configuration, embeddings and reports. They hold no state that the properties above could
tell apart, or do input and output only. `advisory` authorizations and
`verify_and_claim`, which claims outside a proxy, are left out: no
program of the package calls them on the path of an execution. The same holds of the risk
ledger, sessions and bypass detection, which nothing calls at all: there is no protocol around them
that could go wrong. The permission table of `identity.py` is data that no program
consults. The machine and process parts of an identifier are abstracted away.
