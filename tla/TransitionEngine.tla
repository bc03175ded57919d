--------------------------- MODULE TransitionEngine ---------------------------
(***************************************************************************)
(* The transition engine, the governed proxy and the branch committer over *)
(* one database, at the granularity of committed statements.               *)
(*                                                                         *)
(* Every variable of the first group is a column of committed data; a      *)
(* handler in progress is a record call[w] of a worker w.  Connections run *)
(* at READ COMMITTED (only the claim is SERIALIZABLE), so a handler that   *)
(* reads a stage and later writes it takes two steps, and other handlers   *)
(* commit in between.  From its first row lock to its commit a handler is  *)
(* one step: what it wrote is invisible until then, rows are locked in one *)
(* global order (node, branch, transition, audit head) and nothing else is *)
(* read that others can change.  approve/deny_approval is the exception:   *)
(* it locks the approval row, reads the stage, and only then locks the     *)
(* transition row, so the lock is modelled (DecisionInProgress).           *)
(*                                                                         *)
(* A read that a later read of the same handler repeats with a condition   *)
(* at least as strong is merged with the later one: delaying it changes    *)
(* only the message of the error.                                          *)
(***************************************************************************)
EXTENDS Naturals, TransitionStages

CONSTANTS
  Transitions,  \* rows of ep_transitions that may be created
  Tokens,       \* rows of ep_authorizations that may be created
  Branches,
  Principals,
  AgentOf,      \* AgentOf[t]: the agent that proposes t
  BranchOf,     \* BranchOf[t]: the branch t is proposed on
  Admins,       \* principals bound to the administrator role
  Workers,      \* handlers that may be in progress at the same time
  Commands,     \* the operator and human commands that are issued
  Faults,       \* "crash", "db_error", "lost_reply"
  None          \* NULL

AllCommands ==
  { "decide", "cancel", "expire", "mark_uncertain",
    "reconcile_succeeded", "reconcile_failed" }

AllFaults == { "crash", "db_error", "lost_reply" }

ASSUME ConstantsAssumption ==
  /\ AgentOf \in [Transitions -> Principals]
  /\ BranchOf \in [Transitions -> Branches]
  /\ Admins \subseteq Principals
  /\ Commands \subseteq AllCommands
  /\ Faults \subseteq AllFaults
  /\ None \notin Transitions \cup Tokens \cup Principals

VARIABLES
  stage,      \* ep_transitions.stage; "none" before propose()
  expected,   \* ep_transitions.expected_version; 0 when NULL
  flag,       \* ep_transitions.requires_manual_reconciliation
  approval,   \* ep_approval_requests.status; "none" when there is no request
  approver,   \* ep_approval_requests.decided_by
  trail,      \* the stage the latest stage event of ep_events reports
  tokenOf,    \* ep_authorizations.transition_id
  tokenState, \* "unissued", "valid", "used" or "lapsed" (past expires_at)
  version,    \* ep_branches.version
  head,       \* ep_branches.head_node_id, as the transition that made the node
  node,       \* ep_nodes and ep_edges: the node linked by to_node_id
  call,       \* the handlers in progress
  verdict,    \* history: what propose() decided
  runs,       \* history: invocations of the adapter
  changed,    \* history: whether the target system was changed
  commits     \* history: nodes inserted for the transition

rowVars     == <<stage, flag, trail>>
approvalVars == <<approval, approver>>
tokenVars   == <<tokenOf, tokenState>>
branchVars  == <<version, head, node, commits>>
proposeVars == <<expected, verdict>>
targetVars  == <<runs, changed>>

vars == <<rowVars, approvalVars, tokenVars, branchVars, proposeVars,
          targetVars, call>>

-------------------------------------------------------------------------------
(* Handlers in progress *)

Points == { "idle",
            "decide",      \* approve/deny: request decided, stage re-read
            "cancel",      \* cancel: stage re-read by advance_stage
            "expire",      \* expire: stage read by advance_stage
            "settle",      \* reconcile(failed): stage re-read by advance_stage
            "claim",       \* proxy: stage pre-check passed
            "invoke",      \* proxy: authorization claimed
            "read_head",   \* proxy: adapter reported success
            "commit",      \* BranchCommitter.commit about to run
            "write",       \* commit(): stage read in step 1
            "record",      \* proxy: about to call record_result
            "result",      \* record_result: stage "executing" read
            "clear",       \* reconcile(succeeded): commit() returned
            "raise_flag" } \* reconcile(succeeded): commit() raised

NoNode == [status |-> "none", parent |-> None, version |-> 0]

IdleCall == [at |-> "idle", tx |-> None, token |-> None, by |-> None,
             want |-> "none", seen |-> "none", base |-> 0, via |-> "proxy"]

Idle(w) == call[w].at = "idle"

Start(w, c) == Idle(w) /\ call' = [call EXCEPT ![w] = c]

Goto(w, point) == call' = [call EXCEPT ![w] = [@ EXCEPT !.at = point]]

Return(w) == call' = [call EXCEPT ![w] = IdleCall]

\* Faulty variants, named Faulty..., stand before the definition they would
\* replace; no specification uses them.

\* Faulty: decide() without its guard, so that nobody waits for the lock.
FaultyNoDecisionLock(t) == FALSE

\* Another approver holds the row lock of the approval request of t.
DecisionInProgress(t) ==
  \E w \in Workers : call[w].at = "decide" /\ call[w].tx = t

Init ==
  /\ stage = [t \in Transitions |-> "none"]
  /\ expected = [t \in Transitions |-> 0]
  /\ flag = [t \in Transitions |-> FALSE]
  /\ approval = [t \in Transitions |-> "none"]
  /\ approver = [t \in Transitions |-> None]
  /\ trail = [t \in Transitions |-> "none"]
  /\ tokenOf = [k \in Tokens |-> None]
  /\ tokenState = [k \in Tokens |-> "unissued"]
  /\ version = [b \in Branches |-> 1]
  /\ head = [b \in Branches |-> None]
  /\ node = [t \in Transitions |-> NoNode]
  /\ call = [w \in Workers |-> IdleCall]
  /\ verdict = [t \in Transitions |-> "none"]
  /\ runs = [t \in Transitions |-> 0]
  /\ changed = [t \in Transitions |-> FALSE]
  /\ commits = [t \in Transitions |-> 0]

-------------------------------------------------------------------------------
(* Proposing, deciding and withdrawing *)

\* TransitionEngine.propose with a fresh idempotency key (ProposalRetry has
\* the shared keys): classification, policy evaluation, insert, first advance,
\* approval request and audit event in one transaction.  The policy engine's
\* answer is the nondeterministic v (no engine configured: pending_approval);
\* the caller passes no expectation (0) or a version it has read earlier.
Propose(t) ==
  /\ stage[t] = "none"
  /\ \E v \in ProposalOutcomes, e \in 0..version[BranchOf[t]] :
        /\ IsLegalTransition("proposed", v)
        /\ verdict' = [verdict EXCEPT ![t] = v]
        /\ stage' = [stage EXCEPT ![t] = v]
        /\ trail' = [trail EXCEPT ![t] = v]
        /\ expected' = [expected EXCEPT ![t] = e]
        /\ approval' = [approval EXCEPT ![t] =
                          IF v = "pending_approval" THEN "pending" ELSE @]
  /\ UNCHANGED <<flag, approver, tokenVars, branchVars, targetVars, call>>

\* Faulty: no check that the approver is not the proposing agent.
FaultyBeginDecision(w, t, who, outcome) ==
  /\ "decide" \in Commands
  /\ ~DecisionInProgress(t)
  /\ approval[t] = "pending"
  /\ stage[t] = "pending_approval"
  /\ Start(w, [IdleCall EXCEPT !.at = "decide", !.tx = t, !.by = who,
                               !.want = outcome])
  /\ UNCHANGED <<rowVars, approvalVars, tokenVars, branchVars, proposeVars,
                 targetVars>>

\* approve / deny_approval up to the legality check of advance_stage.  The
\* guarded UPDATE of decide() waits for a concurrent approver and then affects
\* no row if that approver committed.
BeginDecision(w, t, who, outcome) ==
  /\ "decide" \in Commands
  /\ who # AgentOf[t]
  /\ ~DecisionInProgress(t)
  /\ approval[t] = "pending"
  /\ stage[t] = "pending_approval"
  /\ IsLegalTransition(stage[t], outcome)
  /\ Start(w, [IdleCall EXCEPT !.at = "decide", !.tx = t, !.by = who,
                               !.want = outcome])
  /\ UNCHANGED <<rowVars, approvalVars, tokenVars, branchVars, proposeVars,
                 targetVars>>

\* Faulty: the request gets the stage's word instead of its own status.
FaultyFinishDecision(w) ==
  LET c == call[w] IN
  /\ c.at = "decide"
  /\ approval' = [approval EXCEPT ![c.tx] = c.want]
  /\ approver' = [approver EXCEPT ![c.tx] = c.by]
  /\ stage' = [stage EXCEPT ![c.tx] = c.want]
  /\ trail' = [trail EXCEPT ![c.tx] = c.want]
  /\ Return(w)
  /\ UNCHANGED <<flag, tokenVars, branchVars, proposeVars, targetVars>>

\* ... and its unguarded UPDATE of the stage, audit event and commit.
FinishDecision(w) ==
  LET c == call[w] IN
  /\ c.at = "decide"
  /\ approval' = [approval EXCEPT ![c.tx] =
                    IF c.want = "authorized" THEN "approved" ELSE "denied"]
  /\ approver' = [approver EXCEPT ![c.tx] = c.by]
  /\ stage' = [stage EXCEPT ![c.tx] = c.want]
  /\ trail' = [trail EXCEPT ![c.tx] = c.want]
  /\ Return(w)
  /\ UNCHANGED <<flag, tokenVars, branchVars, proposeVars, targetVars>>

\* cancel() up to the legality check of advance_stage.
BeginCancel(w, t, who) ==
  /\ "cancel" \in Commands
  /\ who = AgentOf[t] \/ who \in Admins
  /\ IsLegalTransition(stage[t], "cancelled")
  /\ Start(w, [IdleCall EXCEPT !.at = "cancel", !.tx = t])
  /\ UNCHANGED <<rowVars, approvalVars, tokenVars, branchVars, proposeVars,
                 targetVars>>

FinishCancel(w) ==
  /\ call[w].at = "cancel"
  /\ stage' = [stage EXCEPT ![call[w].tx] = "cancelled"]
  /\ trail' = [trail EXCEPT ![call[w].tx] = "cancelled"]
  /\ Return(w)
  /\ UNCHANGED <<flag, approvalVars, tokenVars, branchVars, proposeVars,
                 targetVars>>

\* The expire command: advance_stage(t, "expired") and nothing else.
BeginExpire(w, t) ==
  /\ "expire" \in Commands
  /\ IsLegalTransition(stage[t], "expired")
  /\ Start(w, [IdleCall EXCEPT !.at = "expire", !.tx = t])
  /\ UNCHANGED <<rowVars, approvalVars, tokenVars, branchVars, proposeVars,
                 targetVars>>

FinishExpire(w) ==
  /\ call[w].at = "expire"
  /\ stage' = [stage EXCEPT ![call[w].tx] = "expired"]
  /\ Return(w)
  /\ UNCHANGED <<flag, trail, approvalVars, tokenVars, branchVars, proposeVars,
                 targetVars>>

-------------------------------------------------------------------------------
(* Authorizations and the governed proxy *)

\* issue_authorization: any existing transition, whatever its stage, and as
\* often as it is called.
IssueAuthorization(k, t) ==
  /\ tokenState[k] = "unissued"
  /\ stage[t] # "none"
  /\ tokenOf' = [tokenOf EXCEPT ![k] = t]
  /\ tokenState' = [tokenState EXCEPT ![k] = "valid"]
  /\ UNCHANGED <<rowVars, approvalVars, branchVars, proposeVars, targetVars,
                 call>>

\* The clock passes expires_at of an unclaimed authorization.
Lapse(k) ==
  /\ tokenState[k] = "valid"
  /\ tokenState' = [tokenState EXCEPT ![k] = "lapsed"]
  /\ UNCHANGED <<tokenOf, rowVars, approvalVars, branchVars, proposeVars,
                 targetVars, call>>

\* GovernedProxy.execute, steps 1-4.5: signature and expiry (not "used"),
\* then the stage pre-check on a connection of its own.
Present(w, k) ==
  /\ tokenState[k] \in {"valid", "used"}
  /\ stage[tokenOf[k]] = "authorized"
  /\ Start(w, [IdleCall EXCEPT !.at = "claim", !.tx = tokenOf[k], !.token = k])
  /\ UNCHANGED <<rowVars, approvalVars, tokenVars, branchVars, proposeVars,
                 targetVars>>

\* Faulty: the authorization row is guarded, the stage is not.
FaultyClaim(w) ==
  LET c == call[w] IN
  /\ c.at = "claim"
  /\ tokenState[c.token] = "valid"
  /\ tokenState' = [tokenState EXCEPT ![c.token] = "used"]
  /\ stage' = [stage EXCEPT ![c.tx] = "executing"]
  /\ Goto(w, "invoke")
  /\ UNCHANGED <<flag, trail, tokenOf, approvalVars, branchVars, proposeVars,
                 targetVars>>

\* Steps 5-6: the serializable transaction.  Both UPDATEs are guarded; no
\* audit event is written.
Claim(w) ==
  LET c == call[w] IN
  /\ c.at = "claim"
  /\ tokenState[c.token] = "valid"
  /\ stage[c.tx] = "authorized"
  /\ tokenState' = [tokenState EXCEPT ![c.token] = "used"]
  /\ stage' = [stage EXCEPT ![c.tx] = "executing"]
  /\ Goto(w, "invoke")
  /\ UNCHANGED <<flag, trail, tokenOf, approvalVars, branchVars, proposeVars,
                 targetVars>>

\* The same transaction ends without a claim: token used or expired, stage no
\* longer "authorized", policy or adapter validation refuses, or a
\* serialization conflict.
ClaimRefused(w) ==
  /\ call[w].at = "claim"
  /\ Return(w)
  /\ UNCHANGED <<rowVars, approvalVars, tokenVars, branchVars, proposeVars,
                 targetVars>>

\* Step 7.  An adapter that reports success did change the target; one that
\* times out or raises may have changed it (a connection lost while the target
\* commits raises, and is reported as a failure).
Invoke(w) ==
  LET c == call[w] IN
  /\ c.at = "invoke"
  /\ runs' = [runs EXCEPT ![c.tx] = @ + 1]
  /\ \/ /\ changed' = [changed EXCEPT ![c.tx] = TRUE]
        /\ Goto(w, "read_head")
     \/ \E s \in {"failed", "execution_uncertain"}, done \in BOOLEAN :
           /\ changed' = [changed EXCEPT ![c.tx] = @ \/ done]
           /\ call' = [call EXCEPT ![w] = [@ EXCEPT !.at = "record",
                                                    !.want = s]]
  /\ UNCHANGED <<rowVars, approvalVars, tokenVars, branchVars, proposeVars>>

\* Faulty: always the version read now.
FaultyReadHead(w) ==
  LET c == call[w] IN
  /\ c.at = "read_head"
  /\ call' = [call EXCEPT ![w] = [@ EXCEPT !.at = "commit",
                                           !.base = version[BranchOf[c.tx]]]]
  /\ UNCHANGED <<rowVars, approvalVars, tokenVars, branchVars, proposeVars,
                 targetVars>>

\* Step 8, success: the expectation stored with the proposal, or the version
\* read now when the proposal carried none.
ReadHead(w) ==
  LET c == call[w] IN
  /\ c.at = "read_head"
  /\ call' = [call EXCEPT ![w] =
                [@ EXCEPT !.at = "commit",
                          !.base = IF expected[c.tx] # 0
                                   THEN expected[c.tx]
                                   ELSE version[BranchOf[c.tx]]]]
  /\ UNCHANGED <<rowVars, approvalVars, tokenVars, branchVars, proposeVars,
                 targetVars>>

\* record_result(failure | timeout), the check of its docstring: the stage is
\* read without a lock and must be "executing".
RecordBegin(w) ==
  /\ call[w].at = "record"
  /\ stage[call[w].tx] = "executing"
  /\ Goto(w, "result")
  /\ UNCHANGED <<rowVars, approvalVars, tokenVars, branchVars, proposeVars,
                 targetVars>>

\* Faulty: the stage is not read again under the row lock.
FaultyRecordResult(w) ==
  LET c == call[w] IN
  /\ c.at = "result"
  /\ stage' = [stage EXCEPT ![c.tx] = c.want]
  /\ trail' = [trail EXCEPT ![c.tx] = c.want]
  /\ flag' = [flag EXCEPT ![c.tx] = @ \/ c.want = "execution_uncertain"]
  /\ Return(w)
  /\ UNCHANGED <<approvalVars, tokenVars, branchVars, proposeVars, targetVars>>

\* Faulty: an uncertain result does not raise the flag.
FaultyRecordFlag(w) ==
  LET c == call[w] IN
  /\ c.at = "result"
  /\ IsLegalTransition(stage[c.tx], c.want)
  /\ stage' = [stage EXCEPT ![c.tx] = c.want]
  /\ trail' = [trail EXCEPT ![c.tx] = c.want]
  /\ Return(w)
  /\ UNCHANGED <<flag, approvalVars, tokenVars, branchVars, proposeVars,
                 targetVars>>

\* ... and its writes.  update_result locks the row before advance_stage reads
\* the stage again, but advance_stage only asks whether the move is legal: a
\* failure is also written over "execution_uncertain", and leaves the flag.
RecordResult(w) ==
  LET c == call[w] IN
  /\ c.at = "result"
  /\ IsLegalTransition(stage[c.tx], c.want)
  /\ stage' = [stage EXCEPT ![c.tx] = c.want]
  /\ trail' = [trail EXCEPT ![c.tx] = c.want]
  /\ flag' = [flag EXCEPT ![c.tx] = @ \/ c.want = "execution_uncertain"]
  /\ Return(w)
  /\ UNCHANGED <<approvalVars, tokenVars, branchVars, proposeVars, targetVars>>

\* record_result raises and rolls back: the stage is not "executing" when first
\* read, the move is not legal when read again, or the database failed.
RecordRefused(w) ==
  LET c == call[w] IN
  /\ \/ /\ c.at = "record"
        /\ stage[c.tx] # "executing" \/ "db_error" \in Faults
     \/ /\ c.at = "result"
        /\ ~IsLegalTransition(stage[c.tx], c.want) \/ "db_error" \in Faults
  /\ Return(w)
  /\ UNCHANGED <<rowVars, approvalVars, tokenVars, branchVars, proposeVars,
                 targetVars>>

-------------------------------------------------------------------------------
(* BranchCommitter.commit *)

\* Faulty: the proxy drops the exception of commit() without a result.
FaultyAfterCommitError(w) ==
  IF call[w].via = "proxy" THEN Return(w) ELSE Goto(w, "raise_flag")

\* What the caller of commit() does when it raises: the proxy records an
\* uncertain result, reconcile() raises the flag.
AfterCommitError(w) ==
  IF call[w].via = "proxy"
  THEN call' = [call EXCEPT ![w] = [@ EXCEPT !.at = "record",
                                             !.want = "execution_uncertain"]]
  ELSE Goto(w, "raise_flag")

\* Step 1: the stage is read without a lock.
CommitBegin(w) ==
  LET c == call[w] IN
  /\ c.at = "commit"
  /\ stage[c.tx] \in {"executing", "execution_uncertain"}
  /\ call' = [call EXCEPT ![w] = [@ EXCEPT !.at = "write",
                                           !.seen = stage[c.tx]]]
  /\ UNCHANGED <<rowVars, approvalVars, tokenVars, branchVars, proposeVars,
                 targetVars>>

\* Faulty: the branch version is not compared.
FaultyCanCommit(w) == stage[call[w].tx] = call[w].seen

\* Steps 2-9: the head is still the expected one and both guarded UPDATEs
\* (branch version, transition stage) affect a row.
CanCommit(w) ==
  LET c == call[w] IN
  /\ version[BranchOf[c.tx]] = c.base
  /\ stage[c.tx] = c.seen

\* Faulty: the node is committed, the stage is left to record_result.
FaultyCommitWrite(w) ==
  LET c == call[w]
      b == BranchOf[c.tx]
  IN
  /\ c.at = "write"
  /\ CanCommit(w)
  /\ node' = [node EXCEPT ![c.tx] = [status |-> "committed", parent |-> head[b],
                                     version |-> c.base + 1]]
  /\ head' = [head EXCEPT ![b] = c.tx]
  /\ version' = [version EXCEPT ![b] = @ + 1]
  /\ commits' = [commits EXCEPT ![c.tx] = @ + 1]
  /\ Return(w)
  /\ UNCHANGED <<rowVars, approvalVars, tokenVars, proposeVars, targetVars>>

CommitWrite(w) ==
  LET c == call[w]
      b == BranchOf[c.tx]
  IN
  /\ c.at = "write"
  /\ CanCommit(w)
  /\ node' = [t \in Transitions |->
                IF t = c.tx
                THEN [status |-> "committed", parent |-> head[b],
                      version |-> c.base + 1]
                ELSE IF t = head[b] /\ node[t].status = "committed"
                     THEN [node[t] EXCEPT !.status = "superseded"]
                     ELSE node[t]]
  /\ head' = [head EXCEPT ![b] = c.tx]
  /\ version' = [version EXCEPT ![b] = @ + 1]
  /\ commits' = [commits EXCEPT ![c.tx] = @ + 1]
  /\ stage' = [stage EXCEPT ![c.tx] = "succeeded"]
  /\ trail' = [trail EXCEPT ![c.tx] = "succeeded"]
  \* The caller may not learn that the commit took effect.
  /\ \/ IF c.via = "proxy" THEN Return(w) ELSE Goto(w, "clear")
     \/ "lost_reply" \in Faults /\ AfterCommitError(w)
  /\ UNCHANGED <<flag, approvalVars, tokenVars, proposeVars, targetVars>>

\* commit() raises and rolls back: stage check, stale head, lost guard, or a
\* database error.
CommitRefused(w) ==
  LET c == call[w] IN
  /\ \/ /\ c.at = "commit"
        /\ \/ stage[c.tx] \notin {"executing", "execution_uncertain"}
           \/ "db_error" \in Faults
     \/ /\ c.at = "write"
        /\ ~CanCommit(w) \/ "db_error" \in Faults
  /\ AfterCommitError(w)
  /\ UNCHANGED <<rowVars, approvalVars, tokenVars, branchVars, proposeVars,
                 targetVars>>

-------------------------------------------------------------------------------
(* Operator repair *)

\* Faulty: no audit event.
FaultyMarkUncertain(t) ==
  /\ "mark_uncertain" \in Commands
  /\ stage[t] = "executing"
  /\ stage' = [stage EXCEPT ![t] = "execution_uncertain"]
  /\ flag' = [flag EXCEPT ![t] = TRUE]
  /\ UNCHANGED <<trail, approvalVars, tokenVars, branchVars, proposeVars,
                 targetVars, call>>

\* The mark-uncertain command: record_result(timeout).  Only "executing" moves
\* to "execution_uncertain", so its second read asks what the first one did.
MarkUncertain(t) ==
  /\ "mark_uncertain" \in Commands
  /\ stage[t] = "executing"
  /\ stage' = [stage EXCEPT ![t] = "execution_uncertain"]
  /\ trail' = [trail EXCEPT ![t] = "execution_uncertain"]
  /\ flag' = [flag EXCEPT ![t] = TRUE]
  /\ UNCHANGED <<approvalVars, tokenVars, branchVars, proposeVars, targetVars,
                 call>>

\* reconcile(succeeded), phases 1 and 2.  The command passes the current head
\* as the expectation; a caller of the engine that passes none gets the stored
\* one.
BeginReconcile(w, t) ==
  /\ "reconcile_succeeded" \in Commands
  /\ stage[t] = "execution_uncertain"
  /\ \E e \in {version[BranchOf[t]], expected[t]} \ {0} :
        Start(w, [IdleCall EXCEPT !.at = "commit", !.tx = t, !.base = e,
                                  !.via = "operator"])
  /\ UNCHANGED <<rowVars, approvalVars, tokenVars, branchVars, proposeVars,
                 targetVars>>

\* Phase 3 succeeded: the flag is cleared in a transaction of its own.
ClearFlag(w) ==
  /\ call[w].at = "clear"
  /\ flag' = [flag EXCEPT ![call[w].tx] = FALSE]
  /\ trail' = [trail EXCEPT ![call[w].tx] = "succeeded"]
  /\ Return(w)
  /\ UNCHANGED <<stage, approvalVars, tokenVars, branchVars, proposeVars,
                 targetVars>>

\* Phase 3 raised: the flag is set whatever the stage is now.
RaiseFlag(w) ==
  /\ call[w].at = "raise_flag"
  /\ flag' = [flag EXCEPT ![call[w].tx] = TRUE]
  /\ Return(w)
  /\ UNCHANGED <<stage, trail, approvalVars, tokenVars, branchVars,
                 proposeVars, targetVars>>

\* reconcile(failed) up to the legality check of advance_stage.
BeginSettle(w, t) ==
  /\ "reconcile_failed" \in Commands
  /\ stage[t] = "execution_uncertain"
  /\ IsLegalTransition(stage[t], "failed")
  /\ Start(w, [IdleCall EXCEPT !.at = "settle", !.tx = t])
  /\ UNCHANGED <<rowVars, approvalVars, tokenVars, branchVars, proposeVars,
                 targetVars>>

FinishSettle(w) ==
  /\ call[w].at = "settle"
  /\ stage' = [stage EXCEPT ![call[w].tx] = "failed"]
  /\ flag' = [flag EXCEPT ![call[w].tx] = FALSE]
  /\ trail' = [trail EXCEPT ![call[w].tx] = "failed"]
  /\ Return(w)
  /\ UNCHANGED <<approvalVars, tokenVars, branchVars, proposeVars, targetVars>>

\* The process of a handler dies: its open transaction rolls back, its locks
\* and locals are gone.
Crash(w) ==
  /\ "crash" \in Faults
  /\ ~Idle(w)
  /\ Return(w)
  /\ UNCHANGED <<rowVars, approvalVars, tokenVars, branchVars, proposeVars,
                 targetVars>>

-------------------------------------------------------------------------------
(* Specification *)

\* What arrives from outside.
Request(w) ==
  \/ \E k \in Tokens : Present(w, k)
  \/ \E t \in Transitions :
        \/ \E who \in Principals, s \in {"authorized", "denied"} :
              BeginDecision(w, t, who, s)
        \/ \E who \in Principals : BeginCancel(w, t, who)
        \/ BeginExpire(w, t)
        \/ BeginReconcile(w, t)
        \/ BeginSettle(w, t)

\* What a running handler does next.
Proceed(w) ==
  \/ FinishDecision(w) \/ FinishCancel(w) \/ FinishExpire(w) \/ FinishSettle(w)
  \/ Claim(w) \/ ClaimRefused(w) \/ Invoke(w) \/ ReadHead(w)
  \/ RecordBegin(w) \/ RecordResult(w) \/ RecordRefused(w)
  \/ CommitBegin(w) \/ CommitWrite(w) \/ CommitRefused(w)
  \/ ClearFlag(w) \/ RaiseFlag(w)

Environment ==
  \/ \E t \in Transitions : Propose(t) \/ MarkUncertain(t)
  \/ \E k \in Tokens : Lapse(k) \/ \E t \in Transitions : IssueAuthorization(k, t)

Next ==
  \/ Environment
  \/ \E w \in Workers : Request(w) \/ Proceed(w) \/ Crash(w)

Spec == Init /\ [][Next]_vars

\* A handler that is running keeps running: nothing in it waits for anyone but
\* for row locks, which are all released at commit.
FairSpec == Spec /\ \A w \in Workers : WF_vars(Proceed(w))

-------------------------------------------------------------------------------
(* Properties *)

Calls ==
  [at : Points, tx : Transitions \cup {None}, token : Tokens \cup {None},
   by : Principals \cup {None}, want : Stages \cup {"none"},
   seen : Stages \cup {"none"}, base : Nat, via : {"proxy", "operator"}]

Nodes ==
  [status : {"none", "committed", "superseded"},
   parent : Transitions \cup {None}, version : Nat]

\* Every column and every local variable holds a value of its domain, and a
\* handler that is running works on a transition.
TypeOK ==
  /\ stage \in [Transitions -> Stages \cup {"none"}]
  /\ expected \in [Transitions -> Nat]
  /\ flag \in [Transitions -> BOOLEAN]
  /\ approval \in [Transitions -> {"none", "pending", "approved", "denied"}]
  /\ approver \in [Transitions -> Principals \cup {None}]
  /\ trail \in [Transitions -> Stages \cup {"none"}]
  /\ tokenOf \in [Tokens -> Transitions \cup {None}]
  /\ tokenState \in [Tokens -> {"unissued", "valid", "used", "lapsed"}]
  /\ version \in [Branches -> Nat]
  /\ head \in [Branches -> Transitions \cup {None}]
  /\ node \in [Transitions -> Nodes]
  /\ call \in [Workers -> Calls]
  /\ verdict \in [Transitions -> ProposalOutcomes \cup {"none"}]
  /\ runs \in [Transitions -> Nat]
  /\ changed \in [Transitions -> BOOLEAN]
  /\ commits \in [Transitions -> Nat]
  /\ \A w \in Workers : ~Idle(w) => call[w].tx \in Transitions
  /\ \A k \in Tokens : tokenState[k] # "unissued" => tokenOf[k] \in Transitions

\* The adapter of a transition is invoked at most once, however many
\* authorizations were issued for it, however often each is presented and
\* whatever the operators and approvers write in between (claim_authorization).
AtMostOneInvocation == \A t \in Transitions : runs[t] <= 1

\* An adapter only ever runs for a transition the policy authorized, or that a
\* principal other than its agent approved (EP-AUTH rules of approve()).
InvokedOnlyIfGranted ==
  \A t \in Transitions :
     runs[t] > 0 =>
        \/ verdict[t] = "authorized"
        \/ /\ verdict[t] = "pending_approval"
           /\ approval[t] = "approved"
           /\ approver[t] \in Principals \ {AgentOf[t]}

\* A transition makes at most one node, and is "succeeded" only with its node:
\* no second node by a reconciliation that races the proxy or another
\* reconciliation, and none lost to a racing result (BranchCommitter.commit).
OneNodePerTransition ==
  \A t \in Transitions :
     /\ commits[t] <= 1
     /\ stage[t] = "succeeded" => commits[t] = 1

\* The nodes of branch b.
NodesOf(b) ==
  { t \in Transitions : BranchOf[t] = b /\ node[t].status # "none" }

\* The nodes of a branch form one chain ending in its head: versions count up
\* without gap or repetition, a node's parent is the node of the version
\* before, and only the head is still "committed" (update_head,
\* mark_superseded).
BranchChainIsLinear ==
  \A b \in Branches :
     /\ { node[t].version : t \in NodesOf(b) } = 2..version[b]
     /\ head[b] = None <=> NodesOf(b) = {}
     /\ \A t, u \in NodesOf(b) : node[t].version = node[u].version => t = u
     /\ \A t \in NodesOf(b) :
          /\ node[t].version = version[b] <=> t = head[b]
          /\ node[t].status = "committed" <=> t = head[b]
          /\ IF node[t].version = 2
             THEN node[t].parent = None
             ELSE /\ node[t].parent \in NodesOf(b)
                  /\ node[node[t].parent].version + 1 = node[t].version

\* The proxy commits a proposal that stated the version it expects on top of
\* that version or not at all, however many commits overtake it while its
\* adapter runs (EP-BRANCH-005, "MUST NOT silently rebase").
ProxyKeepsExpectation ==
  [][\A w \in Workers :
        LET t == call[w].tx IN
        /\ call[w].at = "write"
        /\ call[w].via = "proxy"
        /\ expected[t] # 0
        /\ commits'[t] = commits[t] + 1
        /\ call'[w].at # "write"
        => version[BranchOf[t]] = expected[t]]_vars

\* No uncertain outcome hides from the operators' list of transitions that
\* need manual reconciliation (record_result, reconcile).  The list may hold
\* more: a result or commit that overtakes mark-uncertain leaves the flag.
UncertainIsFlagged ==
  \A t \in Transitions : stage[t] = "execution_uncertain" => flag[t]

\* Two approvers cannot both decide one request, and a decision is never
\* revised (ApprovalRepository.decide is guarded by status 'pending').
DecisionsAreFinal ==
  [][\A t \in Transitions :
        approval[t] \in {"approved", "denied"} =>
           approval'[t] = approval[t] /\ approver'[t] = approver[t]]_vars

\* The latest stage event of a transition reports its stage, but for the claim,
\* which writes none.
TrailFollowsStage ==
  \A t \in Transitions : stage[t] # "executing" => trail[t] = stage[t]

\* No transition stays "executing": without crashes and database errors every
\* path out of the claim records a result (GovernedProxy.execute, step 8).
ExecutionEnds ==
  \A t \in Transitions : stage[t] = "executing" ~> stage[t] # "executing"

\* An action that took effect is never forgotten: once nobody works on it, it
\* is in the graph, was reported as a failure, or is on the operators' list.
\* It takes that nothing crashes or fails in the database and nobody cancels or
\* expires, which overwrite the stage (GovernedProxy.execute step 8, reconcile).
NoChangeForgotten ==
  \A t \in Transitions :
     changed[t] /\ (\A w \in Workers : call[w].tx # t) =>
        stage[t] \in {"succeeded", "failed"} \/ flag[t]

\* The engine implements the lifecycle it promises.  Which handler moves an
\* uncertain transition on is not part of it: TransitionEngineClaims shows that
\* it need not be a reconciliation.
Lifecycle == INSTANCE TransitionLifecycle
               WITH Transitions <- Transitions, stage <- stage, runs <- runs, commits <- commits

ImplementsLifecycle == Lifecycle!Spec

-------------------------------------------------------------------------------
(* Why it works: the inductive invariant *)

\* An authorization of t was claimed; this is never undone.
Claimed(t) == \E k \in Tokens : tokenOf[k] = t /\ tokenState[k] = "used"

\* The policy or a principal other than the agent allows t.
Granted(t) ==
  \/ verdict[t] = "authorized"
  \/ /\ verdict[t] = "pending_approval"
     /\ approval[t] = "approved"
     /\ approver[t] \in Principals \ {AgentOf[t]}

\* Points a handler only reaches for a claimed transition.
AfterClaim == { "settle", "invoke", "read_head", "commit", "write", "record",
                "result", "clear", "raise_flag" }

\* What a handler in progress still knows, whatever ran since it read it.
CallInv(w) ==
  LET c == call[w] IN
  /\ c.at = "claim" =>
        /\ c.token \in Tokens
        /\ tokenOf[c.token] = c.tx
        /\ tokenState[c.token] # "unissued"
  /\ c.at = "decide" =>
        /\ approval[c.tx] = "pending"
        /\ c.want \in {"authorized", "denied"}
        /\ c.by \in Principals \ {AgentOf[c.tx]}
  /\ c.at = "invoke" => runs[c.tx] = 0
  /\ c.at \in {"record", "result"} =>
        c.want \in {"failed", "execution_uncertain"}
  /\ c.at = "write" => c.seen \in {"executing", "execution_uncertain"}
  /\ c.at = "clear" => commits[c.tx] = 1
  /\ c.at \in AfterClaim => Claimed(c.tx)

\* The approval row lock and the claim each admit one handler.
Exclusive(v, w) ==
  /\ v # w
  /\ call[v].at = call[w].at
  /\ call[w].at \in {"decide", "invoke"}
  => call[v].tx # call[w].tx

\* How the columns of one transition and its history fit together.
RowInv(t) ==
  /\ Claimed(t) => /\ stage[t] \in ClaimedStages \cup {"cancelled", "expired"}
                   /\ Granted(t)
  /\ stage[t] \in ClaimedStages => Claimed(t)
  /\ stage[t] = "none" => approval[t] = "none"
  /\ stage[t] = "authorized" => Granted(t)
  /\ approval[t] = "pending" =>
        /\ stage[t] \in {"pending_approval", "cancelled", "expired"}
        /\ verdict[t] = "pending_approval"
        /\ ~Claimed(t)
  /\ runs[t] <= 1
  /\ runs[t] > 0 => Claimed(t)
  /\ commits[t] <= 1
  /\ commits[t] > 0 =>
        /\ Claimed(t)
        /\ stage[t] \in {"succeeded", "failed", "cancelled", "expired"}
  /\ stage[t] = "succeeded" => commits[t] = 1
  /\ stage[t] = "execution_uncertain" => flag[t]

\* The inductive invariant: a claim is permanent, so no stale write by a
\* decision, withdrawal or reconciliation can make a transition claimable again.
IInv ==
  /\ TypeOK
  /\ \A w \in Workers : CallInv(w)
  /\ \A v, w \in Workers : Exclusive(v, w)
  /\ \A t \in Transitions : RowInv(t)

===============================================================================
