----------------------------- MODULE ProposalRetry -----------------------------
(***************************************************************************)
(* Resubmitting a proposal under the same idempotency key.                 *)
(*                                                                         *)
(* propose() first looks the key up and only later inserts the row, in one *)
(* READ COMMITTED transaction; the unique index of ep_transitions on       *)
(* idempotency_key is what the insert meets.  Between the two, other       *)
(* submissions of the key and every other handler run.                     *)
(***************************************************************************)
EXTENDS Naturals, Sequences, TransitionStages

CONSTANTS
  Keys,        \* idempotency keys
  Submitters,  \* submissions that may be in progress at the same time
  MaxRows      \* bound of the model: rows per key

ASSUME RetryAssumption == MaxRows \in Nat \ {0}

VARIABLES
  rows,    \* rows[k]: the stages of the transitions of key k, oldest first
  call,    \* submissions in progress
  reply,   \* history: the last answer to each client
  effects  \* history: claims of transitions of key k

retryVars == <<rows, call, reply, effects>>

IdempotentReturnExisting == {"proposed", "authorized", "pending_approval"}
IdempotentReturnResult == {"executing", "succeeded"}
IdempotentAllowNew ==
  {"failed", "cancelled", "expired", "denied", "execution_uncertain"}

\* _get_by_idempotency_key: the latest row of the key.
Latest(k) == IF rows[k] = <<>> THEN "none" ELSE rows[k][Len(rows[k])]

IdleCall == [at |-> "idle", seen |-> "none"]

NoReply == [kind |-> "none", prior |-> "none"]

RetryInit ==
  /\ rows = [k \in Keys |-> <<>>]
  /\ call = [c \in Submitters |-> [k \in Keys |-> IdleCall]]
  /\ reply = [c \in Submitters |-> [k \in Keys |-> NoReply]]
  /\ effects = [k \in Keys |-> 0]

Reply(c, k, kind, prior) ==
  reply' = [reply EXCEPT ![c][k] = [kind |-> kind, prior |-> prior]]

\* Step 1 of propose(): an existing row that is live or has a result is the
\* answer; otherwise the proposal is classified and evaluated.
Lookup(c, k) ==
  /\ call[c][k].at = "idle"
  /\ IF Latest(k) \in IdempotentReturnExisting \cup IdempotentReturnResult
     THEN /\ Reply(c, k, "existing", Latest(k))
          /\ UNCHANGED call
     ELSE /\ call' = [call EXCEPT ![c][k] = [at |-> "insert", seen |-> Latest(k)]]
          /\ UNCHANGED reply
  /\ UNCHANGED <<rows, effects>>

\* Faulty: an index over the live rows only, so that a key is free again once
\* its transition failed, was withdrawn or is uncertain.
FaultyKeyIsFree(k) ==
  Latest(k) \notin IdempotentReturnExisting \cup IdempotentReturnResult

\* idx_ep_transitions_idempotency, a UNIQUE index over all rows.
KeyIsFree(k) == rows[k] = <<>>

\* Steps 5-7: insert, first advance, commit.
Insert(c, k) ==
  /\ call[c][k].at = "insert"
  /\ KeyIsFree(k)
  /\ Len(rows[k]) < MaxRows
  /\ \E v \in ProposalOutcomes : rows' = [rows EXCEPT ![k] = Append(@, v)]
  /\ call' = [call EXCEPT ![c][k] = IdleCall]
  /\ Reply(c, k, "created", call[c][k].seen)
  /\ UNCHANGED effects

\* The insert raises an IntegrityError, which propose() does not handle.
InsertRejected(c, k) ==
  /\ call[c][k].at = "insert"
  /\ ~KeyIsFree(k)
  /\ call' = [call EXCEPT ![c][k] = IdleCall]
  /\ Reply(c, k, "error", Latest(k))
  /\ UNCHANGED <<rows, effects>>

\* Every other handler: the stage of a row moves along a legal transition, and
\* entering "executing" is when the target system is touched. The code checks
\* the move and writes it in two statements, and another handler may come in
\* between (TransitionEngine has that race); here only the claim matters, which
\* is one guarded update.
Advance(k, i, s) ==
  /\ IsLegalTransition(rows[k][i], s)
  /\ rows' = [rows EXCEPT ![k][i] = s]
  /\ effects' = [effects EXCEPT ![k] = IF s = "executing" THEN @ + 1 ELSE @]
  /\ UNCHANGED <<call, reply>>

RetryNext ==
  \/ \E c \in Submitters, k \in Keys :
        Lookup(c, k) \/ Insert(c, k) \/ InsertRejected(c, k)
  \/ \E k \in Keys : \E i \in 1..Len(rows[k]), s \in Stages : Advance(k, i, s)

RetrySpec == RetryInit /\ [][RetryNext]_retryVars

-------------------------------------------------------------------------------
(* Properties *)

\* A client that resubmits a key, because an answer was lost or because the
\* outcome was uncertain, never makes the action run twice: the lookup and the
\* unique index together admit one transition per key, even when submissions
\* race and even where the lookup would allow a new one.
AtMostOneEffectPerKey == \A k \in Keys : effects[k] <= 1

===============================================================================
