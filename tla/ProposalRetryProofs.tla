------------------------- MODULE ProposalRetryProofs -------------------------
(***************************************************************************)
(* Proof that an idempotency key stands for at most one effect, for any    *)
(* keys, clients and interleavings. The unique index keeps the rows of a   *)
(* key to one; along the legal transitions "executing" is entered from a   *)
(* stage that no row returns to.                                           *)
(***************************************************************************)
EXTENDS ProposalRetry, TLAPS

RetryTypes == rows \in [Keys -> Seq(Stages)] /\ effects \in [Keys -> Nat]

\* A key has no row, or one, which counts one effect from its claim on.
KeyInv(k) == /\ Len(rows[k]) \in {0, 1}
             /\ effects[k] \in {0, 1}
             /\ Len(rows[k]) = 0 => effects[k] = 0
             /\ Len(rows[k]) = 1 /\ rows[k][1] \notin ClaimedStages => effects[k] = 0

RetryInv == RetryTypes /\ \A k \in Keys : KeyInv(k)

\* Into "executing" leads one way, and none leads back before it (LEGAL_TRANSITIONS).
LEMMA ClaimIsOneWay ==
    ASSUME NEW a, NEW b \in Stages, IsLegalTransition(a, b)
    PROVE  /\ a \in Stages
           /\ b = "executing" => a \notin ClaimedStages
           /\ a \in ClaimedStages => b \in ClaimedStages
BY DEF IsLegalTransition, LegalTransitions, Stages, ClaimedStages

LEMMA RetryStart == RetryInit => RetryInv
BY DEF RetryInit, RetryInv, RetryTypes, KeyInv

LEMMA RetryStep == RetryInv /\ [RetryNext]_retryVars => RetryInv'
<1> SUFFICES ASSUME RetryInv, [RetryNext]_retryVars
             PROVE  RetryInv'
  OBVIOUS
<1>1. CASE UNCHANGED <<rows, effects>>
  BY <1>1 DEF RetryInv, RetryTypes, KeyInv
<1>2. ASSUME NEW c \in Submitters, NEW k \in Keys, Insert(c, k)
      PROVE  RetryInv'
  <2>1. PICK v \in ProposalOutcomes : rows' = [rows EXCEPT ![k] = Append(@, v)]
    BY <1>2 DEF Insert
  <2>2. v \in Stages /\ v \notin ClaimedStages
    BY <2>1 DEF ProposalOutcomes, Stages, ClaimedStages
  <2>3. rows[k] = <<>> /\ effects' = effects
    BY <1>2 DEF Insert, KeyIsFree
  <2>4. rows' = [rows EXCEPT ![k] = <<v>>]
    BY <2>1, <2>3
  <2>5. RetryTypes'
    BY <2>2, <2>3, <2>4 DEF RetryInv, RetryTypes
  <2>6. rows'[k] = <<v>> /\ effects'[k] = 0
    BY <2>3, <2>4 DEF RetryInv, RetryTypes, KeyInv
  <2>7. KeyInv(k)'
    BY <2>2, <2>6 DEF KeyInv
  <2>8. ASSUME NEW l \in Keys, l /= k
        PROVE  KeyInv(l)'
    <3>1. rows'[l] = rows[l] /\ effects'[l] = effects[l]
      BY <2>3, <2>4, <2>8 DEF RetryInv, RetryTypes
    <3> QED
      BY <3>1 DEF RetryInv, KeyInv
  <2> QED
    BY <2>5, <2>7, <2>8 DEF RetryInv
<1>3. ASSUME NEW k \in Keys, NEW i \in 1..Len(rows[k]), NEW s \in Stages, Advance(k, i, s)
      PROVE  RetryInv'
  <2>1. KeyInv(k) /\ rows[k] \in Seq(Stages) /\ effects[k] \in Nat
    BY DEF RetryInv, RetryTypes
  <2>2. i = 1 /\ Len(rows[k]) = 1
    <3>1. Len(rows[k]) \in {0, 1} /\ i \in Nat /\ 1 <= i /\ i <= Len(rows[k])
      BY <2>1 DEF KeyInv
    <3>2. CASE Len(rows[k]) = 0
      BY <3>1, <3>2
    <3>3. CASE Len(rows[k]) = 1
      BY <3>1, <3>3
    <3> QED
      BY <3>1, <3>2, <3>3
  <2>3. /\ s = "executing" => rows[k][1] \notin ClaimedStages
        /\ rows[k][1] \in ClaimedStages => s \in ClaimedStages
    BY <1>3, <2>2, ClaimIsOneWay DEF Advance
  <2> DEFINE row  == [rows[k] EXCEPT ![1] = s]
             done == IF s = "executing" THEN effects[k] + 1 ELSE effects[k]
  <2>4. rows' = [rows EXCEPT ![k] = row] /\ effects' = [effects EXCEPT ![k] = done]
    BY <1>3, <2>2 DEF Advance
  <2>5. row \in Seq(Stages) /\ Len(row) = 1 /\ row[1] = s
    BY <2>1, <2>2
  <2>6. done \in {0, 1} /\ (s \notin ClaimedStages => done = 0)
    BY <2>1, <2>2, <2>3 DEF KeyInv, ClaimedStages
  <2> HIDE DEF row, done
  <2>7. RetryTypes'
    BY <2>4, <2>5, <2>6 DEF RetryInv, RetryTypes
  <2>8. rows'[k] = row /\ effects'[k] = done
    BY <2>4 DEF RetryInv, RetryTypes
  <2>9. KeyInv(k)'
    BY <2>5, <2>6, <2>8 DEF KeyInv
  <2>10. ASSUME NEW l \in Keys, l /= k
         PROVE  KeyInv(l)'
    <3>1. rows'[l] = rows[l] /\ effects'[l] = effects[l]
      BY <2>4, <2>10 DEF RetryInv, RetryTypes
    <3> QED
      BY <3>1 DEF RetryInv, KeyInv
  <2> QED
    BY <2>7, <2>9, <2>10 DEF RetryInv
<1>4. ASSUME NEW c \in Submitters, NEW k \in Keys, Lookup(c, k) \/ InsertRejected(c, k)
      PROVE  RetryInv'
  BY <1>1, <1>4 DEF Lookup, InsertRejected
<1> QED
  BY <1>1, <1>2, <1>3, <1>4 DEF RetryNext, retryVars

\* However clients resubmit a key, the action behind it takes effect at most once
\* (TransitionEngine.propose and idx_ep_transitions_idempotency).
THEOREM KeyActsOnce == RetrySpec => []AtMostOneEffectPerKey
<1>1. RetryInv => AtMostOneEffectPerKey
  BY DEF RetryInv, KeyInv, AtMostOneEffectPerKey
<1> QED
  BY <1>1, RetryStart, RetryStep, PTL DEF RetrySpec

=============================================================================
