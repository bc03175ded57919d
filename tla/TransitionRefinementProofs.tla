---------------------- MODULE TransitionRefinementProofs ----------------------
(***************************************************************************)
(* Without withdrawals the engine implements TransitionLifecycle: when no  *)
(* one cancels, expires or settles a transition as failed, the only stage  *)
(* written after a stale read is the result of an execution, and that      *)
(* write first asks whether the move is legal.                             *)
(***************************************************************************)
EXTENDS TransitionEngineProofs

\* The commands whose check and write can be overtaken are not issued.
NoWithdrawal == Commands \cap {"cancel", "expire", "reconcile_failed"} = {}

\* Then no such handler is in progress and no transition is withdrawn.
Unwithdrawn ==
  /\ \A w \in Workers : call[w].at \notin {"cancel", "expire", "settle"}
  /\ \A t \in Transitions : stage[t] \notin {"cancelled", "expired"}

\* Every step keeps the transitions unwithdrawn.
LEMMA UnwithdrawnInductive ==
  ASSUME NoWithdrawal, IInv, Unwithdrawn, [Next]_vars
  PROVE  Unwithdrawn'
<1>1. ASSUME NEW t \in Transitions, Propose(t)
      PROVE  Unwithdrawn'
  BY <1>1 DEF IInv, TypeOK, Unwithdrawn, Propose, ProposalOutcomes
<1>2. ASSUME NEW w \in Workers, NEW t \in Transitions, NEW who \in Principals, NEW s \in {"authorized", "denied"}, BeginDecision(w, t, who, s)
      PROVE  Unwithdrawn'
  BY <1>2 DEF IInv, TypeOK, Unwithdrawn, BeginDecision, Start, Idle, IdleCall,
     rowVars
<1>3. ASSUME NEW w \in Workers, FinishDecision(w)
      PROVE  Unwithdrawn'
  BY <1>3 DEF IInv, TypeOK, Unwithdrawn, FinishDecision, Return, IdleCall,
     CallInv
<1>4. ASSUME NEW w \in Workers, NEW t \in Transitions, NEW who \in Principals, BeginCancel(w, t, who)
      PROVE  Unwithdrawn'
  BY <1>4 DEF BeginCancel, NoWithdrawal
<1>5. ASSUME NEW w \in Workers, FinishCancel(w)
      PROVE  Unwithdrawn'
  BY <1>5 DEF FinishCancel, Unwithdrawn
<1>6. ASSUME NEW w \in Workers, NEW t \in Transitions, BeginExpire(w, t)
      PROVE  Unwithdrawn'
  BY <1>6 DEF BeginExpire, NoWithdrawal
<1>7. ASSUME NEW w \in Workers, FinishExpire(w)
      PROVE  Unwithdrawn'
  BY <1>7 DEF FinishExpire, Unwithdrawn
<1>8. ASSUME NEW k \in Tokens, NEW t \in Transitions, IssueAuthorization(k, t)
      PROVE  Unwithdrawn'
  BY <1>8 DEF IInv, TypeOK, Unwithdrawn, IssueAuthorization, rowVars
<1>9. ASSUME NEW k \in Tokens, Lapse(k)
      PROVE  Unwithdrawn'
  BY <1>9 DEF IInv, TypeOK, Unwithdrawn, Lapse, rowVars
<1>10. ASSUME NEW w \in Workers, NEW k \in Tokens, Present(w, k)
      PROVE  Unwithdrawn'
  BY <1>10 DEF IInv, TypeOK, Unwithdrawn, Present, Start, Idle, IdleCall,
     rowVars
<1>11. ASSUME NEW w \in Workers, Claim(w)
      PROVE  Unwithdrawn'
  BY <1>11 DEF IInv, TypeOK, Unwithdrawn, Claim, Goto, Calls
<1>12. ASSUME NEW w \in Workers, ClaimRefused(w)
      PROVE  Unwithdrawn'
  BY <1>12 DEF IInv, TypeOK, Unwithdrawn, ClaimRefused, Return, IdleCall,
     rowVars
<1>13. ASSUME NEW w \in Workers, Invoke(w)
      PROVE  Unwithdrawn'
  <2>1. \A v \in Workers : call'[v].at \notin {"cancel", "expire", "settle"}
    BY <1>13, InvokeCall DEF IInv, Unwithdrawn
  <2> QED BY <1>13, <2>1 DEF IInv, TypeOK, Unwithdrawn, Invoke, rowVars
<1>14. ASSUME NEW w \in Workers, ReadHead(w)
      PROVE  Unwithdrawn'
  BY <1>14 DEF IInv, TypeOK, Unwithdrawn, ReadHead, rowVars, Calls
<1>15. ASSUME NEW w \in Workers, RecordResult(w)
      PROVE  Unwithdrawn'
  BY <1>15 DEF IInv, TypeOK, Unwithdrawn, RecordResult, Return, IdleCall,
     CallInv
<1>16. ASSUME NEW w \in Workers, RecordRefused(w)
      PROVE  Unwithdrawn'
  BY <1>16 DEF IInv, TypeOK, Unwithdrawn, RecordRefused, Return, IdleCall,
     rowVars
<1>17. ASSUME NEW w \in Workers, CommitBegin(w)
      PROVE  Unwithdrawn'
  BY <1>17 DEF IInv, TypeOK, Unwithdrawn, CommitBegin, rowVars, Calls
<1>18. ASSUME NEW w \in Workers, CommitWrite(w)
      PROVE  Unwithdrawn'
  <2>1. \A v \in Workers : call'[v].at \notin {"cancel", "expire", "settle"}
    BY <1>18, CommitWriteCall DEF IInv, Unwithdrawn
  <2> QED BY <1>18, <2>1 DEF IInv, TypeOK, Unwithdrawn, CommitWrite
<1>19. ASSUME NEW w \in Workers, CommitRefused(w)
      PROVE  Unwithdrawn'
  <2>1. \A v \in Workers : call'[v].at \notin {"cancel", "expire", "settle"}
    BY <1>19, AfterCommitErrorCall DEF IInv, Unwithdrawn, CommitRefused
  <2> QED BY <1>19, <2>1 DEF IInv, TypeOK, Unwithdrawn, CommitRefused, rowVars
<1>20. ASSUME NEW t \in Transitions, MarkUncertain(t)
      PROVE  Unwithdrawn'
  BY <1>20 DEF IInv, TypeOK, Unwithdrawn, MarkUncertain
<1>21. ASSUME NEW w \in Workers, NEW t \in Transitions, BeginReconcile(w, t)
      PROVE  Unwithdrawn'
  BY <1>21 DEF IInv, TypeOK, Unwithdrawn, BeginReconcile, Start, Idle,
     IdleCall, rowVars
<1>22. ASSUME NEW w \in Workers, ClearFlag(w)
      PROVE  Unwithdrawn'
  BY <1>22 DEF IInv, TypeOK, Unwithdrawn, ClearFlag, Return, IdleCall
<1>23. ASSUME NEW w \in Workers, RaiseFlag(w)
      PROVE  Unwithdrawn'
  BY <1>23 DEF IInv, TypeOK, Unwithdrawn, RaiseFlag, Return, IdleCall
<1>24. ASSUME NEW w \in Workers, NEW t \in Transitions, BeginSettle(w, t)
      PROVE  Unwithdrawn'
  BY <1>24 DEF BeginSettle, NoWithdrawal
<1>25. ASSUME NEW w \in Workers, FinishSettle(w)
      PROVE  Unwithdrawn'
  BY <1>25 DEF FinishSettle, Unwithdrawn
<1>26. ASSUME NEW w \in Workers, Crash(w)
      PROVE  Unwithdrawn'
  BY <1>26 DEF IInv, TypeOK, Unwithdrawn, Crash, Return, Idle, IdleCall,
     rowVars
<1>27. CASE UNCHANGED vars
  BY <1>27 DEF Unwithdrawn, vars, rowVars
<1>28. ASSUME NEW w \in Workers, RecordBegin(w)
      PROVE  Unwithdrawn'
  BY <1>28 DEF IInv, TypeOK, Unwithdrawn, RecordBegin, Goto, Calls, rowVars
<1> QED BY <1>1, <1>2, <1>3, <1>4, <1>5, <1>6, <1>7, <1>8, <1>9, <1>10, <1>11,
   <1>12, <1>13, <1>14, <1>15, <1>16, <1>17, <1>18, <1>19, <1>20, <1>21,
   <1>22, <1>23, <1>24, <1>25, <1>26, <1>27, <1>28 DEF Next, Environment,
   Request, Proceed

\* The engine's vocabulary is the lifecycle's.
LEMMA SameVocabulary ==
  /\ Lifecycle!ProposalOutcomes = ProposalOutcomes
  /\ Lifecycle!ClaimedStages = ClaimedStages
  /\ Lifecycle!Stages = Stages
  /\ \A a, b : Lifecycle!IsLegalTransition(a, b) <=> IsLegalTransition(a, b)
BY DEF Lifecycle!Stages, Lifecycle!ProposalOutcomes, Lifecycle!ClaimedStages,
       Lifecycle!IsLegalTransition, Lifecycle!LegalTransitions, Stages,
       ProposalOutcomes, ClaimedStages, IsLegalTransition, LegalTransitions

\* Every step of the engine is a step of the lifecycle or changes nothing it
\* speaks of.  Seven actions map to a step, the others to a stutter.
LEMMA StepRefines ==
  ASSUME IInv, Unwithdrawn, [Next]_vars
  PROVE  [Lifecycle!Next]_(Lifecycle!lifecycleVars)
<1> USE SameVocabulary DEF Lifecycle!lifecycleVars
<1>1. ASSUME NEW t \in Transitions, Propose(t)
      PROVE  [Lifecycle!Next]_(Lifecycle!lifecycleVars)
  <2>1. Lifecycle!Propose(t)
    BY <1>1 DEF Propose, Lifecycle!Propose, branchVars, targetVars
  <2> QED BY <2>1 DEF Lifecycle!Next
<1>2. ASSUME NEW w \in Workers, NEW t \in Transitions, NEW who \in Principals, NEW s \in {"authorized", "denied"}, BeginDecision(w, t, who, s)
      PROVE  [Lifecycle!Next]_(Lifecycle!lifecycleVars)
  BY <1>2 DEF BeginDecision, rowVars, branchVars, targetVars
<1>3. ASSUME NEW w \in Workers, FinishDecision(w)
      PROVE  [Lifecycle!Next]_(Lifecycle!lifecycleVars)
  <2>1. PICK t \in Transitions : t = call[w].tx
    BY <1>3 DEF IInv, TypeOK, Idle, FinishDecision
  <2>2. stage[t] = "pending_approval" /\ call[w].want \in {"authorized", "denied"}
    BY <1>3, <2>1 DEF IInv, CallInv, RowInv, Unwithdrawn, FinishDecision
  <2>3. Lifecycle!Advance(t)
    BY <1>3, <2>1, <2>2 DEF FinishDecision, Lifecycle!Advance, branchVars,
       targetVars, Stages, IsLegalTransition, LegalTransitions
  <2> QED BY <2>3 DEF Lifecycle!Next
<1>4. ASSUME NEW w \in Workers, NEW t \in Transitions, NEW who \in Principals, BeginCancel(w, t, who)
      PROVE  [Lifecycle!Next]_(Lifecycle!lifecycleVars)
  BY <1>4 DEF BeginCancel, rowVars, branchVars, targetVars
<1>5. ASSUME NEW w \in Workers, FinishCancel(w)
      PROVE  [Lifecycle!Next]_(Lifecycle!lifecycleVars)
  BY <1>5 DEF FinishCancel, Unwithdrawn
<1>6. ASSUME NEW w \in Workers, NEW t \in Transitions, BeginExpire(w, t)
      PROVE  [Lifecycle!Next]_(Lifecycle!lifecycleVars)
  BY <1>6 DEF BeginExpire, rowVars, branchVars, targetVars
<1>7. ASSUME NEW w \in Workers, FinishExpire(w)
      PROVE  [Lifecycle!Next]_(Lifecycle!lifecycleVars)
  BY <1>7 DEF FinishExpire, Unwithdrawn
<1>8. ASSUME NEW k \in Tokens, NEW t \in Transitions, IssueAuthorization(k, t)
      PROVE  [Lifecycle!Next]_(Lifecycle!lifecycleVars)
  BY <1>8 DEF IssueAuthorization, rowVars, branchVars, targetVars
<1>9. ASSUME NEW k \in Tokens, Lapse(k)
      PROVE  [Lifecycle!Next]_(Lifecycle!lifecycleVars)
  BY <1>9 DEF Lapse, rowVars, branchVars, targetVars
<1>10. ASSUME NEW w \in Workers, NEW k \in Tokens, Present(w, k)
      PROVE  [Lifecycle!Next]_(Lifecycle!lifecycleVars)
  BY <1>10 DEF Present, rowVars, branchVars, targetVars
<1>11. ASSUME NEW w \in Workers, Claim(w)
      PROVE  [Lifecycle!Next]_(Lifecycle!lifecycleVars)
  <2>1. PICK t \in Transitions : t = call[w].tx
    BY <1>11 DEF IInv, TypeOK, Idle, Claim
  <2>2. Lifecycle!Advance(t)
    BY <1>11, <2>1 DEF Claim, Lifecycle!Advance, branchVars, targetVars, Stages,
       IsLegalTransition, LegalTransitions
  <2> QED BY <2>2 DEF Lifecycle!Next
<1>12. ASSUME NEW w \in Workers, ClaimRefused(w)
      PROVE  [Lifecycle!Next]_(Lifecycle!lifecycleVars)
  BY <1>12 DEF ClaimRefused, rowVars, branchVars, targetVars
<1>13. ASSUME NEW w \in Workers, Invoke(w)
      PROVE  [Lifecycle!Next]_(Lifecycle!lifecycleVars)
  <2>1. PICK t \in Transitions : t = call[w].tx
    BY <1>13 DEF IInv, TypeOK, Idle, Invoke
  <2>2. stage[t] \in ClaimedStages /\ runs[t] = 0
    BY <1>13, <2>1 DEF IInv, CallInv, RowInv, AfterClaim, Unwithdrawn, Invoke
  <2>3. runs' = [runs EXCEPT ![t] = 1]
    BY <1>13, <2>1, <2>2 DEF IInv, TypeOK, Invoke
  <2>4. Lifecycle!Invoke(t)
    BY <1>13, <2>2, <2>3 DEF Invoke, Lifecycle!Invoke, rowVars, branchVars
  <2> QED BY <2>4 DEF Lifecycle!Next
<1>14. ASSUME NEW w \in Workers, ReadHead(w)
      PROVE  [Lifecycle!Next]_(Lifecycle!lifecycleVars)
  BY <1>14 DEF ReadHead, rowVars, branchVars, targetVars
<1>15. ASSUME NEW w \in Workers, RecordResult(w)
      PROVE  [Lifecycle!Next]_(Lifecycle!lifecycleVars)
  <2>1. PICK t \in Transitions : t = call[w].tx
    BY <1>15 DEF IInv, TypeOK, Idle, RecordResult
  <2>2. call[w].want \in {"failed", "execution_uncertain"}
    BY <1>15 DEF IInv, CallInv, RecordResult
  <2>3. Lifecycle!Advance(t)
    BY <1>15, <2>1, <2>2 DEF RecordResult, Lifecycle!Advance, branchVars,
       targetVars, Stages
  <2> QED BY <2>3 DEF Lifecycle!Next
<1>16. ASSUME NEW w \in Workers, RecordRefused(w)
      PROVE  [Lifecycle!Next]_(Lifecycle!lifecycleVars)
  BY <1>16 DEF RecordRefused, rowVars, branchVars, targetVars
<1>17. ASSUME NEW w \in Workers, CommitBegin(w)
      PROVE  [Lifecycle!Next]_(Lifecycle!lifecycleVars)
  BY <1>17 DEF CommitBegin, rowVars, branchVars, targetVars
<1>18. ASSUME NEW w \in Workers, CommitWrite(w)
      PROVE  [Lifecycle!Next]_(Lifecycle!lifecycleVars)
  <2>1. PICK t \in Transitions : t = call[w].tx
    BY <1>18 DEF IInv, TypeOK, Idle, CommitWrite
  <2>2. stage[t] \in {"executing", "execution_uncertain"}
    BY <1>18, <2>1 DEF IInv, CallInv, CommitWrite, CanCommit
  <2>3. commits[t] = 0
    BY <2>2 DEF IInv, TypeOK, RowInv
  <2>4. commits' = [commits EXCEPT ![t] = 1]
    BY <1>18, <2>1, <2>3 DEF IInv, TypeOK, CommitWrite
  <2>5. Lifecycle!Realise(t)
    BY <1>18, <2>1, <2>2, <2>3, <2>4 DEF CommitWrite, Lifecycle!Realise,
       targetVars, IsLegalTransition, LegalTransitions
  <2> QED BY <2>5 DEF Lifecycle!Next
<1>19. ASSUME NEW w \in Workers, CommitRefused(w)
      PROVE  [Lifecycle!Next]_(Lifecycle!lifecycleVars)
  BY <1>19 DEF CommitRefused, rowVars, branchVars, targetVars
<1>20. ASSUME NEW t \in Transitions, MarkUncertain(t)
      PROVE  [Lifecycle!Next]_(Lifecycle!lifecycleVars)
  <2>1. Lifecycle!Advance(t)
    BY <1>20 DEF MarkUncertain, Lifecycle!Advance, branchVars, targetVars, Stages,
       IsLegalTransition, LegalTransitions
  <2> QED BY <2>1 DEF Lifecycle!Next
<1>21. ASSUME NEW w \in Workers, NEW t \in Transitions, BeginReconcile(w, t)
      PROVE  [Lifecycle!Next]_(Lifecycle!lifecycleVars)
  BY <1>21 DEF BeginReconcile, rowVars, branchVars, targetVars
<1>22. ASSUME NEW w \in Workers, ClearFlag(w)
      PROVE  [Lifecycle!Next]_(Lifecycle!lifecycleVars)
  BY <1>22 DEF ClearFlag, branchVars, targetVars
<1>23. ASSUME NEW w \in Workers, RaiseFlag(w)
      PROVE  [Lifecycle!Next]_(Lifecycle!lifecycleVars)
  BY <1>23 DEF RaiseFlag, branchVars, targetVars
<1>24. ASSUME NEW w \in Workers, NEW t \in Transitions, BeginSettle(w, t)
      PROVE  [Lifecycle!Next]_(Lifecycle!lifecycleVars)
  BY <1>24 DEF BeginSettle, rowVars, branchVars, targetVars
<1>25. ASSUME NEW w \in Workers, FinishSettle(w)
      PROVE  [Lifecycle!Next]_(Lifecycle!lifecycleVars)
  BY <1>25 DEF FinishSettle, Unwithdrawn
<1>26. ASSUME NEW w \in Workers, Crash(w)
      PROVE  [Lifecycle!Next]_(Lifecycle!lifecycleVars)
  BY <1>26 DEF Crash, rowVars, branchVars, targetVars
<1>27. CASE UNCHANGED vars
  BY <1>27 DEF vars, rowVars, branchVars, targetVars
<1>28. ASSUME NEW w \in Workers, RecordBegin(w)
      PROVE  [Lifecycle!Next]_(Lifecycle!lifecycleVars)
  BY <1>28 DEF RecordBegin, rowVars, branchVars, targetVars
<1> QED BY <1>1, <1>2, <1>3, <1>4, <1>5, <1>6, <1>7, <1>8, <1>9, <1>10, <1>11,
   <1>12, <1>13, <1>14, <1>15, <1>16, <1>17, <1>18, <1>19, <1>20, <1>21,
   <1>22, <1>23, <1>24, <1>25, <1>26, <1>27, <1>28 DEF Next, Environment,
   Request, Proceed

\* With approvals, uncertain results, crashes and lost replies, but without
\* withdrawals, the engine implements the lifecycle: stages only move along
\* legal transitions, the adapter runs once and after the claim, and a node is
\* made exactly when the stage becomes "succeeded".
THEOREM EngineImplementsLifecycle ==
  ASSUME NoWithdrawal
  PROVE  Spec => ImplementsLifecycle
<1>1. Init => Unwithdrawn /\ Lifecycle!Init
  BY DEF Init, IdleCall, Unwithdrawn, Lifecycle!Init
<1>2. IInv /\ Unwithdrawn /\ [Next]_vars => Unwithdrawn'
  BY UnwithdrawnInductive, NoWithdrawal
<1>3. IInv /\ Unwithdrawn /\ [Next]_vars => [Lifecycle!Next]_(Lifecycle!lifecycleVars)
  BY StepRefines
<1> QED
  BY <1>1, <1>2, <1>3, InvCorrect, PTL
  DEF Spec, ImplementsLifecycle, Lifecycle!Spec

-------------------------------------------------------------------------------
(* The audit trail *)

\* The last stage event of a transition reports its stage, and a node is made with the
\* stage "succeeded", which nothing then changes.
TrailInv ==
  /\ TrailFollowsStage
  /\ \A t \in Transitions : commits[t] > 0 => stage[t] = "succeeded"

\* The actions that change neither the rows of ep_transitions nor the nodes.
LEMMA TrailQuiet ==
  ASSUME TrailInv, UNCHANGED <<stage, trail, commits>>
  PROVE  TrailInv'
BY DEF TrailInv, TrailFollowsStage

\* An action that writes stage and event of one transition that has no node.
LEMMA TrailWrite ==
  ASSUME IInv, TrailInv, NEW t \in Transitions, NEW s \in Stages, NEW r,
         commits[t] = 0, commits' = commits,
         stage' = [stage EXCEPT ![t] = s], trail' = [trail EXCEPT ![t] = r],
         s # "executing" => r = s
  PROVE  TrailInv'
<1>1. \A u \in Transitions : u # t => stage'[u] = stage[u] /\ trail'[u] = trail[u]
  BY DEF IInv, TypeOK
<1>2. stage'[t] = s /\ trail'[t] = r
  BY DEF IInv, TypeOK
<1> QED BY <1>1, <1>2 DEF TrailInv, TrailFollowsStage

LEMMA TrailInductive ==
  ASSUME IInv, Unwithdrawn, TrailInv, [Next]_vars
  PROVE  TrailInv'
<1>0. \A t \in Transitions : stage[t] # "succeeded" => commits[t] = 0
  BY DEF IInv, TypeOK, TrailInv
<1>1. ASSUME NEW t \in Transitions, Propose(t)
      PROVE  TrailInv'
  <2>1. PICK v \in ProposalOutcomes : /\ stage' = [stage EXCEPT ![t] = v]
                                      /\ trail' = [trail EXCEPT ![t] = v]
    BY <1>1 DEF Propose
  <2>2. v \in Stages /\ commits[t] = 0 /\ commits' = commits
    BY <1>0, <1>1 DEF Propose, ProposalOutcomes, Stages, branchVars
  <2> QED BY <2>1, <2>2, TrailWrite
<1>2. ASSUME NEW w \in Workers, FinishDecision(w)
      PROVE  TrailInv'
  <2>1. PICK t \in Transitions : t = call[w].tx
    BY <1>2 DEF IInv, TypeOK, Idle, FinishDecision
  <2>2. PICK s \in Stages : s = call[w].want
    BY <1>2 DEF IInv, CallInv, FinishDecision, Stages
  <2>3. stage[t] # "succeeded"
    BY <1>2, <2>1 DEF IInv, CallInv, RowInv, FinishDecision, Unwithdrawn
  <2>4. /\ stage' = [stage EXCEPT ![t] = s] /\ trail' = [trail EXCEPT ![t] = s]
        /\ commits' = commits
    BY <1>2, <2>1, <2>2 DEF FinishDecision, branchVars
  <2> QED BY <1>0, <2>3, <2>4, TrailWrite
<1>3. ASSUME NEW w \in Workers, Claim(w)
      PROVE  TrailInv'
  <2>1. PICK t \in Transitions : t = call[w].tx
    BY <1>3 DEF IInv, TypeOK, Idle, Claim
  <2>2. /\ stage[t] # "succeeded" /\ stage' = [stage EXCEPT ![t] = "executing"]
        /\ trail' = [trail EXCEPT ![t] = trail[t]] /\ commits' = commits
    BY <1>3, <2>1 DEF Claim, branchVars, IInv, TypeOK
  <2>3. "executing" \in Stages
    BY DEF Stages
  <2> QED BY <1>0, <2>2, <2>3, TrailWrite
<1>4. ASSUME NEW w \in Workers, RecordResult(w)
      PROVE  TrailInv'
  <2>1. PICK t \in Transitions : t = call[w].tx
    BY <1>4 DEF IInv, TypeOK, Idle, RecordResult
  <2>2. PICK s \in Stages : s = call[w].want
    BY <1>4 DEF IInv, CallInv, RecordResult, Stages
  <2>3. /\ stage[t] # "succeeded" /\ stage' = [stage EXCEPT ![t] = s]
        /\ trail' = [trail EXCEPT ![t] = s] /\ commits' = commits
    BY <1>4, <2>1, <2>2 DEF RecordResult, branchVars, IsLegalTransition,
       LegalTransitions
  <2> QED BY <1>0, <2>3, TrailWrite
<1>5. ASSUME NEW t \in Transitions, MarkUncertain(t)
      PROVE  TrailInv'
  <2>1. /\ stage[t] # "succeeded" /\ stage' = [stage EXCEPT ![t] = "execution_uncertain"]
        /\ trail' = [trail EXCEPT ![t] = "execution_uncertain"] /\ commits' = commits
    BY <1>5 DEF MarkUncertain, branchVars
  <2>2. "execution_uncertain" \in Stages
    BY DEF Stages
  <2> QED BY <1>0, <2>1, <2>2, TrailWrite
<1>6. ASSUME NEW w \in Workers, CommitWrite(w)
      PROVE  TrailInv'
  <2>1. PICK t \in Transitions : t = call[w].tx
    BY <1>6 DEF IInv, TypeOK, Idle, CommitWrite
  <2>2. /\ stage' = [stage EXCEPT ![t] = "succeeded"]
        /\ trail' = [trail EXCEPT ![t] = "succeeded"]
        /\ commits' = [commits EXCEPT ![t] = commits[t] + 1]
    BY <1>6, <2>1 DEF CommitWrite
  <2>3. /\ stage'[t] = "succeeded" /\ trail'[t] = "succeeded"
        /\ \A u \in Transitions : u # t => /\ stage'[u] = stage[u] /\ trail'[u] = trail[u]
                                           /\ commits'[u] = commits[u]
    BY <2>2 DEF IInv, TypeOK
  <2> QED BY <2>3 DEF TrailInv, TrailFollowsStage
<1>7. ASSUME NEW w \in Workers, ClearFlag(w)
      PROVE  TrailInv'
  <2>1. PICK t \in Transitions : t = call[w].tx
    BY <1>7 DEF IInv, TypeOK, Idle, ClearFlag
  <2>2. stage[t] = "succeeded"
    BY <1>7, <2>1 DEF IInv, CallInv, ClearFlag, TrailInv
  <2>3. /\ stage' = stage /\ commits' = commits /\ trail'[t] = "succeeded"
        /\ \A u \in Transitions : u # t => trail'[u] = trail[u]
    BY <1>7, <2>1 DEF ClearFlag, branchVars, IInv, TypeOK
  <2> QED BY <2>2, <2>3 DEF TrailInv, TrailFollowsStage
<1>8. \A w \in Workers : ~FinishCancel(w) /\ ~FinishExpire(w) /\ ~FinishSettle(w)
  BY DEF Unwithdrawn, FinishCancel, FinishExpire, FinishSettle
<1> DEFINE Quiet == UNCHANGED <<stage, trail, commits>>
<1>9. Environment => \/ \E t \in Transitions : Propose(t) \/ MarkUncertain(t)
                     \/ Quiet
  BY DEF Environment, Lapse, IssueAuthorization, rowVars, branchVars
<1>10. \A w \in Workers : Request(w) => Quiet
  BY ZenonT(30) DEF Request, Present, BeginDecision, BeginCancel, BeginExpire,
     BeginReconcile, BeginSettle, rowVars, branchVars
<1>11. \A w \in Workers :
         Proceed(w) => \/ FinishDecision(w) \/ Claim(w) \/ RecordResult(w)
                       \/ CommitWrite(w) \/ ClearFlag(w) \/ Quiet
  BY <1>8 DEF Proceed, ClaimRefused, Invoke, ReadHead, RecordBegin, RecordRefused,
     CommitBegin, CommitRefused, RaiseFlag, rowVars, branchVars
<1>12. \A w \in Workers : Crash(w) => Quiet
  BY DEF Crash, rowVars, branchVars
<1>13. UNCHANGED vars => Quiet
  BY DEF vars, rowVars, branchVars
<1>14. Quiet => TrailInv'
  BY TrailQuiet
<1> HIDE DEF Quiet
<1> QED BY <1>1, <1>2, <1>3, <1>4, <1>5, <1>6, <1>7, <1>9, <1>10, <1>11, <1>12,
   <1>13, <1>14 DEF Next

\* The audit trail keeps up with the stages but for the claim, whatever is approved,
\* marked, reconciled or lost in between (_write_audit_event).
THEOREM TrailKeepsUp ==
  ASSUME NoWithdrawal
  PROVE  Spec => []TrailFollowsStage
<1>1. Init => Unwithdrawn /\ TrailInv
  BY DEF Init, IdleCall, Unwithdrawn, TrailInv, TrailFollowsStage
<1>2. IInv /\ Unwithdrawn /\ [Next]_vars => Unwithdrawn'
  BY UnwithdrawnInductive, NoWithdrawal
<1>3. IInv /\ Unwithdrawn /\ TrailInv /\ [Next]_vars => TrailInv'
  BY TrailInductive
<1>4. TrailInv => TrailFollowsStage
  BY DEF TrailInv
<1> QED BY <1>1, <1>2, <1>3, <1>4, InvCorrect, PTL DEF Spec

-------------------------------------------------------------------------------
(* What the adapter changed *)

\* Nothing overwrites a result, and every handler goes on to report one.
NothingDropped ==
  /\ Commands \cap {"cancel", "expire"} = {}
  /\ Faults \cap {"crash", "db_error"} = {}

\* Worker w is a proxy that will report what its adapter did for t.
Reports(w, t) ==
  /\ call[w].tx = t /\ call[w].via = "proxy"
  /\ call[w].at \in {"read_head", "commit", "write", "record", "result"}

\* Only the proxy gets to the adapter, and no handler withdraws.
Undropped(w) ==
  /\ call[w].at \notin {"cancel", "expire"}
  /\ call[w].at \in {"claim", "invoke"} => call[w].via = "proxy"

\* A change made for a transition that is still executing has its reporter.  This is
\* what the property lacks to be inductive: it speaks only of what nobody works on.
ChangeInv ==
  /\ \A w \in Workers : Undropped(w)
  /\ \A t \in Transitions :
       /\ stage[t] \notin {"cancelled", "expired"}
       /\ changed[t] => runs[t] > 0
       /\ changed[t] /\ stage[t] = "executing" => \E w \in Workers : Reports(w, t)

\* No adapter has changed anything for a transition that can still be claimed.
LEMMA UnclaimedIsUnchanged ==
  ASSUME IInv, ChangeInv, NEW t \in Transitions, stage[t] \notin ClaimedStages
  PROVE  ~changed[t]
BY DEF IInv, RowInv, ChangeInv

\* A step of one handler that invokes no adapter, and that ends its report only with
\* the execution.
LEMMA ChangeKept ==
  ASSUME ChangeInv, NEW w \in Workers, targetVars' = targetVars,
         \A v \in Workers \ {w} : call'[v] = call[v],
         Undropped(w)',
         \A t \in Transitions :
            /\ stage'[t] \notin {"cancelled", "expired"}
            /\ changed[t] /\ stage'[t] = "executing" => stage[t] = "executing"
            /\ Reports(w, t) /\ stage'[t] = "executing" => Reports(w, t)'
  PROVE  ChangeInv'
<1>1. \A v \in Workers : Undropped(v)'
  BY DEF ChangeInv, Undropped
<1>2. changed' = changed /\ runs' = runs
  BY DEF targetVars
<1>3. ASSUME NEW t \in Transitions, changed[t], stage'[t] = "executing"
      PROVE  \E v \in Workers : Reports(v, t)'
  <2>1. PICK v \in Workers : Reports(v, t)
    BY <1>3 DEF ChangeInv
  <2>2. CASE v = w
    BY <1>3, <2>1, <2>2
  <2>3. CASE v # w
    BY <2>1, <2>3 DEF Reports
  <2> QED BY <2>2, <2>3
<1> QED BY <1>1, <1>2, <1>3 DEF ChangeInv

\* The same for steps that leave the stages alone.
LEMMA ChangeKeptQuietly ==
  ASSUME ChangeInv, NEW w \in Workers, targetVars' = targetVars, stage' = stage,
         \A v \in Workers \ {w} : call'[v] = call[v],
         Undropped(w)',
         \A t \in Transitions :
            Reports(w, t) /\ stage[t] = "executing" => Reports(w, t)'
  PROVE  ChangeInv'
BY ChangeKept DEF ChangeInv

\* A handler that starts reported nothing before.
LEMMA ChangeKeptByStart ==
  ASSUME IInv, ChangeInv, NEW w \in Workers, NEW c, Start(w, c),
         c.at \notin {"cancel", "expire"},
         c.at \in {"claim", "invoke"} => c.via = "proxy",
         targetVars' = targetVars, stage' = stage
  PROVE  ChangeInv'
<1>1. (\A v \in Workers \ {w} : call'[v] = call[v]) /\ call'[w] = c
  BY DEF IInv, TypeOK, Start
<1>2. \A t \in Transitions : ~Reports(w, t)
  BY DEF Start, Idle, Reports
<1>3. Undropped(w)'
  BY <1>1 DEF Undropped
<1> QED BY <1>1, <1>2, <1>3, ChangeKeptQuietly

\* A handler that returns without a report had nothing to report.
LEMMA ChangeKeptByReturn ==
  ASSUME IInv, ChangeInv, NEW w \in Workers, Return(w),
         targetVars' = targetVars,
         \A t \in Transitions :
            /\ stage'[t] \notin {"cancelled", "expired"}
            /\ changed[t] /\ stage'[t] = "executing" => stage[t] = "executing"
            /\ ~(Reports(w, t) /\ stage'[t] = "executing")
  PROVE  ChangeInv'
<1>1. (\A v \in Workers \ {w} : call'[v] = call[v]) /\ call'[w] = IdleCall
  BY DEF IInv, TypeOK, Return
<1>2. Undropped(w)'
  BY <1>1 DEF Undropped, IdleCall
<1> QED BY <1>1, <1>2, ChangeKept

LEMMA ChangeInductive ==
  ASSUME NothingDropped, IInv, ChangeInv, [Next]_vars
  PROVE  ChangeInv'
<1>1. ASSUME NEW t \in Transitions, Propose(t)
      PROVE  ChangeInv'
  <2>1. PICK s \in ProposalOutcomes : stage' = [stage EXCEPT ![t] = s]
    BY <1>1 DEF Propose
  <2>2. /\ stage'[t] \notin {"executing", "cancelled", "expired"}
        /\ \A u \in Transitions : u # t => stage'[u] = stage[u]
    BY <2>1 DEF IInv, TypeOK, ProposalOutcomes
  <2>3. call' = call /\ changed' = changed /\ runs' = runs
    BY <1>1 DEF Propose, targetVars
  <2> QED BY <2>2, <2>3 DEF ChangeInv, Undropped, Reports
<1>2. ASSUME NEW t \in Transitions, MarkUncertain(t)
      PROVE  ChangeInv'
  <2>1. /\ stage'[t] = "execution_uncertain"
        /\ \A u \in Transitions : u # t => stage'[u] = stage[u]
    BY <1>2 DEF IInv, TypeOK, MarkUncertain
  <2>2. call' = call /\ changed' = changed /\ runs' = runs
    BY <1>2 DEF MarkUncertain, targetVars
  <2> QED BY <2>1, <2>2 DEF ChangeInv, Undropped, Reports
<1>3. CASE \/ \E k \in Tokens : Lapse(k) \/ \E t \in Transitions : IssueAuthorization(k, t)
           \/ UNCHANGED vars
  <2>1. UNCHANGED <<stage, call, changed, runs>>
    BY <1>3 DEF Lapse, IssueAuthorization, vars, rowVars, targetVars
  <2> QED BY <2>1 DEF ChangeInv, Undropped, Reports
<1>4. ASSUME NEW w \in Workers, Request(w)
      PROVE  ChangeInv'
  <2>1. ASSUME NEW k \in Tokens, Present(w, k)
        PROVE  ChangeInv'
    BY <2>1, ChangeKeptByStart DEF Present, IdleCall, rowVars
  <2>2. ASSUME NEW t \in Transitions, NEW who \in Principals,
               NEW s \in {"authorized", "denied"}, BeginDecision(w, t, who, s)
        PROVE  ChangeInv'
    BY <2>2, ChangeKeptByStart DEF BeginDecision, IdleCall, rowVars
  <2>3. ASSUME NEW t \in Transitions, BeginReconcile(w, t)
        PROVE  ChangeInv'
    BY <2>3, ChangeKeptByStart DEF BeginReconcile, IdleCall, rowVars
  <2>4. ASSUME NEW t \in Transitions, BeginSettle(w, t)
        PROVE  ChangeInv'
    BY <2>4, ChangeKeptByStart DEF BeginSettle, IdleCall, rowVars
  <2>5. \A t \in Transitions :
          /\ ~BeginExpire(w, t)
          /\ \A who \in Principals : ~BeginCancel(w, t, who)
    BY DEF NothingDropped, BeginExpire, BeginCancel
  <2> QED BY <1>4, <2>1, <2>2, <2>3, <2>4, <2>5 DEF Request
<1>5. ASSUME NEW w \in Workers, FinishDecision(w)
      PROVE  ChangeInv'
  <2>1. PICK t \in Transitions, s \in {"authorized", "denied"} :
          t = call[w].tx /\ s = call[w].want
    BY <1>5 DEF IInv, TypeOK, Idle, CallInv, FinishDecision
  <2>2. stage' = [stage EXCEPT ![t] = s]
    BY <1>5, <2>1 DEF FinishDecision
  <2>3. stage'[t] = s /\ \A u \in Transitions : u # t => stage'[u] = stage[u]
    BY <2>2 DEF IInv, TypeOK
  <2>4. \A u \in Transitions : ~Reports(w, u)
    BY <1>5 DEF FinishDecision, Reports
  <2> QED BY <1>5, <2>3, <2>4, ChangeKeptByReturn DEF FinishDecision, ChangeInv
<1>6. ASSUME NEW w \in Workers, FinishSettle(w) \/ RecordResult(w)
      PROVE  ChangeInv'
  <2>1. PICK t \in Transitions, s \in {"failed", "execution_uncertain"} :
          t = call[w].tx /\ stage' = [stage EXCEPT ![t] = s]
    BY <1>6 DEF IInv, TypeOK, Idle, CallInv, FinishSettle, RecordResult
  <2>2. stage'[t] = s /\ \A u \in Transitions : u # t => stage'[u] = stage[u]
    BY <2>1 DEF IInv, TypeOK
  <2>3. \A u \in Transitions : u # t => ~Reports(w, u)
    BY <2>1 DEF Reports
  <2> QED BY <1>6, <2>2, <2>3, ChangeKeptByReturn
          DEF FinishSettle, RecordResult, ChangeInv
<1>7. ASSUME NEW w \in Workers, Claim(w)
      PROVE  ChangeInv'
  <2>1. PICK t \in Transitions : t = call[w].tx
    BY <1>7 DEF IInv, TypeOK, Idle, Claim
  <2>2. ~changed[t]
    BY <1>7, <2>1, UnclaimedIsUnchanged DEF Claim, ClaimedStages
  <2>3. stage'[t] = "executing" /\ \A u \in Transitions : u # t => stage'[u] = stage[u]
    BY <1>7, <2>1 DEF IInv, TypeOK, Claim
  <2>4. /\ \A v \in Workers \ {w} : call'[v] = call[v]
        /\ call'[w].at = "invoke" /\ call'[w].via = call[w].via
    <3>1. call[w] \in Calls
      BY DEF IInv, TypeOK
    <3> QED BY <1>7, <3>1 DEF Claim, Goto, IInv, TypeOK, Calls
  <2>5. Undropped(w)'
    BY <1>7, <2>4 DEF Claim, ChangeInv, Undropped
  <2>6. \A u \in Transitions : ~Reports(w, u)
    BY <1>7 DEF Claim, Reports
  <2> QED BY <1>7, <2>2, <2>3, <2>4, <2>5, <2>6, ChangeKept DEF Claim, ChangeInv
<1>8. ASSUME NEW w \in Workers, ClaimRefused(w) \/ RecordRefused(w)
      PROVE  ChangeInv'
  <2>1. \A u \in Transitions : ~(Reports(w, u) /\ stage[u] = "executing")
    BY <1>8 DEF ClaimRefused, RecordRefused, Reports, NothingDropped, IInv, CallInv,
       IsLegalTransition, LegalTransitions
  <2> QED BY <1>8, <2>1, ChangeKeptByReturn
          DEF ClaimRefused, RecordRefused, rowVars, ChangeInv
<1>9. ASSUME NEW w \in Workers, Invoke(w)
      PROVE  ChangeInv'
  <2>1. PICK t \in Transitions : t = call[w].tx
    BY <1>9 DEF IInv, TypeOK, Idle, Invoke
  <2>2. /\ \A v \in Workers \ {w} : call'[v] = call[v]
        /\ call'[w].at \in {"read_head", "record"} /\ call'[w].tx = t
    BY <1>9, <2>1, InvokeCall DEF IInv
  <2>3. call'[w].via = "proxy"
    <3>1. PICK c \in Calls : c = call[w] /\ c.via = "proxy"
      BY <1>9 DEF IInv, TypeOK, Invoke, ChangeInv, Undropped
    <3>2. \/ call' = [call EXCEPT ![w] = [c EXCEPT !.at = "read_head"]]
          \/ \E s \in {"failed", "execution_uncertain"} :
                call' = [call EXCEPT ![w] = [c EXCEPT !.at = "record", !.want = s]]
      BY <1>9, <3>1 DEF Invoke, Goto
    <3>3. \/ call'[w] = [c EXCEPT !.at = "read_head"]
          \/ \E s \in {"failed", "execution_uncertain"} :
                call'[w] = [c EXCEPT !.at = "record", !.want = s]
      BY <3>2 DEF IInv, TypeOK
    <3> QED BY <3>1, <3>3 DEF Calls
  <2>4. /\ stage' = stage /\ runs'[t] = runs[t] + 1 /\ runs[t] \in Nat
        /\ \A u \in Transitions : u # t => runs'[u] = runs[u] /\ changed'[u] = changed[u]
    BY <1>9, <2>1 DEF IInv, TypeOK, Invoke, rowVars
  <2>5. \A v \in Workers : Undropped(v)'
    BY <2>2, <2>3 DEF ChangeInv, Undropped
  <2>6. Reports(w, t)'
    BY <2>2, <2>3 DEF Reports
  <2>7. ASSUME NEW u \in Transitions, u # t, changed[u], stage[u] = "executing"
        PROVE  \E v \in Workers : Reports(v, u)'
    <3>1. PICK v \in Workers : Reports(v, u)
      BY <2>7 DEF ChangeInv
    <3>2. v # w
      BY <2>1, <2>7, <3>1 DEF Reports
    <3> QED BY <2>2, <3>1, <3>2 DEF Reports
  <2> QED BY <2>4, <2>5, <2>6, <2>7 DEF ChangeInv
<1>10. ASSUME NEW w \in Workers, ReadHead(w) \/ CommitBegin(w)
       PROVE  ChangeInv'
  <2>1. /\ \A v \in Workers \ {w} : call'[v] = call[v]
        /\ call'[w].at \in {"commit", "write"}
        /\ call'[w].tx = call[w].tx /\ call'[w].via = call[w].via
    <3>1. PICK c \in Calls : c = call[w]
      BY DEF IInv, TypeOK
    <3>2. \/ \E n : call' = [call EXCEPT ![w] = [c EXCEPT !.at = "commit", !.base = n]]
          \/ \E n : call' = [call EXCEPT ![w] = [c EXCEPT !.at = "write", !.seen = n]]
      BY <1>10, <3>1 DEF ReadHead, CommitBegin
    <3>3. PICK d : call' = [call EXCEPT ![w] = d]
                 /\ \/ \E n : d = [c EXCEPT !.at = "commit", !.base = n]
                    \/ \E n : d = [c EXCEPT !.at = "write", !.seen = n]
      BY <3>2
    <3>4. d.at \in {"commit", "write"} /\ d.tx = c.tx /\ d.via = c.via
      BY <3>1, <3>3 DEF Calls
    <3>5. (\A v \in Workers \ {w} : call'[v] = call[v]) /\ call'[w] = d
      BY <3>3 DEF IInv, TypeOK
    <3> QED BY <3>1, <3>4, <3>5
  <2>2. Undropped(w)' /\ \A t \in Transitions : Reports(w, t) => Reports(w, t)'
    BY <2>1 DEF Undropped, Reports
  <2> QED BY <1>10, <2>1, <2>2, ChangeKeptQuietly DEF ReadHead, CommitBegin, rowVars
<1>11. ASSUME NEW w \in Workers, CommitWrite(w)
       PROVE  ChangeInv'
  <2>1. PICK t \in Transitions : t = call[w].tx
    BY <1>11 DEF IInv, TypeOK, Idle, CommitWrite
  <2>2. stage'[t] = "succeeded" /\ \A u \in Transitions : u # t => stage'[u] = stage[u]
    BY <1>11, <2>1 DEF IInv, TypeOK, CommitWrite
  <2>3. /\ \A v \in Workers \ {w} : call'[v] = call[v]
        /\ call'[w].at \in {"idle", "clear", "record", "raise_flag"}
    BY <1>11, CommitWriteCall DEF IInv
  <2>4. Undropped(w)' /\ \A u \in Transitions : u # t => ~Reports(w, u)
    BY <2>1, <2>3 DEF Undropped, Reports
  <2> QED BY <1>11, <2>2, <2>3, <2>4, ChangeKept DEF CommitWrite, ChangeInv
<1>12. ASSUME NEW w \in Workers, CommitRefused(w)
       PROVE  ChangeInv'
  <2>1. AfterCommitError(w) /\ TypeOK /\ targetVars' = targetVars /\ stage' = stage
    BY <1>12 DEF CommitRefused, IInv, rowVars
  <2>2. /\ \A v \in Workers \ {w} : call'[v] = call[v]
        /\ call'[w].at \in {"record", "raise_flag"} /\ call'[w].tx = call[w].tx
    BY <2>1, AfterCommitErrorCall
  <2>3. call[w].via = "proxy" => call'[w].at = "record" /\ call'[w].via = "proxy"
    <3> SUFFICES ASSUME call[w].via = "proxy"
                 PROVE  call'[w].at = "record" /\ call'[w].via = "proxy"
      OBVIOUS
    <3>1. PICK c \in Calls : c = call[w] /\ c.via = "proxy"
      BY <2>1 DEF TypeOK
    <3>2. call'[w] = [c EXCEPT !.at = "record", !.want = "execution_uncertain"]
      BY <2>1, <3>1 DEF AfterCommitError, TypeOK
    <3> QED BY <3>1, <3>2 DEF Calls
  <2>4. Undropped(w)' /\ \A t \in Transitions : Reports(w, t) => Reports(w, t)'
    BY <2>2, <2>3 DEF Undropped, Reports
  <2> QED BY <2>1, <2>2, <2>4, ChangeKeptQuietly
<1>13. ASSUME NEW w \in Workers, ClearFlag(w) \/ RaiseFlag(w)
       PROVE  ChangeInv'
  <2>1. \A t \in Transitions : ~Reports(w, t)
    BY <1>13 DEF ClearFlag, RaiseFlag, Reports
  <2> QED BY <1>13, <2>1, ChangeKeptByReturn DEF ClearFlag, RaiseFlag, ChangeInv
<1>14. \A w \in Workers : ~Crash(w) /\ ~FinishCancel(w) /\ ~FinishExpire(w)
  BY DEF NothingDropped, Crash, ChangeInv, Undropped, FinishCancel, FinishExpire
<1>15. ASSUME NEW w \in Workers, RecordBegin(w)
       PROVE  ChangeInv'
  <2>1. PICK c \in Calls : c = call[w]
    BY DEF IInv, TypeOK
  <2>2. /\ \A v \in Workers \ {w} : call'[v] = call[v]
        /\ call'[w] = [c EXCEPT !.at = "result"]
    BY <1>15, <2>1 DEF RecordBegin, Goto, IInv, TypeOK
  <2>3. call'[w].at = "result" /\ call'[w].tx = c.tx /\ call'[w].via = c.via
    BY <2>1, <2>2 DEF Calls
  <2>4. Undropped(w)' /\ \A t \in Transitions : Reports(w, t) => Reports(w, t)'
    BY <2>1, <2>3 DEF Undropped, Reports
  <2> QED BY <1>15, <2>2, <2>4, ChangeKeptQuietly DEF RecordBegin, rowVars
<1> QED BY <1>1, <1>2, <1>3, <1>4, <1>5, <1>6, <1>7, <1>8, <1>9, <1>10, <1>11, <1>12,
   <1>13, <1>14, <1>15 DEF Next, Environment, Proceed

\* Without cancellations, expirations, crashes and database errors, and even when the
\* reply to a commit is lost, an action that took effect is in the graph, was reported
\* as a failure or is on the operators' list as soon as nobody works on it
\* (GovernedProxy.execute step 8, record_result, reconcile).
THEOREM ChangesAreNeverForgotten ==
  ASSUME NothingDropped
  PROVE  Spec => []NoChangeForgotten
<1>1. Init => ChangeInv
  BY DEF Init, IdleCall, ChangeInv, Undropped, Reports
<1>2. IInv /\ ChangeInv /\ [Next]_vars => ChangeInv'
  BY ChangeInductive, NothingDropped
<1>3. IInv /\ ChangeInv => NoChangeForgotten
  <2> SUFFICES ASSUME IInv, ChangeInv, NEW t \in Transitions, changed[t],
                      \A w \in Workers : call[w].tx # t
               PROVE  stage[t] \in {"succeeded", "failed"} \/ flag[t]
    BY DEF NoChangeForgotten
  <2>1. stage[t] \in ClaimedStages
    BY UnclaimedIsUnchanged
  <2>2. stage[t] # "executing"
    BY DEF ChangeInv, Reports
  <2> QED BY <2>1, <2>2 DEF ClaimedStages, IInv, RowInv
<1> QED BY <1>1, <1>2, <1>3, InvCorrect, PTL DEF Spec

===============================================================================
