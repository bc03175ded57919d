------------------------ MODULE TransitionEngineProofs ------------------------
(***************************************************************************)
(* Proofs about TransitionEngine: type correctness, the inductive          *)
(* invariant IInv, and the safety properties that follow from it, for any  *)
(* numbers of transitions, authorizations, branches, principals and        *)
(* handlers, every command and every fault.                                *)
(***************************************************************************)
EXTENDS TransitionEngine, TLAPS

-------------------------------------------------------------------------------
(* Updates of a handler's record *)

\* A well-formed record in place of another keeps call well-formed.
LEMMA CallTyped ==
  ASSUME TypeOK, NEW w \in Workers, NEW c \in Calls,
         c.at # "idle" => c.tx \in Transitions,
         call' = [call EXCEPT ![w] = c]
  PROVE  /\ call' \in [Workers -> Calls]
         /\ \A v \in Workers : ~Idle(v)' => call'[v].tx \in Transitions
BY DEF TypeOK, Idle

\* Goto moves one handler and keeps everything else it knows.
LEMMA GotoTyped ==
  ASSUME TypeOK, NEW w \in Workers, NEW p \in Points, Goto(w, p),
         call[w].tx \in Transitions
  PROVE  /\ call' \in [Workers -> Calls]
         /\ \A v \in Workers : ~Idle(v)' => call'[v].tx \in Transitions
<1>1. call[w] \in Calls
  BY DEF TypeOK
<1>2. [call[w] EXCEPT !.at = p] \in Calls /\ [call[w] EXCEPT !.at = p].tx = call[w].tx
  BY <1>1 DEF Calls
<1>3. call' = [call EXCEPT ![w] = [call[w] EXCEPT !.at = p]]
  BY DEF Goto
<1> QED BY <1>2, <1>3, CallTyped

\* The record of a proxy call that is about to report a result.
LEMMA RecordTyped ==
  ASSUME NEW c \in Calls, NEW s \in {"failed", "execution_uncertain"}
  PROVE  [c EXCEPT !.at = "record", !.want = s] \in Calls
<1>1. "record" \in Points /\ s \in Stages
  BY DEF Points, Stages
<1> QED BY <1>1 DEF Calls

\* After an error of commit() the handler's record is well-formed.
LEMMA AfterCommitErrorTyped ==
  ASSUME TypeOK, NEW w \in Workers, AfterCommitError(w),
         call[w].tx \in Transitions
  PROVE  /\ call' \in [Workers -> Calls]
         /\ \A v \in Workers : ~Idle(v)' => call'[v].tx \in Transitions
<1>0. call[w] \in Calls
  BY DEF TypeOK
<1>1. CASE call[w].via = "proxy"
  <2>1. call' = [call EXCEPT ![w] = [@ EXCEPT !.at = "record",
                                             !.want = "execution_uncertain"]]
    BY <1>1 DEF AfterCommitError
  <2>2. [call[w] EXCEPT !.at = "record", !.want = "execution_uncertain"] \in Calls
    BY <1>0, RecordTyped
  <2> QED BY <1>0, <2>1, <2>2, CallTyped DEF Calls
<1>2. CASE call[w].via # "proxy"
  BY <1>2, GotoTyped DEF AfterCommitError, Points
<1> QED BY <1>1, <1>2

\* After an error of commit() the handler records "uncertain" or raises the
\* flag, for the same transition; no other handler is affected.
LEMMA AfterCommitErrorCall ==
  ASSUME TypeOK, NEW w \in Workers, AfterCommitError(w)
  PROVE  /\ \A v \in Workers \ {w} : call'[v] = call[v]
         /\ call'[w].at \in {"record", "raise_flag"}
         /\ call'[w].at = "record" => call'[w].want = "execution_uncertain"
         /\ call'[w].tx = call[w].tx
<1>0. call[w] \in Calls
  BY DEF TypeOK
<1>1. CASE call[w].via = "proxy"
  <2>1. call' = [call EXCEPT ![w] = [@ EXCEPT !.at = "record",
                                             !.want = "execution_uncertain"]]
    BY <1>1 DEF AfterCommitError
  <2> QED BY <1>0, <2>1 DEF TypeOK, Calls
<1>2. CASE call[w].via # "proxy"
  BY <1>0, <1>2 DEF TypeOK, AfterCommitError, Goto, Calls
<1> QED BY <1>1, <1>2

\* After the adapter returned the handler goes on to the commit or reports a
\* result that is not success; no other handler is affected.
LEMMA InvokeCall ==
  ASSUME TypeOK, NEW w \in Workers, Invoke(w)
  PROVE  /\ \A v \in Workers \ {w} : call'[v] = call[v]
         /\ call'[w].at \in {"read_head", "record"}
         /\ call'[w].at = "record" =>
               call'[w].want \in {"failed", "execution_uncertain"}
         /\ call'[w].tx = call[w].tx
<1>1. call[w] \in Calls
  BY DEF TypeOK
<1>2. CASE Goto(w, "read_head")
  BY <1>1, <1>2 DEF TypeOK, Goto, Calls
<1>3. ASSUME NEW s \in {"failed", "execution_uncertain"},
             call' = [call EXCEPT ![w] = [@ EXCEPT !.at = "record", !.want = s]]
      PROVE  /\ \A v \in Workers \ {w} : call'[v] = call[v]
             /\ call'[w].at = "record" /\ call'[w].want = s
             /\ call'[w].tx = call[w].tx
  BY <1>1, <1>3 DEF TypeOK, Calls
<1> QED BY <1>2, <1>3 DEF Invoke

\* After the committing step the handler has returned, clears the flag, or
\* takes the commit for an error; no other handler is affected.
LEMMA CommitWriteCall ==
  ASSUME TypeOK, NEW w \in Workers, CommitWrite(w)
  PROVE  /\ \A v \in Workers \ {w} : call'[v] = call[v]
         /\ call'[w].at \in {"idle", "clear", "record", "raise_flag"}
         /\ call'[w].at = "record" => call'[w].want = "execution_uncertain"
         /\ call'[w].at # "idle" => call'[w].tx = call[w].tx
<1>1. call[w] \in Calls
  BY DEF TypeOK
<1>2. CASE AfterCommitError(w)
  BY <1>2, AfterCommitErrorCall
<1>3. CASE Return(w)
  BY <1>3 DEF TypeOK, Return, IdleCall
<1>4. CASE Goto(w, "clear")
  BY <1>1, <1>4 DEF TypeOK, Goto, Calls
<1> QED BY <1>2, <1>3, <1>4 DEF CommitWrite

-------------------------------------------------------------------------------
(* Type correctness *)

\* Every step keeps every column and local variable in its domain.
LEMMA TypeInductive == TypeOK /\ [Next]_vars => TypeOK'
<1> SUFFICES ASSUME TypeOK, [Next]_vars PROVE TypeOK'
  OBVIOUS
<1>1. ASSUME NEW t \in Transitions, Propose(t)
      PROVE  TypeOK'
  BY <1>1 DEF TypeOK, Propose, Idle, IsLegalTransition, LegalTransitions,
     ProposalOutcomes, tokenVars, branchVars, targetVars, Stages
<1>2. ASSUME NEW w \in Workers, NEW t \in Transitions, NEW who \in Principals, NEW s \in {"authorized", "denied"}, BeginDecision(w, t, who, s)
      PROVE  TypeOK'
  BY <1>2 DEF TypeOK, BeginDecision, Start, Idle, IdleCall,
     DecisionInProgress, IsLegalTransition, LegalTransitions, rowVars,
     approvalVars, tokenVars, branchVars, proposeVars, targetVars, Calls,
     Points, Stages
<1>3. ASSUME NEW w \in Workers, FinishDecision(w)
      PROVE  TypeOK'
  BY <1>3 DEF TypeOK, FinishDecision, Idle, Return, IdleCall, tokenVars,
     branchVars, proposeVars, targetVars, Calls, Points, Stages
<1>4. ASSUME NEW w \in Workers, NEW t \in Transitions, NEW who \in Principals, BeginCancel(w, t, who)
      PROVE  TypeOK'
  BY <1>4 DEF TypeOK, BeginCancel, Start, Idle, IdleCall, IsLegalTransition,
     LegalTransitions, rowVars, approvalVars, tokenVars, branchVars,
     proposeVars, targetVars, Calls, Points, Stages
<1>5. ASSUME NEW w \in Workers, FinishCancel(w)
      PROVE  TypeOK'
  BY <1>5 DEF TypeOK, FinishCancel, Idle, Return, IdleCall, approvalVars,
     tokenVars, branchVars, proposeVars, targetVars, Calls, Points, Stages
<1>6. ASSUME NEW w \in Workers, NEW t \in Transitions, BeginExpire(w, t)
      PROVE  TypeOK'
  BY <1>6 DEF TypeOK, BeginExpire, Start, Idle, IdleCall, IsLegalTransition,
     LegalTransitions, rowVars, approvalVars, tokenVars, branchVars,
     proposeVars, targetVars, Calls, Points, Stages
<1>7. ASSUME NEW w \in Workers, FinishExpire(w)
      PROVE  TypeOK'
  BY <1>7 DEF TypeOK, FinishExpire, Idle, Return, IdleCall, approvalVars,
     tokenVars, branchVars, proposeVars, targetVars, Calls, Points, Stages
<1>8. ASSUME NEW k \in Tokens, NEW t \in Transitions, IssueAuthorization(k, t)
      PROVE  TypeOK'
  BY <1>8 DEF TypeOK, IssueAuthorization, Idle, rowVars, approvalVars,
     branchVars, proposeVars, targetVars
<1>9. ASSUME NEW k \in Tokens, Lapse(k)
      PROVE  TypeOK'
  BY <1>9 DEF TypeOK, Lapse, Idle, rowVars, approvalVars, branchVars,
     proposeVars, targetVars
<1>10. ASSUME NEW w \in Workers, NEW k \in Tokens, Present(w, k)
      PROVE  TypeOK'
  BY <1>10 DEF TypeOK, Present, Start, Idle, IdleCall, rowVars, approvalVars,
     tokenVars, branchVars, proposeVars, targetVars, Calls, Points
<1>11. ASSUME NEW w \in Workers, Claim(w)
      PROVE  TypeOK'
  <2>1. call[w].tx \in Transitions
    BY <1>11 DEF TypeOK, Claim, Idle
  <2>2. /\ call' \in [Workers -> Calls]
        /\ \A v \in Workers : ~Idle(v)' => call'[v].tx \in Transitions
    BY <1>11, <2>1, GotoTyped DEF Claim, Points
  <2> QED BY <1>11, <2>2 DEF TypeOK, Claim, Stages, approvalVars, branchVars, proposeVars, targetVars
<1>12. ASSUME NEW w \in Workers, ClaimRefused(w)
      PROVE  TypeOK'
  BY <1>12 DEF TypeOK, ClaimRefused, Idle, Return, IdleCall, rowVars,
     approvalVars, tokenVars, branchVars, proposeVars, targetVars, Calls,
     Points, Stages
<1>13. ASSUME NEW w \in Workers, Invoke(w)
      PROVE  TypeOK'
  <2>1. call[w] \in Calls /\ call[w].tx \in Transitions
    BY <1>13 DEF TypeOK, Invoke, Idle
  <2>2. /\ call' \in [Workers -> Calls]
        /\ \A v \in Workers : ~Idle(v)' => call'[v].tx \in Transitions
    <3>1. CASE Goto(w, "read_head")
      BY <2>1, <3>1, GotoTyped DEF Points
    <3>2. ASSUME NEW s \in {"failed", "execution_uncertain"},
                 call' = [call EXCEPT ![w] = [@ EXCEPT !.at = "record", !.want = s]]
          PROVE  /\ call' \in [Workers -> Calls]
                 /\ \A v \in Workers : ~Idle(v)' => call'[v].tx \in Transitions
      <4>1. [call[w] EXCEPT !.at = "record", !.want = s] \in Calls
        BY <2>1, RecordTyped
      <4> QED BY <2>1, <3>2, <4>1, CallTyped DEF Calls
    <3> QED BY <1>13, <3>1, <3>2 DEF Invoke
  <2>3. runs' \in [Transitions -> Nat]
    BY <1>13, <2>1 DEF TypeOK, Invoke
  <2>4. changed' \in [Transitions -> BOOLEAN]
    <3>1. changed' = [changed EXCEPT ![call[w].tx] = TRUE]
          \/ \E done \in BOOLEAN : changed' = [changed EXCEPT ![call[w].tx] = @ \/ done]
      BY <1>13 DEF Invoke
    <3> QED BY <2>1, <3>1 DEF TypeOK
  <2> QED BY <1>13, <2>2, <2>3, <2>4 DEF TypeOK, Invoke, rowVars, tokenVars, approvalVars, branchVars, proposeVars
<1>14. ASSUME NEW w \in Workers, ReadHead(w)
      PROVE  TypeOK'
  <2>1. call[w] \in Calls /\ call[w].tx \in Transitions
    BY <1>14 DEF TypeOK, ReadHead, Idle
  <2>2. PICK n \in Nat : call' = [call EXCEPT ![w] = [@ EXCEPT !.at = "commit", !.base = n]]
    BY <1>14, <2>1, ConstantsAssumption DEF TypeOK, ReadHead
  <2>3. [call[w] EXCEPT !.at = "commit", !.base = n] \in Calls
    BY <2>1 DEF Calls, Points
  <2>4. /\ call' \in [Workers -> Calls]
        /\ \A v \in Workers : ~Idle(v)' => call'[v].tx \in Transitions
    BY <2>1, <2>2, <2>3, CallTyped DEF Calls
  <2> QED BY <1>14, <2>4 DEF TypeOK, ReadHead, rowVars, tokenVars, approvalVars, branchVars, proposeVars, targetVars
<1>15. ASSUME NEW w \in Workers, RecordResult(w)
      PROVE  TypeOK'
  BY <1>15 DEF TypeOK, RecordResult, IsLegalTransition, LegalTransitions, Idle,
     Return, IdleCall, approvalVars, tokenVars, branchVars, proposeVars, targetVars, Calls, Points, Stages
<1>16. ASSUME NEW w \in Workers, RecordRefused(w)
      PROVE  TypeOK'
  BY <1>16 DEF TypeOK, RecordRefused, Idle, Return, IdleCall, rowVars,
     approvalVars, tokenVars, branchVars, proposeVars, targetVars, Calls,
     Points, Stages
<1>17. ASSUME NEW w \in Workers, CommitBegin(w)
      PROVE  TypeOK'
  <2>1. call[w] \in Calls /\ call[w].tx \in Transitions
    BY <1>17 DEF TypeOK, CommitBegin, Idle
  <2>2. PICK s \in Stages : call' = [call EXCEPT ![w] = [@ EXCEPT !.at = "write", !.seen = s]]
    BY <1>17 DEF CommitBegin, Stages
  <2>3. [call[w] EXCEPT !.at = "write", !.seen = s] \in Calls
    BY <2>1 DEF Calls, Points
  <2>4. /\ call' \in [Workers -> Calls]
        /\ \A v \in Workers : ~Idle(v)' => call'[v].tx \in Transitions
    BY <2>1, <2>2, <2>3, CallTyped DEF Calls
  <2> QED BY <1>17, <2>4 DEF TypeOK, CommitBegin, rowVars, tokenVars, approvalVars, branchVars, proposeVars, targetVars
<1>18. ASSUME NEW w \in Workers, CommitWrite(w)
      PROVE  TypeOK'
  <2>1. /\ call[w] \in Calls /\ call[w].tx \in Transitions
        /\ BranchOf[call[w].tx] \in Branches
    BY <1>18, ConstantsAssumption DEF TypeOK, CommitWrite, Idle
  <2>2. /\ call' \in [Workers -> Calls]
        /\ \A v \in Workers : ~Idle(v)' => call'[v].tx \in Transitions
    <3>1. CASE AfterCommitError(w)
      BY <2>1, <3>1, AfterCommitErrorTyped
    <3>2. CASE Return(w)
      BY <3>2 DEF TypeOK, Return, IdleCall, Calls, Points, Idle
    <3>3. CASE Goto(w, "clear")
      BY <2>1, <3>3, GotoTyped DEF Points
    <3> QED BY <1>18, <3>1, <3>2, <3>3 DEF CommitWrite
  <2>3. node' \in [Transitions -> Nodes]
    <3> DEFINE b == BranchOf[call[w].tx]
               made == [status |-> "committed", parent |-> head[b],
                        version |-> call[w].base + 1]
    <3>1. made \in Nodes
      BY <2>1 DEF TypeOK, Calls, Nodes
    <3>2. \A t \in Transitions : [node[t] EXCEPT !.status = "superseded"] \in Nodes
      <4> SUFFICES ASSUME NEW t \in Transitions
                   PROVE  [node[t] EXCEPT !.status = "superseded"] \in Nodes
        OBVIOUS
      <4>1. node[t] \in Nodes
        BY DEF TypeOK
      <4> QED BY <4>1 DEF Nodes
    <3>3. node' = [t \in Transitions |->
                     IF t = call[w].tx THEN made
                     ELSE IF t = head[b] /\ node[t].status = "committed"
                          THEN [node[t] EXCEPT !.status = "superseded"]
                          ELSE node[t]]
      BY <1>18 DEF CommitWrite
    <3> HIDE DEF made
    <3> QED BY <3>1, <3>2, <3>3 DEF TypeOK
  <2> QED BY <1>18, <2>1, <2>2, <2>3 DEF TypeOK, CommitWrite, Stages, approvalVars, tokenVars, proposeVars, targetVars
<1>19. ASSUME NEW w \in Workers, CommitRefused(w)
      PROVE  TypeOK'
  <2>1. /\ call' \in [Workers -> Calls]
        /\ \A v \in Workers : ~Idle(v)' => call'[v].tx \in Transitions
    BY <1>19, AfterCommitErrorTyped DEF TypeOK, CommitRefused, Idle
  <2> QED BY <1>19, <2>1 DEF TypeOK, CommitRefused, rowVars, tokenVars, approvalVars, branchVars, proposeVars, targetVars
<1>20. ASSUME NEW t \in Transitions, MarkUncertain(t)
      PROVE  TypeOK'
  BY <1>20 DEF TypeOK, MarkUncertain, Idle, approvalVars, tokenVars,
     branchVars, proposeVars, targetVars, Stages
<1>21. ASSUME NEW w \in Workers, NEW t \in Transitions, BeginReconcile(w, t)
      PROVE  TypeOK'
  <2>1. PICK e \in Nat :
          call' = [call EXCEPT ![w] = [IdleCall EXCEPT !.at = "commit", !.tx = t,
                                                       !.base = e,
                                                       !.via = "operator"]]
    BY <1>21, ConstantsAssumption DEF TypeOK, BeginReconcile, Start
  <2>2. /\ call' \in [Workers -> Calls]
        /\ \A v \in Workers : ~Idle(v)' => call'[v].tx \in Transitions
    BY <2>1 DEF TypeOK, IdleCall, Calls, Points, Idle
  <2>3. UNCHANGED <<rowVars, approvalVars, tokenVars, branchVars, proposeVars,
                    targetVars>>
    BY <1>21 DEF BeginReconcile
  <2> QED BY <2>2, <2>3 DEF TypeOK, rowVars, tokenVars, approvalVars, branchVars,
                            proposeVars, targetVars
<1>22. ASSUME NEW w \in Workers, ClearFlag(w)
      PROVE  TypeOK'
  BY <1>22 DEF TypeOK, ClearFlag, Idle, Return, IdleCall, approvalVars,
     tokenVars, branchVars, proposeVars, targetVars, Calls, Points, Stages
<1>23. ASSUME NEW w \in Workers, RaiseFlag(w)
      PROVE  TypeOK'
  BY <1>23 DEF TypeOK, RaiseFlag, Idle, Return, IdleCall, approvalVars,
     tokenVars, branchVars, proposeVars, targetVars, Calls, Points, Stages
<1>24. ASSUME NEW w \in Workers, NEW t \in Transitions, BeginSettle(w, t)
      PROVE  TypeOK'
  BY <1>24 DEF TypeOK, BeginSettle, Start, Idle, IdleCall, IsLegalTransition,
     LegalTransitions, rowVars, approvalVars, tokenVars, branchVars,
     proposeVars, targetVars, Calls, Points, Stages
<1>25. ASSUME NEW w \in Workers, FinishSettle(w)
      PROVE  TypeOK'
  BY <1>25 DEF TypeOK, FinishSettle, Idle, Return, IdleCall, approvalVars,
     tokenVars, branchVars, proposeVars, targetVars, Calls, Points, Stages
<1>26. ASSUME NEW w \in Workers, Crash(w)
      PROVE  TypeOK'
  BY <1>26 DEF TypeOK, Crash, Return, Idle, IdleCall, rowVars, approvalVars,
     tokenVars, branchVars, proposeVars, targetVars, Calls, Points, Stages
<1>27. CASE UNCHANGED vars
  BY <1>27 DEF TypeOK, vars, Idle, rowVars, approvalVars, tokenVars,
     branchVars, proposeVars, targetVars
<1>28. ASSUME NEW w \in Workers, RecordBegin(w)
      PROVE  TypeOK'
  <2>1. call[w].tx \in Transitions
    BY <1>28 DEF TypeOK, RecordBegin, Idle
  <2>2. /\ call' \in [Workers -> Calls]
        /\ \A v \in Workers : ~Idle(v)' => call'[v].tx \in Transitions
    BY <1>28, <2>1, GotoTyped DEF RecordBegin, Points
  <2> QED BY <1>28, <2>2 DEF TypeOK, RecordBegin, rowVars, approvalVars, tokenVars,
                             branchVars, proposeVars, targetVars
<1> QED BY <1>1, <1>2, <1>3, <1>4, <1>5, <1>6, <1>7, <1>8, <1>9, <1>10, <1>11,
   <1>12, <1>13, <1>14, <1>15, <1>16, <1>17, <1>18, <1>19, <1>20, <1>21,
   <1>22, <1>23, <1>24, <1>25, <1>26, <1>27, <1>28 DEF Next, Environment,
   Request, Proceed

\* The initial state is well-typed.
LEMMA InitTyped == Init => TypeOK
BY ConstantsAssumption DEF Init, TypeOK, Nodes, NoNode, Calls, Points, IdleCall, Idle

\* Every column and local variable of every handler stays in its domain, and a
\* running handler always works on an existing transition.
THEOREM TypeCorrect == Spec => []TypeOK
BY InitTyped, TypeInductive, PTL DEF Spec

-------------------------------------------------------------------------------
(* The inductive invariant *)

\* The initial state satisfies the invariant: nothing is proposed, no handler
\* is in progress and no authorization is issued.
LEMMA InvInit == Init => IInv
<1> SUFFICES ASSUME Init PROVE IInv
  OBVIOUS
<1>1. TypeOK
  BY InitTyped
<1>2. \A u : ~Claimed(u)
  BY DEF Init, Claimed
<1>3. \A w \in Workers : call[w] = IdleCall
  BY DEF Init
<1>4. \A w \in Workers : CallInv(w)
  BY <1>3 DEF IdleCall, CallInv, AfterClaim
<1>5. \A v, w \in Workers : Exclusive(v, w)
  BY <1>3 DEF IdleCall, Exclusive
<1>6. \A t \in Transitions : RowInv(t)
  BY <1>2 DEF Init, RowInv, ClaimedStages
<1> QED BY <1>1, <1>4, <1>5, <1>6 DEF IInv

\* Every step preserves the invariant.  The cases that matter are Claim, which
\* needs that an authorized transition was never claimed, FinishDecision, which
\* needs that a pending request excludes a claim and another decision, and
\* CommitWrite, which needs that a node ends all uncertainty.
LEMMA InvInductive == IInv /\ [Next]_vars => IInv'
<1> SUFFICES ASSUME IInv, [Next]_vars PROVE IInv'
  OBVIOUS
<1>0. TypeOK'
  BY TypeInductive DEF IInv
<1>1. ASSUME NEW t \in Transitions, Propose(t)
      PROVE  IInv'
  <2>1. \A u : Claimed(u)' <=> Claimed(u)
    BY <1>1 DEF Claimed, Propose, tokenVars
  <2>2. ASSUME NEW v \in Workers PROVE CallInv(v)'
    BY <1>1, <2>1 DEF IInv, TypeOK, CallInv, Exclusive, RowInv, AfterClaim,
       Calls, Idle, Propose, IsLegalTransition, LegalTransitions, tokenVars,
       branchVars, targetVars
  <2>3. ASSUME NEW u \in Workers, NEW v \in Workers PROVE Exclusive(u, v)'
    BY <1>1 DEF IInv, TypeOK, Exclusive, CallInv, Calls, Propose,
       IsLegalTransition, LegalTransitions
  <2>4. ASSUME NEW u \in Transitions PROVE RowInv(u)'
    BY <1>1, <2>1 DEF IInv, TypeOK, CallInv, RowInv, Granted, ClaimedStages,
       AfterClaim, Propose, IsLegalTransition, LegalTransitions,
       ProposalOutcomes, tokenVars, branchVars, targetVars
  <2> QED BY <1>0, <2>2, <2>3, <2>4 DEF IInv
<1>2. ASSUME NEW w \in Workers, NEW t \in Transitions, NEW who \in Principals, NEW s \in {"authorized", "denied"}, BeginDecision(w, t, who, s)
      PROVE  IInv'
  <2>1. \A u : Claimed(u)' <=> Claimed(u)
    BY <1>2 DEF Claimed, BeginDecision, tokenVars
  <2>2. ASSUME NEW v \in Workers PROVE CallInv(v)'
    BY <1>2, <2>1 DEF IInv, TypeOK, CallInv, Exclusive, RowInv, AfterClaim,
       Calls, Idle, BeginDecision, Start, IdleCall, DecisionInProgress,
       IsLegalTransition, LegalTransitions, rowVars, approvalVars, tokenVars,
       branchVars, proposeVars, targetVars
  <2>3. ASSUME NEW u \in Workers, NEW v \in Workers PROVE Exclusive(u, v)'
    BY <1>2 DEF IInv, TypeOK, Exclusive, CallInv, Calls, BeginDecision, Start,
       Idle, IdleCall, DecisionInProgress, IsLegalTransition, LegalTransitions
  <2>4. ASSUME NEW u \in Transitions PROVE RowInv(u)'
    BY <1>2, <2>1 DEF IInv, TypeOK, CallInv, RowInv, Granted, ClaimedStages,
       AfterClaim, BeginDecision, Idle, DecisionInProgress, IsLegalTransition,
       LegalTransitions, rowVars, approvalVars, tokenVars, branchVars,
       proposeVars, targetVars
  <2> QED BY <1>0, <2>2, <2>3, <2>4 DEF IInv
<1>3. ASSUME NEW w \in Workers, FinishDecision(w)
      PROVE  IInv'
  <2>1. \A u : Claimed(u)' <=> Claimed(u)
    BY <1>3 DEF Claimed, FinishDecision, tokenVars
  <2>2. ASSUME NEW v \in Workers PROVE CallInv(v)'
    BY <1>3, <2>1 DEF IInv, TypeOK, CallInv, Exclusive, RowInv, AfterClaim,
       Calls, Idle, FinishDecision, Return, IdleCall, tokenVars, branchVars,
       proposeVars, targetVars
  <2>3. ASSUME NEW u \in Workers, NEW v \in Workers PROVE Exclusive(u, v)'
    BY <1>3 DEF IInv, TypeOK, Exclusive, CallInv, Calls, FinishDecision,
       Return, IdleCall
  <2>4. ASSUME NEW u \in Transitions PROVE RowInv(u)'
    BY <1>3, <2>1 DEF IInv, TypeOK, CallInv, RowInv, Granted, ClaimedStages,
       AfterClaim, FinishDecision, tokenVars, branchVars, proposeVars,
       targetVars
  <2> QED BY <1>0, <2>2, <2>3, <2>4 DEF IInv
<1>4. ASSUME NEW w \in Workers, NEW t \in Transitions, NEW who \in Principals, BeginCancel(w, t, who)
      PROVE  IInv'
  <2>1. \A u : Claimed(u)' <=> Claimed(u)
    BY <1>4 DEF Claimed, BeginCancel, tokenVars
  <2>2. ASSUME NEW v \in Workers PROVE CallInv(v)'
    BY <1>4, <2>1 DEF IInv, TypeOK, CallInv, Exclusive, RowInv, AfterClaim,
       Calls, Idle, BeginCancel, Start, IdleCall, IsLegalTransition,
       LegalTransitions, rowVars, approvalVars, tokenVars, branchVars,
       proposeVars, targetVars
  <2>3. ASSUME NEW u \in Workers, NEW v \in Workers PROVE Exclusive(u, v)'
    BY <1>4 DEF IInv, TypeOK, Exclusive, CallInv, Calls, BeginCancel, Start,
       Idle, IdleCall, IsLegalTransition, LegalTransitions
  <2>4. ASSUME NEW u \in Transitions PROVE RowInv(u)'
    BY <1>4, <2>1 DEF IInv, TypeOK, CallInv, RowInv, Granted, ClaimedStages,
       AfterClaim, BeginCancel, Idle, IsLegalTransition, LegalTransitions,
       rowVars, approvalVars, tokenVars, branchVars, proposeVars, targetVars
  <2> QED BY <1>0, <2>2, <2>3, <2>4 DEF IInv
<1>5. ASSUME NEW w \in Workers, FinishCancel(w)
      PROVE  IInv'
  <2>1. \A u : Claimed(u)' <=> Claimed(u)
    BY <1>5 DEF Claimed, FinishCancel, tokenVars
  <2>2. ASSUME NEW v \in Workers PROVE CallInv(v)'
    BY <1>5, <2>1 DEF IInv, TypeOK, CallInv, Exclusive, RowInv, AfterClaim,
       Calls, Idle, FinishCancel, Return, IdleCall, approvalVars, tokenVars,
       branchVars, proposeVars, targetVars
  <2>3. ASSUME NEW u \in Workers, NEW v \in Workers PROVE Exclusive(u, v)'
    BY <1>5 DEF IInv, TypeOK, Exclusive, CallInv, Calls, FinishCancel, Return,
       IdleCall
  <2>4. ASSUME NEW u \in Transitions PROVE RowInv(u)'
    BY <1>5, <2>1 DEF IInv, TypeOK, CallInv, RowInv, Granted, ClaimedStages,
       AfterClaim, FinishCancel, approvalVars, tokenVars, branchVars,
       proposeVars, targetVars
  <2> QED BY <1>0, <2>2, <2>3, <2>4 DEF IInv
<1>6. ASSUME NEW w \in Workers, NEW t \in Transitions, BeginExpire(w, t)
      PROVE  IInv'
  <2>1. \A u : Claimed(u)' <=> Claimed(u)
    BY <1>6 DEF Claimed, BeginExpire, tokenVars
  <2>2. ASSUME NEW v \in Workers PROVE CallInv(v)'
    BY <1>6, <2>1 DEF IInv, TypeOK, CallInv, Exclusive, RowInv, AfterClaim,
       Calls, Idle, BeginExpire, Start, IdleCall, IsLegalTransition,
       LegalTransitions, rowVars, approvalVars, tokenVars, branchVars,
       proposeVars, targetVars
  <2>3. ASSUME NEW u \in Workers, NEW v \in Workers PROVE Exclusive(u, v)'
    BY <1>6 DEF IInv, TypeOK, Exclusive, CallInv, Calls, BeginExpire, Start,
       Idle, IdleCall, IsLegalTransition, LegalTransitions
  <2>4. ASSUME NEW u \in Transitions PROVE RowInv(u)'
    BY <1>6, <2>1 DEF IInv, TypeOK, CallInv, RowInv, Granted, ClaimedStages,
       AfterClaim, BeginExpire, Idle, IsLegalTransition, LegalTransitions,
       rowVars, approvalVars, tokenVars, branchVars, proposeVars, targetVars
  <2> QED BY <1>0, <2>2, <2>3, <2>4 DEF IInv
<1>7. ASSUME NEW w \in Workers, FinishExpire(w)
      PROVE  IInv'
  <2>1. \A u : Claimed(u)' <=> Claimed(u)
    BY <1>7 DEF Claimed, FinishExpire, tokenVars
  <2>2. ASSUME NEW v \in Workers PROVE CallInv(v)'
    BY <1>7, <2>1 DEF IInv, TypeOK, CallInv, Exclusive, RowInv, AfterClaim,
       Calls, Idle, FinishExpire, Return, IdleCall, approvalVars, tokenVars,
       branchVars, proposeVars, targetVars
  <2>3. ASSUME NEW u \in Workers, NEW v \in Workers PROVE Exclusive(u, v)'
    BY <1>7 DEF IInv, TypeOK, Exclusive, CallInv, Calls, FinishExpire, Return,
       IdleCall
  <2>4. ASSUME NEW u \in Transitions PROVE RowInv(u)'
    BY <1>7, <2>1 DEF IInv, TypeOK, CallInv, RowInv, Granted, ClaimedStages,
       AfterClaim, FinishExpire, approvalVars, tokenVars, branchVars,
       proposeVars, targetVars
  <2> QED BY <1>0, <2>2, <2>3, <2>4 DEF IInv
<1>8. ASSUME NEW k \in Tokens, NEW t \in Transitions, IssueAuthorization(k, t)
      PROVE  IInv'
  <2>1. \A u : Claimed(u)' <=> Claimed(u)
    BY <1>8 DEF IInv, TypeOK, Claimed, IssueAuthorization
  <2>2. ASSUME NEW v \in Workers PROVE CallInv(v)'
    BY <1>8, <2>1 DEF IInv, TypeOK, CallInv, Exclusive, RowInv, AfterClaim,
       Calls, Idle, IssueAuthorization, rowVars, approvalVars, branchVars,
       proposeVars, targetVars
  <2>3. ASSUME NEW u \in Workers, NEW v \in Workers PROVE Exclusive(u, v)'
    BY <1>8 DEF IInv, TypeOK, Exclusive, CallInv, Calls, IssueAuthorization
  <2>4. ASSUME NEW u \in Transitions PROVE RowInv(u)'
    BY <1>8, <2>1 DEF IInv, TypeOK, CallInv, RowInv, Granted, ClaimedStages,
       AfterClaim, IssueAuthorization, rowVars, approvalVars, branchVars,
       proposeVars, targetVars
  <2> QED BY <1>0, <2>2, <2>3, <2>4 DEF IInv
<1>9. ASSUME NEW k \in Tokens, Lapse(k)
      PROVE  IInv'
  <2>1. \A u : Claimed(u)' <=> Claimed(u)
    BY <1>9 DEF IInv, TypeOK, Claimed, Lapse
  <2>2. ASSUME NEW v \in Workers PROVE CallInv(v)'
    BY <1>9, <2>1 DEF IInv, TypeOK, CallInv, Exclusive, RowInv, AfterClaim,
       Calls, Idle, Lapse, rowVars, approvalVars, branchVars, proposeVars,
       targetVars
  <2>3. ASSUME NEW u \in Workers, NEW v \in Workers PROVE Exclusive(u, v)'
    BY <1>9 DEF IInv, TypeOK, Exclusive, CallInv, Calls, Lapse
  <2>4. ASSUME NEW u \in Transitions PROVE RowInv(u)'
    BY <1>9, <2>1 DEF IInv, TypeOK, CallInv, RowInv, Granted, ClaimedStages,
       AfterClaim, Lapse, rowVars, approvalVars, branchVars, proposeVars,
       targetVars
  <2> QED BY <1>0, <2>2, <2>3, <2>4 DEF IInv
<1>10. ASSUME NEW w \in Workers, NEW k \in Tokens, Present(w, k)
      PROVE  IInv'
  <2>1. \A u : Claimed(u)' <=> Claimed(u)
    BY <1>10 DEF Claimed, Present, tokenVars
  <2>2. ASSUME NEW v \in Workers PROVE CallInv(v)'
    BY <1>10, <2>1 DEF IInv, TypeOK, CallInv, Exclusive, RowInv, AfterClaim,
       Calls, Idle, Present, Start, IdleCall, rowVars, approvalVars,
       tokenVars, branchVars, proposeVars, targetVars
  <2>3. ASSUME NEW u \in Workers, NEW v \in Workers PROVE Exclusive(u, v)'
    BY <1>10 DEF IInv, TypeOK, Exclusive, CallInv, Calls, Present, Start,
       Idle, IdleCall
  <2>4. ASSUME NEW u \in Transitions PROVE RowInv(u)'
    BY <1>10, <2>1 DEF IInv, TypeOK, CallInv, RowInv, Granted, ClaimedStages,
       AfterClaim, Present, Idle, rowVars, approvalVars, tokenVars,
       branchVars, proposeVars, targetVars
  <2> QED BY <1>0, <2>2, <2>3, <2>4 DEF IInv
<1>11. ASSUME NEW w \in Workers, Claim(w)
      PROVE  IInv'
  <2>1. PICK t \in Transitions : t = call[w].tx /\ stage[t] = "authorized"
    BY <1>11 DEF IInv, TypeOK, Idle, Claim
  <2>2. PICK k \in Tokens : k = call[w].token /\ tokenOf[k] = t
    BY <1>11, <2>1 DEF IInv, CallInv, Claim
  \* From here on t is claimed, and it was not before.
  <2>3. /\ Claimed(t)'
        /\ \A u \in Transitions : Claimed(u) => Claimed(u)'
        /\ \A u \in Transitions \ {t} : Claimed(u)' => Claimed(u)
    <3>1. tokenOf' = tokenOf /\ tokenState' = [tokenState EXCEPT ![k] = "used"]
      BY <1>11, <2>2 DEF Claim
    <3> QED BY <2>2, <3>1 DEF IInv, TypeOK, Claimed
  <2>4. /\ ~Claimed(t) /\ runs[t] = 0 /\ commits[t] = 0
        /\ Granted(t) /\ approval[t] # "pending"
    BY <2>1 DEF IInv, TypeOK, RowInv, ClaimedStages
  <2>5. /\ \A v \in Workers \ {w} : call'[v] = call[v]
        /\ call'[w].at = "invoke" /\ call'[w].tx = t
    BY <1>11, <2>1 DEF IInv, TypeOK, Calls, Claim, Goto
  <2>6. ASSUME NEW v \in Workers PROVE CallInv(v)'
    <3>1. CASE v = w
      BY <1>11, <2>3, <2>4, <2>5, <3>1 DEF CallInv, Claim, targetVars
    <3>2. CASE v # w
      <4>1. CallInv(v) /\ call'[v] = call[v]
        BY <2>5, <3>2 DEF IInv
      <4>2. call[v].at # "idle" => call[v].tx \in Transitions
        BY DEF IInv, TypeOK, Idle
      <4> QED BY <1>11, <2>3, <4>1, <4>2
              DEF CallInv, Claim, targetVars, approvalVars, branchVars,
                  AfterClaim, IInv, TypeOK
    <3> QED BY <3>1, <3>2
  <2>7. ASSUME NEW u \in Workers, NEW v \in Workers PROVE Exclusive(u, v)'
    <3>1. \A x \in Workers : call[x].at = "invoke" => call[x].tx # t
      BY <2>4 DEF IInv, CallInv, AfterClaim
    <3> QED BY <2>5, <3>1 DEF IInv, Exclusive
  <2>8. ASSUME NEW u \in Transitions PROVE RowInv(u)'
    <3>1. /\ stage' = [stage EXCEPT ![t] = "executing"]
          /\ UNCHANGED <<flag, approval, approver, verdict, runs, commits>>
      BY <1>11, <2>1 DEF Claim, targetVars, approvalVars, branchVars, proposeVars
    <3>2. CASE u = t
      <4>1. stage'[t] = "executing"
        BY <3>1 DEF IInv, TypeOK
      <4>2. /\ Granted(t)' /\ approval'[t] # "pending"
            /\ runs'[t] = 0 /\ commits'[t] = 0
        BY <2>4, <3>1 DEF Granted
      <4> QED BY <2>3, <3>2, <4>1, <4>2 DEF RowInv, ClaimedStages
    <3>3. CASE u # t
      BY <2>3, <3>1, <3>3 DEF IInv, TypeOK, RowInv, Granted
    <3> QED BY <3>2, <3>3
  <2> QED BY <1>0, <2>6, <2>7, <2>8 DEF IInv
<1>12. ASSUME NEW w \in Workers, ClaimRefused(w)
      PROVE  IInv'
  <2>1. \A u : Claimed(u)' <=> Claimed(u)
    BY <1>12 DEF Claimed, ClaimRefused, tokenVars
  <2>2. ASSUME NEW v \in Workers PROVE CallInv(v)'
    BY <1>12, <2>1 DEF IInv, TypeOK, CallInv, Exclusive, RowInv, AfterClaim,
       Calls, Idle, ClaimRefused, Return, IdleCall, rowVars, approvalVars,
       tokenVars, branchVars, proposeVars, targetVars
  <2>3. ASSUME NEW u \in Workers, NEW v \in Workers PROVE Exclusive(u, v)'
    BY <1>12 DEF IInv, TypeOK, Exclusive, CallInv, Calls, ClaimRefused,
       Return, IdleCall
  <2>4. ASSUME NEW u \in Transitions PROVE RowInv(u)'
    BY <1>12, <2>1 DEF IInv, TypeOK, CallInv, RowInv, Granted, ClaimedStages,
       AfterClaim, ClaimRefused, rowVars, approvalVars, tokenVars, branchVars,
       proposeVars, targetVars
  <2> QED BY <1>0, <2>2, <2>3, <2>4 DEF IInv
<1>13. ASSUME NEW w \in Workers, Invoke(w)
      PROVE  IInv'
  <2>1. PICK t \in Transitions : t = call[w].tx
    BY <1>13 DEF IInv, TypeOK, Idle, Invoke
  <2>2. \A u : Claimed(u)' <=> Claimed(u)
    BY <1>13 DEF Claimed, Invoke, tokenVars
  <2>3. runs[t] = 0 /\ Claimed(t)
    BY <1>13, <2>1 DEF IInv, CallInv, AfterClaim, Invoke
  <2>4. /\ \A v \in Workers \ {w} : call'[v] = call[v]
        /\ call'[w].at \in {"read_head", "record"}
        /\ call'[w].at = "record" =>
              call'[w].want \in {"failed", "execution_uncertain"}
        /\ call'[w].tx = t
    BY <1>13, <2>1, InvokeCall DEF IInv
  <2>5. ASSUME NEW v \in Workers PROVE CallInv(v)'
    <3>1. CASE v = w
      BY <2>2, <2>3, <2>4, <3>1 DEF CallInv
    <3>2. CASE v # w
      <4>1. CallInv(v) /\ call'[v] = call[v]
        BY <2>4, <3>2 DEF IInv
      <4>2. call[v].at = "invoke" => call[v].tx # t
        BY <1>13, <2>1, <3>2 DEF IInv, Exclusive, Invoke
      <4> QED BY <1>13, <2>1, <2>2, <4>1, <4>2
              DEF CallInv, Invoke, tokenVars, approvalVars, branchVars, IInv,
                  TypeOK
    <3> QED BY <3>1, <3>2
  <2>6. ASSUME NEW u \in Workers, NEW v \in Workers PROVE Exclusive(u, v)'
    BY <2>4 DEF IInv, Exclusive
  <2>7. ASSUME NEW u \in Transitions PROVE RowInv(u)'
    BY <1>13, <2>1, <2>2, <2>3
       DEF IInv, TypeOK, RowInv, Granted, Invoke, rowVars, approvalVars,
           branchVars, proposeVars
  <2> QED BY <1>0, <2>5, <2>6, <2>7 DEF IInv
<1>14. ASSUME NEW w \in Workers, ReadHead(w)
      PROVE  IInv'
  <2>1. \A u : Claimed(u)' <=> Claimed(u)
    BY <1>14 DEF Claimed, ReadHead, tokenVars
  <2>2. ASSUME NEW v \in Workers PROVE CallInv(v)'
    BY <1>14, <2>1 DEF IInv, TypeOK, CallInv, Exclusive, RowInv, AfterClaim,
       Calls, Idle, ReadHead, rowVars, approvalVars, tokenVars, branchVars,
       proposeVars, targetVars
  <2>3. ASSUME NEW u \in Workers, NEW v \in Workers PROVE Exclusive(u, v)'
    BY <1>14 DEF IInv, TypeOK, Exclusive, CallInv, Calls, ReadHead
  <2>4. ASSUME NEW u \in Transitions PROVE RowInv(u)'
    BY <1>14, <2>1 DEF IInv, TypeOK, CallInv, RowInv, Granted, ClaimedStages,
       AfterClaim, ReadHead, rowVars, approvalVars, tokenVars, branchVars,
       proposeVars, targetVars
  <2> QED BY <1>0, <2>2, <2>3, <2>4 DEF IInv
<1>15. ASSUME NEW w \in Workers, RecordResult(w)
      PROVE  IInv'
  <2>1. PICK t \in Transitions : t = call[w].tx
    BY <1>15 DEF IInv, TypeOK, Idle, RecordResult
  <2>2. \A u : Claimed(u)' <=> Claimed(u)
    BY <1>15 DEF Claimed, RecordResult, tokenVars
  <2>3. /\ Claimed(t) /\ stage[t] \in {"executing", "execution_uncertain"}
        /\ stage' = [stage EXCEPT ![t] = call[w].want]
        /\ call[w].want \in {"failed", "execution_uncertain"}
        /\ flag' = [flag EXCEPT ![t] = @ \/ call[w].want = "execution_uncertain"]
    <3>1. /\ Claimed(t) /\ IsLegalTransition(stage[t], call[w].want)
          /\ stage' = [stage EXCEPT ![t] = call[w].want]
          /\ call[w].want \in {"failed", "execution_uncertain"}
          /\ flag' = [flag EXCEPT ![t] = @ \/ call[w].want = "execution_uncertain"]
      BY <1>15, <2>1 DEF IInv, CallInv, AfterClaim, RecordResult
    <3> QED BY <3>1 DEF IsLegalTransition, LegalTransitions
  <2>4. /\ \A v \in Workers \ {w} : call'[v] = call[v]
        /\ call'[w].at = "idle"
    BY <1>15 DEF IInv, TypeOK, RecordResult, Return, IdleCall
  <2>5. ASSUME NEW v \in Workers PROVE CallInv(v)'
    <3>1. CASE v = w
      BY <2>4, <3>1 DEF CallInv, AfterClaim
    <3>2. CASE v # w
      BY <1>15, <2>2, <2>4, <3>2
         DEF IInv, CallInv, RecordResult, tokenVars, approvalVars, targetVars, branchVars
    <3> QED BY <3>1, <3>2
  <2>6. ASSUME NEW u \in Workers, NEW v \in Workers PROVE Exclusive(u, v)'
    BY <2>4 DEF IInv, Exclusive
  <2>7. ASSUME NEW u \in Transitions PROVE RowInv(u)'
    <3>1. UNCHANGED <<approval, approver, verdict, runs, commits>>
      BY <1>15 DEF RecordResult, targetVars, approvalVars, branchVars, proposeVars
    <3>2. CASE u = t
      <4>1. stage'[t] = call[w].want
        BY <2>3 DEF IInv, TypeOK
      <4>2. flag'[t] = (flag[t] \/ call[w].want = "execution_uncertain")
        BY <2>3 DEF IInv, TypeOK
      <4>3. RowInv(t)
        BY DEF IInv
      <4> QED BY <2>2, <2>3, <3>1, <3>2, <4>1, <4>2, <4>3
              DEF RowInv, Granted, ClaimedStages, IInv, TypeOK
    <3>3. CASE u # t
      BY <2>2, <2>3, <3>1, <3>3 DEF IInv, TypeOK, RowInv, Granted
    <3> QED BY <3>2, <3>3
  <2> QED BY <1>0, <2>5, <2>6, <2>7 DEF IInv
<1>16. ASSUME NEW w \in Workers, RecordRefused(w)
      PROVE  IInv'
  <2>1. \A u : Claimed(u)' <=> Claimed(u)
    BY <1>16 DEF Claimed, RecordRefused, tokenVars
  <2>2. ASSUME NEW v \in Workers PROVE CallInv(v)'
    BY <1>16, <2>1 DEF IInv, TypeOK, CallInv, Exclusive, RowInv, AfterClaim,
       Calls, Idle, RecordRefused, Return, IdleCall, rowVars, approvalVars,
       tokenVars, branchVars, proposeVars, targetVars
  <2>3. ASSUME NEW u \in Workers, NEW v \in Workers PROVE Exclusive(u, v)'
    BY <1>16 DEF IInv, TypeOK, Exclusive, CallInv, Calls, RecordRefused,
       Return, IdleCall
  <2>4. ASSUME NEW u \in Transitions PROVE RowInv(u)'
    BY <1>16, <2>1 DEF IInv, TypeOK, CallInv, RowInv, Granted, ClaimedStages,
       AfterClaim, RecordRefused, rowVars, approvalVars, tokenVars,
       branchVars, proposeVars, targetVars
  <2> QED BY <1>0, <2>2, <2>3, <2>4 DEF IInv
<1>17. ASSUME NEW w \in Workers, CommitBegin(w)
      PROVE  IInv'
  <2>1. \A u : Claimed(u)' <=> Claimed(u)
    BY <1>17 DEF Claimed, CommitBegin, tokenVars
  <2>2. ASSUME NEW v \in Workers PROVE CallInv(v)'
    BY <1>17, <2>1 DEF IInv, TypeOK, CallInv, Exclusive, RowInv, AfterClaim,
       Calls, Idle, CommitBegin, rowVars, approvalVars, tokenVars, branchVars,
       proposeVars, targetVars
  <2>3. ASSUME NEW u \in Workers, NEW v \in Workers PROVE Exclusive(u, v)'
    BY <1>17 DEF IInv, TypeOK, Exclusive, CallInv, Calls, CommitBegin
  <2>4. ASSUME NEW u \in Transitions PROVE RowInv(u)'
    BY <1>17, <2>1 DEF IInv, TypeOK, CallInv, RowInv, Granted, ClaimedStages,
       AfterClaim, CommitBegin, rowVars, approvalVars, tokenVars, branchVars,
       proposeVars, targetVars
  <2> QED BY <1>0, <2>2, <2>3, <2>4 DEF IInv
<1>18. ASSUME NEW w \in Workers, CommitWrite(w)
      PROVE  IInv'
  <2>1. PICK t \in Transitions : t = call[w].tx
    BY <1>18 DEF IInv, TypeOK, Idle, CommitWrite
  <2>2. \A u : Claimed(u)' <=> Claimed(u)
    BY <1>18 DEF Claimed, CommitWrite, tokenVars
  <2>3. /\ Claimed(t)
        /\ stage[t] \in {"executing", "execution_uncertain"}
        /\ commits[t] = 0
    <3>1. Claimed(t) /\ stage[t] \in {"executing", "execution_uncertain"}
      BY <1>18, <2>1 DEF IInv, CallInv, AfterClaim, CommitWrite, CanCommit
    <3> QED BY <3>1 DEF IInv, TypeOK, RowInv
  <2>4. /\ \A v \in Workers \ {w} : call'[v] = call[v]
        /\ call'[w].at \in {"idle", "clear", "record", "raise_flag"}
        /\ call'[w].at = "record" => call'[w].want = "execution_uncertain"
        /\ call'[w].at # "idle" => call'[w].tx = t
    BY <1>18, <2>1, CommitWriteCall DEF IInv
  <2>5. ASSUME NEW v \in Workers PROVE CallInv(v)'
    <3>0. commits'[t] = 1
      BY <1>18, <2>1, <2>3 DEF IInv, TypeOK, CommitWrite
    <3>1. CASE v = w
      BY <2>2, <2>3, <2>4, <3>0, <3>1 DEF CallInv, AfterClaim
    <3>2. CASE v # w
      <4>1. CallInv(v) /\ call'[v] = call[v]
        BY <2>4, <3>2 DEF IInv
      <4>2. call[v].at = "clear" => call[v].tx # t
        BY <2>3, <4>1 DEF CallInv
      <4> QED BY <1>18, <2>1, <2>2, <4>1, <4>2
              DEF CallInv, CommitWrite, tokenVars, approvalVars, targetVars,
                  IInv, TypeOK
    <3> QED BY <3>1, <3>2
  <2>6. ASSUME NEW u \in Workers, NEW v \in Workers PROVE Exclusive(u, v)'
    BY <2>4 DEF IInv, Exclusive
  <2>7. ASSUME NEW u \in Transitions PROVE RowInv(u)'
    BY <1>18, <2>1, <2>2, <2>3
       DEF IInv, TypeOK, RowInv, Granted, ClaimedStages, CommitWrite,
           approvalVars, proposeVars, targetVars
  <2> QED BY <1>0, <2>5, <2>6, <2>7 DEF IInv
<1>19. ASSUME NEW w \in Workers, CommitRefused(w)
      PROVE  IInv'
  <2>1. PICK t \in Transitions : t = call[w].tx
    BY <1>19 DEF IInv, TypeOK, Idle, CommitRefused
  <2>2. \A u : Claimed(u)' <=> Claimed(u)
    BY <1>19 DEF Claimed, CommitRefused, tokenVars
  <2>3. Claimed(t)
    BY <1>19, <2>1 DEF IInv, CallInv, AfterClaim, CommitRefused
  <2>4. /\ \A v \in Workers \ {w} : call'[v] = call[v]
        /\ call'[w].at \in {"record", "raise_flag"}
        /\ call'[w].at = "record" => call'[w].want = "execution_uncertain"
        /\ call'[w].tx = t
    BY <1>19, <2>1, AfterCommitErrorCall DEF CommitRefused, IInv
  <2>5. ASSUME NEW v \in Workers PROVE CallInv(v)'
    <3>1. CASE v = w
      BY <2>2, <2>3, <2>4, <3>1 DEF CallInv
    <3>2. CASE v # w
      BY <1>19, <2>2, <2>4, <3>2
         DEF IInv, CallInv, CommitRefused, tokenVars, approvalVars, targetVars, branchVars
    <3> QED BY <3>1, <3>2
  <2>6. ASSUME NEW u \in Workers, NEW v \in Workers PROVE Exclusive(u, v)'
    BY <2>4 DEF IInv, Exclusive
  <2>7. ASSUME NEW u \in Transitions PROVE RowInv(u)'
    BY <1>19, <2>2
       DEF IInv, RowInv, Granted, CommitRefused, rowVars, approvalVars,
           branchVars, proposeVars, targetVars
  <2> QED BY <1>0, <2>5, <2>6, <2>7 DEF IInv
<1>20. ASSUME NEW t \in Transitions, MarkUncertain(t)
      PROVE  IInv'
  <2>1. \A u : Claimed(u)' <=> Claimed(u)
    BY <1>20 DEF Claimed, MarkUncertain, tokenVars
  <2>2. ASSUME NEW v \in Workers PROVE CallInv(v)'
    BY <1>20, <2>1 DEF IInv, TypeOK, CallInv, Exclusive, RowInv, AfterClaim,
       Calls, Idle, MarkUncertain, approvalVars, tokenVars, branchVars,
       proposeVars, targetVars
  <2>3. ASSUME NEW u \in Workers, NEW v \in Workers PROVE Exclusive(u, v)'
    BY <1>20 DEF IInv, TypeOK, Exclusive, CallInv, Calls, MarkUncertain
  <2>4. ASSUME NEW u \in Transitions PROVE RowInv(u)'
    BY <1>20, <2>1 DEF IInv, TypeOK, CallInv, RowInv, Granted, ClaimedStages,
       AfterClaim, MarkUncertain, approvalVars, tokenVars, branchVars,
       proposeVars, targetVars
  <2> QED BY <1>0, <2>2, <2>3, <2>4 DEF IInv
<1>21. ASSUME NEW w \in Workers, NEW t \in Transitions, BeginReconcile(w, t)
      PROVE  IInv'
  <2>2. \A u : Claimed(u)' <=> Claimed(u)
    BY <1>21 DEF Claimed, BeginReconcile, tokenVars
  <2>3. Claimed(t)
    BY <1>21 DEF IInv, RowInv, ClaimedStages, BeginReconcile
  <2>4. /\ \A v \in Workers \ {w} : call'[v] = call[v]
        /\ call'[w].at = "commit" /\ call'[w].tx = t
    BY <1>21 DEF IInv, TypeOK, Calls, BeginReconcile, Start, IdleCall
  <2>5. ASSUME NEW v \in Workers PROVE CallInv(v)'
    <3>1. CASE v = w
      BY <2>2, <2>3, <2>4, <3>1 DEF CallInv
    <3>2. CASE v # w
      BY <1>21, <2>2, <2>4, <3>2
         DEF IInv, CallInv, BeginReconcile, tokenVars, approvalVars, targetVars, branchVars
    <3> QED BY <3>1, <3>2
  <2>6. ASSUME NEW u \in Workers, NEW v \in Workers PROVE Exclusive(u, v)'
    BY <2>4 DEF IInv, Exclusive
  <2>7. ASSUME NEW u \in Transitions PROVE RowInv(u)'
    BY <1>21, <2>2
       DEF IInv, RowInv, Granted, BeginReconcile, rowVars, approvalVars, branchVars,
           proposeVars, targetVars
  <2> QED BY <1>0, <2>5, <2>6, <2>7 DEF IInv
<1>22. ASSUME NEW w \in Workers, ClearFlag(w)
      PROVE  IInv'
  <2>1. \A u : Claimed(u)' <=> Claimed(u)
    BY <1>22 DEF Claimed, ClearFlag, tokenVars
  <2>2. ASSUME NEW v \in Workers PROVE CallInv(v)'
    BY <1>22, <2>1 DEF IInv, TypeOK, CallInv, Exclusive, RowInv, AfterClaim,
       Calls, Idle, ClearFlag, Return, IdleCall, approvalVars, tokenVars,
       branchVars, proposeVars, targetVars
  <2>3. ASSUME NEW u \in Workers, NEW v \in Workers PROVE Exclusive(u, v)'
    BY <1>22 DEF IInv, TypeOK, Exclusive, CallInv, Calls, ClearFlag, Return,
       IdleCall
  <2>4. ASSUME NEW u \in Transitions PROVE RowInv(u)'
    BY <1>22, <2>1 DEF IInv, TypeOK, CallInv, RowInv, Granted, ClaimedStages,
       AfterClaim, ClearFlag, approvalVars, tokenVars, branchVars,
       proposeVars, targetVars
  <2> QED BY <1>0, <2>2, <2>3, <2>4 DEF IInv
<1>23. ASSUME NEW w \in Workers, RaiseFlag(w)
      PROVE  IInv'
  <2>1. \A u : Claimed(u)' <=> Claimed(u)
    BY <1>23 DEF Claimed, RaiseFlag, tokenVars
  <2>2. ASSUME NEW v \in Workers PROVE CallInv(v)'
    BY <1>23, <2>1 DEF IInv, TypeOK, CallInv, Exclusive, RowInv, AfterClaim,
       Calls, Idle, RaiseFlag, Return, IdleCall, approvalVars, tokenVars,
       branchVars, proposeVars, targetVars
  <2>3. ASSUME NEW u \in Workers, NEW v \in Workers PROVE Exclusive(u, v)'
    BY <1>23 DEF IInv, TypeOK, Exclusive, CallInv, Calls, RaiseFlag, Return,
       IdleCall
  <2>4. ASSUME NEW u \in Transitions PROVE RowInv(u)'
    BY <1>23, <2>1 DEF IInv, TypeOK, CallInv, RowInv, Granted, ClaimedStages,
       AfterClaim, RaiseFlag, approvalVars, tokenVars, branchVars,
       proposeVars, targetVars
  <2> QED BY <1>0, <2>2, <2>3, <2>4 DEF IInv
<1>24. ASSUME NEW w \in Workers, NEW t \in Transitions, BeginSettle(w, t)
      PROVE  IInv'
  <2>2. \A u : Claimed(u)' <=> Claimed(u)
    BY <1>24 DEF Claimed, BeginSettle, tokenVars
  <2>3. Claimed(t)
    BY <1>24 DEF IInv, RowInv, ClaimedStages, BeginSettle
  <2>4. /\ \A v \in Workers \ {w} : call'[v] = call[v]
        /\ call'[w].at = "settle" /\ call'[w].tx = t
    BY <1>24 DEF IInv, TypeOK, Calls, BeginSettle, Start, IdleCall
  <2>5. ASSUME NEW v \in Workers PROVE CallInv(v)'
    <3>1. CASE v = w
      BY <2>2, <2>3, <2>4, <3>1 DEF CallInv
    <3>2. CASE v # w
      BY <1>24, <2>2, <2>4, <3>2
         DEF IInv, CallInv, BeginSettle, tokenVars, approvalVars, targetVars, branchVars
    <3> QED BY <3>1, <3>2
  <2>6. ASSUME NEW u \in Workers, NEW v \in Workers PROVE Exclusive(u, v)'
    BY <2>4 DEF IInv, Exclusive
  <2>7. ASSUME NEW u \in Transitions PROVE RowInv(u)'
    BY <1>24, <2>2
       DEF IInv, RowInv, Granted, BeginSettle, rowVars, approvalVars, branchVars,
           proposeVars, targetVars
  <2> QED BY <1>0, <2>5, <2>6, <2>7 DEF IInv
<1>25. ASSUME NEW w \in Workers, FinishSettle(w)
      PROVE  IInv'
  <2>1. \A u : Claimed(u)' <=> Claimed(u)
    BY <1>25 DEF Claimed, FinishSettle, tokenVars
  <2>2. ASSUME NEW v \in Workers PROVE CallInv(v)'
    BY <1>25, <2>1 DEF IInv, TypeOK, CallInv, Exclusive, RowInv, AfterClaim,
       Calls, Idle, FinishSettle, Return, IdleCall, approvalVars, tokenVars,
       branchVars, proposeVars, targetVars
  <2>3. ASSUME NEW u \in Workers, NEW v \in Workers PROVE Exclusive(u, v)'
    BY <1>25 DEF IInv, TypeOK, Exclusive, CallInv, Calls, FinishSettle,
       Return, IdleCall
  <2>4. ASSUME NEW u \in Transitions PROVE RowInv(u)'
    BY <1>25, <2>1 DEF IInv, TypeOK, CallInv, RowInv, Granted, ClaimedStages,
       AfterClaim, FinishSettle, approvalVars, tokenVars, branchVars,
       proposeVars, targetVars
  <2> QED BY <1>0, <2>2, <2>3, <2>4 DEF IInv
<1>26. ASSUME NEW w \in Workers, Crash(w)
      PROVE  IInv'
  <2>1. \A u : Claimed(u)' <=> Claimed(u)
    BY <1>26 DEF Claimed, Crash, tokenVars
  <2>2. ASSUME NEW v \in Workers PROVE CallInv(v)'
    BY <1>26, <2>1 DEF IInv, TypeOK, CallInv, Exclusive, RowInv, AfterClaim,
       Calls, Idle, Crash, Return, IdleCall, rowVars, approvalVars, tokenVars,
       branchVars, proposeVars, targetVars
  <2>3. ASSUME NEW u \in Workers, NEW v \in Workers PROVE Exclusive(u, v)'
    BY <1>26 DEF IInv, TypeOK, Exclusive, CallInv, Calls, Crash, Return, Idle,
       IdleCall
  <2>4. ASSUME NEW u \in Transitions PROVE RowInv(u)'
    BY <1>26, <2>1 DEF IInv, TypeOK, CallInv, RowInv, Granted, ClaimedStages,
       AfterClaim, Crash, Idle, rowVars, approvalVars, tokenVars, branchVars,
       proposeVars, targetVars
  <2> QED BY <1>0, <2>2, <2>3, <2>4 DEF IInv
<1>27. CASE UNCHANGED vars
  <2> USE <1>27 DEF vars, rowVars, approvalVars, tokenVars, branchVars, proposeVars,
                targetVars
  <2>1. \A u : Claimed(u)' <=> Claimed(u)
    BY DEF Claimed
  <2>2. ASSUME NEW v \in Workers PROVE CallInv(v)'
    BY <2>1 DEF IInv, CallInv
  <2>3. ASSUME NEW u \in Workers, NEW v \in Workers PROVE Exclusive(u, v)'
    BY DEF IInv, Exclusive
  <2>4. ASSUME NEW u \in Transitions PROVE RowInv(u)'
    BY <2>1 DEF IInv, RowInv, Granted
  <2> QED BY <1>0, <2>2, <2>3, <2>4 DEF IInv
<1>28. ASSUME NEW w \in Workers, RecordBegin(w)
      PROVE  IInv'
  <2>1. \A u : Claimed(u)' <=> Claimed(u)
    BY <1>28 DEF Claimed, RecordBegin, tokenVars
  <2>2. ASSUME NEW v \in Workers PROVE CallInv(v)'
    BY <1>28, <2>1 DEF IInv, TypeOK, CallInv, Exclusive, RowInv, AfterClaim,
       Calls, Idle, RecordBegin, Goto, rowVars, approvalVars, tokenVars,
       branchVars, proposeVars, targetVars
  <2>3. ASSUME NEW u \in Workers, NEW v \in Workers PROVE Exclusive(u, v)'
    BY <1>28 DEF IInv, TypeOK, Exclusive, CallInv, Calls, RecordBegin, Goto
  <2>4. ASSUME NEW u \in Transitions PROVE RowInv(u)'
    BY <1>28, <2>1 DEF IInv, RowInv, Granted, RecordBegin, rowVars,
       approvalVars, branchVars, proposeVars, targetVars
  <2> QED BY <1>0, <2>2, <2>3, <2>4 DEF IInv
<1> QED BY <1>1, <1>2, <1>3, <1>4, <1>5, <1>6, <1>7, <1>8, <1>9, <1>10, <1>11,
   <1>12, <1>13, <1>14, <1>15, <1>16, <1>17, <1>18, <1>19, <1>20, <1>21,
   <1>22, <1>23, <1>24, <1>25, <1>26, <1>27, <1>28 DEF Next, Environment,
   Request, Proceed

\* In every reachable state the invariant holds.
THEOREM InvCorrect == Spec => []IInv
BY InvInit, InvInductive, PTL DEF Spec

-------------------------------------------------------------------------------
(* What follows *)

\* However many authorizations are issued, presented and raced, and whatever
\* approvers and operators write in between, the adapter runs at most once.
THEOREM AdapterRunsAtMostOnce == Spec => []AtMostOneInvocation
<1>1. IInv => AtMostOneInvocation
  BY DEF IInv, RowInv, AtMostOneInvocation
<1> QED BY <1>1, InvCorrect, PTL

\* The adapter only runs for a transition that the policy authorized or that a
\* principal other than its agent approved.
THEOREM AdapterRunsOnlyIfGranted == Spec => []InvokedOnlyIfGranted
<1>1. IInv => InvokedOnlyIfGranted
  BY DEF IInv, RowInv, Granted, InvokedOnlyIfGranted
<1> QED BY <1>1, InvCorrect, PTL

\* Whatever reconciliations race the proxy, a transition makes at most one node,
\* and a succeeded transition has made its node.
THEOREM AtMostOneNode == Spec => []OneNodePerTransition
<1>1. IInv => OneNodePerTransition
  BY DEF IInv, RowInv, OneNodePerTransition
<1> QED BY <1>1, InvCorrect, PTL

\* An uncertain outcome is always flagged for manual reconciliation.
THEOREM UncertainAlwaysFlagged == Spec => []UncertainIsFlagged
<1>1. IInv => UncertainIsFlagged
  BY DEF IInv, RowInv, UncertainIsFlagged
<1> QED BY <1>1, InvCorrect, PTL

\* No two approvers decide one request, and no decision is revised.
THEOREM DecisionsNeverRevised == Spec => DecisionsAreFinal
<1>1. ASSUME IInv, [Next]_vars, NEW t \in Transitions,
             approval[t] \in {"approved", "denied"}
      PROVE  approval'[t] = approval[t] /\ approver'[t] = approver[t]
  <2>1. ASSUME NEW u \in Transitions, Propose(u)
        PROVE  approval'[t] = approval[t] /\ approver'[t] = approver[t]
    BY <1>1, <2>1 DEF IInv, TypeOK, RowInv, Propose
  <2>2. ASSUME NEW w \in Workers, FinishDecision(w)
        PROVE  approval'[t] = approval[t] /\ approver'[t] = approver[t]
    BY <1>1, <2>2 DEF IInv, TypeOK, CallInv, FinishDecision
  <2>3. ASSUME UNCHANGED approvalVars
        PROVE  approval'[t] = approval[t] /\ approver'[t] = approver[t]
    BY <2>3 DEF approvalVars
  <2>4. \/ \E u \in Transitions : Propose(u)
        \/ \E w \in Workers : FinishDecision(w)
        \/ UNCHANGED approvalVars
    <3>1. Environment =>
             \/ \E u \in Transitions : Propose(u)
             \/ UNCHANGED approvalVars
      BY DEF Environment, MarkUncertain, Lapse, IssueAuthorization
    <3>2. \A w \in Workers : Request(w) => UNCHANGED approvalVars
      BY ZenonT(30) DEF Request, Present, BeginDecision, BeginCancel, BeginExpire,
         BeginReconcile, BeginSettle
    <3>3. \A w \in Workers :
             Proceed(w) => FinishDecision(w) \/ UNCHANGED approvalVars
      BY DEF Proceed, FinishCancel, FinishExpire, FinishSettle, Claim,
         ClaimRefused, Invoke, ReadHead, RecordBegin, RecordResult, RecordRefused,
         CommitBegin, CommitWrite, CommitRefused, ClearFlag, RaiseFlag
    <3>4. \A w \in Workers : Crash(w) => UNCHANGED approvalVars
      BY DEF Crash
    <3>5. UNCHANGED vars => UNCHANGED approvalVars
      BY DEF vars
    <3> QED BY <1>1, <3>1, <3>2, <3>3, <3>4, <3>5 DEF Next
  <2> QED BY <2>1, <2>2, <2>3, <2>4
<1>2. IInv /\ [Next]_vars =>
        [\A t \in Transitions :
           approval[t] \in {"approved", "denied"} =>
             approval'[t] = approval[t] /\ approver'[t] = approver[t]]_vars
  BY <1>1
<1> QED BY <1>2, InvCorrect, PTL DEF Spec, DecisionsAreFinal

-------------------------------------------------------------------------------
(* The chain of a branch *)

\* The versions of a branch's nodes are 2..version[b], each once; the head is
\* the node of the last one.  BranchChainIsLinear follows.
ChainInv(b) ==
  /\ version[b] \in Nat \ {0}
  /\ head[b] = None <=> version[b] = 1
  /\ head[b] # None => head[b] \in NodesOf(b)
  /\ \A i \in 2..version[b] : \E t \in NodesOf(b) : node[t].version = i
  /\ \A t \in NodesOf(b) :
       /\ node[t].version \in 2..version[b]
       /\ node[t].version = version[b] <=> t = head[b]
       /\ node[t].status = "committed" <=> t = head[b]
       /\ IF node[t].version = 2
          THEN node[t].parent = None
          ELSE /\ node[t].parent \in NodesOf(b)
               /\ node[node[t].parent].version + 1 = node[t].version
  /\ \A t, u \in NodesOf(b) : node[t].version = node[u].version => t = u

BranchInv ==
  /\ \A b \in Branches : ChainInv(b)
  /\ \A t \in Transitions : commits[t] = 0 => node[t].status = "none"

\* The only step that touches a branch is a commit.
LEMMA BranchSteps ==
  [Next]_vars => (\E w \in Workers : CommitWrite(w)) \/ UNCHANGED branchVars
<1> SUFFICES ASSUME [Next]_vars
             PROVE  (\E w \in Workers : CommitWrite(w)) \/ UNCHANGED branchVars
  OBVIOUS
<1>1. Environment => UNCHANGED branchVars
  BY DEF Environment, Propose, MarkUncertain, Lapse, IssueAuthorization
<1>2. \A w \in Workers : Request(w) => UNCHANGED branchVars
  BY ZenonT(30) DEF Request, Present, BeginDecision, BeginCancel, BeginExpire,
     BeginReconcile, BeginSettle
<1>3. \A w \in Workers : Proceed(w) => CommitWrite(w) \/ UNCHANGED branchVars
  BY DEF Proceed, FinishDecision, FinishCancel, FinishExpire, FinishSettle, Claim,
     ClaimRefused, Invoke, ReadHead, RecordBegin, RecordResult, RecordRefused,
     CommitBegin, CommitRefused, ClearFlag, RaiseFlag
<1>4. \A w \in Workers : Crash(w) => UNCHANGED branchVars
  BY DEF Crash
<1>5. UNCHANGED vars => UNCHANGED branchVars
  BY DEF vars
<1> QED BY <1>1, <1>2, <1>3, <1>4, <1>5 DEF Next

\* What a commit starts from and what it does to the branch, the node it makes
\* and the node it supersedes.
LEMMA CommitEffect ==
  ASSUME IInv, BranchInv, NEW w \in Workers, CommitWrite(w)
  PROVE  \E x \in Transitions, b \in Branches, h \in Transitions \cup {None} :
           /\ b = BranchOf[x] /\ h = head[b] /\ commits[x] = 0
           /\ node[x].status = "none"
           /\ head' = [head EXCEPT ![b] = x]
           /\ version' = [version EXCEPT ![b] = version[b] + 1]
           /\ commits' = [commits EXCEPT ![x] = commits[x] + 1]
           /\ node'[x].status = "committed" /\ node'[x].parent = h
           /\ node'[x].version = version[b] + 1
           /\ h # None /\ h # x =>
                /\ node'[h].status # "committed"
                /\ node'[h].status = "none" <=> node[h].status = "none"
                /\ node'[h].version = node[h].version
                /\ node'[h].parent = node[h].parent
           /\ \A t \in Transitions : t # x /\ t # h => node'[t] = node[t]
<1> DEFINE c == call[w]
<1>1. c.at = "write" /\ CanCommit(w)
  BY DEF CommitWrite
<1>2. c.tx \in Transitions /\ BranchOf[c.tx] \in Branches /\ c.base \in Nat
  BY <1>1, ConstantsAssumption DEF IInv, TypeOK, Idle, Calls
<1>3. PICK x \in Transitions, b \in Branches, h \in Transitions \cup {None} :
         x = c.tx /\ b = BranchOf[x] /\ h = head[b]
  BY <1>2 DEF IInv, TypeOK
<1>4. version[b] = c.base /\ stage[x] \in {"executing", "execution_uncertain"}
  BY <1>1, <1>3 DEF CanCommit, IInv, CallInv
<1>5. commits[x] = 0
  BY <1>4 DEF IInv, RowInv, TypeOK
<1>6. node[x].status = "none"
  BY <1>5 DEF BranchInv
<1>7. /\ head' = [head EXCEPT ![b] = x]
      /\ version' = [version EXCEPT ![b] = version[b] + 1]
      /\ commits' = [commits EXCEPT ![x] = commits[x] + 1]
  BY <1>3 DEF CommitWrite
<1>8. node' = [t \in Transitions |->
                IF t = x
                THEN [status |-> "committed", parent |-> h, version |-> version[b] + 1]
                ELSE IF t = h /\ node[t].status = "committed"
                     THEN [node[t] EXCEPT !.status = "superseded"]
                     ELSE node[t]]
  BY <1>3, <1>4 DEF CommitWrite
<1>9. /\ node'[x].status = "committed" /\ node'[x].parent = h
      /\ node'[x].version = version[b] + 1
  BY <1>8
<1>10. \A t \in Transitions : t # x /\ t # h => node'[t] = node[t]
  BY <1>8
<1>11. ASSUME h # None, h # x
       PROVE  /\ node'[h].status # "committed"
              /\ node'[h].status = "none" <=> node[h].status = "none"
              /\ node'[h].version = node[h].version
              /\ node'[h].parent = node[h].parent
  <2>1. node[h] \in Nodes
    BY <1>11 DEF IInv, TypeOK
  <2>2. CASE node[h].status = "committed"
    <3>1. node'[h] = [node[h] EXCEPT !.status = "superseded"]
      BY <1>8, <1>11, <2>2
    <3> QED BY <2>1, <2>2, <3>1 DEF Nodes
  <2>3. CASE node[h].status # "committed"
    BY <1>8, <1>11, <2>3
  <2> QED BY <2>2, <2>3
<1> QED BY <1>3, <1>5, <1>6, <1>7, <1>9, <1>10, <1>11

\* A commit extends the chain of its branch by its node and leaves the others.
LEMMA BranchInductive ==
  ASSUME IInv, BranchInv, [Next]_vars
  PROVE  BranchInv'
<1>1. CASE UNCHANGED branchVars
  BY <1>1 DEF branchVars, BranchInv, ChainInv, NodesOf
<1>2. ASSUME NEW w \in Workers, CommitWrite(w)
      PROVE  BranchInv'
  <2>1. PICK x \in Transitions, b \in Branches, h \in Transitions \cup {None} :
           /\ b = BranchOf[x] /\ h = head[b] /\ commits[x] = 0
           /\ node[x].status = "none"
           /\ head' = [head EXCEPT ![b] = x]
           /\ version' = [version EXCEPT ![b] = version[b] + 1]
           /\ commits' = [commits EXCEPT ![x] = commits[x] + 1]
           /\ node'[x].status = "committed" /\ node'[x].parent = h
           /\ node'[x].version = version[b] + 1
           /\ h # None /\ h # x =>
                /\ node'[h].status # "committed"
                /\ node'[h].status = "none" <=> node[h].status = "none"
                /\ node'[h].version = node[h].version
                /\ node'[h].parent = node[h].parent
           /\ \A t \in Transitions : t # x /\ t # h => node'[t] = node[t]
    BY <1>2, CommitEffect
  <2>2. ChainInv(b) /\ None \notin Transitions
    BY ConstantsAssumption DEF BranchInv
  <2>3. PICK n \in Nat \ {0} : n = version[b]
    BY <2>2 DEF ChainInv
  <2>4. /\ head'[b] = x /\ version'[b] = n + 1
        /\ \A a \in Branches : a # b => head'[a] = head[a] /\ version'[a] = version[a]
    BY <2>1, <2>3 DEF IInv, TypeOK
  <2>5. h # None => h \in NodesOf(b) /\ h # x
    BY <2>1, <2>2 DEF ChainInv, NodesOf
  <2>6. h # None => /\ node'[h].status # "committed"
                    /\ (node'[h].status = "none") <=> (node[h].status = "none")
                    /\ node'[h].version = node[h].version
                    /\ node'[h].parent = node[h].parent
    BY <2>1, <2>5
  <2>12. ASSUME NEW t \in Transitions, t # x
         PROVE  /\ (node'[t].status = "none") <=> (node[t].status = "none")
                /\ node'[t].version = node[t].version
                /\ node'[t].parent = node[t].parent
                /\ t # h => node'[t].status = node[t].status
    <3>1. CASE t = h
      <4>1. h # None
        BY <2>2, <3>1
      <4> QED BY <2>6, <3>1, <4>1
    <3>2. CASE t # h
      <4>1. node'[t] = node[t]
        BY <2>1, <2>12, <3>2
      <4> QED BY <4>1, <3>2
    <3> QED BY <3>1, <3>2
  <2>7. /\ NodesOf(b)' = NodesOf(b) \cup {x} /\ x \notin NodesOf(b)
        /\ \A a \in Branches : a # b => NodesOf(a)' = NodesOf(a)
    BY <2>1, <2>12 DEF NodesOf
  <2>8. \A t \in Transitions : commits'[t] = 0 => node'[t].status = "none"
    <3>1. ASSUME NEW t \in Transitions, commits'[t] = 0
          PROVE  node'[t].status = "none"
      <4>1. t # x /\ commits[t] = 0
        BY <2>1, <3>1 DEF IInv, TypeOK
      <4> QED BY <2>12, <4>1 DEF BranchInv
    <3> QED BY <3>1
  <2>9. \A t \in NodesOf(b) : t \in Transitions /\ t # x /\ node[t].version \in 2..n
    BY <2>2, <2>3, <2>7 DEF ChainInv, NodesOf
  <2>10. ASSUME NEW a \in Branches, a # b
         PROVE  ChainInv(a)'
    <3>1. ChainInv(a) /\ \A t \in NodesOf(a) : t \in Transitions /\ t # x /\ t # h
      <4>1. ChainInv(a)
        BY DEF BranchInv
      <4>2. ASSUME NEW t \in NodesOf(a)
            PROVE  t \in Transitions /\ BranchOf[t] = a /\ t # x
        BY <2>1, <2>10, <4>2 DEF NodesOf
      <4>3. h # None => BranchOf[h] = b
        BY <2>5 DEF NodesOf
      <4> QED BY <2>2, <2>10, <4>1, <4>2, <4>3
    <3>2. \A t \in NodesOf(a) : /\ node'[t].version = node[t].version
                                /\ node'[t].parent = node[t].parent
                                /\ node'[t].status = node[t].status
      BY <2>12, <3>1
    <3> QED BY <2>4, <2>7, <2>10, <3>1, <3>2 DEF ChainInv
  <2>11. ChainInv(b)'
    <3>1. /\ version'[b] \in Nat \ {0} /\ head'[b] # None /\ version'[b] # 1
          /\ head'[b] \in NodesOf(b)'
      BY <2>2, <2>3, <2>4, <2>7
    <3>2. ASSUME NEW i \in 2..(n + 1)
          PROVE  \E t \in NodesOf(b)' : node'[t].version = i
      <4>1. CASE i = n + 1
        BY <2>1, <2>3, <2>7, <4>1
      <4>2. CASE i \in 2..n
        <5>1. PICK t \in NodesOf(b) : node[t].version = i
          BY <2>2, <2>3, <4>2 DEF ChainInv
        <5> QED BY <2>12, <2>7, <2>9, <5>1
      <4> QED BY <2>3, <4>1, <4>2
    <3>3. ASSUME NEW t \in NodesOf(b)'
          PROVE  /\ node'[t].version \in 2..(n + 1)
                 /\ node'[t].version = n + 1 <=> t = x
                 /\ node'[t].status = "committed" <=> t = x
                 /\ IF node'[t].version = 2
                    THEN node'[t].parent = None
                    ELSE /\ node'[t].parent \in NodesOf(b)'
                         /\ node'[node'[t].parent].version + 1 = node'[t].version
      <4>1. CASE t = x
        <5>1. node'[t].version = n + 1 /\ node'[t].status = "committed" /\ node'[t].parent = h
          BY <2>1, <2>3, <4>1
        <5>2. CASE h = None
          <6>1. n = 1
            BY <2>1, <2>2, <2>3, <5>2 DEF ChainInv
          <6> QED BY <4>1, <5>1, <5>2, <6>1
        <5>3. CASE h # None
          <6>1. h \in NodesOf(b) /\ h # x
            BY <2>5, <5>3
          <6>2. node[h].version = n /\ n # 1
            BY <2>1, <2>2, <2>3, <5>3, <6>1 DEF ChainInv
          <6>3. node'[h].version = n
            BY <2>12, <2>9, <6>1, <6>2
          <6> QED BY <2>3, <2>7, <4>1, <5>1, <6>1, <6>2, <6>3
        <5> QED BY <5>2, <5>3
      <4>2. CASE t \in NodesOf(b)
        <5>1. t # x /\ t \in Transitions /\ node[t].version \in 2..n
          BY <2>9, <4>2
        <5>2. node'[t].version = node[t].version /\ node'[t].parent = node[t].parent
          BY <2>12, <5>1
        <5>3. node'[t].status # "committed"
          <6>1. CASE t = h
            BY <2>2, <2>6, <5>1, <6>1
          <6>2. CASE t # h
            BY <2>1, <2>2, <2>12, <4>2, <5>1, <6>2 DEF ChainInv
          <6> QED BY <6>1, <6>2
        <5>4. node[t].version # 2 => /\ node[t].parent \in NodesOf(b)
                                     /\ node[node[t].parent].version + 1 = node[t].version
          BY <2>2, <4>2 DEF ChainInv
        <5>5. node[t].version = 2 => node[t].parent = None
          BY <2>2, <4>2 DEF ChainInv
        <5>6. ASSUME node[t].version # 2
              PROVE  node'[node[t].parent].version = node[node[t].parent].version
          BY <2>12, <2>9, <5>4, <5>6
        <5>7. node'[t].version \in 2..(n + 1) /\ node'[t].version # n + 1
          BY <2>3, <5>1, <5>2
        <5> QED BY <2>7, <5>1, <5>2, <5>3, <5>4, <5>5, <5>6, <5>7
      <4> QED BY <2>7, <4>1, <4>2
    <3>4. ASSUME NEW t \in NodesOf(b)', NEW u \in NodesOf(b)',
                 node'[t].version = node'[u].version
          PROVE  t = u
      <4>1. CASE t = x \/ u = x
        BY <3>3, <3>4, <4>1
      <4>2. CASE t # x /\ u # x
        <5>1. /\ t \in NodesOf(b) /\ u \in NodesOf(b)
              /\ node'[t].version = node[t].version /\ node'[u].version = node[u].version
          BY <2>12, <2>7, <2>9, <4>2
        <5> QED BY <2>2, <3>4, <5>1 DEF ChainInv
      <4> QED BY <4>1, <4>2
    <3> QED BY <2>4, <3>1, <3>2, <3>3, <3>4 DEF ChainInv
  <2> QED BY <2>8, <2>10, <2>11 DEF BranchInv
<1> QED BY <1>1, <1>2, BranchSteps

\* The nodes of a branch form one chain that ends in its head, whichever handlers race
\* for it and whatever fails (update_head, mark_superseded).
THEOREM BranchesAreLinear == Spec => []BranchChainIsLinear
<1>1. Init => BranchInv
  BY ConstantsAssumption DEF Init, BranchInv, ChainInv, NodesOf, NoNode
<1>2. ASSUME BranchInv
      PROVE  BranchChainIsLinear
  <2>1. ASSUME NEW b \in Branches
        PROVE  /\ { node[t].version : t \in NodesOf(b) } = 2..version[b]
               /\ head[b] = None <=> NodesOf(b) = {}
    <3>1. ChainInv(b)
      BY <1>2 DEF BranchInv
    <3>2. { node[t].version : t \in NodesOf(b) } \subseteq 2..version[b]
      BY <3>1 DEF ChainInv
    <3>3. 2..version[b] \subseteq { node[t].version : t \in NodesOf(b) }
      BY <3>1 DEF ChainInv
    <3>4. head[b] = None => NodesOf(b) = {}
      <4>1. ASSUME version[b] = 1, NEW t \in NodesOf(b)
            PROVE  FALSE
        <5>1. node[t].version \in 2..1
          BY <3>1, <4>1 DEF ChainInv
        <5> QED BY <5>1
      <4> QED BY <3>1, <4>1 DEF ChainInv
    <3> QED BY <3>1, <3>2, <3>3, <3>4 DEF ChainInv
  <2> QED BY <1>2, <2>1 DEF BranchInv, ChainInv, BranchChainIsLinear
<1> QED BY <1>1, <1>2, BranchInductive, InvCorrect, PTL DEF Spec

-------------------------------------------------------------------------------
(* The expectation of a proposal *)

\* A proxy that is about to commit carries the expectation it was given.
Carries(w) ==
  call[w].at \in {"commit", "write"} /\ call[w].via = "proxy" /\ expected[call[w].tx] # 0
     => call[w].base = expected[call[w].tx]

\* Whether worker w moves elsewhere, or nowhere.
Elsewhere(w) == call'[w] = call[w] \/ call'[w].at \notin {"commit", "write"}

\* A handler comes to a commit by reading the head, as an operator, or from the check of
\* the stage.
LEMMA WaysToCommit ==
  ASSUME IInv, [Next]_vars, NEW w \in Workers
  PROVE  \/ Elsewhere(w)
         \/ ReadHead(w) \/ CommitBegin(w)
         \/ \E t \in Transitions : BeginReconcile(w, t)
<1> USE DEF IInv, TypeOK, Elsewhere
<1>1. CASE UNCHANGED call
  BY <1>1
<1>2. ASSUME Environment
      PROVE  Elsewhere(w)
  BY <1>2 DEF Environment, Propose, MarkUncertain, Lapse, IssueAuthorization
<1>3. ASSUME NEW v \in Workers, Request(v)
      PROVE  Elsewhere(w) \/ \E t \in Transitions : BeginReconcile(w, t)
  <2>1. CASE v # w
    BY <1>3, <2>1, ZenonT(30) DEF Request, Present, BeginDecision, BeginCancel, BeginExpire,
       BeginReconcile, BeginSettle, Start
  <2>2. CASE v = w
    <3>1. ASSUME NEW k \in Tokens, Present(w, k)
          PROVE  Elsewhere(w)
      BY <3>1 DEF Present, Start, IdleCall
    <3>2. ASSUME NEW t \in Transitions, NEW who \in Principals,
                 NEW s \in {"authorized", "denied"}, BeginDecision(w, t, who, s)
          PROVE  Elsewhere(w)
      BY <3>2 DEF BeginDecision, Start, IdleCall
    <3>3. ASSUME NEW t \in Transitions, NEW who \in Principals, BeginCancel(w, t, who)
          PROVE  Elsewhere(w)
      BY <3>3 DEF BeginCancel, Start, IdleCall
    <3>4. ASSUME NEW t \in Transitions, BeginExpire(w, t)
          PROVE  Elsewhere(w)
      BY <3>4 DEF BeginExpire, Start, IdleCall
    <3>5. ASSUME NEW t \in Transitions, BeginSettle(w, t)
          PROVE  Elsewhere(w)
      BY <3>5 DEF BeginSettle, Start, IdleCall
    <3> HIDE DEF Elsewhere
    <3> QED BY <1>3, <2>2, <3>1, <3>2, <3>3, <3>4, <3>5 DEF Request
  <2> QED BY <2>1, <2>2
<1>4. ASSUME NEW v \in Workers, Proceed(v)
      PROVE  Elsewhere(w) \/ ReadHead(w) \/ CommitBegin(w)
  <2>1. CASE v # w
    <3> DEFINE Its == \E r : call' = [call EXCEPT ![v] = r]
    <3>1. \A p : Goto(v, p) => Its
      BY DEF Goto
    <3>2. Return(v) => Its
      BY DEF Return
    <3>3. AfterCommitError(v) => Its
      BY <3>1 DEF AfterCommitError
    <3>4. Invoke(v) \/ ReadHead(v) \/ CommitBegin(v) => Its
      BY <3>1 DEF Invoke, ReadHead, CommitBegin
    <3>5. Its => Elsewhere(w)
      BY <2>1
    <3> HIDE DEF Its, Elsewhere, IInv, TypeOK
    <3>6. Claim(v) \/ RecordBegin(v) \/ CommitWrite(v) \/ CommitRefused(v) => Its
      BY <3>1, <3>2, <3>3 DEF Claim, RecordBegin, CommitWrite, CommitRefused
    <3> QED BY <1>4, <3>2, <3>4, <3>5, <3>6 DEF Proceed, FinishDecision, FinishCancel,
       FinishExpire, FinishSettle, ClaimRefused, RecordResult, RecordRefused, ClearFlag,
       RaiseFlag
  <2>2. CASE v = w
    <3>1. Return(w) => Elsewhere(w)
      BY DEF Return, IdleCall
    <3>2. ASSUME NEW p \in Points \ {"commit", "write"}, Goto(w, p)
          PROVE  Elsewhere(w)
      BY <3>2 DEF Goto, Calls
    <3>3. ASSUME NEW s \in {"failed", "execution_uncertain"},
                 call' = [call EXCEPT ![w] = [@ EXCEPT !.at = "record", !.want = s]]
          PROVE  Elsewhere(w)
      BY <3>3 DEF Calls
    <3> HIDE DEF Elsewhere, TypeOK, IInv
    <3>4. AfterCommitError(w) => Elsewhere(w)
      BY <3>2, <3>3 DEF AfterCommitError, Points
    <3>5. Claim(w) \/ Invoke(w) \/ RecordBegin(w) => Elsewhere(w)
      BY <3>2, <3>3 DEF Claim, Invoke, RecordBegin, Points
    <3>6. CommitWrite(w) \/ CommitRefused(w) => Elsewhere(w)
      BY <3>1, <3>2, <3>4 DEF CommitWrite, CommitRefused, Points
    <3> QED BY <1>4, <2>2, <3>1, <3>5, <3>6 DEF Proceed, FinishDecision, FinishCancel,
       FinishExpire, FinishSettle, ClaimRefused, RecordResult, RecordRefused,
       ClearFlag, RaiseFlag
  <2> QED BY <2>1, <2>2
<1>5. ASSUME NEW v \in Workers, Crash(v)
      PROVE  Elsewhere(w)
  BY <1>5 DEF Crash, Return, IdleCall
<1> QED BY <1>1, <1>2, <1>3, <1>4, <1>5 DEF Next, vars

\* The expectation of a proposal is never rewritten.
LEMMA ExpectationStays ==
  ASSUME IInv, [Next]_vars, NEW t \in Transitions, stage[t] # "none"
  PROVE  expected'[t] = expected[t]
<1>1. ASSUME NEW u \in Transitions, Propose(u)
      PROVE  expected'[t] = expected[t]
  BY <1>1 DEF IInv, TypeOK, Propose
<1>2. Environment => (\E u \in Transitions : Propose(u)) \/ expected' = expected
  BY DEF Environment, MarkUncertain, Lapse, IssueAuthorization, proposeVars
<1>3. \A w \in Workers : Request(w) => expected' = expected
  BY ZenonT(30) DEF Request, Present, BeginDecision, BeginCancel, BeginExpire,
     BeginReconcile, BeginSettle, proposeVars
<1>4. \A w \in Workers : Proceed(w) => expected' = expected
  BY ZenonT(30) DEF Proceed, FinishDecision, FinishCancel, FinishExpire, FinishSettle, Claim,
     ClaimRefused, Invoke, ReadHead, RecordBegin, RecordResult, RecordRefused,
     CommitBegin, CommitWrite, CommitRefused, ClearFlag, RaiseFlag, proposeVars
<1>5. \A w \in Workers : Crash(w) => expected' = expected
  BY DEF Crash, proposeVars
<1>6. UNCHANGED vars => expected' = expected
  BY DEF vars, proposeVars
<1> QED BY <1>1, <1>2, <1>3, <1>4, <1>5, <1>6 DEF Next

LEMMA CarriesInductive ==
  ASSUME IInv, [Next]_vars, NEW w \in Workers, Carries(w)
  PROVE  Carries(w)'
<1>1. ASSUME call[w].at \in {"read_head", "commit", "write"}
      PROVE  call[w].tx \in Transitions /\ expected'[call[w].tx] = expected[call[w].tx]
  <2>1. call[w].tx \in Transitions
    BY <1>1 DEF IInv, TypeOK, Idle
  <2>2. Claimed(call[w].tx)
    BY <1>1 DEF IInv, CallInv, AfterClaim
  <2>3. stage[call[w].tx] # "none"
    BY <2>1, <2>2 DEF IInv, RowInv, ClaimedStages
  <2> QED BY <2>1, <2>3, ExpectationStays
<1>2. CASE Elsewhere(w)
  BY <1>1, <1>2 DEF Elsewhere, Carries
<1>3. CASE ReadHead(w)
  <2>1. call[w] \in Calls /\ call[w].at = "read_head"
    BY <1>3 DEF IInv, TypeOK, ReadHead
  <2>2. /\ call'[w].tx = call[w].tx /\ call'[w].via = call[w].via
        /\ expected[call[w].tx] # 0 => call'[w].base = expected[call[w].tx]
    BY <1>3, <2>1 DEF IInv, TypeOK, ReadHead, Calls
  <2> QED BY <1>1, <2>1, <2>2 DEF Carries
<1>4. CASE CommitBegin(w)
  <2>1. call[w] \in Calls /\ call[w].at = "commit"
    BY <1>4 DEF IInv, TypeOK, CommitBegin
  <2>2. /\ call'[w].tx = call[w].tx /\ call'[w].via = call[w].via
        /\ call'[w].base = call[w].base
    BY <1>4, <2>1 DEF IInv, TypeOK, CommitBegin, Calls
  <2> QED BY <1>1, <2>1, <2>2 DEF Carries
<1>5. ASSUME NEW t \in Transitions, BeginReconcile(w, t)
      PROVE  Carries(w)'
  BY <1>5 DEF IInv, TypeOK, BeginReconcile, Start, IdleCall, Carries
<1> QED BY <1>2, <1>3, <1>4, <1>5, WaysToCommit

\* The proxy commits a proposal on the version it was proposed on, or not at all,
\* however many commits overtake it (GovernedProxy.execute, step 8).
THEOREM ProxyNeverRebases == Spec => ProxyKeepsExpectation
<1> DEFINE Kept == \A w \in Workers : Carries(w)
           Step == \A w \in Workers :
                      LET t == call[w].tx IN
                      /\ call[w].at = "write"
                      /\ call[w].via = "proxy"
                      /\ expected[t] # 0
                      /\ commits'[t] = commits[t] + 1
                      /\ call'[w].at # "write"
                      => version[BranchOf[t]] = expected[t]
<1>1. Init => Kept
  BY DEF Init, Carries, IdleCall
<1>2. IInv /\ [Next]_vars /\ Kept => Kept'
  BY CarriesInductive
<1>3. ASSUME IInv, [Next]_vars, Kept
      PROVE  Step
  <2> SUFFICES ASSUME NEW w \in Workers,
                      call[w].at = "write", call[w].via = "proxy",
                      expected[call[w].tx] # 0,
                      commits'[call[w].tx] = commits[call[w].tx] + 1,
                      call'[w].at # "write"
               PROVE  version[BranchOf[call[w].tx]] = expected[call[w].tx]
    OBVIOUS
  <2>1. commits[call[w].tx] \in Nat
    BY <1>3 DEF IInv, TypeOK, Idle
  <2>2. PICK v \in Workers : CommitWrite(v)
    BY <1>3, <2>1, BranchSteps DEF branchVars
  <2>3. ASSUME v # w
        PROVE  call'[w] = call[w]
    BY <1>3, <2>2, <2>3 DEF CommitWrite, Return, Goto, AfterCommitError, IInv, TypeOK
  <2>4. CommitWrite(w)
    BY <2>2, <2>3
  <2>5. version[BranchOf[call[w].tx]] = call[w].base
    BY <2>4 DEF CommitWrite, CanCommit
  <2> QED BY <1>3, <2>5 DEF Carries
<1>4. IInv /\ [Next]_vars /\ Kept => [Step]_vars
  BY <1>3
<1> QED BY <1>1, <1>2, <1>4, InvCorrect, PTL DEF Spec, ProxyKeepsExpectation

===============================================================================
