-------------------------- MODULE TransitionLifecycle --------------------------
(***************************************************************************)
(* What the engine promises about one governed action, without saying how: *)
(*   - its stage only ever moves along a legal transition;                 *)
(*   - the bounded adapter is invoked at most once, and only after the     *)
(*     authorization was claimed;                                          *)
(*   - a graph node is created exactly when the stage becomes "succeeded", *)
(*     in the same step, and never a second time.                          *)
(* TransitionEngine is checked (and proved) to implement this module.      *)
(***************************************************************************)
EXTENDS Naturals, TransitionStages

CONSTANT Transitions

VARIABLES
  stage,   \* ep_transitions.stage
  runs,    \* how often the adapter was invoked for the transition
  commits  \* how many nodes were created for the transition

lifecycleVars == <<stage, runs, commits>>

Init ==
  /\ stage = [t \in Transitions |-> "none"]
  /\ runs = [t \in Transitions |-> 0]
  /\ commits = [t \in Transitions |-> 0]

Propose(t) ==
  /\ stage[t] = "none"
  /\ \E s \in ProposalOutcomes :
        /\ IsLegalTransition("proposed", s)
        /\ stage' = [stage EXCEPT ![t] = s]
  /\ UNCHANGED <<runs, commits>>

\* Every change of stage other than the one that creates the node.
Advance(t) ==
  /\ \E s \in Stages \ {"succeeded"} :
        /\ IsLegalTransition(stage[t], s)
        /\ stage' = [stage EXCEPT ![t] = s]
  /\ UNCHANGED <<runs, commits>>

\* The adapter may still be running after an operator has marked or
\* reconciled the transition, but never before the claim.
Invoke(t) ==
  /\ stage[t] \in ClaimedStages
  /\ runs[t] = 0
  /\ runs' = [runs EXCEPT ![t] = 1]
  /\ UNCHANGED <<stage, commits>>

Realise(t) ==
  /\ IsLegalTransition(stage[t], "succeeded")
  /\ commits[t] = 0
  /\ stage' = [stage EXCEPT ![t] = "succeeded"]
  /\ commits' = [commits EXCEPT ![t] = 1]
  /\ UNCHANGED runs

Next ==
  \E t \in Transitions : Propose(t) \/ Advance(t) \/ Invoke(t) \/ Realise(t)

Spec == Init /\ [][Next]_lifecycleVars

===============================================================================
