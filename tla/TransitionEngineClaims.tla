------------------------- MODULE TransitionEngineClaims -------------------------
(***************************************************************************)
(* What the documentation says of a transition and the engine does not     *)
(* keep.  Each property is checked by a run of its own that finds the      *)
(* shortest behaviour against it; README.md tells the behaviours.          *)
(***************************************************************************)
EXTENDS TransitionEngineMC

\* docs/state-machines.md, 1.3: `executing` to `cancelled` ("Cannot cancel
\* during execution") and to `expired` ("Token already claimed") are illegal.
NoWithdrawalDuringExecution ==
  [][\A t \in Transitions :
        stage[t] = "executing" => stage'[t] \notin {"cancelled", "expired"}]_vars

\* docs/failure-recovery.md, 1.2: "The transition MUST remain in
\* `execution_uncertain` until reconciliation", and is not moved to `failed` or
\* `succeeded` automatically.  The step of a reconciliation is one of an operator's
\* handler, or of the one that settles the transition as failed.
UncertainAwaitsReconciliation ==
  [][\A t \in Transitions :
        stage[t] = "execution_uncertain" /\ stage'[t] # stage[t] =>
           \E w \in Workers :
              /\ call[w].tx = t /\ call'[w] # call[w]
              /\ call[w].via = "operator" \/ call[w].at = "settle"]_vars

===============================================================================
