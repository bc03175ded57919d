--------------------------- MODULE TransitionStages ---------------------------
(***************************************************************************)
(* The stage vocabulary of ep_transitions.stage and the relation between   *)
(* stages that every handler consults (transitions.py, module constants).  *)
(* "none" is the absence of a row: the transition has not been proposed.   *)
(***************************************************************************)

Stages == { "proposed", "pending_approval", "authorized", "executing",
            "succeeded", "failed", "execution_uncertain",
            "cancelled", "expired", "denied" }

\* LEGAL_TRANSITIONS: the pairs (from, to) that advance_stage accepts.
LegalTransitions ==
  { <<"proposed", "denied">>,
    <<"proposed", "pending_approval">>,
    <<"proposed", "authorized">>,
    <<"proposed", "cancelled">>,
    <<"pending_approval", "authorized">>,
    <<"pending_approval", "denied">>,
    <<"pending_approval", "expired">>,
    <<"pending_approval", "cancelled">>,
    <<"authorized", "executing">>,
    <<"authorized", "expired">>,
    <<"authorized", "cancelled">>,
    <<"executing", "succeeded">>,
    <<"executing", "failed">>,
    <<"executing", "execution_uncertain">>,
    <<"execution_uncertain", "succeeded">>,
    <<"execution_uncertain", "failed">> }

\* is_legal_transition(from_stage, to_stage)
IsLegalTransition(from, to) == <<from, to>> \in LegalTransitions

\* The stages propose() can leave a new row in: the row is inserted as
\* "proposed" and advanced once before the transaction commits, so no other
\* connection ever reads "proposed".
ProposalOutcomes == { "authorized", "pending_approval", "denied" }

\* Stages a transition can only reach through a claimed authorization.
ClaimedStages == { "executing", "execution_uncertain", "succeeded", "failed" }

===============================================================================
