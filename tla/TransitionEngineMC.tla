-------------------------- MODULE TransitionEngineMC --------------------------
(***************************************************************************)
(* Small instances of TransitionEngine for TLC: every transition is        *)
(* proposed by one agent on one branch; a second principal is the human    *)
(* who decides and the administrator who withdraws.                        *)
(***************************************************************************)
EXTENDS TransitionEngine, TLC

CONSTANTS agent, human, main

MCPrincipals == {agent, human}
MCBranches == {main}
MCAdmins == {human}
MCAgentOf == [t \in Transitions |-> agent]
MCBranchOf == [t \in Transitions |-> main]

\* Transitions, tokens and workers are interchangeable (safety runs only).
Symmetry ==
  Permutations(Transitions) \cup Permutations(Tokens) \cup Permutations(Workers)

===============================================================================
