------------------------------ MODULE PolicyMC ------------------------------
(***************************************************************************)
(* The policy engine over lists of policies, and policies as rows under    *)
(* requests, for TLC. A behaviour is one of the one or of the other:       *)
(* "scenario" says which, and the variables of the other stay initial.     *)
(***************************************************************************)
EXTENDS PolicyDecision, PolicyRevalidation

CONSTANTS agent, other, proj, trunk, alice, service, deny, exempt, widen, review, late,
          open, guide, broken

VARIABLE scenario

MCGlob == {<<"*", "postgres.execute">>, <<"*", "db/t">>, <<"db/*", "db/t">>,
           <<"postgres.*", "postgres.execute">>}

\* A policy that matches everything, in force for ever, without exceptions.
Plain(effect, priority) ==
    [effect |-> effect, priority |-> priority, status |-> "active", scope |-> "global",
     project |-> Null, branch |-> Null, agent |-> Null, actions |-> {"*"},
     resources |-> {"*"}, cel |-> Null, requires |-> <<>>, from |-> Null,
     until |-> Null, exceptions |-> {}, justification |-> Null, approvedBy |-> Null,
     version |-> Null]

Exception(to, until, why) ==
    [Plain("allow", 1) EXCEPT !.scope = "agent", !.agent = agent, !.exceptions = to,
        !.until = until, !.justification = why, !.approvedBy = alice]

MCCatalog ==
    [p \in {deny, exempt, widen, review, late, open, guide, broken} |->
        CASE p = deny -> [Plain("deny", 1) EXCEPT !.resources = {"db/*"}]
          [] p = exempt -> Exception({deny}, 2, "migration")
          [] p = widen -> Exception({deny, review}, Null, Null)
          [] p = review -> Plain("require_approval", 3)
          [] p = late -> [Plain("deny", 0) EXCEPT !.from = 1, !.until = 3,
                             !.scope = "branch", !.branch = trunk]
          [] p = open -> [Plain("allow", 5) EXCEPT !.actions = {"postgres.*"}]
          [] p = guide -> [Plain("warn", 5) EXCEPT !.requires = [agent |-> other]]
          [] p = broken -> [Plain("allow", 0) EXCEPT !.cel = "error",
                               !.scope = "project", !.project = proj]]

Request(resources, who) ==
    [action |-> "postgres.execute", resources |-> resources, project |-> proj,
     branch |-> trunk, agent |-> who]

MCQueries ==
    {Request({"db/t"}, agent), Request({"db/t"}, other), Request({}, agent),
     [Request({"db/t"}, agent) EXCEPT !.project = Null]}

\* The rows: an allow that ends, a review of a branch, and the policy of a registered
\* agent, which a proxy does not see. Without a match the answer is deny.
MCPolicies == {open, review, guide}
MCDefinition == [p \in MCPolicies |->
    CASE p = open -> [Plain("allow", 5) EXCEPT !.until = 2]
      [] p = review -> [Plain("require_approval", 3) EXCEPT !.scope = "branch",
                           !.branch = trunk]
      [] p = guide -> [Plain("allow", 4) EXCEPT !.scope = "agent", !.agent = agent]]
MCContent == [r \in {"request"} |-> Request({"db/t"}, agent)]
MCBranchesOf == [p \in {proj} |-> {trunk}]

MCInit == /\ scenario \in {"engine", "rows"}
          /\ ListInit
          /\ Init

MCNext == \/ scenario = "engine" /\ ListNext /\ UNCHANGED <<scenario, vars>>
          \/ scenario = "rows" /\ Next /\ UNCHANGED <<scenario, listed, now>>

MCSpec == MCInit /\ [][MCNext]_<<scenario, vars, listed, now>>

=============================================================================
