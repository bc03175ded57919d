---------------------------- MODULE PolicyEngine ----------------------------
(***************************************************************************)
(* The deterministic policy engine (policy_engine.py, policies.py), as     *)
(* operators.                                                              *)
(*                                                                         *)
(* A collection of policies is a function from policy ids to records:      *)
(*   effect, status, scope, project, branch, agent, priority, from, until, *)
(*   exceptions, justification, approvedBy, version   - the columns        *)
(*   actions, resources                               - sets of patterns   *)
(*   cel: the outcome of its CEL expression ("true", "false", "other" for  *)
(*     a value that is no boolean, "error" for a failure of the compiler   *)
(*     or evaluator), or Null if it has none                               *)
(*   requires: the context values its conditions name, a function          *)
(* A request is a record of an action, the set of its canonical resources  *)
(* and the context: project, branch and agent, each possibly Null.         *)
(* Instants are numbers, so the comparison of ISO strings is <=.           *)
(***************************************************************************)
EXTENDS Integers, FiniteSets

CONSTANTS Null, \* the absent value (None, a missing key)
          Glob  \* the pairs <<pattern, name>> that fnmatch accepts

Effects == {"deny", "require_approval", "warn", "allow"}
Statuses == {"draft", "pending_approval", "active", "rejected", "superseded",
             "retired"}
Scopes == {"global", "project", "branch", "agent"}

\* The answer when nothing matches or an exception cuts the evaluation short.
Unresolved == [effect |-> "require_approval", matched |-> {}, conflict |-> FALSE]

(***************************************************************************)
(* policies.py                                                             *)
(***************************************************************************)
\* What every policy has, whether it was built in memory or read from a row.
Columns == {"effect", "status", "scope", "project", "branch", "agent", "priority", "from",
            "until", "exceptions", "justification", "approvedBy", "version", "actions",
            "resources", "cel", "requires"}

IsPolicy(p) == /\ DOMAIN p = Columns
               /\ p.effect \in Effects /\ p.scope \in Scopes /\ p.priority \in Int

\* The scope names exactly the one binding that is present.
ScopeConsistent(p) ==
    \A kind \in Scopes \ {"global"} : (p[kind] /= Null) <=> (p.scope = kind)

\* valid_from is inclusive, valid_until exclusive.
InForce(p, now) ==
    /\ p.status = "active"
    /\ p.from /= Null => p.from <= now
    /\ p.until /= Null => now < p.until

(***************************************************************************)
(* _match_policies                                                         *)
(***************************************************************************)
\* A scoped policy is evaluated although the context lacks the value of its
\* scope: MissingPolicyContextError.
LacksContext(p, request) == p.scope /= "global" /\ request[p.scope] = Null

InScope(p, request) == p.scope = "global" \/ p[p.scope] = request[p.scope]

ActionMatches(p, request) == \E g \in p.actions : <<g, request.action>> \in Glob

\* An action without resources is matched by the literal "*" only.
ResourceMatches(p, request) ==
    IF request.resources = {}
    THEN "*" \in p.resources
    ELSE \E g \in p.resources, r \in request.resources : <<g, r>> \in Glob

Selects(p, request) ==
    InScope(p, request) /\ ActionMatches(p, request) /\ ResourceMatches(p, request)

\* _conditions_match, for conditions that do not raise: an expression makes the
\* other keys irrelevant, and must yield the boolean true.
ConditionHolds(p, request) ==
    IF p.cel /= Null
    THEN p.cel = "true"
    ELSE \A key \in DOMAIN p.requires :
             key \in DOMAIN request /\ request[key] = p.requires[key]

\* The loop over the policies raises when a policy in force lacks its context or,
\* having selected the request, has a CEL condition that fails.
Raises(policies, request, now) ==
    \E id \in DOMAIN policies :
        LET p == policies[id] IN
        /\ InForce(p, now)
        /\ \/ LacksContext(p, request)
           \/ Selects(p, request) /\ p.cel = "error"

MatchedPolicies(policies, request, now) ==
    {id \in DOMAIN policies :
        LET p == policies[id] IN
        InForce(p, now) /\ Selects(p, request) /\ ConditionHolds(p, request)}

(***************************************************************************)
(* _compute_overrides                                                      *)
(***************************************************************************)
WithEffect(policies, ids, effect) == {id \in ids : policies[id].effect = effect}

\* Without control 1: an exception applies to any policy.
FaultyOverrideControls(policies, a, d) ==
    /\ policies[a].scope = "agent" /\ policies[d].scope = "global"
    /\ policies[a].until /= Null
    /\ policies[a].justification /= Null
    /\ policies[a].approvedBy /= Null

\* Controls 1 to 5. The policy looked up may be any one of the collection
\* (_by_id): its effect and status are not asked for.
OverrideControls(policies, a, d) ==
    /\ d \in policies[a].exceptions /\ d \in DOMAIN policies
    /\ policies[a].scope = "agent" /\ policies[d].scope = "global"
    /\ policies[a].until /= Null
    /\ policies[a].justification /= Null
    /\ policies[a].approvedBy /= Null

Overridden(policies, matched) ==
    IF WithEffect(policies, matched, "deny") = {} THEN {}
    ELSE {d \in DOMAIN policies :
            \E a \in WithEffect(policies, matched, "allow") :
                OverrideControls(policies, a, d)}

(***************************************************************************)
(* evaluate                                                                *)
(***************************************************************************)
PrioritiesOf(policies, ids) == {policies[id].priority : id \in ids}

TopPriority(policies, ids) ==
    {id \in ids : \A other \in ids : policies[other].priority <= policies[id].priority}

\* Priority alone decides, for denies too.
FaultyResolveByPriority(policies, ids) ==
    [effect |-> policies[CHOOSE id \in TopPriority(policies, ids) : TRUE].effect,
     conflict |-> Cardinality({policies[id].effect : id \in TopPriority(policies, ids)}) > 1]

\* The effects that remain decide: a deny always, else those of the top priority
\* if they agree.
ResolveByPriority(policies, ids) ==
    LET denies == WithEffect(policies, ids, "deny")
        top == {policies[id].effect : id \in TopPriority(policies, ids)}
    IN  IF denies /= {}
        THEN [effect |-> "deny",
              conflict |-> PrioritiesOf(policies, denies)
                               \cap PrioritiesOf(policies, ids \ denies) /= {}]
        ELSE IF Cardinality(top) > 1
             THEN [effect |-> "require_approval", conflict |-> TRUE]
             ELSE [effect |-> CHOOSE e \in top : TRUE, conflict |-> FALSE]

\* What is left after overriding; everything overridden counts as allow.
Resolution(policies, matched) ==
    LET effective == matched \ Overridden(policies, matched)
    IN  IF effective = {}
        THEN [effect |-> "allow", conflict |-> FALSE]
        ELSE ResolveByPriority(policies, effective)

\* A condition that fails is no objection: fail open.
FaultyEvaluate(policies, request, now) ==
    LET matched == MatchedPolicies(policies, request, now)
        outcome == Resolution(policies, matched)
    IN  IF Raises(policies, request, now)
        THEN [Unresolved EXCEPT !.effect = "allow"]
        ELSE IF matched = {}
             THEN Unresolved
             ELSE [effect |-> outcome.effect, matched |-> matched,
                   conflict |-> outcome.conflict]

\* Without a match, as after an error, a human is asked: "fail closed" (policy_engine.py:126).
\* docs/policy-semantics.md has it otherwise, see UnmatchedIsAllowed of PolicyDecision.
Evaluate(policies, request, now) ==
    LET matched == MatchedPolicies(policies, request, now)
        outcome == Resolution(policies, matched)
    IN  IF Raises(policies, request, now) \/ matched = {}
        THEN Unresolved
        ELSE [effect |-> outcome.effect, matched |-> matched,
              conflict |-> outcome.conflict]

(***************************************************************************)
(* compute_policy_set_hash: the matched ids with their versions, sorted;   *)
(* the empty set has the empty hash. The hash is modelled by its argument. *)
(***************************************************************************)
Version(p) == IF p.version = Null THEN 0 ELSE p.version
PolicySetHash(policies, ids) == {<<id, Version(policies[id])>> : id \in ids}

=============================================================================
