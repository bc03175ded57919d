--------------------------- MODULE PolicyDecision ---------------------------
(***************************************************************************)
(* A PolicyEngine over a list of policies, as a library user holds it: the *)
(* list grows and time passes, and every request may be evaluated at any   *)
(* moment. The properties compare evaluate with what it promises.          *)
(***************************************************************************)
EXTENDS PolicyEngine

CONSTANTS Catalog,    \* the policies that may be listed, a function of their ids
          Queries,    \* the requests that may be evaluated
          LastInstant \* the last instant of the model

\* A list is finite, and so are its candidates.
ASSUME CatalogAssumption ==
    IsFiniteSet(DOMAIN Catalog) /\ \A id \in DOMAIN Catalog : IsPolicy(Catalog[id])

VARIABLES listed,    \* the ids of the policies in the engine's list
          now

listVars == <<listed, now>>

ListInit == listed = {} /\ now = 0

List(id) == /\ id \notin listed
            /\ listed' = listed \union {id}
            /\ UNCHANGED now

PassTime == /\ now < LastInstant
            /\ now' = now + 1
            /\ UNCHANGED listed

ListNext == (\E id \in DOMAIN Catalog : List(id)) \/ PassTime

ListSpec == ListInit /\ [][ListNext]_listVars

(***************************************************************************)
(* Properties                                                              *)
(***************************************************************************)
Engine == [id \in listed |-> Catalog[id]]
Answer(request) == Evaluate(Engine, request, now)
Permits(answer) == answer.effect \in {"allow", "warn"}

\* A request passes only if a matched policy that is not a deny says so and none of its
\* priority disagrees: neither an error, nor an empty match, nor a conflict, nor
\* overriding everything (the branch of evaluate that answers allow when nothing is
\* left) lets a request through. This is what the code says of itself ("fail closed"); for
\* an empty match, and for a warn beside an allow, docs/policy-semantics.md says otherwise.
SomebodyPermits ==
    \A request \in Queries :
        Permits(Answer(request)) =>
            /\ ~Answer(request).conflict
            /\ \E id \in Answer(request).matched :
                   Engine[id].effect = Answer(request).effect

\* EP-POLICY-008: a request matched by a deny passes only under a narrower,
\* justified, approved exception that names that deny and has not ended.
DenyNeedsException ==
    \A request \in Queries :
        Permits(Answer(request)) =>
            \A d \in WithEffect(Engine, Answer(request).matched, "deny") :
                \E a \in WithEffect(Engine, Answer(request).matched, "allow") :
                    /\ d \in Engine[a].exceptions
                    /\ Engine[a].scope = "agent" /\ Engine[a].agent = request.agent
                    /\ Engine[d].scope = "global"
                    /\ Engine[a].until /= Null /\ now < Engine[a].until
                    /\ Null \notin {Engine[a].justification, Engine[a].approvedBy}

\* One more deny never turns a refusal into a permission, provided exceptions name
\* only denies. (Without the proviso it does: _by_id lets an exception remove a
\* require_approval policy, but only while some deny is matched.)
ExceptionsNameDenies ==
    \A a \in listed' : \A d \in Catalog[a].exceptions \cap listed' :
        Catalog[d].effect = "deny"

DenyNeverLoosens ==
    [][\A id \in DOMAIN Catalog :
          List(id) /\ Catalog[id].effect = "deny" /\ ExceptionsNameDenies =>
              \A request \in Queries : Permits(Answer(request))' => Permits(Answer(request))]_listVars

\* What docs/policy-semantics.md says of a request that no policy matches: "this is the
\* default-allow behavior when no policies match" (105). evaluate asks a human instead.
UnmatchedIsAllowed ==
    \A request \in Queries :
        ~Raises(Engine, request, now) /\ MatchedPolicies(Engine, request, now) = {} =>
            Permits(Answer(request))

=============================================================================
