---------------------------- MODULE PolicyProofs ----------------------------
(***************************************************************************)
(* Proofs about the policy engine, for any finite collection of policies   *)
(* and any requests: first what evaluate answers, then the properties of   *)
(* PolicyDecision and of PolicyRevalidation, which follow from it.         *)
(***************************************************************************)
EXTENDS PolicyDecision, PolicyRevalidation, FiniteSetTheorems, TLAPS

(***************************************************************************)
(* The resolution                                                          *)
(***************************************************************************)
\* A non-empty set of numbers has a least element: induction, without an operator.
LEMMA LeastNumber ==
  ASSUME NEW T, T \subseteq Nat, T # {}
  PROVE  \E n \in T : \A m \in T : n <= m
<1> DEFINE R == OpToRel(<, Nat)
<1>1. IsWellFoundedOn(R, Nat)
  BY NatLessThanWellFounded
<1>2. \A x, y \in Nat : y < x => <<y, x>> \in R
  BY DEF OpToRel
<1> HIDE DEF R
<1>3. PICK x \in T : \A y \in T : ~(<<y, x>> \in R)
  BY <1>1, WFMin
<1>4. ASSUME NEW m \in T
      PROVE  x <= m
  <2>1. x \in Nat /\ m \in Nat /\ ~(m < x)
    BY <1>2, <1>3
  <2> QED
    BY <2>1
<1> QED
  BY <1>4

\* Finitely many policies have one of the highest priority.
LEMMA TopExists ==
  ASSUME NEW P, NEW ids, IsFiniteSet(ids), ids # {},
         \A id \in ids : P[id].priority \in Int
  PROVE  TopPriority(P, ids) # {}
<1> DEFINE above(id) == {x \in ids : P[x].priority > P[id].priority}
           counts == {Cardinality(above(id)) : id \in ids}
<1>1. \A id \in ids : IsFiniteSet(above(id)) /\ Cardinality(above(id)) \in Nat
  BY FS_Subset, FS_CardinalityType
<1>2. counts \subseteq Nat /\ counts # {}
  BY <1>1
<1> HIDE DEF counts
<1>3. PICK n \in counts : \A m \in counts : n <= m
  BY <1>2, LeastNumber
<1>4. PICK top \in ids : n = Cardinality(above(top))
  BY <1>3 DEF counts
<1>5. ASSUME NEW x \in ids, P[x].priority > P[top].priority
      PROVE  FALSE
  <2>1. above(x) \subseteq above(top) /\ x \in above(top) /\ x \notin above(x)
    BY <1>5
  <2>2. Cardinality(above(x)) < Cardinality(above(top))
    BY <1>1, <2>1, FS_Subset
  <2>3. Cardinality(above(x)) \in counts
    BY DEF counts
  <2>4. n <= Cardinality(above(x)) /\ n = Cardinality(above(top))
    BY <1>3, <1>4, <2>3
  <2> HIDE DEF above
  <2> QED
    BY <1>1, <2>2, <2>4
<1>6. top \in TopPriority(P, ids)
  BY <1>5 DEF TopPriority
<1> QED
  BY <1>6

\* Overriding never removes everything: an exception is bound to an agent, and what is
\* bound to an agent cannot be overridden.
LEMMA SomethingIsLeft ==
  ASSUME NEW P, NEW M, M # {}
  PROVE  M \ Overridden(P, M) # {}
<1>1. CASE M \cap Overridden(P, M) = {}
  BY <1>1
<1>2. CASE M \cap Overridden(P, M) # {}
  <2>1. PICK d \in M : d \in Overridden(P, M)
    BY <1>2
  <2>2. PICK a \in M : OverrideControls(P, a, d)
    BY <2>1 DEF Overridden, WithEffect
  <2>3. P[a].scope = "agent"
    BY <2>2 DEF OverrideControls
  <2>4. a \notin Overridden(P, M)
    BY <2>3 DEF Overridden, OverrideControls
  <2> QED
    BY <2>4
<1> QED
  BY <1>1, <1>2

\* What permits: a policy that is left says so, none that is left denies, and there is no
\* conflict.
LEMMA PermissionHasReason ==
  ASSUME NEW P, NEW M, IsFiniteSet(M), M # {}, \A id \in M : P[id].priority \in Int,
         Resolution(P, M).effect \in {"allow", "warn"}
  PROVE  LET left == M \ Overridden(P, M) IN
         /\ Resolution(P, M).conflict = FALSE
         /\ \E id \in left : P[id].effect = Resolution(P, M).effect
         /\ \A id \in left : P[id].effect # "deny"
<1> DEFINE left == M \ Overridden(P, M)
           top == {P[id].effect : id \in TopPriority(P, left)}
<1>1. left # {} /\ IsFiniteSet(left) /\ \A id \in left : P[id].priority \in Int
  BY SomethingIsLeft, FS_Difference
<1>2. TopPriority(P, left) # {} /\ TopPriority(P, left) \subseteq left
  BY <1>1, TopExists DEF TopPriority
<1>3. Resolution(P, M) = ResolveByPriority(P, left)
  BY <1>1 DEF Resolution
<1> HIDE DEF left
<1>4. WithEffect(P, left, "deny") = {}
  <2>1. CASE WithEffect(P, left, "deny") # {}
    BY <1>3, <2>1 DEF ResolveByPriority
  <2> QED
    BY <2>1
<1>5. Resolution(P, M) = IF Cardinality(top) > 1
                         THEN [effect |-> "require_approval", conflict |-> TRUE]
                         ELSE [effect |-> CHOOSE e \in top : TRUE, conflict |-> FALSE]
  BY <1>3, <1>4 DEF ResolveByPriority
<1>6. (CHOOSE e \in top : TRUE) \in top
  BY <1>2
<1>7. /\ Resolution(P, M).conflict = FALSE
      /\ Resolution(P, M).effect \in top
  BY <1>5, <1>6
<1>8. \E id \in left : P[id].effect = Resolution(P, M).effect
  BY <1>2, <1>7
<1>9. \A id \in left : P[id].effect # "deny"
  BY <1>4 DEF WithEffect
<1> QED
  BY <1>7, <1>8, <1>9 DEF left

\* The outcome depends on effects and priorities alone.
LEMMA SameResolution ==
  ASSUME NEW P, NEW Q, NEW ids,
         \A id \in ids : P[id].effect = Q[id].effect /\ P[id].priority = Q[id].priority
  PROVE  ResolveByPriority(P, ids) = ResolveByPriority(Q, ids)
<1>1. \A e : WithEffect(P, ids, e) = WithEffect(Q, ids, e)
  BY DEF WithEffect
<1>2. \A s \in SUBSET ids : PrioritiesOf(P, s) = PrioritiesOf(Q, s)
  BY DEF PrioritiesOf
<1>3. TopPriority(P, ids) = TopPriority(Q, ids) /\ TopPriority(P, ids) \subseteq ids
  BY DEF TopPriority
<1>4. {P[id].effect : id \in TopPriority(P, ids)} = {Q[id].effect : id \in TopPriority(Q, ids)}
  BY <1>3
<1>5. WithEffect(P, ids, "deny") \in SUBSET ids /\ ids \ WithEffect(P, ids, "deny") \in SUBSET ids
  BY DEF WithEffect
<1> QED
  BY <1>1, <1>2, <1>4, <1>5 DEF ResolveByPriority

(***************************************************************************)
(* PolicyDecision                                                          *)
(***************************************************************************)
ListInv == listed \subseteq DOMAIN Catalog

LEMMA ListInvariant == ListSpec => []ListInv
<1>1. ListInit => ListInv
  BY DEF ListInit, ListInv
<1>2. ListInv /\ [ListNext]_listVars => ListInv'
  BY DEF ListInv, ListNext, List, PassTime, listVars
<1> QED
  BY <1>1, <1>2, PTL DEF ListSpec

\* A permission comes from a resolution over matched policies.
LEMMA PermissionResolves ==
  ASSUME ListInv, NEW request, Permits(Answer(request))
  PROVE  LET M == Answer(request).matched IN
         /\ M = MatchedPolicies(Engine, request, now) /\ M # {}
         /\ ~Raises(Engine, request, now)
         /\ Answer(request).effect = Resolution(Engine, M).effect
         /\ Answer(request).conflict = Resolution(Engine, M).conflict
         /\ M \subseteq listed /\ IsFiniteSet(M)
         /\ \A id \in M : Engine[id] = Catalog[id] /\ Engine[id].priority \in Int
<1> DEFINE M == MatchedPolicies(Engine, request, now)
<1>1. ~(Raises(Engine, request, now) \/ M = {})
  BY DEF Permits, Answer, Evaluate, Unresolved
<1>2. Answer(request) = [effect |-> Resolution(Engine, M).effect, matched |-> M,
                         conflict |-> Resolution(Engine, M).conflict]
  BY <1>1 DEF Answer, Evaluate
<1>3. M \subseteq listed
  BY DEF MatchedPolicies, Engine
<1>4. IsFiniteSet(M)
  BY <1>3, CatalogAssumption, FS_Subset DEF ListInv
<1>5. \A id \in M : Engine[id] = Catalog[id] /\ Engine[id].priority \in Int
  BY <1>3, CatalogAssumption DEF ListInv, Engine, IsPolicy
<1> HIDE DEF M
<1> QED
  BY <1>1, <1>2, <1>3, <1>4, <1>5 DEF M

\* A request passes only if a matched policy says so without contradiction (evaluate).
THEOREM PermissionIsGiven == ListSpec => []SomebodyPermits
<1>1. ASSUME ListInv, NEW request \in Queries, Permits(Answer(request))
      PROVE  /\ ~Answer(request).conflict
             /\ \E id \in Answer(request).matched :
                    Engine[id].effect = Answer(request).effect
  <2> DEFINE M == Answer(request).matched
  <2>1. /\ M # {} /\ IsFiniteSet(M) /\ \A id \in M : Engine[id].priority \in Int
        /\ Answer(request).effect = Resolution(Engine, M).effect
        /\ Answer(request).conflict = Resolution(Engine, M).conflict
    BY <1>1, PermissionResolves
  <2>2. Resolution(Engine, M).effect \in {"allow", "warn"}
    BY <1>1, <2>1 DEF Permits
  <2> HIDE DEF M
  <2>3. /\ Resolution(Engine, M).conflict = FALSE
        /\ \E id \in M : Engine[id].effect = Resolution(Engine, M).effect
    BY <2>1, <2>2, PermissionHasReason, ZenonT(40)
  <2> QED
    BY <2>1, <2>3 DEF M
<1>2. ListInv => SomebodyPermits
  BY <1>1 DEF SomebodyPermits
<1> QED
  BY <1>2, ListInvariant, PTL

\* A request matched by a deny passes only under an exception to that deny
\* (_compute_overrides).
THEOREM DenyNeedsItsException == ListSpec => []DenyNeedsException
<1>1. ASSUME ListInv, NEW request \in Queries, Permits(Answer(request)),
             NEW d \in WithEffect(Engine, Answer(request).matched, "deny")
      PROVE  \E a \in WithEffect(Engine, Answer(request).matched, "allow") :
                /\ d \in Engine[a].exceptions
                /\ Engine[a].scope = "agent" /\ Engine[a].agent = request.agent
                /\ Engine[d].scope = "global"
                /\ Engine[a].until /= Null /\ now < Engine[a].until
                /\ Null \notin {Engine[a].justification, Engine[a].approvedBy}
  <2> DEFINE M == Answer(request).matched
  <2>1. /\ M = MatchedPolicies(Engine, request, now)
        /\ M # {} /\ IsFiniteSet(M) /\ \A id \in M : Engine[id].priority \in Int
        /\ Answer(request).effect = Resolution(Engine, M).effect
    BY <1>1, PermissionResolves
  <2>2. Resolution(Engine, M).effect \in {"allow", "warn"}
    BY <1>1, <2>1 DEF Permits
  <2>3. d \in M /\ Engine[d].effect = "deny"
    BY <1>1 DEF WithEffect
  <2> HIDE DEF M
  <2>4. d \in Overridden(Engine, M)
    BY <2>1, <2>2, <2>3, PermissionHasReason, ZenonT(40)
  <2>5. PICK a \in WithEffect(Engine, M, "allow") : OverrideControls(Engine, a, d)
    BY <2>4 DEF Overridden
  <2>6. InForce(Engine[a], now) /\ Selects(Engine[a], request)
    BY <2>1, <2>5 DEF WithEffect, MatchedPolicies
  <2>7. Engine[a].scope = "agent"
    BY <2>5 DEF OverrideControls
  <2>8. Engine[a].agent = request.agent
    BY <2>6, <2>7 DEF Selects, InScope
  <2> QED
    BY <2>5, <2>6, <2>7, <2>8 DEF OverrideControls, InForce, M
<1>2. ListInv => DenyNeedsException
  BY <1>1 DEF DenyNeedsException
<1> QED
  BY <1>2, ListInvariant, PTL

\* A list and the same list with one more deny: whatever the longer one permits, so does
\* the shorter one.
LEMMA OneMoreDeny ==
  ASSUME NEW L \in SUBSET DOMAIN Catalog, NEW id \in DOMAIN Catalog, id \notin L,
         Catalog[id].effect = "deny",
         \A a \in L : \A d \in Catalog[a].exceptions \cap (L \union {id}) :
             Catalog[d].effect = "deny",
         NEW request, NEW t,
         Permits(Evaluate([i \in L \union {id} |-> Catalog[i]], request, t))
  PROVE  Permits(Evaluate([i \in L |-> Catalog[i]], request, t))
<1> DEFINE P == [i \in L |-> Catalog[i]]
           Q == [i \in L \union {id} |-> Catalog[i]]
           M == MatchedPolicies(P, request, t)
           N == MatchedPolicies(Q, request, t)
           left == N \ Overridden(Q, N)
<1>1. /\ DOMAIN P = L /\ DOMAIN Q = L \union {id} /\ \A i \in L : P[i] = Q[i]
      /\ \A i \in L \union {id} : Q[i] = Catalog[i]
  OBVIOUS
<1>2. /\ ~Raises(Q, request, t) /\ N # {}
      /\ Resolution(Q, N).effect \in {"allow", "warn"}
  <2>1. ~(Raises(Q, request, t) \/ N = {})
    BY DEF Permits, Evaluate, Unresolved
  <2>2. Evaluate(Q, request, t).effect = Resolution(Q, N).effect
    BY <2>1 DEF Evaluate
  <2> QED
    BY <2>1, <2>2 DEF Permits
<1> HIDE DEF P, Q
<1>3. N \subseteq L \union {id} /\ M \subseteq L /\ M = N \ {id}
  BY <1>1 DEF MatchedPolicies
<1>4. ~Raises(P, request, t)
  BY <1>1, <1>2 DEF Raises
<1> HIDE DEF M, N
<1>5. /\ IsFiniteSet(N)
      /\ \A i \in N : Q[i].priority \in Int
  BY <1>1, <1>3, CatalogAssumption, FS_Subset DEF IsPolicy
<1>6. left # {} /\ \A i \in left : Q[i].effect # "deny"
  BY <1>2, <1>5, PermissionHasReason
<1>7. \A a \in N : \A d \in L \union {id} :
          Q[a].effect = "allow" /\ d \in Q[a].exceptions =>
              a \in M /\ P[a] = Q[a] /\ Q[d].effect = "deny"
  BY <1>1, <1>3
<1>8. \A a \in M, d \in M : OverrideControls(P, a, d) <=> OverrideControls(Q, a, d)
  BY <1>1, <1>3 DEF OverrideControls
<1>9. left \subseteq M /\ \A x \in left : x \notin Overridden(P, M)
  <2> SUFFICES ASSUME NEW x \in left
               PROVE  x \in M /\ x \notin Overridden(P, M)
    OBVIOUS
  <2>1. x \in M
    BY <1>1, <1>3, <1>6
  <2>2. ASSUME NEW a \in WithEffect(P, M, "allow"), OverrideControls(P, a, x)
        PROVE  FALSE
    <3>1. a \in N /\ Q[a].effect = "allow" /\ x \in Q[a].exceptions
      BY <1>1, <1>3, <2>2 DEF WithEffect, OverrideControls
    <3> QED
      BY <1>3, <1>6, <1>7, <2>1, <3>1
  <2> QED
    BY <2>1, <2>2 DEF Overridden
<1>10. \A x \in M : x \notin Overridden(P, M) => x \in left
  <2> SUFFICES ASSUME NEW x \in M, x \in Overridden(Q, N)
               PROVE  x \in Overridden(P, M)
    BY <1>3
  <2>1. PICK a \in WithEffect(Q, N, "allow") : OverrideControls(Q, a, x)
    BY DEF Overridden
  <2>2. a \in N /\ Q[a].effect = "allow" /\ x \in Q[a].exceptions
    BY <2>1 DEF WithEffect, OverrideControls
  <2>3. a \in M /\ P[a] = Q[a] /\ Q[x].effect = "deny"
    BY <1>3, <1>7, <2>2
  <2>4. x \in WithEffect(P, M, "deny") /\ a \in WithEffect(P, M, "allow")
    BY <1>1, <1>3, <2>2, <2>3 DEF WithEffect
  <2>5. OverrideControls(P, a, x) /\ x \in DOMAIN P
    BY <1>1, <1>3, <1>8, <2>1, <2>3
  <2> QED
    BY <2>4, <2>5 DEF Overridden
<1>11. M \ Overridden(P, M) = left
  BY <1>9, <1>10
<1>12. ResolveByPriority(P, left) = ResolveByPriority(Q, left)
  BY <1>1, <1>3, <1>9, SameResolution
<1>13. Resolution(P, M) = Resolution(Q, N)
  BY <1>6, <1>11, <1>12 DEF Resolution
<1>14. M # {}
  BY <1>6, <1>9
<1>15. Evaluate(P, request, t).effect = Resolution(P, M).effect
  BY <1>4, <1>14 DEF Evaluate, M
<1> QED
  BY <1>2, <1>13, <1>15 DEF Permits, P

\* One more deny never turns a refusal into a permission (evaluate).
THEOREM MoreDeniesPermitLess == ListSpec => DenyNeverLoosens
<1>1. ASSUME ListInv, NEW id \in DOMAIN Catalog, List(id), Catalog[id].effect = "deny",
             ExceptionsNameDenies, NEW request \in Queries, Permits(Answer(request))'
      PROVE  Permits(Answer(request))
  <2>1. id \notin listed /\ listed' = listed \union {id} /\ now' = now
    BY <1>1 DEF List
  <2>2. listed \in SUBSET DOMAIN Catalog
    BY <1>1 DEF ListInv
  <2>3. Permits(Evaluate([i \in listed \union {id} |-> Catalog[i]], request, now))
    BY <1>1, <2>1 DEF Answer, Engine
  <2>4. \A a \in listed : \A d \in Catalog[a].exceptions \cap (listed \union {id}) :
            Catalog[d].effect = "deny"
    BY <1>1, <2>1 DEF ExceptionsNameDenies
  <2>5. Permits(Evaluate([i \in listed |-> Catalog[i]], request, now))
    BY <1>1, <2>1, <2>2, <2>3, <2>4, OneMoreDeny
  <2> QED
    BY <2>5 DEF Answer, Engine
<1>2. ListInv => [\A id \in DOMAIN Catalog :
                    List(id) /\ Catalog[id].effect = "deny" /\ ExceptionsNameDenies =>
                        \A request \in Queries :
                            Permits(Answer(request))' => Permits(Answer(request))]_listVars
  BY <1>1
<1> QED
  BY <1>2, ListInvariant, PTL DEF DenyNeverLoosens

\* Evaluation never answers anything but an effect.
LEMMA ResolutionTyped ==
  ASSUME NEW P, NEW M, IsFiniteSet(M), M # {},
         \A id \in M : P[id].priority \in Int /\ P[id].effect \in Effects
  PROVE  Resolution(P, M).effect \in Effects
<1> DEFINE left == M \ Overridden(P, M)
           top == {P[id].effect : id \in TopPriority(P, left)}
<1>1. left # {} /\ IsFiniteSet(left) /\ \A id \in left : P[id].priority \in Int
  BY SomethingIsLeft, FS_Difference
<1>2. TopPriority(P, left) # {} /\ TopPriority(P, left) \subseteq left
  BY <1>1, TopExists DEF TopPriority
<1>3. Resolution(P, M) = ResolveByPriority(P, left)
  BY <1>1 DEF Resolution
<1>4. top \subseteq Effects /\ (CHOOSE e \in top : TRUE) \in top
  BY <1>2
<1> HIDE DEF left
<1>5. ResolveByPriority(P, left).effect \in {"deny", "require_approval", CHOOSE e \in top : TRUE}
  BY DEF ResolveByPriority
<1> QED
  BY <1>3, <1>4, <1>5 DEF Effects

(***************************************************************************)
(* PolicyRevalidation                                                      *)
(***************************************************************************)
\* The rows: whatever is active was approved or came from a trusted import, and such an
\* import brings policies for everybody only.
RowsTyped == /\ status \in [Policies -> Statuses \union {Null}]
             /\ approvedBy \in [Policies -> Approvers \union {Null}]
             /\ vouched \subseteq {id \in Policies : Definition[id].scope = "global"}

ActiveIsApproved ==
  \A id \in Policies :
      status[id] = "active" => approvedBy[id] \in Approvers \/ id \in vouched

\* A policy of an agent is in a snapshot with the name of whoever approved it.
Attributed(s) == /\ s \in Snapshots
                 /\ \A id \in DOMAIN s : Definition[id].scope = "agent" => s[id] # Null

SnapshotsApproved ==
  /\ \A r \in Requests : engine[r] # Null => Approved(engine[r]) /\ Attributed(engine[r])
  /\ held # Null => Approved(held) /\ Attributed(held)

\* Those policies, as one snapshot showed them, asked for a human.
AskedForHuman(hash) ==
  \E s \in Snapshots : \E M \in SUBSET DOMAIN s :
      /\ Attributed(s) /\ hash = PolicySetHash(Rows(s), M)
      /\ M # {} => Resolution(Rows(s), M).effect = "require_approval"

RequestsTyped == /\ engine = [r \in Requests |-> engine[r]]
                 /\ stage = [r \in Requests |-> stage[r]]
                 /\ recorded = [r \in Requests |-> recorded[r]]
                 /\ human \in [Requests -> BOOLEAN]
                 /\ checked \in [Requests -> BOOLEAN]

HumanWasAsked ==
  \A r \in Requests :
      /\ stage[r] = "pending_approval" \/ human[r] => AskedForHuman(recorded[r])
      /\ human[r] => stage[r] \in {"authorized", "issued", "executing"}

CheckedRuns == \A r \in Requests : checked[r] => stage[r] = "executing" /\ ~human[r]

PolicyInv == /\ RowsTyped /\ ActiveIsApproved /\ SnapshotsApproved
             /\ RequestsTyped /\ UnattendedIsPermitted /\ HumanWasAsked /\ CheckedRuns

\* What the columns of a row in a snapshot are.
LEMMA RowColumns ==
  ASSUME NEW s \in Snapshots
  PROVE  /\ DOMAIN Rows(s) = DOMAIN s /\ DOMAIN s \subseteq Policies /\ IsFiniteSet(DOMAIN s)
         /\ \A id \in DOMAIN s :
               /\ Rows(s)[id].approvedBy = s[id]
               /\ \A c \in Columns \ {"status", "approvedBy"} :
                     Rows(s)[id][c] = Definition[id][c]
               /\ Rows(s)[id].effect = Definition[id].effect
               /\ Rows(s)[id].priority = Definition[id].priority
               /\ Rows(s)[id].scope = Definition[id].scope
               /\ Rows(s)[id].version = Definition[id].version
               /\ Rows(s)[id].effect \in Effects /\ Rows(s)[id].priority \in Int
<1>1. DOMAIN s \subseteq Policies
  BY DEF Snapshots
<1>2. IsFiniteSet(DOMAIN s)
  BY <1>1, RowsAssumption, FS_Subset
<1>3. DOMAIN Rows(s) = DOMAIN s
  BY DEF Rows
<1>4. ASSUME NEW id \in DOMAIN s
      PROVE  /\ Rows(s)[id].approvedBy = s[id]
             /\ \A c \in Columns \ {"status", "approvedBy"} : Rows(s)[id][c] = Definition[id][c]
  <2>1. DOMAIN Definition[id] = Columns
    BY <1>1, <1>4, RowsAssumption DEF IsPolicy
  <2>2. Rows(s)[id] = [Definition[id] EXCEPT !.status = "active", !.approvedBy = s[id]]
    BY <1>4 DEF Rows
  <2>3. "approvedBy" \in Columns
    BY DEF Columns
  <2> QED
    BY <2>1, <2>2, <2>3
<1>5. {"effect", "priority", "scope", "version"} \subseteq Columns \ {"status", "approvedBy"}
  BY DEF Columns
<1> QED
  BY <1>1, <1>2, <1>3, <1>4, <1>5, RowsAssumption DEF IsPolicy

\* Two snapshots in which the policies of agents are attributed resolve alike.
LEMMA SnapshotsResolveAlike ==
  ASSUME NEW s, NEW u, Attributed(s), Attributed(u),
         NEW M, M \subseteq DOMAIN s, M \subseteq DOMAIN u
  PROVE  Resolution(Rows(s), M) = Resolution(Rows(u), M)
<1> DEFINE P == Rows(s)
           Q == Rows(u)
<1>1. /\ s \in Snapshots /\ u \in Snapshots
      /\ M \subseteq DOMAIN P /\ M \subseteq DOMAIN Q
  BY RowColumns DEF Attributed
<1>2. \A id \in M : \A c \in Columns \ {"status", "approvedBy"} : P[id][c] = Q[id][c]
  BY <1>1, RowColumns
<1>3. {"effect", "priority", "scope", "exceptions", "until", "justification"}
          \subseteq Columns \ {"status", "approvedBy"}
  BY DEF Columns
<1>4. \A id \in M : /\ P[id].effect = Q[id].effect /\ P[id].priority = Q[id].priority
                    /\ P[id].scope = Q[id].scope /\ P[id].exceptions = Q[id].exceptions
                    /\ P[id].until = Q[id].until
                    /\ P[id].justification = Q[id].justification
  BY <1>2, <1>3
<1>5. \A id \in M : P[id].scope = "agent" => P[id].approvedBy # Null /\ Q[id].approvedBy # Null
  BY <1>1, RowColumns DEF Attributed
<1> HIDE DEF P, Q
<1>6. \A a \in M, d \in M : OverrideControls(P, a, d) <=> OverrideControls(Q, a, d)
  BY <1>1, <1>4, <1>5 DEF OverrideControls
<1>7. \A e : WithEffect(P, M, e) = WithEffect(Q, M, e) /\ WithEffect(P, M, e) \subseteq M
  BY <1>4 DEF WithEffect
<1>8. M \ Overridden(P, M) = M \ Overridden(Q, M)
  BY <1>1, <1>6, <1>7 DEF Overridden
<1>9. ResolveByPriority(P, M \ Overridden(P, M)) = ResolveByPriority(Q, M \ Overridden(P, M))
  BY <1>4, SameResolution
<1> QED
  BY <1>8, <1>9 DEF Resolution, P, Q

\* The hash of matched policies determines them.
LEMMA HashDetermines ==
  ASSUME NEW P, NEW Q, NEW M, NEW N, PolicySetHash(P, M) = PolicySetHash(Q, N)
  PROVE  M = N
<1>1. \A id \in M : <<id, Version(P[id])>> \in PolicySetHash(Q, N)
  BY DEF PolicySetHash
<1>2. \A id \in N : <<id, Version(Q[id])>> \in PolicySetHash(P, M)
  BY DEF PolicySetHash
<1>3. \A id, v : /\ <<id, v>> \in PolicySetHash(Q, N) => id \in N
                 /\ <<id, v>> \in PolicySetHash(P, M) => id \in M
  BY DEF PolicySetHash
<1>4. M \subseteq N /\ N \subseteq M
  BY <1>1, <1>2, <1>3
<1> QED
  BY <1>4

\* What evaluating a request under a snapshot answers.
LEMMA AnswerUnderSnapshot ==
  ASSUME NEW s \in Snapshots, NEW request, NEW t
  PROVE  LET answer == Evaluate(Rows(s), request, t) IN
         /\ answer.matched \subseteq DOMAIN s /\ answer.effect \in Effects
         /\ answer.matched = {} => answer.effect = "require_approval"
         /\ answer.matched # {} =>
               answer.effect = Resolution(Rows(s), answer.matched).effect
<1> DEFINE P == Rows(s)
           M == MatchedPolicies(P, request, t)
<1>1. /\ M \subseteq DOMAIN s /\ IsFiniteSet(M)
      /\ \A id \in M : P[id].priority \in Int /\ P[id].effect \in Effects
  <2>1. M \subseteq DOMAIN s
    BY RowColumns DEF MatchedPolicies
  <2> QED
    BY <2>1, RowColumns, FS_Subset
<1> HIDE DEF M
<1>2. CASE Raises(P, request, t) \/ M = {}
  BY <1>2 DEF Evaluate, Unresolved, Effects, M
<1>3. CASE ~(Raises(P, request, t) \/ M = {})
  <2>1. Evaluate(P, request, t) = [effect |-> Resolution(P, M).effect, matched |-> M,
                                   conflict |-> Resolution(P, M).conflict]
    BY <1>3 DEF Evaluate, M
  <2>2. Resolution(P, M).effect \in Effects
    BY <1>1, <1>3, ResolutionTyped
  <2> QED
    BY <1>1, <1>3, <2>1, <2>2
<1> QED
  BY <1>2, <1>3

LEMMA PolicyInit == Init => PolicyInv
<1> SUFFICES ASSUME Init
             PROVE  PolicyInv
  OBVIOUS
<1>1. RowsTyped /\ ActiveIsApproved
  BY RowsAssumption DEF Init, RowsTyped, ActiveIsApproved, Statuses
<1>2. SnapshotsApproved /\ RequestsTyped /\ UnattendedIsPermitted /\ HumanWasAsked /\ CheckedRuns
  BY DEF Init, SnapshotsApproved, RequestsTyped, UnattendedIsPermitted, HumanWasAsked, CheckedRuns
<1> QED
  BY <1>1, <1>2 DEF PolicyInv

\* A change of the rows alone.
LEMMA RowsChange ==
  ASSUME PolicyInv, RowsTyped', ActiveIsApproved', vouched \subseteq vouched',
         UNCHANGED <<requestVars, held>>
  PROVE  PolicyInv'
<1>1. UNCHANGED <<engine, stage, recorded, human, checked, held>>
  BY DEF requestVars
<1>2. SnapshotsApproved'
  BY <1>1 DEF PolicyInv, SnapshotsApproved, Approved, Attributed
<1>3. RequestsTyped' /\ UnattendedIsPermitted' /\ HumanWasAsked' /\ CheckedRuns'
  BY <1>1 DEF PolicyInv, RequestsTyped, UnattendedIsPermitted, HumanWasAsked, CheckedRuns
<1> QED
  BY <1>2, <1>3 DEF PolicyInv

\* What operators do to one row.
LEMMA OperatorStep ==
  ASSUME PolicyInv, NEW id \in Policies,
         \/ Create(id) \/ Submit(id) \/ Retire(id) \/ RegisterAgent(id)
         \/ \E trusted \in BOOLEAN : ImportPolicy(id, trusted)
         \/ \E who \in Approvers : ApprovePolicy(id, who)
  PROVE  PolicyInv'
<1> USE DEF PolicyInv
<1>1. CASE Create(id)
  <2>1. RowsTyped' /\ ActiveIsApproved'
    BY <1>1 DEF Create, RowsTyped, ActiveIsApproved, Statuses
  <2> QED
    BY <1>1, <2>1, RowsChange DEF Create
<1>2. CASE Submit(id) \/ Retire(id)
  <2>1. RowsTyped' /\ ActiveIsApproved'
    BY <1>2 DEF Submit, Retire, UpdateStatus, RowsTyped, ActiveIsApproved, Statuses
  <2> QED
    BY <1>2, <2>1, RowsChange DEF Submit, Retire, UpdateStatus
<1>3. CASE RegisterAgent(id)
  <2>1. RowsTyped' /\ ActiveIsApproved'
    BY <1>3, RowsAssumption DEF RegisterAgent, RowsTyped, ActiveIsApproved, Statuses
  <2> QED
    BY <1>3, <2>1, RowsChange DEF RegisterAgent
<1>4. ASSUME NEW trusted \in BOOLEAN, ImportPolicy(id, trusted)
      PROVE  PolicyInv'
  <2>1. RowsTyped' /\ vouched \subseteq vouched'
    BY <1>4 DEF ImportPolicy, RowsTyped, Statuses
  <2>2. ActiveIsApproved'
    BY <1>4 DEF ImportPolicy, RowsTyped, ActiveIsApproved
  <2> QED
    BY <1>4, <2>1, <2>2, RowsChange DEF ImportPolicy
<1>5. ASSUME NEW who \in Approvers, ApprovePolicy(id, who)
      PROVE  PolicyInv'
  <2>1. RowsTyped' /\ ActiveIsApproved'
    BY <1>5 DEF ApprovePolicy, RowsTyped, ActiveIsApproved, Statuses
  <2> QED
    BY <1>5, <2>1, RowsChange DEF ApprovePolicy
<1> QED
  BY <1>1, <1>2, <1>3, <1>4, <1>5

\* A snapshot of active rows.
LEMMA SnapshotFacts ==
  ASSUME PolicyInv, NEW ids, ids \subseteq Active
  PROVE  Approved(Snapshot(ids)) /\ Attributed(Snapshot(ids))
<1> DEFINE s == Snapshot(ids)
<1>1. s = [id \in ids |-> approvedBy[id]] /\ DOMAIN s = ids
  BY DEF Snapshot
<1>2. /\ ids \subseteq Policies
      /\ \A id \in ids : /\ approvedBy[id] \in Approvers \union {Null}
                         /\ approvedBy[id] \in Approvers \/ id \in vouched
                         /\ id \in vouched => Definition[id].scope = "global"
  BY DEF Active, PolicyInv, RowsTyped, ActiveIsApproved
<1> HIDE DEF s
<1>3. s \in [ids -> Approvers \union {Null}]
  BY <1>1, <1>2
<1>4. s \in Snapshots
  BY <1>2, <1>3 DEF Snapshots
<1>5. \A id \in DOMAIN s : Definition[id].scope = "agent" => s[id] # Null
  BY <1>1, <1>2, RowsAssumption
<1>6. Approved(s)
  BY <1>1, <1>2 DEF Approved
<1> QED
  BY <1>4, <1>5, <1>6 DEF Attributed, s

\* What a request stage says of an answer.
LEMMA StageSays ==
  ASSUME NEW e \in Effects
  PROVE  /\ StageOf(e) \in {"denied", "pending_approval", "authorized"}
         /\ StageOf(e) = "pending_approval" <=> e = "require_approval"
         /\ StageOf(e) = "authorized" <=> e \in {"allow", "warn"}
BY DEF StageOf, Effects

LEMMA ProposeStep ==
  ASSUME PolicyInv, NEW r \in Requests, Propose(r)
  PROVE  PolicyInv'
<1> DEFINE s == engine[r]
           answer == Evaluate(Rows(s), Content[r], clock)
           hash == PolicySetHash(Rows(s), answer.matched)
<1>1. /\ stage[r] = "unborn" /\ s # Null
      /\ stage' = [stage EXCEPT ![r] = StageOf(answer.effect)]
      /\ recorded' = [recorded EXCEPT ![r] = hash]
      /\ engine' = [engine EXCEPT ![r] = Null]
      /\ UNCHANGED <<status, approvedBy, vouched, clock, held, human, checked>>
  BY DEF Propose, rowVars
<1>2. s \in Snapshots /\ Attributed(s)
  BY <1>1 DEF PolicyInv, SnapshotsApproved, Attributed
<1>3. /\ answer.matched \subseteq DOMAIN s /\ answer.effect \in Effects
      /\ answer.matched = {} => answer.effect = "require_approval"
      /\ answer.matched # {} => answer.effect = Resolution(Rows(s), answer.matched).effect
  BY <1>2, AnswerUnderSnapshot
<1>4. PICK M, e : M = answer.matched /\ e = answer.effect
  OBVIOUS
<1> HIDE DEF s, answer
<1>5. /\ stage'[r] = StageOf(e) /\ recorded'[r] = PolicySetHash(Rows(s), M)
      /\ engine'[r] = Null
      /\ \A q \in Requests : q # r => stage'[q] = stage[q] /\ recorded'[q] = recorded[q]
                                      /\ engine'[q] = engine[q]
  BY <1>1, <1>4 DEF PolicyInv, RequestsTyped
<1>6. RowsTyped' /\ ActiveIsApproved' /\ RequestsTyped'
  BY <1>1 DEF PolicyInv, RowsTyped, ActiveIsApproved, RequestsTyped
<1>7. SnapshotsApproved'
  <2>1. vouched' = vouched /\ held' = held
    BY <1>1
  <2> QED
    BY <1>5, <2>1 DEF PolicyInv, SnapshotsApproved, Approved, Attributed
<1>8. UnattendedIsPermitted'
  <2>1. ASSUME e \in {"allow", "warn"}
        PROVE  \E id \in Policies : /\ Definition[id].effect \in {"allow", "warn"}
                                    /\ <<id, Version(Definition[id])>> \in recorded'[r]
    <3>1. M # {} /\ Resolution(Rows(s), M).effect \in {"allow", "warn"}
      BY <1>3, <1>4, <2>1
    <3>2. IsFiniteSet(M) /\ \A id \in M : Rows(s)[id].priority \in Int
      BY <1>2, <1>3, <1>4, RowColumns, FS_Subset
    <3>3. PICK id \in M : Rows(s)[id].effect \in {"allow", "warn"}
      BY <3>1, <3>2, PermissionHasReason, ZenonT(40)
    <3>4. /\ id \in Policies /\ Definition[id].effect = Rows(s)[id].effect
          /\ Version(Rows(s)[id]) = Version(Definition[id])
      BY <1>2, <1>3, <1>4, RowColumns DEF Version
    <3>5. <<id, Version(Definition[id])>> \in PolicySetHash(Rows(s), M)
      BY <3>4 DEF PolicySetHash
    <3> QED
      BY <1>5, <3>3, <3>4, <3>5
  <2>2. stage'[r] \in {"authorized", "issued", "executing"} => e \in {"allow", "warn"}
    BY <1>3, <1>4, <1>5, StageSays
  <2>3. human' = human
    BY <1>1
  <2> QED
    BY <1>5, <2>1, <2>2, <2>3 DEF PolicyInv, UnattendedIsPermitted
<1>9. HumanWasAsked'
  <2>1. ~human[r]
    BY <1>1 DEF PolicyInv, HumanWasAsked
  <2>2. stage'[r] = "pending_approval" => AskedForHuman(recorded'[r])
    BY <1>2, <1>3, <1>4, <1>5, StageSays DEF AskedForHuman
  <2> QED
    BY <1>1, <1>5, <2>1, <2>2 DEF PolicyInv, HumanWasAsked
<1>10. CheckedRuns'
  BY <1>1, <1>5 DEF PolicyInv, CheckedRuns
<1> QED
  BY <1>6, <1>7, <1>8, <1>9, <1>10 DEF PolicyInv

\* A claim that was checked again under the proxy's snapshot is of a request that no
\* human approved.
LEMMA RevalidatedNeedsNoHuman ==
  ASSUME PolicyInv, NEW r \in Requests, held # Null, Revalidated(r)
  PROVE  ~human[r]
<1> SUFFICES ASSUME human[r]
             PROVE  FALSE
  OBVIOUS
<1> DEFINE answer == Evaluate(Rows(held), Content[r], clock)
<1>1. Attributed(held) /\ held \in Snapshots
  BY DEF PolicyInv, SnapshotsApproved, Attributed
<1>2a. PICK s \in Snapshots :
           \E M \in SUBSET DOMAIN s :
               /\ Attributed(s) /\ recorded[r] = PolicySetHash(Rows(s), M)
               /\ M # {} => Resolution(Rows(s), M).effect = "require_approval"
  BY DEF PolicyInv, HumanWasAsked, AskedForHuman
<1>2. PICK M \in SUBSET DOMAIN s :
          /\ Attributed(s) /\ recorded[r] = PolicySetHash(Rows(s), M)
          /\ M # {} => Resolution(Rows(s), M).effect = "require_approval"
  BY <1>2a
<1>3. /\ answer.effect \notin {"deny", "require_approval"}
      /\ PolicySetHash(Rows(held), answer.matched) = recorded[r]
  BY DEF Revalidated
<1>4. /\ answer.matched \subseteq DOMAIN held
      /\ answer.matched = {} => answer.effect = "require_approval"
      /\ answer.matched # {} => answer.effect = Resolution(Rows(held), answer.matched).effect
  BY <1>1, AnswerUnderSnapshot
<1> HIDE DEF answer
<1>5. answer.matched = M
  BY <1>2, <1>3, HashDetermines
<1>6. Resolution(Rows(held), M) = Resolution(Rows(s), M)
  BY <1>1, <1>2, <1>4, <1>5, SnapshotsResolveAlike
<1> QED
  BY <1>2, <1>3, <1>4, <1>5, <1>6

\* The steps of a request before and after it is proposed.
LEMMA RequestStep ==
  ASSUME PolicyInv, NEW r \in Requests,
         LoadEngine(r) \/ ApproveRequest(r) \/ IssueToken(r) \/ Claim(r)
  PROVE  PolicyInv'
<1>1. CASE LoadEngine(r)
  <2> DEFINE s == Snapshot(EffectiveFor(r))
  <2>1. /\ engine' = [engine EXCEPT ![r] = s]
        /\ UNCHANGED <<rowVars, stage, recorded, held, human, checked>>
    BY <1>1 DEF LoadEngine
  <2>2. Approved(s) /\ Attributed(s)
    BY SnapshotFacts DEF EffectiveFor
  <2> HIDE DEF s
  <2>3. SnapshotsApproved'
    BY <2>1, <2>2 DEF PolicyInv, SnapshotsApproved, RequestsTyped, Approved, Attributed, rowVars
  <2> QED
    BY <2>1, <2>3 DEF PolicyInv, rowVars, RowsTyped, ActiveIsApproved, RequestsTyped,
                      UnattendedIsPermitted, HumanWasAsked, CheckedRuns
<1>2. ASSUME UNCHANGED <<rowVars, engine, recorded, held>>
      PROVE  RowsTyped' /\ ActiveIsApproved' /\ SnapshotsApproved'
  BY <1>2 DEF PolicyInv, rowVars, RowsTyped, ActiveIsApproved, SnapshotsApproved, Approved,
              Attributed
<1>3. CASE ApproveRequest(r)
  <2>1. /\ stage[r] = "pending_approval"
        /\ stage' = [stage EXCEPT ![r] = "authorized"]
        /\ human' = [human EXCEPT ![r] = TRUE]
        /\ UNCHANGED <<rowVars, engine, recorded, held, checked>>
    BY <1>3 DEF ApproveRequest
  <2>2. /\ stage'[r] = "authorized" /\ human'[r]
        /\ \A q \in Requests : q # r => stage'[q] = stage[q] /\ human'[q] = human[q]
    BY <2>1 DEF PolicyInv, RequestsTyped
  <2>3. RequestsTyped'
    BY <2>1 DEF PolicyInv, RequestsTyped
  <2>4. UnattendedIsPermitted' /\ HumanWasAsked'
    BY <2>1, <2>2 DEF PolicyInv, UnattendedIsPermitted, HumanWasAsked
  <2>5. CheckedRuns'
    BY <2>1, <2>2 DEF PolicyInv, CheckedRuns
  <2> QED
    BY <1>2, <2>1, <2>3, <2>4, <2>5 DEF PolicyInv
<1>4. CASE IssueToken(r)
  <2>1. /\ stage[r] = "authorized"
        /\ stage' = [stage EXCEPT ![r] = "issued"]
        /\ UNCHANGED <<rowVars, engine, recorded, held, human, checked>>
    BY <1>4 DEF IssueToken
  <2>2. /\ stage'[r] = "issued"
        /\ \A q \in Requests : q # r => stage'[q] = stage[q]
    BY <2>1 DEF PolicyInv, RequestsTyped
  <2>3. RequestsTyped' /\ CheckedRuns'
    BY <2>1, <2>2 DEF PolicyInv, RequestsTyped, CheckedRuns
  <2>4. UnattendedIsPermitted' /\ HumanWasAsked'
    BY <2>1, <2>2 DEF PolicyInv, UnattendedIsPermitted, HumanWasAsked
  <2> QED
    BY <1>2, <2>1, <2>3, <2>4 DEF PolicyInv
<1>5. CASE Claim(r)
  <2>1. /\ stage[r] = "issued"
        /\ held # Null => Revalidated(r)
        /\ stage' = [stage EXCEPT ![r] = "executing"]
        /\ checked' = [checked EXCEPT ![r] = held # Null]
        /\ UNCHANGED <<rowVars, engine, recorded, held, human>>
    BY <1>5 DEF Claim
  <2>2. /\ stage'[r] = "executing" /\ checked'[r] = (held # Null)
        /\ \A q \in Requests : q # r => stage'[q] = stage[q] /\ checked'[q] = checked[q]
    BY <2>1 DEF PolicyInv, RequestsTyped
  <2>3. RequestsTyped'
    BY <2>1 DEF PolicyInv, RequestsTyped
  <2>4. UnattendedIsPermitted' /\ HumanWasAsked'
    BY <2>1, <2>2 DEF PolicyInv, UnattendedIsPermitted, HumanWasAsked
  <2>5. CheckedRuns'
    BY <2>1, <2>2, RevalidatedNeedsNoHuman DEF PolicyInv, CheckedRuns
  <2> QED
    BY <1>2, <2>1, <2>3, <2>4, <2>5 DEF PolicyInv
<1> QED
  BY <1>1, <1>3, <1>4, <1>5

LEMMA PolicyStep == PolicyInv /\ [Next]_vars => PolicyInv'
<1> SUFFICES ASSUME PolicyInv, [Next]_vars
             PROVE  PolicyInv'
  OBVIOUS
<1>1. CASE UNCHANGED <<rowVars, requestVars, held>>
  BY <1>1, RowsChange DEF PolicyInv, RowsTyped, ActiveIsApproved, rowVars
<1>2. ASSUME NEW id \in Policies,
             \/ Create(id) \/ Submit(id) \/ Retire(id) \/ RegisterAgent(id)
             \/ \E trusted \in BOOLEAN : ImportPolicy(id, trusted)
             \/ \E who \in Approvers : ApprovePolicy(id, who)
      PROVE  PolicyInv'
  BY <1>2, OperatorStep
<1>3. ASSUME NEW project, StartProxy(project)
      PROVE  PolicyInv'
  <2> DEFINE loaded == {id \in VisibleTo(project) : ScopeConsistent(Definition[id])}
  <2>1. /\ held' = IF loaded = {} THEN Null ELSE Snapshot(loaded)
        /\ UNCHANGED <<rowVars, requestVars>>
    BY <1>3 DEF StartProxy
  <2>2. Approved(Snapshot(loaded)) /\ Attributed(Snapshot(loaded))
    BY SnapshotFacts DEF VisibleTo
  <2> HIDE DEF loaded
  <2>3. SnapshotsApproved'
    BY <2>1, <2>2 DEF PolicyInv, SnapshotsApproved, Approved, Attributed, rowVars, requestVars
  <2> QED
    BY <2>1, <2>3 DEF PolicyInv, rowVars, requestVars, RowsTyped, ActiveIsApproved,
                      RequestsTyped, UnattendedIsPermitted, HumanWasAsked, CheckedRuns
<1>4. CASE Tick \/ UNCHANGED vars
  BY <1>1, <1>4 DEF Tick, vars, rowVars, requestVars
<1> QED
  BY <1>2, <1>3, <1>4, ProposeStep, RequestStep DEF Next

LEMMA PolicyInvariant == Spec => []PolicyInv
BY PolicyInit, PolicyStep, PTL DEF Spec

\* Whatever governs a request or a proxy was approved or brought by a trusted import, however
\* the unguarded updates of the rows interleave (PolicyRepository).
THEOREM OnlyApprovedPoliciesGovern == Spec => []PoliciesGovernApproved
<1>1. ASSUME PolicyInv
      PROVE  PoliciesGovernApproved
  <2>1. Approved(Snapshot(Active))
    BY <1>1, SnapshotFacts
  <2> QED
    BY <1>1, <2>1 DEF PolicyInv, SnapshotsApproved, PoliciesGovernApproved
<1> QED
  BY <1>1, PolicyInvariant, PTL

\* A request authorized without a human was matched by a policy that permits (propose).
THEOREM UnattendedOnlyIfPermitted == Spec => []UnattendedIsPermitted
<1>1. PolicyInv => UnattendedIsPermitted
  BY DEF PolicyInv
<1> QED
  BY <1>1, PolicyInvariant, PTL

\* What a human approved never passes the revalidation before a claim
\* (GovernedProxy.execute, steps 5b to 5e).
THEOREM RevalidatedWithoutHuman == Spec => []RevalidationExcludesApprovals
<1>1. PolicyInv => RevalidationExcludesApprovals
  BY DEF PolicyInv, CheckedRuns, RevalidationExcludesApprovals
<1> QED
  BY <1>1, PolicyInvariant, PTL

=============================================================================
