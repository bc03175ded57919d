----------------------------- MODULE WorkClaims -----------------------------
(***************************************************************************)
(* Work claims: an agent claims a region of a branch and releases it later *)
(* by the claim's identifier. A call runs in its caller's transaction,     *)
(* which commits or aborts after it; the caller may not learn which, and   *)
(* may ask again. The unique index on the active claim of a region makes   *)
(* an insert wait for a transaction that could still change the answer.    *)
(***************************************************************************)
EXTENDS Absence, Integers, FiniteSets

CONSTANTS Workers, Regions,
          ClaimIds  \* the claims that may be made: a bound

VARIABLES claims,   \* ep_work_claims as committed: claims[id], or Null
          doing,    \* the open transaction of each agent, or Null
          dropped   \* history: claims their holder has asked to release

claimVars == <<claims, doing, dropped>>

ClaimInit == /\ claims = [id \in ClaimIds |-> Null]
             /\ doing = [w \in Workers |-> Null]
             /\ dropped = {}

Active(id) == claims[id] /= Null /\ claims[id].status = "active"

HeldBy(r) == {id \in ClaimIds : Active(id) /\ claims[id].region = r}

Open == {doing[w] : w \in Workers} \ {Null}

\* Another transaction has claimed the region, or is releasing it.
FaultyInDoubt(r) == FALSE

InDoubt(r) ==
    \E t \in Open : \/ t.op = "claim" /\ t.region = r
                    \/ t.op = "release" /\ t.rows \intersect HeldBy(r) /= {}

\* claim, up to the end of its INSERT: it waits while the region is in doubt; on a
\* conflict it returns None, which changes nothing.
Claim(w, r) ==
    /\ doing[w] = Null
    /\ ~InDoubt(r) /\ HeldBy(r) = {}
    /\ \E id \in ClaimIds :
           /\ claims[id] = Null
           /\ \A t \in Open : t.op = "claim" => t.id /= id
           /\ doing' = [doing EXCEPT ![w] = [op |-> "claim", id |-> id, region |-> r]]
    /\ UNCHANGED <<claims, dropped>>

\* The rows an UPDATE of release finds: the claim itself, while it is active.
FaultyReleased(id) == HeldBy(claims[id].region)

Released(id) == {x \in {id} : Active(x)}

\* release, by the agent the claim was returned to, perhaps for the second time. It waits
\* for a transaction that has updated the row.
Release(w, id) ==
    /\ doing[w] = Null
    /\ claims[id] /= Null /\ claims[id].worker = w
    /\ \A t \in Open : t.op = "release" => t.rows \intersect Released(id) = {}
    /\ doing' = [doing EXCEPT ![w] = [op |-> "release", rows |-> Released(id)]]
    /\ dropped' = dropped \union {id}
    /\ UNCHANGED claims

CommitClaim(w) ==
    /\ doing[w] /= Null
    /\ claims' = [id \in ClaimIds |->
           CASE doing[w].op = "claim" /\ id = doing[w].id ->
                    [worker |-> w, region |-> doing[w].region, status |-> "active"]
             [] doing[w].op = "release" /\ id \in doing[w].rows ->
                    [claims[id] EXCEPT !.status = "released"]
             [] OTHER -> claims[id]]
    /\ doing' = [doing EXCEPT ![w] = Null]
    /\ UNCHANGED dropped

AbortClaim(w) == /\ doing[w] /= Null
                 /\ doing' = [doing EXCEPT ![w] = Null]
                 /\ UNCHANGED <<claims, dropped>>

ClaimNext == \E w \in Workers :
                 \/ \E r \in Regions : Claim(w, r)
                 \/ \E id \in ClaimIds : Release(w, id)
                 \/ CommitClaim(w) \/ AbortClaim(w)

ClaimSpec == ClaimInit /\ [][ClaimNext]_claimVars

(***************************************************************************)
(* Properties                                                              *)
(***************************************************************************)
\* However claims, releases and their transactions interleave, a region has at most one
\* active claim (WorkClaimRepository.claim and the partial unique index).
OneHolderPerRegion == \A r \in Regions : Cardinality(HeldBy(r)) <= 1

\* A claim is lost only by a release of that claim: repeating an old release after the
\* region has a new holder takes nothing from it (WorkClaimRepository.release).
NobodyLosesAClaim ==
    \A id \in ClaimIds : claims[id] /= Null /\ id \notin dropped => Active(id)

=============================================================================
