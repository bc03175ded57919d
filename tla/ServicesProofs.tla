---------------------------- MODULE ServicesProofs ----------------------------
(***************************************************************************)
(* Proofs about the services around the engine, each on its own: the       *)
(* identifiers, the enrollment of the administrator, the claims of work,   *)
(* the rate limiter of the proxy and the restore of a backup.              *)
(***************************************************************************)
EXTENDS Identifiers, Enrollment, WorkClaims, ProxyService, Backup, FiniteSetTheorems, TLAPS

(***************************************************************************)
(* Proofs of the properties of Identifiers, for any width of the counter   *)
(* and any settings of the clock. The counts of two identifiers less than  *)
(* a turn apart are related by addition that wraps once; that, and not the *)
(* remainder, is what makes the invariant inductive.                       *)
(***************************************************************************)

\* The count that follows c after d < Width steps.
After(c, d) == IF c + d < Width THEN c + d ELSE c + d - Width

IdTypes == /\ wall \in Nat /\ last_timestamp \in Nat
           /\ counter \in 0..(Width - 1)
           /\ made \in Seq([timestamp : Nat, count : 0..(Width - 1)])

\* The globals are those of the last identifier.
GlobalsAreLast == /\ \A i \in 1..Len(made) : made[i].timestamp <= last_timestamp
                  /\ Len(made) > 0 => counter = made[Len(made)].count

\* Less than a turn apart, counts are related by After.
CountsAdvance ==
    \A i, j \in 1..Len(made) :
        i < j /\ j - i < Width => made[j].count = After(made[i].count, j - i)

\* Identifiers sort in the order in which they were made, to the second, even when the
\* clock is set back again and again (XID.new).
TimestampsNeverFall ==
    \A i, j \in 1..Len(made) : i < j => made[i].timestamp <= made[j].timestamp

IdInv == IdTypes /\ GlobalsAreLast /\ TimestampsNeverFall /\ CountsAdvance

LEMMA ElementTypes ==
    ASSUME Width \in Nat \ {0}, IdTypes
    PROVE  Len(made) \in Nat /\ \A i \in 1..Len(made) :
               made[i].timestamp \in Nat /\ made[i].count \in 0..(Width - 1)
<1> DEFINE Id == [timestamp : Nat, count : 0..(Width - 1)]
<1>1. made \in Seq(Id)
  BY DEF IdTypes
<1>2. ASSUME NEW x \in Id
      PROVE  x.timestamp \in Nat /\ x.count \in 0..(Width - 1)
  OBVIOUS
<1> HIDE DEF Id
<1>3. Len(made) \in Nat /\ \A i \in 1..Len(made) : made[i] \in Id
  BY <1>1
<1> QED
  BY <1>2, <1>3

LEMMA StampIsNat ==
    ASSUME wall \in Nat, last_timestamp \in Nat
    PROVE  Stamp \in Nat /\ Stamp >= last_timestamp
BY DEF Stamp

LEMMA CountIsNext ==
    ASSUME Width \in Nat \ {0}, counter \in 0..(Width - 1)
    PROVE  Count \in 0..(Width - 1) /\ Count = After(counter, 1)
<1>1. CASE counter + 1 < Width
  BY <1>1 DEF Count, After
<1>2. CASE counter + 1 = Width
  <2>1. Width % Width = 0
    OBVIOUS
  <2> QED
    BY <1>2, <2>1 DEF Count, After
<1> QED
  BY <1>1, <1>2

LEMMA IdInitInv == ASSUME LastTick \in Nat, Width \in Nat \ {0}
                   PROVE  IdInit => IdInv
BY DEF IdInit, IdInv, IdTypes, GlobalsAreLast, TimestampsNeverFall, CountsAdvance

LEMMA IdStepInv == ASSUME LastTick \in Nat, Width \in Nat \ {0}
                   PROVE  IdInv /\ [IdNext]_idVars => IdInv'
<1> SUFFICES ASSUME IdInv, [IdNext]_idVars
             PROVE  IdInv'
  OBVIOUS
<1>1. CASE UNCHANGED idVars
  BY <1>1 DEF idVars, IdInv, IdTypes, GlobalsAreLast, TimestampsNeverFall, CountsAdvance
<1>2. CASE SetClock
  BY <1>2 DEF SetClock, IdInv, IdTypes, GlobalsAreLast, TimestampsNeverFall, CountsAdvance
<1>3. CASE NewId
  <2> DEFINE n == Len(made)
             new == [timestamp |-> Stamp, count |-> Count]
  <2>1. /\ n \in Nat /\ wall' = wall
        /\ Stamp \in Nat /\ Stamp >= last_timestamp
        /\ Count \in 0..(Width - 1) /\ Count = After(counter, 1)
    BY <1>3, StampIsNat, CountIsNext DEF NewId, IdInv, IdTypes
  <2>2. /\ last_timestamp' = Stamp /\ counter' = Count /\ made' = Append(made, new)
    BY <1>3 DEF NewId
  <2>3. /\ made' \in Seq([timestamp : Nat, count : 0..(Width - 1)])
        /\ Len(made') = n + 1 /\ made'[n + 1] = new
        /\ \A i \in 1..n : made'[i] = made[i]
    BY <2>1, <2>2 DEF IdInv, IdTypes
  <2>4. new.timestamp = Stamp /\ new.count = Count
    OBVIOUS
  <2> HIDE DEF n, new
  <2>5. IdTypes'
    BY <2>1, <2>2, <2>3 DEF IdInv, IdTypes
  <2>6. \A i \in 1..n : made[i].timestamp \in Nat /\ made[i].timestamp <= last_timestamp
    BY ElementTypes DEF IdInv, GlobalsAreLast, n
  <2>7. \A i \in 1..n : /\ made'[i].timestamp = made[i].timestamp
                          /\ made'[i].count = made[i].count
    BY <2>3
  <2>8. made'[n + 1].timestamp = Stamp /\ made'[n + 1].count = Count
    BY <2>3, <2>4
  <2>9. GlobalsAreLast'
    <3>1. ASSUME NEW i \in 1..(n + 1)
          PROVE  made'[i].timestamp <= Stamp
      <4>1. CASE i = n + 1
        BY <2>1, <2>8, <4>1
      <4>2. CASE i \in 1..n
        <5>1. made'[i].timestamp <= last_timestamp /\ made'[i].timestamp \in Nat
          BY <2>6, <2>7, <4>2
        <5> QED
          BY <2>1, <5>1 DEF IdInv, IdTypes
      <4> QED
        BY <2>1, <4>1, <4>2
    <3> QED
      BY <2>1, <2>2, <2>3, <2>8, <3>1 DEF GlobalsAreLast
  <2>10. TimestampsNeverFall'
    <3>1. ASSUME NEW i \in 1..(n + 1), NEW j \in 1..(n + 1), i < j
          PROVE  made'[i].timestamp <= made'[j].timestamp
      <4>1. CASE j = n + 1
        <5>1. i \in 1..n
          BY <2>1, <3>1, <4>1
        <5>2. made'[i].timestamp <= last_timestamp /\ made'[i].timestamp \in Nat
          BY <2>6, <2>7, <5>1
        <5> QED
          BY <2>1, <2>8, <4>1, <5>2 DEF IdInv, IdTypes
      <4>2. CASE j \in 1..n
        <5>1. i \in 1..n
          BY <2>1, <3>1, <4>2
        <5>2. made[i].timestamp <= made[j].timestamp
          BY <3>1, <4>2, <5>1 DEF IdInv, TimestampsNeverFall, n
        <5> QED
          BY <2>7, <4>2, <5>1, <5>2
      <4> QED
        BY <2>1, <4>1, <4>2
    <3> QED
      BY <2>3, <3>1 DEF TimestampsNeverFall
  <2>11. CountsAdvance'
    <3>1. ASSUME NEW i \in 1..(n + 1), NEW j \in 1..(n + 1), i < j, j - i < Width
          PROVE  made'[j].count = After(made'[i].count, j - i)
      <4>1. CASE j \in 1..n
        <5>1. i \in 1..n
          BY <2>1, <3>1, <4>1
        <5>2. made[j].count = After(made[i].count, j - i)
          BY <3>1, <4>1, <5>1 DEF IdInv, CountsAdvance, n
        <5> QED
          BY <2>7, <4>1, <5>1, <5>2
      <4>2. CASE j = n + 1 /\ i = n
        <5>1. n > 0 /\ n \in 1..n /\ j - i = 1
          BY <2>1, <3>1, <4>2
        <5>2. made'[i].count = counter
          BY <2>7, <4>2, <5>1 DEF IdInv, GlobalsAreLast, n
        <5> QED
          BY <2>1, <2>8, <4>2, <5>1, <5>2
      <4>3. CASE j = n + 1 /\ i < n
        <5>1. i \in 1..n /\ n \in 1..n /\ i < n /\ n - i < Width
          BY <2>1, <3>1, <4>3
        <5>2. counter = After(made[i].count, n - i)
          BY <5>1 DEF IdInv, CountsAdvance, GlobalsAreLast, n
        <5>3. made[i].count \in 0..(Width - 1)
          BY <5>1, ElementTypes DEF IdInv, n
        <5>4. Count = After(made[i].count, n + 1 - i)
          BY <2>1, <3>1, <4>3, <5>1, <5>2, <5>3 DEF After
        <5> QED
          BY <2>7, <2>8, <4>3, <5>1, <5>4
      <4> QED
        BY <2>1, <3>1, <4>1, <4>2, <4>3
    <3> QED
      BY <2>1, <2>3, <3>1 DEF CountsAdvance
  <2> QED
    BY <2>5, <2>9, <2>10, <2>11 DEF IdInv
<1> QED
  BY <1>1, <1>2, <1>3 DEF IdNext

LEMMA EqualNeedsWrap == ASSUME Width \in Nat \ {0}, IdInv
                        PROVE  EqualOnlyAfterWrap
<1> SUFFICES ASSUME NEW i \in 1..Len(made), NEW j \in 1..Len(made), i < j,
                    made[i] = made[j]
             PROVE  /\ j - i >= Width
                    /\ \A k \in i..j : made[k].timestamp = made[i].timestamp
  BY DEF EqualOnlyAfterWrap
<1>1. Len(made) \in Nat /\ \A k \in 1..Len(made) :
          made[k].timestamp \in Nat /\ made[k].count \in 0..(Width - 1)
  BY ElementTypes DEF IdInv
<1>2. j - i >= Width
  <2>1. ASSUME j - i < Width
        PROVE  FALSE
    <3>1. made[j].count = After(made[i].count, j - i)
      BY <2>1 DEF IdInv, CountsAdvance
    <3>2. made[i].count = made[j].count /\ made[i].count \in 0..(Width - 1)
      BY <1>1
    <3>3. \A x \in 0..(Width - 1), d \in 1..(Width - 1) : After(x, d) # x
      BY DEF After
    <3>4. j - i \in 1..(Width - 1)
      BY <1>1, <2>1
    <3> QED
      BY <3>1, <3>2, <3>3, <3>4
  <2> QED
    BY <1>1, <2>1
<1>3. ASSUME NEW k \in i..j
      PROVE  made[k].timestamp = made[i].timestamp
  <2>1. k \in 1..Len(made)
    BY <1>1
  <2>2. made[i].timestamp <= made[k].timestamp /\ made[k].timestamp <= made[j].timestamp
    BY <1>1, <2>1 DEF IdInv, TimestampsNeverFall
  <2> QED
    BY <1>1, <2>1, <2>2
<1> QED
  BY <1>2, <1>3

\* Identifiers sort by the time they were made (XID.new).
THEOREM IdentifiersSort == ASSUME LastTick \in Nat, Width \in Nat \ {0}
                           PROVE  IdSpec => []TimestampsNeverFall
<1>1. IdInv => TimestampsNeverFall
  BY DEF IdInv
<1> QED
  BY <1>1, IdInitInv, IdStepInv, PTL DEF IdSpec

\* Identifiers of a process repeat only when the counter goes around in one second of
\* the clock (XID.new).
THEOREM IdentifiersRepeatOnlyAfterWrap == ASSUME LastTick \in Nat, Width \in Nat \ {0}
                                          PROVE  IdSpec => []EqualOnlyAfterWrap
<1>1. IdInv => EqualOnlyAfterWrap
  BY EqualNeedsWrap
<1> QED
  BY <1>1, IdInitInv, IdStepInv, PTL DEF IdSpec

(***************************************************************************)
(* Proofs of the properties of Enrollment on PostgreSQL, for any           *)
(* principals, operators, roles and tools. What an enrolling operator has  *)
(* read stays true until it commits, or its transaction fails; roles are   *)
(* never taken away, so what a call has read is held when it is answered.  *)
(***************************************************************************)

\* The administrators are whoever completed the enrollment.
Settled == /\ completed_by = Null => Administrators = {}
           /\ completed_by /= Null => /\ completed_by \in Humans
                                      /\ Administrators = {completed_by}

\* An enrollment in progress has seen no administrator.
EnrollingSeen ==
    \A o \in Operators : enrolling[o] /= Null =>
        enrolling[o].principal \in Humans /\ enrolling[o].evidence = <<Null, {}>>

\* What a call has read is still the case.
AskingSeen ==
    \A p \in Principals : asking[p] /= Null =>
        /\ asking[p].held \subseteq RolesOf(p)
        /\ asking[p].enrolled => completed_by /= Null

AreFunctions == /\ enrolling = [o \in Operators |-> enrolling[o]]
                /\ asking = [p \in Principals |-> asking[p]]

\* A call that was admitted came from a principal.
CallersKnown == admitted /= Null => admitted.caller \in Principals

EnrollmentInv == AreFunctions /\ Settled /\ EnrollingSeen /\ AskingSeen
                 /\ CallersKnown /\ SetupEndsWithEnrollment

LEMMA EnrollmentInitInv == EnrollmentInit => EnrollmentInv
BY DEF EnrollmentInit, EnrollmentInv, AreFunctions, Settled, EnrollingSeen, AskingSeen,
       CallersKnown, SetupEndsWithEnrollment, Administrators, RolesOf

\* A new binding takes no role away and makes at most its principal an administrator.
LEMMA BindingsGrow ==
    ASSUME bindings \subseteq bindings'
    PROVE  \A p \in Principals : RolesOf(p) \subseteq RolesOf(p)'
BY DEF RolesOf

LEMMA OneMoreBinding ==
    ASSUME NEW q, NEW role, bindings' = bindings \union {<<q, role>>}
    PROVE  \A p \in Principals :
               "administrator" \in RolesOf(p)' <=>
                   "administrator" \in RolesOf(p) \/ (p = q /\ role = "administrator")
<1> SUFFICES ASSUME NEW p \in Principals
             PROVE  "administrator" \in RolesOf(p)' <=>
                        "administrator" \in RolesOf(p) \/ (p = q /\ role = "administrator")
  OBVIOUS
<1>1. \A a : "administrator" \in RolesOf(a) <=> \E b \in bindings : b[1] = a /\ b[2] = "administrator"
  BY DEF RolesOf
<1>2. "administrator" \in RolesOf(p)' <=> \E b \in bindings' : b[1] = p /\ b[2] = "administrator"
  BY DEF RolesOf
<1>3. <<q, role>>[1] = q /\ <<q, role>>[2] = role
  OBVIOUS
<1> QED
  BY <1>1, <1>2, <1>3

\* What was admitted stays justified, whatever is bound later.
LEMMA AdmittedStays ==
    ASSUME SetupEndsWithEnrollment, bindings \subseteq bindings', admitted' = admitted,
           admitted /= Null => admitted.caller \in Principals
    PROVE  SetupEndsWithEnrollment'
BY BindingsGrow DEF SetupEndsWithEnrollment

\* An enrollment that commits makes the first administrator.
LEMMA EnrollStep ==
    ASSUME Dialect = "postgresql", Null \notin Principals, EnrollmentInv,
           NEW o \in Operators, Enroll(o)
    PROVE  EnrollmentInv'
<1> DEFINE q == enrolling[o].principal
<1>1. completed_by = Null /\ Administrators = {} /\ q \in Humans
  <2>1. enrolling[o].evidence = <<completed_by, Administrators>>
    BY DEF Enroll, MayCommit, Evidence
  <2>2. enrolling[o].evidence = <<Null, {}>> /\ q \in Humans
    BY DEF Enroll, EnrollmentInv, EnrollingSeen
  <2> QED
    BY <2>1, <2>2
<1>2. /\ bindings' = bindings \union {<<q, "administrator">>}
      /\ completed_by' = q /\ enrolling' = [enrolling EXCEPT ![o] = Null]
      /\ asking' = asking /\ admitted' = admitted
  BY DEF Enroll
<1> HIDE DEF q
<1>3. \A p \in Principals : RolesOf(p) \subseteq RolesOf(p)'
  BY <1>2, BindingsGrow
<1>4. Settled'
  <2>1. \A p \in Principals : p \in Administrators' <=> p = q
    BY <1>1, <1>2, OneMoreBinding DEF Administrators
  <2>2. Administrators' = {q}
    BY <1>1, <2>1 DEF Administrators, Principals
  <2> QED
    BY <1>1, <1>2, <2>2 DEF Settled, Principals
<1>5. AreFunctions' /\ EnrollingSeen'
  BY <1>2 DEF EnrollmentInv, AreFunctions, EnrollingSeen
<1>6. AskingSeen'
  BY <1>1, <1>2, <1>3 DEF EnrollmentInv, AskingSeen, Principals
<1>7. CallersKnown' /\ SetupEndsWithEnrollment'
  BY <1>2, AdmittedStays DEF EnrollmentInv, CallersKnown
<1> QED
  BY <1>4, <1>5, <1>6, <1>7 DEF EnrollmentInv

\* An agent that is registered does not become an administrator.
LEMMA RegisterStep ==
    ASSUME EnrollmentInv, NEW a \in Agents, Register(a)
    PROVE  EnrollmentInv'
<1>1. /\ bindings' = bindings \union {<<a, "agent">>}
      /\ completed_by' = completed_by /\ enrolling' = enrolling
      /\ asking' = asking /\ admitted' = admitted
  BY DEF Register
<1>2. \A p \in Principals : RolesOf(p) \subseteq RolesOf(p)'
  BY <1>1, BindingsGrow
<1>3. Administrators' = Administrators
  BY <1>1, OneMoreBinding DEF Administrators
<1>4. Settled' /\ AreFunctions' /\ EnrollingSeen'
  BY <1>1, <1>3 DEF EnrollmentInv, Settled, AreFunctions, EnrollingSeen
<1>5. AskingSeen'
  BY <1>1, <1>2 DEF EnrollmentInv, AskingSeen
<1>6. CallersKnown' /\ SetupEndsWithEnrollment'
  BY <1>1, AdmittedStays DEF EnrollmentInv, CallersKnown
<1> QED
  BY <1>4, <1>5, <1>6 DEF EnrollmentInv

\* A call that has read the completed enrollment is admitted for a role alone.
LEMMA AnswerStep ==
    ASSUME Null \notin Principals, EnrollmentInv, NEW p \in Principals, Answer(p)
    PROVE  EnrollmentInv'
<1>1. /\ asking[p] /= Null /\ asking' = [asking EXCEPT ![p] = Null]
      /\ UNCHANGED <<bindings, completed_by, enrolling>>
  BY DEF Answer
<1>2. Settled' /\ EnrollingSeen'
  BY <1>1 DEF EnrollmentInv, Settled, EnrollingSeen, Administrators, RolesOf
<1>3. AreFunctions' /\ AskingSeen'
  BY <1>1 DEF EnrollmentInv, AreFunctions, AskingSeen, RolesOf
<1>4. CASE ~Authorized(p)
  <2>1. admitted' = admitted
    BY <1>4 DEF Answer
  <2> QED
    BY <1>1, <1>2, <1>3, <2>1, AdmittedStays DEF EnrollmentInv, CallersKnown
<1>5. CASE Authorized(p)
  <2>1. admitted'.caller = p /\ admitted'.tool = asking[p].tool
    BY <1>5 DEF Answer
  <2>2. admitted'.enrolled => asking[p].enrolled
    BY <1>5 DEF Answer
  <2>3. ASSUME asking[p].enrolled
        PROVE  RolesOf(p) \intersect Required[asking[p].tool] /= {}
    <3>1. asking[p].held \subseteq RolesOf(p) /\ completed_by /= Null
      BY <1>1, <2>3 DEF EnrollmentInv, AskingSeen
    <3>2. completed_by \in BoundHumans
      BY <3>1 DEF EnrollmentInv, Settled, Administrators, BoundHumans
    <3>3. asking[p].held \intersect Required[asking[p].tool] /= {}
      BY <1>5, <3>2 DEF Authorized, MaySetUp
    <3> QED
      BY <3>1, <3>3
  <2>4. CallersKnown' /\ SetupEndsWithEnrollment'
    BY <1>1, <2>1, <2>2, <2>3 DEF CallersKnown, SetupEndsWithEnrollment, RolesOf
  <2> QED
    BY <1>2, <1>3, <2>4 DEF EnrollmentInv
<1> QED
  BY <1>4, <1>5

LEMMA EnrollmentStep ==
    ASSUME Dialect = "postgresql", Null \notin Principals
    PROVE  EnrollmentInv /\ [EnrollmentNext]_enrollmentVars => EnrollmentInv'
<1> SUFFICES ASSUME EnrollmentInv, [EnrollmentNext]_enrollmentVars
             PROVE  EnrollmentInv'
  OBVIOUS
<1> USE DEF EnrollmentInv, AreFunctions, Settled, EnrollingSeen, AskingSeen, CallersKnown,
            SetupEndsWithEnrollment, Administrators, RolesOf
<1>1. CASE UNCHANGED enrollmentVars
  BY <1>1 DEF enrollmentVars
<1>2. ASSUME NEW o \in Operators, NEW p \in Principals, CheckEnrollment(o, p)
      PROVE  EnrollmentInv'
  BY <1>2 DEF CheckEnrollment, Evidence
<1>3. ASSUME NEW o \in Operators, AbandonEnrollment(o)
      PROVE  EnrollmentInv'
  BY <1>3 DEF AbandonEnrollment
<1>4. ASSUME NEW p \in Principals, NEW tool \in Tools, Ask(p, tool)
      PROVE  EnrollmentInv'
  BY <1>4, ZenonT(30) DEF Ask
<1>5. CASE SwitchMode
  BY <1>5 DEF SwitchMode
<1> QED
  BY <1>1, <1>2, <1>3, <1>4, <1>5, EnrollStep, RegisterStep, AnswerStep DEF EnrollmentNext

\* Operators who enroll at the same time make at most one administrator, where the
\* database fails the transaction that read what another changed (bootstrap_admin).
THEOREM OneAdministratorAtMost ==
    ASSUME Dialect = "postgresql", Null \notin Principals
    PROVE  EnrollmentSpec => []AtMostOneAdministrator
<1>1. ASSUME EnrollmentInv
      PROVE  AtMostOneAdministrator
  <2>1. Administrators = {} \/ \E q \in Humans : Administrators = {q}
    BY <1>1 DEF EnrollmentInv, Settled
  <2> QED
    BY <2>1, FS_EmptySet, FS_Singleton, SMTT(30) DEF AtMostOneAdministrator
<1> QED
  BY <1>1, EnrollmentInitInv, EnrollmentStep, PTL DEF EnrollmentSpec

\* The state of the bootstrap names the administrator, and there is none without it
\* (bootstrap_admin, steps e and f).
THEOREM BootstrapNamesAdministrator ==
    ASSUME Dialect = "postgresql", Null \notin Principals
    PROVE  EnrollmentSpec => []CompletedNamesAdministrator
<1>1. EnrollmentInv => CompletedNamesAdministrator
  BY DEF EnrollmentInv, Settled, CompletedNamesAdministrator
<1> QED
  BY <1>1, EnrollmentInitInv, EnrollmentStep, PTL DEF EnrollmentSpec

\* Bootstrap mode admits nobody without a role once the administrator is enrolled
\* (_check_role).
THEOREM BootstrapModeEnds ==
    ASSUME Dialect = "postgresql", Null \notin Principals
    PROVE  EnrollmentSpec => []SetupEndsWithEnrollment
<1>1. EnrollmentInv => SetupEndsWithEnrollment
  BY DEF EnrollmentInv
<1> QED
  BY <1>1, EnrollmentInitInv, EnrollmentStep, PTL DEF EnrollmentSpec

(***************************************************************************)
(* Proofs of the properties of WorkClaims, for any workers, regions and    *)
(* claims. A transaction that is about to claim a region keeps everyone    *)
(* else from claiming it; a release only names its own claim.              *)
(***************************************************************************)

Claims == [worker : Workers, region : Regions, status : {"active", "released"}]

Transactions == [op : {"claim"}, id : ClaimIds, region : Regions]
                    \union [op : {"release"}, rows : SUBSET ClaimIds]

ClaimTypes == /\ claims \in [ClaimIds -> Claims \union {Null}]
              /\ doing \in [Workers -> Transactions \union {Null}]

Claiming(w) == doing[w] /= Null /\ doing[w].op = "claim"

Releasing(w) == doing[w] /= Null /\ doing[w].op = "release"

\* At most one active claim of a region.
Alone == \A x, y \in ClaimIds :
             Active(x) /\ Active(y) /\ claims[x].region = claims[y].region => x = y

\* What an open claim relies on.
ClaimsReserve ==
    \A w \in Workers : Claiming(w) =>
        /\ claims[doing[w].id] = Null
        /\ HeldBy(doing[w].region) = {}
        /\ \A v \in Workers : v /= w /\ Claiming(v) =>
               doing[v].id /= doing[w].id /\ doing[v].region /= doing[w].region

\* Who releases has asked for it, and names claims that exist.
ReleasesAreAsked ==
    \A w \in Workers : Releasing(w) =>
        \A id \in doing[w].rows : id \in dropped /\ claims[id] /= Null

ClaimInv == ClaimTypes /\ Alone /\ ClaimsReserve /\ ReleasesAreAsked /\ NobodyLosesAClaim

LEMMA ClaimTyped ==
    ASSUME NEW w \in Workers, Null \notin Transactions, ClaimTypes
    PROVE  /\ Claiming(w) => doing[w].id \in ClaimIds /\ doing[w].region \in Regions
           /\ Releasing(w) => doing[w].rows \in SUBSET ClaimIds
           /\ doing[w] /= Null => Claiming(w) \/ Releasing(w)
BY DEF ClaimTypes, Claiming, Releasing, Transactions

\* What a commit does to the claims, by the kind of the transaction.
LEMMA CommitEffect ==
    ASSUME NEW w \in Workers, Null \notin Transactions, ClaimInv, CommitClaim(w)
    PROVE  /\ doing' = [doing EXCEPT ![w] = Null]
           /\ Claiming(w) =>
                  claims' = [claims EXCEPT ![doing[w].id] =
                      [worker |-> w, region |-> doing[w].region, status |-> "active"]]
           /\ Releasing(w) =>
                  claims' = [id \in ClaimIds |->
                      IF id \in doing[w].rows THEN [claims[id] EXCEPT !.status = "released"]
                                              ELSE claims[id]]
BY ClaimTyped DEF CommitClaim, Claiming, Releasing, ClaimInv, ClaimTypes

LEMMA ClaimInitInv == ClaimInit => ClaimInv
BY DEF ClaimInit, ClaimInv, ClaimTypes, Alone, ClaimsReserve, ReleasesAreAsked,
       NobodyLosesAClaim, Active, Claiming, Releasing

\* While the claims stay, the invariant is about one transaction and those that were open.
LEMMA OpenStep ==
    ASSUME NEW w \in Workers, NEW t \in Transactions \union {Null}, ClaimInv,
           doing' = [doing EXCEPT ![w] = t], claims' = claims,
           dropped \subseteq dropped',
           t /= Null /\ t.op = "claim" =>
               /\ claims[t.id] = Null /\ HeldBy(t.region) = {}
               /\ \A v \in Workers : v /= w /\ Claiming(v) =>
                      doing[v].id /= t.id /\ doing[v].region /= t.region,
           t /= Null /\ t.op = "release" =>
               \A id \in t.rows : id \in dropped' /\ claims[id] /= Null
    PROVE  ClaimInv'
<1>1. ClaimTypes'
  BY DEF ClaimInv, ClaimTypes
<1>2. doing'[w] = t /\ \A v \in Workers : v /= w => doing'[v] = doing[v]
  BY DEF ClaimInv, ClaimTypes
<1>3. \A id \in ClaimIds : Active(id)' <=> Active(id)
  BY DEF Active
<1>4. Alone' /\ NobodyLosesAClaim'
  BY <1>3 DEF ClaimInv, Alone, NobodyLosesAClaim
<1>5. \A r : HeldBy(r)' = HeldBy(r)
  BY DEF HeldBy, Active
<1>6. ClaimsReserve'
  <2>1. ASSUME NEW v \in Workers, Claiming(v)'
        PROVE  claims[doing'[v].id] = Null /\ HeldBy(doing'[v].region) = {}
    BY <1>2, <2>1 DEF ClaimInv, ClaimsReserve, Claiming
  <2>2. ASSUME NEW v \in Workers, NEW u \in Workers, u /= v, Claiming(v)', Claiming(u)'
        PROVE  doing'[u].id /= doing'[v].id /\ doing'[u].region /= doing'[v].region
    <3>1. CASE v = w
      BY <1>2, <2>2, <3>1 DEF Claiming
    <3>2. CASE u = w
      BY <1>2, <2>2, <3>2 DEF Claiming
    <3>3. CASE v /= w /\ u /= w
      BY <1>2, <2>2, <3>3 DEF ClaimInv, ClaimsReserve, Claiming
    <3> QED
      BY <3>1, <3>2, <3>3
  <2> QED
    BY <1>5, <2>1, <2>2 DEF ClaimsReserve
<1>7. ReleasesAreAsked'
  BY <1>2 DEF ClaimInv, ReleasesAreAsked, Releasing
<1> QED
  BY <1>1, <1>4, <1>6, <1>7 DEF ClaimInv

\* A claim that is committed becomes the only one of its region.
LEMMA CommitClaimStep ==
    ASSUME NEW w \in Workers, Null \notin Claims, Null \notin Transactions,
           ClaimInv, CommitClaim(w), Claiming(w)
    PROVE  ClaimInv'
<1> DEFINE id == doing[w].id
           r  == doing[w].region
           c  == [worker |-> w, region |-> r, status |-> "active"]
<1>1. id \in ClaimIds /\ r \in Regions
  BY ClaimTyped DEF ClaimInv
<1>2. claims' = [claims EXCEPT ![id] = c] /\ doing' = [doing EXCEPT ![w] = Null]
  BY CommitEffect
<1>3. c \in Claims /\ c.region = r /\ c.status = "active"
  BY <1>1 DEF Claims
<1>4. dropped' = dropped
  BY DEF CommitClaim
<1>5. claims[id] = Null /\ HeldBy(r) = {}
  BY DEF ClaimInv, ClaimsReserve
<1>6. \A v \in Workers : v /= w /\ Claiming(v) => doing[v].id /= id /\ doing[v].region /= r
  BY DEF ClaimInv, ClaimsReserve
<1> HIDE DEF id, r, c
<1>7. ClaimTypes'
  BY <1>1, <1>2, <1>3 DEF ClaimInv, ClaimTypes
<1>8. claims'[id] = c /\ \A x \in ClaimIds : x /= id => claims'[x] = claims[x]
  BY <1>1, <1>2 DEF ClaimInv, ClaimTypes
<1>9. doing'[w] = Null /\ \A v \in Workers : v /= w => doing'[v] = doing[v]
  BY <1>2 DEF ClaimInv, ClaimTypes
<1>10. \A x \in ClaimIds : Active(x)' <=> (Active(x) \/ x = id)
  BY <1>3, <1>5, <1>8 DEF Active
<1>11. Alone'
  <2>1. \A x \in ClaimIds : Active(x) => claims[x].region /= r
    BY <1>5 DEF HeldBy
  <2> QED
    BY <1>3, <1>8, <1>10, <2>1 DEF ClaimInv, Alone
<1>12. NobodyLosesAClaim'
  BY <1>4, <1>8, <1>10 DEF ClaimInv, NobodyLosesAClaim
<1>13. ReleasesAreAsked'
  <2>1. ASSUME NEW v \in Workers, Releasing(v)', NEW x \in doing'[v].rows
        PROVE  x \in dropped' /\ claims'[x] /= Null
    <3>1. v /= w /\ Releasing(v) /\ x \in doing[v].rows
      BY <1>9, <2>1 DEF Releasing
    <3>2. x \in dropped /\ claims[x] /= Null /\ x \in ClaimIds
      BY <3>1, ClaimTyped DEF ClaimInv, ReleasesAreAsked
    <3> QED
      BY <1>4, <1>5, <1>8, <3>2
  <2> QED
    BY <2>1 DEF ReleasesAreAsked
<1>14. ClaimsReserve'
  <2>1. ASSUME NEW v \in Workers, Claiming(v)'
        PROVE  v /= w /\ Claiming(v) /\ doing'[v] = doing[v]
    BY <1>9, <2>1 DEF Claiming
  <2>2. ASSUME NEW v \in Workers, Claiming(v)'
        PROVE  (claims[doing[v].id] = Null /\ HeldBy(doing[v].region) = {})'
    <3>1. /\ doing[v].id \in ClaimIds /\ doing[v].id /= id /\ doing[v].region /= r
          /\ claims[doing[v].id] = Null /\ HeldBy(doing[v].region) = {}
      BY <1>6, <2>1, <2>2, ClaimTyped DEF ClaimInv, ClaimsReserve
    <3>2. \A x \in ClaimIds : Active(x)' => claims'[x].region /= doing[v].region
      BY <1>3, <1>8, <1>10, <3>1 DEF HeldBy
    <3> QED
      BY <1>8, <2>1, <2>2, <3>1, <3>2 DEF HeldBy
  <2> QED
    BY <2>1, <2>2 DEF ClaimInv, ClaimsReserve
<1> QED
  BY <1>7, <1>11, <1>12, <1>13, <1>14 DEF ClaimInv

\* A release that is committed takes away what was asked for, and nothing else.
LEMMA CommitReleaseStep ==
    ASSUME NEW w \in Workers, Null \notin Claims, Null \notin Transactions,
           ClaimInv, CommitClaim(w), Releasing(w)
    PROVE  ClaimInv'
<1> DEFINE freed == doing[w].rows
<1>1. /\ freed \subseteq ClaimIds
      /\ \A id \in freed : id \in dropped /\ claims[id] \in Claims
  BY ClaimTyped DEF ClaimInv, ClaimTypes, ReleasesAreAsked
<1>2. /\ claims' = [id \in ClaimIds |->
             IF id \in freed THEN [claims[id] EXCEPT !.status = "released"] ELSE claims[id]]
      /\ doing' = [doing EXCEPT ![w] = Null] /\ dropped' = dropped
  BY CommitEffect DEF CommitClaim
<1>3. \A c \in Claims : /\ [c EXCEPT !.status = "released"] \in Claims
                        /\ [c EXCEPT !.status = "released"].status = "released"
  BY DEF Claims
<1> HIDE DEF freed
<1>4. ClaimTypes'
  BY <1>1, <1>2, <1>3 DEF ClaimInv, ClaimTypes
<1>5. doing'[w] = Null /\ \A v \in Workers : v /= w => doing'[v] = doing[v]
  BY <1>2 DEF ClaimInv, ClaimTypes
<1>6. \A id \in ClaimIds : /\ id \in freed => claims'[id] /= Null /\ claims'[id].status = "released"
                           /\ id \notin freed => claims'[id] = claims[id]
  BY <1>1, <1>2, <1>3
<1>7. \A id \in ClaimIds : Active(id)' <=> (Active(id) /\ id \notin freed)
  BY <1>6 DEF Active
<1>8. Alone' /\ NobodyLosesAClaim'
  BY <1>1, <1>2, <1>6, <1>7 DEF ClaimInv, Alone, NobodyLosesAClaim
<1>9. \A id \in ClaimIds : claims[id] = Null <=> claims'[id] = Null
  BY <1>1, <1>6
<1>10. ReleasesAreAsked'
  <2>1. ASSUME NEW v \in Workers, Releasing(v)', NEW x \in doing'[v].rows
        PROVE  x \in dropped' /\ claims'[x] /= Null
    <3>1. v /= w /\ Releasing(v) /\ x \in doing[v].rows
      BY <1>5, <2>1 DEF Releasing
    <3>2. x \in dropped /\ claims[x] /= Null /\ x \in ClaimIds
      BY <3>1, ClaimTyped DEF ClaimInv, ReleasesAreAsked
    <3> QED
      BY <1>2, <1>9, <3>2
  <2> QED
    BY <2>1 DEF ReleasesAreAsked
<1>11. ClaimsReserve'
  <2>1. ASSUME NEW v \in Workers, Claiming(v)'
        PROVE  v /= w /\ Claiming(v) /\ doing'[v] = doing[v]
    BY <1>5, <2>1 DEF Claiming
  <2>2. ASSUME NEW v \in Workers, Claiming(v)'
        PROVE  (claims[doing[v].id] = Null /\ HeldBy(doing[v].region) = {})'
    <3>1. /\ doing[v].id \in ClaimIds /\ claims[doing[v].id] = Null
          /\ HeldBy(doing[v].region) = {}
      BY <2>1, <2>2, ClaimTyped DEF ClaimInv, ClaimsReserve
    <3>2. \A x \in ClaimIds : Active(x)' => claims'[x].region /= doing[v].region
      BY <1>6, <1>7, <3>1 DEF HeldBy
    <3> QED
      BY <1>9, <2>1, <2>2, <3>1, <3>2 DEF HeldBy
  <2> QED
    BY <2>1, <2>2 DEF ClaimInv, ClaimsReserve
<1> QED
  BY <1>4, <1>8, <1>10, <1>11 DEF ClaimInv

LEMMA ClaimStep ==
    ASSUME Null \notin Claims, Null \notin Transactions
    PROVE  ClaimInv /\ [ClaimNext]_claimVars => ClaimInv'
<1> SUFFICES ASSUME ClaimInv, [ClaimNext]_claimVars
             PROVE  ClaimInv'
  OBVIOUS
<1>1. CASE UNCHANGED claimVars
  BY <1>1 DEF claimVars, ClaimInv, ClaimTypes, Alone, ClaimsReserve, ReleasesAreAsked,
              NobodyLosesAClaim, HeldBy, Active, Claiming, Releasing
<1>2. ASSUME NEW w \in Workers, NEW r \in Regions, Claim(w, r)
      PROVE  ClaimInv'
  <2>1. PICK id \in ClaimIds :
            /\ claims[id] = Null
            /\ \A t \in Open : t.op = "claim" => t.id /= id
            /\ doing' = [doing EXCEPT ![w] = [op |-> "claim", id |-> id, region |-> r]]
    BY <1>2 DEF Claim
  <2> DEFINE t == [op |-> "claim", id |-> id, region |-> r]
  <2>2. /\ t \in Transactions \union {Null} /\ t.op /= "release"
        /\ t.id = id /\ t.region = r
    BY DEF Transactions
  <2>3. ASSUME NEW v \in Workers, v /= w, Claiming(v)
        PROVE  doing[v].id /= id /\ doing[v].region /= r
    <3>1. doing[v] \in Open /\ doing[v].op = "claim"
      BY <2>3 DEF Open, Claiming
    <3> QED
      BY <1>2, <2>1, <3>1 DEF Claim, InDoubt
  <2>4. HeldBy(r) = {} /\ claims' = claims /\ dropped \subseteq dropped'
    BY <1>2 DEF Claim
  <2>5. doing' = [doing EXCEPT ![w] = t]
    BY <2>1
  <2> HIDE DEF t
  <2> QED
    BY <2>1, <2>2, <2>3, <2>4, <2>5, OpenStep
<1>3. ASSUME NEW w \in Workers, NEW id \in ClaimIds, Release(w, id)
      PROVE  ClaimInv'
  <2> DEFINE t == [op |-> "release", rows |-> Released(id)]
  <2>1. t \in Transactions /\ t.op = "release" /\ t.rows = Released(id)
    BY DEF Transactions, Released
  <2>2. /\ doing' = [doing EXCEPT ![w] = t] /\ claims' = claims
        /\ dropped' = dropped \union {id}
    BY <1>3 DEF Release
  <2>3. \A x \in Released(id) : x = id /\ claims[x] /= Null
    BY DEF Released, Active
  <2> HIDE DEF t
  <2> QED
    BY <2>1, <2>2, <2>3, OpenStep
<1>4. ASSUME NEW w \in Workers, CommitClaim(w)
      PROVE  ClaimInv'
  <2>1. Claiming(w) \/ Releasing(w)
    BY <1>4, ClaimTyped DEF CommitClaim, ClaimInv
  <2> QED
    BY <1>4, <2>1, CommitClaimStep, CommitReleaseStep
<1>5. ASSUME NEW w \in Workers, AbortClaim(w)
      PROVE  ClaimInv'
  BY <1>5, OpenStep DEF AbortClaim
<1> QED
  BY <1>1, <1>2, <1>3, <1>4, <1>5 DEF ClaimNext

\* A region has at most one active claim, whoever claims and releases it when
\* (WorkClaimRepository.claim and idx_ep_work_claims_active).
THEOREM RegionHasOneHolder ==
    ASSUME Null \notin Claims, Null \notin Transactions
    PROVE  ClaimSpec => []OneHolderPerRegion
<1>1. ASSUME ClaimInv
      PROVE  OneHolderPerRegion
  <2>1. ASSUME NEW r \in Regions
        PROVE  Cardinality(HeldBy(r)) <= 1
    <3>1. CASE HeldBy(r) = {}
      BY <3>1, FS_EmptySet
    <3>2. ASSUME NEW x \in HeldBy(r)
          PROVE  Cardinality(HeldBy(r)) <= 1
      <4>1. HeldBy(r) = {x}
        BY <1>1, <3>2 DEF ClaimInv, Alone, HeldBy
      <4> QED
        BY <4>1, FS_Singleton
    <3> QED
      BY <3>1, <3>2
  <2> QED
    BY <2>1 DEF OneHolderPerRegion
<1> QED
  BY <1>1, ClaimInitInv, ClaimStep, PTL DEF ClaimSpec

\* A claim ends only when its holder releases that claim (WorkClaimRepository.release).
THEOREM ClaimsEndByRelease ==
    ASSUME Null \notin Claims, Null \notin Transactions
    PROVE  ClaimSpec => []NobodyLosesAClaim
<1>1. ClaimInv => NobodyLosesAClaim
  BY DEF ClaimInv
<1> QED
  BY <1>1, ClaimInitInv, ClaimStep, PTL DEF ClaimSpec

(***************************************************************************)
(* Proofs of the property of Backup, for any number of restores: until two *)
(* of them overlap, at most one is under way, and when it reaches the swap *)
(* the temporary schema is the one it has counted.                         *)
(***************************************************************************)
\* What passes the count, complete or not.
Counted == {"most", "tables", "whole"}

RestoresAlone ==
    /\ live \in Counted
    /\ \A r, q \in Restorers : step[r] /= "idle" /\ step[q] /= "idle" => r = q
    /\ \A r \in Restorers : step[r] = "swap" => temp \in Counted

BackupInv == /\ step = [r \in Restorers |-> step[r]]
             /\ live /= Null
             /\ ~overlapped => RestoresAlone

LEMMA BackupInitInv == ASSUME Null \notin DOMAIN Rank
                       PROVE  BackupInit => BackupInv
BY DEF BackupInit, BackupInv, RestoresAlone, Counted, Rank

\* A restore that goes on without touching the live schema. Only the swap needs a
\* counted one, and only a count that passed goes there.
LEMMA RestoreGoesOn ==
    ASSUME BackupInv, NEW r \in Restorers, NEW next, step[r] /= "idle", Goto(r, next),
           live' = live, overlapped' = overlapped, step[r] /= "swap" \/ next = "idle",
           next = "swap" => temp' \in Counted
    PROVE  BackupInv'
<1>1. /\ step' = [q \in Restorers |-> step'[q]] /\ step'[r] = next
      /\ \A q \in Restorers : q /= r => step'[q] = step[q]
  BY DEF BackupInv, Goto
<1>2. ASSUME ~overlapped
      PROVE  RestoresAlone'
  <2>1. \A q \in Restorers : q /= r => step'[q] = "idle"
    BY <1>1, <1>2 DEF BackupInv, RestoresAlone
  <2> QED
    BY <1>1, <1>2, <2>1 DEF BackupInv, RestoresAlone
<1> QED
  BY <1>1, <1>2 DEF BackupInv

LEMMA BackupStep == BackupInv /\ [BackupNext]_backupVars => BackupInv'
<1> SUFFICES ASSUME BackupInv, [BackupNext]_backupVars
             PROVE  BackupInv'
  OBVIOUS
<1>1. CASE UNCHANGED backupVars \/ MakeBackup
  BY <1>1 DEF backupVars, MakeBackup, BackupInv, RestoresAlone
<1>2. ASSUME NEW r \in Restorers, BeginRestore(r)
      PROVE  BackupInv'
  <2>1. /\ step' = [step EXCEPT ![r] = "create"] /\ step[r] = "idle"
        /\ overlapped' = (overlapped \/ \E x \in Restorers \ {r} : step[x] /= "idle")
        /\ UNCHANGED <<live, temp>>
    BY <1>2 DEF BeginRestore, Goto
  <2>2. /\ step' = [q \in Restorers |-> step'[q]] /\ step'[r] = "create"
        /\ \A q \in Restorers : q /= r => step'[q] = step[q]
    BY <2>1 DEF BackupInv
  <2>3. ASSUME ~overlapped'
        PROVE  RestoresAlone'
    <3>1. ~overlapped /\ \A q \in Restorers : q /= r => step[q] = "idle"
      BY <2>1, <2>3
    <3> QED
      BY <2>1, <2>2, <3>1 DEF BackupInv, RestoresAlone
  <2> QED
    BY <2>1, <2>2, <2>3 DEF BackupInv
<1>3. ASSUME NEW r \in Restorers,
             CreateTemp(r) \/ LoadTemp(r) \/ VerifyTemp(r) \/ DropTemp(r) \/ Die(r)
      PROVE  BackupInv'
  <2>1. PICK next :
            /\ Goto(r, next) /\ step[r] /= "idle" /\ (step[r] /= "swap" \/ next = "idle")
            /\ live' = live /\ overlapped' = overlapped
            /\ next = "swap" => temp' \in Counted
    BY <1>3 DEF CreateTemp, LoadTemp, VerifyTemp, DropTemp, Die, EnoughTables, Counted
  <2> QED
    BY <2>1, RestoreGoesOn
<1>4. ASSUME NEW r \in Restorers, Swap(r)
      PROVE  BackupInv'
  <2>1. /\ Goto(r, "idle") /\ step[r] = "swap" /\ overlapped' = overlapped
        /\ (temp /= Null /\ live' = temp) \/ UNCHANGED live
    BY <1>4 DEF Swap
  <2>2. CASE UNCHANGED live
    BY <2>1, <2>2, RestoreGoesOn
  <2>3. CASE temp /= Null /\ live' = temp
    <3>1. /\ step' = [q \in Restorers |-> step'[q]] /\ step'[r] = "idle"
          /\ \A q \in Restorers : q /= r => step'[q] = step[q]
      BY <2>1 DEF BackupInv, Goto
    <3>2. ASSUME ~overlapped
          PROVE  RestoresAlone'
      <4>1. \A q \in Restorers : step'[q] = "idle"
        BY <2>1, <3>1, <3>2 DEF BackupInv, RestoresAlone
      <4>2. live' \in Counted
        BY <2>1, <2>3, <3>2 DEF BackupInv, RestoresAlone
      <4> QED
        BY <4>1, <4>2 DEF RestoresAlone
    <3> QED
      BY <2>1, <2>3, <3>1, <3>2 DEF BackupInv
  <2> QED
    BY <2>1, <2>2, <2>3
<1> QED
  BY <1>1, <1>2, <1>3, <1>4 DEF BackupNext

\* Whatever fails or dies, there is a live schema, and as long as no two restores overlap
\* it has at least the tables that the script counts, not all of them
\* (backup_governance.py, restore).
THEOREM LiveStaysCounted == ASSUME Null \notin DOMAIN Rank
                            PROVE  BackupSpec => []LiveWasCounted
<1>1. BackupInv => LiveWasCounted
  BY DEF BackupInv, RestoresAlone, Counted, LiveWasCounted
<1> QED
  BY <1>1, BackupInitInv, BackupStep, PTL DEF BackupSpec

(***************************************************************************)
(* Proofs of the property of ProxyService, for any limit and any window.   *)
(* The list of the limiter is the end of what was let through, and what    *)
(* was evicted from it has left the window. So whoever is let through as   *)
(* the next finds that the one MaxRequests before it left the window, and  *)
(* no window holds more than MaxRequests.                                  *)
(***************************************************************************)
Evicted(c) == Len(passed[c]) - Len(requests[c])

ListIsEnd(c) ==
    /\ passed[c] \in Seq(Nat) /\ requests[c] \in Seq(Nat) /\ Evicted(c) \in Nat
    /\ \A i \in 1..Len(requests[c]) : requests[c][i] = passed[c][Evicted(c) + i]
    /\ \A i \in 1..Evicted(c) : passed[c][i] <= time - Window

InOrder(c) ==
    /\ \A i \in 1..Len(passed[c]) : passed[c][i] <= time
    /\ \A i, j \in 1..Len(passed[c]) : i <= j => passed[c][i] <= passed[c][j]

\* The times of two requests that are MaxRequests apart.
SpreadOut(c) ==
    \A i, j \in 1..Len(passed[c]) :
        j = i + MaxRequests => passed[c][j] >= passed[c][i] + Window

LimitInv == /\ time \in Nat
            /\ requests = [c \in Clients |-> requests[c]]
            /\ passed = [c \in Clients |-> passed[c]]
            /\ \A c \in Clients : ListIsEnd(c) /\ InOrder(c) /\ SpreadOut(c)
            /\ refused /= Null => refused.client \in Clients /\ refused.at \in Nat
            /\ RefusalDeserved

\* A non-empty set of numbers has a least element.
LEMMA LeastNumber ==
    ASSUME NEW T, T \subseteq Nat, T # {}
    PROVE  /\ Min(T) \in T /\ \A m \in T : Min(T) <= m
<1> DEFINE R == OpToRel(<, Nat)
<1>1. IsWellFoundedOn(R, Nat)
  BY NatLessThanWellFounded
<1>2. \A x, y \in Nat : y < x => <<y, x>> \in R
  BY DEF OpToRel
<1> HIDE DEF R
<1>3. PICK x \in T : \A y \in T : ~(<<y, x>> \in R)
  BY <1>1, WFMin
<1>4. ASSUME NEW m \in T
      PROVE  x <= m
  <2>1. x \in Nat /\ m \in Nat /\ ~(m < x)
    BY <1>2, <1>3
  <2> QED
    BY <2>1
<1> QED
  BY <1>4 DEF Min

LEMMA EndOfSequence ==
    ASSUME NEW s \in Seq(Nat), NEW m \in 1..(Len(s) + 1)
    PROVE  LET r == SubSeq(s, m, Len(s)) IN
           /\ r \in Seq(Nat) /\ Len(r) = Len(s) - m + 1
           /\ \A i \in 1..Len(r) : r[i] = s[m + i - 1]
OBVIOUS

\* What RateLimiter.check keeps: the end of the list from the first request within the
\* window on.
LEMMA RecentFacts ==
    ASSUME LimitInv, NEW c \in Clients
    PROVE  LET n == Len(passed[c])
               k == n - Len(Recent(c)) IN
           /\ Recent(c) \in Seq(Nat) /\ n \in Nat /\ k \in Nat /\ k >= Evicted(c)
           /\ Len(Recent(c)) <= n
           /\ \A i \in 1..Len(Recent(c)) : Recent(c)[i] = passed[c][k + i]
           /\ \A i \in 1..k : passed[c][i] <= time - Window
           /\ \A i \in (k + 1)..n : passed[c][i] > time - Window
<1> DEFINE reqs == requests[c]
           within == {i \in 1..Len(reqs) : reqs[i] > time - Window}
           first == Oldest(c)
           n == Len(passed[c])
           k == n - Len(Recent(c))
<1>1. /\ reqs \in Seq(Nat) /\ Len(reqs) \in Nat /\ passed[c] \in Seq(Nat) /\ n \in Nat
      /\ time \in Nat /\ Evicted(c) \in Nat /\ Evicted(c) = n - Len(reqs)
  BY DEF LimitInv, ListIsEnd, Evicted
<1>2. /\ first \in within \union {Len(reqs) + 1}
      /\ \A m \in within \union {Len(reqs) + 1} : first <= m
  <2>1. within \union {Len(reqs) + 1} \subseteq Nat
    BY <1>1
  <2> QED
    BY <2>1, LeastNumber DEF Oldest
<1>3. Recent(c) = SubSeq(reqs, first, Len(reqs))
  BY DEF Recent
<1>4. /\ first \in 1..(Len(reqs) + 1)
      /\ \A i \in 1..(first - 1) : reqs[i] <= time - Window
      /\ first <= Len(reqs) => reqs[first] > time - Window
  <2>1. first \in 1..(Len(reqs) + 1)
    BY <1>1, <1>2
  <2>2. ASSUME NEW i \in 1..(first - 1)
        PROVE  reqs[i] <= time - Window
    <3>1. i \in 1..Len(reqs) /\ ~(first <= i)
      BY <1>1, <2>1
    <3>2. i \notin within
      BY <1>2, <3>1
    <3>3. reqs[i] \in Nat
      BY <1>1, <3>1
    <3> QED
      BY <1>1, <3>1, <3>2, <3>3, LimitAssumption
  <2>3. first <= Len(reqs) => reqs[first] > time - Window
    BY <1>1, <1>2
  <2> QED
    BY <2>1, <2>2, <2>3
<1> HIDE DEF reqs, first, within, n
<1>5. /\ Recent(c) \in Seq(Nat) /\ Len(Recent(c)) = Len(reqs) - first + 1
      /\ \A i \in 1..Len(Recent(c)) : Recent(c)[i] = reqs[first + i - 1]
  BY <1>1, <1>3, <1>4, EndOfSequence
<1>6. /\ k = Evicted(c) + first - 1 /\ k \in Nat /\ k >= Evicted(c)
      /\ Len(Recent(c)) <= n /\ Len(Recent(c)) \in Nat
  BY <1>1, <1>4, <1>5
<1>7. \A i \in 1..Len(reqs) : reqs[i] = passed[c][Evicted(c) + i]
  BY DEF LimitInv, ListIsEnd, reqs
<1>8. ASSUME NEW i \in 1..Len(Recent(c))
      PROVE  Recent(c)[i] = passed[c][k + i]
  <2>1. first + i - 1 \in 1..Len(reqs) /\ Evicted(c) + (first + i - 1) = k + i
    BY <1>1, <1>4, <1>5, <1>6
  <2> QED
    BY <1>5, <1>7, <2>1
<1>9. ASSUME NEW i \in 1..k
      PROVE  passed[c][i] <= time - Window
  <2>1. CASE i \in 1..Evicted(c)
    BY <2>1 DEF LimitInv, ListIsEnd
  <2>2. CASE i > Evicted(c)
    <3>1. i - Evicted(c) \in 1..(first - 1) /\ i - Evicted(c) \in 1..Len(reqs)
      BY <1>1, <1>4, <1>6, <2>2
    <3>2. reqs[i - Evicted(c)] = passed[c][i]
      BY <1>1, <1>7, <3>1
    <3> QED
      BY <1>4, <3>1, <3>2
  <2> QED
    BY <1>1, <2>1, <2>2
<1>10. ASSUME NEW i \in (k + 1)..n
       PROVE  passed[c][i] > time - Window
  <2>1. first <= Len(reqs) /\ k + 1 \in 1..n /\ i \in 1..n /\ k + 1 = Evicted(c) + first
    BY <1>1, <1>4, <1>5, <1>6
  <2>2. passed[c][k + 1] > time - Window
    <3>1. first \in 1..Len(reqs) /\ reqs[first] > time - Window
      BY <1>1, <1>4, <2>1
    <3>2. reqs[first] = passed[c][Evicted(c) + first]
      BY <1>7, <3>1
    <3> QED
      BY <2>1, <3>1, <3>2
  <2>3. passed[c][k + 1] \in Nat /\ passed[c][i] \in Nat
    <3>1. \A x \in 1..n : passed[c][x] \in Nat
      <4>1. PICK s \in Seq(Nat) : s = passed[c]
        BY <1>1
      <4>2. \A x \in 1..Len(s) : s[x] \in Nat
        OBVIOUS
      <4> QED
        BY <4>1, <4>2 DEF n
    <3> QED
      BY <2>1, <3>1
  <2>4. passed[c][k + 1] <= passed[c][i]
    <3>1. \A x, y \in 1..n : x <= y => passed[c][x] <= passed[c][y]
      BY DEF LimitInv, InOrder, n
    <3>2. k + 1 <= i
      BY <1>1, <1>6
    <3> QED
      BY <2>1, <3>1, <3>2
  <2>5. \A x, y \in Nat : x > time - Window /\ x <= y => y > time - Window
    BY <1>1, LimitAssumption
  <2> QED
    BY <2>2, <2>3, <2>4, <2>5
<1> QED
  BY <1>1, <1>5, <1>6, <1>8, <1>9, <1>10 DEF n

\* No window that ends at t holds more requests than the limit.
LEMMA WindowHoldsLimit ==
    ASSUME LimitInv, NEW c \in Clients, NEW t \in Nat
    PROVE  PassedWithin(c, t) <= MaxRequests
<1> DEFINE S == {i \in 1..Len(passed[c]) : t - Window < passed[c][i] /\ passed[c][i] <= t}
           first == Min(S)
<1>1. PassedWithin(c, t) = Cardinality(S)
  BY DEF PassedWithin
<1>2. CASE S = {}
  <2>1. Cardinality({}) = 0
    BY FS_EmptySet
  <2> HIDE DEF S
  <2> QED
    BY <1>1, <1>2, <2>1, LimitAssumption
<1>3. CASE S /= {}
  <2>1. Len(passed[c]) \in Nat /\ \A i \in 1..Len(passed[c]) : passed[c][i] \in Nat
    BY DEF LimitInv, ListIsEnd
  <2>2. first \in S /\ \A i \in S : first <= i
    <3>1. S \subseteq Nat
      BY <2>1
    <3> HIDE DEF S
    <3> QED
      BY <1>3, <3>1, LeastNumber
  <2> HIDE DEF first
  <2>3. first \in 1..Len(passed[c]) /\ t - Window < passed[c][first]
    BY <2>2
  <2>4. ASSUME NEW i \in S
        PROVE  i \in first..(first + MaxRequests - 1)
    <3>1. i \in 1..Len(passed[c]) /\ passed[c][i] <= t /\ first <= i
      BY <2>2
    <3>2. ASSUME i >= first + MaxRequests
          PROVE  FALSE
      <4> DEFINE j == first + MaxRequests
      <4>1. j \in 1..Len(passed[c]) /\ j <= i
        BY <2>1, <2>3, <3>1, <3>2, LimitAssumption
      <4>2. passed[c][j] >= passed[c][first] + Window
        BY <2>3, <4>1 DEF LimitInv, SpreadOut
      <4>3. passed[c][j] <= passed[c][i]
        BY <3>1, <4>1 DEF LimitInv, InOrder
      <4> HIDE DEF j
      <4>4. passed[c][j] \in Nat /\ passed[c][i] \in Nat /\ passed[c][first] \in Nat
        BY <2>1, <2>3, <3>1, <4>1
      <4> QED
        BY <2>3, <3>1, <4>2, <4>3, <4>4, LimitAssumption
    <3> QED
      BY <2>1, <2>3, <3>1, <3>2, LimitAssumption
  <2>5. S \in SUBSET (first..(first + MaxRequests - 1))
    BY <2>4
  <2> HIDE DEF S
  <2>6. /\ IsFiniteSet(first..(first + MaxRequests - 1))
        /\ Cardinality(first..(first + MaxRequests - 1)) = MaxRequests
    <3>1. PICK last \in Int : last = first + MaxRequests - 1
      BY <2>1, <2>3, LimitAssumption
    <3>2. first \in Int
      BY <2>1, <2>3
    <3>3. /\ IsFiniteSet(first..last)
          /\ Cardinality(first..last) = IF first > last THEN 0 ELSE last - first + 1
      BY <3>1, <3>2, FS_Interval
    <3> QED
      BY <2>1, <2>3, <3>1, <3>3, LimitAssumption
  <2> QED
    BY <1>1, <2>5, <2>6, FS_Subset
<1> QED
  BY <1>2, <1>3
\* A refused client was let through MaxRequests times within the window.
LEMMA RefusalIsDeserved ==
    ASSUME LimitInv, NEW c \in Clients, ~HasRoom(c)
    PROVE  PassedWithin(c, time) >= MaxRequests
<1> DEFINE S == {i \in 1..Len(passed[c]) : time - Window < passed[c][i] /\ passed[c][i] <= time}
           n == Len(passed[c])
           kept == Len(Recent(c))
           rest == (n - kept + 1)..n
<1>1. /\ n \in Nat /\ kept \in Nat /\ kept <= n /\ time \in Nat /\ kept >= MaxRequests
      /\ \A i \in rest : passed[c][i] > time - Window
  <2>1. kept \in Nat
    BY RecentFacts
  <2>2. ~(kept < MaxRequests)
    BY DEF HasRoom
  <2> QED
    BY <2>1, <2>2, RecentFacts, LimitAssumption DEF LimitInv
<1>2. rest \in SUBSET S
  <2>1. \A i \in 1..n : passed[c][i] <= time /\ passed[c][i] \in Nat
    BY DEF LimitInv, InOrder, ListIsEnd
  <2>2. rest \subseteq 1..n
    BY <1>1
  <2>3. \A x \in Nat : x > time - Window => time - Window < x
    BY <1>1, LimitAssumption
  <2> HIDE DEF rest
  <2> QED
    BY <1>1, <2>1, <2>2, <2>3
<1>3. IsFiniteSet(S)
  <2>1. IsFiniteSet(1..n)
    BY <1>1, FS_Interval
  <2>2. S \in SUBSET (1..n)
    OBVIOUS
  <2> HIDE DEF S, n
  <2> QED
    BY <2>1, <2>2, FS_Subset
<1>4. Cardinality(rest) = kept
  <2> HIDE DEF n, kept
  <2>1. PICK first \in Int : first = n - kept + 1
    BY <1>1
  <2>2. n \in Int
    BY <1>1
  <2>3. Cardinality(first..n) = IF first > n THEN 0 ELSE n - first + 1
    BY <2>2, FS_Interval
  <2> QED
    BY <1>1, <2>1, <2>3 DEF rest
<1>5. PassedWithin(c, time) = Cardinality(S)
  BY DEF PassedWithin
<1> HIDE DEF S, rest
<1>6. Cardinality(rest) <= Cardinality(S) /\ Cardinality(S) \in Nat
  BY <1>2, <1>3, FS_Subset, FS_CardinalityType
<1> QED
  BY <1>1, <1>4, <1>5, <1>6, LimitAssumption

LEMMA CountsAreNumbers ==
    ASSUME NEW p \in Seq(Nat), NEW t \in Nat
    PROVE  Cardinality({i \in 1..Len(p) : t - Window < p[i] /\ p[i] <= t}) \in Nat
<1> DEFINE S == {i \in 1..Len(p) : t - Window < p[i] /\ p[i] <= t}
<1>1. IsFiniteSet(1..Len(p)) /\ S \in SUBSET (1..Len(p))
  BY FS_Interval
<1> HIDE DEF S
<1>2. Cardinality(S) \in Nat
  BY <1>1, FS_Subset, FS_CardinalityType
<1> QED
  BY <1>2 DEF S

\* A request that is let through adds one to what was let through before.
LEMMA PassedGrows ==
    ASSUME NEW p \in Seq(Nat), NEW x \in Nat, NEW t \in Nat
    PROVE  LET q == Append(p, x) IN
           Cardinality({i \in 1..Len(p) : t - Window < p[i] /\ p[i] <= t})
               <= Cardinality({i \in 1..Len(q) : t - Window < q[i] /\ q[i] <= t})
<1> DEFINE q == Append(p, x)
           S == {i \in 1..Len(p) : t - Window < p[i] /\ p[i] <= t}
           T == {i \in 1..Len(q) : t - Window < q[i] /\ q[i] <= t}
<1>1. /\ Len(q) \in Nat /\ Len(p) \in Nat /\ Len(p) <= Len(q)
      /\ \A i \in 1..Len(p) : q[i] = p[i]
  OBVIOUS
<1> HIDE DEF q
<1>2. S \in SUBSET T
  BY <1>1
<1>3. IsFiniteSet(1..Len(q)) /\ T \in SUBSET (1..Len(q))
  BY <1>1, FS_Interval
<1> HIDE DEF S, T
<1>4. Cardinality(S) <= Cardinality(T)
  BY <1>2, <1>3, FS_Subset
<1> QED
  BY <1>4 DEF S, T, q

LEMMA AppendedNumber ==
    ASSUME NEW s \in Seq(Nat), NEW x \in Nat
    PROVE  LET r == Append(s, x) IN
           /\ r \in Seq(Nat) /\ Len(r) = Len(s) + 1 /\ r[Len(s) + 1] = x
           /\ \A i \in 1..Len(s) : r[i] = s[i]
OBVIOUS

\* The client that is let through as the next finds room.
LEMMA LetThrough ==
    ASSUME LimitInv, NEW c \in Clients, HasRoom(c), time' = time,
           requests'[c] = Append(Recent(c), time), passed'[c] = Append(passed[c], time)
    PROVE  (ListIsEnd(c) /\ InOrder(c) /\ SpreadOut(c))'
<1> DEFINE p == passed[c]
           n == Len(p)
           kept == Recent(c)
           k == n - Len(kept)
<1>1. /\ n \in Nat /\ time \in Nat /\ Len(kept) \in Nat
      /\ p \in Seq(Nat) /\ kept \in Seq(Nat)
      /\ k \in Nat /\ Len(kept) <= n /\ Len(kept) < MaxRequests
      /\ \A i \in 1..Len(kept) : kept[i] = p[k + i]
      /\ \A i \in 1..k : p[i] <= time - Window
      /\ \A i \in 1..n : p[i] \in Nat /\ p[i] <= time
      /\ \A i, j \in 1..n : i <= j => p[i] <= p[j]
      /\ \A i, j \in 1..n : j = i + MaxRequests => p[j] >= p[i] + Window
  <2>1. /\ p \in Seq(Nat) /\ kept \in Seq(Nat) /\ k \in Nat /\ Len(kept) <= n
        /\ \A i \in 1..Len(kept) : kept[i] = p[k + i]
        /\ \A i \in 1..k : p[i] <= time - Window
    BY RecentFacts DEF LimitInv, ListIsEnd
  <2>2. /\ \A i \in 1..n : p[i] <= time
        /\ \A i, j \in 1..n : i <= j => p[i] <= p[j]
        /\ \A i, j \in 1..n : j = i + MaxRequests => p[j] >= p[i] + Window
    BY DEF LimitInv, InOrder, SpreadOut
  <2>3. Len(kept) < MaxRequests /\ time \in Nat
    BY DEF HasRoom, LimitInv
  <2>4. n \in Nat /\ Len(kept) \in Nat /\ \A i \in 1..n : p[i] \in Nat
    <3> HIDE DEF p, kept
    <3> QED
      BY <2>1
  <2> HIDE DEF p, n, kept
  <2> QED
    BY <2>1, <2>2, <2>3, <2>4
<1>2. PICK q, r :
          /\ q = passed'[c] /\ r = requests'[c]
          /\ q \in Seq(Nat) /\ Len(q) = n + 1 /\ q[n + 1] = time
          /\ \A i \in 1..n : q[i] = p[i]
          /\ r \in Seq(Nat) /\ Len(r) = Len(kept) + 1 /\ r[Len(kept) + 1] = time
          /\ \A i \in 1..Len(kept) : r[i] = kept[i]
  <2>1. PICK old \in Seq(Nat), end \in Seq(Nat) : old = p /\ end = kept
    BY <1>1
  <2>2. passed'[c] = Append(old, time) /\ requests'[c] = Append(end, time)
    BY <2>1
  <2>3. PICK q : q = passed'[c]
    OBVIOUS
  <2>4. q \in Seq(Nat) /\ Len(q) = Len(old) + 1 /\ q[Len(old) + 1] = time
        /\ \A i \in 1..Len(old) : q[i] = old[i]
    BY <1>1, <2>2, <2>3, AppendedNumber
  <2>5. PICK r : r = requests'[c]
    OBVIOUS
  <2>6. r \in Seq(Nat) /\ Len(r) = Len(end) + 1 /\ r[Len(end) + 1] = time
        /\ \A i \in 1..Len(end) : r[i] = end[i]
    BY <1>1, <2>2, <2>5, AppendedNumber
  <2>7. n = Len(old) /\ Len(kept) = Len(end)
    BY <2>1
  <2> HIDE DEF p, n, kept
  <2>8. /\ q \in Seq(Nat) /\ Len(q) = n + 1 /\ q[n + 1] = time
        /\ \A i \in 1..n : q[i] = p[i]
    BY <2>1, <2>4, <2>7
  <2>9. /\ r \in Seq(Nat) /\ Len(r) = Len(kept) + 1 /\ r[Len(kept) + 1] = time
        /\ \A i \in 1..Len(kept) : r[i] = kept[i]
    BY <2>1, <2>6, <2>7
  <2> QED
    BY <2>3, <2>5, <2>8, <2>9
<1> HIDE DEF p, n, kept
<1>3. Evicted(c)' = k
  BY <1>1, <1>2 DEF Evicted
<1>4. ListIsEnd(c)'
  <2>1. ASSUME NEW i \in 1..Len(r)
        PROVE  r[i] = q[k + i]
    <3>1. CASE i = Len(kept) + 1
      <4>1. k + i = n + 1
        BY <1>1, <3>1
      <4> QED
        BY <1>2, <3>1, <4>1
    <3>2. CASE i \in 1..Len(kept)
      <4>1. k + i \in 1..n
        BY <1>1, <3>2
      <4> QED
        BY <1>1, <1>2, <3>2, <4>1
    <3>3. i = Len(kept) + 1 \/ i \in 1..Len(kept)
      BY <1>1, <1>2
    <3> QED
      BY <3>1, <3>2, <3>3
  <2>2. ASSUME NEW i \in 1..k
        PROVE  q[i] <= time - Window
    <3>1. i \in 1..n
      BY <1>1
    <3> QED
      BY <1>1, <1>2, <3>1
  <2> HIDE DEF k
  <2> QED
    BY <1>1, <1>2, <1>3, <2>1, <2>2 DEF ListIsEnd
<1>5. ASSUME NEW i \in 1..Len(q)
      PROVE  i \in 1..n \/ i = n + 1
  <2>1. PICK m \in Nat : m = n /\ Len(q) = m + 1
    BY <1>1, <1>2
  <2> QED
    BY <2>1
<1>6. ASSUME NEW i \in 1..Len(q)
      PROVE  q[i] \in Nat /\ q[i] <= time
  <2>1. i \in 1..n \/ i = n + 1
    BY <1>5
  <2>2. CASE i \in 1..n
    BY <1>1, <1>2, <2>2
  <2>3. CASE i = n + 1
    BY <1>1, <1>2, <2>3
  <2> QED
    BY <2>1, <2>2, <2>3
<1>7. InOrder(c)'
  <2>1. ASSUME NEW i \in 1..Len(q), NEW j \in 1..Len(q), i <= j
        PROVE  q[i] <= q[j]
    <3>1. CASE j = n + 1
      BY <1>2, <1>6, <3>1
    <3>2. CASE j \in 1..n
      <4>1. i \in 1..n
        BY <1>1, <2>1, <3>2
      <4> QED
        BY <1>1, <1>2, <2>1, <3>2, <4>1
    <3>3. j \in 1..n \/ j = n + 1
      BY <1>5
    <3> QED
      BY <3>1, <3>2, <3>3
  <2> QED
    BY <1>2, <1>6, <2>1 DEF InOrder
<1>8. SpreadOut(c)'
  <2>1. ASSUME NEW i \in 1..Len(q), NEW j \in 1..Len(q), j = i + MaxRequests
        PROVE  q[j] >= q[i] + Window
    <3>1. CASE j = n + 1
      <4>1. i \in 1..k /\ i \in 1..n
        BY <1>1, <1>2, <2>1, <3>1, LimitAssumption
      <4>2. q[i] <= time - Window /\ q[i] \in Nat /\ q[j] = time
        BY <1>1, <1>2, <3>1, <4>1
      <4> QED
        BY <1>1, <4>2, LimitAssumption
    <3>2. CASE j \in 1..n
      <4>1. i \in 1..n
        BY <1>1, <1>2, <2>1, <3>2, LimitAssumption
      <4> QED
        BY <1>1, <1>2, <2>1, <3>2, <4>1
    <3>3. j \in 1..n \/ j = n + 1
      BY <1>5
    <3> QED
      BY <3>1, <3>2, <3>3
  <2> QED
    BY <1>2, <2>1 DEF SpreadOut
<1> QED
  BY <1>4, <1>7, <1>8

LEMMA ArriveStep ==
    ASSUME LimitInv, NEW c \in Clients, Arrive(c)
    PROVE  LimitInv'
<1>1. time' = time /\ time \in Nat
  BY DEF Arrive, LimitInv
<1>2. ASSUME NEW d \in Clients, requests'[d] = requests[d], passed'[d] = passed[d]
      PROVE  (ListIsEnd(d) /\ InOrder(d) /\ SpreadOut(d))'
  BY <1>1, <1>2 DEF LimitInv, ListIsEnd, InOrder, SpreadOut, Evicted
<1>3. CASE HasRoom(c)
  <2>1. /\ requests' = [requests EXCEPT ![c] = Append(Recent(c), time)]
        /\ passed' = [passed EXCEPT ![c] = Append(passed[c], time)]
        /\ refused' = refused
    BY <1>3 DEF Arrive
  <2>2. /\ requests' = [d \in Clients |-> requests'[d]]
        /\ passed' = [d \in Clients |-> passed'[d]]
        /\ requests'[c] = Append(Recent(c), time) /\ passed'[c] = Append(passed[c], time)
        /\ \A d \in Clients : d /= c => requests'[d] = requests[d] /\ passed'[d] = passed[d]
    BY <2>1 DEF LimitInv
  <2>3. \A d \in Clients : (ListIsEnd(d) /\ InOrder(d) /\ SpreadOut(d))'
    <3>1. ASSUME NEW d \in Clients, d /= c
          PROVE  (ListIsEnd(d) /\ InOrder(d) /\ SpreadOut(d))'
      BY <1>2, <2>2, <3>1
    <3>2. (ListIsEnd(c) /\ InOrder(c) /\ SpreadOut(c))'
      BY <1>1, <1>3, <2>2, LetThrough
    <3> QED
      BY <3>1, <3>2
  <2>4. RefusalDeserved'
    <3> SUFFICES ASSUME refused /= Null
                 PROVE  PassedWithin(refused.client, refused.at)' >= MaxRequests
      BY <2>1 DEF RefusalDeserved
    <3>1. PICK d \in Clients, t \in Nat : d = refused.client /\ t = refused.at
      BY DEF LimitInv
    <3>2. PassedWithin(d, t) >= MaxRequests
      BY <3>1 DEF LimitInv, RefusalDeserved
    <3>3. CASE d = c
      <4>1. passed[c] \in Seq(Nat)
        BY DEF LimitInv, ListIsEnd
      <4>2. PassedWithin(d, t) <= PassedWithin(d, t)'
        <5>1. PICK p \in Seq(Nat) : p = passed[c]
          BY <4>1
        <5>2. PICK q : q = passed'[c] /\ q = Append(p, time)
          BY <2>2, <5>1
        <5>3. Cardinality({i \in 1..Len(p) : t - Window < p[i] /\ p[i] <= t})
                  <= Cardinality({i \in 1..Len(q) : t - Window < q[i] /\ q[i] <= t})
          BY <1>1, <5>2, PassedGrows
        <5> QED
          BY <3>3, <5>1, <5>2, <5>3 DEF PassedWithin
      <4>3. PassedWithin(d, t) \in Nat /\ PassedWithin(d, t)' \in Nat
        <5>1. \A p \in Seq(Nat) :
                  Cardinality({i \in 1..Len(p) : t - Window < p[i] /\ p[i] <= t}) \in Nat
          BY CountsAreNumbers
        <5>2. passed'[c] \in Seq(Nat)
          BY <2>3 DEF ListIsEnd
        <5> QED
          BY <3>3, <4>1, <5>1, <5>2 DEF PassedWithin
      <4> QED
        BY <2>1, <3>1, <3>2, <4>2, <4>3, LimitAssumption
    <3>4. CASE d /= c
      <4>1. PassedWithin(d, t)' = PassedWithin(d, t)
        BY <2>2, <3>4 DEF PassedWithin
      <4> QED
        BY <2>1, <3>1, <3>2, <4>1
    <3> QED
      BY <3>3, <3>4
  <2> QED
    BY <1>1, <2>1, <2>2, <2>3, <2>4 DEF LimitInv
<1>4. CASE ~HasRoom(c)
  <2>1. /\ requests' = [requests EXCEPT ![c] = Recent(c)]
        /\ refused' = [client |-> c, at |-> time] /\ passed' = passed
    BY <1>4 DEF Arrive
  <2>2. /\ requests' = [d \in Clients |-> requests'[d]] /\ requests'[c] = Recent(c)
        /\ \A d \in Clients : d /= c => requests'[d] = requests[d]
    BY <2>1 DEF LimitInv
  <2>3. ListIsEnd(c)'
    <3>1. Evicted(c)' = Len(passed[c]) - Len(Recent(c))
      BY <2>1, <2>2 DEF Evicted
    <3>2. passed[c] \in Seq(Nat)
      BY DEF LimitInv, ListIsEnd
    <3> QED
      BY <1>1, <2>1, <2>2, <3>1, <3>2, RecentFacts DEF ListIsEnd
  <2>4. \A d \in Clients : (ListIsEnd(d) /\ InOrder(d) /\ SpreadOut(d))'
    <3>1. ASSUME NEW d \in Clients, d /= c
          PROVE  (ListIsEnd(d) /\ InOrder(d) /\ SpreadOut(d))'
      BY <1>2, <2>1, <2>2, <3>1
    <3>2. InOrder(c)' /\ SpreadOut(c)'
      BY <1>1, <2>1 DEF LimitInv, InOrder, SpreadOut
    <3> QED
      BY <2>3, <3>1, <3>2
  <2>5. PassedWithin(c, time)' >= MaxRequests
    BY <1>1, <1>4, <2>1, RefusalIsDeserved DEF PassedWithin
  <2>6. refused'.client = c /\ refused'.at = time
    BY <2>1
  <2>7. RefusalDeserved'
    BY <1>1, <2>5, <2>6 DEF RefusalDeserved
  <2> QED
    BY <1>1, <2>1, <2>2, <2>4, <2>6, <2>7 DEF LimitInv
<1> QED
  BY <1>3, <1>4
LEMMA LimitStart == ProxyInit => LimitInv
<1> SUFFICES ASSUME ProxyInit
             PROVE  LimitInv
  OBVIOUS
<1>1. \A c \in Clients : ListIsEnd(c) /\ InOrder(c) /\ SpreadOut(c)
  <2> SUFFICES ASSUME NEW c \in Clients
               PROVE  ListIsEnd(c) /\ InOrder(c) /\ SpreadOut(c)
    OBVIOUS
  <2>1. passed[c] = <<>> /\ requests[c] = <<>>
    BY DEF ProxyInit, Nothing
  <2> QED
    BY <2>1 DEF ListIsEnd, Evicted, InOrder, SpreadOut
<1> QED
  BY <1>1 DEF ProxyInit, LimitInv, Nothing, RefusalDeserved

LEMMA LimitStep == LimitInv /\ [ProxyNext]_proxyVars => LimitInv'
<1> SUFFICES ASSUME LimitInv, [ProxyNext]_proxyVars
             PROVE  LimitInv'
  OBVIOUS
<1>1. CASE UNCHANGED <<time, requests, passed, refused>>
  <2>1. \A c \in Clients : (ListIsEnd(c) /\ InOrder(c) /\ SpreadOut(c))'
    BY <1>1 DEF LimitInv, ListIsEnd, Evicted, InOrder, SpreadOut
  <2>2. RefusalDeserved'
    BY <1>1 DEF LimitInv, RefusalDeserved, PassedWithin
  <2> QED
    BY <1>1, <2>1, <2>2 DEF LimitInv
<1>2. CASE Pass
  <2>1. time' = time + 1 /\ time \in Nat /\ UNCHANGED <<requests, passed, refused>>
    BY <1>2 DEF Pass, LimitInv
  <2>2. ASSUME NEW c \in Clients
        PROVE  (ListIsEnd(c) /\ InOrder(c) /\ SpreadOut(c))'
    <3>1. \A i \in 1..Len(passed[c]) : passed[c][i] \in Nat
      BY DEF LimitInv, ListIsEnd
    <3>2. Evicted(c)' = Evicted(c) /\ Evicted(c) \in Nat /\ Evicted(c) <= Len(passed[c])
      BY <2>1 DEF LimitInv, ListIsEnd, Evicted
    <3>3. ASSUME NEW i \in 1..Evicted(c)
          PROVE  passed[c][i] <= time' - Window
      <4>1. i \in 1..Len(passed[c])
        BY <3>2 DEF LimitInv, ListIsEnd
      <4>2. passed[c][i] <= time - Window
        BY DEF LimitInv, ListIsEnd
      <4> QED
        BY <2>1, <3>1, <4>1, <4>2, LimitAssumption
    <3>4. ASSUME NEW i \in 1..Len(passed[c])
          PROVE  passed[c][i] <= time'
      <4>1. passed[c][i] <= time
        BY DEF LimitInv, InOrder
      <4> QED
        BY <2>1, <3>1, <4>1
    <3>5. ListIsEnd(c)'
      BY <2>1, <3>2, <3>3 DEF LimitInv, ListIsEnd
    <3>6. InOrder(c)' /\ SpreadOut(c)'
      BY <2>1, <3>4 DEF LimitInv, InOrder, SpreadOut
    <3> QED
      BY <3>5, <3>6
  <2>3. RefusalDeserved'
    BY <2>1 DEF LimitInv, RefusalDeserved, PassedWithin
  <2> QED
    BY <2>1, <2>2, <2>3 DEF LimitInv
<1>3. CASE StopService
  <2>1. requests' = Nothing /\ passed' = Nothing /\ refused' = Null /\ time' = time
    BY <1>3 DEF StopService
  <2>2. ASSUME NEW c \in Clients
        PROVE  (ListIsEnd(c) /\ InOrder(c) /\ SpreadOut(c))'
    <3>1. passed'[c] = <<>> /\ requests'[c] = <<>>
      BY <2>1 DEF Nothing
    <3> QED
      BY <3>1 DEF ListIsEnd, Evicted, InOrder, SpreadOut
  <2> QED
    BY <2>1, <2>2 DEF LimitInv, Nothing, RefusalDeserved
<1>4. CASE \E c \in Clients : Arrive(c)
  BY <1>4, ArriveStep
<1> QED
  BY <1>1, <1>2, <1>3, <1>4
     DEF ProxyNext, proxyVars, Read, Respond, StartService

\* The rate limiter is exact, for every limit, window and number of clients: no window
\* of one process holds more requests than the limit, and a client is refused only when
\* its own requests fill the window (RateLimiter.check).
THEOREM LimitStaysExact == ProxySpec => []LimitIsExact
<1>1. LimitInv => LimitIsExact
  <2> SUFFICES ASSUME LimitInv
               PROVE  LimitIsExact
    OBVIOUS
  <2>1. WindowRespected
    BY WindowHoldsLimit DEF WindowRespected
  <2>2. RefusalDeserved
    BY DEF LimitInv
  <2> QED
    BY <2>1, <2>2 DEF LimitIsExact
<1> QED
  BY <1>1, LimitStart, LimitStep, PTL DEF ProxySpec

=============================================================================
