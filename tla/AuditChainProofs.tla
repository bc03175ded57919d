--------------------------- MODULE AuditChainProofs ---------------------------
(***************************************************************************)
(* Proofs about the writers of AuditChain, for any lattices, writers and   *)
(* contents, and whatever rows are lost or altered. A writer that has read *)
(* the head of a lattice is the only one until it ends, so the head it     *)
(* links to is still the last committed event when it appends.             *)
(***************************************************************************)
EXTENDS AuditChain, FiniteSetTheorems, TLAPS

IsSeq(s) == \E S : s \in Seq(S)

Shapes == /\ \A l \in Lattices : IsSeq(log[l])
          /\ log = [l \in Lattices |-> log[l]]
          /\ head = [l \in Lattices |-> head[l]]
          /\ tx = [w \in Writers |-> tx[w]]
          /\ headed \subseteq Lattices /\ lattices \subseteq Lattices

\* The log of a lattice is a chain that its head ends.
LogIsChain(l) ==
  /\ head[l].seq = Len(log[l])
  /\ head[l].hash = LinkOf(l, Len(log[l]) + 1)
  /\ \A i \in 1..Len(log[l]) : log[l][i].seq = i /\ log[l][i].prev = LinkOf(l, i)

EventShape(e) == DOMAIN e = {"lattice", "seq", "data", "prev", "hash"}

\* A stored row bears the number and the hash of a committed event.
RowIsLogged(e) == /\ EventShape(e) /\ e.lattice \in Lattices
                  /\ e.seq \in 1..Len(log[e.lattice])
                  /\ e.hash = log[e.lattice][e.seq].hash

\* The event of an open transaction continues the chain.
EventContinues(w) ==
  LET e == tx[w].event IN
  /\ EventShape(e) /\ tx[w].lattice \in Lattices /\ e.lattice = tx[w].lattice
  /\ e.seq = head[e.lattice].seq + 1 /\ e.prev = head[e.lattice].hash

OneWriterPerLattice ==
  \A v, w \in Writers :
     v # w /\ tx[v].open /\ tx[w].open => tx[v].lattice # tx[w].lattice

ChainInv == /\ Shapes /\ OneWriterPerLattice
            /\ \A l \in Lattices : LogIsChain(l)
            /\ \A e \in events : RowIsLogged(e)
            /\ \A w \in Writers : tx[w].open => EventContinues(w)

\* What appending does to a sequence of anything.
LEMMA AppendFacts ==
  ASSUME NEW s, IsSeq(s), NEW e
  PROVE  /\ IsSeq(Append(s, e)) /\ Len(s) \in Nat
         /\ Len(Append(s, e)) = Len(s) + 1 /\ Append(s, e)[Len(s) + 1] = e
         /\ \A i \in 1..Len(s) : Append(s, e)[i] = s[i]
<1>1. PICK S : s \in Seq(S)
  BY DEF IsSeq
<1>2. s \in Seq(S \union {e}) /\ e \in S \union {e}
  BY <1>1
<1>3. Append(s, e) \in Seq(S \union {e})
  BY <1>2
<1> QED
  BY <1>2, <1>3 DEF IsSeq

LEMMA ChainInit == AuditInit => ChainInv
<1> SUFFICES ASSUME AuditInit
             PROVE  ChainInv
  OBVIOUS
<1>1. <<>> \in Seq({})
  OBVIOUS
<1>2. IsSeq(<<>>)
  BY <1>1 DEF IsSeq
<1> QED
  BY <1>2 DEF AuditInit, ChainInv, Shapes, LogIsChain, LinkOf, OneWriterPerLattice, NoTx

LEMMA ReadHeadStep ==
  ASSUME ChainInv, NEW w \in Writers, NEW l \in Lattices, NEW d, ReadHead(w, l, d)
  PROVE  ChainInv'
<1> DEFINE e == [lattice |-> l, seq |-> head[l].seq + 1, data |-> d,
                 prev |-> head[l].hash,
                 hash |-> HashOf(l, head[l].seq + 1, d, head[l].hash)]
           t == [open |-> TRUE, lattice |-> l, event |-> e]
<1>1. /\ tx' = [tx EXCEPT ![w] = t] /\ LockFree(l)
      /\ UNCHANGED <<lattices, headed, head, events, log>>
  BY DEF ReadHead
<1>2. /\ EventShape(e) /\ e.lattice = l /\ e.seq = head[l].seq + 1 /\ e.prev = head[l].hash
      /\ t.lattice = l /\ t.event = e
  BY DEF EventShape
<1> HIDE DEF e, t
<1>3. Shapes'
  BY <1>1 DEF ChainInv, Shapes
<1>4. tx'[w] = t /\ \A v \in Writers : v # w => tx'[v] = tx[v]
  BY <1>1 DEF ChainInv, Shapes
<1>5. OneWriterPerLattice'
  <2>1. ASSUME NEW v \in Writers, v # w, tx'[v].open
        PROVE  tx'[v].lattice # tx'[w].lattice
    BY <1>1, <1>2, <1>4, <2>1 DEF LockFree
  <2> QED
    BY <1>4, <2>1 DEF ChainInv, OneWriterPerLattice
<1>6. \A k \in Lattices : LogIsChain(k)'
  BY <1>1 DEF ChainInv, LogIsChain, LinkOf
<1>7. \A x \in events' : RowIsLogged(x)'
  BY <1>1 DEF ChainInv, RowIsLogged
<1>8. ASSUME NEW v \in Writers, tx'[v].open
      PROVE  EventContinues(v)'
  <2>1. CASE v = w
    BY <1>1, <1>2, <1>4, <2>1 DEF EventContinues
  <2>2. CASE v # w
    BY <1>1, <1>4, <1>8, <2>2 DEF ChainInv, EventContinues
  <2> QED
    BY <2>1, <2>2
<1> QED
  BY <1>3, <1>5, <1>6, <1>7, <1>8 DEF ChainInv

LEMMA AppendStep ==
  ASSUME ChainInv, NEW w \in Writers, AppendEvent(w)
  PROVE  ChainInv'
<1>0. PICK e, l, n : e = tx[w].event /\ l = e.lattice /\ n = Len(log[l])
  OBVIOUS
<1> DEFINE h == [seq |-> e.seq, hash |-> e.hash]
<1>1. /\ tx[w].open /\ events' = events \cup {e}
      /\ head' = [head EXCEPT ![l] = h] /\ log' = [log EXCEPT ![l] = Append(log[l], e)]
      /\ tx' = [tx EXCEPT ![w] = NoTx] /\ UNCHANGED <<lattices, headed>>
  BY <1>0 DEF AppendEvent
<1>2. /\ EventShape(e) /\ l \in Lattices /\ l = tx[w].lattice
      /\ e.seq = head[l].seq + 1 /\ e.prev = head[l].hash
  BY <1>0, <1>1 DEF ChainInv, EventContinues
<1>3. h.seq = e.seq /\ h.hash = e.hash /\ ~NoTx.open
  BY DEF NoTx
<1>4. IsSeq(log[l]) /\ LogIsChain(l)
  BY <1>2 DEF ChainInv, Shapes
<1>5. n \in Nat /\ head[l].seq = n /\ e.seq = n + 1 /\ e.prev = LinkOf(l, n + 1)
  BY <1>0, <1>2, <1>4, AppendFacts DEF LogIsChain
<1> HIDE DEF h
<1>6. /\ log'[l] = Append(log[l], e) /\ head'[l] = h
      /\ \A k \in Lattices : k # l => log'[k] = log[k] /\ head'[k] = head[k]
  BY <1>1, <1>2 DEF ChainInv, Shapes
<1>7. /\ IsSeq(log'[l]) /\ Len(log'[l]) = n + 1 /\ log'[l][n + 1] = e
      /\ \A i \in 1..n : log'[l][i] = log[l][i]
  <2>1. /\ IsSeq(Append(log[l], e)) /\ Len(Append(log[l], e)) = Len(log[l]) + 1
        /\ Append(log[l], e)[Len(log[l]) + 1] = e
        /\ \A i \in 1..Len(log[l]) : Append(log[l], e)[i] = log[l][i]
    BY <1>4, AppendFacts
  <2>2. log'[l] = Append(log[l], e) /\ n = Len(log[l])
    BY <1>0, <1>6
  <2> QED
    BY <2>1, <2>2
<1>8. Shapes'
  BY <1>1, <1>6, <1>7 DEF ChainInv, Shapes
<1>9. \A v \in Writers : v # w => tx'[v] = tx[v]
  BY <1>1 DEF ChainInv, Shapes
<1>10. ~tx'[w].open
  BY <1>1, <1>3 DEF ChainInv, Shapes
<1>11. OneWriterPerLattice'
  BY <1>9, <1>10 DEF ChainInv, OneWriterPerLattice
<1>12. \A i \in 1..(n + 1) : LinkOf(l, i)' = LinkOf(l, i)
  BY <1>5, <1>7 DEF LinkOf
<1>13. LogIsChain(l)'
  <2>1. (head[l].seq)' = Len(log[l])'
    BY <1>3, <1>5, <1>6, <1>7
  <2>2. LinkOf(l, n + 2)' = e.hash
    BY <1>5, <1>7 DEF LinkOf
  <2>3. head'[l].hash = LinkOf(l, n + 2)'
    BY <1>3, <1>6, <2>2
  <2>4. ASSUME NEW i \in 1..(n + 1)
        PROVE  log'[l][i].seq = i /\ log'[l][i].prev = LinkOf(l, i)'
    <3>1. CASE i \in 1..n
      <4>1. log[l][i].seq = i /\ log[l][i].prev = LinkOf(l, i)
        BY <1>0, <1>4, <3>1 DEF LogIsChain
      <4>2. log'[l][i] = log[l][i] /\ LinkOf(l, i)' = LinkOf(l, i)
        BY <1>7, <1>12, <3>1
      <4> QED
        BY <4>1, <4>2
    <3>2. CASE i = n + 1
      BY <1>5, <1>7, <1>12, <3>2
    <3> QED
      BY <1>5, <3>1, <3>2
  <2>5. n + 2 = (n + 1) + 1
    BY <1>5
  <2> QED
    BY <1>7, <2>1, <2>3, <2>4, <2>5 DEF LogIsChain
<1>14. \A k \in Lattices : LogIsChain(k)'
  <2>1. ASSUME NEW k \in Lattices, k # l
        PROVE  LogIsChain(k)'
    <3>1. log'[k] = log[k] /\ head'[k] = head[k]
      BY <1>6, <2>1
    <3>2. LogIsChain(k)
      BY DEF ChainInv
    <3>3. \A i : LinkOf(k, i)' = LinkOf(k, i)
      BY <3>1 DEF LinkOf
    <3> QED
      BY <3>1, <3>2, <3>3 DEF LogIsChain
  <2> QED
    BY <1>13, <2>1
<1>15. ASSUME NEW x \in events'
       PROVE  RowIsLogged(x)'
  <2>1. CASE x = e
    <3>1. e.seq \in 1..Len(log'[l]) /\ e.hash = log'[l][e.seq].hash
      BY <1>5, <1>7
    <3> QED
      BY <1>0, <1>2, <2>1, <3>1 DEF RowIsLogged
  <2>2. CASE x \in events /\ x.lattice = l
    <3>1. RowIsLogged(x)
      BY <2>2 DEF ChainInv
    <3>2. x.seq \in 1..n /\ x.hash = log[l][x.seq].hash
      BY <1>0, <2>2, <3>1 DEF RowIsLogged
    <3>3. x.seq \in 1..(n + 1) /\ x.hash = log'[l][x.seq].hash
      BY <1>5, <1>7, <3>2
    <3> QED
      BY <1>7, <2>2, <3>1, <3>3 DEF RowIsLogged
  <2>3. CASE x \in events /\ x.lattice # l
    BY <1>6, <2>3 DEF ChainInv, RowIsLogged
  <2> QED
    BY <1>1, <2>1, <2>2, <2>3
<1>16. ASSUME NEW v \in Writers, tx'[v].open
       PROVE  EventContinues(v)'
  <2>1. v # w /\ tx'[v] = tx[v] /\ tx[v].open
    BY <1>9, <1>10, <1>16
  <2>2. EventContinues(v) /\ tx[v].lattice # l
    BY <1>1, <1>2, <2>1 DEF ChainInv, OneWriterPerLattice
  <2> QED
    BY <1>6, <2>1, <2>2 DEF EventContinues
<1> QED
  BY <1>8, <1>11, <1>14, <1>15, <1>16 DEF ChainInv

\* A step that leaves the heads, the log and the transactions alone.
LEMMA DamageStep ==
  ASSUME ChainInv, UNCHANGED <<head, tx, log>>, UNCHANGED <<lattices, headed>>,
         \A x \in events' : RowIsLogged(x)
  PROVE  ChainInv'
BY ZenonT(30) DEF ChainInv, Shapes, OneWriterPerLattice, LogIsChain, LinkOf, RowIsLogged, EventContinues

LEMMA ChainStep == ChainInv /\ [AuditNext]_auditVars => ChainInv'
<1> SUFFICES ASSUME ChainInv, [AuditNext]_auditVars
             PROVE  ChainInv'
  OBVIOUS
<1>1. CASE UNCHANGED auditVars
  BY <1>1, DamageStep DEF auditVars, ChainInv
<1>2. ASSUME NEW l \in Lattices, CreateLattice(l) \/ InitHead(l)
      PROVE  ChainInv'
  <2>1. /\ UNCHANGED <<head, events, tx, log>>
        /\ lattices' \subseteq Lattices /\ headed' \subseteq Lattices
    BY <1>2 DEF CreateLattice, InitHead, ChainInv, Shapes
  <2> QED
    BY <2>1, ZenonT(30) DEF ChainInv, Shapes, OneWriterPerLattice, LogIsChain, LinkOf, RowIsLogged,
                EventContinues
<1>3. ASSUME NEW w \in Writers, Rollback(w)
      PROVE  ChainInv'
  <2>1. ~NoTx.open
    BY DEF NoTx
  <2>2. /\ tx'[w] = NoTx /\ \A v \in Writers : v # w => tx'[v] = tx[v]
        /\ tx' = [v \in Writers |-> tx'[v]]
        /\ UNCHANGED <<lattices, headed, head, events, log>>
    BY <1>3 DEF Rollback, ChainInv, Shapes
  <2>3. \A v \in Writers : tx'[v].open => v # w /\ tx'[v] = tx[v] /\ tx[v].open
    BY <2>1, <2>2
  <2>4. OneWriterPerLattice' /\ \A v \in Writers : tx'[v].open => EventContinues(v)'
    BY <2>2, <2>3 DEF ChainInv, OneWriterPerLattice, EventContinues
  <2>5. \A k \in Lattices : LogIsChain(k)'
    BY <2>2 DEF ChainInv, LogIsChain, LinkOf
  <2>6. Shapes' /\ \A e \in events' : RowIsLogged(e)'
    BY <2>2 DEF ChainInv, Shapes, RowIsLogged
  <2> QED
    BY <2>4, <2>5, <2>6 DEF ChainInv
<1>4. ASSUME NEW e \in events, Drop(e)
      PROVE  ChainInv'
  BY <1>4, DamageStep DEF Drop, ChainInv
<1>5. ASSUME NEW e \in events, NEW d \in Data, Alter(e, d)
      PROVE  ChainInv'
  <2> DEFINE x == [e EXCEPT !.data = d]
  <2>1. RowIsLogged(e)
    BY DEF ChainInv
  <2>2. /\ x.lattice = e.lattice /\ x.seq = e.seq /\ x.hash = e.hash
        /\ DOMAIN x = DOMAIN e
    BY <2>1 DEF RowIsLogged, EventShape
  <2>3. events' \subseteq events \cup {x}
    BY <1>5 DEF Alter
  <2> HIDE DEF x
  <2>4. RowIsLogged(x)
    BY <2>1, <2>2 DEF RowIsLogged, EventShape
  <2> QED
    BY <1>5, <2>3, <2>4, DamageStep DEF Alter, ChainInv
<1> QED
  BY <1>1, <1>2, <1>3, <1>4, <1>5, ReadHeadStep, AppendStep DEF AuditNext

\* The committed events form a chain that ends in the head and that the stored rows
\* belong to, however writers interleave and roll back (AuditWriter).
THEOREM LogStaysAChain == AuditSpec => []ChainIsTheLog
<1>1. ChainInv => ChainIsTheLog
  BY DEF ChainInv, LogIsChain, RowIsLogged, ChainIsTheLog
<1> QED
  BY <1>1, ChainInit, ChainStep, PTL DEF AuditSpec

\* No writer is refused by the unique index (write_event_in_transaction and the lock of
\* the head).
THEOREM WritersNeverCollide == AuditSpec => []AppendNeverConflicts
<1>1. ASSUME ChainInv
      PROVE  AppendNeverConflicts
  <2>1. ASSUME NEW w \in Writers, tx[w].open, NEW x \in events, x.lattice = tx[w].lattice
        PROVE  x.seq # tx[w].event.seq
    <3>1. EventContinues(w) /\ RowIsLogged(x)
      BY <1>1, <2>1 DEF ChainInv
    <3>2. LogIsChain(x.lattice) /\ IsSeq(log[x.lattice])
      BY <1>1, <3>1 DEF ChainInv, Shapes, RowIsLogged
    <3>3. Len(log[x.lattice]) \in Nat
      BY <3>2, AppendFacts
    <3>4. /\ x.seq \in 1..Len(log[x.lattice])
          /\ tx[w].event.seq = Len(log[x.lattice]) + 1
      BY <2>1, <3>1, <3>2 DEF EventContinues, RowIsLogged, LogIsChain
    <3> QED
      BY <3>3, <3>4
  <2> QED
    BY <2>1 DEF AppendNeverConflicts
<1> QED
  BY <1>1, ChainInit, ChainStep, PTL DEF AuditSpec

-------------------------------------------------------------------------------
(***************************************************************************)
(* What the verifier sees. The rows it reads come back in the order of     *)
(* their numbers, which the unique index keeps apart; a hash determines    *)
(* everything that it was computed from.                                   *)
(***************************************************************************)
\* An event has the columns of its envelope, its hash, and nothing else.
Whole(e) == e = [lattice |-> e.lattice, seq |-> e.seq, data |-> e.data, prev |-> e.prev,
                 hash |-> e.hash]

\* The hash is that of the envelope: true of what a writer makes, not of altered rows.
Hashed(e) == e.hash = HashOf(e.lattice, e.seq, e.data, e.prev)

Logged(e, l) == Whole(e) /\ Hashed(e) /\ e.lattice = l

NumbersAreUnique ==
  \A x, y \in events : x.lattice = y.lattice /\ x.seq = y.seq => x = y

RowInv == /\ IsFiniteSet(events) /\ NumbersAreUnique
          /\ \A e \in events : Whole(e)
          /\ \A l \in Lattices : \A i \in 1..Len(log[l]) : Logged(log[l][i], l)
          /\ \A w \in Writers : tx[w].open => Logged(tx[w].event, tx[w].lattice)

\* A non-empty set of numbers has a least element: induction, without an operator.
LEMMA LeastNumber ==
  ASSUME NEW T, T \subseteq Nat, T # {}
  PROVE  \E n \in T : \A m \in T : n <= m
<1> DEFINE R == OpToRel(<, Nat)
<1>1. IsWellFoundedOn(R, Nat)
  BY NatLessThanWellFounded
<1>2. \A x, y \in Nat : y < x => <<y, x>> \in R
  BY DEF OpToRel
<1> HIDE DEF R
<1>3. PICK x \in T : \A y \in T : ~(<<y, x>> \in R)
  BY <1>1, WFMin
<1>4. ASSUME NEW m \in T
      PROVE  x <= m
  <2>1. x \in Nat /\ m \in Nat /\ ~(m < x)
    BY <1>2, <1>3
  <2> QED
    BY <2>1
<1> QED
  BY <1>4

LEMMA RowInit == AuditInit => RowInv
BY FS_EmptySet DEF AuditInit, RowInv, NumbersAreUnique, NoTx

LEMMA RowStep == ChainInv /\ RowInv /\ [AuditNext]_auditVars => RowInv'
<1> SUFFICES ASSUME ChainInv, RowInv, [AuditNext]_auditVars
             PROVE  RowInv'
  OBVIOUS
<1>1. CASE UNCHANGED auditVars
  BY <1>1 DEF auditVars, RowInv, NumbersAreUnique
<1>2. ASSUME NEW l \in Lattices, CreateLattice(l) \/ InitHead(l)
      PROVE  RowInv'
  BY <1>2 DEF CreateLattice, InitHead, RowInv, NumbersAreUnique
<1>3. ASSUME NEW w \in Writers, NEW l \in Lattices, NEW d, ReadHead(w, l, d)
      PROVE  RowInv'
  <2> DEFINE e == [lattice |-> l, seq |-> head[l].seq + 1, data |-> d,
                   prev |-> head[l].hash,
                   hash |-> HashOf(l, head[l].seq + 1, d, head[l].hash)]
             t == [open |-> TRUE, lattice |-> l, event |-> e]
  <2>1. tx' = [tx EXCEPT ![w] = t] /\ UNCHANGED <<events, log>>
    BY <1>3 DEF ReadHead
  <2>2. Logged(e, l)
    BY DEF Logged, Whole, Hashed
  <2>3. t.event = e /\ t.lattice = l
    OBVIOUS
  <2> HIDE DEF e, t
  <2>4. tx'[w] = t /\ \A v \in Writers : v # w => tx'[v] = tx[v]
    BY <2>1 DEF ChainInv, Shapes
  <2>5. \A v \in Writers : tx'[v].open => Logged(tx'[v].event, tx'[v].lattice)
    BY <2>2, <2>3, <2>4 DEF RowInv
  <2> QED
    BY <2>1, <2>5 DEF RowInv, NumbersAreUnique
<1>4. ASSUME NEW w \in Writers, AppendEvent(w)
      PROVE  RowInv'
  <2>0. PICK e, l, n : e = tx[w].event /\ l = e.lattice /\ n = Len(log[l])
    OBVIOUS
  <2>1. /\ tx[w].open /\ events' = events \cup {e}
        /\ \A x \in events : x.lattice = l => x.seq # e.seq
        /\ log' = [log EXCEPT ![l] = Append(log[l], e)]
        /\ tx' = [tx EXCEPT ![w] = NoTx]
    BY <1>4, <2>0 DEF AppendEvent
  <2>2. Logged(e, l) /\ l \in Lattices /\ IsSeq(log[l])
    BY <2>0, <2>1 DEF ChainInv, EventContinues, RowInv, Shapes, Logged
  <2>3. IsFiniteSet(events')
    BY <2>1, FS_AddElement DEF RowInv
  <2>4. NumbersAreUnique' /\ \A x \in events' : Whole(x)
    BY <2>0, <2>1, <2>2 DEF RowInv, NumbersAreUnique, Logged
  <2>5. \A v \in Writers : tx'[v].open => v # w /\ tx'[v] = tx[v]
    BY <2>1 DEF ChainInv, Shapes, NoTx
  <2>6. /\ log'[l] = Append(log[l], e)
        /\ \A k \in Lattices : k # l => log'[k] = log[k]
    BY <2>1, <2>2 DEF ChainInv, Shapes
  <2>7. /\ Len(log'[l]) = n + 1 /\ n \in Nat /\ log'[l][n + 1] = e
        /\ \A i \in 1..n : log'[l][i] = log[l][i]
    <3>1. /\ Len(Append(log[l], e)) = Len(log[l]) + 1 /\ Len(log[l]) \in Nat
          /\ Append(log[l], e)[Len(log[l]) + 1] = e
          /\ \A i \in 1..Len(log[l]) : Append(log[l], e)[i] = log[l][i]
      BY <2>2, AppendFacts
    <3>2. log'[l] = Append(log[l], e) /\ n = Len(log[l])
      BY <2>0, <2>6
    <3> QED
      BY <3>1, <3>2
  <2>8. ASSUME NEW k \in Lattices, NEW i \in 1..Len(log'[k])
        PROVE  Logged(log'[k][i], k)
    <3>1. CASE k # l
      BY <2>6, <3>1 DEF RowInv
    <3>2. CASE k = l /\ i \in 1..n
      BY <2>0, <2>7, <3>2 DEF RowInv
    <3>3. CASE k = l /\ i = n + 1
      BY <2>2, <2>7, <3>3
    <3> QED
      BY <2>7, <3>1, <3>2, <3>3
  <2> QED
    BY <2>3, <2>4, <2>5, <2>8 DEF RowInv
<1>5. ASSUME NEW w \in Writers, Rollback(w)
      PROVE  RowInv'
  <2>1. \A v \in Writers : tx'[v].open => v # w /\ tx'[v] = tx[v]
    BY <1>5 DEF Rollback, ChainInv, Shapes, NoTx
  <2>2. UNCHANGED <<events, log>>
    BY <1>5 DEF Rollback
  <2> QED
    BY <2>1, <2>2 DEF RowInv, NumbersAreUnique
<1>6. ASSUME NEW e \in events, Drop(e)
      PROVE  RowInv'
  <2>1. events' = events \ {e} /\ UNCHANGED <<tx, log>>
    BY <1>6 DEF Drop
  <2>2. IsFiniteSet(events')
    BY <2>1, FS_RemoveElement DEF RowInv
  <2> QED
    BY <2>1, <2>2 DEF RowInv, NumbersAreUnique
<1>7. ASSUME NEW e \in events, NEW d \in Data, Alter(e, d)
      PROVE  RowInv'
  <2>0. PICK x : x = [e EXCEPT !.data = d]
    OBVIOUS
  <2>1. events' = (events \ {e}) \cup {x} /\ UNCHANGED <<tx, log>>
    BY <1>7, <2>0 DEF Alter
  <2>2. IsFiniteSet(events')
    BY <2>1, FS_RemoveElement, FS_AddElement DEF RowInv
  <2>3. x.lattice = e.lattice /\ x.seq = e.seq /\ Whole(x)
    BY <2>0 DEF RowInv, Whole
  <2>4. NumbersAreUnique' /\ \A y \in events' : Whole(y)
    BY <2>1, <2>3 DEF RowInv, NumbersAreUnique
  <2> QED
    BY <2>1, <2>2, <2>4 DEF RowInv
<1> QED
  BY <1>1, <1>2, <1>3, <1>4, <1>5, <1>6, <1>7 DEF AuditNext

RowsOf(l) == { e \in events : e.lattice = l }
RankIn(l, e) == Cardinality({ x \in RowsOf(l) : x.seq <= e.seq })

\* Distinct rows have distinct ranks, so every place of the result is filled.
LEMMA RanksFill ==
  ASSUME ChainInv, RowInv, NEW l \in Lattices
  PROVE  /\ IsFiniteSet(RowsOf(l)) /\ Cardinality(RowsOf(l)) \in Nat
         /\ \A x, y \in RowsOf(l) : RankIn(l, x) = RankIn(l, y) => x = y
         /\ \A i \in 1..Cardinality(RowsOf(l)) : \E e \in RowsOf(l) : RankIn(l, e) = i
<1> DEFINE n == Cardinality(RowsOf(l))
           upTo(e) == { x \in RowsOf(l) : x.seq <= e.seq }
           f == [e \in RowsOf(l) |-> RankIn(l, e)]
<1>1. IsFiniteSet(RowsOf(l)) /\ n \in Nat
  BY FS_Subset, FS_CardinalityType DEF RowInv, RowsOf
<1>2. \A e \in RowsOf(l) : e.seq \in Nat
  <2>1. \A e \in RowsOf(l) : e.seq \in 1..Len(log[l]) /\ IsSeq(log[l])
    BY DEF ChainInv, RowIsLogged, RowsOf, Shapes
  <2> QED
    BY <2>1, AppendFacts
<1>3. \A e \in RowsOf(l) : /\ IsFiniteSet(upTo(e)) /\ upTo(e) # {}
                           /\ RankIn(l, e) \in 1..n
  <2> SUFFICES ASSUME NEW e \in RowsOf(l)
               PROVE  /\ IsFiniteSet(upTo(e)) /\ upTo(e) # {}
                      /\ RankIn(l, e) \in 1..n
    OBVIOUS
  <2>1. upTo(e) \subseteq RowsOf(l) /\ e \in upTo(e)
    BY <1>2
  <2>2. IsFiniteSet(upTo(e)) /\ Cardinality(upTo(e)) <= n /\ Cardinality(upTo(e)) \in Nat
    BY <1>1, <2>1, FS_Subset, FS_CardinalityType
  <2>3. Cardinality(upTo(e)) # 0
    BY <2>1, <2>2, FS_EmptySet
  <2> QED
    BY <1>1, <2>1, <2>2, <2>3 DEF RankIn
<1>4. ASSUME NEW x \in RowsOf(l), NEW y \in RowsOf(l), RankIn(l, x) = RankIn(l, y),
             x.seq <= y.seq
      PROVE  x = y
  <2>1. upTo(x) \subseteq upTo(y)
    BY <1>2, <1>4
  <2>2. upTo(x) = upTo(y)
    BY <1>3, <1>4, <2>1, FS_Subset DEF RankIn
  <2>3. y.seq <= x.seq
    BY <1>2, <2>2
  <2> QED
    BY <1>2, <1>4, <2>3 DEF RowInv, NumbersAreUnique, RowsOf
<1>5. \A x, y \in RowsOf(l) : RankIn(l, x) = RankIn(l, y) => x = y
  BY <1>2, <1>4
<1>6. f \in Injection(RowsOf(l), 1..n)
  BY <1>3, <1>5 DEF Injection, IsInjective
<1>7. IsFiniteSet(1..n) /\ Cardinality(1..n) = n
  BY <1>1, FS_Interval
<1>8. f \in Surjection(RowsOf(l), 1..n)
  BY <1>6, <1>7, FS_Injection
<1>9. \A i \in 1..n : \E e \in RowsOf(l) : f[e] = i
  BY <1>8 DEF Surjection
<1> QED
  BY <1>1, <1>5, <1>9

\* Each place of the result holds the one row of its rank.
LEMMA StoredFacts ==
  ASSUME ChainInv, RowInv, NEW l \in Lattices
  PROVE  /\ Stored(l) = [i \in 1..Cardinality(RowsOf(l)) |-> Stored(l)[i]]
         /\ Len(Stored(l)) = Cardinality(RowsOf(l)) /\ Len(Stored(l)) \in Nat
         /\ \A i \in 1..Len(Stored(l)) :
               Stored(l)[i] \in RowsOf(l) /\ RankIn(l, Stored(l)[i]) = i
<1>1. Stored(l) = [i \in 1..Cardinality(RowsOf(l)) |->
                     CHOOSE e \in RowsOf(l) : RankIn(l, e) = i]
  BY DEF Stored, RowsOf, RankIn
<1>2. Cardinality(RowsOf(l)) \in Nat
  BY RanksFill
<1>3. Len(Stored(l)) = Cardinality(RowsOf(l))
  BY <1>1, <1>2
<1>4. ASSUME NEW i \in 1..Cardinality(RowsOf(l))
      PROVE  Stored(l)[i] \in RowsOf(l) /\ RankIn(l, Stored(l)[i]) = i
  BY <1>1, RanksFill
<1> QED
  BY <1>1, <1>2, <1>3, <1>4

\* A chain without damage comes back as the log.
LEMMA UndamagedIsLog ==
  ASSUME ChainInv, RowInv, NEW l \in Lattices, \A i \in 1..Len(log[l]) : log[l][i] \in events
  PROVE  Len(Stored(l)) = Len(log[l]) /\ \A i \in 1..Len(log[l]) : Stored(l)[i] = log[l][i]
<1> DEFINE n == Len(log[l])
           g(i) == [j \in 1..i |-> log[l][j]]
           first(i) == { x \in RowsOf(l) : x.seq <= i }
<1>1. n \in Nat /\ \A i \in 1..n : log[l][i].seq = i /\ log[l][i] \in RowsOf(l)
  BY AppendFacts DEF ChainInv, Shapes, LogIsChain, RowInv, Logged, RowsOf
<1>2. \A x \in RowsOf(l) : x.seq \in 1..n /\ x = log[l][x.seq]
  BY <1>1 DEF ChainInv, RowIsLogged, RowsOf, RowInv, NumbersAreUnique
<1>3. \A i \in 0..n : Cardinality(first(i)) = i
  <2> SUFFICES ASSUME NEW i \in 0..n
               PROVE  Cardinality(first(i)) = i
    OBVIOUS
  <2>1. g(i) \in Bijection(1..i, first(i))
    <3>1. g(i) \in [1..i -> first(i)]
      BY <1>1
    <3>2. \A x \in first(i) : x.seq \in 1..i /\ g(i)[x.seq] = x
      BY <1>1, <1>2
    <3>3. \A j, k \in 1..i : g(i)[j] = g(i)[k] => j = k
      BY <1>1
    <3> HIDE DEF g, first
    <3> QED
      BY <3>1, <3>2, <3>3 DEF Bijection, Injection, Surjection, IsInjective
  <2> HIDE DEF g, first
  <2>2. ExistsBijection(1..i, first(i)) /\ i \in Nat
    BY <1>1, <2>1 DEF ExistsBijection
  <2> QED
    BY <2>2, FS_CountingElements
<1>4. RowsOf(l) = first(n)
  BY <1>1, <1>2
<1>5. Len(Stored(l)) = n
  <2>1. Cardinality(first(n)) = n
    BY <1>1, <1>3
  <2> HIDE DEF first
  <2> QED
    BY <1>4, <2>1, StoredFacts
<1>6. \A i \in 1..n : RankIn(l, log[l][i]) = i
  BY <1>1, <1>3 DEF RankIn
<1>7. \A i \in 1..n : Stored(l)[i] = log[l][i]
  BY <1>1, <1>5, <1>6, StoredFacts, RanksFill
<1> QED
  BY <1>5, <1>7

\* A stored row whose hash is right is the committed event of its number.
LEMMA HashedRowIsLogged ==
  ASSUME ChainInv, RowInv, NEW l \in Lattices, NEW e \in RowsOf(l),
         e.hash = HashOf(l, e.seq, e.data, e.prev)
  PROVE  e.seq \in 1..Len(log[l]) /\ e = log[l][e.seq]
<1> DEFINE x == log[l][e.seq]
<1>1. e.lattice = l /\ Whole(e) /\ e.seq \in 1..Len(log[l]) /\ e.hash = x.hash
  BY DEF RowsOf, RowInv, ChainInv, RowIsLogged
<1>2. Whole(x) /\ x.hash = HashOf(x.lattice, x.seq, x.data, x.prev) /\ x.lattice = l
  BY <1>1 DEF RowInv, Logged, Hashed
<1> HIDE DEF x
<1>3. e.seq = x.seq /\ e.data = x.data /\ e.prev = x.prev
  BY <1>1, <1>2 DEF HashOf
<1>4. e = x
  BY <1>1, <1>2, <1>3 DEF Whole
<1> QED
  BY <1>1, <1>4 DEF x

\* The committed events whose link is known: the first links to nothing, the one after
\* the i-th to its hash.
LEMMA LinkDetermines ==
  ASSUME ChainInv, RowInv, NEW l \in Lattices, NEW k \in 1..Len(log[l])
  PROVE  /\ log[l][k].prev = GENESIS_HASH => k = 1
         /\ \A i \in 1..Len(log[l]) : log[l][k].prev = log[l][i].hash => k = i + 1
<1>1. /\ Len(log[l]) \in Nat
      /\ \A j \in 1..Len(log[l]) : /\ log[l][j].seq = j
                                   /\ log[l][j].hash = HashOf(l, j, log[l][j].data, log[l][j].prev)
  BY AppendFacts DEF ChainInv, Shapes, LogIsChain, RowInv, Logged, Hashed
<1>2. log[l][k].prev = IF k = 1 THEN GENESIS_HASH ELSE log[l][k - 1].hash
  BY DEF ChainInv, LogIsChain, LinkOf
<1>3. \A j \in 1..Len(log[l]) : log[l][j].hash # GENESIS_HASH
  <2>1. \A a, b, c, d : Len(<<a, b, c, d>>) = 4
    OBVIOUS
  <2>2. Len(GENESIS_HASH) = 0
    BY DEF GENESIS_HASH
  <2>3. \A j, d, p : HashOf(l, j, d, p) # GENESIS_HASH
    BY <2>1, <2>2 DEF HashOf
  <2> QED
    BY <1>1, <2>3
<1>4. \A i, j \in 1..Len(log[l]) : log[l][i].hash = log[l][j].hash => i = j
  BY <1>1 DEF HashOf
<1> QED
  BY <1>1, <1>2, <1>3, <1>4

\* The chain verifies as long as no row is damaged (AuditVerifier.verify).
THEOREM UndamagedChainsVerify == AuditSpec => []UndamagedVerifies
<1>1. ASSUME ChainInv, RowInv
      PROVE  UndamagedVerifies
  <2>1. ASSUME NEW l \in Lattices, \A i \in 1..Len(log[l]) : log[l][i] \in events
        PROVE  Verify(l)
    <3>1. \A i \in 1..Len(Stored(l)) :
             /\ Logged(Stored(l)[i], l)
             /\ Stored(l)[i].seq = i /\ Stored(l)[i].prev = LinkOf(l, i)
      BY <1>1, <2>1, UndamagedIsLog DEF RowInv, ChainInv, LogIsChain
    <3>2. \A i \in 1..Len(Stored(l)) : i # 1 => Stored(l)[i - 1] = log[l][i - 1]
      BY <1>1, <2>1, UndamagedIsLog, AppendFacts DEF ChainInv, Shapes
    <3> QED
      BY <3>1, <3>2 DEF Verify, Logged, Hashed, LinkOf
  <2> QED
    BY <2>1 DEF UndamagedVerifies
<1> QED
  BY <1>1, ChainInit, ChainStep, RowInit, RowStep, PTL DEF AuditSpec

\* Whatever rows are lost or altered, a chain that verifies is a prefix of what was
\* committed (AuditVerifier.verify).
THEOREM VerificationFindsDamage == AuditSpec => []VerifiedIsPrefix
<1>1. ASSUME ChainInv, RowInv, NEW l \in Lattices, Verify(l)
      PROVE  /\ Len(Stored(l)) <= Len(log[l])
             /\ Stored(l) = SubSeq(log[l], 1, Len(Stored(l)))
  <2> DEFINE n == Len(Stored(l))
             s == [i \in 1..n |-> Stored(l)[i]]
             wrong == { i \in 1..n : Stored(l)[i].seq # i }
  <2>1. n \in Nat /\ Stored(l) = s
    BY <1>1, StoredFacts
  <2>2. Len(log[l]) \in Nat /\ IsSeq(log[l])
    BY <1>1, AppendFacts DEF ChainInv, Shapes
  <2>3. \A i \in 1..n : LET e == Stored(l)[i] IN
           /\ e.seq \in 1..Len(log[l]) /\ e = log[l][e.seq]
           /\ e.prev = IF i = 1 THEN GENESIS_HASH ELSE Stored(l)[i - 1].hash
    BY <1>1, StoredFacts, HashedRowIsLogged DEF Verify
  <2>4. wrong = {}
    <3> SUFFICES ASSUME wrong # {}
                 PROVE  FALSE
      OBVIOUS
    <3>1. PICK i \in wrong : \A j \in wrong : i <= j
      <4>1. wrong \subseteq Nat
        BY <2>1
      <4> QED
        BY <4>1, LeastNumber
    <3>2. i \in 1..n
      OBVIOUS
    <3> DEFINE k == Stored(l)[i].seq
    <3>3. k \in 1..Len(log[l]) /\ k # i
          /\ log[l][k].prev = IF i = 1 THEN GENESIS_HASH ELSE Stored(l)[i - 1].hash
      BY <2>3, <3>2
    <3>4. CASE i = 1
      BY <1>1, <3>3, <3>4, LinkDetermines
    <3>5. CASE i # 1
      <4>1. i - 1 \in 1..n /\ i - 1 \notin wrong
        BY <2>1, <3>1, <3>2, <3>5
      <4>2. Stored(l)[i - 1].seq = i - 1
        BY <4>1
      <4>3. i - 1 \in 1..Len(log[l]) /\ Stored(l)[i - 1] = log[l][i - 1]
        BY <2>3, <4>1, <4>2
      <4>4. k = (i - 1) + 1
        BY <1>1, <3>3, <3>5, <4>3, LinkDetermines
      <4> QED
        BY <2>1, <3>2, <3>3, <4>4
    <3> QED
      BY <3>4, <3>5
  <2>5. \A i \in 1..n : i \in 1..Len(log[l]) /\ Stored(l)[i] = log[l][i]
    <3> TAKE i \in 1..n
    <3>1. Stored(l)[i].seq = i
      BY <2>4
    <3>2. /\ Stored(l)[i].seq \in 1..Len(log[l])
          /\ Stored(l)[i] = log[l][Stored(l)[i].seq]
      BY <2>3
    <3> QED
      BY <3>1, <3>2
  <2>6. n <= Len(log[l])
    BY <2>1, <2>2, <2>5
  <2>7. SubSeq(log[l], 1, n) = [i \in 1..n |-> log[l][i]]
    <3>1. PICK S : log[l] \in Seq(S)
      BY <2>2 DEF IsSeq
    <3> QED
      BY <2>1, <2>6, <3>1
  <2> HIDE DEF n
  <2>8. s = [i \in 1..n |-> log[l][i]]
    BY <2>5
  <2> QED
    BY <2>1, <2>6, <2>7, <2>8 DEF n
<1>2. ChainInv /\ RowInv => VerifiedIsPrefix
  BY <1>1 DEF VerifiedIsPrefix
<1> QED
  BY <1>2, ChainInit, ChainStep, RowInit, RowStep, PTL DEF AuditSpec

===============================================================================
