------------------------------ MODULE AuditChain ------------------------------
(***************************************************************************)
(* The audit chain: per-lattice heads, writers that append inside their    *)
(* caller's transaction, and the verifier that recomputes the chain.       *)
(*                                                                         *)
(* SHA-256 over the canonical envelope is a tuple of the envelope's        *)
(* fields: equal exactly when the envelopes are.  A writer's transaction   *)
(* holds the row lock of the head it read until it commits or rolls back:  *)
(* this is PostgreSQL.  The branch for SQLite takes no lock of its own.    *)
(* Losses model a damaged or partly restored ep_events table.              *)
(***************************************************************************)
EXTENDS Naturals, Sequences, FiniteSets

CONSTANTS
  Lattices,
  Writers,
  Data,       \* contents of events
  MaxEvents,  \* bound of the model: events written per lattice
  Losses      \* "drop": an event row is lost; "alter": its content changes

ASSUME AuditAssumption ==
  /\ MaxEvents \in Nat
  /\ Losses \subseteq {"drop", "alter"}

VARIABLES
  lattices,  \* ep_lattices
  headed,    \* lattices with a row in ep_audit_heads
  head,      \* head[l]: last_sequence and last_hash
  events,    \* ep_events
  tx,        \* the open transaction of each writer
  log        \* history: log[l], the events committed on l, in order

auditVars == <<lattices, headed, head, events, tx, log>>

GENESIS_HASH == <<>>

\* sha256(canonical_json(envelope))
HashOf(l, seq, data, prev) == <<l, seq, data, prev>>

NoTx == [open |-> FALSE]

AuditInit ==
  /\ lattices = {}
  /\ headed = {}
  /\ head = [l \in Lattices |-> [seq |-> 0, hash |-> GENESIS_HASH]]
  /\ events = {}
  /\ tx = [w \in Writers |-> NoTx]
  /\ log = [l \in Lattices |-> <<>>]

\* create-lattice inserts the lattice and nothing else.
CreateLattice(l) ==
  /\ l \notin lattices
  /\ lattices' = lattices \cup {l}
  /\ UNCHANGED <<headed, head, events, tx, log>>

\* Nothing in the package inserts the audit head; whoever deploys it must.
InitHead(l) ==
  /\ l \in lattices \ headed
  /\ headed' = headed \cup {l}
  /\ UNCHANGED <<lattices, head, events, tx, log>>

\* Faulty: SELECT without FOR UPDATE.
FaultyLockFree(l) == TRUE

\* SELECT ... FOR UPDATE, the PostgreSQL branch (audit.py:207). That of SQLite
\* (191-200) is a plain SELECT that leaves the lock to the BEGIN IMMEDIATE of
\* its caller, which the callers do not send: nothing here speaks of SQLite.
LockFree(l) == \A w \in Writers : tx[w].open => tx[w].lattice # l

\* Steps 1-4 of write_event_in_transaction: lock the head, read it, build the
\* event.  Without a head row AuditWriteError aborts the caller's transaction
\* and nothing happens.
ReadHead(w, l, d) ==
  /\ ~tx[w].open
  /\ l \in headed
  /\ LockFree(l)
  /\ head[l].seq < MaxEvents
  /\ tx' = [tx EXCEPT ![w] =
              [open |-> TRUE, lattice |-> l,
               event |-> [lattice |-> l, seq |-> head[l].seq + 1, data |-> d,
                          prev |-> head[l].hash,
                          hash |-> HashOf(l, head[l].seq + 1, d, head[l].hash)]]]
  /\ UNCHANGED <<lattices, headed, head, events, log>>

\* Faulty: the head keeps its hash.
FaultyAppendEvent(w) ==
  LET e == tx[w].event IN
  /\ tx[w].open
  /\ \A x \in events : x.lattice = e.lattice => x.seq # e.seq
  /\ events' = events \cup {e}
  /\ head' = [head EXCEPT ![e.lattice].seq = e.seq]
  /\ log' = [log EXCEPT ![e.lattice] = Append(@, e)]
  /\ tx' = [tx EXCEPT ![w] = NoTx]
  /\ UNCHANGED <<lattices, headed>>

\* The event is inserted under the UNIQUE index on (lattice_id, sequence), the
\* head updated, and the caller's transaction commits.
AppendEvent(w) ==
  LET e == tx[w].event IN
  /\ tx[w].open
  /\ \A x \in events : x.lattice = e.lattice => x.seq # e.seq
  /\ events' = events \cup {e}
  /\ head' = [head EXCEPT ![e.lattice] = [seq |-> e.seq, hash |-> e.hash]]
  /\ log' = [log EXCEPT ![e.lattice] = Append(@, e)]
  /\ tx' = [tx EXCEPT ![w] = NoTx]
  /\ UNCHANGED <<lattices, headed>>

\* The caller's transaction fails anywhere, or its process dies.
Rollback(w) ==
  /\ tx[w].open
  /\ tx' = [tx EXCEPT ![w] = NoTx]
  /\ UNCHANGED <<lattices, headed, head, events, log>>

\* An event row is lost.
Drop(e) ==
  /\ "drop" \in Losses
  /\ events' = events \ {e}
  /\ UNCHANGED <<lattices, headed, head, tx, log>>

\* The content of a stored event changes; its hash does not.
Alter(e, d) ==
  /\ "alter" \in Losses
  /\ events' = (events \ {e}) \cup {[e EXCEPT !.data = d]}
  /\ UNCHANGED <<lattices, headed, head, tx, log>>

AuditNext ==
  \/ \E l \in Lattices : CreateLattice(l) \/ InitHead(l)
  \/ \E w \in Writers :
        \/ \E l \in Lattices, d \in Data : ReadHead(w, l, d)
        \/ AppendEvent(w)
        \/ Rollback(w)
  \/ \E e \in events : Drop(e) \/ \E d \in Data : Alter(e, d)

AuditSpec == AuditInit /\ [][AuditNext]_auditVars

-------------------------------------------------------------------------------
(* The verifier *)

\* SELECT ... WHERE lattice_id = l ORDER BY sequence
Stored(l) ==
  LET rows == { e \in events : e.lattice = l }
      Rank(e) == Cardinality({ x \in rows : x.seq <= e.seq })
  IN [ i \in 1..Cardinality(rows) |-> CHOOSE e \in rows : Rank(e) = i ]

\* Faulty: hashes are recomputed, the linkage is not checked.
FaultyVerify(l) ==
  \A i \in 1..Len(Stored(l)) :
     LET e == Stored(l)[i] IN e.hash = HashOf(l, e.seq, e.data, e.prev)

\* AuditVerifier.verify: every hash is recomputed and linked to the one before.
\* Neither the sequence numbers nor the audit head are looked at.
Verify(l) ==
  \A i \in 1..Len(Stored(l)) :
     LET e == Stored(l)[i] IN
     /\ e.hash = HashOf(l, e.seq, e.data, e.prev)
     /\ e.prev = IF i = 1 THEN GENESIS_HASH ELSE Stored(l)[i - 1].hash

-------------------------------------------------------------------------------
(* Properties *)

\* The hash that the i-th committed event of a lattice must link to.
LinkOf(l, i) == IF i = 1 THEN GENESIS_HASH ELSE log[l][i - 1].hash

\* The committed events of a lattice form one hash chain without gaps that ends
\* in the head, and a stored row bears the hash committed under its number: no
\* interleaving of writers and rollbacks forks the chain (AuditWriter).
ChainIsTheLog ==
  \A l \in Lattices :
     /\ head[l].seq = Len(log[l])
     /\ head[l].hash = LinkOf(l, Len(log[l]) + 1)
     /\ \A i \in 1..Len(log[l]) : log[l][i].seq = i /\ log[l][i].prev = LinkOf(l, i)
     /\ \A e \in events : e.lattice = l => e.hash = log[l][e.seq].hash

\* As long as no row is damaged, whatever was rolled back in between, the chain
\* verifies (AuditVerifier.verify).
UndamagedVerifies ==
  \A l \in Lattices :
     (\A i \in 1..Len(log[l]) : log[l][i] \in events) => Verify(l)

\* An event that a transaction has prepared is never refused by the unique
\* index: the head's row lock spares callers the failure.
AppendNeverConflicts ==
  \A w \in Writers :
     tx[w].open => \A x \in events :
                      x.lattice = tx[w].lattice => x.seq # tx[w].event.seq

\* Whatever rows are lost or altered, and even if writers go on afterwards, a
\* chain that verifies is a prefix of what was committed: verification never
\* accepts a hole, a change or a continuation of a damaged chain.
VerifiedIsPrefix ==
  \A l \in Lattices :
     Verify(l) => /\ Len(Stored(l)) <= Len(log[l])
                  /\ Stored(l) = SubSeq(log[l], 1, Len(Stored(l)))

===============================================================================
