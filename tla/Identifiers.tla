---------------------------- MODULE Identifiers -----------------------------
(***************************************************************************)
(* XID.new in one process: a timestamp that never falls while the wall     *)
(* clock may, and a counter that wraps. The machine and process bytes are  *)
(* the same for all identifiers of a process and are left out.             *)
(***************************************************************************)
EXTENDS Integers, Sequences

CONSTANTS Width,    \* the counter wraps at this value, 2^24 in the code
          LastTick, \* bound of the wall clock
          MaxIds    \* bound of the identifiers made

VARIABLES wall,           \* time.time(), in seconds
          last_timestamp, \* _last_timestamp
          counter,        \* _counter, which starts anywhere
          made            \* history: the identifiers, in the order they were made

idVars == <<wall, last_timestamp, counter, made>>

IdInit == /\ wall = 0
          /\ last_timestamp = 0
          /\ counter \in 0..(Width - 1)
          /\ made = <<>>

\* The clock is set, forward or back.
SetClock == /\ wall' \in (0..LastTick) \ {wall}
            /\ UNCHANGED <<last_timestamp, counter, made>>

\* A clock that went back is replaced by the next second after the last.
Stamp == IF wall < last_timestamp THEN last_timestamp + 1 ELSE wall

FaultyCount == counter

Count == (counter + 1) % Width

NewId == /\ Len(made) < MaxIds
         /\ last_timestamp' = Stamp
         /\ counter' = Count
         /\ made' = Append(made, [timestamp |-> Stamp, count |-> Count])
         /\ UNCHANGED wall

IdNext == SetClock \/ NewId

IdSpec == IdInit /\ [][IdNext]_idVars

(***************************************************************************)
(* Properties                                                              *)
(***************************************************************************)
\* Two identifiers of one process are equal only if the counter went around within one
\* second of the clock: every identifier between them has their timestamp, and there
\* are at least as many steps as the counter has values (XID.new).
EqualOnlyAfterWrap ==
    \A i, j \in 1..Len(made) :
        (i < j /\ made[i] = made[j]) =>
            /\ j - i >= Width
            /\ \A k \in i..j : made[k].timestamp = made[i].timestamp

=============================================================================
