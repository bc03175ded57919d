------------------------------- MODULE Backup -------------------------------
(***************************************************************************)
(* backup_governance.py: a restore loads the dump into a temporary schema, *)
(* counts its tables and swaps it with the live one. Every psql command is *)
(* a process of its own whose exit status is ignored: any may fail, the    *)
(* load half-way, and the script may die between two of them. All restores *)
(* use the same temporary schema. What a schema holds is "whole" (all      *)
(* tables and rows of some dump), "tables" (all tables, rows missing),     *)
(* "most" (tables missing, too few of the 25 to fall below the 20 that the *)
(* script asks for) or "few" (less than that).                             *)
(***************************************************************************)
EXTENDS Absence, Integers

CONSTANTS Restorers  \* processes that restore

VARIABLES live,      \* the schema ep_governance, or Null if there is none
          temp,      \* the schema ep_governance_restore_temp, or Null
          dump,      \* what the backup file holds, or Null
          step,      \* the step each restore is to take next, or "idle"
          overlapped \* history: two restores ran at once

backupVars == <<live, temp, dump, step, overlapped>>

BackupInit == /\ live = "whole" /\ temp = Null /\ dump = Null
              /\ step = [r \in Restorers |-> "idle"]
              /\ overlapped = FALSE

\* pg_dump writes the file only if it succeeded.
MakeBackup == /\ live /= Null
              /\ dump' = live
              /\ UNCHANGED <<live, temp, step, overlapped>>

Goto(r, next) == step' = [step EXCEPT ![r] = next]

BeginRestore(r) ==
    /\ step[r] = "idle" /\ dump /= Null
    /\ Goto(r, "create")
    /\ overlapped' = (overlapped \/ \E x \in Restorers \ {r} : step[x] /= "idle")
    /\ UNCHANGED <<live, temp, dump>>

\* 1. DROP and CREATE in one psql -c, which is one transaction: both or neither.
CreateTemp(r) == /\ step[r] = "create"
                 /\ temp' \in {"few", temp}
                 /\ Goto(r, "load")
                 /\ UNCHANGED <<live, dump, overlapped>>

\* 2. The dump creates the schema itself if it is missing; psql goes on after errors,
\* such as those for the tables that an earlier load left. It may stop anywhere.
Rank == [few |-> 1, most |-> 2, tables |-> 3, whole |-> 4]

Loaded == {c \in DOMAIN Rank : /\ temp /= Null => Rank[c] >= Rank[temp]
                               /\ c = "whole" => "whole" \in {dump, temp}}

LoadTemp(r) == /\ step[r] = "load"
               /\ temp' \in Loaded \union {temp}
               /\ Goto(r, "verify")
               /\ UNCHANGED <<live, dump, overlapped>>

\* 3. Only the number of tables is looked at, and 20 of them pass. A count that fails
\* reads as none.
FaultyEnoughTables == TRUE

EnoughTables == temp \in {"most", "tables", "whole"}

VerifyTemp(r) == /\ step[r] = "verify"
                 /\ Goto(r, "drop") \/ (EnoughTables /\ Goto(r, "swap"))
                 /\ UNCHANGED <<live, temp, dump, overlapped>>

DropTemp(r) == /\ step[r] = "drop"
               /\ temp' \in {Null, temp}
               /\ Goto(r, "idle")
               /\ UNCHANGED <<live, dump, overlapped>>

\* 4. Three statements in one psql -c: without a temporary schema the second one fails
\* and the live one keeps its name. The operator reads "Restore complete" in any case.
Swap(r) == /\ step[r] = "swap"
           /\ \/ temp /= Null /\ live' = temp /\ temp' = Null
              \/ UNCHANGED <<live, temp>>
           /\ Goto(r, "idle")
           /\ UNCHANGED <<dump, overlapped>>

Die(r) == /\ step[r] /= "idle"
          /\ Goto(r, "idle")
          /\ UNCHANGED <<live, temp, dump, overlapped>>

BackupNext == \/ MakeBackup
              \/ \E r \in Restorers : \/ BeginRestore(r) \/ CreateTemp(r) \/ LoadTemp(r)
                                      \/ VerifyTemp(r) \/ DropTemp(r) \/ Swap(r) \/ Die(r)

BackupSpec == BackupInit /\ [][BackupNext]_backupVars

(***************************************************************************)
(* Properties                                                              *)
(***************************************************************************)
\* There is a live schema at every moment, whatever fails, dies or runs at the same time.
\* As long as no two restores overlapped, it is one that would pass the count: a load that
\* stopped short of it is never swapped in, whether it was this restore's or one that died
\* before it. That it is complete cannot be said: the count lets "most" and "tables" pass
\* (backup_governance.py, main).
LiveWasCounted == /\ live /= Null
                  /\ ~overlapped => live \in {"most", "tables", "whole"}

=============================================================================
