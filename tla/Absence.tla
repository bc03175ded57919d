------------------------------- MODULE Absence -------------------------------
(***************************************************************************)
(* The value of what is not there: an unset variable, a missing row, a     *)
(* process that does not run. The modules of the services share it.        *)
(***************************************************************************)
CONSTANT Null

=============================================================================
