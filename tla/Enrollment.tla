----------------------------- MODULE Enrollment -----------------------------
(***************************************************************************)
(* Who may do what, and how the first administrator comes to be. Operators *)
(* run bootstrap-admin at the same time; principals, human and agent, call *)
(* tools of an MCP server that may be in bootstrap mode. The checks of an  *)
(* enrollment and its writes are two steps: PostgreSQL fails the second    *)
(* if what the first read was changed meanwhile, SQLite does not, because  *)
(* its driver begins a transaction only at the first write.                *)
(***************************************************************************)
EXTENDS Absence, Integers, FiniteSets

CONSTANTS Dialect,       \* "postgresql" or "sqlite"
          Operators,     \* processes that run bootstrap-admin
          Humans, Agents,
          Tools,
          Required,      \* Required[tool]: TOOL_REQUIRED_ROLES
          SetupTools     \* BOOTSTRAP_ALLOWED_TOOLS

Principals == Humans \union Agents

VARIABLES bindings,      \* ep_role_bindings: pairs of a principal and a role, all global
          registered,    \* the agents in ep_principals
          completed_by,  \* ep_bootstrap_state: Null, or who completed the enrollment
          bootstrapMode, \* EP_BOOTSTRAP_MODE of the MCP server
          enrolling,     \* the principal each operator is enrolling and what was read, or Null
          asking,        \* the tool each principal is calling and what was read, or Null
          admitted       \* history: the last call that was let through, or Null

enrollmentVars ==
    <<bindings, registered, completed_by, bootstrapMode, enrolling, asking, admitted>>

RolesOf(p) == {b[2] : b \in {x \in bindings : x[1] = p}}

Administrators == {p \in Principals : "administrator" \in RolesOf(p)}

BoundHumans == {p \in Humans : RolesOf(p) /= {}}

EnrollmentInit == /\ bindings = {} /\ registered = {} /\ completed_by = Null
                  /\ bootstrapMode \in BOOLEAN
                  /\ enrolling = [o \in Operators |-> Null]
                  /\ asking = [p \in Principals |-> Null]
                  /\ admitted = Null

(***************************************************************************)
(* bootstrap-admin                                                         *)
(***************************************************************************)
\* What the checks read, and what a serializable transaction must still find.
Evidence == <<completed_by, Administrators>>

\* Checks a to d. The token is right, or nothing happens.
CheckEnrollment(o, p) ==
    /\ enrolling[o] = Null
    /\ completed_by = Null /\ Administrators = {}
    /\ p \in Humans
    /\ enrolling' = [enrolling EXCEPT ![o] = [principal |-> p, evidence |-> Evidence]]
    /\ UNCHANGED <<bindings, registered, completed_by, bootstrapMode, asking, admitted>>

FaultyMayCommit(o) == TRUE

\* Serializable isolation, where it is asked for.
MayCommit(o) == Dialect = "postgresql" => enrolling[o].evidence = Evidence

\* Steps e to i: the binding, the singleton row, created or overwritten, the audit event.
FaultyEnroll(o) ==
    /\ enrolling[o] /= Null /\ MayCommit(o)
    /\ bindings' = bindings \union {<<enrolling[o].principal, "administrator">>}
    /\ enrolling' = [enrolling EXCEPT ![o] = Null]
    /\ UNCHANGED <<registered, completed_by, bootstrapMode, asking, admitted>>

Enroll(o) ==
    /\ enrolling[o] /= Null /\ MayCommit(o)
    /\ bindings' = bindings \union {<<enrolling[o].principal, "administrator">>}
    /\ completed_by' = enrolling[o].principal
    /\ enrolling' = [enrolling EXCEPT ![o] = Null]
    /\ UNCHANGED <<registered, bootstrapMode, asking, admitted>>

\* A serialization failure, a failing audit event or a crash: everything is rolled back.
AbandonEnrollment(o) ==
    /\ enrolling[o] /= Null
    /\ enrolling' = [enrolling EXCEPT ![o] = Null]
    /\ UNCHANGED <<bindings, registered, completed_by, bootstrapMode, asking, admitted>>

(***************************************************************************)
(* register-agent writes for PostgreSQL only: the principal and its        *)
(* binding commit together.                                                *)
(***************************************************************************)
Register(a) ==
    /\ Dialect = "postgresql"
    /\ a \in Agents \ registered
    /\ registered' = registered \union {a}
    /\ bindings' = bindings \union {<<a, "agent">>}
    /\ UNCHANGED <<completed_by, bootstrapMode, enrolling, asking, admitted>>

(***************************************************************************)
(* _check_role: the roles first, and, for a principal without any, whether *)
(* a human has one. These are separate statements.                         *)
(***************************************************************************)
Ask(p, tool) ==
    /\ asking[p] = Null
    /\ p \in Humans \union registered
    /\ asking' = [asking EXCEPT ![p] =
           [tool |-> tool, held |-> RolesOf(p), enrolled |-> completed_by /= Null]]
    /\ UNCHANGED <<bindings, registered, completed_by, bootstrapMode, enrolling, admitted>>

FaultyMaySetUp(p, tool) == bootstrapMode /\ p \in Humans /\ tool \in SetupTools

MaySetUp(p, tool) ==
    bootstrapMode /\ p \in Humans /\ BoundHumans = {} /\ tool \in SetupTools

Authorized(p) ==
    LET call == asking[p]
    IN  IF call.held /= {} THEN call.held \intersect Required[call.tool] /= {}
                           ELSE MaySetUp(p, call.tool)

Answer(p) ==
    /\ asking[p] /= Null
    /\ asking' = [asking EXCEPT ![p] = Null]
    /\ admitted' = IF Authorized(p)
                   THEN [caller |-> p, tool |-> asking[p].tool,
                         enrolled |-> asking[p].enrolled]
                   ELSE admitted
    /\ UNCHANGED <<bindings, registered, completed_by, bootstrapMode, enrolling>>

\* The server is restarted in the other mode; the calls it was serving are lost.
SwitchMode == /\ bootstrapMode' = ~bootstrapMode
              /\ asking' = [p \in Principals |-> Null]
              /\ UNCHANGED <<bindings, registered, completed_by, enrolling, admitted>>

EnrollmentNext ==
    \/ \E o \in Operators : \/ \E p \in Principals : CheckEnrollment(o, p)
                            \/ Enroll(o)
                            \/ AbandonEnrollment(o)
    \/ \E a \in Agents : Register(a)
    \/ \E p \in Principals : \/ \E tool \in Tools : Ask(p, tool)
                             \/ Answer(p)
    \/ SwitchMode

EnrollmentSpec == EnrollmentInit /\ [][EnrollmentNext]_enrollmentVars

(***************************************************************************)
(* Properties                                                              *)
(***************************************************************************)
\* Operators who enroll at the same time make at most one administrator ("eliminating
\* the TOCTOU race where two operators could bootstrap concurrently", cli.py).
AtMostOneAdministrator == Cardinality(Administrators) <= 1

\* The state of the bootstrap and the bindings agree: who completed it is an
\* administrator, and an administrator exists only if it was completed.
CompletedNamesAdministrator ==
    IF completed_by = Null THEN Administrators = {}
                           ELSE completed_by \in Administrators

\* Bootstrap mode, left on, admits nobody once the administrator is enrolled: a call that
\* arrives afterwards and is let through comes from a principal with a required role.
SetupEndsWithEnrollment ==
    admitted /= Null /\ admitted.enrolled =>
        RolesOf(admitted.caller) \intersect Required[admitted.tool] /= {}

=============================================================================
