---------------------------- MODULE BranchGraph ----------------------------
(***************************************************************************)
(* The graph of one lattice across its branches: ep_branches, ep_nodes and *)
(* ep_edges under branch creation, commits and node marks (branches.py,    *)
(* the create-branch command, BranchRepository, NodeRepository).           *)
(*                                                                         *)
(* TransitionEngine follows one transition through a commit; here commits  *)
(* are reduced to what they do to the graph, and branches may fork: a new  *)
(* branch starts at the node that is its parent's head, and both go on     *)
(* from there.                                                             *)
(*                                                                         *)
(* A handler first reads, then writes in a later step; what it read is in  *)
(* call[h]. Nodes are numbered in the order of their commits.              *)
(***************************************************************************)
EXTENDS Integers, FiniteSets, Functions

CONSTANTS Branches, \* branch ids
          Main,     \* the branch project creation inserts
          Handlers, \* concurrent callers
          MaxNodes, \* bound on the commits of a behaviour
          Marked,   \* the nodes that operators may mark
          Null

ASSUME BranchAssumption == Main \in Branches /\ MaxNodes \in Nat /\ Null \notin Branches

Nodes == 1..MaxNodes
Root == 0 \* stands for "no node" in a head
NodeStatuses == {"committed", "superseded", "quarantined", "at_risk"}

VARIABLES head,       \* ep_branches.head_node_id, Root if NULL
          version,    \* ep_branches.version, 0 if there is no row
          branchOf,   \* ep_nodes.branch_id, Null if there is no row
          nodeStatus, \* ep_nodes.status, Null if there is no row
          edges,      \* ep_edges: <<upstream, downstream>>
          call        \* the locals of each handler

graph == <<head, version, branchOf, nodeStatus, edges>>

Idle == [op |-> "idle"]
Born == {b \in Branches : version[b] > 0}
Stored == {n \in Nodes : branchOf[n] /= Null}
Return(h) == call' = [call EXCEPT ![h] = Idle]

\* project create: project, lattice and branch in one transaction.
GraphInit ==
    /\ head = [b \in Branches |-> Root]
    /\ version = [b \in Branches |-> IF b = Main THEN 1 ELSE 0]
    /\ branchOf = [n \in Nodes |-> Null]
    /\ nodeStatus = [n \in Nodes |-> Null]
    /\ edges = {}
    /\ call = [h \in Handlers |-> Idle]

(***************************************************************************)
(* create-branch --from-branch: the parent's head is read, then the row is *)
(* inserted; an unknown parent leaves the new branch without a head.       *)
(***************************************************************************)
BeginFork(h) ==
    \E parent \in Born \union {Null} :
        /\ call[h] = Idle
        /\ call' = [call EXCEPT ![h] =
                      [op |-> "fork", head |-> IF parent = Null THEN Root ELSE head[parent]]]
        /\ UNCHANGED graph

FinishFork(h) ==
    \E b \in Branches \ Born :
        /\ call[h].op = "fork"
        /\ head' = [head EXCEPT ![b] = call[h].head]
        /\ version' = [version EXCEPT ![b] = 1]
        /\ Return(h)
        /\ UNCHANGED <<branchOf, nodeStatus, edges>>

(***************************************************************************)
(* commit: step 2 reads the head and finds the expected version, steps 3   *)
(* to 6 write; the guard of update_head is the version.                    *)
(***************************************************************************)
BeginCommit(h) ==
    \E b \in Born :
        /\ call[h] = Idle
        /\ call' = [call EXCEPT ![h] = [op |-> "commit", branch |-> b, head |-> head[b],
                                        version |-> version[b]]]
        /\ UNCHANGED graph

\* The head is updated whatever its version has become.
FaultyFresh(c) == c.branch \in Born

Fresh(c) == version[c.branch] = c.version

\* The status of the old head is left as it is.
FaultySupersede(n) == nodeStatus

\* mark_superseded has an effect on committed nodes only; its result is ignored.
Supersede(n) == IF n \in Stored /\ nodeStatus[n] = "committed"
                THEN [nodeStatus EXCEPT ![n] = "superseded"]
                ELSE nodeStatus

WriteCommit(h) ==
    LET c == call[h]
        n == Cardinality(Stored) + 1
    IN  /\ c.op = "commit" /\ n \in Nodes /\ Fresh(c)
        /\ branchOf' = [branchOf EXCEPT ![n] = c.branch]
        /\ edges' = edges \union (IF c.head = Root THEN {} ELSE {<<c.head, n>>})
        /\ nodeStatus' = [Supersede(c.head) EXCEPT ![n] = "committed"]
        /\ head' = [head EXCEPT ![c.branch] = n]
        /\ version' = [version EXCEPT ![c.branch] = @ + 1]
        /\ Return(h)

\* StaleHeadError: everything is rolled back.
RefuseCommit(h) == /\ call[h].op = "commit" /\ ~Fresh(call[h])
                   /\ Return(h)
                   /\ UNCHANGED graph

(***************************************************************************)
(* Node marks: guarded updates of one row                                  *)
(***************************************************************************)
MarkAtRisk(n) == /\ nodeStatus[n] = "committed"
                 /\ nodeStatus' = [nodeStatus EXCEPT ![n] = "at_risk"]
                 /\ UNCHANGED <<head, version, branchOf, edges, call>>

MarkQuarantined(n) == /\ nodeStatus[n] \in {"committed", "at_risk"}
                      /\ nodeStatus' = [nodeStatus EXCEPT ![n] = "quarantined"]
                      /\ UNCHANGED <<head, version, branchOf, edges, call>>

GraphNext ==
    \/ \E h \in Handlers : \/ BeginFork(h) \/ FinishFork(h) \/ BeginCommit(h)
                           \/ WriteCommit(h) \/ RefuseCommit(h)
    \/ \E n \in Stored \cap Marked : MarkAtRisk(n) \/ MarkQuarantined(n)

(***************************************************************************)
(* Properties                                                              *)
(***************************************************************************)
OwnNodes(b) == {n \in Stored : branchOf[n] = b}
Upstream(n) == {u \in Nodes : <<u, n>> \in edges}

\* A commit is counted exactly once, whichever handlers race for the branch, and the
\* nodes of a branch are one chain ending in its head: each node but the first has one
\* predecessor, on the same branch, each but the last one successor there.
BranchesAreChains ==
    \A b \in Born :
        LET own == OwnNodes(b)
            inner == {e \in edges : e[1] \in own /\ e[2] \in own}
        IN  /\ version[b] = 1 + Cardinality(own)
            /\ own /= {} =>
                  /\ head[b] \in own
                  /\ Cardinality(inner) = Cardinality(own) - 1
                  /\ \A n \in own \ {head[b]} : \E e \in inner : e[1] = n
                  /\ \A n \in own : Cardinality(Upstream(n)) <= 1

\* The live nodes are heads: whatever is still committed is the head of a branch,
\* and nothing is superseded without a successor. (A head need not be live: a
\* commit on one branch supersedes the node another branch was forked at.)
LiveNodesAreHeads ==
    \A n \in Stored :
        /\ nodeStatus[n] = "committed" => \E b \in Born : head[b] = n
        /\ nodeStatus[n] = "superseded" => \E e \in edges : e[1] = n

=============================================================================
