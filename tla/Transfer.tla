------------------------------ MODULE Transfer ------------------------------
(***************************************************************************)
(* Export and import of a lattice (transfer.py), beside the commits and    *)
(* branch creations of BranchGraph.                                        *)
(*                                                                         *)
(* An export is a sequence of SELECTs at READ COMMITTED: branches, nodes,  *)
(* edges, (policies,) the count of earlier packages; then one INSERT. Any  *)
(* committed change may come in between. An import writes a new project    *)
(* in several transactions and may fail after each of them; nothing takes  *)
(* it up again.                                                            *)
(***************************************************************************)
EXTENDS BranchGraph, Sequences

CONSTANTS MaxPackages, MaxForks \* bounds on the exports and imports of a behaviour

VARIABLES packages, \* ep_transfer_packages of the lattice, in the order of their INSERTs
          forks     \* what the imports have committed so far

transfer == <<packages, forks>>
vars == <<graph, call, transfer>>

TransferInit == GraphInit /\ packages = <<>> /\ forks = <<>>

(***************************************************************************)
(* TransferExporter.export                                                 *)
(***************************************************************************)
Reading(h, step) == call[h].op = step

ReadBranches(h) ==
    /\ call[h] = Idle
    /\ Len(packages) < MaxPackages
    /\ call' = [call EXCEPT ![h] = [op |-> "nodes", heads |-> Restrict(head, Born)]]
    /\ UNCHANGED <<graph, transfer>>

\* Only what is live.
FaultyReadNodes(h) ==
    LET c == call[h]
        found == {n \in Stored : branchOf[n] \in DOMAIN c.heads
                                 /\ nodeStatus[n] = "committed"}
    IN  /\ Reading(h, "nodes")
        /\ call' = [call EXCEPT ![h] = [op |-> "edges", heads |-> c.heads,
                                        nodes |-> Restrict(branchOf, found)]]
        /\ UNCHANGED <<graph, transfer>>

ReadNodes(h) ==
    LET c == call[h]
        found == {n \in Stored : branchOf[n] \in DOMAIN c.heads}
    IN  /\ Reading(h, "nodes")
        /\ call' = [call EXCEPT ![h] = [op |-> "edges", heads |-> c.heads,
                                        nodes |-> Restrict(branchOf, found)]]
        /\ UNCHANGED <<graph, transfer>>

\* Edges with either end among the nodes; those that lead out are kept.
ReadEdges(h) ==
    LET c == call[h]
        found == {e \in edges : e[1] \in DOMAIN c.nodes \/ e[2] \in DOMAIN c.nodes}
    IN  /\ Reading(h, "edges")
        /\ call' = [call EXCEPT ![h] = [op |-> "count", heads |-> c.heads,
                                        nodes |-> c.nodes, edges |-> found]]
        /\ UNCHANGED <<graph, transfer>>

\* The number counts the packages of another lattice.
FaultyNextSequence == 1
NextSequence == Len(packages) + 1

CountPackages(h) ==
    /\ Reading(h, "count")
    /\ call' = [call EXCEPT ![h] = [op |-> "store", heads |-> call[h].heads,
                                    nodes |-> call[h].nodes, edges |-> call[h].edges,
                                    sequence |-> NextSequence,
                                    after |-> Len(packages)]]
    /\ UNCHANGED <<graph, transfer>>

\* "after" is history: how many packages were stored when this one was numbered.
StorePackage(h) ==
    LET c == call[h]
    IN  /\ Reading(h, "store") /\ Len(packages) < MaxPackages
        /\ packages' = Append(packages,
                           [heads |-> c.heads, nodes |-> c.nodes, edges |-> c.edges,
                            sequence |-> c.sequence, after |-> c.after])
        /\ Return(h)
        /\ UNCHANGED <<graph, forks>>

(***************************************************************************)
(* TransferImporter.import_as_fork: the fork's rows keep the ids of the    *)
(* package, since the new ids are fresh and distinct.                      *)
(***************************************************************************)
EmptyFork(p) == [package |-> p, branches |-> {}, nodes |-> {}, edges |-> {},
                 policies |-> FALSE, recorded |-> FALSE, mapped |-> FALSE]

\* The project, its lattice and the first branch become visible together.
BeginImport(h) ==
    \E p \in DOMAIN packages :
        /\ call[h] = Idle
        /\ Len(forks) < MaxForks
        /\ forks' = Append(forks, EmptyFork(p))
        /\ call' = [call EXCEPT ![h] = [op |-> "import branches", fork |-> Len(forks) + 1]]
        /\ UNCHANGED <<graph, packages>>

\* The import h is at its phase, whose transaction makes the fork into "result".
Phase(h, phase, next, result) ==
    /\ call[h].op = phase
    /\ forks' = [forks EXCEPT ![call[h].fork] = result]
    /\ call' = [call EXCEPT ![h] =
                  IF next = "done" THEN Idle ELSE [op |-> next, fork |-> call[h].fork]]
    /\ UNCHANGED <<graph, packages>>

Fork(h) == forks[call[h].fork]
Package(h) == packages[Fork(h).package]

\* One commit after each branch. Neither head nor version is restored.
ImportBranch(h) ==
    /\ call[h].op = "import branches"
    /\ \E b \in DOMAIN Package(h).heads \ Fork(h).branches :
           LET more == Fork(h).branches \union {b}
           IN  Phase(h, "import branches",
                     IF more = DOMAIN Package(h).heads THEN "import nodes"
                                                       ELSE "import branches",
                     [Fork(h) EXCEPT !.branches = more])

\* Every node of an imported branch, as committed whatever its status was.
ImportNodes(h) ==
    /\ call[h].op = "import nodes"
    /\ Phase(h, "import nodes", "import edges",
             [Fork(h) EXCEPT !.nodes =
                 {n \in DOMAIN Package(h).nodes : Package(h).nodes[n] \in Fork(h).branches}])

\* The provenance is stored before the policies.
FaultyImportEdges(h) ==
    /\ call[h].op = "import edges"
    /\ Phase(h, "import edges", "import policies",
             [Fork(h) EXCEPT !.edges =
                 {e \in Package(h).edges : e[1] \in Fork(h).nodes /\ e[2] \in Fork(h).nodes},
                             !.mapped = TRUE])

ImportEdges(h) ==
    /\ call[h].op = "import edges"
    /\ Phase(h, "import edges", "import policies",
             [Fork(h) EXCEPT !.edges =
                 {e \in Package(h).edges : e[1] \in Fork(h).nodes /\ e[2] \in Fork(h).nodes}])

ImportPolicies(h) ==
    /\ call[h].op = "import policies"
    /\ Phase(h, "import policies", "import record", [Fork(h) EXCEPT !.policies = TRUE])

ImportRecord(h) ==
    /\ call[h].op = "import record"
    /\ Phase(h, "import record", "import mappings", [Fork(h) EXCEPT !.recorded = TRUE])

ImportMappings(h) ==
    /\ call[h].op = "import mappings"
    /\ Phase(h, "import mappings", "done", [Fork(h) EXCEPT !.mapped = TRUE])

\* A phase raises (a policy of a scope whose binding the import drops violates the
\* schema), or the process dies: the open transaction is lost, the earlier ones stay.
Importing == {"import branches", "import nodes", "import edges", "import policies",
              "import record", "import mappings"}
FailImport(h) == /\ call[h].op \in Importing
                 /\ Return(h)
                 /\ UNCHANGED <<graph, transfer>>

TransferNext ==
    \/ GraphNext /\ UNCHANGED transfer
    \/ \E h \in Handlers :
           \/ ReadBranches(h) \/ ReadNodes(h) \/ ReadEdges(h) \/ CountPackages(h)
           \/ StorePackage(h)
           \/ BeginImport(h) \/ ImportBranch(h) \/ ImportNodes(h) \/ ImportEdges(h)
           \/ ImportPolicies(h) \/ ImportRecord(h) \/ ImportMappings(h) \/ FailImport(h)

TransferSpec == TransferInit /\ [][TransferNext]_vars

(***************************************************************************)
(* Properties                                                              *)
(***************************************************************************)
\* Torn as it is, an export is usable: the head of each branch is among its nodes,
\* and it holds every predecessor of each node and the edge from it, because nodes
\* are read after branches and edges after nodes.
PackagesAreClosed ==
    \A i \in DOMAIN packages :
        LET p == packages[i] IN
        /\ \A b \in DOMAIN p.heads : p.heads[b] \in DOMAIN p.nodes \union {Root}
        /\ \A n \in DOMAIN p.nodes : \A u \in Upstream(n) :
               u \in DOMAIN p.nodes /\ <<u, n>> \in p.edges

\* A package numbered after another was stored has the larger number. (Two exports
\* that overlap may get the same number.)
SequenceFollowsStore ==
    \A i, j \in DOMAIN packages :
        i <= packages[j].after => packages[i].sequence < packages[j].sequence

\* The mappings are the last thing an import writes: whoever finds them finds the
\* whole package, and an import that failed is recognised by their absence.
MappedForkIsWhole ==
    \A i \in DOMAIN forks :
        LET f == forks[i]
            p == packages[f.package]
        IN  f.mapped => /\ f.branches = DOMAIN p.heads
                        /\ f.nodes = DOMAIN p.nodes
                        /\ f.edges = {e \in p.edges : {e[1], e[2]} \subseteq f.nodes}
                        /\ f.policies /\ f.recorded

=============================================================================
