------------------------ MODULE GraphTransferProofs ------------------------
(***************************************************************************)
(* Proofs about the graph of a lattice and the packages and forks made     *)
(* from it (BranchGraph, Transfer), for any branches, handlers and bounds. *)
(* Whatever a handler read stays true of the graph while others write: the *)
(* graph only grows, a stored node never gets another predecessor, and a   *)
(* commit that races is refused by its version.                            *)
(***************************************************************************)
EXTENDS Transfer, FiniteSetTheorems, TLAPS

IsSeq(s) == \E S : s \in Seq(S)

(***************************************************************************)
(* The inductive invariant                                                 *)
(***************************************************************************)
Shapes == /\ head = [b \in Branches |-> head[b]]
          /\ version \in [Branches -> Nat]
          /\ branchOf \in [Nodes -> Branches \union {Null}]
          /\ nodeStatus = [n \in Nodes |-> nodeStatus[n]]
          /\ call = [h \in Handlers |-> call[h]]

Inner(b) == {e \in edges : e[1] \in OwnNodes(b) /\ e[2] \in OwnNodes(b)}

\* The nodes of a branch are counted by its version and chained up to its head.
IsChain(b) ==
    /\ version[b] = 1 + Cardinality(OwnNodes(b))
    /\ head[b] \in Stored \union {Root}
    /\ OwnNodes(b) # {} =>
          /\ head[b] \in OwnNodes(b)
          /\ Cardinality(Inner(b)) = Cardinality(OwnNodes(b)) - 1
          /\ \A n \in OwnNodes(b) \ {head[b]} : \E e \in Inner(b) : e[1] = n

EdgesAreSound ==
    /\ IsFiniteSet(edges) /\ edges \subseteq Stored \X Stored
    /\ \A e, f \in edges : e[2] = f[2] => e = f

GraphInv == /\ Shapes /\ EdgesAreSound /\ LiveNodesAreHeads
            /\ Stored = 1..Cardinality(Stored)
            /\ \A n \in Stored : branchOf[n] \in Born
            /\ \A b \in Born : IsChain(b)

\* What a handler has read of the graph for a fork or a commit.
GraphCall(c) ==
    /\ c.op = "fork" => c.head \in Stored \union {Root}
    /\ c.op = "commit" => /\ c.branch \in Born
                          /\ c.version \in Nat /\ c.version <= version[c.branch]
                          /\ c.version = version[c.branch] => c.head = head[c.branch]

\* A head within some branches.
Within(n, bs) == n = Root \/ (n \in Stored /\ branchOf[n] \in bs)

\* No head and no predecessor leads out of a set of branches.
Closed(bs) ==
    /\ bs \subseteq Born
    /\ \A b \in bs : Within(head[b], bs)
    /\ \A e \in edges : branchOf[e[2]] \in bs => branchOf[e[1]] \in bs

\* What is true of the parts of a package, from the moment they are read on.
HeadsRead(heads) ==
    /\ Closed(DOMAIN heads)
    /\ \A b \in DOMAIN heads : Within(heads[b], DOMAIN heads)
NodesRead(heads, nodes) ==
    /\ DOMAIN nodes \subseteq Stored
    /\ \A n \in DOMAIN nodes : nodes[n] \in DOMAIN heads
    /\ \A b \in DOMAIN heads : heads[b] \in DOMAIN nodes \union {Root}
    /\ \A e \in edges : e[2] \in DOMAIN nodes => e[1] \in DOMAIN nodes
EdgesRead(heads, nodes, read) ==
    /\ NodesRead(heads, nodes)
    /\ \A e \in edges : e[2] \in DOMAIN nodes => e \in read

Numbered(p, before) == p.after \in Nat /\ p.after <= before /\ p.sequence = p.after + 1

ExportCall(c) ==
    /\ c.op = "nodes" => HeadsRead(c.heads)
    /\ c.op = "edges" => NodesRead(c.heads, c.nodes)
    /\ c.op \in {"count", "store"} => EdgesRead(c.heads, c.nodes, c.edges)
    /\ c.op = "store" => Numbered(c, Len(packages))

PackagesInv ==
    /\ IsSeq(packages)
    /\ \A i \in 1..Len(packages) :
          /\ EdgesRead(packages[i].heads, packages[i].nodes, packages[i].edges)
          /\ Numbered(packages[i], i - 1)

ForkShape(f) ==
    /\ DOMAIN f = {"package", "branches", "nodes", "edges", "policies", "recorded", "mapped"}
    /\ f.package \in 1..Len(packages)

BranchesIn(f) == f.branches = DOMAIN packages[f.package].heads
NodesIn(f) == f.nodes = DOMAIN packages[f.package].nodes
EdgesIn(f) == f.edges = {e \in packages[f.package].edges : {e[1], e[2]} \subseteq f.nodes}

\* An import holds what its phases have written so far.
Progress(f, op) ==
    /\ ~f.mapped
    /\ op # "import branches" => BranchesIn(f)
    /\ op \notin {"import branches", "import nodes"} => NodesIn(f)
    /\ op \in {"import policies", "import record", "import mappings"} => EdgesIn(f)
    /\ op \in {"import record", "import mappings"} => f.policies
    /\ op = "import mappings" => f.recorded

ImportCall(c) ==
    c.op \in Importing => c.fork \in 1..Len(forks) /\ Progress(forks[c.fork], c.op)

ForksInv ==
    /\ IsSeq(forks)
    /\ \A i \in 1..Len(forks) : ForkShape(forks[i])
    /\ \A g, h \in Handlers :
          g # h /\ call[g].op \in Importing /\ call[h].op \in Importing
              => call[g].fork # call[h].fork
    /\ MappedForkIsWhole

TransferInv ==
    /\ GraphInv /\ PackagesInv /\ ForksInv
    /\ \A h \in Handlers : GraphCall(call[h]) /\ ExportCall(call[h]) /\ ImportCall(call[h])

(***************************************************************************)
(* The graph                                                               *)
(***************************************************************************)
\* Whatever a handler does to the graph: rows and edges stay, an edge leads to a new
\* node only, a head changes with the version of its branch, and the graph is no more
\* open than it was.
Grows ==
    /\ Born \subseteq Born' /\ Stored \subseteq Stored' /\ edges \subseteq edges'
    /\ \A n \in Stored : branchOf'[n] = branchOf[n]
    /\ \A e \in edges' : e \in edges \/ e[2] \notin Stored
    /\ \A b \in Born : \/ version'[b] > version[b]
                       \/ version'[b] = version[b] /\ head'[b] = head[b]
    /\ \A bs : Closed(bs) => Closed(bs)'

LEMMA GraphStart == GraphInit => GraphInv
<1> SUFFICES ASSUME GraphInit
             PROVE  GraphInv
  OBVIOUS
<1>1. Stored = {} /\ Born = {Main}
  BY BranchAssumption DEF GraphInit, Stored, Born
<1>2. Cardinality({}) = 0 /\ IsFiniteSet({})
  BY FS_EmptySet
<1>3. \A b : OwnNodes(b) = {}
  BY <1>1 DEF OwnNodes
<1>4. Shapes /\ EdgesAreSound /\ LiveNodesAreHeads
  BY <1>1, <1>2, BranchAssumption DEF GraphInit, Shapes, EdgesAreSound, LiveNodesAreHeads
<1>5. ASSUME NEW b \in Born
      PROVE  IsChain(b)
  <2>1. version[b] = 1 /\ head[b] = Root
    BY <1>1, <1>5, BranchAssumption DEF GraphInit
  <2> QED
    BY <1>2, <1>3, <2>1 DEF IsChain
<1>6. Stored = 1..Cardinality(Stored)
  BY <1>1, <1>2
<1> QED
  BY <1>1, <1>4, <1>5, <1>6 DEF GraphInv

LEMMA StoredFinite ==
  ASSUME GraphInv
  PROVE  /\ IsFiniteSet(Stored) /\ Cardinality(Stored) \in Nat
         /\ \A b \in Branches : IsFiniteSet(OwnNodes(b)) /\ Cardinality(OwnNodes(b)) \in Nat
         /\ \A b \in Branches : IsFiniteSet(Inner(b)) /\ Cardinality(Inner(b)) \in Nat
<1>1. IsFiniteSet(Nodes)
  BY FS_Interval, BranchAssumption DEF Nodes
<1>2. IsFiniteSet(Stored)
  BY <1>1, FS_Subset DEF Stored
<1>3. \A b \in Branches : OwnNodes(b) \in SUBSET Stored /\ Inner(b) \in SUBSET edges
  BY DEF OwnNodes, Inner
<1>4. \A b \in Branches : IsFiniteSet(OwnNodes(b)) /\ IsFiniteSet(Inner(b))
  BY <1>2, <1>3, FS_Subset DEF GraphInv, EdgesAreSound
<1> QED
  BY <1>2, <1>4, FS_CardinalityType

\* A new branch starts at a node of another, and has none of its own.
LEMMA ForkStep ==
  ASSUME GraphInv, NEW h \in Handlers, GraphCall(call[h]), FinishFork(h)
  PROVE  GraphInv' /\ Grows
<1>1. PICK b \in Branches \ Born :
          /\ call[h].op = "fork"
          /\ head' = [head EXCEPT ![b] = call[h].head]
          /\ version' = [version EXCEPT ![b] = 1]
          /\ call' = [call EXCEPT ![h] = Idle]
          /\ UNCHANGED <<branchOf, nodeStatus, edges>>
  BY DEF FinishFork, Return
<1>2. /\ head'[b] = call[h].head /\ version'[b] = 1
      /\ \A a \in Branches : a # b => head'[a] = head[a] /\ version'[a] = version[a]
  BY <1>1 DEF GraphInv, Shapes
<1>3. Born' = Born \union {b}
  BY <1>1, <1>2 DEF Born
<1>4. Stored' = Stored /\ \A a : OwnNodes(a)' = OwnNodes(a) /\ Inner(a)' = Inner(a)
  BY <1>1 DEF Stored, OwnNodes, Inner
<1>5. OwnNodes(b) = {}
  BY <1>1 DEF GraphInv, OwnNodes
<1>6. Shapes'
  BY <1>1 DEF GraphInv, Shapes
<1>7. EdgesAreSound'
  BY <1>1, <1>4 DEF GraphInv, EdgesAreSound
<1>8. LiveNodesAreHeads'
  <2>1. ASSUME NEW n \in Stored', nodeStatus'[n] = "committed"
        PROVE  \E a \in Born' : head'[a] = n
    <3>1. PICK a \in Born : head[a] = n
      BY <1>1, <1>4, <2>1 DEF GraphInv, LiveNodesAreHeads
    <3>2. a # b /\ a \in Branches
      BY <1>1 DEF Born
    <3> QED
      BY <1>2, <1>3, <3>1, <3>2
  <2>2. ASSUME NEW n \in Stored', nodeStatus'[n] = "superseded"
        PROVE  \E e \in edges' : e[1] = n
    BY <1>1, <1>4, <2>2 DEF GraphInv, LiveNodesAreHeads
  <2> QED
    BY <2>1, <2>2 DEF LiveNodesAreHeads
<1>9. ASSUME NEW a \in Born'
      PROVE  IsChain(a)'
  <2>1. CASE a = b
    <3>1. call[h].head \in Stored \union {Root}
      BY <1>1 DEF GraphCall
    <3>2. Cardinality({}) = 0
      BY FS_EmptySet
    <3> QED
      BY <1>2, <1>4, <1>5, <2>1, <3>1, <3>2 DEF IsChain
  <2>2. CASE a # b
    <3>1. a \in Born /\ a \in Branches /\ IsChain(a)
      BY <1>3, <1>9, <2>2 DEF Born, GraphInv
    <3> QED
      BY <1>1, <1>2, <1>4, <2>2, <3>1 DEF IsChain
  <2> QED
    BY <2>1, <2>2
<1>10. (\A n \in Stored : branchOf[n] \in Born)' /\ (Stored = 1..Cardinality(Stored))'
  BY <1>1, <1>3, <1>4 DEF GraphInv
<1>11. Grows
  <2>1. ASSUME NEW bs, Closed(bs)
        PROVE  Closed(bs)'
    BY <1>1, <1>2, <1>3, <1>4, <2>1 DEF Closed, Within, Born
  <2>2. \A a \in Born : version'[a] = version[a] /\ head'[a] = head[a]
    BY <1>1, <1>2 DEF Born
  <2> QED
    BY <1>1, <1>3, <1>4, <2>1, <2>2 DEF Grows
<1> QED
  BY <1>6, <1>7, <1>8, <1>9, <1>10, <1>11 DEF GraphInv
\* Only the status of the old head changes, to superseded, and only from committed.
LEMMA SupersedeFacts ==
  ASSUME Shapes, NEW n \in Stored \union {Root}
  PROVE  /\ Supersede(n) = [m \in Nodes |-> Supersede(n)[m]]
         /\ \A m \in Nodes : m # n => Supersede(n)[m] = nodeStatus[m]
         /\ n \in Stored => \/ Supersede(n)[n] = "superseded"
                            \/ Supersede(n)[n] = nodeStatus[n] /\ nodeStatus[n] # "committed"
<1>1. Stored \subseteq Nodes
  BY DEF Stored
<1>2. CASE n \in Stored /\ nodeStatus[n] = "committed"
  <2>1. Supersede(n) = [nodeStatus EXCEPT ![n] = "superseded"]
    BY <1>2 DEF Supersede
  <2> QED
    BY <1>1, <1>2, <2>1 DEF Shapes
<1>3. CASE ~(n \in Stored /\ nodeStatus[n] = "committed")
  <2>1. Supersede(n) = nodeStatus
    BY <1>3 DEF Supersede
  <2> QED
    BY <1>3, <2>1 DEF Shapes
<1> QED
  BY <1>2, <1>3

\* A commit that finds its version appends a node to the chain of its branch.
LEMMA CommitStep ==
  ASSUME GraphInv, NEW h \in Handlers, GraphCall(call[h]), WriteCommit(h)
  PROVE  GraphInv' /\ Grows
<1>1. PICK b \in Branches, n \in Nodes, old \in Stored \union {Root} :
          /\ b = call[h].branch /\ b \in Born /\ old = head[b] /\ old = call[h].head
          /\ n = Cardinality(Stored) + 1
  <2>1. call[h].branch \in Born /\ call[h].head = head[call[h].branch]
    BY DEF WriteCommit, GraphCall, Fresh
  <2>2. Cardinality(Stored) + 1 \in Nodes
    BY DEF WriteCommit
  <2> QED
    BY <2>1, <2>2 DEF GraphInv, IsChain, Born
<1> DEFINE new == IF old = Root THEN {} ELSE {<<old, n>>}
<1>2. /\ branchOf' = [branchOf EXCEPT ![n] = b]
      /\ edges' = edges \union new
      /\ nodeStatus' = [Supersede(old) EXCEPT ![n] = "committed"]
      /\ head' = [head EXCEPT ![b] = n]
      /\ version' = [version EXCEPT ![b] = version[b] + 1]
      /\ call' = [call EXCEPT ![h] = Idle]
  BY <1>1 DEF WriteCommit, Return
<1>3. /\ Cardinality(Stored) \in Nat /\ Stored = 1..Cardinality(Stored)
      /\ n \notin Stored /\ n # Root /\ Root \notin Stored
  BY <1>1, StoredFinite DEF GraphInv, Root
<1>4. IsChain(b)
  BY <1>1 DEF GraphInv
<1>5. /\ branchOf'[n] = b /\ \A m \in Nodes : m # n => branchOf'[m] = branchOf[m]
      /\ head'[b] = n /\ \A a \in Branches : a # b => head'[a] = head[a]
      /\ version'[b] = version[b] + 1
      /\ \A a \in Branches : a # b => version'[a] = version[a]
      /\ version[b] \in Nat /\ Stored \subseteq Nodes /\ Born \subseteq Branches
  BY <1>1, <1>2 DEF GraphInv, Shapes, Stored, Born
<1>6. Stored' = Stored \union {n} /\ Born' = Born
  BY <1>1, <1>5, BranchAssumption DEF Stored, Born
<1>7. /\ \A a \in Branches : a # b => OwnNodes(a)' = OwnNodes(a)
      /\ OwnNodes(b)' = OwnNodes(b) \union {n}
      /\ \A a \in Branches : OwnNodes(a) \subseteq Stored
  <2>1. \A a \in Branches : OwnNodes(a) \subseteq Stored
    BY DEF OwnNodes
  <2>2. \A m \in Stored : branchOf'[m] = branchOf[m]
    BY <1>3, <1>5
  <2>3. ASSUME NEW a \in Branches, a # b
        PROVE  OwnNodes(a)' = OwnNodes(a)
    BY <1>5, <1>6, <2>2, <2>3 DEF OwnNodes
  <2>4. OwnNodes(b)' = OwnNodes(b) \union {n}
    BY <1>5, <1>6, <2>2 DEF OwnNodes
  <2> QED
    BY <2>1, <2>3, <2>4
<1>8. /\ \A e \in new : e = <<old, n>> /\ old \in Stored
      /\ new \subseteq Stored' \X Stored'
      /\ edges \subseteq edges' /\ new \subseteq edges'
  BY <1>2, <1>4, <1>6
<1>9. Shapes'
  <2>1. head' = [a \in Branches |-> head'[a]] /\ call' = [g \in Handlers |-> call'[g]]
    BY <1>2 DEF GraphInv, Shapes
  <2>3. version' \in [Branches -> Nat] /\ branchOf' \in [Nodes -> Branches \union {Null}]
    BY <1>2, <1>5 DEF GraphInv, Shapes
  <2>2. nodeStatus' = [m \in Nodes |-> nodeStatus'[m]]
    BY <1>1, <1>2, <1>4, SupersedeFacts DEF GraphInv
  <2> QED
    BY <2>1, <2>2, <2>3 DEF Shapes
<1>10. EdgesAreSound'
  <2>1. IsFiniteSet(new)
    BY FS_EmptySet, FS_Singleton
  <2>2. IsFiniteSet(edges')
    BY <1>2, <2>1, FS_Union DEF GraphInv, EdgesAreSound
  <2>3. edges' \subseteq Stored' \X Stored'
    BY <1>2, <1>6, <1>8 DEF GraphInv, EdgesAreSound
  <2>4. \A e \in edges : e[2] # n
    BY <1>3 DEF GraphInv, EdgesAreSound
  <2>5. \A e \in new : e[2] = n
    BY <1>8
  <2>6. \A e, f \in new : e = f
    BY <1>8
  <2>7. \A e, f \in edges' : e[2] = f[2] => e = f
    BY <1>2, <2>4, <2>5, <2>6 DEF GraphInv, EdgesAreSound
  <2> HIDE DEF new
  <2> QED
    BY <2>2, <2>3, <2>7 DEF EdgesAreSound
<1>11. LiveNodesAreHeads'
  <2>1. /\ nodeStatus'[n] = "committed"
        /\ \A m \in Nodes : m # n => nodeStatus'[m] = Supersede(old)[m]
    BY <1>1, <1>2, <1>4, SupersedeFacts DEF GraphInv
  <2>2. ASSUME NEW m \in Stored', nodeStatus'[m] = "committed"
        PROVE  \E a \in Born' : head'[a] = m
    <3>1. CASE m = n
      BY <1>1, <1>5, <1>6, <3>1
    <3>2. CASE m # n
      <4>1. m \in Stored /\ Supersede(old)[m] = "committed"
        BY <1>5, <1>6, <2>1, <2>2, <3>2
      <4>2. m # old /\ nodeStatus[m] = "committed"
        BY <1>4, <1>5, <4>1, SupersedeFacts DEF GraphInv
      <4>3. PICK a \in Born : head[a] = m
        BY <4>1, <4>2 DEF GraphInv, LiveNodesAreHeads
      <4> QED
        BY <1>1, <1>5, <1>6, <4>2, <4>3
    <3> QED
      BY <3>1, <3>2
  <2>3. ASSUME NEW m \in Stored', nodeStatus'[m] = "superseded"
        PROVE  \E e \in edges' : e[1] = m
    <3>1. m # n /\ m \in Stored /\ Supersede(old)[m] = "superseded"
      BY <1>5, <1>6, <2>1, <2>3
    <3>2. CASE m = old
      <4>1. old # Root
        BY <1>3, <3>1, <3>2
      <4>2. <<old, n>> \in edges'
        BY <1>2, <4>1
      <4> QED
        BY <3>2, <4>2
    <3>3. CASE m # old
      <4>1. nodeStatus[m] = "superseded"
        BY <1>4, <1>5, <3>1, <3>3, SupersedeFacts DEF GraphInv
      <4> QED
        BY <1>8, <3>1, <4>1 DEF GraphInv, LiveNodesAreHeads
    <3> QED
      BY <3>2, <3>3
  <2> QED
    BY <2>2, <2>3 DEF LiveNodesAreHeads
<1>12. ASSUME NEW a \in Born'
       PROVE  IsChain(a)'
  <2>1. a \in Born /\ a \in Branches /\ IsChain(a)
    BY <1>5, <1>6, <1>12 DEF GraphInv
  <2>2. CASE a # b
    <3>1. Inner(a)' = Inner(a)
      <4>1. \A e \in new : e[2] \notin OwnNodes(a)
        BY <1>3, <1>7, <1>8, <2>1
      <4> QED
        BY <1>2, <1>7, <2>1, <2>2, <4>1 DEF Inner
    <3>2. head'[a] = head[a] /\ version'[a] = version[a] /\ OwnNodes(a)' = OwnNodes(a)
      BY <1>5, <1>7, <2>1, <2>2
    <3> QED
      BY <1>2, <1>6, <2>1, <3>1, <3>2 DEF IsChain
  <2>3. CASE a = b
    <3> DEFINE own == OwnNodes(b)
               in == Inner(b)
    <3>1. /\ IsFiniteSet(own) /\ Cardinality(own) \in Nat /\ n \notin own
          /\ IsFiniteSet(in) /\ Cardinality(in) \in Nat
      BY <1>1, <1>3, <1>7, StoredFinite
    <3>2. OwnNodes(b)' = own \union {n}
      BY <1>7
    <3>3. Cardinality(own \union {n}) = Cardinality(own) + 1
      BY <3>1, FS_AddElement
    <3>4. \A e \in edges : e[1] # n /\ e[2] # n
      BY <1>3 DEF GraphInv, EdgesAreSound
    <3>5. CASE own = {}
      <4>1. Inner(b)' = {}
        <5>1. \A e \in new : e[1] # n
          BY <1>3, <1>8
        <5> QED
          BY <1>2, <3>2, <3>4, <3>5, <5>1 DEF Inner
      <4>2. Cardinality({}) = 0
        BY FS_EmptySet
      <4>3. OwnNodes(b)' = {n} /\ Cardinality(OwnNodes(b)') = 1
        BY <3>2, <3>3, <3>5, <4>2
      <4>4. version'[b] = 2
        BY <1>4, <1>5, <3>5, <4>2 DEF IsChain
      <4> QED
        BY <1>5, <1>6, <2>3, <4>1, <4>2, <4>3, <4>4 DEF IsChain
    <3>6. CASE own # {}
      <4>1. old \in own /\ old # Root
        BY <1>1, <1>3, <1>4, <1>7, <3>6 DEF IsChain
      <4>2. new = {<<old, n>>}
        BY <4>1
      <4>3. Inner(b)' = in \union {<<old, n>>}
        BY <1>2, <3>2, <3>4, <4>1, <4>2 DEF Inner
      <4>4. <<old, n>> \notin in
        BY <3>4 DEF Inner
      <4>5. Cardinality(in \union {<<old, n>>}) = Cardinality(in) + 1
        BY <3>1, <4>4, FS_AddElement
      <4>6. ASSUME NEW m \in OwnNodes(b)' \ {head'[b]}
            PROVE  \E e \in Inner(b)' : e[1] = m
        <5>1. m \in own
          BY <1>5, <3>2, <4>6
        <5>2. CASE m = old
          <6>1. <<old, n>>[1] = old
            OBVIOUS
          <6> QED
            BY <4>3, <5>2, <6>1
        <5>3. CASE m # old
          <6>1. \E e \in in : e[1] = m
            BY <1>1, <1>4, <3>6, <5>1, <5>3 DEF IsChain
          <6> QED
            BY <4>3, <6>1
        <5> QED
          BY <5>2, <5>3
      <4>7. /\ Cardinality(in) = Cardinality(own) - 1 /\ version[b] = 1 + Cardinality(own)
        BY <1>4, <3>6 DEF IsChain
      <4>8. Cardinality(Inner(b)') = Cardinality(OwnNodes(b)') - 1
        BY <3>1, <3>2, <3>3, <4>3, <4>5, <4>7
      <4>9. head'[b] \in OwnNodes(b)' /\ head'[b] \in Stored'
        BY <1>5, <1>6, <3>2
      <4>10. version'[b] = 1 + Cardinality(OwnNodes(b)')
        BY <1>5, <3>1, <3>2, <3>3, <4>7
      <4> QED
        BY <2>3, <4>6, <4>8, <4>9, <4>10 DEF IsChain
    <3> QED
      BY <3>5, <3>6
  <2> QED
    BY <2>2, <2>3
<1>13. (\A m \in Stored : branchOf[m] \in Born)'
  BY <1>1, <1>5, <1>6 DEF GraphInv
<1>14. (Stored = 1..Cardinality(Stored))'
  <2>1. Stored' = 1..n
    BY <1>1, <1>3, <1>6
  <2>2. Cardinality(1..n) = n
    BY <1>1, <1>3, FS_Interval
  <2> QED
    BY <2>1, <2>2
<1>15. Grows
  <2>1. ASSUME NEW bs, Closed(bs)
        PROVE  Closed(bs)'
    <3>1. bs \subseteq Born'
      BY <1>6, <2>1 DEF Closed
    <3>2. ASSUME NEW a \in bs
          PROVE  Within(head[a], bs)'
      <4>1. a \in Branches /\ Within(head[a], bs)
        BY <1>5, <2>1 DEF Closed
      <4>2. CASE a = b
        BY <1>5, <1>6, <4>2 DEF Within
      <4>3. CASE a # b
        BY <1>3, <1>5, <1>6, <4>1, <4>3 DEF Within
      <4> QED
        BY <4>2, <4>3
    <3>3. ASSUME NEW e \in edges', branchOf'[e[2]] \in bs
          PROVE  branchOf'[e[1]] \in bs
      <4>1. CASE e \in edges
        <5>1. e[1] \in Stored /\ e[2] \in Stored
          BY <4>1 DEF GraphInv, EdgesAreSound
        <5> QED
          BY <1>3, <1>5, <2>1, <3>3, <4>1, <5>1 DEF Closed
      <4>2. CASE e \in new
        <5>1. e[1] = old /\ e[2] = n /\ old \in Stored
          BY <1>8, <4>2
        <5>2. b \in bs
          BY <1>5, <3>3, <5>1
        <5>3. Within(old, bs) /\ old # Root
          BY <1>1, <1>3, <2>1, <5>1, <5>2 DEF Closed
        <5> QED
          BY <1>3, <1>5, <5>1, <5>3 DEF Within
      <4> QED
        BY <1>2, <4>1, <4>2
    <3> QED
      BY <3>1, <3>2, <3>3 DEF Closed
  <2>2. \A e \in edges' : e \in edges \/ e[2] \notin Stored
    BY <1>2, <1>3, <1>8
  <2>3. \A a \in Born : \/ version'[a] > version[a]
                        \/ version'[a] = version[a] /\ head'[a] = head[a]
    BY <1>5
  <2>4. \A m \in Stored : branchOf'[m] = branchOf[m]
    BY <1>3, <1>5
  <2> QED
    BY <1>6, <1>8, <2>1, <2>2, <2>3, <2>4 DEF Grows
<1> QED
  BY <1>9, <1>10, <1>11, <1>12, <1>13, <1>14, <1>15 DEF GraphInv

\* Operators mark nodes; the graph stays.
LEMMA MarkStep ==
  ASSUME GraphInv, NEW n \in Stored, MarkAtRisk(n) \/ MarkQuarantined(n)
  PROVE  GraphInv' /\ Grows /\ UNCHANGED <<branchOf, edges, head, version, call>>
<1>1. PICK s \in {"at_risk", "quarantined"} :
          /\ nodeStatus' = [nodeStatus EXCEPT ![n] = s]
          /\ UNCHANGED <<head, version, branchOf, edges, call>>
  BY DEF MarkAtRisk, MarkQuarantined
<1>2. /\ Stored' = Stored /\ Born' = Born
      /\ \A b : OwnNodes(b)' = OwnNodes(b) /\ Inner(b)' = Inner(b)
  BY <1>1 DEF Stored, Born, OwnNodes, Inner
<1>3. Shapes' /\ EdgesAreSound'
  BY <1>1, <1>2 DEF GraphInv, Shapes, EdgesAreSound
<1>4. LiveNodesAreHeads'
  <2>1. \A m \in Stored : nodeStatus'[m] \in {"committed", "superseded"}
                              => nodeStatus'[m] = nodeStatus[m]
    BY <1>1 DEF GraphInv, Shapes, Stored
  <2> QED
    BY <1>1, <1>2, <2>1 DEF GraphInv, LiveNodesAreHeads
<1>5. ASSUME NEW b \in Born'
      PROVE  IsChain(b)'
  BY <1>1, <1>2, <1>5 DEF GraphInv, IsChain
<1>6. Grows
  <2>1. \A bs : Closed(bs) => Closed(bs)'
    BY <1>1, <1>2 DEF Closed, Within
  <2> QED
    BY <1>1, <1>2, <2>1 DEF Grows
<1> QED
  BY <1>1, <1>2, <1>3, <1>4, <1>5, <1>6 DEF GraphInv
LEMMA GraphStays ==
  ASSUME GraphInv, UNCHANGED graph, call' = [h \in Handlers |-> call'[h]]
  PROVE  GraphInv' /\ Grows
<1>1. UNCHANGED <<head, version, branchOf, nodeStatus, edges>>
  BY DEF graph
<1>2. /\ Stored' = Stored /\ Born' = Born
      /\ \A b : OwnNodes(b)' = OwnNodes(b) /\ Inner(b)' = Inner(b)
  BY <1>1 DEF Stored, Born, OwnNodes, Inner
<1>3. Shapes' /\ EdgesAreSound' /\ LiveNodesAreHeads'
  BY <1>1, <1>2 DEF GraphInv, Shapes, EdgesAreSound, LiveNodesAreHeads
<1>4. ASSUME NEW b \in Born'
      PROVE  IsChain(b)'
  BY <1>1, <1>2, <1>4 DEF GraphInv, IsChain
<1>5. \A bs : Closed(bs) => Closed(bs)'
  BY <1>1, <1>2 DEF Closed, Within
<1>6. Grows
  BY <1>1, <1>2, <1>5 DEF Grows
<1> QED
  BY <1>1, <1>2, <1>3, <1>4, <1>6 DEF GraphInv

(***************************************************************************)
(* What was read stays true                                                *)
(***************************************************************************)
\* The packages are only added to.
Keeps == /\ Len(packages) \in Nat /\ Len(packages') \in Nat /\ Len(packages) <= Len(packages')
         /\ \A i \in 1..Len(packages) : packages'[i] = packages[i]

LEMMA ReadsStay ==
  ASSUME Shapes, Shapes', Grows
  PROVE  /\ \A heads : HeadsRead(heads) => HeadsRead(heads)'
         /\ \A heads, nodes : NodesRead(heads, nodes) => NodesRead(heads, nodes)'
         /\ \A heads, nodes, read :
               EdgesRead(heads, nodes, read) => EdgesRead(heads, nodes, read)'
<1>1. \A n, bs : Within(n, bs) => Within(n, bs)'
  BY DEF Within, Grows
<1>2. \A heads : HeadsRead(heads) => HeadsRead(heads)'
  BY <1>1 DEF HeadsRead, Grows
<1>3. ASSUME NEW heads, NEW nodes, NodesRead(heads, nodes)
      PROVE  NodesRead(heads, nodes)'
  BY <1>3 DEF NodesRead, Grows
<1>4. ASSUME NEW heads, NEW nodes, NEW read, EdgesRead(heads, nodes, read)
      PROVE  EdgesRead(heads, nodes, read)'
  <2>1. NodesRead(heads, nodes)'
    BY <1>3, <1>4 DEF EdgesRead
  <2> QED
    BY <1>4, <2>1 DEF EdgesRead, NodesRead, Grows
<1> QED
  BY <1>2, <1>3, <1>4

LEMMA CallsStay ==
  ASSUME Shapes, Shapes', Grows, Keeps, NEW c
  PROVE  /\ GraphCall(c) => GraphCall(c)'
         /\ ExportCall(c) => ExportCall(c)'
<1>1. ASSUME GraphCall(c), c.op = "commit"
      PROVE  /\ c.branch \in Born' /\ c.version \in Nat /\ c.version <= version'[c.branch]
             /\ c.version = version'[c.branch] => c.head = head'[c.branch]
  <2>1. /\ c.branch \in Born /\ c.version \in Nat /\ c.version <= version[c.branch]
        /\ c.version = version[c.branch] => c.head = head[c.branch]
    BY <1>1 DEF GraphCall
  <2>2. version[c.branch] \in Nat /\ version'[c.branch] \in Nat
    BY <2>1 DEF Shapes, Born
  <2>3. \/ version'[c.branch] > version[c.branch]
        \/ version'[c.branch] = version[c.branch] /\ head'[c.branch] = head[c.branch]
    BY <2>1 DEF Grows
  <2> QED
    BY <2>1, <2>2, <2>3 DEF Grows
<1>2. ASSUME GraphCall(c), c.op = "fork"
      PROVE  c.head \in Stored' \union {Root}
  BY <1>2 DEF GraphCall, Grows
<1>3. ASSUME Numbered(c, Len(packages))
      PROVE  Numbered(c, Len(packages'))
  BY <1>3 DEF Numbered, Keeps
<1> QED
  BY <1>1, <1>2, <1>3, ReadsStay DEF GraphCall, ExportCall

\* A fork's progress depends on its own row and its package.
LEMMA ProgressStays ==
  ASSUME Keeps, NEW f, ForkShape(f)
  PROVE  /\ ForkShape(f)'
         /\ \A op : Progress(f, op) => Progress(f, op)'
         /\ BranchesIn(f) => BranchesIn(f)'
         /\ NodesIn(f) => NodesIn(f)'
         /\ EdgesIn(f) => EdgesIn(f)'
<1>1. packages'[f.package] = packages[f.package]
  BY DEF Keeps, ForkShape
<1>2. ForkShape(f)'
  BY DEF Keeps, ForkShape
<1> QED
  BY <1>1, <1>2 DEF Progress, BranchesIn, NodesIn, EdgesIn

IsWhole(f) == BranchesIn(f) /\ NodesIn(f) /\ EdgesIn(f) /\ f.policies /\ f.recorded

LEMMA MappedMeans ==
  MappedForkIsWhole <=> \A i \in DOMAIN forks : forks[i].mapped => IsWhole(forks[i])
BY DEF MappedForkIsWhole, IsWhole, BranchesIn, NodesIn, EdgesIn

LEMMA MappedMeansNext ==
  ASSUME \A i \in DOMAIN forks' : forks'[i].mapped => IsWhole(forks[i])'
  PROVE  MappedForkIsWhole'
BY DEF MappedForkIsWhole, IsWhole, BranchesIn, NodesIn, EdgesIn

\* A step that changes one handler's call, leaves the forks alone and only adds to graph
\* and packages.
LEMMA OneCallChanges ==
  ASSUME TransferInv, GraphInv', Grows, PackagesInv', Keeps, UNCHANGED forks,
         NEW h \in Handlers, NEW c, call' = [call EXCEPT ![h] = c],
         c.op \notin Importing, GraphCall(c)', ExportCall(c)'
  PROVE  TransferInv'
<1>1. /\ call'[h] = c
      /\ \A g \in Handlers : g # h => call'[g] = call[g]
  BY DEF TransferInv, GraphInv, Shapes
<1>2. Shapes /\ Shapes'
  BY DEF TransferInv, GraphInv
<1>3. ASSUME NEW g \in Handlers
      PROVE  (GraphCall(call[g]) /\ ExportCall(call[g]) /\ ImportCall(call[g]))'
  <2>1. CASE g = h
    BY <1>1, <2>1 DEF ImportCall
  <2>2. CASE g # h
    <3>1. GraphCall(call[g]) /\ ExportCall(call[g]) /\ ImportCall(call[g])
      BY DEF TransferInv
    <3>2. PICK d : d = call[g] /\ d = call'[g]
      BY <1>1, <2>2
    <3>3. GraphCall(d)' /\ ExportCall(d)'
      BY <1>2, <3>1, <3>2, CallsStay
    <3>4. ImportCall(d)'
      <4>1. CASE d.op \in Importing
        <5>1. PICK f : f = forks[d.fork] /\ f = forks'[d.fork]
          OBVIOUS
        <5>2. d.fork \in 1..Len(forks) /\ Progress(f, d.op) /\ ForkShape(f)
          BY <3>1, <3>2, <4>1, <5>1 DEF ImportCall, TransferInv, ForksInv
        <5>3. Progress(f, d.op)'
          BY <5>2, ProgressStays
        <5> QED
          BY <5>1, <5>2, <5>3 DEF ImportCall
      <4>2. CASE d.op \notin Importing
        BY <4>2 DEF ImportCall
      <4> QED
        BY <4>1, <4>2
    <3> QED
      BY <3>2, <3>3, <3>4
  <2> QED
    BY <2>1, <2>2
<1>4. ForksInv'
  <2>1. ASSUME NEW i \in 1..Len(forks)
        PROVE  /\ ForkShape(forks[i])'
               /\ forks[i].mapped => IsWhole(forks[i])'
    <3>1. PICK f : f = forks[i] /\ f = forks'[i]
      OBVIOUS
    <3>2. i \in DOMAIN forks /\ ForkShape(f) /\ (f.mapped => IsWhole(f))
      BY <3>1, MappedMeans DEF TransferInv, ForksInv, IsSeq
    <3>3. ForkShape(f)' /\ (IsWhole(f) => IsWhole(f)')
      BY <3>2, ProgressStays DEF IsWhole
    <3> QED
      BY <3>1, <3>2, <3>3
  <2>2. \A f, g \in Handlers :
           f # g /\ call'[f].op \in Importing /\ call'[g].op \in Importing
               => call'[f].fork # call'[g].fork
    BY <1>1 DEF TransferInv, ForksInv
  <2>3. IsSeq(forks') /\ DOMAIN forks' = 1..Len(forks) /\ Len(forks') = Len(forks)
    BY DEF TransferInv, ForksInv, IsSeq
  <2>4. MappedForkIsWhole'
    BY <2>1, <2>3, MappedMeansNext
  <2> QED
    BY <2>1, <2>2, <2>3, <2>4 DEF ForksInv
<1> QED
  BY <1>3, <1>4 DEF TransferInv
(***************************************************************************)
(* The steps                                                               *)
(***************************************************************************)
LEMMA NothingAdded ==
  ASSUME TransferInv, Shapes', Grows, UNCHANGED packages
  PROVE  PackagesInv' /\ Keeps
<1>1. Keeps
  BY DEF TransferInv, PackagesInv, IsSeq, Keeps
<1>2. \A i \in 1..Len(packages) :
          EdgesRead(packages[i].heads, packages[i].nodes, packages[i].edges)'
  <2>1. ASSUME NEW i \in 1..Len(packages)
        PROVE  EdgesRead(packages[i].heads, packages[i].nodes, packages[i].edges)'
    <3>1. PICK p : p = packages[i] /\ p = packages'[i]
      OBVIOUS
    <3>2. EdgesRead(p.heads, p.nodes, p.edges)
      BY <3>1 DEF TransferInv, PackagesInv
    <3>3. EdgesRead(p.heads, p.nodes, p.edges)'
      BY <3>2, ReadsStay DEF TransferInv, GraphInv
    <3> QED
      BY <3>1, <3>3
  <2> QED
    BY <2>1
<1>3. \A i \in 1..Len(packages') : Numbered(packages'[i], i - 1)
  BY DEF TransferInv, PackagesInv
<1> QED
  BY <1>1, <1>2, <1>3 DEF TransferInv, PackagesInv

LEMMA IdleCalls == GraphCall(Idle) /\ ExportCall(Idle) /\ Idle.op \notin Importing
BY DEF GraphCall, ExportCall, Idle, Importing

LEMMA IdleCallsNext == GraphCall(Idle)' /\ ExportCall(Idle)'
BY DEF GraphCall, ExportCall, Idle

\* Creating a branch and committing to one.
LEMMA GraphStep ==
  ASSUME TransferInv, UNCHANGED transfer, NEW h \in Handlers,
         BeginFork(h) \/ FinishFork(h) \/ BeginCommit(h) \/ WriteCommit(h) \/ RefuseCommit(h)
  PROVE  TransferInv'
<1>1. GraphCall(call[h]) /\ GraphInv /\ UNCHANGED <<packages, forks>>
  BY DEF TransferInv, transfer
<1>2. CASE FinishFork(h) \/ WriteCommit(h)
  <2>1. GraphInv' /\ Grows
    BY <1>1, <1>2, ForkStep, CommitStep
  <2>2. call' = [call EXCEPT ![h] = Idle]
    BY <1>2 DEF FinishFork, WriteCommit, Return
  <2>3. PackagesInv' /\ Keeps
    BY <1>1, <2>1, NothingAdded DEF GraphInv
  <2> QED
    BY <1>1, <2>1, <2>2, <2>3, IdleCalls, IdleCallsNext, OneCallChanges
<1>3. ASSUME UNCHANGED graph, NEW c, call' = [call EXCEPT ![h] = c], GraphCall(c),
             c.op \notin Importing, c.op \notin {"nodes", "edges", "count", "store"}
      PROVE  TransferInv'
  <2>1. GraphInv' /\ Grows
    <3>1. call' = [g \in Handlers |-> call'[g]]
      BY <1>1, <1>3 DEF GraphInv, Shapes
    <3> QED
      BY <1>1, <1>3, <3>1, GraphStays
  <2>2. PackagesInv' /\ Keeps
    BY <1>1, <2>1, NothingAdded DEF GraphInv
  <2>3. GraphCall(c)'
    BY <1>1, <1>3, <2>1, <2>2, CallsStay DEF GraphInv
  <2>4. ExportCall(c)'
    BY <1>3 DEF ExportCall
  <2> QED
    BY <1>1, <1>3, <2>1, <2>2, <2>3, <2>4, OneCallChanges
<1>4. CASE BeginFork(h)
  <2>1. PICK n \in Stored \union {Root} :
            UNCHANGED graph /\ call' = [call EXCEPT ![h] = [op |-> "fork", head |-> n]]
    <3>1. PICK parent \in Born \union {Null} :
              /\ UNCHANGED graph
              /\ call' = [call EXCEPT ![h] =
                     [op |-> "fork", head |-> IF parent = Null THEN Root ELSE head[parent]]]
      BY <1>4 DEF BeginFork
    <3>2. (IF parent = Null THEN Root ELSE head[parent]) \in Stored \union {Root}
      BY <1>1 DEF GraphInv, IsChain
    <3> QED
      BY <3>1, <3>2
  <2> DEFINE c == [op |-> "fork", head |-> n]
  <2>2. GraphCall(c) /\ c.op \notin Importing /\ c.op \notin {"nodes", "edges", "count", "store"}
    BY DEF GraphCall, Importing
  <2> HIDE DEF c
  <2> QED
    BY <1>3, <2>1, <2>2 DEF c
<1>5. CASE BeginCommit(h)
  <2>1. PICK b, n, v :
            /\ b \in Born /\ UNCHANGED graph /\ n = head[b] /\ v = version[b]
            /\ call' = [call EXCEPT ![h] = [op |-> "commit", branch |-> b, head |-> n,
                                            version |-> v]]
    BY <1>5 DEF BeginCommit
  <2> DEFINE c == [op |-> "commit", branch |-> b, head |-> n, version |-> v]
  <2>2. v \in Nat
    BY <1>1, <2>1 DEF GraphInv, Shapes, Born
  <2>3. GraphCall(c) /\ c.op \notin Importing /\ c.op \notin {"nodes", "edges", "count", "store"}
    BY <2>1, <2>2 DEF GraphCall, Importing
  <2> HIDE DEF c
  <2> QED
    BY <1>3, <2>1, <2>3 DEF c
<1>6. CASE RefuseCommit(h)
  <2>1. UNCHANGED graph /\ call' = [call EXCEPT ![h] = Idle]
    BY <1>6 DEF RefuseCommit, Return
  <2>2. Idle.op \notin {"nodes", "edges", "count", "store"}
    BY DEF Idle
  <2> QED
    BY <1>3, <2>1, <2>2, IdleCalls
<1> QED
  BY <1>2, <1>4, <1>5, <1>6

\* What an export reads, it reads whole: the nodes after the branches, the edges after the
\* nodes.
LEMMA ExportStep ==
  ASSUME TransferInv, NEW h \in Handlers,
         \/ ReadBranches(h) \/ ReadNodes(h) \/ ReadEdges(h) \/ CountPackages(h)
         \/ FailImport(h)
  PROVE  TransferInv'
<1>1. ExportCall(call[h]) /\ GraphInv
  BY DEF TransferInv
<1>2. ASSUME UNCHANGED <<graph, transfer>>, NEW c, call' = [call EXCEPT ![h] = c],
             c.op \notin Importing, c.op \notin {"fork", "commit"}, ExportCall(c)
      PROVE  TransferInv'
  <2>1. UNCHANGED graph /\ UNCHANGED <<packages, forks>>
    BY <1>2 DEF transfer
  <2>2. GraphInv' /\ Grows
    <3>1. call' = [g \in Handlers |-> call'[g]]
      BY <1>1, <1>2 DEF GraphInv, Shapes
    <3> QED
      BY <1>1, <2>1, <3>1, GraphStays
  <2>3. PackagesInv' /\ Keeps
    BY <2>1, <2>2, NothingAdded DEF GraphInv
  <2>4. ExportCall(c)'
    BY <1>1, <1>2, <2>2, <2>3, CallsStay DEF GraphInv
  <2>5. GraphCall(c)'
    BY <1>2 DEF GraphCall
  <2> QED
    BY <1>2, <2>1, <2>2, <2>3, <2>4, <2>5, OneCallChanges
<1>3. CASE ReadBranches(h)
  <2>1. PICK heads : /\ heads = Restrict(head, Born)
                     /\ call' = [call EXCEPT ![h] = [op |-> "nodes", heads |-> heads]]
                     /\ UNCHANGED <<graph, transfer>>
    BY <1>3 DEF ReadBranches
  <2>2. DOMAIN heads = Born /\ \A b \in Born : heads[b] = head[b]
    BY <2>1 DEF Restrict
  <2>3. Closed(Born)
    <3>1. \A b \in Born : Within(head[b], Born)
      BY <1>1 DEF GraphInv, IsChain, Within
    <3>2. \A e \in edges : branchOf[e[1]] \in Born
      BY <1>1 DEF GraphInv, EdgesAreSound
    <3> QED
      BY <3>1, <3>2 DEF Closed
  <2>4. HeadsRead(heads)
    BY <2>2, <2>3 DEF HeadsRead, Closed
  <2> DEFINE c == [op |-> "nodes", heads |-> heads]
  <2>5. ExportCall(c) /\ c.op \notin Importing /\ c.op \notin {"fork", "commit"}
    BY <2>4 DEF ExportCall, Importing
  <2> HIDE DEF c
  <2> QED
    BY <1>2, <2>1, <2>5 DEF c
<1>4. CASE ReadNodes(h)
  <2>1. PICK heads, found, nodes :
            /\ heads = call[h].heads
            /\ found = {n \in Stored : branchOf[n] \in DOMAIN heads}
            /\ nodes = Restrict(branchOf, found)
            /\ call' = [call EXCEPT ![h] = [op |-> "edges", heads |-> heads, nodes |-> nodes]]
            /\ UNCHANGED <<graph, transfer>>
    BY <1>4 DEF ReadNodes
  <2>2. HeadsRead(heads)
    BY <1>1, <1>4, <2>1 DEF ExportCall, ReadNodes, Reading
  <2>3. DOMAIN nodes = found /\ \A n \in found : nodes[n] = branchOf[n]
    BY <2>1 DEF Restrict
  <2>4. \A e \in edges : e[2] \in found => e[1] \in found
    BY <1>1, <2>1, <2>2 DEF HeadsRead, Closed, GraphInv, EdgesAreSound
  <2>5. \A b \in DOMAIN heads : heads[b] \in found \union {Root}
    BY <2>1, <2>2 DEF HeadsRead, Within
  <2>6. NodesRead(heads, nodes)
    BY <2>1, <2>3, <2>4, <2>5 DEF NodesRead
  <2> DEFINE c == [op |-> "edges", heads |-> heads, nodes |-> nodes]
  <2>7. ExportCall(c) /\ c.op \notin Importing /\ c.op \notin {"fork", "commit"}
    BY <2>6 DEF ExportCall, Importing
  <2> HIDE DEF c
  <2> QED
    BY <1>2, <2>1, <2>7 DEF c
<1>5. CASE ReadEdges(h)
  <2>1. PICK heads, nodes, found :
            /\ heads = call[h].heads /\ nodes = call[h].nodes
            /\ found = {e \in edges : e[1] \in DOMAIN nodes \/ e[2] \in DOMAIN nodes}
            /\ call' = [call EXCEPT ![h] = [op |-> "count", heads |-> heads,
                                            nodes |-> nodes, edges |-> found]]
            /\ UNCHANGED <<graph, transfer>>
    BY <1>5 DEF ReadEdges
  <2>2. NodesRead(heads, nodes)
    BY <1>1, <1>5, <2>1 DEF ExportCall, ReadEdges, Reading
  <2>3. EdgesRead(heads, nodes, found)
    BY <2>1, <2>2 DEF EdgesRead
  <2> DEFINE c == [op |-> "count", heads |-> heads, nodes |-> nodes, edges |-> found]
  <2>4. ExportCall(c) /\ c.op \notin Importing /\ c.op \notin {"fork", "commit"}
    BY <2>3 DEF ExportCall, Importing
  <2> HIDE DEF c
  <2> QED
    BY <1>2, <2>1, <2>4 DEF c
<1>6. CASE CountPackages(h)
  <2>1. PICK heads, nodes, read, k :
            /\ heads = call[h].heads /\ nodes = call[h].nodes /\ read = call[h].edges
            /\ k = Len(packages)
            /\ call' = [call EXCEPT ![h] =
                   [op |-> "store", heads |-> heads, nodes |-> nodes, edges |-> read,
                    sequence |-> k + 1, after |-> k]]
            /\ UNCHANGED <<graph, transfer>>
    BY <1>6 DEF CountPackages, NextSequence
  <2>2. EdgesRead(heads, nodes, read)
    BY <1>1, <1>6, <2>1 DEF ExportCall, CountPackages, Reading
  <2>3. k \in Nat
    BY <2>1 DEF TransferInv, PackagesInv, IsSeq
  <2> DEFINE c == [op |-> "store", heads |-> heads, nodes |-> nodes, edges |-> read,
                   sequence |-> k + 1, after |-> k]
  <2>4. ExportCall(c) /\ c.op \notin Importing /\ c.op \notin {"fork", "commit"}
    BY <2>1, <2>2, <2>3 DEF ExportCall, Importing, Numbered
  <2> HIDE DEF c
  <2> QED
    BY <1>2, <2>1, <2>4 DEF c
<1>7. CASE FailImport(h)
  <2>1. UNCHANGED <<graph, transfer>> /\ call' = [call EXCEPT ![h] = Idle]
    BY <1>7 DEF FailImport, Return
  <2>2. Idle.op \notin {"fork", "commit"}
    BY DEF Idle
  <2> QED
    BY <1>2, <2>1, <2>2, IdleCalls
<1> QED
  BY <1>3, <1>4, <1>5, <1>6, <1>7
\* What appending does to a sequence of anything.
LEMMA AppendFacts ==
  ASSUME NEW s, IsSeq(s), NEW e
  PROVE  /\ IsSeq(Append(s, e)) /\ Len(s) \in Nat
         /\ Len(Append(s, e)) = Len(s) + 1 /\ Append(s, e)[Len(s) + 1] = e
         /\ \A i \in 1..Len(s) : Append(s, e)[i] = s[i]
<1>1. PICK S : s \in Seq(S)
  BY DEF IsSeq
<1>2. s \in Seq(S \union {e}) /\ e \in S \union {e}
  BY <1>1
<1>3. Append(s, e) \in Seq(S \union {e})
  BY <1>2
<1> QED
  BY <1>2, <1>3 DEF IsSeq

LEMMA StoreStep ==
  ASSUME TransferInv, NEW h \in Handlers, StorePackage(h)
  PROVE  TransferInv'
<1>1. PICK p :
          /\ p = [heads |-> call[h].heads, nodes |-> call[h].nodes, edges |-> call[h].edges,
                  sequence |-> call[h].sequence, after |-> call[h].after]
          /\ packages' = Append(packages, p)
          /\ call' = [call EXCEPT ![h] = Idle]
          /\ UNCHANGED graph /\ UNCHANGED forks
  BY DEF StorePackage, Return
<1>2. IsSeq(packages) /\ GraphInv
  BY DEF TransferInv, PackagesInv
<1>3. /\ IsSeq(packages') /\ Len(packages) \in Nat /\ Len(packages') = Len(packages) + 1
      /\ packages'[Len(packages) + 1] = p
      /\ \A i \in 1..Len(packages) : packages'[i] = packages[i]
  BY <1>1, <1>2, AppendFacts
<1>4. Keeps
  BY <1>3 DEF Keeps
<1>5. GraphInv' /\ Grows
  <2>1. call' = [g \in Handlers |-> call'[g]]
    BY <1>1, <1>2 DEF GraphInv, Shapes
  <2> QED
    BY <1>1, <1>2, <2>1, GraphStays
<1>6. EdgesRead(p.heads, p.nodes, p.edges) /\ Numbered(p, Len(packages))
  BY <1>1 DEF TransferInv, ExportCall, StorePackage, Reading, Numbered
<1>7. PackagesInv'
  <2>1. ASSUME NEW i \in 1..Len(packages')
        PROVE  /\ EdgesRead(packages[i].heads, packages[i].nodes, packages[i].edges)'
               /\ Numbered(packages'[i], i - 1)
    <3>1. PICK q : q = packages'[i]
      OBVIOUS
    <3>2. EdgesRead(q.heads, q.nodes, q.edges) /\ Numbered(q, i - 1)
      <4>1. CASE i = Len(packages) + 1
        BY <1>3, <1>6, <3>1, <4>1
      <4>2. CASE i \in 1..Len(packages)
        BY <1>3, <3>1, <4>2 DEF TransferInv, PackagesInv
      <4> QED
        BY <1>3, <4>1, <4>2
    <3>3. EdgesRead(q.heads, q.nodes, q.edges)'
      BY <1>2, <1>5, <3>2, ReadsStay DEF GraphInv
    <3> QED
      BY <3>1, <3>2, <3>3
  <2> QED
    BY <1>3, <2>1 DEF PackagesInv
<1> QED
  BY <1>1, <1>4, <1>5, <1>7, IdleCalls, IdleCallsNext, OneCallChanges

\* A call that imports into fork k, and one at a given phase.
ImportsInto(c, k) == c.op \in Importing => c.fork = k
AtPhase(c, phase, k) == c.op = phase /\ c.fork = k

LEMMA PhaseCall == \A op, k : AtPhase([op |-> op, fork |-> k], op, k)
BY DEF AtPhase

\* The forks after a step of handler h: those that no other handler is writing may change.
LEMMA ForksChange ==
  ASSUME TransferInv, UNCHANGED <<graph, packages>>, NEW h \in Handlers, NEW c,
         call' = [call EXCEPT ![h] = c], GraphCall(c), ExportCall(c), ImportCall(c)',
         IsSeq(forks'), Len(forks) <= Len(forks'),
         NEW k \in 1..Len(forks'), NEW f, f = forks'[k], ForkShape(f), f.mapped => IsWhole(f),
         \A i \in 1..Len(forks') : i # k => i \in 1..Len(forks) /\ forks'[i] = forks[i],
         \A g \in Handlers : g # h /\ call[g].op \in Importing => call[g].fork # k,
         ImportsInto(c, k)
  PROVE  TransferInv'
<1>1. /\ call'[h] = c /\ call' = [g \in Handlers |-> call'[g]]
      /\ \A g \in Handlers : g # h => call'[g] = call[g]
  BY DEF TransferInv, GraphInv, Shapes
<1>2. GraphInv' /\ Grows /\ PackagesInv' /\ Keeps
  <2>1. GraphInv' /\ Grows
    BY <1>1, GraphStays DEF TransferInv
  <2> QED
    BY <2>1, NothingAdded DEF GraphInv
<1>3. Shapes /\ Shapes'
  BY <1>2 DEF TransferInv, GraphInv
<1>4. ASSUME NEW g \in Handlers
      PROVE  (GraphCall(call[g]) /\ ExportCall(call[g]) /\ ImportCall(call[g]))'
  <2>1. CASE g = h
    <3>1. GraphCall(c)' /\ ExportCall(c)'
      BY <1>2, <1>3, CallsStay
    <3> QED
      BY <1>1, <2>1, <3>1
  <2>2. CASE g # h
    <3>1. PICK d : d = call[g] /\ d = call'[g]
      BY <1>1, <2>2
    <3>2. GraphCall(d) /\ ExportCall(d) /\ ImportCall(d)
      BY <3>1 DEF TransferInv
    <3>3. GraphCall(d)' /\ ExportCall(d)'
      BY <1>2, <1>3, <3>2, CallsStay
    <3>4. ImportCall(d)'
      <4>1. CASE d.op \in Importing
        <5>1. d.fork \in 1..Len(forks) /\ d.fork # k /\ Len(forks) \in Nat /\ Len(forks') \in Nat
          BY <2>2, <3>1, <3>2, <4>1 DEF ImportCall, TransferInv, ForksInv, IsSeq
        <5>2. d.fork \in 1..Len(forks') /\ forks'[d.fork] = forks[d.fork]
          BY <5>1
        <5>3. PICK e : e = forks[d.fork] /\ e = forks'[d.fork]
          BY <5>2
        <5>4. Progress(e, d.op) /\ ForkShape(e)
          BY <3>2, <4>1, <5>1, <5>3 DEF ImportCall, TransferInv, ForksInv
        <5>5. Progress(e, d.op)'
          BY <1>2, <5>4, ProgressStays
        <5> QED
          BY <5>2, <5>3, <5>5 DEF ImportCall
      <4>2. CASE d.op \notin Importing
        BY <4>2 DEF ImportCall
      <4> QED
        BY <4>1, <4>2
    <3> QED
      BY <3>1, <3>3, <3>4
  <2> QED
    BY <2>1, <2>2
<1>5. ASSUME NEW i \in 1..Len(forks')
      PROVE  /\ ForkShape(forks[i])'
             /\ forks'[i].mapped => IsWhole(forks[i])'
  <2>1. PICK e : e = forks'[i]
    OBVIOUS
  <2>2. ForkShape(e) /\ (e.mapped => IsWhole(e))
    <3>1. CASE i = k
      BY <2>1, <3>1
    <3>2. CASE i # k
      <4>1. i \in 1..Len(forks) /\ e = forks[i]
        BY <2>1, <3>2
      <4>2. i \in DOMAIN forks
        BY <4>1 DEF TransferInv, ForksInv, IsSeq
      <4> QED
        BY <4>1, <4>2, MappedMeans DEF TransferInv, ForksInv
    <3> QED
      BY <3>1, <3>2
  <2>3. ForkShape(e)' /\ (IsWhole(e) => IsWhole(e)')
    BY <1>2, <2>2, ProgressStays DEF IsWhole
  <2> QED
    BY <2>1, <2>2, <2>3
<1>6. ForksInv'
  <2>1. DOMAIN forks' = 1..Len(forks')
    BY DEF IsSeq
  <2>2. MappedForkIsWhole'
    BY <1>5, <2>1, MappedMeansNext
  <2>3. \A e, g \in Handlers :
           e # g /\ call'[e].op \in Importing /\ call'[g].op \in Importing
               => call'[e].fork # call'[g].fork
    BY <1>1 DEF TransferInv, ForksInv, ImportsInto
  <2> QED
    BY <1>5, <2>2, <2>3 DEF ForksInv
<1> QED
  BY <1>2, <1>4, <1>6 DEF TransferInv

\* One transaction of an import, which brings its fork to the next phase.
LEMMA PhaseStep ==
  ASSUME TransferInv, NEW h \in Handlers, NEW phase \in Importing,
         NEW next \in Importing \union {"done"}, NEW result,
         Phase(h, phase, next, result), ForkShape(result),
         next \in Importing => Progress(result, next),
         next = "done" => IsWhole(result)
  PROVE  TransferInv'
<1>1. PICK k : k = call[h].fork
  OBVIOUS
<1>2. /\ call[h].op = phase /\ UNCHANGED <<graph, packages>>
      /\ forks' = [forks EXCEPT ![k] = result]
      /\ call' = [call EXCEPT ![h] = IF next = "done" THEN Idle ELSE [op |-> next, fork |-> k]]
  BY <1>1 DEF Phase
<1>3. IsSeq(forks) /\ Len(forks) \in Nat /\ k \in 1..Len(forks)
  BY <1>1, <1>2 DEF TransferInv, ForksInv, IsSeq, ImportCall
<1>4. /\ IsSeq(forks') /\ Len(forks') = Len(forks) /\ forks'[k] = result
      /\ \A i \in 1..Len(forks) : i # k => forks'[i] = forks[i]
  <2>1. PICK S : forks \in Seq(S)
    BY <1>3 DEF IsSeq
  <2>2. forks \in Seq(S \union {result}) /\ result \in S \union {result}
    BY <2>1
  <2>3. forks' \in Seq(S \union {result}) /\ Len(forks') = Len(forks)
    BY <1>2, <1>3, <2>2
  <2> QED
    BY <1>2, <1>3, <2>1, <2>3 DEF IsSeq
<1>5. \A g \in Handlers : g # h /\ call[g].op \in Importing => call[g].fork # k
  BY <1>1, <1>2 DEF TransferInv, ForksInv
<1>6. \A i \in 1..Len(forks') : i # k => i \in 1..Len(forks) /\ forks'[i] = forks[i]
  BY <1>4
<1>7. Len(forks) <= Len(forks') /\ k \in 1..Len(forks')
  BY <1>3, <1>4
<1>8. CASE next = "done"
  <2>1. call' = [call EXCEPT ![h] = Idle] /\ ImportCall(Idle)' /\ ImportsInto(Idle, k)
    BY <1>2, <1>8, IdleCalls DEF ImportCall, ImportsInto
  <2>2. result = forks'[k] /\ (result.mapped => IsWhole(result))
    BY <1>4, <1>8
  <2>3. UNCHANGED <<graph, packages>>
    BY <1>2
  <2> QED
    BY <1>4, <1>5, <1>6, <1>7, <2>1, <2>2, <2>3, IdleCalls, ForksChange
<1>9. CASE next # "done"
  <2>1. PICK c : call' = [call EXCEPT ![h] = c] /\ AtPhase(c, next, k)
    BY <1>2, <1>9, PhaseCall
  <2>2. next \in Importing /\ ImportsInto(c, k)
    BY <1>9, <2>1 DEF AtPhase, ImportsInto
  <2>3. GraphCall(c) /\ ExportCall(c)
    BY <2>1, <2>2 DEF GraphCall, ExportCall, Importing, AtPhase
  <2>4. Progress(result, next)' /\ ~result.mapped
    <3>1. Keeps
      BY <1>2 DEF TransferInv, PackagesInv, IsSeq, Keeps
    <3> QED
      BY <2>2, <3>1, ProgressStays DEF Progress
  <2>5. ImportCall(c)'
    BY <1>4, <1>7, <2>1, <2>4 DEF ImportCall, AtPhase
  <2>6. result = forks'[k] /\ (result.mapped => IsWhole(result))
    BY <1>4, <2>4
  <2>7. UNCHANGED <<graph, packages>>
    BY <1>2
  <2> QED
    BY <1>4, <1>5, <1>6, <1>7, <2>1, <2>2, <2>3, <2>5, <2>6, <2>7, ForksChange
<1> QED
  BY <1>8, <1>9
\* An import starts on a fork of its own.
LEMMA BeginStep ==
  ASSUME TransferInv, NEW h \in Handlers, BeginImport(h)
  PROVE  TransferInv'
<1>1. PICK p \in DOMAIN packages :
          /\ forks' = Append(forks, EmptyFork(p))
          /\ call' = [call EXCEPT ![h] = [op |-> "import branches", fork |-> Len(forks) + 1]]
          /\ UNCHANGED <<graph, packages>>
  BY DEF BeginImport
<1>11. UNCHANGED <<graph, packages>>
  BY <1>1
<1>2. PICK c : /\ call' = [call EXCEPT ![h] = c]
               /\ AtPhase(c, "import branches", Len(forks) + 1)
  BY <1>1, PhaseCall, Zenon
<1>3. PICK f : f = EmptyFork(p)
  OBVIOUS
<1>4. PICK k \in 1..Len(forks') :
          /\ IsSeq(forks') /\ Len(forks) \in Nat
          /\ k = Len(forks) + 1 /\ Len(forks') = k /\ forks'[k] = f
          /\ \A i \in 1..Len(forks) : forks'[i] = forks[i]
  <2>1. IsSeq(forks)
    BY DEF TransferInv, ForksInv
  <2>2. /\ IsSeq(forks') /\ Len(forks) \in Nat /\ Len(forks') = Len(forks) + 1
        /\ forks'[Len(forks) + 1] = f
        /\ \A i \in 1..Len(forks) : forks'[i] = forks[i]
    BY <1>1, <1>3, <2>1, AppendFacts
  <2> QED
    BY <2>2
<1>5. ForkShape(f) /\ Progress(f, "import branches") /\ ~f.mapped
  <2>1. p \in 1..Len(packages)
    BY DEF TransferInv, PackagesInv, IsSeq
  <2> QED
    BY <1>3, <2>1 DEF ForkShape, Progress, EmptyFork
<1>6. \A g \in Handlers : g # h /\ call[g].op \in Importing => call[g].fork # k
  BY <1>4 DEF TransferInv, ImportCall
<1>7. /\ AtPhase(c, "import branches", k) /\ ImportsInto(c, k)
      /\ GraphCall(c) /\ ExportCall(c)
  BY <1>2, <1>4 DEF GraphCall, ExportCall, Importing, AtPhase, ImportsInto
<1>8. ImportCall(c)'
  <2>1. Keeps
    BY <1>11 DEF TransferInv, PackagesInv, IsSeq, Keeps
  <2>2. Progress(f, "import branches")'
    BY <1>5, <2>1, ProgressStays
  <2> QED
    BY <1>4, <1>7, <2>2 DEF ImportCall, AtPhase
<1>9. f = forks'[k] /\ (f.mapped => IsWhole(f))
  BY <1>4, <1>5
<1>10. /\ Len(forks) <= Len(forks')
       /\ \A i \in 1..Len(forks') : i # k => i \in 1..Len(forks) /\ forks'[i] = forks[i]
  BY <1>4
<1> QED
  BY <1>11, <1>2, <1>4, <1>5, <1>6, <1>7, <1>8, <1>9, <1>10, ForksChange

\* The phases of an import, in their order.
LEMMA ImportStep ==
  ASSUME TransferInv, NEW h \in Handlers,
         \/ ImportBranch(h) \/ ImportNodes(h) \/ ImportEdges(h) \/ ImportPolicies(h)
         \/ ImportRecord(h) \/ ImportMappings(h)
  PROVE  TransferInv'
<1> DEFINE f == Fork(h)
           p == packages[f.package]
<1>1. ASSUME call[h].op \in Importing
      PROVE  ForkShape(f) /\ Progress(f, call[h].op)
  BY <1>1 DEF TransferInv, ForksInv, ImportCall, Fork
<1>2. Package(h) = p
  BY DEF Package
<1>3. CASE ImportBranch(h)
  <2>1. PICK b, more, result :
            /\ b \in DOMAIN p.heads \ f.branches
            /\ more = f.branches \union {b} /\ result = [f EXCEPT !.branches = more]
            /\ call[h].op = "import branches"
            /\ Phase(h, "import branches",
                     IF more = DOMAIN p.heads THEN "import nodes" ELSE "import branches", result)
    BY <1>2, <1>3 DEF ImportBranch
  <2>2. ForkShape(f) /\ Progress(f, "import branches")
    BY <1>1, <2>1 DEF Importing
  <2>3. ForkShape(result) /\ Progress(result, "import branches")
    BY <2>1, <2>2 DEF ForkShape, Progress
  <2>4. more = DOMAIN p.heads => Progress(result, "import nodes")
    BY <2>1, <2>2 DEF ForkShape, Progress, BranchesIn
  <2>5. CASE more = DOMAIN p.heads
    <3>1. Phase(h, "import branches", "import nodes", result)
      BY <2>1, <2>5
    <3> QED
      BY <2>3, <2>4, <2>5, <3>1, PhaseStep DEF Importing
  <2>6. CASE more # DOMAIN p.heads
    <3>1. Phase(h, "import branches", "import branches", result)
      BY <2>1, <2>6
    <3> QED
      BY <2>3, <3>1, PhaseStep DEF Importing
  <2> QED
    BY <2>5, <2>6
<1>4. CASE ImportNodes(h)
  <2>1. PICK result :
            /\ result = [f EXCEPT !.nodes = {n \in DOMAIN p.nodes : p.nodes[n] \in f.branches}]
            /\ call[h].op = "import nodes"
            /\ Phase(h, "import nodes", "import edges", result)
    BY <1>2, <1>4 DEF ImportNodes
  <2>2. ForkShape(f) /\ Progress(f, "import nodes")
    BY <1>1, <2>1 DEF Importing
  <2>3. \A n \in DOMAIN p.nodes : p.nodes[n] \in DOMAIN p.heads
    BY <2>2 DEF ForkShape, TransferInv, PackagesInv, EdgesRead, NodesRead
  <2>4. f.branches = DOMAIN p.heads
    BY <2>2 DEF Progress, BranchesIn
  <2>5. ForkShape(result) /\ BranchesIn(result) /\ NodesIn(result) /\ ~result.mapped
    BY <2>1, <2>2, <2>3, <2>4 DEF ForkShape, BranchesIn, NodesIn, Progress
  <2>6. Progress(result, "import edges")
    BY <2>5 DEF Progress
  <2> QED
    BY <2>1, <2>5, <2>6, PhaseStep DEF Importing
<1>5. CASE ImportEdges(h)
  <2>1. PICK result :
            /\ result = [f EXCEPT !.edges =
                            {e \in p.edges : e[1] \in f.nodes /\ e[2] \in f.nodes}]
            /\ call[h].op = "import edges"
            /\ Phase(h, "import edges", "import policies", result)
    BY <1>2, <1>5 DEF ImportEdges
  <2>2. ForkShape(f) /\ Progress(f, "import edges")
    BY <1>1, <2>1 DEF Importing
  <2>3. {e \in p.edges : e[1] \in f.nodes /\ e[2] \in f.nodes}
            = {e \in p.edges : {e[1], e[2]} \subseteq f.nodes}
    OBVIOUS
  <2>4. /\ ForkShape(result) /\ result.package = f.package /\ result.branches = f.branches
        /\ result.nodes = f.nodes /\ result.mapped = f.mapped
        /\ result.edges = {e \in p.edges : {e[1], e[2]} \subseteq f.nodes}
    BY <2>1, <2>2, <2>3 DEF ForkShape
  <2>5. Progress(result, "import policies")
    BY <2>2, <2>4 DEF Progress, BranchesIn, NodesIn, EdgesIn
  <2> QED
    BY <2>1, <2>4, <2>5, PhaseStep DEF Importing
<1>6. CASE ImportPolicies(h)
  <2>1. PICK result :
            /\ result = [f EXCEPT !.policies = TRUE] /\ call[h].op = "import policies"
            /\ Phase(h, "import policies", "import record", result)
    BY <1>6 DEF ImportPolicies
  <2>2. ForkShape(f) /\ Progress(f, "import policies")
    BY <1>1, <2>1 DEF Importing
  <2>3. ForkShape(result) /\ Progress(result, "import record")
    BY <2>1, <2>2 DEF ForkShape, Progress, BranchesIn, NodesIn, EdgesIn
  <2> QED
    BY <2>1, <2>3, PhaseStep DEF Importing
<1>7. CASE ImportRecord(h)
  <2>1. PICK result :
            /\ result = [f EXCEPT !.recorded = TRUE] /\ call[h].op = "import record"
            /\ Phase(h, "import record", "import mappings", result)
    BY <1>7 DEF ImportRecord
  <2>2. ForkShape(f) /\ Progress(f, "import record")
    BY <1>1, <2>1 DEF Importing
  <2>3. ForkShape(result) /\ Progress(result, "import mappings")
    BY <2>1, <2>2 DEF ForkShape, Progress, BranchesIn, NodesIn, EdgesIn
  <2> QED
    BY <2>1, <2>3, PhaseStep DEF Importing
<1>8. CASE ImportMappings(h)
  <2>1. PICK result :
            /\ result = [f EXCEPT !.mapped = TRUE] /\ call[h].op = "import mappings"
            /\ Phase(h, "import mappings", "done", result)
    BY <1>8 DEF ImportMappings
  <2>2. ForkShape(f) /\ Progress(f, "import mappings")
    BY <1>1, <2>1 DEF Importing
  <2>3. ForkShape(result) /\ IsWhole(result)
    BY <2>1, <2>2 DEF ForkShape, Progress, IsWhole, BranchesIn, NodesIn, EdgesIn
  <2> QED
    BY <2>1, <2>3, PhaseStep DEF Importing
<1> QED
  BY <1>3, <1>4, <1>5, <1>6, <1>7, <1>8

LEMMA TransferStart == TransferInit => TransferInv
<1> SUFFICES ASSUME TransferInit
             PROVE  TransferInv
  OBVIOUS
<1>1. GraphInv /\ packages = <<>> /\ forks = <<>> /\ \A h \in Handlers : call[h] = Idle
  BY GraphStart DEF TransferInit, GraphInit
<1>2. PackagesInv
  BY <1>1 DEF PackagesInv, IsSeq
<1>3. ForksInv
  BY <1>1, IdleCalls DEF ForksInv, IsSeq, MappedForkIsWhole
<1>4. ImportCall(Idle)
  BY IdleCalls DEF ImportCall
<1> QED
  BY <1>1, <1>2, <1>3, <1>4, IdleCalls DEF TransferInv

LEMMA StillCalls ==
  ASSUME TransferInv, GraphInv', Grows, UNCHANGED call, UNCHANGED <<packages, forks>>
  PROVE  TransferInv'
<1>1. PackagesInv' /\ Keeps
  BY NothingAdded DEF GraphInv
<1>2. ASSUME NEW h \in Handlers
      PROVE  (GraphCall(call[h]) /\ ExportCall(call[h]))'
  <2>1. PICK c : c = call[h] /\ c = call'[h]
    OBVIOUS
  <2>2. GraphCall(c) /\ ExportCall(c)
    BY <2>1 DEF TransferInv
  <2>3. GraphCall(c)' /\ ExportCall(c)'
    BY <1>1, <2>2, CallsStay DEF TransferInv, GraphInv
  <2> QED
    BY <2>1, <2>3
<1>3. ForksInv' /\ \A h \in Handlers : ImportCall(call[h])'
  BY DEF TransferInv, ForksInv, ImportCall, ForkShape, Progress, BranchesIn, NodesIn, EdgesIn,
         MappedForkIsWhole
<1> QED
  BY <1>1, <1>2, <1>3 DEF TransferInv

LEMMA TransferStep == TransferInv /\ [TransferNext]_vars => TransferInv'
<1> SUFFICES ASSUME TransferInv, [TransferNext]_vars
             PROVE  TransferInv'
  OBVIOUS
<1>1. CASE UNCHANGED vars
  <2>1. UNCHANGED graph /\ UNCHANGED call /\ UNCHANGED <<packages, forks>>
    BY <1>1 DEF vars, transfer
  <2>2. GraphInv' /\ Grows
    <3>1. call' = [g \in Handlers |-> call'[g]]
      BY <2>1 DEF TransferInv, GraphInv, Shapes
    <3> QED
      BY <2>1, <3>1, GraphStays DEF TransferInv
  <2> QED
    BY <2>1, <2>2, StillCalls
<1>2. ASSUME NEW h \in Handlers, UNCHANGED transfer,
             BeginFork(h) \/ FinishFork(h) \/ BeginCommit(h) \/ WriteCommit(h) \/ RefuseCommit(h)
      PROVE  TransferInv'
  BY <1>2, GraphStep
<1>3. ASSUME NEW n \in Stored, UNCHANGED transfer, MarkAtRisk(n) \/ MarkQuarantined(n)
      PROVE  TransferInv'
  <2>1. GraphInv' /\ Grows /\ UNCHANGED call /\ UNCHANGED <<packages, forks>>
    BY <1>3, MarkStep DEF TransferInv, transfer
  <2> QED
    BY <2>1, StillCalls
<1> QED
  BY <1>1, <1>2, <1>3, ExportStep, StoreStep, BeginStep, ImportStep DEF TransferNext, GraphNext

LEMMA TransferInvariant == TransferSpec => []TransferInv
BY TransferStart, TransferStep, PTL DEF TransferSpec

(***************************************************************************)
(* The theorems                                                            *)
(***************************************************************************)
\* Whichever handlers race to commit, a branch is one chain of as many nodes as its version
\* counts (commit, update_head).
THEOREM BranchesStayChains == TransferSpec => []BranchesAreChains
<1>1. ASSUME GraphInv
      PROVE  BranchesAreChains
  <2>1. ASSUME NEW b \in Born, NEW n \in OwnNodes(b)
        PROVE  Cardinality(Upstream(n)) <= 1
    <3>1. \A u, v \in Upstream(n) : u = v
      <4>1. ASSUME NEW u \in Upstream(n), NEW v \in Upstream(n)
            PROVE  u = v
        <5>1. <<u, n>> \in edges /\ <<v, n>> \in edges
          BY DEF Upstream
        <5>2. <<u, n>> = <<v, n>>
          BY <1>1, <5>1 DEF GraphInv, EdgesAreSound
        <5> QED
          BY <5>2
      <4> QED
        BY <4>1
    <3>2. CASE Upstream(n) = {}
      BY <3>2, FS_EmptySet
    <3>3. CASE Upstream(n) # {}
      <4>1. PICK u : Upstream(n) = {u}
        BY <3>1, <3>3
      <4>2. Cardinality({u}) = 1
        BY FS_Singleton
      <4> QED
        BY <4>1, <4>2
    <3> QED
      BY <3>2, <3>3
  <2> QED
    BY <1>1, <2>1 DEF GraphInv, IsChain, Inner, BranchesAreChains
<1>2. TransferInv => BranchesAreChains
  BY <1>1 DEF TransferInv
<1> QED
  BY <1>2, TransferInvariant, PTL

\* Whatever is still committed is a head, and nothing is superseded without a successor
\* (mark_superseded).
THEOREM LiveNodesStayHeads == TransferSpec => []LiveNodesAreHeads
<1>1. TransferInv => LiveNodesAreHeads
  BY DEF TransferInv, GraphInv
<1> QED
  BY <1>1, TransferInvariant, PTL

\* A package read in pieces while others commit and fork holds the heads of its branches and
\* every predecessor of its nodes (TransferExporter.export).
THEOREM PackagesStayClosed == TransferSpec => []PackagesAreClosed
<1>1. ASSUME TransferInv
      PROVE  PackagesAreClosed
  <2>1. ASSUME NEW i \in DOMAIN packages
        PROVE  EdgesRead(packages[i].heads, packages[i].nodes, packages[i].edges)
    BY <1>1 DEF TransferInv, PackagesInv, IsSeq
  <2> QED
    BY <2>1 DEF EdgesRead, NodesRead, Upstream, PackagesAreClosed
<1> QED
  BY <1>1, TransferInvariant, PTL

\* A package numbered after another was stored has the larger number.
THEOREM SequenceGrowsWithStore == TransferSpec => []SequenceFollowsStore
<1>1. ASSUME TransferInv
      PROVE  SequenceFollowsStore
  <2>1. ASSUME NEW i \in DOMAIN packages
        PROVE  Numbered(packages[i], i - 1) /\ i \in Nat
    BY <1>1 DEF TransferInv, PackagesInv, IsSeq
  <2> QED
    BY <2>1 DEF Numbered, SequenceFollowsStore
<1> QED
  BY <1>1, TransferInvariant, PTL

\* Whoever finds the mappings of an import finds the whole package (import_as_fork).
THEOREM MappedForksAreWhole == TransferSpec => []MappedForkIsWhole
<1>1. TransferInv => MappedForkIsWhole
  BY DEF TransferInv, ForksInv
<1> QED
  BY <1>1, TransferInvariant, PTL

=============================================================================
