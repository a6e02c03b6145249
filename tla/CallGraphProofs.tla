--------------------------- MODULE CallGraphProofs ---------------------------
(* Proofs about the call graph, for any functions, stacks of any depth and  *)
(* any number of updates: who owns which node, that the graph holds the     *)
(* call paths it was given, each once, and what arrives of it in either of  *)
(* the forms in which it travels.                                           *)
EXTENDS CallGraphTransfer, TLAPS, SequenceTheorems, WellFoundedInduction

(***************************************************************************)
(* The inductive invariant.  The siblings under a caller are numbered by   *)
(* "order", so that the merge, which goes along them, has passed those of  *)
(* a lower number when it stands at one; and every caller on a call path   *)
(* has a node of its own.                                                  *)
(***************************************************************************)

TableInv == \A i, j \in 1 .. Len(ft) : ft[i] = ft[j] => i = j

ChainInv ==
  /\ \A j, k \in 1 .. Len(chain) : chain[j] = chain[k] => j = k
  /\ pc = "running" => chain = <<>>
  /\ pc # "running" => Len(chain) <= MaxFrames
  /\ pc = "walk" => Len(frames) + Len(chain) \in 1 .. MaxFrames
  /\ pc \in {"merge", "delete"} => chain # <<>> /\ graph # Null

Callers ==
  \A n \in Graph : \A k \in 1 .. Len(path[n]) :
    \E m \in Graph : Len(path[m]) = k /\ \A j \in 1 .. k : path[m][j] = path[n][j]

OrderInv ==
  /\ \A n \in Graph : order[n] >= 1
  /\ graph # Null => order[graph] = 1
  /\ \A m, n \in Graph : Siblings(m, n) /\ order[m] = order[n] => m = n
  /\ \A m, n \in Graph : heap[n].sibling = Null /\ Siblings(m, n) => order[m] <= order[n]
  /\ \A m, n \in Graph : heap[n].child = Null => ~Below(m, n)

TreeInv == GraphIsATree /\ CallPathsOccurOnce /\ Callers /\ OrderInv

MergeInv ==
  pc = "merge" =>
    /\ curr \in Graph /\ depth \in 1 .. Len(chain) + 1 /\ Len(path[curr]) = depth
    /\ \A j \in 1 .. depth - 1 : path[curr][j] = NameOf(chain[j])
    /\ \A k \in 1 .. depth - 1 : StackPath(k) \in Paths
    /\ depth <= Len(chain) =>
         \A m \in Graph : Siblings(m, curr) /\ order[m] < order[curr] =>
                            heap[m].symbol # heap[chain[depth]].symbol

Inv ==
  /\ TypeOK /\ NodesHaveOneOwner /\ TableInv /\ ChainInv /\ TreeInv /\ MergeInv /\ StackIsMerged

-----------------------------------------------------------------------------
(* Names and symbols.                                                      *)

LEMMA HeapTypes ==
  ASSUME TypeOK
  PROVE  /\ \A n \in DOMAIN heap : /\ n \in Nat /\ n >= 1 /\ n <= mallocs
                                   /\ heap[n].symbol \in {-1} \cup 1 .. Len(ft)
                                   /\ heap[n].child \in Nodes \cup {Null}
                                   /\ heap[n].sibling \in Nodes \cup {Null}
                                   /\ heap[n] = [symbol |-> heap[n].symbol, child |-> heap[n].child,
                                                 sibling |-> heap[n].sibling]
         /\ \A n \in Graph : path[n] \in Seq(Names) /\ order[n] \in Nat /\ n <= mallocs
         /\ mallocs \in Nat /\ Len(ft) \in Nat /\ Len(chain) \in Nat
         /\ \A i \in 1 .. Len(ft) : ft[i] \in Functions
         /\ \A k \in 1 .. Len(chain) : chain[k] \in Nodes
<1>1. \A n \in DOMAIN heap : heap[n] \in Node
  BY DEF TypeOK
<1>2. \A n \in Graph : path[n] \in Seq(Names) /\ order[n] \in Nat
  BY DEF TypeOK, Graph
<1>3. DOMAIN heap \subseteq 1 .. mallocs /\ Graph \subseteq 1 .. mallocs /\ mallocs \in Nat
  BY DEF TypeOK, Graph, Nodes
<1>4. Len(ft) \in Nat /\ Len(chain) \in Nat /\ \A i \in 1 .. Len(ft) : ft[i] \in Functions
  BY DEF TypeOK
<1>5. \A k \in 1 .. Len(chain) : chain[k] \in Nodes
  BY DEF TypeOK
<1> QED BY <1>1, <1>2, <1>3, <1>4, <1>5 DEF Node

LEMMA NameIsKnown ==
  ASSUME TypeOK, NEW n \in DOMAIN heap
  PROVE  NameOf(n) \in Names /\ (NameOf(n) = NoFunction <=> heap[n].symbol = -1)
BY HeapTypes, CallGraphAssumption DEF NameOf, Names

\* The table has every name once: comparing symbols is comparing names.
LEMMA SymbolsAreNames ==
  ASSUME TypeOK, TableInv, NEW m \in DOMAIN heap, NEW n \in DOMAIN heap
  PROVE  heap[m].symbol = heap[n].symbol <=> NameOf(m) = NameOf(n)
<1>1. CASE heap[m].symbol = -1 \/ heap[n].symbol = -1
  BY <1>1, NameIsKnown
<1>2. CASE heap[m].symbol # -1 /\ heap[n].symbol # -1
  BY <1>2, HeapTypes DEF NameOf, TableInv
<1> QED BY <1>1, <1>2

LEMMA StackIsAllocated ==
  ASSUME TypeOK, NodesHaveOneOwner
  PROVE  \A k \in 1 .. Len(chain) : chain[k] \in DOMAIN heap /\ chain[k] \in Stack /\ chain[k] \notin Graph
BY DEF NodesHaveOneOwner, Stack

LEMMA StackPathIs ==
  ASSUME TypeOK, NodesHaveOneOwner, NEW k \in 0 .. Len(chain)
  PROVE  /\ StackPath(k) \in Seq(Names) /\ Len(StackPath(k)) = k
         /\ \A j \in 1 .. k : StackPath(k)[j] = NameOf(chain[j])
<1>1. k \in Nat /\ \A j \in 1 .. k : NameOf(chain[j]) \in Names
  BY HeapTypes, StackIsAllocated, NameIsKnown
<1>2. StackPath(k) \in [1 .. k -> Names]
  BY <1>1 DEF StackPath
<1> QED BY <1>1, <1>2 DEF StackPath

LEMMA SamePath ==
  ASSUME NEW S, NEW s \in Seq(S), NEW t \in Seq(S), Len(s) = Len(t), \A j \in 1 .. Len(s) : s[j] = t[j]
  PROVE  s = t
OBVIOUS

\* FT_add and the symbol that it returns
LEMMA TableStep ==
  ASSUME TypeOK, TableInv, NEW f \in Names, ft' = FT_add(f)
  PROVE  /\ ft' \in Seq(Functions) /\ TableInv' /\ Len(ft') >= Len(ft)
         /\ \A i \in 1 .. Len(ft) : ft'[i] = ft[i]
         /\ Symbol(f, ft') \in {-1} \cup 1 .. Len(ft')
<1>1. ft \in Seq(Functions) /\ Len(ft) \in Nat
  BY DEF TypeOK
<1>2. CASE f = NoFunction
  BY <1>1, <1>2 DEF FT_add, Symbol, TableInv
<1>3. CASE f # NoFunction /\ \E i \in 1 .. Len(ft) : ft[i] = f
  <2>1. ft' = ft
    BY <1>3 DEF FT_add
  <2>2. PICK i \in 1 .. Len(ft') : ft'[i] = f
    BY <1>3, <2>1
  <2>3. \A j \in 1 .. i - 1 : ft'[j] # f
    BY <1>1, <2>1, <2>2 DEF TableInv
  <2>4. Symbol(f, ft') \in 1 .. Len(ft')
    BY <1>3, <2>2, <2>3 DEF Symbol
  <2> QED BY <1>1, <2>1, <2>4 DEF TableInv
<1>4. CASE f # NoFunction /\ ~\E i \in 1 .. Len(ft) : ft[i] = f
  <2>1. ft' = Append(ft, f) /\ f \in Functions
    BY <1>4 DEF FT_add, Names
  <2>2. /\ ft' \in Seq(Functions) /\ Len(ft') = Len(ft) + 1 /\ ft'[Len(ft) + 1] = f
        /\ \A i \in 1 .. Len(ft) : ft'[i] = ft[i]
    BY <1>1, <2>1
  <2>3. TableInv'
    BY <1>1, <1>4, <2>2 DEF TableInv
  <2>4. \A j \in 1 .. Len(ft') - 1 : ft'[j] # f
    BY <1>1, <1>4, <2>2
  <2>5. Len(ft') \in 1 .. Len(ft') /\ ft'[Len(ft')] = f
    BY <1>1, <2>2
  <2>6. Symbol(f, ft') \in 1 .. Len(ft')
    BY <1>4, <2>4, <2>5 DEF Symbol
  <2> QED BY <1>1, <2>2, <2>3, <2>6
<1> QED BY <1>2, <1>3, <1>4 DEF FT_add

-----------------------------------------------------------------------------
(* Steps that leave the graph alone.                                       *)

LEMMA TreeStays ==
  ASSUME TreeInv, path' = path, order' = order, graph' = graph,
         \A n \in Graph : heap'[n] = heap[n] /\ NameOf(n)' = NameOf(n)
  PROVE  TreeInv'
<1>1. Graph' = Graph /\ Paths' = Paths
  BY DEF Graph, Paths
<1>2. \A m, n : (Siblings(m, n)' <=> Siblings(m, n)) /\ (Below(m, n)' <=> Below(m, n))
  BY DEF Siblings, Below
<1>3. GraphIsATree'
  BY <1>1, <1>2 DEF TreeInv, GraphIsATree
<1>4. CallPathsOccurOnce' /\ Callers'
  BY <1>1 DEF TreeInv, CallPathsOccurOnce, Callers
<1>5. OrderInv'
  BY <1>1, <1>2 DEF TreeInv, OrderInv
<1> QED BY <1>3, <1>4, <1>5 DEF TreeInv

LEMMA InterruptStep ==
  ASSUME Inv, NEW s \in Stacks, Interrupt(s) PROVE Inv'
<1> USE DEF Inv, Interrupt
<1>1. s \in Seq(Frames) /\ Len(s) \in 1 .. MaxFrames
  BY CallGraphAssumption DEF Stacks
<1>2. TypeOK'
  BY <1>1 DEF TypeOK, Nodes, Node
<1>3. chain = <<>> /\ chain' = <<>>
  BY DEF ChainInv
<1>4. NodesHaveOneOwner'
  BY <1>3 DEF NodesHaveOneOwner, Graph, Stack
<1>5. ChainInv'
  <2>1. Len(chain') = 0 /\ 1 .. Len(chain') = {} /\ Len(frames') + Len(chain') = Len(s)
    BY <1>1, <1>3
  <2>2. Len(chain') <= MaxFrames /\ Len(frames') + Len(chain') \in 1 .. MaxFrames
    BY <1>1, <2>1, CallGraphAssumption
  <2>3. pc' = "walk"
    OBVIOUS
  <2> QED BY <1>3, <2>1, <2>2, <2>3 DEF ChainInv
<1>6. TreeInv'
  BY TreeStays DEF NameOf
<1> QED BY <1>2, <1>4, <1>5, <1>6 DEF TableInv, MergeInv, StackIsMerged

\* The measurer ends with its graph and its stack as they are.
LEMMA WalkExitsStep ==
  ASSUME Inv, WalkExits PROVE Inv'
<1> USE DEF Inv, WalkExits
<1>1. TypeOK'
  BY DEF TypeOK, Nodes, Node
<1>2. NodesHaveOneOwner'
  BY DEF NodesHaveOneOwner, Graph, Stack
<1>3. ChainInv'
  <2>1. Len(chain') <= MaxFrames /\ pc' = "exited"
    BY DEF ChainInv
  <2> QED BY <2>1 DEF ChainInv
<1>4. TreeInv'
  BY TreeStays DEF NameOf
<1> QED BY <1>1, <1>2, <1>3, <1>4 DEF TableInv, MergeInv, StackIsMerged

\* One more frame: a node that nothing knows yet, in front of the others
LEMMA WalkStep ==
  ASSUME Inv, WalkFrame PROVE Inv'
<1> USE DEF Inv
<1> DEFINE f == Head(frames)
           n == mallocs + 1
<1>1. /\ pc = "walk" /\ frames # <<>> /\ ft' = FT_add(f) /\ mallocs' = n
      /\ heap' = [x \in DOMAIN heap \cup {n} |->
                    IF x = n THEN [symbol |-> Symbol(f, ft'), child |-> Head1, sibling |-> Null]
                             ELSE heap[x]]
      /\ chain' = <<n>> \o chain /\ frames' = Tail(frames)
      /\ UNCHANGED <<updates, graph, pc, curr, depth, path, order>>
  BY DEF WalkFrame
<1>2. f \in Names /\ frames \in Seq(Frames) /\ Tail(frames) \in Seq(Frames) /\ Len(Tail(frames)) = Len(frames) - 1
  <2>1. frames \in Seq(Frames) /\ frames # <<>> /\ f # Special
    BY <1>1 DEF TypeOK, WalkFrame
  <2>2. f \in Frames /\ Tail(frames) \in Seq(Frames) /\ Len(Tail(frames)) = Len(frames) - 1
    BY <2>1
  <2> QED BY <2>1, <2>2 DEF Frames
<1> HIDE DEF f
<1>3. /\ ft' \in Seq(Functions) /\ TableInv' /\ Len(ft') >= Len(ft) /\ Len(ft) \in Nat /\ Len(ft') \in Nat
      /\ \A i \in 1 .. Len(ft) : ft'[i] = ft[i]
      /\ Symbol(f, ft') \in {-1} \cup 1 .. Len(ft')
  BY <1>1, <1>2, TableStep DEF TypeOK
<1>4. /\ n \notin DOMAIN heap /\ n \notin Graph /\ n \in Nat /\ n # Null /\ n \notin Stack
      /\ mallocs \in Nat /\ Len(chain) \in Nat /\ chain \in Seq(Nodes)
  BY HeapTypes DEF TypeOK, Nodes, Null, Stack
<1>5. /\ chain' \in Seq(1 .. n) /\ Len(chain') = Len(chain) + 1 /\ chain'[1] = n
      /\ \A k \in 1 .. Len(chain) : chain'[k + 1] = chain[k]
      /\ \A k \in 2 .. Len(chain') : chain'[k] = chain[k - 1]
  BY <1>1, <1>4 DEF Nodes
<1> HIDE DEF n
<1>6. Head1 \in Nodes \cup {Null} /\ Head1 = (IF Len(chain') = 1 THEN Null ELSE chain'[2])
  BY <1>4, <1>5 DEF Head1
<1>7. \A x \in DOMAIN heap : heap'[x] = heap[x] /\ NameOf(x)' = NameOf(x)
  BY <1>1, <1>3, <1>4, HeapTypes DEF NameOf
<1>8. TypeOK'
  <2>1. heap' \in [DOMAIN heap' -> Node'] /\ DOMAIN heap' \subseteq Nodes'
    <3>1. DOMAIN heap' = DOMAIN heap \cup {n} /\ Nodes' = 1 .. n /\ n = mallocs + 1
      BY <1>1 DEF Nodes, n
    <3>2. heap'[n] \in Node'
      BY <1>1, <1>3, <1>4, <1>6, <3>1 DEF Node, Nodes
    <3>3. ASSUME NEW x \in DOMAIN heap PROVE heap'[x] \in Node' /\ x \in 1 .. n
      <4>1. x \in 1 .. mallocs /\ heap[x] \in Node
        BY DEF TypeOK, Nodes
      <4>2. Node \subseteq Node'
        <5>1. {-1} \cup 1 .. Len(ft) \subseteq {-1} \cup 1 .. Len(ft')
          BY <1>3
        <5> HIDE DEF Inv
        <5>2. 1 .. mallocs \subseteq 1 .. n
          BY <1>4, <3>1
        <5>3. Nodes \cup {Null} \subseteq Nodes' \cup {Null}
          BY <3>1, <5>2 DEF Nodes
        <5> QED BY <5>1, <5>3 DEF Node
      <4>3. heap'[x] \in Node'
        BY <1>7, <4>1, <4>2
      <4>4. x \in 1 .. n
        BY <1>4, <3>1, <4>1
      <4> QED BY <4>3, <4>4
    <3>4. \A x \in DOMAIN heap' : heap'[x] \in Node' /\ x \in 1 .. n
      BY <1>4, <3>1, <3>2, <3>3
    <3>5. heap' = [x \in DOMAIN heap' |-> heap'[x]]
      BY <1>1
    <3> HIDE DEF Inv
    <3> QED BY <3>1, <3>4, <3>5
  <2>2. Nodes \subseteq Nodes' /\ mallocs' \in Nat /\ Nodes' = 1 .. n
    BY <1>1, <1>4 DEF Nodes, n
  <2>3. graph' \in Nodes' \cup {Null} /\ curr' \in Nodes' \cup {Null} /\ DOMAIN path' \subseteq Nodes'
    BY <1>1, <2>2 DEF TypeOK
  <2> QED BY <1>1, <1>2, <1>3, <1>5, <2>1, <2>2, <2>3 DEF TypeOK
<1>9. NodesHaveOneOwner'
  <2>1. Graph' = Graph /\ DOMAIN heap' = DOMAIN heap \cup {n} /\ Stack' = Stack \cup {n}
    <3>1. Graph' = Graph /\ DOMAIN heap' = DOMAIN heap \cup {n}
      BY <1>1 DEF Graph
    <3>2. \A k \in 1 .. Len(chain') : k = 1 \/ (k \in 2 .. Len(chain') /\ k - 1 \in 1 .. Len(chain))
      BY <1>4, <1>5
    <3>2a. \A k \in 1 .. Len(chain') : chain'[k] \in Stack \cup {n}
      BY <1>5, <3>2 DEF Stack
    <3>2b. Stack' \subseteq Stack \cup {n}
      BY <3>2a DEF Stack
    <3>3. Stack \cup {n} \subseteq Stack'
      <4>1. n \in Stack'
        BY <1>4, <1>5 DEF Stack
      <4>2. \A k \in 1 .. Len(chain) : k + 1 \in 1 .. Len(chain')
        BY <1>4, <1>5
      <4>3. Stack \subseteq Stack'
        BY <1>5, <4>2 DEF Stack
      <4> QED BY <4>1, <4>3
    <3> QED BY <3>1, <3>2b, <3>3
  <2>2. \A x \in Graph : {heap'[x].child, heap'[x].sibling} \subseteq Graph \cup {Null}
    BY <1>7 DEF NodesHaveOneOwner
  <2>3. ASSUME NEW k \in 1 .. Len(chain')
        PROVE  /\ heap'[chain'[k]].child = (IF k = Len(chain') THEN Null ELSE chain'[k + 1])
               /\ heap'[chain'[k]].sibling = Null
    <3>1. CASE k = 1
      BY <1>1, <1>4, <1>5, <1>6, <3>1
    <3>2. CASE k # 1
      <4>1. k - 1 \in 1 .. Len(chain) /\ chain'[k] = chain[k - 1] /\ chain[k - 1] \in DOMAIN heap
        BY <1>4, <1>5, <3>2, StackIsAllocated
      <4>2. k # Len(chain') => k \in 1 .. Len(chain) /\ chain'[k + 1] = chain[k] /\ k - 1 # Len(chain)
        BY <1>4, <1>5, <3>2
      <4>3. /\ heap[chain[k - 1]].child = (IF k - 1 = Len(chain) THEN Null ELSE chain[(k - 1) + 1])
            /\ heap[chain[k - 1]].sibling = Null
        BY <4>1 DEF NodesHaveOneOwner
      <4>4. k = Len(chain') <=> k - 1 = Len(chain)
        BY <1>4, <1>5
      <4>5. (k - 1) + 1 = k
        OBVIOUS
      <4> QED BY <1>7, <4>1, <4>2, <4>3, <4>4, <4>5
    <3> QED BY <3>1, <3>2
  <2> QED BY <1>1, <1>4, <2>1, <2>2, <2>3 DEF NodesHaveOneOwner
<1>10. ChainInv'
  <2>1. ASSUME NEW j \in 1 .. Len(chain'), NEW k \in 1 .. Len(chain'), chain'[j] = chain'[k] PROVE j = k
    <3>1. \A i \in 2 .. Len(chain') : i - 1 \in 1 .. Len(chain) /\ chain'[i] = chain[i - 1] /\ chain'[i] # n
      BY <1>4, <1>5 DEF Stack
    <3>2. CASE j = 1 \/ k = 1
      BY <1>5, <2>1, <3>1, <3>2
    <3>3. CASE j # 1 /\ k # 1
      BY <2>1, <3>1, <3>3 DEF ChainInv
    <3> QED BY <3>2, <3>3
  <2>2. Len(frames') + Len(chain') = Len(frames) + Len(chain) /\ Len(frames') \in Nat
    BY <1>1, <1>2, <1>4, <1>5
  <2> QED BY <1>1, <1>4, <1>5, <2>1, <2>2, CallGraphAssumption DEF ChainInv
<1>11. TreeInv'
  BY <1>1, <1>7, TreeStays DEF NodesHaveOneOwner
<1> QED BY <1>1, <1>3, <1>8, <1>9, <1>10, <1>11 DEF MergeInv, StackIsMerged

\* The first stack becomes the graph: a tree without branches.
LEMMA KeepStep ==
  ASSUME Inv, KeepStack
  PROVE  Inv' /\ Paths = {} /\ Paths' = {StackPath(k) : k \in 1 .. Len(chain)}
<1> USE DEF Inv
<1>1. /\ pc = "walk" /\ frames = <<>> /\ graph = Null /\ graph' = chain[1] /\ chain' = <<>> /\ pc' = "running"
      /\ path' = [n \in {chain[k] : k \in 1 .. Len(chain)} |->
                    StackPath(CHOOSE k \in 1 .. Len(chain) : chain[k] = n)]
      /\ order' = [n \in DOMAIN path' |-> 1]
      /\ UNCHANGED <<heap, mallocs, updates, ft, frames, curr, depth>>
  BY DEF KeepStack
<1>2. Graph = {} /\ Len(chain) \in 1 .. MaxFrames
  BY <1>1 DEF TreeInv, GraphIsATree, ChainInv
<1>3. Graph' = Stack /\ \A k \in 1 .. Len(chain) : path'[chain[k]] = StackPath(k) /\ order'[chain[k]] = 1
  <2>1. ASSUME NEW k \in 1 .. Len(chain) PROVE (CHOOSE j \in 1 .. Len(chain) : chain[j] = chain[k]) = k
    BY DEF ChainInv
  <2> QED BY <1>1, <2>1 DEF Graph, Stack
<1>4. \A n \in Stack : \E k \in 1 .. Len(chain) : n = chain[k]
  BY DEF Stack
<1>5. \A k \in 1 .. Len(chain) : /\ Len(StackPath(k)) = k /\ StackPath(k) \in Seq(Names)
                                 /\ \A j \in 1 .. k : StackPath(k)[j] = NameOf(chain[j])
  BY StackPathIs, <1>2
<1>6. /\ \A n : NameOf(n)' = NameOf(n)
      /\ \A k \in 1 .. Len(chain) :
           /\ heap'[chain[k]].child = (IF k = Len(chain) THEN Null ELSE chain[k + 1])
           /\ heap'[chain[k]].sibling = Null
           /\ chain[k] \in DOMAIN heap /\ chain[k] \in Nodes /\ chain[k] # Null
  BY <1>1, StackIsAllocated, HeapTypes DEF NameOf, NodesHaveOneOwner, Nodes, Null
<1>7. TypeOK'
  <2>1. DOMAIN path' \subseteq Nodes' /\ path' \in [DOMAIN path' -> Seq(Names)] /\ order' \in [DOMAIN path' -> Nat]
    BY <1>1, <1>3, <1>4, <1>5, <1>6 DEF Graph, Nodes
  <2>2. graph' \in Nodes' \cup {Null}
    BY <1>1, <1>2, <1>6 DEF Nodes
  <2>3. chain' \in Seq(Nodes')
    BY <1>1
  <2>4. Nodes' = Nodes /\ Node' = Node
    BY <1>1 DEF Nodes, Node
  <2> QED BY <1>1, <2>1, <2>2, <2>3, <2>4 DEF TypeOK
<1>8. NodesHaveOneOwner'
  <2>1. DOMAIN heap' = Graph' /\ Stack' = {}
    BY <1>1, <1>2, <1>3 DEF NodesHaveOneOwner, Stack
  <2>2. ASSUME NEW n \in Graph' PROVE {heap'[n].child, heap'[n].sibling} \subseteq Graph' \cup {Null}
    <3>1. PICK k \in 1 .. Len(chain) : n = chain[k]
      BY <1>3, <1>4, <2>2
    <3>2. k # Len(chain) => chain[k + 1] \in Stack
      BY <1>2 DEF Stack
    <3> QED BY <1>3, <1>6, <3>1, <3>2
  <2> QED BY <1>1, <2>1, <2>2 DEF NodesHaveOneOwner
<1>9. ChainInv'
  BY <1>1 DEF ChainInv
<1>10. TreeInv'
  <2>0. 1 \in 1 .. Len(chain)
    BY <1>2, CallGraphAssumption
  <2>1. graph' # Null /\ graph' \in Graph' /\ Len(path'[graph']) = 1
    <3>1. chain[1] \in Stack
      BY <2>0 DEF Stack
    <3>2. path'[chain[1]] = StackPath(1) /\ Len(StackPath(1)) = 1 /\ chain[1] # Null
      BY <1>3, <1>5, <1>6, <2>0
    <3> QED BY <1>1, <1>3, <3>1, <3>2
  <2>2. ASSUME NEW n \in Graph'
        PROVE  /\ path'[n] # <<>> /\ path'[n][Len(path'[n])] = NameOf(n)'
               /\ heap'[n].child # Null => Below(heap[n].child, n)' /\ order'[heap'[n].child] = 1
               /\ heap'[n].sibling = Null /\ order'[n] = 1
               /\ n # graph' => \E m \in Graph' : n \in {heap'[m].child, heap'[m].sibling}
    <3>1. PICK k \in 1 .. Len(chain) : n = chain[k]
      BY <1>3, <1>4, <2>2
    <3>2. path'[n] = StackPath(k) /\ Len(path'[n]) = k /\ path'[n] # <<>> /\ path'[n][k] = NameOf(n)
      BY <1>3, <1>5, <3>1
    <3>3. ASSUME heap'[n].child # Null PROVE Below(heap[n].child, n)' /\ order'[heap'[n].child] = 1
      <4>1. k + 1 \in 1 .. Len(chain) /\ heap'[n].child = chain[k + 1]
        BY <1>2, <1>6, <3>1, <3>3
      <4>2. path'[chain[k + 1]] = StackPath(k + 1) /\ path'[n] = StackPath(k) /\ order'[chain[k + 1]] = 1
        BY <1>3, <3>2, <4>1
      <4>3. Len(StackPath(k + 1)) = k + 1 /\ Len(StackPath(k)) = k
        BY <1>5, <4>1
      <4>4. \A j \in 1 .. k : j \in 1 .. k + 1
        BY <1>2
      <4>5. \A j \in 1 .. k : StackPath(k + 1)[j] = StackPath(k)[j]
        BY <1>5, <4>1, <4>4
      <4>6. heap[n].child = chain[k + 1]
        BY <1>1, <4>1
      <4> QED BY <4>1, <4>2, <4>3, <4>5, <4>6 DEF Below
    <3>4. ASSUME n # graph' PROVE \E m \in Graph' : n \in {heap'[m].child, heap'[m].sibling}
      <4>1. k # 1
        BY <1>1, <3>1, <3>4
      <4>2. k - 1 \in 1 .. Len(chain) /\ k - 1 # Len(chain) /\ (k - 1) + 1 = k
        BY <1>2, <4>1
      <4>3. heap'[chain[k - 1]].child = n
        BY <1>6, <3>1, <4>2
      <4>4. chain[k - 1] \in Graph'
        BY <1>3, <4>2 DEF Stack
      <4> QED BY <4>3, <4>4
    <3> QED BY <1>3, <1>6, <3>1, <3>2, <3>3, <3>4
  <2>3. \A m, n \in Graph' : Len(path'[m]) = Len(path'[n]) => m = n
    BY <1>3, <1>4, <1>5
  <2>4. GraphIsATree'
    BY <1>1, <2>1, <2>2 DEF GraphIsATree
  <2>5. CallPathsOccurOnce'
    BY <2>3 DEF CallPathsOccurOnce
  <2>6. Callers'
    <3>1. ASSUME NEW n \in Graph', NEW k \in 1 .. Len(path'[n])
          PROVE  \E m \in Graph' : Len(path'[m]) = k /\ \A j \in 1 .. k : path'[m][j] = path'[n][j]
      <4>1. PICK i \in 1 .. Len(chain) : n = chain[i]
        BY <1>3, <1>4, <3>1
      <4>2. k \in 1 .. Len(chain) /\ k <= i
        BY <1>2, <1>3, <1>5, <3>1, <4>1
      <4>3. chain[k] \in Graph' /\ Len(path'[chain[k]]) = k
        BY <1>3, <1>5, <4>2 DEF Stack
      <4>4. \A j \in 1 .. k : path'[chain[k]][j] = path'[n][j]
        BY <1>2, <1>3, <1>5, <4>1, <4>2
      <4> QED BY <4>3, <4>4
    <3> QED BY <3>1 DEF Callers
  <2>7. OrderInv'
    <3>1. \A m, n \in Graph' : Siblings(m, n)' => m = n
      BY <2>3 DEF Siblings
    <3>2. \A m, n \in Graph' : heap'[n].child = Null => ~Below(m, n)'
      <4>1. ASSUME NEW m \in Graph', NEW n \in Graph', heap'[n].child = Null, Below(m, n)' PROVE FALSE
        <5>1. PICK k \in 1 .. Len(chain) : n = chain[k]
          BY <1>3, <1>4, <4>1
        <5>2. PICK i \in 1 .. Len(chain) : m = chain[i]
          BY <1>3, <1>4, <4>1
        <5>3. i = k + 1
          BY <1>3, <1>5, <4>1, <5>1, <5>2 DEF Below
        <5>4. k # Len(chain) /\ chain[k + 1] # Null
          BY <1>2, <1>6, <5>2, <5>3
        <5> QED BY <1>6, <4>1, <5>1, <5>4
      <4> QED BY <4>1
    <3>3. order'[graph'] = 1 /\ \A n \in Graph' : order'[n] >= 1
      BY <2>1, <2>2
    <3> QED BY <2>2, <3>1, <3>2, <3>3 DEF OrderInv
  <2> QED BY <2>4, <2>5, <2>6, <2>7 DEF TreeInv
<1>11. Inv'
  BY <1>1, <1>7, <1>8, <1>9, <1>10 DEF TableInv, MergeInv, StackIsMerged
<1>12. Paths' = {StackPath(k) : k \in 1 .. Len(chain)}
  <2>1. \A n \in Graph' : \E k \in 1 .. Len(chain) : path'[n] = StackPath(k)
    BY <1>3, <1>4
  <2>2. \A k \in 1 .. Len(chain) : chain[k] \in Graph' /\ path'[chain[k]] = StackPath(k)
    BY <1>3 DEF Stack
  <2> HIDE DEF Inv
  <2> QED BY <2>1, <2>2 DEF Paths
<1> QED BY <1>2, <1>11, <1>12 DEF Paths

-----------------------------------------------------------------------------
(* The merge.                                                              *)

\* What a step of the merge that only moves on leaves as it is
LEMMA MergeMoves ==
  ASSUME Inv, UNCHANGED <<heap, mallocs, updates, ft, graph, frames, chain, path, order>>,
         pc = "walk" => frames = <<>> /\ graph # Null, pc # "running", pc' \in {"merge", "delete"},
         pc = "walk" \/ pc = "merge", curr' \in Graph, depth' \in Nat
  PROVE  /\ TypeOK' /\ NodesHaveOneOwner' /\ TableInv' /\ ChainInv' /\ TreeInv'
         /\ \A k : StackPath(k)' = StackPath(k)
         /\ \A m, n : Siblings(m, n)' <=> Siblings(m, n)
<1> USE DEF Inv
<1>1. TypeOK'
  <2>1. Nodes' = Nodes /\ Node' = Node
    BY DEF Nodes, Node
  <2>2. curr' \in Nodes
    BY DEF TypeOK, Graph
  <2> QED BY <2>1, <2>2 DEF TypeOK
<1>2. NodesHaveOneOwner'
  BY DEF NodesHaveOneOwner, Graph, Stack
<1>3. ChainInv'
  <2>1. chain # <<>> /\ graph # Null
    <3>1. CASE pc = "walk"
      <4>1. Len(frames) = 0 /\ Len(chain) \in Nat /\ Len(frames) + Len(chain) >= 1
        BY <3>1, CallGraphAssumption DEF ChainInv, TypeOK
      <4>2. Len(chain) # 0
        BY <4>1
      <4> QED BY <3>1, <4>2
    <3> QED BY <3>1 DEF ChainInv
  <2> QED BY <2>1 DEF ChainInv
<1>4. TreeInv'
  BY TreeStays DEF NameOf
<1>5. \A k : StackPath(k)' = StackPath(k)
  BY DEF StackPath, NameOf
<1> QED BY <1>1, <1>2, <1>3, <1>4, <1>5 DEF TableInv, Siblings

LEMMA StartMergeStep ==
  ASSUME Inv, StartMerge PROVE Inv'
<1>1. /\ pc = "walk" /\ frames = <<>> /\ graph # Null /\ curr' = graph /\ depth' = 1 /\ pc' = "merge"
      /\ UNCHANGED <<heap, mallocs, updates, ft, graph, frames, chain, path, order>>
  BY DEF StartMerge
<1>2. /\ graph \in Graph /\ Len(path[graph]) = 1 /\ order[graph] = 1 /\ \A m \in Graph : ~(order[m] < 1)
      /\ Len(chain) \in Nat
  BY <1>1, HeapTypes DEF Inv, TreeInv, GraphIsATree, OrderInv
<1>3. /\ TypeOK' /\ NodesHaveOneOwner' /\ TableInv' /\ ChainInv' /\ TreeInv'
      /\ \A k : StackPath(k)' = StackPath(k)
      /\ \A m, n : Siblings(m, n)' <=> Siblings(m, n)
  BY <1>1, <1>2, MergeMoves
<1>4. 1 \in 1 .. Len(chain) + 1 /\ 1 .. 1 - 1 = {}
  BY <1>2
<1>5. MergeInv'
  BY <1>1, <1>2, <1>3, <1>4 DEF MergeInv, Graph
<1> QED BY <1>1, <1>3, <1>5 DEF Inv, StackIsMerged

\* What stands before the sibling was looked at, or is the node itself.
LEMMA MergeAlongStep ==
  ASSUME Inv, MergeAlong PROVE Inv'
<1> DEFINE next == heap[curr].sibling
<1>1. /\ pc = "merge" /\ depth <= Len(chain) /\ ~Matches /\ next # Null /\ curr' = next
      /\ UNCHANGED <<heap, mallocs, updates, ft, graph, pc, frames, chain, depth, path, order>>
  BY DEF MergeAlong
<1>2. /\ curr \in Graph /\ depth \in 1 .. Len(chain) + 1 /\ Len(path[curr]) = depth
      /\ \A j \in 1 .. depth - 1 : path[curr][j] = NameOf(chain[j])
      /\ \A k \in 1 .. depth - 1 : StackPath(k) \in Paths
      /\ \A m \in Graph : Siblings(m, curr) /\ order[m] < order[curr] =>
                             heap[m].symbol # heap[chain[depth]].symbol
      /\ Len(chain) \in Nat
  BY <1>1, HeapTypes DEF Inv, MergeInv
<1>3. /\ next \in Graph /\ Siblings(next, curr) /\ order[next] = order[curr] + 1
      /\ order[curr] \in Nat /\ \A m \in Graph : order[m] \in Nat
  BY <1>1, <1>2, HeapTypes DEF Inv, NodesHaveOneOwner, TreeInv, GraphIsATree
<1>4. /\ TypeOK' /\ NodesHaveOneOwner' /\ TableInv' /\ ChainInv' /\ TreeInv'
      /\ \A k : StackPath(k)' = StackPath(k)
      /\ \A m, n : Siblings(m, n)' <=> Siblings(m, n)
  BY <1>1, <1>2, <1>3, MergeMoves
<1> HIDE DEF next
<1>5. Len(path[next]) = depth /\ \A j \in 1 .. depth - 1 : path[next][j] = NameOf(chain[j])
  BY <1>2, <1>3 DEF Siblings
<1>6. ASSUME NEW m \in Graph, Siblings(m, next), order[m] < order[next]
      PROVE  heap[m].symbol # heap[chain[depth]].symbol
  <2>1. Siblings(m, curr)
    BY <1>3, <1>6 DEF Siblings
  <2>2. CASE order[m] < order[curr]
    BY <1>2, <2>1, <2>2
  <2>3. CASE order[m] = order[curr]
    <3>1. m = curr
      BY <1>2, <2>1, <2>3 DEF Inv, TreeInv, OrderInv
    <3> QED BY <1>1, <3>1 DEF Matches
  <2> QED BY <1>3, <1>6, <2>2, <2>3
<1>7. MergeInv'
  <2>1. \A n : NameOf(n)' = NameOf(n)
    BY <1>1 DEF NameOf
  <2> QED BY <1>1, <1>2, <1>3, <1>4, <1>5, <1>6, <2>1 DEF MergeInv, Graph, Paths
<1> QED BY <1>1, <1>4, <1>7 DEF Inv, StackIsMerged

\* A node that matches has the call path of the stack.
LEMMA MatchIsThePath ==
  ASSUME Inv, pc = "merge", depth <= Len(chain), Matches
  PROVE  depth \in 1 .. Len(chain) /\ path[curr] = StackPath(depth)
<1> USE DEF Inv
<1>1. /\ curr \in Graph /\ depth \in 1 .. Len(chain) + 1 /\ Len(path[curr]) = depth
      /\ \A j \in 1 .. depth - 1 : path[curr][j] = NameOf(chain[j])
      /\ Len(chain) \in Nat
  BY HeapTypes DEF MergeInv
<1>2. depth \in 1 .. Len(chain) /\ depth \in 0 .. Len(chain)
  BY <1>1
<1>3. curr \in DOMAIN heap /\ chain[depth] \in DOMAIN heap
  BY <1>1, <1>2, StackIsAllocated DEF NodesHaveOneOwner
<1>4. path[curr] \in Seq(Names) /\ path[curr][depth] = NameOf(chain[depth])
  BY <1>1, <1>3, HeapTypes, SymbolsAreNames DEF Matches, TreeInv, GraphIsATree
<1>5. /\ StackPath(depth) \in Seq(Names) /\ Len(StackPath(depth)) = depth
      /\ \A j \in 1 .. depth : StackPath(depth)[j] = NameOf(chain[j])
  BY <1>2, StackPathIs
<1>6. \A j \in 1 .. depth : path[curr][j] = StackPath(depth)[j]
  BY <1>1, <1>2, <1>4, <1>5
<1> QED BY <1>1, <1>2, <1>4, <1>5, <1>6, SamePath

LEMMA MergeDownStep ==
  ASSUME Inv, MergeDown PROVE Inv'
<1> DEFINE next == heap[curr].child
<1>1. /\ pc = "merge" /\ depth <= Len(chain) /\ Matches /\ next # Null /\ curr' = next /\ depth' = depth + 1
      /\ UNCHANGED <<heap, mallocs, updates, ft, graph, pc, frames, chain, path, order>>
  BY DEF MergeDown
<1>2. /\ curr \in Graph /\ Len(path[curr]) = depth /\ \A k \in 1 .. depth - 1 : StackPath(k) \in Paths
      /\ Len(chain) \in Nat
  BY <1>1, HeapTypes DEF Inv, MergeInv
<1>3. depth \in 1 .. Len(chain) /\ depth \in 0 .. Len(chain) /\ path[curr] = StackPath(depth)
  BY <1>1, <1>2, MatchIsThePath
<1>4. next \in Graph /\ Below(next, curr) /\ order[next] = 1 /\ \A m \in Graph : order[m] >= 1 /\ order[m] \in Nat
  BY <1>1, <1>2, HeapTypes DEF Inv, NodesHaveOneOwner, TreeInv, GraphIsATree, OrderInv
<1>5. /\ TypeOK' /\ NodesHaveOneOwner' /\ TableInv' /\ ChainInv' /\ TreeInv'
      /\ \A k : StackPath(k)' = StackPath(k)
      /\ \A m, n : Siblings(m, n)' <=> Siblings(m, n)
  BY <1>1, <1>2, <1>3, <1>4, MergeMoves
<1> HIDE DEF next
<1>6. \A j \in 1 .. depth : StackPath(depth)[j] = NameOf(chain[j])
  BY <1>3, StackPathIs DEF Inv
<1>7. Len(path[next]) = depth + 1 /\ \A j \in 1 .. depth : path[next][j] = NameOf(chain[j])
  BY <1>2, <1>3, <1>4, <1>6 DEF Below
<1>8. \A k \in 1 .. depth : StackPath(k) \in Paths
  BY <1>2, <1>3 DEF Paths
<1>9. \A m \in Graph : ~(order[m] < order[next])
  BY <1>4
<1>10. depth + 1 \in 1 .. Len(chain) + 1 /\ (depth + 1) - 1 = depth
  BY <1>2, <1>3
<1>11. MergeInv'
  <2>1. \A n : NameOf(n)' = NameOf(n)
    BY <1>1 DEF NameOf
  <2> QED BY <1>1, <1>4, <1>5, <1>7, <1>8, <1>9, <1>10, <2>1 DEF MergeInv, Graph, Paths
<1> QED BY <1>1, <1>5, <1>11 DEF Inv, StackIsMerged

LEMMA MergeEndsStep ==
  ASSUME Inv, MergeEnds PROVE Inv'
<1>1. /\ pc = "merge" /\ depth > Len(chain) /\ pc' = "delete"
      /\ UNCHANGED <<heap, mallocs, updates, ft, graph, frames, chain, curr, depth, path, order>>
  BY DEF MergeEnds
<1>2. /\ curr \in Graph /\ depth \in 1 .. Len(chain) + 1 /\ \A k \in 1 .. depth - 1 : StackPath(k) \in Paths
      /\ Len(chain) \in Nat
  BY <1>1, HeapTypes DEF Inv, MergeInv
<1>3. /\ TypeOK' /\ NodesHaveOneOwner' /\ TableInv' /\ ChainInv' /\ TreeInv'
      /\ \A k : StackPath(k)' = StackPath(k)
  BY <1>1, <1>2, MergeMoves
<1>4. depth - 1 = Len(chain)
  BY <1>1, <1>2
<1>5. StackIsMerged'
  BY <1>1, <1>2, <1>3, <1>4 DEF StackIsMerged, Paths, Graph
<1> QED BY <1>1, <1>3, <1>5 DEF Inv, MergeInv

\* The stack goes, the graph stays.
LEMMA DeleteStep ==
  ASSUME Inv, DeleteStack PROVE Inv'
<1>1. /\ pc = "delete" /\ heap' = [n \in DOMAIN heap \ Stack |-> heap[n]]
      /\ chain' = <<>> /\ pc' = "running" /\ curr' = Null /\ depth' = 0
      /\ UNCHANGED <<mallocs, updates, ft, graph, frames, path, order>>
  BY DEF DeleteStack, Stack
<1>2. DOMAIN heap = Graph \cup Stack /\ Graph \cap Stack = {}
  BY DEF Inv, NodesHaveOneOwner
<1>3. DOMAIN heap' = Graph /\ \A n \in Graph : heap'[n] = heap[n] /\ NameOf(n)' = NameOf(n)
  BY <1>1, <1>2 DEF NameOf
<1>4. Graph' = Graph /\ Nodes' = Nodes /\ Node' = Node /\ Stack' = {}
  BY <1>1 DEF Graph, Nodes, Node, Stack
<1>5. TypeOK'
  <2>1. heap \in [DOMAIN heap -> Node] /\ DOMAIN heap \subseteq Nodes
    BY DEF Inv, TypeOK
  <2>2. heap' \in [DOMAIN heap' -> Node] /\ DOMAIN heap' \subseteq Nodes
    BY <1>1, <1>2, <1>3, <2>1
  <2> QED BY <1>1, <1>4, <2>2 DEF Inv, TypeOK
<1>6. NodesHaveOneOwner'
  <2>1. \A n \in Graph : {heap[n].child, heap[n].sibling} \subseteq Graph \cup {Null}
    BY DEF Inv, NodesHaveOneOwner
  <2> QED BY <1>1, <1>3, <1>4, <2>1 DEF NodesHaveOneOwner
<1>7. TreeInv'
  BY <1>1, <1>3, TreeStays DEF Inv
<1>8. ChainInv'
  BY <1>1 DEF ChainInv
<1> QED BY <1>1, <1>5, <1>6, <1>7, <1>8 DEF Inv, TableInv, MergeInv, StackIsMerged

-----------------------------------------------------------------------------
(* The copy of the stack's rest, from depth i on.                          *)

\* The copy of the node at depth d
NewAt(i, d) == mallocs + (d - i) + 1
Added(i)    == {NewAt(i, d) : d \in i .. Len(chain)}

Copies(i, top) ==
  /\ mallocs' = mallocs + (Len(chain) + 1 - i)
  /\ DOMAIN heap' = DOMAIN heap \cup Added(i) /\ Graph' = Graph \cup Added(i)
  /\ heap' = [n \in DOMAIN heap' |-> heap'[n]]
  /\ path' = [n \in Graph' |-> path'[n]] /\ order' = [n \in Graph' |-> order'[n]]
  /\ \A n \in Graph : path'[n] = path[n] /\ order'[n] = order[n]
  /\ \A d \in i .. Len(chain) :
       /\ heap'[NewAt(i, d)] = [symbol  |-> heap[chain[d]].symbol,
                                child   |-> IF d = Len(chain) THEN Null ELSE NewAt(i, d + 1),
                                sibling |-> Null]
       /\ path'[NewAt(i, d)] = StackPath(d)
       /\ order'[NewAt(i, d)] = (IF d = i THEN top ELSE 1)

LEMMA NewNodes ==
  ASSUME Inv, NEW i \in 1 .. Len(chain) + 1
  PROVE  /\ Len(chain) \in Nat /\ i \in Nat /\ mallocs \in Nat /\ Len(chain) + 1 - i \in Nat
         /\ \A d \in i .. Len(chain) :
              /\ d \in 1 .. Len(chain)
              /\ NewAt(i, d) \in Nat /\ NewAt(i, d) > mallocs
              /\ NewAt(i, d) <= mallocs + (Len(chain) + 1 - i)
              /\ NewAt(i, d) \notin DOMAIN heap /\ NewAt(i, d) \notin Graph /\ NewAt(i, d) # Null
         /\ \A d, e \in i .. Len(chain) : NewAt(i, d) = NewAt(i, e) => d = e
<1>1. /\ Len(chain) \in Nat /\ mallocs \in Nat
      /\ \A n \in DOMAIN heap : n \in Nat /\ n <= mallocs
      /\ \A n \in Graph : n <= mallocs
  BY HeapTypes DEF Inv
<1>2. /\ Len(chain) \in Nat /\ i \in Nat /\ mallocs \in Nat /\ Len(chain) + 1 - i \in Nat
  BY <1>1
<1>3. ASSUME NEW d \in i .. Len(chain)
      PROVE  /\ d \in 1 .. Len(chain)
             /\ NewAt(i, d) \in Nat /\ NewAt(i, d) > mallocs
             /\ NewAt(i, d) <= mallocs + (Len(chain) + 1 - i) /\ NewAt(i, d) # Null
  BY <1>2 DEF NewAt, Null
<1>4. \A d, e \in i .. Len(chain) : NewAt(i, d) = NewAt(i, e) => d = e
  BY <1>2 DEF NewAt
<1>5. Graph \subseteq DOMAIN heap
  BY DEF Inv, NodesHaveOneOwner
<1>6. \A x, y \in Nat : x > y => ~(x <= y)
  OBVIOUS
<1>7. ASSUME NEW d \in i .. Len(chain) PROVE NewAt(i, d) \notin DOMAIN heap
  BY <1>1, <1>3, <1>6
<1> QED BY <1>2, <1>3, <1>4, <1>5, <1>7

LEMMA CopyFacts ==
  ASSUME Inv, NEW i \in 1 .. Len(chain) + 1, NEW h, NEW top, Copy(i, h, top)
  PROVE  Copies(i, top) /\ \A n \in DOMAIN heap : heap'[n] = h[n]
<1> DEFINE k   == Len(chain) + 1 - i
           new == New(k)
           At(n) == CHOOSE j \in 1 .. k : new[j] = n
           added == {new[j] : j \in 1 .. k}
<1>1. /\ mallocs' = mallocs + k
      /\ heap' = [n \in DOMAIN heap \cup added |->
                   IF n \in added
                     THEN [symbol  |-> heap[chain[i + At(n) - 1]].symbol,
                           child   |-> IF At(n) = k THEN Null ELSE new[At(n) + 1],
                           sibling |-> Null]
                     ELSE h[n]]
      /\ path'  = [n \in DOMAIN path \cup added |->
                    IF n \in added THEN StackPath(i + At(n) - 1) ELSE path[n]]
      /\ order' = [n \in DOMAIN path \cup added |->
                    IF n \notin added THEN order[n] ELSE IF At(n) = 1 THEN top ELSE 1]
  BY DEF Copy
<1>2. /\ Len(chain) \in Nat /\ i \in Nat /\ mallocs \in Nat /\ k \in Nat
      /\ \A d \in i .. Len(chain) : NewAt(i, d) \notin DOMAIN heap /\ NewAt(i, d) \notin Graph
  BY NewNodes
<1>3. \A j \in 1 .. k : new[j] = mallocs + j
  BY DEF New
<1> HIDE DEF new
<1>4. ASSUME NEW j \in 1 .. k
      PROVE  At(new[j]) = j
  <2>1. \A x \in 1 .. k : new[x] = new[j] => x = j
    BY <1>2, <1>3
  <2> QED BY <2>1
<1>5. \A d \in i .. Len(chain) : d - i + 1 \in 1 .. k /\ NewAt(i, d) = new[d - i + 1]
  BY <1>2, <1>3 DEF NewAt
<1>6. \A j \in 1 .. k : i + j - 1 \in i .. Len(chain) /\ new[j] = NewAt(i, i + j - 1)
  BY <1>2, <1>3 DEF NewAt
<1>7. added = Added(i)
  BY <1>5, <1>6 DEF Added
<1>8. ASSUME NEW d \in i .. Len(chain)
      PROVE  /\ At(NewAt(i, d)) = d - i + 1 /\ NewAt(i, d) \in added /\ i + (d - i + 1) - 1 = d
             /\ d - i + 1 = k <=> d = Len(chain)
             /\ d - i + 1 = 1 <=> d = i
             /\ d # Len(chain) => new[(d - i + 1) + 1] = NewAt(i, d + 1)
  <2>1. At(NewAt(i, d)) = d - i + 1 /\ NewAt(i, d) \in added
    BY <1>4, <1>5, <1>8
  <2>2. /\ i + (d - i + 1) - 1 = d
        /\ d - i + 1 = k <=> d = Len(chain)
        /\ d - i + 1 = 1 <=> d = i
    BY <1>2
  <2>3. ASSUME d # Len(chain) PROVE new[(d - i + 1) + 1] = NewAt(i, d + 1)
    <3>1. (d - i + 1) + 1 \in 1 .. k
      BY <1>2, <2>3
    <3> QED BY <1>2, <1>3, <3>1 DEF NewAt
  <2> QED BY <2>1, <2>2, <2>3
<1>9. \A n \in DOMAIN heap \cup Graph : n \notin added
  BY <1>2, <1>7 DEF Added
<1>10. \A n \in DOMAIN heap : heap'[n] = h[n]
  BY <1>1, <1>9
<1>11. /\ DOMAIN heap' = DOMAIN heap \cup Added(i) /\ Graph' = Graph \cup Added(i)
       /\ \A n \in Graph : path'[n] = path[n] /\ order'[n] = order[n]
  BY <1>1, <1>7, <1>9 DEF Graph
<1>12. ASSUME NEW d \in i .. Len(chain)
       PROVE  /\ heap'[NewAt(i, d)] = [symbol  |-> heap[chain[d]].symbol,
                                       child   |-> IF d = Len(chain) THEN Null ELSE NewAt(i, d + 1),
                                       sibling |-> Null]
              /\ path'[NewAt(i, d)] = StackPath(d)
              /\ order'[NewAt(i, d)] = (IF d = i THEN top ELSE 1)
  <2> DEFINE n == NewAt(i, d)
             a == d - i + 1
  <2>1. n \in added /\ At(n) = a
    BY <1>8
  <2> HIDE DEF n, a, At, added
  <2>2. /\ heap'[n] = [symbol |-> heap[chain[i + a - 1]].symbol,
                       child |-> IF a = k THEN Null ELSE new[a + 1], sibling |-> Null]
        /\ path'[n] = StackPath(i + a - 1)
        /\ order'[n] = (IF a = 1 THEN top ELSE 1)
    BY <1>1, <2>1
  <2>3. i + a - 1 = d /\ (a = k <=> d = Len(chain)) /\ (a = 1 <=> d = i)
        /\ (d # Len(chain) => new[a + 1] = NewAt(i, d + 1))
    BY <1>8 DEF a
  <2> QED BY <2>2, <2>3 DEF n
<1>13. /\ heap' = [n \in DOMAIN heap' |-> heap'[n]]
       /\ path' = [n \in Graph' |-> path'[n]] /\ order' = [n \in Graph' |-> order'[n]]
  BY <1>1 DEF Graph
<1> QED BY <1>1, <1>10, <1>11, <1>12, <1>13 DEF Copies

\* The copy hangs where its call path belongs, and nothing there has that path.
Hangs(i, top) ==
  /\ \A n \in DOMAIN heap : heap'[n].symbol = heap[n].symbol
  /\ \A n \in Graph :
       /\ \/ heap'[n].child = heap[n].child
          \/ /\ i <= Len(chain) /\ heap[n].child = Null /\ heap'[n].child = NewAt(i, i)
             /\ path[n] = StackPath(i - 1) /\ top = 1
       /\ \/ heap'[n].sibling = heap[n].sibling
          \/ /\ i <= Len(chain) /\ heap[n].sibling = Null /\ heap'[n].sibling = NewAt(i, i)
             /\ Len(path[n]) = i /\ \A j \in 1 .. i - 1 : path[n][j] = NameOf(chain[j])
             /\ top = order[n] + 1
  /\ \A k \in 1 .. i - 1 : StackPath(k) \in Paths
  /\ i <= Len(chain) =>
       /\ StackPath(i) \notin Paths
       /\ \E m \in Graph : NewAt(i, i) \in {heap'[m].child, heap'[m].sibling}
       /\ \A n \in Graph : path[n] = StackPath(i - 1) => heap'[n].child # Null
       /\ \A n \in Graph :
            Len(path[n]) = i /\ (\A j \in 1 .. i - 1 : path[n][j] = NameOf(chain[j])) =>
              heap'[n].sibling # Null /\ order[n] < top

LEMMA GrownTree ==
  ASSUME Inv, graph # Null, NEW i \in 1 .. Len(chain) + 1, NEW top \in Nat, top >= 1,
         Copies(i, top), Hangs(i, top), UNCHANGED <<ft, graph, chain>>
  PROVE  TreeInv'
<1> DEFINE D == i .. Len(chain)
           new(d) == NewAt(i, d)
<1>1. /\ Len(chain) \in Nat /\ i \in Nat
      /\ \A d \in D : d \in 1 .. Len(chain) /\ d \in Nat /\ new(d) \notin DOMAIN heap /\ new(d) \notin Graph /\ new(d) # Null
      /\ \A d \in D : d >= i /\ d <= Len(chain) /\ i <= Len(chain) /\ (d = i \/ (d - 1 \in D /\ d # i))
      /\ \A d \in D : d # Len(chain) => d + 1 \in D /\ d + 1 # i
      /\ \A d, e \in D : new(d) = new(e) => d = e
      /\ i <= Len(chain) => i \in D
  BY NewNodes
<1>2. /\ \A d \in 1 .. Len(chain) : /\ StackPath(d) \in Seq(Names) /\ Len(StackPath(d)) = d
                                    /\ \A j \in 1 .. d : StackPath(d)[j] = NameOf(chain[j])
      /\ StackPath(i - 1) \in Seq(Names) /\ Len(StackPath(i - 1)) = i - 1
      /\ \A j \in 1 .. i - 1 : StackPath(i - 1)[j] = NameOf(chain[j])
  <2>1. \A d \in 0 .. Len(chain) : /\ StackPath(d) \in Seq(Names) /\ Len(StackPath(d)) = d
                                   /\ \A j \in 1 .. d : StackPath(d)[j] = NameOf(chain[j])
    BY StackPathIs DEF Inv
  <2>2. \A d \in 1 .. Len(chain) : d \in 0 .. Len(chain)
    OBVIOUS
  <2>3. i - 1 \in 0 .. Len(chain)
    BY <1>1
  <2> QED BY <2>1, <2>2, <2>3
<1>3. /\ Graph' = Graph \cup Added(i)
      /\ \A n \in Graph : path'[n] = path[n] /\ order'[n] = order[n] /\ n \in DOMAIN heap /\ n # Null
      /\ \A n \in Graph : path[n] \in Seq(Names) /\ Len(path[n]) \in Nat /\ order[n] \in Nat
  <2>1. \A n \in Graph : n \in DOMAIN heap /\ path[n] \in Seq(Names) /\ order[n] \in Nat
    BY HeapTypes DEF Inv, NodesHaveOneOwner
  <2>2. \A n \in DOMAIN heap : n # Null
    BY HeapTypes DEF Inv, Null
  <2>3. \A t \in Seq(Names) : Len(t) \in Nat
    OBVIOUS
  <2> QED BY <2>1, <2>2, <2>3 DEF Copies
<1>4. \A d \in D : /\ new(d) \in Graph'
                   /\ heap'[new(d)].child = (IF d = Len(chain) THEN Null ELSE new(d + 1))
                   /\ heap'[new(d)].sibling = Null /\ heap'[new(d)].symbol = heap[chain[d]].symbol
                   /\ path'[new(d)] = StackPath(d) /\ Len(path'[new(d)]) = d
                   /\ \A j \in 1 .. d : path'[new(d)][j] = NameOf(chain[j])
                   /\ order'[new(d)] = (IF d = i THEN top ELSE 1)
  <2> SUFFICES ASSUME NEW d \in D
               PROVE  /\ new(d) \in Graph'
                      /\ heap'[new(d)].child = (IF d = Len(chain) THEN Null ELSE new(d + 1))
                      /\ heap'[new(d)].sibling = Null /\ heap'[new(d)].symbol = heap[chain[d]].symbol
                      /\ path'[new(d)] = StackPath(d) /\ Len(path'[new(d)]) = d
                      /\ \A j \in 1 .. d : path'[new(d)][j] = NameOf(chain[j])
                      /\ order'[new(d)] = (IF d = i THEN top ELSE 1)
    OBVIOUS
  <2>1. new(d) \in Graph'
    BY <1>3 DEF Added
  <2>2. /\ heap'[new(d)] = [symbol  |-> heap[chain[d]].symbol,
                             child   |-> IF d = Len(chain) THEN Null ELSE new(d + 1),
                             sibling |-> Null]
        /\ path'[new(d)] = StackPath(d)
        /\ order'[new(d)] = (IF d = i THEN top ELSE 1)
    BY DEF Copies
  <2>3. Len(StackPath(d)) = d /\ \A j \in 1 .. d : StackPath(d)[j] = NameOf(chain[j])
    BY <1>1, <1>2
  <2> HIDE DEF new
  <2>4. /\ heap'[new(d)].child = (IF d = Len(chain) THEN Null ELSE new(d + 1))
        /\ heap'[new(d)].sibling = Null /\ heap'[new(d)].symbol = heap[chain[d]].symbol
    BY <2>2
  <2> QED BY <2>1, <2>2, <2>3, <2>4
<1>5. \A n \in Graph' : n \in Graph \/ \E d \in D : n = new(d)
  BY <1>3 DEF Added
\* Nothing in the graph is on the copied part of the path.
<1>6. ASSUME NEW m \in Graph, i <= Len(chain), NEW k \in Nat, k >= i, Len(path[m]) >= k,
             \A j \in 1 .. k : path[m][j] = NameOf(chain[j])
      PROVE  FALSE
  <2>1. i \in 1 .. Len(path[m]) /\ i \in 1 .. Len(chain) /\ \A j \in 1 .. i : j \in 1 .. k
    BY <1>1, <1>3, <1>6
  <2>2. PICK x \in Graph : Len(path[x]) = i /\ \A j \in 1 .. i : path[x][j] = path[m][j]
    BY <2>1 DEF Inv, TreeInv, Callers
  <2>3. \A j \in 1 .. Len(path[x]) : path[x][j] = StackPath(i)[j]
    BY <1>2, <1>6, <2>1, <2>2
  <2>4. path[x] = StackPath(i)
    BY <1>2, <1>3, <2>1, <2>2, <2>3, SamePath
  <2> QED BY <1>6, <2>4 DEF Hangs, Paths
<1>7. \A n \in DOMAIN heap : NameOf(n)' = NameOf(n)
  BY DEF NameOf, Hangs
<1>8. ASSUME NEW d \in D, NEW n, n = new(d) PROVE NameOf(n)' = NameOf(chain[d])
  BY <1>4, <1>8 DEF NameOf
<1> HIDE DEF D, new
\* The same for the copy of a deeper node: nothing old is its sibling, or above it.
<1>9. ASSUME NEW m \in Graph, NEW d \in D, d # i, Len(path[m]) >= d - 1,
             \A j \in 1 .. d - 1 : path[m][j] = NameOf(chain[j])
      PROVE  FALSE
  <2>1. d - 1 \in Nat /\ d - 1 >= i /\ i <= Len(chain)
    BY <1>1, <1>9
  <2> QED BY <1>6, <1>9, <2>1
<1>10. /\ \A n \in Graph : heap[n].child # Null => heap'[n].child = heap[n].child
       /\ \A n \in Graph : heap[n].sibling # Null => heap'[n].sibling = heap[n].sibling
  BY DEF Hangs
<1>11. CallPathsOccurOnce'
  <2>1. ASSUME NEW m \in Graph, NEW d \in D, path'[m] = path'[new(d)] PROVE FALSE
    <3>0. d \in 1 .. Len(chain) /\ d \in Nat /\ d >= i
      BY <1>1
    <3>1. path[m] = StackPath(d) /\ Len(path[m]) >= d /\ d \in Nat /\ d >= i
      <4>1. path[m] = StackPath(d)
        BY <1>3, <1>4, <2>1
      <4>2. Len(StackPath(d)) = d
        BY <1>2, <3>0
      <4> QED BY <3>0, <4>1, <4>2
    <3>2. \A j \in 1 .. d : path[m][j] = NameOf(chain[j])
      BY <1>1, <1>2, <3>1
    <3> QED BY <1>1, <1>6, <3>1, <3>2
  <2>2. \A d, e \in D : path'[new(d)] = path'[new(e)] => d = e
    BY <1>4
  <2>3. \A m, n \in Graph : path'[m] = path'[n] => m = n
    BY <1>3 DEF Inv, TreeInv, CallPathsOccurOnce
  <2> QED BY <1>5, <2>1, <2>2, <2>3 DEF CallPathsOccurOnce
<1>12. Callers'
  <2>1. ASSUME NEW n \in Graph', NEW k \in 1 .. Len(path'[n])
        PROVE  \E m \in Graph' : Len(path'[m]) = k /\ \A j \in 1 .. k : path'[m][j] = path'[n][j]
    <3>1. CASE n \in Graph
      <4>1. PICK m \in Graph : Len(path[m]) = k /\ \A j \in 1 .. k : path[m][j] = path[n][j]
        BY <1>3, <2>1, <3>1 DEF Inv, TreeInv, Callers
      <4> QED BY <1>3, <3>1, <4>1
    <3>2. ASSUME NEW d \in D, n = new(d)
          PROVE  \E m \in Graph' : Len(path'[m]) = k /\ \A j \in 1 .. k : path'[m][j] = path'[n][j]
      <4>1. k \in 1 .. d /\ \A j \in 1 .. k : path'[n][j] = NameOf(chain[j])
        <5>1. Len(path'[n]) = d /\ \A j \in 1 .. d : path'[n][j] = NameOf(chain[j])
          BY <1>4, <3>2
        <5>2. k \in 1 .. d /\ d \in Nat
          BY <1>1, <2>1, <5>1
        <5>3. \A j \in 1 .. k : j \in 1 .. d
          BY <5>2
        <5> QED BY <5>1, <5>2, <5>3
      <4>2. CASE k < i
        <5>1. k \in 1 .. i - 1 /\ k \in 1 .. Len(chain)
          BY <1>1, <4>1, <4>2
        <5>2. PICK m \in Graph : path[m] = StackPath(k)
          BY <5>1 DEF Hangs, Paths
        <5>3. m \in Graph' /\ path'[m] = StackPath(k)
          BY <1>3, <5>2
        <5> QED BY <1>2, <4>1, <5>1, <5>3
      <4>3. CASE k >= i
        <5>1. k \in D
          <6>1. d \in Nat /\ d <= Len(chain) /\ Len(chain) \in Nat /\ i \in Nat
            BY <1>1
          <6>2. k \in Nat /\ k <= d
            BY <4>1, <6>1
          <6>3. k \in i .. Len(chain)
            BY <4>3, <6>1, <6>2
          <6> QED BY <6>3 DEF D
        <5> QED BY <1>4, <4>1, <5>1
      <4> QED BY <1>1, <4>1, <4>2, <4>3
    <3> QED BY <1>5, <3>1, <3>2
  <2> QED BY <2>1 DEF Callers
<1>13. OrderInv'
  <2>1. /\ \A n \in Graph : order[n] >= 1
        /\ \A m, n \in Graph : Siblings(m, n) /\ order[m] = order[n] => m = n
        /\ \A m, n \in Graph : heap[n].sibling = Null /\ Siblings(m, n) => order[m] <= order[n]
        /\ \A m, n \in Graph : heap[n].child = Null => ~Below(m, n)
        /\ graph \in Graph /\ order[graph] = 1
    BY DEF Inv, TreeInv, OrderInv, GraphIsATree
  <2>2. (\A n \in Graph' : order'[n] >= 1) /\ order'[graph'] = 1
    BY <1>3, <1>4, <1>5, <2>1
  \* An old sibling of the copy has a lower number, and has one itself.
  <2>3. ASSUME NEW m \in Graph, NEW d \in D, Len(path[m]) = d, \A j \in 1 .. d - 1 : path[m][j] = NameOf(chain[j])
        PROVE  d = i /\ order[m] < top /\ heap'[m].sibling # Null
    <3>1. d = i
      <4>1. d \in Nat /\ d >= d - 1
        BY <1>1
      <4> QED BY <1>9, <2>3, <4>1
    <3> QED BY <1>1, <2>3, <3>1 DEF Hangs
  <2>4. \A m, n \in Graph : (Siblings(m, n)' <=> Siblings(m, n)) /\ (Below(m, n)' <=> Below(m, n))
    BY <1>3 DEF Siblings, Below
  <2>5. ASSUME NEW m \in Graph, NEW n, NEW d \in D, n = new(d), Siblings(m, n)' \/ Siblings(n, m)'
        PROVE  order'[m] < order'[n] /\ heap'[m].sibling # Null
    <3>1. Len(path[m]) = d /\ \A j \in 1 .. d - 1 : path[m][j] = NameOf(chain[j])
      <4>1. Len(path'[n]) = d /\ (\A j \in 1 .. d : path'[n][j] = NameOf(chain[j])) /\ d \in Nat /\ path'[m] = path[m]
        BY <1>1, <1>3, <1>4, <2>5
      <4>2. Len(path[m]) = d /\ \A j \in 1 .. d - 1 : path[m][j] = path'[n][j]
        BY <2>5, <4>1 DEF Siblings
      <4>3. \A j \in 1 .. d - 1 : j \in 1 .. d
        BY <4>1
      <4> QED BY <4>1, <4>2, <4>3
    <3> QED BY <1>3, <1>4, <2>3, <2>5, <3>1
  <2>6. ASSUME NEW d \in D, NEW e \in D, NEW m, NEW n, m = new(d), n = new(e), Siblings(m, n)' PROVE m = n
    BY <1>4, <2>6 DEF Siblings
  <2>7. \A m, n \in Graph' : Siblings(m, n)' /\ order'[m] = order'[n] => m = n
    <3>1. ASSUME NEW m \in Graph', NEW n \in Graph', Siblings(m, n)', order'[m] = order'[n] PROVE m = n
      <4>1. CASE m \in Graph /\ n \in Graph
        BY <1>3, <2>1, <2>4, <3>1, <4>1
      <4>2. CASE m \notin Graph /\ n \notin Graph
        BY <1>5, <2>6, <3>1, <4>2
      <4>3. CASE m \in Graph /\ n \notin Graph
        <5>1. order'[m] < order'[n] /\ order'[m] \in Nat
          BY <1>3, <1>5, <2>5, <3>1, <4>3
        <5> QED BY <3>1, <5>1
      <4>4. CASE m \notin Graph /\ n \in Graph
        <5>1. order'[n] < order'[m] /\ order'[n] \in Nat
          BY <1>3, <1>5, <2>5, <3>1, <4>4
        <5> QED BY <3>1, <5>1
      <4> QED BY <4>1, <4>2, <4>3, <4>4
    <3> QED BY <3>1
  <2>8. \A m, n \in Graph' : heap'[n].sibling = Null /\ Siblings(m, n)' => order'[m] <= order'[n]
    <3>1. ASSUME NEW m \in Graph', NEW n \in Graph', heap'[n].sibling = Null, Siblings(m, n)'
          PROVE  order'[m] <= order'[n]
      <4>1. CASE m \in Graph /\ n \in Graph
        <5>1. heap[n].sibling = Null
          BY <1>10, <3>1, <4>1
        <5> QED BY <1>3, <2>1, <2>4, <3>1, <4>1, <5>1
      <4>2. CASE m \notin Graph /\ n \notin Graph
        <5>1. m = n /\ order'[m] \in Nat
          BY <1>4, <1>5, <2>6, <3>1, <4>2
        <5> QED BY <5>1
      <4>3. CASE m \in Graph /\ n \notin Graph
        <5>1. order'[m] < order'[n] /\ order'[m] \in Nat /\ order'[n] \in Nat
          BY <1>3, <1>4, <1>5, <2>5, <3>1, <4>3
        <5> QED BY <5>1
      <4>4. CASE m \notin Graph /\ n \in Graph
        BY <1>5, <2>5, <3>1, <4>4
      <4> QED BY <4>1, <4>2, <4>3, <4>4
    <3> QED BY <3>1
  <2>9. \A m, n \in Graph' : heap'[n].child = Null => ~Below(m, n)'
    <3>1. ASSUME NEW m \in Graph', NEW n \in Graph', heap'[n].child = Null, Below(m, n)' PROVE FALSE
      <4>1. CASE m \in Graph /\ n \in Graph
        BY <1>10, <2>1, <2>4, <3>1, <4>1
      <4>2. ASSUME NEW d \in D, m = new(d), n \in Graph PROVE FALSE
        <5>1. Len(path[n]) = d - 1 /\ \A j \in 1 .. d - 1 : path[n][j] = NameOf(chain[j])
          <6>1. Len(path'[m]) = d /\ (\A j \in 1 .. d : path'[m][j] = NameOf(chain[j])) /\ d \in Nat
                /\ path'[n] = path[n] /\ Len(path[n]) \in Nat
            BY <1>1, <1>3, <1>4, <4>2
          <6>2. d = Len(path[n]) + 1 /\ \A j \in 1 .. Len(path[n]) : path'[m][j] = path[n][j]
            BY <3>1, <6>1 DEF Below
          <6>3. d - 1 = Len(path[n]) /\ \A j \in 1 .. d - 1 : j \in 1 .. d
            BY <6>1, <6>2
          <6>4. \A j \in 1 .. d - 1 : path'[m][j] = path[n][j]
            BY <6>2, <6>3
          <6> QED BY <6>1, <6>3, <6>4
        <5>2. d = i
          BY <1>1, <1>9, <4>2, <5>1
        <5>3. path[n] = StackPath(i - 1)
          <6>1. i - 1 \in 0 .. Len(chain)
            BY <1>1
          <6> QED BY <1>2, <1>3, <4>2, <5>1, <5>2, <6>1, SamePath
        <5> QED BY <1>1, <3>1, <4>2, <5>3 DEF Hangs
      <4>3. ASSUME NEW d \in D, n = new(d), m \in Graph PROVE FALSE
        <5>1. d \in Nat /\ d >= i /\ i <= Len(chain) /\ Len(path[m]) >= d /\ \A j \in 1 .. d : path[m][j] = NameOf(chain[j])
          <6>1. Len(path'[n]) = d /\ (\A j \in 1 .. d : path'[n][j] = NameOf(chain[j])) /\ path'[m] = path[m]
            BY <1>3, <1>4, <4>3
          <6>2. Len(path[m]) = d + 1 /\ \A j \in 1 .. d : path[m][j] = path'[n][j]
            BY <3>1, <6>1 DEF Below
          <6>3. d \in Nat /\ d >= i /\ i <= Len(chain)
            BY <1>1
          <6>4. Len(path[m]) >= d
            BY <6>2, <6>3
          <6> QED BY <6>1, <6>2, <6>3, <6>4
        <5> QED BY <1>6, <4>3, <5>1
      <4>4. ASSUME NEW d \in D, NEW e \in D, n = new(d), m = new(e) PROVE FALSE
        <5>1. e = d + 1
          BY <1>4, <3>1, <4>4 DEF Below
        <5>2. d = Len(chain)
          BY <1>1, <1>4, <3>1, <4>4
        <5> QED BY <1>1, <5>1, <5>2
      <4> QED BY <1>5, <3>1, <4>1, <4>2, <4>3, <4>4
    <3> QED BY <3>1
  <2> QED BY <2>2, <2>7, <2>8, <2>9 DEF OrderInv
<1>14. GraphIsATree'
  <2>1. graph' # Null /\ graph' \in Graph' /\ Len(path'[graph']) = 1 /\ Graph' # {}
    BY <1>3 DEF Inv, TreeInv, GraphIsATree
  <2>2. ASSUME NEW n \in Graph
        PROVE  /\ path'[n] # <<>> /\ path'[n][Len(path'[n])] = NameOf(n)'
               /\ heap'[n].child # Null => Below(heap[n].child, n)' /\ order'[heap'[n].child] = 1
               /\ heap'[n].sibling # Null =>
                    Siblings(heap[n].sibling, n)' /\ order'[heap'[n].sibling] = order'[n] + 1
               /\ n # graph' => \E m \in Graph' : n \in {heap'[m].child, heap'[m].sibling}
    <3>1. /\ path[n] # <<>> /\ path[n][Len(path[n])] = NameOf(n)
          /\ heap[n].child # Null => Below(heap[n].child, n) /\ order[heap[n].child] = 1
          /\ heap[n].sibling # Null =>
               Siblings(heap[n].sibling, n) /\ order[heap[n].sibling] = order[n] + 1
          /\ n # graph => \E m \in Graph : n \in {heap[m].child, heap[m].sibling}
          /\ heap[n].child \in Graph \cup {Null} /\ heap[n].sibling \in Graph \cup {Null}
      BY DEF Inv, TreeInv, GraphIsATree, NodesHaveOneOwner
    <3>2. ASSUME heap'[n].child # Null PROVE Below(heap[n].child, n)' /\ order'[heap'[n].child] = 1
      <4>1. CASE heap'[n].child = heap[n].child
        <5>1. /\ heap[n].child \in Graph
              /\ path'[heap'[n].child] = path[heap[n].child] /\ path'[n] = path[n]
              /\ order'[heap'[n].child] = order[heap[n].child]
          BY <1>3, <3>1, <3>2, <4>1
        <5> QED BY <3>1, <3>2, <4>1, <5>1 DEF Below
      <4>2. CASE heap'[n].child # heap[n].child
        <5>1. i <= Len(chain) /\ heap'[n].child = new(i) /\ path[n] = StackPath(i - 1) /\ top = 1
          BY <4>2 DEF Hangs, new
        <5>2. /\ i \in D /\ path'[n] = path[n] /\ Len(path'[new(i)]) = i
              /\ (\A j \in 1 .. i : path'[new(i)][j] = NameOf(chain[j])) /\ order'[new(i)] = 1
          BY <1>1, <1>3, <1>4, <5>1
        <5>3. Len(path[n]) = i - 1 /\ (\A j \in 1 .. i - 1 : path[n][j] = NameOf(chain[j]))
              /\ i = (i - 1) + 1 /\ \A j \in 1 .. i - 1 : j \in 1 .. i
          BY <1>1, <1>2, <5>1
        <5>4. Len(path'[new(i)]) = Len(path'[n]) + 1 /\ \A j \in 1 .. Len(path'[n]) : path'[new(i)][j] = path'[n][j]
          BY <5>2, <5>3
        <5> QED BY <5>1, <5>2, <5>4 DEF Below
      <4> QED BY <4>1, <4>2
    <3>3. ASSUME heap'[n].sibling # Null
          PROVE  Siblings(heap[n].sibling, n)' /\ order'[heap'[n].sibling] = order'[n] + 1
      <4>1. CASE heap'[n].sibling = heap[n].sibling
        <5>1. /\ heap[n].sibling \in Graph
              /\ path'[heap'[n].sibling] = path[heap[n].sibling] /\ path'[n] = path[n]
              /\ order'[heap'[n].sibling] = order[heap[n].sibling] /\ order'[n] = order[n]
          BY <1>3, <3>1, <3>3, <4>1
        <5> QED BY <3>1, <3>3, <4>1, <5>1 DEF Siblings
      <4>2. CASE heap'[n].sibling # heap[n].sibling
        <5>1. /\ i <= Len(chain) /\ heap'[n].sibling = new(i)
              /\ Len(path[n]) = i /\ \A j \in 1 .. i - 1 : path[n][j] = NameOf(chain[j])
              /\ top = order[n] + 1
          BY <4>2 DEF Hangs, new
        <5>2. /\ i \in D /\ path'[n] = path[n] /\ order'[n] = order[n] /\ Len(path'[new(i)]) = i
              /\ (\A j \in 1 .. i : path'[new(i)][j] = NameOf(chain[j])) /\ order'[new(i)] = top
          BY <1>1, <1>3, <1>4, <5>1
        <5>3. \A j \in 1 .. i - 1 : j \in 1 .. i
          BY <1>1
        <5>4. Len(path'[new(i)]) = Len(path'[n])
              /\ \A j \in 1 .. Len(path'[n]) - 1 : path'[new(i)][j] = path'[n][j]
          BY <5>1, <5>2, <5>3
        <5> QED BY <5>1, <5>2, <5>4 DEF Siblings
      <4> QED BY <4>1, <4>2
    <3>4. ASSUME n # graph' PROVE \E m \in Graph' : n \in {heap'[m].child, heap'[m].sibling}
      <4>1. PICK m \in Graph : n \in {heap[m].child, heap[m].sibling}
        BY <3>1, <3>4
      <4> QED BY <1>3, <1>10, <4>1
    <3> QED BY <1>3, <1>7, <3>1, <3>2, <3>3, <3>4
  <2>3. ASSUME NEW n, NEW d \in D, n = new(d)
        PROVE  /\ path'[n] # <<>> /\ path'[n][Len(path'[n])] = NameOf(n)'
               /\ heap'[n].child # Null => Below(heap[n].child, n)' /\ order'[heap'[n].child] = 1
               /\ heap'[n].sibling = Null
               /\ \E m \in Graph' : n \in {heap'[m].child, heap'[m].sibling}
    <3>1. /\ Len(path'[n]) = d /\ (\A j \in 1 .. d : path'[n][j] = NameOf(chain[j]))
          /\ heap'[n].child = (IF d = Len(chain) THEN Null ELSE new(d + 1)) /\ heap'[n].sibling = Null
          /\ d \in 1 .. d /\ d # 0
      BY <1>1, <1>4, <2>3
    <3>2. path'[n] # <<>> /\ path'[n][Len(path'[n])] = NameOf(n)'
      BY <1>8, <2>3, <3>1
    <3>3. ASSUME heap'[n].child # Null PROVE Below(heap[n].child, n)' /\ order'[heap'[n].child] = 1
      <4>1. d # Len(chain) /\ heap'[n].child = new(d + 1)
        BY <3>1, <3>3
      <4>2. /\ Len(path'[new(d + 1)]) = d + 1 /\ order'[new(d + 1)] = 1
            /\ \A j \in 1 .. d + 1 : path'[new(d + 1)][j] = NameOf(chain[j])
        BY <1>1, <1>4, <4>1
      <4>3. \A j \in 1 .. d : j \in 1 .. d + 1
        BY <1>1
      <4>4. Len(path'[new(d + 1)]) = Len(path'[n]) + 1 /\ \A j \in 1 .. Len(path'[n]) : path'[new(d + 1)][j] = path'[n][j]
        BY <3>1, <4>2, <4>3
      <4> QED BY <4>1, <4>2, <4>4 DEF Below
    <3>4. \E m \in Graph' : n \in {heap'[m].child, heap'[m].sibling}
      <4>1. CASE d = i
        <5>1. \E m \in Graph : new(i) \in {heap'[m].child, heap'[m].sibling}
          BY <1>1 DEF Hangs, new
        <5> QED BY <1>3, <2>3, <4>1, <5>1
      <4>2. CASE d # i
        <5>1. d - 1 \in D /\ d - 1 # Len(chain) /\ (d - 1) + 1 = d
          BY <1>1, <4>2
        <5>2. heap'[new(d - 1)].child = new(d) /\ new(d - 1) \in Graph'
          BY <1>4, <5>1
        <5> QED BY <2>3, <5>2
      <4> QED BY <4>1, <4>2
    <3> QED BY <3>1, <3>2, <3>3, <3>4
  <2>4. \A n \in Graph' :
          /\ path'[n] # <<>> /\ path'[n][Len(path'[n])] = NameOf(n)'
          /\ heap'[n].child # Null => Below(heap[n].child, n)' /\ order'[heap'[n].child] = 1
          /\ heap'[n].sibling # Null =>
               Siblings(heap[n].sibling, n)' /\ order'[heap'[n].sibling] = order'[n] + 1
          /\ n # graph' => \E m \in Graph' : n \in {heap'[m].child, heap'[m].sibling}
    BY <1>5, <2>2, <2>3
  <2> QED BY <2>1, <2>4 DEF GraphIsATree
<1> QED BY <1>11, <1>12, <1>13, <1>14 DEF TreeInv

LEMMA GrownOwners ==
  ASSUME Inv, pc = "merge", pc' = "delete", NEW i \in 1 .. Len(chain) + 1, NEW top \in Nat,
         Copies(i, top), Hangs(i, top), \A n \in DOMAIN heap : heap'[n] \in Node',
         \A n \in Stack : heap'[n] = heap[n],
         UNCHANGED <<updates, ft, graph, frames, chain, curr, depth>>
  PROVE  /\ TypeOK' /\ NodesHaveOneOwner' /\ ChainInv' /\ StackIsMerged'
         /\ Paths' = Paths \cup {StackPath(d) : d \in i .. Len(chain)}
<1> DEFINE D == i .. Len(chain)
           new(d) == NewAt(i, d)
           top2 == mallocs + (Len(chain) + 1 - i)
<1>1. /\ Len(chain) \in Nat /\ i \in Nat /\ mallocs \in Nat /\ top2 \in Nat /\ mallocs <= top2
      /\ \A d \in D : /\ d \in 1 .. Len(chain) /\ new(d) \in Nat /\ new(d) > mallocs /\ new(d) <= top2
                      /\ new(d) \notin DOMAIN heap /\ new(d) \notin Graph
                      /\ d # Len(chain) => d + 1 \in D
      /\ i <= Len(chain) => i \in D
  <2>1. Len(chain) \in Nat /\ i \in Nat /\ mallocs \in Nat /\ Len(chain) + 1 - i \in Nat
    BY NewNodes
  <2>2. top2 \in Nat /\ mallocs <= top2
    BY <2>1
  <2>3. \A d \in D : /\ d \in 1 .. Len(chain) /\ new(d) \in Nat /\ new(d) > mallocs /\ new(d) <= top2
                     /\ new(d) \notin DOMAIN heap /\ new(d) \notin Graph
    BY NewNodes
  <2>4. (\A d \in D : d # Len(chain) => d + 1 \in D) /\ (i <= Len(chain) => i \in D)
    BY <2>1
  <2> QED BY <2>1, <2>2, <2>3, <2>4
<1>2. mallocs' = top2 /\ Nodes' = 1 .. top2 /\ Nodes \subseteq Nodes' /\ \A d \in D : new(d) \in Nodes'
  <2>1. mallocs' = top2
    BY DEF Copies
  <2> HIDE DEF top2, D, new
  <2> QED BY <1>1, <2>1 DEF Nodes
<1>3. /\ DOMAIN heap' = DOMAIN heap \cup Added(i) /\ Graph' = Graph \cup Added(i)
      /\ \A d \in D : /\ heap'[new(d)] = [symbol  |-> heap[chain[d]].symbol,
                                          child   |-> IF d = Len(chain) THEN Null ELSE new(d + 1),
                                          sibling |-> Null]
                      /\ path'[new(d)] = StackPath(d)
                      /\ order'[new(d)] = (IF d = i THEN top ELSE 1)
      /\ \A n \in Graph : path'[n] = path[n] /\ order'[n] = order[n]
      /\ heap' = [n \in DOMAIN heap' |-> heap'[n]]
      /\ path' = [n \in Graph' |-> path'[n]] /\ order' = [n \in Graph' |-> order'[n]]
  BY DEF Copies
<1>4. \A n \in Added(i) : \E d \in D : n = new(d)
  BY DEF Added
<1>5. \A d \in D : new(d) \in Added(i)
  BY DEF Added
<1>6. \A d \in D : /\ StackPath(d) \in Seq(Names) /\ chain[d] \in DOMAIN heap
                   /\ heap[chain[d]].symbol \in {-1} \cup 1 .. Len(ft)
  <2>1. \A d \in 1 .. Len(chain) : d \in 0 .. Len(chain)
    OBVIOUS
  <2> QED BY <1>1, <2>1, StackPathIs, StackIsAllocated, HeapTypes DEF Inv
<1> HIDE DEF D, new, top2
<1>7. DOMAIN heap' \subseteq Nodes' /\ heap' \in [DOMAIN heap' -> Node']
  <2>1. \A n \in DOMAIN heap : n \in Nodes' /\ heap'[n] \in Node'
    BY <1>2 DEF Inv, TypeOK
  <2>2. ASSUME NEW d \in D PROVE new(d) \in Nodes' /\ heap'[new(d)] \in Node'
    <3>1. d # Len(chain) => new(d + 1) \in Nodes'
      BY <1>1, <1>2
    <3>2. heap[chain[d]].symbol \in {-1} \cup 1 .. Len(ft')
      BY <1>6
    <3>3. (IF d = Len(chain) THEN Null ELSE new(d + 1)) \in Nodes' \cup {Null}
      BY <3>1
    <3>4. heap'[new(d)] = [symbol  |-> heap[chain[d]].symbol,
                           child   |-> IF d = Len(chain) THEN Null ELSE new(d + 1),
                           sibling |-> Null]
      BY <1>3
    <3>5. heap'[new(d)] \in Node'
      BY <3>2, <3>3, <3>4 DEF Node
    <3> QED BY <1>2, <3>5
  <2>3. \A n \in DOMAIN heap' : n \in Nodes' /\ heap'[n] \in Node'
    BY <1>3, <1>4, <2>1, <2>2
  <2> QED BY <1>3, <2>3
<1>8. DOMAIN path' \subseteq Nodes' /\ path' \in [DOMAIN path' -> Seq(Names)] /\ order' \in [DOMAIN path' -> Nat]
  <2>1. \A n \in Graph : n \in Nodes' /\ path'[n] \in Seq(Names) /\ order'[n] \in Nat
    BY <1>2, <1>3 DEF Inv, TypeOK, Graph
  <2>2. \A d \in D : new(d) \in Nodes' /\ path'[new(d)] \in Seq(Names) /\ order'[new(d)] \in Nat
    <3>1. ASSUME NEW d \in D PROVE order'[new(d)] \in Nat
      <4>1. order'[new(d)] = (IF d = i THEN top ELSE 1)
        BY <1>3
      <4> QED BY <4>1
    <3>2. \A d \in D : path'[new(d)] = StackPath(d) /\ StackPath(d) \in Seq(Names)
      BY <1>3, <1>6
    <3> QED BY <1>2, <3>1, <3>2
  <2>3. \A n \in Graph' : n \in Nodes' /\ path'[n] \in Seq(Names) /\ order'[n] \in Nat
    BY <1>3, <1>4, <2>1, <2>2
  <2>4. Graph' = DOMAIN path'
    BY DEF Graph
  <2> QED BY <1>3, <2>3, <2>4
<1>9. TypeOK'
  <2>1. chain' \in Seq(Nodes')
    <3>1. chain' = chain /\ chain \in Seq(Nodes)
      BY DEF Inv, TypeOK
    <3>2. ASSUME NEW S, NEW T, S \subseteq T, NEW c \in Seq(S) PROVE c \in Seq(T)
      <4>1. c \in [1 .. Len(c) -> S] /\ Len(c) \in Nat
        BY <3>2
      <4>2. c \in [1 .. Len(c) -> T]
        BY <3>2, <4>1
      <4> QED BY <4>1, <4>2
    <3> QED BY <1>2, <3>1, <3>2
  <2>2. graph' \in Nodes' \cup {Null} /\ curr' \in Nodes' \cup {Null} /\ mallocs' \in Nat
    BY <1>1, <1>2 DEF Inv, TypeOK
  <2> QED BY <1>7, <1>8, <2>1, <2>2 DEF Inv, TypeOK
<1>10. NodesHaveOneOwner'
  <2>1. /\ DOMAIN heap = Graph \cup Stack /\ Graph \cap Stack = {} /\ Stack' = Stack
        /\ \A n \in Graph : {heap[n].child, heap[n].sibling} \subseteq Graph \cup {Null}
        /\ \A k \in 1 .. Len(chain) :
             /\ heap[chain[k]].child = (IF k = Len(chain) THEN Null ELSE chain[k + 1])
             /\ heap[chain[k]].sibling = Null
    BY DEF Inv, NodesHaveOneOwner, Stack
  <2>2. \A n \in Added(i) : n \notin Stack
    BY <1>1, <1>4, <2>1
  <2>3. DOMAIN heap' = Graph' \cup Stack' /\ Graph' \cap Stack' = {}
    BY <1>3, <2>1, <2>2
  <2>4. i <= Len(chain) => new(i) \in Graph'
    BY <1>1, <1>3, <1>5
  <2>5. \A n \in Graph : {heap'[n].child, heap'[n].sibling} \subseteq Graph' \cup {Null}
    BY <1>3, <2>1, <2>4 DEF Hangs, new
  <2>6. \A d \in D : {heap'[new(d)].child, heap'[new(d)].sibling} \subseteq Graph' \cup {Null}
    <3>1. ASSUME NEW d \in D
          PROVE  heap'[new(d)].child \in Graph' \cup {Null} /\ heap'[new(d)].sibling = Null
      <4>1. d # Len(chain) => new(d + 1) \in Graph'
        BY <1>1, <1>3, <1>5
      <4>2. /\ heap'[new(d)].child = (IF d = Len(chain) THEN Null ELSE new(d + 1))
            /\ heap'[new(d)].sibling = Null
        <5>1. heap'[new(d)] = [symbol  |-> heap[chain[d]].symbol,
                               child   |-> IF d = Len(chain) THEN Null ELSE new(d + 1),
                               sibling |-> Null]
          BY <1>3
        <5> QED BY <5>1
      <4> QED BY <4>1, <4>2
    <3> QED BY <3>1
  <2>7. \A n \in Graph' : {heap'[n].child, heap'[n].sibling} \subseteq Graph' \cup {Null}
    BY <1>3, <1>4, <2>5, <2>6
  <2>8. \A k \in 1 .. Len(chain) : heap'[chain[k]] = heap[chain[k]]
    BY DEF Stack
  <2> QED BY <2>1, <2>3, <2>7, <2>8 DEF NodesHaveOneOwner
<1>11. ChainInv'
  BY DEF Inv, ChainInv
<1>12. Paths' = Paths \cup {StackPath(d) : d \in i .. Len(chain)}
  <2>1. \A n \in Graph' : path'[n] \in Paths \cup {StackPath(d) : d \in D}
    <3>1. \A n \in Graph : path'[n] \in Paths
      BY <1>3 DEF Paths
    <3>2. \A d \in D : path'[new(d)] \in {StackPath(e) : e \in D}
      <4>1. \A d \in D : path'[new(d)] = StackPath(d)
        BY <1>3
      <4> HIDE DEF Inv
      <4> QED BY <4>1
    <3> QED BY <1>3, <1>4, <3>1, <3>2
  <2>2. \A n \in Graph : path[n] \in Paths'
    BY <1>3 DEF Paths
  <2>3. \A d \in D : StackPath(d) \in Paths'
    BY <1>3, <1>5 DEF Paths
  <2> QED BY <2>1, <2>2, <2>3 DEF Paths, D
<1>13. StackIsMerged'
  <2>1. ASSUME NEW k \in 1 .. Len(chain) PROVE StackPath(k)' = StackPath(k)
    <3>1. \A n \in DOMAIN heap : NameOf(n)' = NameOf(n)
      BY DEF NameOf, Hangs
    <3>2. \A j \in 1 .. k : chain[j] \in DOMAIN heap
      BY <1>1, StackIsAllocated DEF Inv
    <3>3. \A j \in 1 .. k : NameOf(chain[j])' = NameOf(chain[j])
      BY <3>1, <3>2
    <3> QED BY <3>3 DEF StackPath
  <2>2. ASSUME NEW k \in 1 .. Len(chain) PROVE StackPath(k) \in Paths'
    <3>1. CASE k < i
      <4>1. k \in 1 .. i - 1
        BY <1>1, <3>1
      <4> QED BY <1>12, <4>1 DEF Hangs
    <3>2. CASE k >= i
      <4>1. k \in i .. Len(chain)
        BY <1>1, <3>2
      <4> QED BY <1>12, <4>1
    <3> QED BY <1>1, <3>1, <3>2
  <2> QED BY <2>1, <2>2 DEF StackIsMerged
<1> QED BY <1>9, <1>10, <1>11, <1>12, <1>13

-----------------------------------------------------------------------------
(* Where the merge hangs the copy.                                         *)

LEMMA CopiedIs ==
  ASSUME Inv, NEW i \in 1 .. Len(chain) + 1, mallocs' = mallocs + (Len(chain) + 1 - i)
  PROVE  /\ i <= Len(chain) => Copied(i) = NewAt(i, i) /\ Copied(i) # Null
         /\ i > Len(chain) => Copied(i) = Null
         /\ Copied(i) \in Nodes' \cup {Null}
<1>1. /\ Len(chain) \in Nat /\ i \in Nat /\ mallocs \in Nat /\ Len(chain) + 1 - i \in Nat
      /\ i <= Len(chain) => /\ NewAt(i, i) \in Nat /\ NewAt(i, i) > mallocs /\ NewAt(i, i) # Null
                            /\ NewAt(i, i) <= mallocs + (Len(chain) + 1 - i)
  <2>1. Len(chain) \in Nat /\ (i <= Len(chain) => i \in i .. Len(chain))
    BY NewNodes
  <2> QED BY <2>1, NewNodes
<1>2. CASE i <= Len(chain)
  <2>1. 1 \in 1 .. Len(chain) + 1 - i /\ mallocs + 1 = mallocs + (i - i) + 1
    BY <1>1, <1>2
  <2>2. New(Len(chain) + 1 - i)[1] = mallocs + 1
    BY <2>1 DEF New
  <2>3. Copied(i) = NewAt(i, i)
    BY <1>1, <1>2, <2>1, <2>2 DEF Copied, NewAt
  <2> HIDE DEF Inv
  <2>4. NewAt(i, i) \in Nodes'
    BY <1>1, <1>2 DEF Nodes
  <2> QED BY <1>1, <1>2, <2>3, <2>4
<1>3. CASE i > Len(chain)
  BY <1>1, <1>3 DEF Copied
<1> QED BY <1>1, <1>2, <1>3

\* The new child of a function that had called nothing
LEMMA AttachChildStep ==
  ASSUME Inv, AttachChild
  PROVE  /\ Inv'
         /\ Paths' = Paths \cup {StackPath(d) : d \in depth + 1 .. Len(chain)}
         /\ \A k \in 1 .. depth : StackPath(k) \in Paths
         /\ depth \in 1 .. Len(chain)
<1> DEFINE i == depth + 1
           h == [heap EXCEPT ![curr].child = Copied(i)]
<1>1. /\ pc = "merge" /\ depth <= Len(chain) /\ Matches /\ heap[curr].child = Null /\ pc' = "delete"
      /\ Copy(i, h, 1)
      /\ UNCHANGED <<updates, ft, graph, frames, chain, curr, depth>>
  BY DEF AttachChild
<1>2. /\ curr \in Graph /\ \A k \in 1 .. depth - 1 : StackPath(k) \in Paths
      /\ Len(chain) \in Nat
  BY <1>1, HeapTypes DEF Inv, MergeInv
<1>3. depth \in 1 .. Len(chain) /\ path[curr] = StackPath(depth)
  BY <1>1, <1>2, MatchIsThePath
<1>4. /\ i \in 1 .. Len(chain) + 1 /\ i \in Nat /\ i - 1 = depth /\ i = depth + 1 /\ depth \in Nat
      /\ \A k \in 1 .. depth : k = depth \/ k \in 1 .. depth - 1
  BY <1>2, <1>3
<1> HIDE DEF i
<1>5. Copies(i, 1) /\ \A n \in DOMAIN heap : heap'[n] = h[n]
  BY <1>1, <1>4, CopyFacts
<1>6. /\ i <= Len(chain) => Copied(i) = NewAt(i, i) /\ Copied(i) # Null
      /\ i > Len(chain) => Copied(i) = Null
      /\ Copied(i) \in Nodes' \cup {Null}
  BY <1>4, <1>5, CopiedIs DEF Copies
<1>7. /\ Graph \subseteq DOMAIN heap /\ Graph \cap Stack = {} /\ Stack \subseteq DOMAIN heap
      /\ \A n \in DOMAIN heap : heap[n] = [symbol |-> heap[n].symbol, child |-> heap[n].child,
                                           sibling |-> heap[n].sibling]
      /\ \A n \in DOMAIN heap : /\ heap[n].symbol \in {-1} \cup 1 .. Len(ft)
                                /\ heap[n].child \in Nodes \cup {Null}
                                /\ heap[n].sibling \in Nodes \cup {Null}
  BY HeapTypes DEF Inv, NodesHaveOneOwner
<1>8. /\ \A n \in DOMAIN heap : n # curr => heap'[n] = heap[n]
      /\ heap'[curr] = [symbol |-> heap[curr].symbol, child |-> Copied(i), sibling |-> heap[curr].sibling]
  BY <1>2, <1>5, <1>7
<1> HIDE DEF h
<1>9. \A n \in DOMAIN heap : heap'[n].symbol = heap[n].symbol /\ heap'[n].sibling = heap[n].sibling
  BY <1>8
<1>10. heap'[curr].child = Copied(i)
  BY <1>8
<1>11. \A k \in 1 .. i - 1 : StackPath(k) \in Paths
  BY <1>2, <1>3, <1>4 DEF Paths
<1>12. ASSUME NEW n \in Graph, Len(path[n]) = i, \A j \in 1 .. i - 1 : path[n][j] = NameOf(chain[j]) PROVE FALSE
  <2>1. depth \in 0 .. Len(chain)
    BY <1>2, <1>3
  <2>2. Len(path[curr]) = depth /\ \A j \in 1 .. depth : path[curr][j] = NameOf(chain[j])
    BY <1>3, <2>1, StackPathIs DEF Inv
  <2>3. Len(path[n]) = Len(path[curr]) + 1 /\ \A j \in 1 .. Len(path[curr]) : path[n][j] = path[curr][j]
    BY <1>4, <1>12, <2>2
  <2> QED BY <1>1, <1>2, <2>3 DEF Inv, TreeInv, OrderInv, Below
<1>13. i <= Len(chain) => StackPath(i) \notin Paths
  <2>1. ASSUME i <= Len(chain), NEW n \in Graph, path[n] = StackPath(i) PROVE FALSE
    <3>1. i \in 0 .. Len(chain) /\ \A j \in 1 .. i - 1 : j \in 1 .. i
      BY <1>2, <1>4, <2>1
    <3>2. Len(path[n]) = i /\ \A j \in 1 .. i : path[n][j] = NameOf(chain[j])
      BY <2>1, <3>1, StackPathIs DEF Inv
    <3> QED BY <1>12, <3>1, <3>2
  <2> QED BY <2>1 DEF Paths
<1>14. ASSUME i <= Len(chain), NEW n \in Graph, path[n] = StackPath(i - 1) PROVE n = curr /\ heap'[n].child # Null
  <2>1. n = curr
    BY <1>2, <1>3, <1>4, <1>14 DEF Inv, TreeInv, CallPathsOccurOnce
  <2> QED BY <1>6, <1>10, <1>14, <2>1
<1>15. \A n \in Graph :
         \/ heap'[n].child = heap[n].child
         \/ /\ i <= Len(chain) /\ heap[n].child = Null /\ heap'[n].child = NewAt(i, i)
            /\ path[n] = StackPath(i - 1)
  <2>1. CASE i <= Len(chain)
    BY <1>1, <1>3, <1>4, <1>6, <1>7, <1>8, <1>10, <2>1
  <2>2. CASE i > Len(chain)
    BY <1>1, <1>6, <1>7, <1>8, <1>10, <2>2
  <2> QED BY <1>2, <1>4, <2>1, <2>2
<1>16. Hangs(i, 1)
  <2>1. i <= Len(chain) => \E m \in Graph : NewAt(i, i) \in {heap'[m].child, heap'[m].sibling}
    BY <1>2, <1>6, <1>10
  <2> QED BY <1>7, <1>9, <1>11, <1>12, <1>13, <1>14, <1>15, <2>1 DEF Hangs
<1>17. \A n \in DOMAIN heap : heap'[n] \in Node'
  <2>1. /\ \A n \in DOMAIN heap : /\ heap[n].symbol \in {-1} \cup 1 .. Len(ft')
                                  /\ heap[n].child \in Nodes' \cup {Null}
                                  /\ heap[n].sibling \in Nodes' \cup {Null}
    <3>1. mallocs \in Nat /\ mallocs' \in Nat /\ mallocs <= mallocs'
      <4>1. mallocs' = mallocs + (Len(chain) + 1 - i)
        BY <1>5 DEF Copies
      <4> QED BY <1>4, <4>1, NewNodes
    <3>2. \A n \in Nodes : n \in Nodes'
      BY <3>1 DEF Nodes
    <3> QED BY <1>1, <1>7, <3>2
  <2>2. \A n \in DOMAIN heap : n # curr => heap'[n] \in Node'
    BY <1>7, <1>8, <2>1 DEF Node
  <2>3. heap'[curr] \in Node'
    BY <1>2, <1>6, <1>7, <1>8, <2>1 DEF Node
  <2> QED BY <2>2, <2>3
<1>18. \A n \in Stack : heap'[n] = heap[n]
  BY <1>2, <1>7, <1>8
<1>19. graph # Null
  BY <1>1 DEF Inv, ChainInv
<1>20. TreeInv'
  BY <1>1, <1>4, <1>5, <1>16, <1>19, GrownTree
<1>21. /\ TypeOK' /\ NodesHaveOneOwner' /\ ChainInv' /\ StackIsMerged'
       /\ Paths' = Paths \cup {StackPath(d) : d \in i .. Len(chain)}
  BY <1>1, <1>4, <1>5, <1>16, <1>17, <1>18, GrownOwners
<1>22. Inv'
  BY <1>1, <1>20, <1>21 DEF Inv, TableInv, MergeInv
<1> QED BY <1>3, <1>4, <1>11, <1>21, <1>22

\* The new callee of a function behind those that it had
LEMMA AttachSiblingStep ==
  ASSUME Inv, AttachSibling
  PROVE  /\ Inv'
         /\ Paths' = Paths \cup {StackPath(d) : d \in depth .. Len(chain)}
         /\ \A k \in 1 .. depth - 1 : StackPath(k) \in Paths
         /\ depth \in 1 .. Len(chain)
<1> DEFINE h == [heap EXCEPT ![curr].sibling = Copied(depth)]
           top == order[curr] + 1
<1>1. /\ pc = "merge" /\ depth <= Len(chain) /\ ~Matches /\ heap[curr].sibling = Null /\ pc' = "delete"
      /\ Copy(depth, h, top)
      /\ UNCHANGED <<updates, ft, graph, frames, chain, curr, depth>>
  BY DEF AttachSibling
<1>2. /\ curr \in Graph /\ depth \in 1 .. Len(chain) + 1 /\ Len(path[curr]) = depth
      /\ \A j \in 1 .. depth - 1 : path[curr][j] = NameOf(chain[j])
      /\ \A k \in 1 .. depth - 1 : StackPath(k) \in Paths
      /\ \A m \in Graph : Siblings(m, curr) /\ order[m] < order[curr] =>
                             heap[m].symbol # heap[chain[depth]].symbol
      /\ Len(chain) \in Nat
  BY <1>1, HeapTypes DEF Inv, MergeInv
<1>3. /\ depth \in 1 .. Len(chain) /\ depth \in 0 .. Len(chain) /\ depth \in Nat
      /\ \A n \in Graph : order[n] \in Nat /\ path[n] \in Seq(Names)
  BY <1>1, <1>2, HeapTypes DEF Inv
<1>4. top \in Nat /\ top >= 1 /\ \A x \in Nat : x <= order[curr] => x < top
  BY <1>2, <1>3
<1>5. Copies(depth, top) /\ \A n \in DOMAIN heap : heap'[n] = h[n]
  BY <1>1, <1>2, CopyFacts
<1>6. Copied(depth) = NewAt(depth, depth) /\ Copied(depth) # Null /\ Copied(depth) \in Nodes' \cup {Null}
  BY <1>1, <1>2, <1>5, CopiedIs DEF Copies
<1>7. /\ Graph \subseteq DOMAIN heap /\ Graph \cap Stack = {} /\ Stack \subseteq DOMAIN heap
      /\ \A n \in DOMAIN heap : heap[n] = [symbol |-> heap[n].symbol, child |-> heap[n].child,
                                           sibling |-> heap[n].sibling]
      /\ \A n \in DOMAIN heap : /\ heap[n].symbol \in {-1} \cup 1 .. Len(ft)
                                /\ heap[n].child \in Nodes \cup {Null}
                                /\ heap[n].sibling \in Nodes \cup {Null}
  BY HeapTypes DEF Inv, NodesHaveOneOwner
<1>8. /\ \A n \in DOMAIN heap : n # curr => heap'[n] = heap[n]
      /\ heap'[curr] = [symbol |-> heap[curr].symbol, child |-> heap[curr].child, sibling |-> Copied(depth)]
  BY <1>2, <1>5, <1>7
<1> HIDE DEF h
<1>9. \A n \in DOMAIN heap : heap'[n].symbol = heap[n].symbol /\ heap'[n].child = heap[n].child
  BY <1>8
<1>10. heap'[curr].sibling = Copied(depth)
  BY <1>8
\* The node that the merge stands at is the last of its siblings.
<1>11. ASSUME NEW n \in Graph, Len(path[n]) = depth, \A j \in 1 .. depth - 1 : path[n][j] = NameOf(chain[j])
       PROVE  /\ Siblings(n, curr) /\ Siblings(curr, n) /\ order[n] <= order[curr] /\ order[n] < top
              /\ heap'[n].sibling # Null
  <2>1. Siblings(n, curr) /\ Siblings(curr, n)
    BY <1>2, <1>11 DEF Siblings
  <2>2. order[n] <= order[curr]
    BY <1>1, <1>2, <2>1 DEF Inv, TreeInv, OrderInv
  <2>3. ASSUME heap[n].sibling = Null PROVE n = curr
    <3>1. order[curr] <= order[n]
      BY <1>2, <2>1, <2>3 DEF Inv, TreeInv, OrderInv
    <3>2. order[n] = order[curr]
      BY <1>2, <1>3, <2>2, <3>1
    <3> QED BY <1>2, <2>1, <3>2 DEF Inv, TreeInv, OrderInv
  <2>4. heap'[n].sibling # Null
    BY <1>6, <1>7, <1>8, <1>10, <2>3
  <2> QED BY <1>3, <1>4, <2>1, <2>2, <2>4
<1>12. StackPath(depth) \notin Paths
  <2>1. ASSUME NEW n \in Graph, path[n] = StackPath(depth) PROVE FALSE
    <3>1. Len(path[n]) = depth /\ \A j \in 1 .. depth : path[n][j] = NameOf(chain[j])
      BY <1>3, <2>1, StackPathIs DEF Inv
    <3>2. depth \in 1 .. depth /\ \A j \in 1 .. depth - 1 : j \in 1 .. depth
      BY <1>3
    <3>3. Siblings(n, curr) /\ order[n] <= order[curr]
      BY <1>11, <3>1, <3>2
    <3>4. NameOf(n) = NameOf(chain[depth])
      BY <3>1, <3>2 DEF Inv, TreeInv, GraphIsATree
    <3>5. heap[n].symbol = heap[chain[depth]].symbol
      BY <1>3, <1>7, <3>4, StackIsAllocated, SymbolsAreNames DEF Inv
    <3>6. ~(order[n] < order[curr])
      BY <1>2, <3>3, <3>5
    <3>7. order[n] = order[curr]
      BY <1>2, <1>3, <3>3, <3>6
    <3>8. n = curr
      BY <1>2, <3>3, <3>7 DEF Inv, TreeInv, OrderInv
    <3> QED BY <1>1, <3>5, <3>8 DEF Matches
  <2> QED BY <2>1 DEF Paths
\* Whose callee it is has a first one.
<1>13. ASSUME NEW n \in Graph, path[n] = StackPath(depth - 1) PROVE heap'[n].child # Null
  <2>1. depth - 1 \in 0 .. Len(chain) /\ depth = (depth - 1) + 1
    BY <1>3
  <2>2. Len(path[n]) = depth - 1 /\ \A j \in 1 .. depth - 1 : path[n][j] = NameOf(chain[j])
    BY <1>13, <2>1, StackPathIs DEF Inv
  <2>3. Len(path[curr]) = Len(path[n]) + 1 /\ \A j \in 1 .. Len(path[n]) : path[curr][j] = path[n][j]
    BY <1>2, <2>1, <2>2
  <2>4. heap[n].child # Null
    BY <1>2, <2>3 DEF Inv, TreeInv, OrderInv, Below
  <2> QED BY <1>7, <1>9, <2>4
<1>14. \A n \in Graph :
         \/ heap'[n].sibling = heap[n].sibling
         \/ /\ heap[n].sibling = Null /\ heap'[n].sibling = NewAt(depth, depth)
            /\ Len(path[n]) = depth /\ \A j \in 1 .. depth - 1 : path[n][j] = NameOf(chain[j])
            /\ top = order[n] + 1
  BY <1>1, <1>2, <1>6, <1>7, <1>8, <1>10
<1>15. Hangs(depth, top)
  <2>1. \E m \in Graph : NewAt(depth, depth) \in {heap'[m].child, heap'[m].sibling}
    BY <1>2, <1>6, <1>10
  <2> HIDE DEF top
  <2> QED BY <1>1, <1>2, <1>7, <1>9, <1>11, <1>12, <1>13, <1>14, <2>1 DEF Hangs
<1>16. \A n \in DOMAIN heap : heap'[n] \in Node'
  <2>1. /\ \A n \in DOMAIN heap : /\ heap[n].symbol \in {-1} \cup 1 .. Len(ft')
                                  /\ heap[n].child \in Nodes' \cup {Null}
                                  /\ heap[n].sibling \in Nodes' \cup {Null}
    <3>1. mallocs \in Nat /\ mallocs' \in Nat /\ mallocs <= mallocs'
      <4>1. mallocs' = mallocs + (Len(chain) + 1 - depth)
        BY <1>5 DEF Copies
      <4> QED BY <1>2, <4>1, NewNodes
    <3>2. \A n \in Nodes : n \in Nodes'
      BY <3>1 DEF Nodes
    <3> QED BY <1>1, <1>7, <3>2
  <2>2. \A n \in DOMAIN heap : n # curr => heap'[n] \in Node'
    BY <1>7, <1>8, <2>1 DEF Node
  <2>3. heap'[curr] \in Node'
    BY <1>2, <1>6, <1>7, <1>8, <2>1 DEF Node
  <2> QED BY <2>2, <2>3
<1>17. \A n \in Stack : heap'[n] = heap[n]
  BY <1>2, <1>7, <1>8
<1>18. graph # Null
  BY <1>1 DEF Inv, ChainInv
<1> HIDE DEF top
<1>19. TreeInv'
  BY <1>1, <1>2, <1>4, <1>5, <1>15, <1>18, GrownTree
<1>20. /\ TypeOK' /\ NodesHaveOneOwner' /\ ChainInv' /\ StackIsMerged'
       /\ Paths' = Paths \cup {StackPath(d) : d \in depth .. Len(chain)}
  BY <1>1, <1>2, <1>4, <1>5, <1>15, <1>16, <1>17, GrownOwners
<1>21. Inv'
  BY <1>1, <1>19, <1>20 DEF Inv, TableInv, MergeInv
<1> QED BY <1>2, <1>3, <1>20, <1>21

-----------------------------------------------------------------------------
(* The theorems.                                                           *)

LEMMA InitInv == Init => Inv
<1> SUFFICES ASSUME Init PROVE Inv
  OBVIOUS
<1>1. /\ heap = <<>> /\ mallocs = 0 /\ updates = 0 /\ ft = <<>> /\ graph = Null /\ pc = "running" /\ frames = <<>>
      /\ chain = <<>> /\ curr = Null /\ depth = 0 /\ path = <<>> /\ order = <<>>
  BY DEF Init
<1>2. DOMAIN heap = {} /\ Graph = {} /\ Stack = {} /\ 1 .. Len(ft) = {} /\ 1 .. Len(chain) = {}
  BY <1>1 DEF Graph, Stack
<1>3. TypeOK
  BY <1>1 DEF TypeOK, Node, Nodes
<1>4. NodesHaveOneOwner /\ TableInv /\ ChainInv
  BY <1>1, <1>2 DEF NodesHaveOneOwner, TableInv, ChainInv
<1>5. TreeInv
  BY <1>1, <1>2 DEF TreeInv, GraphIsATree, CallPathsOccurOnce, Callers, OrderInv
<1> QED BY <1>1, <1>3, <1>4, <1>5 DEF Inv, MergeInv, StackIsMerged

LEMMA StutterInv == Inv /\ UNCHANGED vars => Inv'
<1> SUFFICES ASSUME Inv, UNCHANGED vars PROVE Inv'
  OBVIOUS
<1>1. UNCHANGED <<heap, mallocs, updates, ft, graph, pc, frames, chain, curr, depth, path, order>>
  BY DEF vars
<1>2. TypeOK'
  BY <1>1 DEF Inv, TypeOK, Node, Nodes
<1>3. NodesHaveOneOwner' /\ TableInv' /\ ChainInv'
  BY <1>1 DEF Inv, NodesHaveOneOwner, Graph, Stack, TableInv, ChainInv
<1>4. TreeInv'
  BY <1>1, TreeStays DEF Inv, NameOf
<1>5. /\ \A k : StackPath(k)' = StackPath(k)
      /\ \A n : NameOf(n)' = NameOf(n)
      /\ \A m, n : Siblings(m, n)' <=> Siblings(m, n)
      /\ Graph' = Graph /\ Paths' = Paths
  BY <1>1 DEF StackPath, NameOf, Siblings, Graph, Paths
<1>6. MergeInv'
  BY <1>1, <1>5 DEF Inv, MergeInv
<1>7. StackIsMerged'
  BY <1>1, <1>5 DEF Inv, StackIsMerged
<1> QED BY <1>2, <1>3, <1>4, <1>6, <1>7 DEF Inv, TableInv

\* Every step keeps the invariant: who owns the nodes, what the tree is, and what
\* the merge has looked at.
THEOREM CallGraphInvariance == Spec => []Inv
<1>1. Inv /\ [Next]_vars => Inv'
  <2> SUFFICES ASSUME Inv, [Next]_vars PROVE Inv'
    OBVIOUS
  <2>1. CASE UNCHANGED vars
    BY <2>1, StutterInv
  <2>2. ASSUME NEW s \in Stacks, Interrupt(s) PROVE Inv'
    BY <2>2, InterruptStep
  <2>3. CASE WalkFrame
    BY <2>3, WalkStep
  <2>4. CASE KeepStack
    BY <2>4, KeepStep
  <2>5. CASE StartMerge
    BY <2>5, StartMergeStep
  <2>6. CASE MergeAlong
    BY <2>6, MergeAlongStep
  <2>7. CASE AttachSibling
    BY <2>7, AttachSiblingStep
  <2>8. CASE MergeDown
    BY <2>8, MergeDownStep
  <2>9. CASE AttachChild
    BY <2>9, AttachChildStep
  <2>10. CASE MergeEnds
    BY <2>10, MergeEndsStep
  <2>11. CASE DeleteStack
    BY <2>11, DeleteStep
  <2>12. CASE WalkExits
    BY <2>12, WalkExitsStep
  <2> QED BY <2>1, <2>2, <2>3, <2>12, <2>4, <2>5, <2>6, <2>7, <2>8, <2>9, <2>10, <2>11 DEF Next, Update
<1> QED BY <1>1, InitInv, PTL DEF Spec

\* The variables of the graph's code have the types that it gives them.
THEOREM TypeCorrectness == Spec => []TypeOK
<1>1. Inv => TypeOK
  BY DEF Inv
<1> QED BY <1>1, CallGraphInvariance, PTL

\* ME_CG_delete(stack) frees no node of the graph, and no merge leaks one.
THEOREM OwnersAreUnique == Spec => []NodesHaveOneOwner
<1>1. Inv => NodesHaveOneOwner
  BY DEF Inv
<1> QED BY <1>1, CallGraphInvariance, PTL

\* ME_CG_merge_stack finds the node of a call path if there is one: no path twice.
THEOREM PathsAreUnique == Spec => []CallPathsOccurOnce
<1>1. Inv => CallPathsOccurOnce
  BY DEF Inv, TreeInv
<1> QED BY <1>1, CallGraphInvariance, PTL

\* No stack is freed before all of it is in the graph.
THEOREM StacksAreMerged == Spec => []StackIsMerged
<1>1. Inv => StackIsMerged
  BY DEF Inv
<1> QED BY <1>1, CallGraphInvariance, PTL

\* child and sibling link a tree, from which every node's call path can be read.
THEOREM LinksFormATree == Spec => []GraphIsATree
<1>1. Inv => GraphIsATree
  BY DEF Inv, TreeInv
<1> QED BY <1>1, CallGraphInvariance, PTL

\* The paths of a stack are those of its frames: a step of the abstract tree.
LEMMA StackIsACallPath ==
  ASSUME Inv, Len(chain) \in 1 .. MaxFrames
  PROVE  /\ StackPath(Len(chain)) \in Tree!CallPaths
         /\ Tree!Prefixes(StackPath(Len(chain))) = {StackPath(k) : k \in 1 .. Len(chain)}
<1> DEFINE L == Len(chain)
           s == StackPath(L)
<1>1. L \in 1 .. MaxFrames /\ L \in 0 .. L /\ L \in Nat
  BY CallGraphAssumption
<1>2. s \in Seq(Names) /\ Len(s) = L
  BY <1>1, StackPathIs DEF Inv
<1>3. s \in [1 .. L -> Names]
  BY <1>2
<1>4. s \in Tree!CallPaths
  BY <1>1, <1>3 DEF Tree!CallPaths
<1>5. \A n \in 1 .. L : [k \in 1 .. n |-> s[k]] = StackPath(n)
  BY <1>1 DEF StackPath
<1> HIDE DEF s
<1>6. Tree!Prefixes(s) = {[k \in 1 .. n |-> s[k]] : n \in 1 .. L}
  BY <1>2 DEF Tree!Prefixes
<1>7. {[k \in 1 .. n |-> s[k]] : n \in 1 .. L} = {StackPath(n) : n \in 1 .. L}
  BY <1>5
<1> QED BY <1>4, <1>6, <1>7 DEF s

\* The code implements the abstract call tree: an update adds the call paths of
\* the stack that was taken, all of them and no other.
THEOREM GraphImplementsCallTree == Spec => GraphIsACallTree
<1>1. Init => Tree!Init
  BY DEF Init, Tree!Init, Paths, Graph
<1>2. ASSUME Inv, [Next]_vars PROVE [Tree!Next]_Paths
  <2> SUFFICES ASSUME Paths' # Paths PROVE Tree!Next
    OBVIOUS
  <2>1. ASSUME Len(chain) \in 1 .. MaxFrames, Paths' = Paths \cup {StackPath(k) : k \in 1 .. Len(chain)}
        PROVE  Tree!Next
    <3>1. /\ StackPath(Len(chain)) \in Tree!CallPaths
          /\ Tree!Prefixes(StackPath(Len(chain))) = {StackPath(k) : k \in 1 .. Len(chain)}
      BY <1>2, <2>1, StackIsACallPath
    <3> QED BY <2>1, <3>1 DEF Tree!Next, Tree!Merge
  <2>2. ASSUME NEW i \in 1 .. Len(chain) + 1, \A k \in 1 .. i - 1 : StackPath(k) \in Paths,
               Paths' = Paths \cup {StackPath(k) : k \in i .. Len(chain)}
        PROVE  Paths' = Paths \cup {StackPath(k) : k \in 1 .. Len(chain)}
    <3>1. Len(chain) \in Nat
      BY <1>2, HeapTypes DEF Inv
    <3>2. \A k \in 1 .. Len(chain) : k \in 1 .. i - 1 \/ k \in i .. Len(chain)
      BY <3>1
    <3>3. \A k \in i .. Len(chain) : k \in 1 .. Len(chain)
      BY <3>1
    <3> QED BY <2>2, <3>2, <3>3
  <2>3. pc # "running" /\ chain # <<>> => Len(chain) \in 1 .. MaxFrames
    <3>1. Len(chain) \in Nat /\ (chain # <<>> => Len(chain) # 0) /\ (pc # "running" => Len(chain) <= MaxFrames)
      BY <1>2 DEF Inv, TypeOK, ChainInv
    <3> QED BY <3>1, CallGraphAssumption
  <2>4. CASE UNCHANGED path
    BY <2>4 DEF Paths, Graph
  <2>5. CASE KeepStack
    <3>1. Paths = {} /\ Paths' = {StackPath(k) : k \in 1 .. Len(chain)}
      BY <1>2, <2>5, KeepStep
    <3>2. pc = "walk" /\ frames = <<>>
      BY <2>5 DEF KeepStack
    <3>3. Len(chain) \in 1 .. MaxFrames
      <4>1. Len(frames) = 0 /\ Len(chain) \in Nat
        BY <1>2, <3>2 DEF Inv, TypeOK
      <4> QED BY <1>2, <3>2, <4>1, CallGraphAssumption DEF Inv, ChainInv
    <3> QED BY <2>1, <3>1, <3>3
  <2>6. CASE AttachSibling
    <3>1. /\ Paths' = Paths \cup {StackPath(d) : d \in depth .. Len(chain)}
          /\ \A k \in 1 .. depth - 1 : StackPath(k) \in Paths
          /\ depth \in 1 .. Len(chain)
      BY <1>2, <2>6, AttachSiblingStep
    <3>2. depth \in 1 .. Len(chain) + 1 /\ pc = "merge" /\ Len(chain) \in 1 .. MaxFrames
      BY <1>2, <2>3, <2>6, <3>1 DEF AttachSibling, Inv, ChainInv
    <3> QED BY <2>1, <2>2, <3>1, <3>2
  <2>7. CASE AttachChild
    <3>1. /\ Paths' = Paths \cup {StackPath(d) : d \in depth + 1 .. Len(chain)}
          /\ \A k \in 1 .. depth : StackPath(k) \in Paths
          /\ depth \in 1 .. Len(chain)
      BY <1>2, <2>7, AttachChildStep
    <3>2. depth + 1 \in 1 .. Len(chain) + 1 /\ (depth + 1) - 1 = depth
      BY <3>1
    <3>3. pc = "merge" /\ Len(chain) \in 1 .. MaxFrames
      BY <1>2, <2>3, <2>7 DEF AttachChild, Inv, ChainInv
    <3> QED BY <2>1, <2>2, <3>1, <3>2, <3>3
  <2> QED
    BY <1>2, <2>4, <2>5, <2>6, <2>7
    DEF Next, Update, vars, Interrupt, WalkFrame, WalkExits, StartMerge, MergeAlong, MergeDown, MergeEnds, DeleteStack
<1> QED BY <1>1, <1>2, CallGraphInvariance, PTL DEF Spec, GraphIsACallTree, Tree!Spec

-----------------------------------------------------------------------------
(* Recursion along the links of a heap, and the numbers of the flat form:  *)
(* ME_CG_count, ME_CG_encode_h and ME_CG_decode_h on any heap without a    *)
(* cycle.                                                                  *)

\* Induction over the numbers, for a set of them: the relation < has no infinite
\* descent, so that there would be a least number that is not in S.
LEMMA SetInduction ==
  ASSUME NEW S \in SUBSET Nat, 0 \in S, \A n \in S : n + 1 \in S
  PROVE  S = Nat
<1> SUFFICES ASSUME S # Nat PROVE FALSE
  OBVIOUS
<1> DEFINE T == Nat \ S
<1> DEFINE R == OpToRel(<, Nat)
<1>1. IsWellFoundedOn(R, Nat)
  BY NatLessThanWellFounded
<1>2. PICK x \in T : \A y \in T : ~ (<<y, x>> \in R)
  <2> T \subseteq Nat /\ T # {}
    OBVIOUS
  <2> HIDE DEF T, R
  <2> QED BY <1>1, WFMin
<1>3. x \in Nat /\ x # 0
  OBVIOUS
<1>4. x - 1 \in Nat /\ x - 1 < x
  BY <1>3
<1>5. x - 1 \in S
  BY <1>2, <1>4 DEF OpToRel
<1>6. (x - 1) + 1 = x
  BY <1>3
<1> QED BY <1>5, <1>6

\* Every link of the heap leads to a node of a lower rank, or nowhere: a
\* recursion along the links, like those of ME_CG_*_h, comes to an end.
Ranked(h, r, K) ==
  /\ 0 \notin DOMAIN h /\ K \in Nat
  /\ \A n \in DOMAIN h : r[n] \in Nat /\ r[n] < K
  /\ \A n \in DOMAIN h : \A l \in {h[n].child, h[n].sibling} : l = 0 \/ (l \in DOMAIN h /\ r[l] < r[n])

\* The nodes of which such a recursion is done after k rounds
Upto(h, r, k) == {0} \cup {n \in DOMAIN h : r[n] < k}

\* Both links of a node are done one round before it.
LEMMA UptoFacts ==
  ASSUME NEW h, NEW r, NEW K, Ranked(h, r, K)
  PROVE  /\ Upto(h, r, 0) = {0} /\ Upto(h, r, K) = Data!Links(h)
         /\ \A k \in Nat : \A n \in Upto(h, r, k + 1) :
              n # 0 => n \in DOMAIN h /\ h[n].child \in Upto(h, r, k) /\ h[n].sibling \in Upto(h, r, k)
         /\ \A k \in Nat : Upto(h, r, k) \subseteq Upto(h, r, k + 1) 
BY DEF Ranked, Upto, Data!Links, Data!NULL

\* The body of ME_CG_count
CountStep(h, f, cg) == IF cg = 0 THEN 0 ELSE 1 + f[h[cg].sibling] + f[h[cg].child]

\* CG_count satisfies its recursive equation.
LEMMA CountIs ==
  ASSUME NEW h, NEW r, NEW K, Ranked(h, r, K)
  PROVE  Data!CG_count(h) = [cg \in Data!Links(h) |-> CountStep(h, Data!CG_count(h), cg)]
<1> DEFINE U(k) == Upto(h, r, k)
           Good(k) == \E f : f = [cg \in U(k) |-> CountStep(h, f, cg)]
           N == {k \in Nat : Good(k)}
<1>1. Good(0)
  <2> WITNESS [cg \in U(0) |-> 0]
  <2> QED BY UptoFacts DEF CountStep
<1>2. ASSUME NEW k \in Nat, Good(k) PROVE Good(k + 1)
  <2>1. PICK f : f = [cg \in U(k) |-> CountStep(h, f, cg)]
    BY <1>2
  <2> DEFINE g == [cg \in U(k + 1) |-> CountStep(h, f, cg)]
  <2>2. \A cg \in U(k) : g[cg] = f[cg]
    BY <2>1, UptoFacts
  <2>3. \A cg \in U(k + 1) : CountStep(h, f, cg) = CountStep(h, g, cg)
    <3> HIDE DEF g
    <3> QED BY <2>2, UptoFacts DEF CountStep
  <2>4. g = [cg \in U(k + 1) |-> CountStep(h, f, cg)]
    OBVIOUS
  <2>5. g = [cg \in U(k + 1) |-> CountStep(h, g, cg)]
    <3> HIDE DEF g, U
    <3> QED BY <2>3, <2>4
  <2> HIDE DEF g
  <2> QED BY <2>5
<1>3. N = Nat
  <2>1. N \in SUBSET Nat /\ 0 \in N /\ \A n \in N : n + 1 \in N
    <3> HIDE DEF Good
    <3> QED BY <1>1, <1>2
  <2> HIDE DEF N
  <2> QED BY <2>1, SetInduction
<1>4. \E f : f = [cg \in Data!Links(h) |-> CountStep(h, f, cg)]
  <2>1. K \in Nat /\ U(K) = Data!Links(h)
    BY UptoFacts DEF Ranked
  <2>2. Good(K)
    <3> HIDE DEF Good
    <3> QED BY <1>3, <2>1
  <2> HIDE DEF U
  <2> QED BY <2>1, <2>2
<1>5. Data!CG_count(h) = CHOOSE f : f = [cg \in Data!Links(h) |-> CountStep(h, f, cg)]
  BY DEF Data!CG_count, CountStep, Data!NULL
<1> QED BY <1>4, <1>5

\* The node at an address, with what its links lead to in place of them
ValueStep(h, f, cg) ==
  IF cg = 0 THEN Data!Null ELSE Data!Node(h[cg].symbol, f[h[cg].child], f[h[cg].sibling])

\* CG satisfies its recursive equation.
LEMMA ValueIs ==
  ASSUME NEW h, NEW r, NEW K, Ranked(h, r, K)
  PROVE  Data!CG(h) = [cg \in Data!Links(h) |-> ValueStep(h, Data!CG(h), cg)]
<1> DEFINE U(k) == Upto(h, r, k)
           Good(k) == \E f : f = [cg \in U(k) |-> ValueStep(h, f, cg)]
           N == {k \in Nat : Good(k)}
<1>1. Good(0)
  <2> WITNESS [cg \in U(0) |-> Data!Null]
  <2> QED BY UptoFacts DEF ValueStep
<1>2. ASSUME NEW k \in Nat, Good(k) PROVE Good(k + 1)
  <2>1. PICK f : f = [cg \in U(k) |-> ValueStep(h, f, cg)]
    BY <1>2
  <2> DEFINE g == [cg \in U(k + 1) |-> ValueStep(h, f, cg)]
  <2>2. \A cg \in U(k) : g[cg] = f[cg]
    BY <2>1, UptoFacts
  <2>3. \A cg \in U(k + 1) : ValueStep(h, f, cg) = ValueStep(h, g, cg)
    <3> HIDE DEF g
    <3> QED BY <2>2, UptoFacts DEF ValueStep
  <2>4. g = [cg \in U(k + 1) |-> ValueStep(h, f, cg)]
    OBVIOUS
  <2>5. g = [cg \in U(k + 1) |-> ValueStep(h, g, cg)]
    <3> HIDE DEF g, U
    <3> QED BY <2>3, <2>4
  <2> HIDE DEF g
  <2> QED BY <2>5
<1>3. N = Nat
  <2>1. N \in SUBSET Nat /\ 0 \in N /\ \A n \in N : n + 1 \in N
    <3> HIDE DEF Good
    <3> QED BY <1>1, <1>2
  <2> HIDE DEF N
  <2> QED BY <2>1, SetInduction
<1>4. \E f : f = [cg \in Data!Links(h) |-> ValueStep(h, f, cg)]
  <2>1. K \in Nat /\ U(K) = Data!Links(h)
    BY UptoFacts DEF Ranked
  <2>2. Good(K)
    <3> HIDE DEF Good
    <3> QED BY <1>3, <2>1
  <2> HIDE DEF U
  <2> QED BY <2>1, <2>2
<1>5. Data!CG(h) = CHOOSE f : f = [cg \in Data!Links(h) |-> ValueStep(h, f, cg)]
  BY DEF Data!CG, ValueStep, Data!NULL
<1> QED BY <1>4, <1>5

\* The numbers that ME_CG_encode_h writes of a node, around those of its child
\* and its sibling
FlatOf(n, next, child, sibling) ==
  <<n.symbol, IF n.child = 0 THEN -1 ELSE next + 3,
    IF n.sibling = 0 THEN -1 ELSE next + 3 + Len(child)>> \o child \o sibling

\* The body of ME_CG_encode_h
EncodeStep(h, f, cg) ==
  [next \in Nat |->
     IF cg = 0 THEN <<>>
     ELSE FlatOf(h[cg], next, f[h[cg].child][next + 3],
                 f[h[cg].sibling][next + 3 + Len(f[h[cg].child][next + 3])])]

\* CG_encode satisfies its recursive equation.
LEMMA EncodeIs ==
  ASSUME NEW h, NEW r, NEW K, Ranked(h, r, K)
  PROVE  Data!CG_encode(h) = [cg \in Data!Links(h) |-> EncodeStep(h, Data!CG_encode(h), cg)]
<1> DEFINE U(k) == Upto(h, r, k)
           Good(k) == \E f : f = [cg \in U(k) |-> EncodeStep(h, f, cg)]
           N == {k \in Nat : Good(k)}
<1>1. Good(0)
  <2> WITNESS [cg \in U(0) |-> [next \in Nat |-> <<>>]]
  <2> QED BY UptoFacts DEF EncodeStep
<1>2. ASSUME NEW k \in Nat, Good(k) PROVE Good(k + 1)
  <2>1. PICK f : f = [cg \in U(k) |-> EncodeStep(h, f, cg)]
    BY <1>2
  <2> DEFINE g == [cg \in U(k + 1) |-> EncodeStep(h, f, cg)]
  <2>2. \A cg \in U(k) : g[cg] = f[cg]
    BY <2>1, UptoFacts
  <2>3. \A cg \in U(k + 1) : EncodeStep(h, f, cg) = EncodeStep(h, g, cg)
    <3> HIDE DEF g
    <3> QED BY <2>2, UptoFacts DEF EncodeStep
  <2>4. g = [cg \in U(k + 1) |-> EncodeStep(h, f, cg)]
    OBVIOUS
  <2>5. g = [cg \in U(k + 1) |-> EncodeStep(h, g, cg)]
    <3> HIDE DEF g, U
    <3> QED BY <2>3, <2>4
  <2> HIDE DEF g
  <2> QED BY <2>5
<1>3. N = Nat
  <2>1. N \in SUBSET Nat /\ 0 \in N /\ \A n \in N : n + 1 \in N
    <3> HIDE DEF Good
    <3> QED BY <1>1, <1>2
  <2> HIDE DEF N
  <2> QED BY <2>1, SetInduction
<1>4. \E f : f = [cg \in Data!Links(h) |-> EncodeStep(h, f, cg)]
  <2>1. K \in Nat /\ U(K) = Data!Links(h)
    BY UptoFacts DEF Ranked
  <2>2. Good(K)
    <3> HIDE DEF Good
    <3> QED BY <1>3, <2>1
  <2> HIDE DEF U
  <2> QED BY <2>1, <2>2
<1>5. Data!CG_encode(h) = CHOOSE f : f = [cg \in Data!Links(h) |-> EncodeStep(h, f, cg)]
  BY DEF Data!CG_encode, EncodeStep, Data!NULL, FlatOf
<1> QED BY <1>4, <1>5

\* Two sequences, one after the other
LEMMA ConcatIs ==
  ASSUME NEW S, NEW s \in Seq(S), NEW t \in Seq(S)
  PROVE  /\ s \o t \in Seq(S) /\ Len(s \o t) = Len(s) + Len(t)
         /\ Len(s) \in Nat /\ Len(t) \in Nat
         /\ \A i \in 1 .. Len(s) : (s \o t)[i] = s[i]
         /\ \A i \in 1 .. Len(t) : (s \o t)[Len(s) + i] = t[i]
<1>1. Len(s) \in Nat /\ Len(t) \in Nat
  OBVIOUS
<1>2. /\ s \o t \in Seq(S) /\ Len(s \o t) = Len(s) + Len(t)
      /\ \A i \in 1 .. Len(s) + Len(t) : (s \o t)[i] = IF i <= Len(s) THEN s[i] ELSE t[i - Len(s)]
  BY ConcatProperties
<1>3. ASSUME NEW i \in 1 .. Len(s) PROVE (s \o t)[i] = s[i]
  BY <1>1, <1>2
<1>4. ASSUME NEW i \in 1 .. Len(t) PROVE (s \o t)[Len(s) + i] = t[i]
  <2>1. Len(s) + i \in 1 .. Len(s) + Len(t) /\ ~(Len(s) + i <= Len(s)) /\ Len(s) + i - Len(s) = i
    BY <1>1
  <2> QED BY <1>2, <2>1
<1> QED BY <1>1, <1>2, <1>3, <1>4

\* What is where in the numbers of a node
FlatParts(f, n, next, child, sibling) ==
  /\ f \in Seq(Int) /\ Len(f) = 3 + Len(child) + Len(sibling)
  /\ f[1] = n.symbol
  /\ f[2] = (IF n.child = 0 THEN -1 ELSE next + 3)
  /\ f[3] = (IF n.sibling = 0 THEN -1 ELSE next + 3 + Len(child))
  /\ \A i \in 1 .. Len(child) : f[3 + i] = child[i]
  /\ \A i \in 1 .. Len(sibling) : f[3 + Len(child) + i] = sibling[i]

\* ME_CG_encode_h puts them there.
LEMMA FlatFacts ==
  ASSUME NEW n, NEW next \in Nat, NEW child \in Seq(Int), NEW sibling \in Seq(Int), n.symbol \in Int
  PROVE  FlatParts(FlatOf(n, next, child, sibling), n, next, child, sibling)
<1> DEFINE f == FlatOf(n, next, child, sibling)
<1> DEFINE t == <<n.symbol, IF n.child = 0 THEN -1 ELSE next + 3,
                  IF n.sibling = 0 THEN -1 ELSE next + 3 + Len(child)>>
<1>1. t \in Seq(Int) /\ Len(t) = 3
  OBVIOUS
<1>2. f = t \o child \o sibling
  BY DEF FlatOf
<1> HIDE DEF f
<1>3. t[1] = n.symbol /\ t[2] = (IF n.child = 0 THEN -1 ELSE next + 3)
      /\ t[3] = (IF n.sibling = 0 THEN -1 ELSE next + 3 + Len(child))
  OBVIOUS
<1> HIDE DEF t
<1>4. /\ t \o child \in Seq(Int) /\ Len(t \o child) = Len(t) + Len(child)
      /\ Len(child) \in Nat /\ Len(sibling) \in Nat
      /\ \A i \in 1 .. Len(t) : (t \o child)[i] = t[i]
      /\ \A i \in 1 .. Len(child) : (t \o child)[Len(t) + i] = child[i]
  <2>1. Len(child) \in Nat /\ Len(sibling) \in Nat
    OBVIOUS
  <2>2. t \in Seq(Int) /\ child \in Seq(Int)
    BY <1>1
  <2> QED BY <2>1, <2>2, ConcatIs
<1> DEFINE u == t \o child
<1>5. /\ f \in Seq(Int) /\ Len(f) = Len(u) + Len(sibling)
      /\ \A i \in 1 .. Len(u) : f[i] = u[i]
      /\ \A i \in 1 .. Len(sibling) : f[Len(u) + i] = sibling[i]
  BY <1>2, <1>4, ConcatIs
<1>6. Len(u) = 3 + Len(child)
  BY <1>1, <1>4
<1>7. f[1] = t[1] /\ f[2] = t[2] /\ f[3] = t[3]
  <2>1. \A i \in 1 .. 3 : i \in 1 .. Len(u) /\ i \in 1 .. Len(t)
    BY <1>1, <1>4, <1>6
  <2>2. \A i \in 1 .. 3 : f[i] = t[i]
    BY <1>4, <1>5, <2>1
  <2> QED BY <2>2
<1>8. ASSUME NEW i \in 1 .. Len(child) PROVE f[3 + i] = child[i]
  <2>1. 3 + i \in 1 .. Len(u)
    BY <1>4, <1>6
  <2>2. f[3 + i] = u[3 + i]
    BY <1>5, <2>1
  <2> QED BY <1>1, <1>4, <2>2
<1>9. \A i \in 1 .. Len(sibling) : f[3 + Len(child) + i] = sibling[i]
  BY <1>5, <1>6
<1>10. FlatParts(f, n, next, child, sibling)
  BY <1>3, <1>4, <1>5, <1>6, <1>7, <1>8, <1>9 DEF FlatParts
<1> QED BY <1>10 DEF f

\* Induction along the links: a set that has NULL, and has a node when it has what
\* the node's links lead to, has all nodes.
LEMMA LinkInduction ==
  ASSUME NEW h, NEW r, NEW K, Ranked(h, r, K), NEW S, 0 \in S,
         \A n \in DOMAIN h : h[n].child \in S /\ h[n].sibling \in S => n \in S
  PROVE  Data!Links(h) \subseteq S
<1> DEFINE N == {k \in Nat : Upto(h, r, k) \subseteq S}
<1>1. N \in SUBSET Nat /\ 0 \in N
  BY UptoFacts
<1>2. ASSUME NEW k \in N PROVE k + 1 \in N
  BY UptoFacts
<1>3. N = Nat
  <2> HIDE DEF N
  <2> QED BY <1>1, <1>2, SetInduction
<1> QED BY <1>3, UptoFacts DEF Ranked

\* Symbols are numbers.
Symbols(h) == \A n \in DOMAIN h : h[n].symbol \in Int

\* Links lead to nodes or to NULL.
LEMMA LinksOf ==
  ASSUME NEW h, NEW r, NEW K, Ranked(h, r, K)
  PROVE  /\ 0 \in Data!Links(h)
         /\ \A n \in DOMAIN h : n # 0 /\ n \in Data!Links(h) /\ {h[n].child, h[n].sibling} \subseteq Data!Links(h)
         /\ \A n \in Data!Links(h) : n # 0 => n \in DOMAIN h
BY DEF Ranked, Data!Links, Data!NULL

\* The count and the numbers of NULL and of a node
LEMMA FlatIs ==
  ASSUME NEW h, NEW r, NEW K, Ranked(h, r, K)
  PROVE  /\ Data!CG_count(h)[0] = 0 /\ \A next \in Nat : Data!CG_encode(h)[0][next] = <<>>
         /\ \A n \in DOMAIN h : Data!CG_count(h)[n] = 1 + Data!CG_count(h)[h[n].sibling] + Data!CG_count(h)[h[n].child]
         /\ \A n \in DOMAIN h : \A next \in Nat :
              Data!CG_encode(h)[n][next] = FlatOf(h[n], next, Data!CG_encode(h)[h[n].child][next + 3],
                                  Data!CG_encode(h)[h[n].sibling][next + 3 + Len(Data!CG_encode(h)[h[n].child][next + 3])])
<1> DEFINE e == Data!CG_encode(h)
           c == Data!CG_count(h)
<1>1. \A n \in Data!Links(h) : c[n] = CountStep(h, c, n) /\ e[n] = EncodeStep(h, e, n)
  <2>1. Data!CG_count(h) = [n \in Data!Links(h) |-> CountStep(h, Data!CG_count(h), n)]
    BY CountIs
  <2>2. Data!CG_encode(h) = [n \in Data!Links(h) |-> EncodeStep(h, Data!CG_encode(h), n)]
    BY EncodeIs
  <2> HIDE DEF e, c
  <2> QED BY <2>1, <2>2 DEF e, c
<1>2. /\ 0 \in Data!Links(h)
      /\ \A n \in DOMAIN h : n # 0 /\ n \in Data!Links(h) /\ {h[n].child, h[n].sibling} \subseteq Data!Links(h)
      /\ \A n \in Data!Links(h) : n # 0 => n \in DOMAIN h
  BY LinksOf
<1>3. c[0] = CountStep(h, c, 0) /\ e[0] = EncodeStep(h, e, 0)
  BY <1>1, <1>2
<1>4. \A n \in DOMAIN h : n # 0 /\ c[n] = CountStep(h, c, n) /\ e[n] = EncodeStep(h, e, n)
  BY <1>1, <1>2
<1> HIDE DEF e, c
<1>5. c[0] = 0 /\ \A n \in DOMAIN h : c[n] = 1 + c[h[n].sibling] + c[h[n].child]
  BY <1>3, <1>4 DEF CountStep
<1>6. \A next \in Nat : e[0][next] = <<>>
  BY <1>3 DEF EncodeStep
<1>7. ASSUME NEW n \in DOMAIN h, NEW next \in Nat
      PROVE  e[n][next] = FlatOf(h[n], next, e[h[n].child][next + 3],
                                 e[h[n].sibling][next + 3 + Len(e[h[n].child][next + 3])])
  BY <1>4 DEF EncodeStep
<1> USE DEF e, c
<1> QED BY <1>5, <1>6, <1>7

\* Three numbers for a node and for each of the nodes behind its links
LEMMA Triple == \A a, b, d \in Nat : a = 1 + b + d => 3 * a = 3 + 3 * d + 3 * b
OBVIOUS

\* ME_CG_encode_h writes three numbers for each node that ME_CG_count counts.
LEMMA FlatLength ==
  ASSUME NEW h, NEW r, NEW K, Ranked(h, r, K), Symbols(h)
  PROVE  /\ \A n \in Data!Links(h) : Data!CG_count(h)[n] \in Nat
         /\ \A n \in Data!Links(h) : \A next \in Nat :
              Data!CG_encode(h)[n][next] \in Seq(Int) /\ Len(Data!CG_encode(h)[n][next]) = 3 * Data!CG_count(h)[n]
         /\ \A n \in DOMAIN h : Data!CG_count(h)[n] > 0
<1> DEFINE e == Data!CG_encode(h)
           c == Data!CG_count(h)
<1> DEFINE S == {n \in Data!Links(h) : c[n] \in Nat /\ \A next \in Nat : e[n][next] \in Seq(Int) /\ Len(e[n][next]) = 3 * c[n]}
<1>a. /\ 0 \in Data!Links(h)
      /\ \A n \in DOMAIN h : n # 0 /\ n \in Data!Links(h) /\ {h[n].child, h[n].sibling} \subseteq Data!Links(h)
      /\ \A n \in Data!Links(h) : n # 0 => n \in DOMAIN h
  BY LinksOf
<1>b. /\ c[0] = 0 /\ \A next \in Nat : e[0][next] = <<>>
      /\ \A n \in DOMAIN h : c[n] = 1 + c[h[n].sibling] + c[h[n].child]
      /\ \A n \in DOMAIN h : \A next \in Nat :
           e[n][next] = FlatOf(h[n], next, e[h[n].child][next + 3],
                                  e[h[n].sibling][next + 3 + Len(e[h[n].child][next + 3])])
  BY FlatIs
<1>c. e = Data!CG_encode(h) /\ c = Data!CG_count(h)
  OBVIOUS
<1> HIDE DEF e, c
<1>1. 0 \in S
  <2>1. c[0] \in Nat /\ 3 * c[0] = 0
    BY <1>b
  <2>2. \A next \in Nat : e[0][next] \in Seq(Int) /\ Len(e[0][next]) = 0
    <3>1. <<>> \in Seq(Int) /\ Len(<<>>) = 0
      OBVIOUS
    <3> QED BY <1>b, <3>1
  <2> QED BY <1>a, <2>1, <2>2
<1>2. ASSUME NEW n \in DOMAIN h, h[n].child \in S, h[n].sibling \in S PROVE n \in S
  <2>1. n \in Data!Links(h) /\ h[n].symbol \in Int
    BY <1>a DEF Symbols
  <2>2. c[n] \in Nat /\ c[n] = 1 + c[h[n].sibling] + c[h[n].child]
    BY <1>2, <1>b
  <2>3. ASSUME NEW next \in Nat PROVE e[n][next] \in Seq(Int) /\ Len(e[n][next]) = 3 * c[n]
    <3> DEFINE x == e[h[n].child][next + 3]
               y == e[h[n].sibling][next + 3 + Len(x)]
    <3>1. x \in Seq(Int) /\ Len(x) = 3 * c[h[n].child] /\ Len(x) \in Nat
      BY <1>2
    <3>2. y \in Seq(Int) /\ Len(y) = 3 * c[h[n].sibling]
      <4> HIDE DEF x
      <4>1. next + 3 + Len(x) \in Nat
        BY <3>1
      <4> QED BY <1>2, <4>1
    <3>3. e[n][next] = FlatOf(h[n], next, x, y)
      BY <1>b
    <3> HIDE DEF x, y
    <3>4. e[n][next] \in Seq(Int) /\ Len(e[n][next]) = 3 + Len(x) + Len(y)
      <4>1. FlatParts(e[n][next], h[n], next, x, y)
        BY <2>1, <3>1, <3>2, <3>3, FlatFacts
      <4> QED BY <4>1 DEF FlatParts
    <3>5. c[h[n].child] \in Nat /\ c[h[n].sibling] \in Nat
      BY <1>2
    <3>6. 3 * c[n] = 3 + 3 * c[h[n].child] + 3 * c[h[n].sibling]
      BY <2>2, <3>5, Triple
    <3> QED BY <3>1, <3>2, <3>4, <3>6
  <2> QED BY <2>1, <2>2, <2>3
<1>3. Data!Links(h) \subseteq S
  <2> HIDE DEF S
  <2> QED BY <1>1, <1>2, LinkInduction
<1>4. \A n \in DOMAIN h : c[n] > 0
  BY <1>3, <1>a, <1>b
<1> QED BY <1>3, <1>4 DEF e, c

\* Of what is written from "next" on, the links lead forward, to nodes of it.
Inside(f, next, count) ==
  \A p \in 0 .. count - 1 : \A m \in {2, 3} :
    f[3 * p + m] = -1 \/ \E q \in p + 1 .. count - 1 : f[3 * p + m] = next + 3 * q

\* Links that stay inside what is written of the child and of the sibling stay
\* inside what is written of the node.
LEMMA InsideStep ==
  ASSUME NEW n, NEW next \in Nat, NEW x \in Seq(Int), NEW y \in Seq(Int), NEW a \in Nat, NEW b \in Nat,
         NEW f, FlatParts(f, n, next, x, y), Len(x) = 3 * a, Len(y) = 3 * b,
         Inside(x, next + 3, a), Inside(y, next + 3 + 3 * a, b),
         n.child # 0 => a > 0, n.sibling # 0 => b > 0, NEW t, t = 1 + b + a
  PROVE  Inside(f, next, t)
<1>0. t - 1 = b + a
  OBVIOUS
<1> SUFFICES ASSUME NEW p \in 0 .. b + a, NEW m \in {2, 3}
             PROVE  f[3 * p + m] = -1 \/ \E q \in p + 1 .. b + a : f[3 * p + m] = next + 3 * q
  BY <1>0 DEF Inside
<1>1. CASE p = 0
  <2>1. 3 * p + m = m
    BY <1>1
  <2>2. f[2] = -1 \/ (n.child # 0 /\ f[2] = next + 3 * 1)
    <3>1. f[2] = (IF n.child = 0 THEN -1 ELSE next + 3)
      BY DEF FlatParts
    <3>2. next + 3 = next + 3 * 1
      OBVIOUS
    <3>3. CASE n.child = 0
      BY <3>1, <3>3
    <3>4. CASE n.child # 0
      BY <3>1, <3>2, <3>4
    <3> QED BY <3>3, <3>4
  <2>3. f[3] = -1 \/ (n.sibling # 0 /\ f[3] = next + 3 * (1 + a))
    <3>1. f[3] = (IF n.sibling = 0 THEN -1 ELSE next + 3 + Len(x))
      BY DEF FlatParts
    <3>2. next + 3 + Len(x) = next + 3 * (1 + a)
      OBVIOUS
    <3>3. CASE n.sibling = 0
      BY <3>1, <3>3
    <3>4. CASE n.sibling # 0
      BY <3>1, <3>2, <3>4
    <3> QED BY <3>3, <3>4
  <2>4. n.child # 0 => 1 \in p + 1 .. b + a
    BY <1>1
  <2>5. n.sibling # 0 => 1 + a \in p + 1 .. b + a
    BY <1>1
  <2>6. f[m] = -1 \/ \E q \in p + 1 .. b + a : f[m] = next + 3 * q
    BY <2>2, <2>3, <2>4, <2>5
  <2> QED BY <2>1, <2>6
<1>2. CASE p \in 1 .. a
  <2> DEFINE i == 3 * (p - 1) + m
  <2>1. i \in 1 .. Len(x) /\ 3 * p + m = 3 + i /\ p - 1 \in 0 .. a - 1
    BY <1>2
  <2>2. f[3 * p + m] = x[i]
    BY <2>1 DEF FlatParts
  <2>3. x[i] = -1 \/ \E q \in p - 1 + 1 .. a - 1 : x[i] = next + 3 + 3 * q
    BY <2>1 DEF Inside
  <2>4. ASSUME NEW q \in p - 1 + 1 .. a - 1, x[i] = next + 3 + 3 * q
        PROVE  \E qq \in p + 1 .. b + a : x[i] = next + 3 * qq
    <3>1. q + 1 \in p + 1 .. b + a /\ next + 3 + 3 * q = next + 3 * (q + 1)
      OBVIOUS
    <3> QED BY <2>4, <3>1
  <2> HIDE DEF i
  <2> QED BY <2>2, <2>3, <2>4
<1>3. CASE p > a
  <2> DEFINE i == 3 * (p - 1 - a) + m
  <2>1. i \in 1 .. Len(y) /\ 3 * p + m = 3 + Len(x) + i /\ p - 1 - a \in 0 .. b - 1
    BY <1>3
  <2>2. f[3 * p + m] = y[i]
    BY <2>1 DEF FlatParts
  <2>3. y[i] = -1 \/ \E q \in p - 1 - a + 1 .. b - 1 : y[i] = next + 3 + 3 * a + 3 * q
    BY <2>1 DEF Inside
  <2>4. ASSUME NEW q \in p - 1 - a + 1 .. b - 1, y[i] = next + 3 + 3 * a + 3 * q
        PROVE  \E qq \in p + 1 .. b + a : y[i] = next + 3 * qq
    <3>1. q + 1 + a \in p + 1 .. b + a /\ next + 3 + 3 * a + 3 * q = next + 3 * (q + 1 + a)
      OBVIOUS
    <3> QED BY <2>4, <3>1
  <2> HIDE DEF i
  <2> QED BY <2>2, <2>3, <2>4
<1> QED BY <1>1, <1>2, <1>3

\* What is written of a node, in terms of what is written of its links
LEMMA FlatStep ==
  ASSUME NEW h, NEW r, NEW K, Ranked(h, r, K), Symbols(h), NEW n \in DOMAIN h, NEW next \in Nat,
         NEW x, x = Data!CG_encode(h)[h[n].child][next + 3],
         NEW y, y = Data!CG_encode(h)[h[n].sibling][next + 3 + Len(x)]
  PROVE  /\ x \in Seq(Int) /\ y \in Seq(Int) /\ h[n].child \in Data!Links(h) /\ h[n].sibling \in Data!Links(h)
         /\ Len(x) = 3 * Data!CG_count(h)[h[n].child] /\ Len(y) = 3 * Data!CG_count(h)[h[n].sibling]
         /\ FlatParts(Data!CG_encode(h)[n][next], h[n], next, x, y)
<1> DEFINE e == Data!CG_encode(h)
           c == Data!CG_count(h)
<1>1. n \in Data!Links(h) /\ h[n].child \in Data!Links(h) /\ h[n].sibling \in Data!Links(h)
  BY LinksOf
<1>2. /\ \A l \in Data!Links(h) : c[l] \in Nat
      /\ \A l \in Data!Links(h) : \A at \in Nat : e[l][at] \in Seq(Int) /\ Len(e[l][at]) = 3 * c[l]
  BY FlatLength
<1>3. e[n][next] = FlatOf(h[n], next, e[h[n].child][next + 3],
                          e[h[n].sibling][next + 3 + Len(e[h[n].child][next + 3])])
  BY FlatIs
<1>4. /\ x = e[h[n].child][next + 3] /\ y = e[h[n].sibling][next + 3 + Len(x)]
      /\ next + 3 \in Nat
  OBVIOUS
<1>5. h[n].symbol \in Int
  BY DEF Symbols
<1> HIDE DEF e, c
<1>6. x \in Seq(Int) /\ Len(x) = 3 * c[h[n].child] /\ Len(x) \in Nat
  <2>1. x \in Seq(Int) /\ Len(x) = 3 * c[h[n].child]
    BY <1>1, <1>2, <1>4
  <2>2. Len(x) \in Nat
    BY <2>1
  <2> QED BY <2>1, <2>2
<1>7. next + 3 + Len(x) \in Nat
  BY <1>4, <1>6
<1>8. y \in Seq(Int) /\ Len(y) = 3 * c[h[n].sibling]
  BY <1>1, <1>2, <1>4, <1>7
<1>9. FlatParts(e[n][next], h[n], next, x, y)
  <2>1. e[n][next] = FlatOf(h[n], next, x, y)
    BY <1>3, <1>4
  <2>2. FlatParts(FlatOf(h[n], next, x, y), h[n], next, x, y)
    BY <1>5, <1>6, <1>8, FlatFacts
  <2> QED BY <2>1, <2>2
<1> QED BY <1>1, <1>6, <1>8, <1>9 DEF e, c

\* No link in the numbers leads out of them, or back.
LEMMA LinksInside ==
  ASSUME NEW h, NEW r, NEW K, Ranked(h, r, K), Symbols(h)
  PROVE  \A n \in Data!Links(h) : \A next \in Nat : Inside(Data!CG_encode(h)[n][next], next, Data!CG_count(h)[n])
<1> DEFINE e == Data!CG_encode(h)
           c == Data!CG_count(h)
           S == {n \in Data!Links(h) : \A next \in Nat : Inside(e[n][next], next, c[n])}
<1>1. 0 \in S
  <2>1. 0 \in Data!Links(h)
    BY LinksOf
  <2>2. c[0] = 0
    BY FlatIs
  <2> HIDE DEF e, c
  <2>3. \A next \in Nat : Inside(e[0][next], next, c[0])
    BY <2>2 DEF Inside
  <2> QED BY <2>1, <2>3
<1>2. ASSUME NEW n \in DOMAIN h, h[n].child \in S, h[n].sibling \in S PROVE n \in S
  <2>1. n \in Data!Links(h)
    BY LinksOf
  <2>2. ASSUME NEW next \in Nat PROVE Inside(e[n][next], next, c[n])
    <3> DEFINE x == e[h[n].child][next + 3]
               y == e[h[n].sibling][next + 3 + Len(x)]
               a == c[h[n].child]
               b == c[h[n].sibling]
    <3>1. /\ x \in Seq(Int) /\ y \in Seq(Int) /\ h[n].child \in Data!Links(h) /\ h[n].sibling \in Data!Links(h)
          /\ Len(x) = 3 * a /\ Len(y) = 3 * b /\ FlatParts(e[n][next], h[n], next, x, y)
      BY FlatStep
    <3>2. c[n] = 1 + b + a
      BY FlatIs
    <3>3. a \in Nat /\ b \in Nat
      BY <3>1, FlatLength
    <3>4. (h[n].child # 0 => a > 0) /\ (h[n].sibling # 0 => b > 0)
      BY <3>1, FlatLength, LinksOf
    <3>5. Inside(x, next + 3, a)
      BY <1>2
    <3>6. Inside(y, next + 3 + 3 * a, b)
      <4>1. next + 3 + Len(x) \in Nat
        BY <3>1, <3>3
      <4>2. Inside(y, next + 3 + Len(x), b)
        BY <1>2, <4>1
      <4> QED BY <3>1, <4>2
    <3> HIDE DEF x, y, a, b
    <3> QED BY <3>1, <3>2, <3>3, <3>4, <3>5, <3>6, InsideStep
  <2> HIDE DEF e, c
  <2> QED BY <2>1, <2>2
<1>3. Data!Links(h) \subseteq S
  <2> HIDE DEF S
  <2> QED BY <1>1, <1>2, LinkInduction
<1> QED BY <1>3

Starts(A)  == {3 * k : k \in 0 .. Len(A) - 1} \cap 0 .. Len(A) - 1

\* Links lead to nodes that are written further on.
Forward(A) == \A i \in Starts(A) : \A m \in {2, 3} : A[i + m] = -1 \/ (A[i + m] \in Starts(A) /\ A[i + m] > i)

\* The body of ME_CG_decode_h
DecodeStep(A, f, i) ==
  Data!Node(A[i + 1], IF A[i + 2] = -1 THEN Data!Null ELSE f[A[i + 2]],
                      IF A[i + 3] = -1 THEN Data!Null ELSE f[A[i + 3]])

\* CG_decode satisfies its recursive equation: forward links come to an end.
LEMMA DecodeIs ==
  ASSUME NEW A \in Seq(Int), Forward(A)
  PROVE  Data!CG_decode(A) = [i \in Starts(A) |-> DecodeStep(A, Data!CG_decode(A), i)]
<1> DEFINE U(k) == {i \in Starts(A) : Len(A) - k <= i}
           Good(k) == \E f : f = [i \in U(k) |-> DecodeStep(A, f, i)]
           N == {k \in Nat : Good(k)}
<1>a. Len(A) \in Nat /\ \A i \in Starts(A) : i \in Nat /\ i < Len(A)
  BY DEF Starts
<1>b. U(0) = {} /\ U(Len(A)) = Starts(A)
  BY <1>a
<1>c. ASSUME NEW k \in Nat, NEW i \in U(k + 1), NEW m \in {2, 3}, A[i + m] # -1 PROVE A[i + m] \in U(k)
  <2>1. A[i + m] \in Starts(A) /\ A[i + m] > i
    BY <1>c DEF Forward
  <2> QED BY <1>a, <2>1
<1>d. \A k \in Nat : U(k) \subseteq U(k + 1)
  BY <1>a
<1>1. Good(0)
  <2> WITNESS [i \in U(0) |-> 0]
  <2> QED BY <1>b
<1>2. ASSUME NEW k \in Nat, Good(k) PROVE Good(k + 1)
  <2>1. PICK f : f = [i \in U(k) |-> DecodeStep(A, f, i)]
    BY <1>2
  <2> DEFINE g == [i \in U(k + 1) |-> DecodeStep(A, f, i)]
  <2>2. \A i \in U(k) : g[i] = f[i]
    BY <2>1, <1>d
  <2>3. \A i \in U(k + 1) : DecodeStep(A, f, i) = DecodeStep(A, g, i)
    <3> HIDE DEF g, U
    <3> SUFFICES ASSUME NEW i \in U(k + 1) PROVE DecodeStep(A, f, i) = DecodeStep(A, g, i)
      OBVIOUS
    <3>1. \A m \in {2, 3} : A[i + m] = -1 \/ g[A[i + m]] = f[A[i + m]]
      BY <2>2, <1>c
    <3>2. (A[i + 2] = -1 \/ g[A[i + 2]] = f[A[i + 2]]) /\ (A[i + 3] = -1 \/ g[A[i + 3]] = f[A[i + 3]])
      BY <3>1
    <3> QED BY <3>2 DEF DecodeStep
  <2>4. g = [i \in U(k + 1) |-> DecodeStep(A, f, i)]
    OBVIOUS
  <2>5. g = [i \in U(k + 1) |-> DecodeStep(A, g, i)]
    <3> HIDE DEF g, U
    <3> QED BY <2>3, <2>4
  <2> HIDE DEF g
  <2> QED BY <2>5
<1>3. N = Nat
  <2>1. N \in SUBSET Nat /\ 0 \in N /\ \A n \in N : n + 1 \in N
    <3> HIDE DEF Good
    <3> QED BY <1>1, <1>2
  <2> HIDE DEF N
  <2> QED BY <2>1, SetInduction
<1>4. \E f : f = [i \in Starts(A) |-> DecodeStep(A, f, i)]
  <2>1. Good(Len(A))
    <3> HIDE DEF Good
    <3> QED BY <1>3, <1>a
  <2> HIDE DEF U
  <2> QED BY <2>1, <1>b
<1>5. Data!CG_decode(A) = CHOOSE f : f = [i \in Starts(A) |-> DecodeStep(A, f, i)]
  BY DEF Data!CG_decode, DecodeStep, Starts
<1> QED BY <1>4, <1>5

\* The links that ME_CG_encode writes lead forward.
LEMMA EncodedForward ==
  ASSUME NEW A, NEW c \in Nat, Len(A) = 3 * c, Inside(A, 0, c)
  PROVE  Forward(A)
<1> SUFFICES ASSUME NEW i \in Starts(A), NEW m \in {2, 3}, A[i + m] # -1
             PROVE  A[i + m] \in Starts(A) /\ A[i + m] > i
  BY DEF Forward
<1>1. PICK k \in 0 .. Len(A) - 1 : i = 3 * k
  BY DEF Starts
<1>2. k \in 0 .. c - 1
  BY <1>1 DEF Starts
<1>3. PICK q \in k + 1 .. c - 1 : A[i + m] = 0 + 3 * q
  BY <1>1, <1>2 DEF Inside
<1>4. q \in 0 .. Len(A) - 1 /\ 3 * q \in 0 .. Len(A) - 1 /\ 3 * q > i /\ A[i + m] = 3 * q
  BY <1>1, <1>2, <1>3
<1> QED BY <1>4 DEF Starts

\* The text A holds f from "at" on.
HoldsAt(A, at, f) == \A j \in 1 .. Len(f) : at + j \in 1 .. Len(A) /\ A[at + j] = f[j]

\* Where the numbers of a node are held, so are those of its links.
LEMMA HoldsParts ==
  ASSUME NEW A \in Seq(Int), NEW n, NEW next \in Nat, NEW x \in Seq(Int), NEW y \in Seq(Int),
         NEW f, FlatParts(f, n, next, x, y), HoldsAt(A, next, f)
  PROVE  /\ next + 1 \in 1 .. Len(A) /\ A[next + 1] = f[1] /\ A[next + 2] = f[2] /\ A[next + 3] = f[3]
         /\ HoldsAt(A, next + 3, x) /\ HoldsAt(A, next + 3 + Len(x), y)
<1>0. Len(x) \in Nat /\ Len(y) \in Nat /\ Len(f) = 3 + Len(x) + Len(y)
  BY DEF FlatParts
<1>1. \A j \in {1, 2, 3} : next + j \in 1 .. Len(A) /\ A[next + j] = f[j]
  <2>1. \A j \in {1, 2, 3} : j \in 1 .. Len(f)
    BY <1>0
  <2> QED BY <2>1 DEF HoldsAt
<1>2. ASSUME NEW j \in 1 .. Len(x) PROVE next + 3 + j \in 1 .. Len(A) /\ A[next + 3 + j] = x[j]
  <2>1. 3 + j \in 1 .. Len(f) /\ next + (3 + j) = next + 3 + j
    BY <1>0
  <2>2. f[3 + j] = x[j]
    BY DEF FlatParts
  <2> QED BY <2>1, <2>2 DEF HoldsAt
<1>3. ASSUME NEW j \in 1 .. Len(y) PROVE next + 3 + Len(x) + j \in 1 .. Len(A) /\ A[next + 3 + Len(x) + j] = y[j]
  <2>1. 3 + Len(x) + j \in 1 .. Len(f) /\ next + (3 + Len(x) + j) = next + 3 + Len(x) + j
    BY <1>0
  <2>2. f[3 + Len(x) + j] = y[j]
    BY DEF FlatParts
  <2> QED BY <2>1, <2>2 DEF HoldsAt
<1>4. HoldsAt(A, next + 3, x) /\ HoldsAt(A, next + 3 + Len(x), y)
  BY <1>2, <1>3 DEF HoldsAt
<1> QED BY <1>1, <1>4

\* Behind c nodes another one may begin.
LEMMA NextStart ==
  ASSUME NEW A \in Seq(Int), NEW at \in Starts(A), NEW c \in Nat, at + 3 * c + 1 \in 1 .. Len(A)
  PROVE  at + 3 * c \in Starts(A)
<1>1. PICK k \in 0 .. Len(A) - 1 : at = 3 * k
  BY DEF Starts
<1>2. Len(A) \in Nat
  OBVIOUS
<1>3. at + 3 * c = 3 * (k + c) /\ k + c \in 0 .. Len(A) - 1 /\ at + 3 * c \in 0 .. Len(A) - 1
  BY <1>1, <1>2
<1> QED BY <1>3 DEF Starts

\* ME_CG_decode of what ME_CG_encode wrote is the graph, and the numbers fill the
\* buffer that ME_CG_count sized.
LEMMA DecodeEncode ==
  ASSUME NEW h, NEW r, NEW K, Ranked(h, r, K), Symbols(h), NEW g \in DOMAIN h,
         NEW A, A = Data!CG_encode(h)[g][0]
  PROVE  Data!CG_decode(A)[0] = Data!CG(h)[g] /\ Len(A) = 3 * Data!CG_count(h)[g]
<1> DEFINE e == Data!CG_encode(h)
           c == Data!CG_count(h)
           v == Data!CG(h)
           d == Data!CG_decode(A)
           S == {n \in Data!Links(h) :
                   n # 0 => \A at \in Starts(A) : HoldsAt(A, at, e[n][at]) => d[at] = v[n]}
<1>a. /\ 0 \in Data!Links(h)
      /\ \A n \in DOMAIN h : n # 0 /\ n \in Data!Links(h) /\ {h[n].child, h[n].sibling} \subseteq Data!Links(h)
      /\ \A n \in Data!Links(h) : n # 0 => n \in DOMAIN h
  BY LinksOf
<1>b. /\ \A n \in Data!Links(h) : c[n] \in Nat
      /\ \A n \in Data!Links(h) : \A next \in Nat : e[n][next] \in Seq(Int) /\ Len(e[n][next]) = 3 * c[n]
      /\ \A n \in DOMAIN h : c[n] > 0
  BY FlatLength
<1>c. A \in Seq(Int) /\ Len(A) = 3 * c[g] /\ c[g] \in Nat /\ c[g] > 0
  <2>1. A = e[g][0]
    OBVIOUS
  <2> HIDE DEF e, c
  <2> QED BY <1>a, <1>b, <2>1
<1>d. \A i \in Starts(A) : d[i] = DecodeStep(A, d, i)
  <2>1. Inside(A, 0, c[g])
    BY <1>a, LinksInside
  <2>2. Forward(A)
    BY <1>c, <2>1, EncodedForward
  <2>3. d = [i \in Starts(A) |-> DecodeStep(A, d, i)]
    BY <1>c, <2>2, DecodeIs
  <2> HIDE DEF d
  <2> QED BY <2>3
<1>e. v[0] = Data!Null /\ \A n \in DOMAIN h : v[n] = Data!Node(h[n].symbol, v[h[n].child], v[h[n].sibling])
  <2>1. v = [n \in Data!Links(h) |-> ValueStep(h, v, n)]
    BY ValueIs
  <2> HIDE DEF v
  <2>2. \A n \in Data!Links(h) : v[n] = ValueStep(h, v, n)
    BY <2>1
  <2>3. v[0] = ValueStep(h, v, 0) /\ \A n \in DOMAIN h : n # 0 /\ v[n] = ValueStep(h, v, n)
    BY <1>a, <2>2
  <2> QED BY <2>3 DEF ValueStep
<1>1. 0 \in S
  BY <1>a
<1>2. ASSUME NEW n \in DOMAIN h, h[n].child \in S, h[n].sibling \in S PROVE n \in S
  <2> SUFFICES ASSUME NEW at \in Starts(A), HoldsAt(A, at, e[n][at]) PROVE d[at] = v[n]
    BY <1>a
  <2> DEFINE x == e[h[n].child][at + 3]
             y == e[h[n].sibling][at + 3 + Len(x)]
             a == c[h[n].child]
  <2>1. at \in Nat
    BY DEF Starts
  <2>2. /\ x \in Seq(Int) /\ y \in Seq(Int) /\ h[n].child \in Data!Links(h) /\ h[n].sibling \in Data!Links(h)
        /\ Len(x) = 3 * a /\ Len(y) = 3 * c[h[n].sibling] /\ FlatParts(e[n][at], h[n], at, x, y)
    BY <2>1, FlatStep
  <2>3. /\ at + 1 \in 1 .. Len(A) /\ A[at + 1] = e[n][at][1] /\ A[at + 2] = e[n][at][2] /\ A[at + 3] = e[n][at][3]
        /\ HoldsAt(A, at + 3, x) /\ HoldsAt(A, at + 3 + Len(x), y)
    <3> HIDE DEF x, y, e
    <3> QED BY <1>c, <2>1, <2>2, HoldsParts
  <2>4. /\ A[at + 1] = h[n].symbol
        /\ A[at + 2] = (IF h[n].child = 0 THEN -1 ELSE at + 3)
        /\ A[at + 3] = (IF h[n].sibling = 0 THEN -1 ELSE at + 3 + Len(x))
    <3> HIDE DEF x, y, e
    <3> QED BY <2>2, <2>3 DEF FlatParts
  <2>5. a \in Nat /\ c[h[n].sibling] \in Nat /\ Len(x) \in Nat
    BY <1>b, <2>2
  <2>6. ASSUME h[n].child # 0 PROVE d[at + 3] = v[h[n].child]
    <3>1. a > 0
      BY <1>a, <1>b, <2>2, <2>6
    <3>2. 1 \in 1 .. Len(x)
      BY <2>2, <2>5, <3>1
    <3>3. at + 3 + 1 \in 1 .. Len(A)
      BY <2>3, <3>2 DEF HoldsAt
    <3>4. at + 3 \in Starts(A)
      <4>1. at + 3 * 1 + 1 = at + 3 + 1 /\ at + 3 * 1 = at + 3
        BY <2>1
      <4>2. at + 3 * 1 \in Starts(A)
        BY <1>c, <3>3, <4>1, NextStart
      <4> QED BY <4>1, <4>2
    <3> QED BY <1>2, <2>3, <2>6, <3>4
  <2>7. ASSUME h[n].sibling # 0 PROVE d[at + 3 + Len(x)] = v[h[n].sibling]
    <3>1. c[h[n].sibling] > 0
      BY <1>a, <1>b, <2>2, <2>7
    <3>2. 1 \in 1 .. Len(y)
      BY <2>2, <2>5, <3>1
    <3>3. at + 3 + Len(x) + 1 \in 1 .. Len(A)
      BY <2>3, <3>2 DEF HoldsAt
    <3>4. at + 3 + Len(x) \in Starts(A)
      <4>1. at + 3 * (1 + a) + 1 = at + 3 + Len(x) + 1 /\ at + 3 * (1 + a) = at + 3 + Len(x) /\ 1 + a \in Nat
        <5> HIDE DEF x, a
        <5> QED BY <2>1, <2>2, <2>5
      <4>2. at + 3 * (1 + a) \in Starts(A)
        BY <1>c, <3>3, <4>1, NextStart
      <4> QED BY <4>1, <4>2
    <3> QED BY <1>2, <2>3, <2>7, <3>4
  <2>8. /\ (IF A[at + 2] = -1 THEN Data!Null ELSE d[A[at + 2]]) = v[h[n].child]
        /\ (IF A[at + 3] = -1 THEN Data!Null ELSE d[A[at + 3]]) = v[h[n].sibling]
    <3>1. at + 3 # -1 /\ at + 3 + Len(x) # -1
      <4> HIDE DEF x
      <4> QED BY <2>1, <2>5
    <3>0. /\ h[n].child # 0 => d[at + 3] = v[h[n].child]
          /\ h[n].sibling # 0 => d[at + 3 + Len(x)] = v[h[n].sibling]
      BY <2>6, <2>7
    <3> HIDE DEF x, d, v
    <3>2. (IF A[at + 2] = -1 THEN Data!Null ELSE d[A[at + 2]]) = v[h[n].child]
      <4>1. CASE h[n].child = 0
        BY <1>e, <2>4, <4>1
      <4>2. CASE h[n].child # 0
        BY <2>4, <3>0, <3>1, <4>2
      <4> QED BY <4>1, <4>2
    <3>3. (IF A[at + 3] = -1 THEN Data!Null ELSE d[A[at + 3]]) = v[h[n].sibling]
      <4>1. CASE h[n].sibling = 0
        BY <1>e, <2>4, <4>1
      <4>2. CASE h[n].sibling # 0
        BY <2>4, <3>0, <3>1, <4>2
      <4> QED BY <4>1, <4>2
    <3> QED BY <3>2, <3>3
  <2> HIDE DEF x, d, v
  <2>9. d[at] = DecodeStep(A, d, at)
    BY <1>d
  <2>10. v[n] = Data!Node(h[n].symbol, v[h[n].child], v[h[n].sibling])
    BY <1>e
  <2> QED BY <2>4, <2>8, <2>9, <2>10 DEF DecodeStep
<1>3. Data!Links(h) \subseteq S
  <2> HIDE DEF S
  <2> QED BY <1>1, <1>2, LinkInduction
<1>4. 0 \in Starts(A) /\ HoldsAt(A, 0, A)
  <2>1. 0 = 3 * 0 /\ 0 \in 0 .. Len(A) - 1
    BY <1>c
  <2> QED BY <1>c, <2>1 DEF Starts, HoldsAt
<1>5. g # 0 /\ g \in S /\ e[g][0] = A
  BY <1>3, <1>a
<1>6. d[0] = v[g]
  BY <1>4, <1>5
<1> QED BY <1>c, <1>6

-----------------------------------------------------------------------------
(* The heap of a call graph has no cycle: a child's path is longer, and    *)
(* siblings are numbered.                                                  *)

\* Numbers given to finitely many nodes have a bound.
LEMMA NodesHaveABound ==
  ASSUME NEW m \in Nat, NEW D \in SUBSET (1 .. m), NEW f, \A n \in D : f[n] \in Nat
  PROVE  \E b \in Nat : \A n \in D : f[n] <= b
<1> DEFINE Good(k) == \E b \in Nat : \A n \in D : n <= k => f[n] <= b
           N == {k \in Nat : Good(k)}
<1>1. Good(0)
  OBVIOUS
<1>2. ASSUME NEW k \in Nat, Good(k) PROVE Good(k + 1)
  <2>1. PICK b \in Nat : \A n \in D : n <= k => f[n] <= b
    BY <1>2
  <2>2. CASE k + 1 \in D
    <3>1. f[k + 1] \in Nat /\ b + f[k + 1] \in Nat
      BY <2>2
    <3>2. \A n \in D : n <= k + 1 => n <= k \/ n = k + 1
      OBVIOUS
    <3>3. \A n \in D : n <= k + 1 => f[n] <= b + f[k + 1]
      BY <2>1, <3>1, <3>2
    <3> QED BY <3>1, <3>3
  <2>3. CASE k + 1 \notin D
    <3>1. \A n \in D : n <= k + 1 => n <= k
      BY <2>3
    <3> QED BY <2>1, <3>1
  <2> QED BY <2>2, <2>3
<1>3. N = Nat
  <2>1. N \in SUBSET Nat /\ 0 \in N /\ \A n \in N : n + 1 \in N
    <3> HIDE DEF Good
    <3> QED BY <1>1, <1>2
  <2> HIDE DEF N
  <2> QED BY <2>1, SetInduction
<1> QED BY <1>3

\* Numbers in base w
LEMMA Places ==
  \A l, w, a, b \in Nat : /\ l * w + a \in Nat
                          /\ a < b => l * w + a < l * w + b
                          /\ a < w /\ b < w => l * w + a < (l + 1) * w + b
<1>1. \A l, w \in Nat : l * w \in Nat /\ (l + 1) * w = l * w + w
  OBVIOUS
<1> QED BY <1>1

\* A lower leading place, whatever the last one
LEMMA PlacesMonotone ==
  ASSUME NEW l \in Nat, NEW m \in Nat, NEW w \in Nat, NEW a \in Nat, l <= m, a < w
  PROVE  l * w + a < (m + 1) * w
<1>1. PICK d \in Nat : m = l + d
  <2>1. m - l \in Nat /\ m = l + (m - l)
    OBVIOUS
  <2> QED BY <2>1
<1>2. l * w \in Nat /\ d * w \in Nat /\ (m + 1) * w = l * w + d * w + w
  BY <1>1
<1> QED BY <1>2

\* The links of a graph that is complete lead on: a child is one call further in,
\* a sibling has the next number among the callees.
LEMMA HeapIsRanked ==
  ASSUME Inv, Complete
  PROVE  \E r, K : Ranked(heap, r, K)
<1>1. TypeOK /\ NodesHaveOneOwner /\ GraphIsATree /\ OrderInv /\ pc = "running" /\ graph # 0
  BY DEF Inv, TreeInv, Complete, Null
<1>2. /\ DOMAIN heap = Graph /\ Graph \in SUBSET (1 .. mallocs) /\ mallocs \in Nat
      /\ \A n \in Graph : {heap[n].child, heap[n].sibling} \subseteq Graph \cup {0}
  BY <1>1 DEF NodesHaveOneOwner, TypeOK, Graph, Nodes, Null
<1>3. \A n \in Graph : Len(path[n]) \in Nat /\ order[n] \in Nat
  BY <1>1 DEF TypeOK, Graph
<1> DEFINE length == [n \in Graph |-> Len(path[n])]
<1>4. PICK L \in Nat : \A n \in Graph : Len(path[n]) <= L
  <2>1. \A n \in Graph : length[n] \in Nat
    BY <1>3
  <2>2. \E b \in Nat : \A n \in Graph : length[n] <= b
    <3> HIDE DEF length
    <3> QED BY <1>2, <2>1, NodesHaveABound
  <2> QED BY <2>2
<1>5. PICK o \in Nat : \A n \in Graph : order[n] <= o
  BY <1>2, <1>3, NodesHaveABound
<1> DEFINE w == o + 1
           rank(n) == (L - Len(path[n])) * w + (o - order[n])
           r == [n \in Graph |-> rank(n)]
           K == (L + 1) * w
<1>6. \A n \in Graph : /\ L - Len(path[n]) \in Nat /\ L - Len(path[n]) <= L
                       /\ o - order[n] \in Nat /\ o - order[n] < w
  BY <1>3, <1>4, <1>5
<1>7. w \in Nat /\ K \in Nat
  OBVIOUS
<1>8. \A n \in Graph : rank(n) \in Nat /\ rank(n) < K
  <2> HIDE DEF w
  <2> QED BY <1>6, <1>7, Places, PlacesMonotone
<1>9. ASSUME NEW n \in Graph, NEW m \in Graph, m = heap[n].child PROVE rank(m) < rank(n)
  <2>1. Len(path[m]) = Len(path[n]) + 1
    BY <1>1, <1>2, <1>9 DEF GraphIsATree, Below, Null
  <2>2. L - Len(path[n]) = (L - Len(path[m])) + 1
    BY <1>3, <2>1
  <2> HIDE DEF w
  <2> QED BY <1>6, <1>7, <2>2, Places
<1>10. ASSUME NEW n \in Graph, NEW m \in Graph, m = heap[n].sibling PROVE rank(m) < rank(n)
  <2>1. Len(path[m]) = Len(path[n]) /\ order[m] = order[n] + 1
    BY <1>1, <1>2, <1>10 DEF GraphIsATree, Siblings, Null
  <2>2. L - Len(path[n]) = L - Len(path[m]) /\ o - order[m] < o - order[n]
    BY <1>3, <2>1
  <2>3. rank(n) = (L - Len(path[m])) * w + (o - order[n])
    BY <2>2
  <2>4. rank(m) = (L - Len(path[m])) * w + (o - order[m])
    OBVIOUS
  <2>5. o - order[m] \in Nat /\ o - order[n] \in Nat /\ L - Len(path[m]) \in Nat
    BY <1>6
  <2> HIDE DEF w, rank
  <2> QED BY <1>7, <2>2, <2>3, <2>4, <2>5, Places
<1>11. \A n \in Graph : r[n] = rank(n)
  OBVIOUS
<1> HIDE DEF r, rank, K
<1>12. 0 \notin Graph
  BY <1>2
<1>13. Ranked(heap, r, K)
  <2>1. \A n \in DOMAIN heap : r[n] \in Nat /\ r[n] < K
    BY <1>2, <1>8, <1>11
  <2>2. ASSUME NEW n \in DOMAIN heap, NEW m \in {heap[n].child, heap[n].sibling}
        PROVE  m = 0 \/ (m \in DOMAIN heap /\ r[m] < r[n])
    BY <1>2, <1>9, <1>10, <1>11
  <2>3. 0 \notin DOMAIN heap /\ K \in Nat
    BY <1>2, <1>7, <1>12 DEF K
  <2>4. \A n \in DOMAIN heap : \A m \in {heap[n].child, heap[n].sibling} :
          m = 0 \/ (m \in DOMAIN heap /\ r[m] < r[n])
    BY <2>2
  <2> HIDE DEF r, K
  <2> QED BY <2>1, <2>3, <2>4 DEF Ranked
<1> QED BY <1>13

\* The symbols of a graph's nodes are numbers, and a complete graph has a root.
LEMMA HeapSymbols ==
  ASSUME Inv, Complete
  PROVE  Symbols(heap) /\ graph \in DOMAIN heap /\ graph # 0
<1>1. TypeOK /\ NodesHaveOneOwner /\ GraphIsATree /\ graph # 0
  BY DEF Inv, TreeInv, Complete, Null
<1>2. \A n \in DOMAIN heap : heap[n].symbol \in {-1} \cup 1 .. Len(ft)
  BY <1>1, HeapTypes
<1>3. graph \in DOMAIN heap
  BY <1>1 DEF GraphIsATree, NodesHaveOneOwner, Null
<1> QED BY <1>1, <1>2, <1>3, HeapTypes DEF Symbols

\* ME_CG_encode and ME_CG_decode of the graph
LEMMA NumbersAreReadBack ==
  ASSUME Inv, Complete
  PROVE  LET flat == Data!CG_encode(heap)[graph][0]
         IN /\ Data!CG_decode(flat)[0] = Data!CG(heap)[graph]
            /\ Len(flat) = 3 * Data!CG_count(heap)[graph]
<1>1. PICK r, K : Ranked(heap, r, K)
  BY HeapIsRanked
<1>2. Symbols(heap) /\ graph \in DOMAIN heap
  BY HeapSymbols
<1> QED BY <1>1, <1>2, DecodeEncode

-----------------------------------------------------------------------------
(* Recursion along 0 .. n, whose values are in V.                          *)

Follows(w, V, z, n, G) ==
  /\ w = [k \in 0 .. n |-> w[k]] /\ w[0] = z
  /\ \A k \in 1 .. n : w[k - 1] \in V => w[k] = G[k][w[k - 1]]

\* f goes through the values from z on, by a step G[k] that keeps them in V.
Goes(f, V, z, n, G) ==
  f \in [0 .. n -> V] /\ f[0] = z /\ \A k \in 1 .. n : f[k] = G[k][f[k - 1]]

\* There is such a function ...
LEMMA RecursionExists ==
  ASSUME NEW V, NEW z \in V, NEW n \in Nat, NEW G \in [1 .. n -> [V -> V]]
  PROVE  \E f : Goes(f, V, z, n, G)
<1> DEFINE Good(m) == \E f \in [0 .. m -> V] : f[0] = z /\ \A k \in 1 .. m : f[k] = G[k][f[k - 1]]
           N == {m \in Nat : m <= n => Good(m)}
<1>1. Good(0)
  <2> DEFINE f == [k \in 0 .. 0 |-> z]
  <2>1. f \in [0 .. 0 -> V] /\ f[0] = z /\ \A k \in 1 .. 0 : f[k] = G[k][f[k - 1]]
    OBVIOUS
  <2> HIDE DEF f
  <2> QED BY <2>1
<1>2. ASSUME NEW m \in Nat, m + 1 <= n, Good(m) PROVE Good(m + 1)
  <2>1. PICK f \in [0 .. m -> V] : f[0] = z /\ \A k \in 1 .. m : f[k] = G[k][f[k - 1]]
    BY <1>2
  <2> DEFINE g == [k \in 0 .. m + 1 |-> IF k <= m THEN f[k] ELSE G[m + 1][f[m]]]
  <2>2. G[m + 1] \in [V -> V] /\ f[m] \in V
    BY <1>2
  <2>3. g \in [0 .. m + 1 -> V]
    <3>1. \A k \in 0 .. m + 1 : k <= m => k \in 0 .. m
      OBVIOUS
    <3> QED BY <2>2, <3>1
  <2>4. g[0] = z /\ g[m + 1] = G[m + 1][f[m]] /\ \A k \in 0 .. m : g[k] = f[k]
    BY <2>1
  <2> HIDE DEF g
  <2>5. \A k \in 1 .. m + 1 : k - 1 \in 0 .. m /\ (k \in 1 .. m \/ k = m + 1) /\ m + 1 - 1 = m /\ (k \in 1 .. m => k \in 0 .. m)
    OBVIOUS
  <2>6. ASSUME NEW k \in 1 .. m + 1 PROVE g[k] = G[k][g[k - 1]]
    <3>1. CASE k \in 1 .. m
      BY <2>1, <2>4, <2>5, <3>1
    <3>2. CASE k = m + 1
      BY <2>4, <2>5, <3>2
    <3> QED BY <2>5, <3>1, <3>2
  <2> QED BY <2>3, <2>4, <2>6
<1>3. N = Nat
  <2>1. N \in SUBSET Nat /\ 0 \in N
    BY <1>1
  <2>2. ASSUME NEW m \in N PROVE m + 1 \in N
    <3>1. m \in Nat /\ (m <= n => Good(m))
      OBVIOUS
    <3> HIDE DEF Good
    <3>2. m + 1 <= n => Good(m + 1)
      BY <1>2, <3>1
    <3> QED BY <3>1, <3>2
  <2> HIDE DEF N
  <2> QED BY <2>1, <2>2, SetInduction
<1>4. n \in N
  <2> HIDE DEF N
  <2> QED BY <1>3
<1>5. Good(n)
  <2> HIDE DEF Good
  <2> QED BY <1>4
<1> QED BY <1>5 DEF Goes

\* ... and what satisfies its equations has its values in V.
LEMMA RecursionIs ==
  ASSUME NEW V, NEW z \in V, NEW n \in Nat, NEW G \in [1 .. n -> [V -> V]],
         NEW w, Follows(w, V, z, n, G)
  PROVE  Goes(w, V, z, n, G)
<1>0. /\ w = [k \in 0 .. n |-> w[k]] /\ w[0] = z
      /\ \A k \in 1 .. n : w[k - 1] \in V => w[k] = G[k][w[k - 1]]
  BY DEF Follows
<1> DEFINE N == {m \in Nat : m <= n => w[m] \in V}
<1>1. N \in SUBSET Nat /\ 0 \in N
  BY <1>0
<1>2. ASSUME NEW m \in N PROVE m + 1 \in N
  <2> SUFFICES ASSUME m + 1 <= n PROVE w[m + 1] \in V
    OBVIOUS
  <2>1. w[m] \in V /\ m + 1 \in 1 .. n /\ m + 1 - 1 = m
    OBVIOUS
  <2>2. w[m + 1] = G[m + 1][w[m]]
    <3>1. \A k \in 1 .. n : w[k - 1] \in V => w[k] = G[k][w[k - 1]]
      BY <1>0
    <3> QED BY <2>1, <3>1
  <2> QED BY <1>0, <2>1, <2>2
<1>3. N = Nat
  <2> HIDE DEF N
  <2> QED BY <1>1, <1>2, SetInduction
<1>4. ASSUME NEW k \in 0 .. n PROVE w[k] \in V
  <2>1. k \in N
    <3> HIDE DEF N
    <3> QED BY <1>3
  <2> QED BY <2>1
<1>5. w \in [0 .. n -> V]
  BY <1>0, <1>4
<1>6. \A k \in 1 .. n : w[k - 1] \in V
  BY <1>4
<1> QED BY <1>0, <1>5, <1>6 DEF Goes

-----------------------------------------------------------------------------
(* The text of the table.                                                  *)

Text == Seq(STRING \cup {Data!Blank})

\* The text of the table, name by name: "written" of FT_encode
Written(names, w) ==
  /\ w \in [0 .. Len(names) -> Text]
  /\ w[0] = <<>>
  /\ \A k \in 1 .. Len(names) : w[k] = w[k - 1] \o Append(names[k], Data!Blank)
  /\ Data!FT_encode(names) = SubSeq(w[Len(names)], 1, Len(w[Len(names)]) - 1)

\* ME_FT_encode writes one name after the other.
LEMMA EncodeWrites ==
  ASSUME NEW names \in Seq(Text), names # <<>>
  PROVE  \E w : Written(names, w)
<1> DEFINE n == Len(names)
           G == [k \in 1 .. n |-> [v \in Text |-> v \o Append(names[k], Data!Blank)]]
           Eq(w) == w = [k \in 0 .. n |-> IF k = 0 THEN <<>> ELSE w[k - 1] \o Append(names[k], Data!Blank)]
           w == CHOOSE x : Eq(x)
<1>1. n \in Nat /\ \A k \in 1 .. n : names[k] \in Text
  OBVIOUS
<1>2. <<>> \in Text /\ \A k \in 1 .. n : \A v \in Text : v \o Append(names[k], Data!Blank) \in Text
  <2>1. <<>> \in Text /\ Data!Blank \in STRING \cup {Data!Blank}
    BY DEF Text
  <2>2. \A k \in 1 .. n : Append(names[k], Data!Blank) \in Text
    BY <1>1, <2>1 DEF Text
  <2>3. \A u, v \in Text : v \o u \in Text
    BY ConcatIs DEF Text
  <2> HIDE DEF n
  <2> QED BY <2>1, <2>2, <2>3
<1>3. G \in [1 .. n -> [Text -> Text]]
  BY <1>2
<1>4. \A k \in 1 .. n : \A v \in Text : G[k][v] = v \o Append(names[k], Data!Blank)
  OBVIOUS
<1> HIDE DEF G
<1>5. PICK f : Goes(f, Text, <<>>, n, G)
  <2>1. <<>> \in Text /\ n \in Nat
    BY <1>1, <1>2
  <2> HIDE DEF n
  <2> QED BY <1>3, <2>1, RecursionExists
<1>6. Eq(f)
  <2> HIDE DEF n
  <2>0. f \in [0 .. n -> Text] /\ f[0] = <<>> /\ \A k \in 1 .. n : f[k] = G[k][f[k - 1]]
    BY <1>5 DEF Goes
  <2>1. \A k \in 0 .. n : k # 0 => k \in 1 .. n /\ k - 1 \in 0 .. n
    BY <1>1
  <2>2. \A k \in 1 .. n : f[k] = f[k - 1] \o Append(names[k], Data!Blank)
    <3>1. \A k \in 1 .. n : f[k - 1] \in Text
      BY <2>0, <2>1
    <3> QED BY <1>4, <2>0, <3>1
  <2> QED BY <2>0, <2>1, <2>2
<1>7. Eq(w)
  <2> HIDE DEF Eq
  <2> QED BY <1>6
<1>8. Data!FT_encode(names) = SubSeq(w[n], 1, Len(w[n]) - 1)
  BY DEF Data!FT_encode
<1>9. /\ w = [k \in 0 .. n |-> w[k]] /\ w[0] = <<>>
      /\ \A k \in 1 .. n : w[k] = w[k - 1] \o Append(names[k], Data!Blank)
  <2> HIDE DEF w, n
  <2>1. \A k \in 1 .. n : k \in 0 .. n /\ k # 0
    BY <1>1
  <2>2. 0 \in 0 .. n
    BY <1>1
  <2>3. w[0] = <<>> /\ \A k \in 1 .. n : w[k] = w[k - 1] \o Append(names[k], Data!Blank)
    BY <1>7, <2>1, <2>2
  <2>4. w = [k \in 0 .. n |-> w[k]]
    BY <1>7
  <2> QED BY <2>3, <2>4
<1> HIDE DEF w, Eq
<1>10. w \in [0 .. n -> Text]
  <2> HIDE DEF n
  <2>1. <<>> \in Text /\ n \in Nat
    BY <1>1, <1>2
  <2>2. \A k \in 1 .. n : w[k - 1] \in Text => w[k] = G[k][w[k - 1]]
    BY <1>4, <1>9
  <2>3. w = [k \in 0 .. n |-> w[k]] /\ w[0] = <<>>
    BY <1>9
  <2>4. Follows(w, Text, <<>>, n, G)
    BY <2>2, <2>3 DEF Follows
  <2>5. Goes(w, Text, <<>>, n, G)
    BY <1>3, <2>1, <2>4, RecursionIs
  <2> QED BY <2>5 DEF Goes
<1> QED BY <1>8, <1>9, <1>10 DEF Written

\* Where each name ends in the text, with the delimiter behind it: "L".
Spelled(names, L, text) ==
  /\ L \in [0 .. Len(names) -> Nat] /\ L[0] = 0
  /\ \A k \in 0 .. Len(names) - 1 : L[k + 1] = L[k] + Len(names[k + 1]) + 1
  /\ \A k \in 0 .. Len(names) : L[k] <= L[Len(names)]
  /\ text \in Text /\ Len(text) = L[Len(names)] - 1
  /\ \A k \in 0 .. Len(names) - 1 : \A j \in 1 .. Len(names[k + 1]) : text[L[k] + j] = names[k + 1][j]
  /\ \A k \in 1 .. Len(names) - 1 : text[L[k]] = Data!Blank

\* What one name adds to the text u
Lengthened(v, u, name) ==
  /\ Len(v) = Len(u) + Len(name) + 1
  /\ \A i \in 1 .. Len(u) : v[i] = u[i]
  /\ \A j \in 1 .. Len(name) : v[Len(u) + j] = name[j]
  /\ v[Len(u) + Len(name) + 1] = Data!Blank

\* A name stands behind the text so far, and a delimiter behind it.
LEMMA NameIsWritten ==
  ASSUME NEW u \in Text, NEW name \in Text, NEW v, v = u \o Append(name, Data!Blank)
  PROVE  Lengthened(v, u, name)
<1> DEFINE a == Append(name, Data!Blank)
<1>1. Len(u) \in Nat /\ Len(name) \in Nat
  BY DEF Text
<1>2. /\ a \in Text /\ Len(a) = Len(name) + 1 /\ a[Len(name) + 1] = Data!Blank
      /\ \A j \in 1 .. Len(name) : a[j] = name[j]
  BY DEF Text
<1>3. v = u \o a
  OBVIOUS
<1> HIDE DEF a
<1>4. /\ Len(u \o a) = Len(u) + Len(a)
      /\ \A i \in 1 .. Len(u) : (u \o a)[i] = u[i]
      /\ \A i \in 1 .. Len(a) : (u \o a)[Len(u) + i] = a[i]
  <2> DEFINE S == STRING \cup {Data!Blank}
  <2>1. u \in Seq(S) /\ a \in Seq(S)
    BY <1>2 DEF Text
  <2> HIDE DEF S
  <2> QED BY <2>1, ConcatIs
<1>5. Len(name) + 1 \in 1 .. Len(a) /\ \A j \in 1 .. Len(name) : j \in 1 .. Len(a)
  BY <1>1, <1>2
<1>6. Len(u) + (Len(name) + 1) = Len(u) + Len(name) + 1
  BY <1>1
<1>7. v[Len(u) + (Len(name) + 1)] = Data!Blank
  BY <1>2, <1>3, <1>4, <1>5
<1>8. Len(v) = Len(u) + Len(name) + 1 /\ v[Len(u) + Len(name) + 1] = Data!Blank
  BY <1>2, <1>3, <1>4, <1>6, <1>7
<1>9. \A j \in 1 .. Len(name) : v[Len(u) + j] = name[j]
  BY <1>2, <1>3, <1>4, <1>5
<1> QED BY <1>3, <1>4, <1>8, <1>9 DEF Lengthened

\* The end of a name's place is before the end of the text.
LEMMA Between ==
  \A a, b, c, d, f, g \in Nat :
    a = b + c + 1 /\ d = a + f + 1 /\ d <= g => a \in 1 .. a /\ a \in 1 .. g - 1
OBVIOUS

\* The text of ME_FT_encode spells the names.
LEMMA TextIsSpelled ==
  ASSUME NEW names \in Seq(Text), names # <<>>
  PROVE  \E L : Spelled(names, L, Data!FT_encode(names))
<1> DEFINE n == Len(names)
           text == Data!FT_encode(names)
<1>1. PICK w : Written(names, w)
  BY EncodeWrites
<1> DEFINE L == [k \in 0 .. n |-> Len(w[k])]
           M == [k \in 1 .. n |-> Len(names[k])]
<1>2. n \in Nat /\ n >= 1 /\ \A k \in 1 .. n : names[k] \in Text /\ Len(names[k]) \in Nat
  BY DEF Text
<1>3. /\ w \in [0 .. n -> Text] /\ w[0] = <<>> /\ text = SubSeq(w[n], 1, Len(w[n]) - 1)
      /\ \A k \in 1 .. n : w[k] = w[k - 1] \o Append(names[k], Data!Blank)
  BY <1>1 DEF Written
<1>4. /\ \A k \in 0 .. n : w[k] \in Text /\ Len(w[k]) = L[k] /\ L[k] \in Nat
      /\ \A k \in 1 .. n : Len(names[k]) = M[k] /\ M[k] \in Nat
      /\ L \in [0 .. n -> Nat] /\ L[0] = 0
  <2>1. \A v \in Text : Len(v) \in Nat
    BY DEF Text
  <2>2. \A k \in 0 .. n : w[k] \in Text
    <3> HIDE DEF n, text
    <3> QED BY <1>3
  <2>3. Len(w[0]) = 0 /\ 0 \in 0 .. n
    BY <1>2, <1>3
  <2> QED BY <1>2, <2>1, <2>2, <2>3
<1> HIDE DEF text, n, L, M
<1>5. \A k \in 0 .. n - 1 : /\ L[k + 1] = L[k] + M[k + 1] + 1
                            /\ \A i \in 1 .. L[k] : w[k + 1][i] = w[k][i]
                            /\ \A j \in 1 .. M[k + 1] : w[k + 1][L[k] + j] = names[k + 1][j]
                            /\ w[k + 1][L[k + 1]] = Data!Blank
  <2> SUFFICES ASSUME NEW k \in 0 .. n - 1
               PROVE  /\ L[k + 1] = L[k] + M[k + 1] + 1
                      /\ \A i \in 1 .. L[k] : w[k + 1][i] = w[k][i]
                      /\ \A j \in 1 .. M[k + 1] : w[k + 1][L[k] + j] = names[k + 1][j]
                      /\ w[k + 1][L[k + 1]] = Data!Blank
    OBVIOUS
  <2>1. k \in 0 .. n /\ k + 1 \in 0 .. n /\ k + 1 \in 1 .. n /\ k + 1 - 1 = k
    BY <1>2
  <2>2. w[k + 1] = w[k] \o Append(names[k + 1], Data!Blank) /\ w[k] \in Text /\ names[k + 1] \in Text
    <3>1. PICK l \in 1 .. n : l = k + 1
      BY <2>1
    <3>2. w[l] = w[l - 1] \o Append(names[l], Data!Blank)
      BY <1>3
    <3>3. w[k] \in Text /\ names[k + 1] \in Text
      BY <1>2, <1>4, <2>1
    <3>4. l - 1 = k
      BY <2>1, <3>1
    <3> QED BY <3>1, <3>2, <3>3, <3>4
  <2>3. /\ Len(w[k + 1]) = Len(w[k]) + Len(names[k + 1]) + 1
        /\ \A i \in 1 .. Len(w[k]) : w[k + 1][i] = w[k][i]
        /\ \A j \in 1 .. Len(names[k + 1]) : w[k + 1][Len(w[k]) + j] = names[k + 1][j]
        /\ w[k + 1][Len(w[k]) + Len(names[k + 1]) + 1] = Data!Blank
    <3>1. Lengthened(w[k + 1], w[k], names[k + 1])
      BY <2>2, NameIsWritten
    <3> QED BY <3>1 DEF Lengthened
  <2> QED BY <1>4, <2>1, <2>3
<1> DEFINE N == {m \in Nat : m <= n => \A k \in 0 .. m : L[k] <= L[m] /\ \A i \in 1 .. L[k] : w[m][i] = w[k][i]}
<1>6. N \in SUBSET Nat /\ 0 \in N
  <2>1. \A k \in 0 .. 0 : k = 0
    OBVIOUS
  <2> QED BY <1>2, <1>4, <2>1
<1>7. ASSUME NEW m \in N PROVE m + 1 \in N
  <2>0. m \in Nat /\ (m <= n => \A k \in 0 .. m : L[k] <= L[m] /\ \A i \in 1 .. L[k] : w[m][i] = w[k][i])
    OBVIOUS
  <2>1. ASSUME m + 1 <= n, NEW k \in 0 .. m + 1
        PROVE  L[k] <= L[m + 1] /\ \A i \in 1 .. L[k] : w[m + 1][i] = w[k][i]
    <3>1. m \in 0 .. n - 1 /\ m \in 0 .. n /\ m + 1 \in 0 .. n /\ m + 1 \in 1 .. n /\ m <= n
      BY <1>2, <2>0, <2>1
    <3>2. L[m + 1] = L[m] + M[m + 1] + 1 /\ \A i \in 1 .. L[m] : w[m + 1][i] = w[m][i]
      BY <1>5, <3>1
    <3>3. L[m] \in Nat /\ M[m + 1] \in Nat /\ L[m + 1] \in Nat
      BY <1>4, <3>1
    <3>4. CASE k = m + 1
      BY <3>3, <3>4
    <3>5. CASE k \in 0 .. m
      <4>1. L[k] <= L[m] /\ \A i \in 1 .. L[k] : w[m][i] = w[k][i]
        BY <2>0, <3>1, <3>5
      <4>2. L[k] \in Nat
        <5>1. k \in 0 .. n
          BY <1>2, <2>0, <3>1, <3>5
        <5> QED BY <1>4, <5>1
      <4>3. L[k] <= L[m + 1] /\ \A i \in 1 .. L[k] : i \in 1 .. L[m]
        BY <3>2, <3>3, <4>1, <4>2
      <4> QED BY <3>2, <4>1, <4>3
    <3> QED BY <2>0, <3>4, <3>5
  <2> QED BY <2>0, <2>1
<1>8. N = Nat
  <2> HIDE DEF N
  <2> QED BY <1>6, <1>7, SetInduction
<1>9. \A k \in 0 .. n : L[k] <= L[n] /\ \A i \in 1 .. L[k] : w[n][i] = w[k][i]
  <2>1. n \in N
    <3> HIDE DEF N
    <3> QED BY <1>2, <1>8
  <2> QED BY <1>2, <2>1
<1> HIDE DEF N
<1>10. text \in Text /\ Len(text) = L[n] - 1 /\ \A i \in 1 .. L[n] - 1 : text[i] = w[n][i]
  <2>1. n \in 0 .. n /\ n \in 1 .. n /\ n - 1 \in 0 .. n - 1 /\ n - 1 \in 0 .. n /\ n - 1 + 1 = n
    BY <1>2
  <2>2. L[n - 1 + 1] = L[n - 1] + M[n - 1 + 1] + 1
    BY <1>5, <2>1
  <2>3. L[n] = L[n - 1] + M[n] + 1
    BY <2>1, <2>2
  <2>4. w[n] \in Text /\ L[n] >= 1 /\ L[n] \in Nat /\ Len(w[n]) = L[n]
    BY <1>4, <2>1, <2>3
  <2> DEFINE v == w[n]
  <2>5. text = SubSeq(v, 1, Len(v) - 1) /\ v \in Text /\ Len(v) \in Nat /\ Len(v) >= 1 /\ Len(v) = L[n]
    BY <1>3, <2>4
  <2> HIDE DEF v
  <2>6. text \in Text /\ Len(text) = Len(v) - 1 /\ \A i \in 1 .. Len(v) - 1 : text[i] = v[i]
    BY <2>5 DEF Text
  <2> QED BY <2>5, <2>6 DEF v
<1>11. ASSUME NEW k \in 0 .. n - 1, NEW j \in 1 .. M[k + 1] PROVE text[L[k] + j] = names[k + 1][j]
  <2>1. k \in 0 .. n /\ k + 1 \in 0 .. n /\ k + 1 \in 1 .. n /\ n \in 0 .. n
    BY <1>2
  <2>2. L[k + 1] = L[k] + M[k + 1] + 1 /\ w[k + 1][L[k] + j] = names[k + 1][j]
    BY <1>5
  <2>3. L[k + 1] <= L[n] /\ \A i \in 1 .. L[k + 1] : w[n][i] = w[k + 1][i]
    BY <1>9, <2>1
  <2>4. L[k] \in Nat /\ L[k + 1] \in Nat /\ L[n] \in Nat /\ M[k + 1] \in Nat
    BY <1>4, <2>1
  <2>5. L[k] + j \in 1 .. L[k + 1] /\ L[k] + j \in 1 .. L[n] - 1
    BY <2>2, <2>3, <2>4
  <2> QED BY <1>10, <2>2, <2>3, <2>5
<1>12. ASSUME NEW k \in 1 .. n - 1 PROVE text[L[k]] = Data!Blank
  <2>1. k - 1 \in 0 .. n - 1 /\ k \in 0 .. n - 1 /\ k \in 0 .. n /\ k + 1 \in 0 .. n /\ k - 1 \in 0 .. n
        /\ k - 1 + 1 = k /\ n \in 0 .. n /\ k \in 1 .. n /\ k + 1 \in 1 .. n
    BY <1>2
  <2>2. w[k - 1 + 1][L[k - 1 + 1]] = Data!Blank /\ L[k - 1 + 1] = L[k - 1] + M[k - 1 + 1] + 1
    BY <1>5, <2>1
  <2>3. w[k][L[k]] = Data!Blank /\ L[k] = L[k - 1] + M[k] + 1
    BY <2>1, <2>2
  <2>4. L[k + 1] = L[k] + M[k + 1] + 1
    BY <1>5, <2>1
  <2>5. L[k] \in Nat /\ L[k - 1] \in Nat /\ L[k + 1] \in Nat /\ L[n] \in Nat /\ M[k] \in Nat /\ M[k + 1] \in Nat
    BY <1>4, <2>1
  <2>6. L[k + 1] <= L[n] /\ \A i \in 1 .. L[k] : w[n][i] = w[k][i]
    BY <1>9, <2>1
  <2>7. L[k] \in 1 .. L[k] /\ L[k] \in 1 .. L[n] - 1
    BY <2>3, <2>4, <2>5, <2>6, Between
  <2> QED BY <1>10, <2>3, <2>6, <2>7
<1>13. \A k \in 0 .. n - 1 : k + 1 \in 1 .. n
  BY <1>2
<1>14. /\ \A k \in 0 .. n - 1 : L[k + 1] = L[k] + Len(names[k + 1]) + 1
       /\ \A k \in 0 .. n - 1 : \A j \in 1 .. Len(names[k + 1]) : text[L[k] + j] = names[k + 1][j]
  BY <1>4, <1>5, <1>11, <1>13
<1>15. Spelled(names, L, text)
  BY <1>4, <1>9, <1>10, <1>12, <1>14 DEF Spelled, n
<1> QED BY <1>15 DEF text

-----------------------------------------------------------------------------
(* strtok along the text.                                                  *)

CutState == [pieces : Seq(Text), piece : Text]

\* Before the first character
NoPieces == [pieces |-> <<>>, piece |-> <<>>]

\* A piece ends at a delimiter and at the end of the text.
EndsAt(text, i) == i = Len(text) + 1 \/ text[i] = Data!Blank

\* One character of strtok
CutStep(text, v, i) ==
  IF ~EndsAt(text, i) THEN [v EXCEPT !.piece = Append(@, text[i])]
  ELSE IF v.piece = <<>> THEN v
  ELSE [pieces |-> Append(v.pieces, v.piece), piece |-> <<>>]

\* strtok through all of the text: "cut" of Pieces
Cut(text, cut) ==
  /\ cut \in [0 .. Len(text) + 1 -> CutState]
  /\ cut[0] = NoPieces
  /\ \A i \in 0 .. Len(text) : cut[i + 1] = CutStep(text, cut[i], i + 1)
  /\ Data!Pieces(text) = cut[Len(text) + 1].pieces

\* A character leaves pieces that are texts.
LEMMA CutStepType ==
  ASSUME NEW text \in Text, NEW v \in CutState, NEW i \in 1 .. Len(text) + 1
  PROVE  CutStep(text, v, i) \in CutState
<1>1. v.pieces \in Seq(Text) /\ v.piece \in Text
  BY DEF CutState
<1>2. CASE ~EndsAt(text, i)
  <2>1. i \in 1 .. Len(text)
    BY <1>2 DEF EndsAt, Text
  <2>2. text[i] \in STRING \cup {Data!Blank}
    BY <2>1 DEF Text
  <2>3. Append(v.piece, text[i]) \in Text
    BY <1>1, <2>2 DEF Text
  <2> QED BY <1>2, <2>3 DEF CutStep, CutState
<1>3. CASE EndsAt(text, i)
  <2>1. Append(v.pieces, v.piece) \in Seq(Text) /\ <<>> \in Text
    <3>1. <<>> \in Text
      BY DEF Text
    <3>2. Append(v.pieces, v.piece) \in Seq(Text)
      BY <1>1
    <3> QED BY <3>1, <3>2
  <2> QED BY <1>3, <2>1 DEF CutStep, CutState
<1> QED BY <1>2, <1>3

\* The pieces are what strtok cuts, character by character.
LEMMA PiecesAreCut ==
  ASSUME NEW text \in Text
  PROVE  \E cut : Cut(text, cut)
<1> DEFINE n == Len(text) + 1
           G == [i \in 1 .. n |-> [v \in CutState |-> CutStep(text, v, i)]]
           Eq(w) == w = [i \in 0 .. n |-> IF i = 0 THEN NoPieces ELSE CutStep(text, w[i - 1], i)]
           w == CHOOSE x : Eq(x)
<1>1. n \in Nat /\ n - 1 = Len(text)
  BY DEF Text
<1>2. NoPieces \in CutState
  BY DEF NoPieces, CutState, Text
<1>3. G \in [1 .. n -> [CutState -> CutState]]
  BY CutStepType
<1>4. \A i \in 1 .. n : \A v \in CutState : G[i][v] = CutStep(text, v, i)
  OBVIOUS
<1> HIDE DEF G
<1>5. PICK f : Goes(f, CutState, NoPieces, n, G)
  <2> HIDE DEF n
  <2> QED BY <1>1, <1>2, <1>3, RecursionExists
<1>6. Eq(f)
  <2> HIDE DEF n
  <2>0. f \in [0 .. n -> CutState] /\ f[0] = NoPieces /\ \A k \in 1 .. n : f[k] = G[k][f[k - 1]]
    BY <1>5 DEF Goes
  <2>1. \A k \in 0 .. n : k # 0 => k \in 1 .. n /\ k - 1 \in 0 .. n
    BY <1>1
  <2>2. \A k \in 1 .. n : f[k] = CutStep(text, f[k - 1], k)
    <3>1. \A k \in 1 .. n : f[k - 1] \in CutState
      BY <2>0, <2>1
    <3> QED BY <1>4, <2>0, <3>1
  <2> QED BY <2>0, <2>1, <2>2
<1>7. Eq(w)
  <2> HIDE DEF Eq
  <2> QED BY <1>6
<1>8. Data!Pieces(text) = w[n].pieces
  BY DEF Data!Pieces, CutStep, EndsAt, NoPieces
<1>9. /\ w = [k \in 0 .. n |-> w[k]] /\ w[0] = NoPieces
      /\ \A k \in 1 .. n : w[k] = CutStep(text, w[k - 1], k)
  <2> HIDE DEF w, n
  <2>1. \A k \in 1 .. n : k \in 0 .. n /\ k # 0
    BY <1>1
  <2>2. 0 \in 0 .. n
    BY <1>1
  <2>3. w[0] = NoPieces /\ \A k \in 1 .. n : w[k] = CutStep(text, w[k - 1], k)
    BY <1>7, <2>1, <2>2
  <2>4. w = [k \in 0 .. n |-> w[k]]
    BY <1>7
  <2> QED BY <2>3, <2>4
<1> HIDE DEF w, Eq
<1>10. w \in [0 .. n -> CutState]
  <2> HIDE DEF n
  <2>1. \A k \in 1 .. n : w[k - 1] \in CutState => w[k] = G[k][w[k - 1]]
    BY <1>4, <1>9
  <2>2. Follows(w, CutState, NoPieces, n, G)
    BY <1>9, <2>1 DEF Follows
  <2>3. Goes(w, CutState, NoPieces, n, G)
    BY <1>1, <1>2, <1>3, <2>2, RecursionIs
  <2> QED BY <2>3 DEF Goes
<1>11. ASSUME NEW i \in 0 .. Len(text) PROVE w[i + 1] = CutStep(text, w[i], i + 1)
  <2>1. PICK k \in 1 .. n : k = i + 1
    BY <1>1
  <2>2. w[k] = CutStep(text, w[k - 1], k)
    BY <1>9
  <2>3. k - 1 = i
    BY <2>1
  <2> QED BY <2>1, <2>2, <2>3
<1> QED BY <1>8, <1>9, <1>10, <1>11 DEF Cut

\* The beginnings of a sequence
LEMMA PrefixIs ==
  ASSUME NEW S, NEW s \in Seq(S)
  PROVE  /\ SubSeq(s, 1, 0) = <<>> /\ SubSeq(s, 1, Len(s)) = s /\ Len(s) \in Nat
         /\ \A k \in 0 .. Len(s) : /\ SubSeq(s, 1, k) \in Seq(S) /\ Len(SubSeq(s, 1, k)) = k
                                   /\ \A j \in 1 .. k : SubSeq(s, 1, k)[j] = s[j]
         /\ \A k \in 0 .. Len(s) - 1 : SubSeq(s, 1, k + 1) = Append(SubSeq(s, 1, k), s[k + 1])
<1>1. SubSeq(s, 1, 0) = <<>> /\ Len(s) \in Nat
  OBVIOUS
<1>2. SubSeq(s, 1, Len(s)) = s
  OBVIOUS
<1>3. ASSUME NEW k \in 0 .. Len(s)
      PROVE  /\ SubSeq(s, 1, k) \in Seq(S) /\ Len(SubSeq(s, 1, k)) = k
             /\ \A j \in 1 .. k : SubSeq(s, 1, k)[j] = s[j]
  BY <1>1
<1>4. ASSUME NEW k \in 0 .. Len(s) - 1 PROVE SubSeq(s, 1, k + 1) = Append(SubSeq(s, 1, k), s[k + 1])
  <2> DEFINE a == SubSeq(s, 1, k + 1)
             p == SubSeq(s, 1, k)
             b == Append(p, s[k + 1])
  <2>1. a \in Seq(S) /\ Len(a) = k + 1 /\ \A j \in 1 .. k + 1 : a[j] = s[j]
    BY <1>1
  <2>2. p \in Seq(S) /\ Len(p) = k /\ \A j \in 1 .. k : p[j] = s[j]
    BY <1>1, <1>3
  <2>3. s[k + 1] \in S
    BY <1>1
  <2> HIDE DEF a, p
  <2>4. b \in Seq(S) /\ Len(b) = k + 1 /\ \A j \in 1 .. k + 1 : b[j] = s[j]
    BY <2>2, <2>3
  <2> HIDE DEF b
  <2>5. a = b
    BY <2>1, <2>4
  <2> QED BY <2>5 DEF a, b, p
<1> QED BY <1>1, <1>2, <1>3, <1>4

\* A name that strtok does not cut
OneWord(name) == name # <<>> /\ \A c \in 1 .. Len(name) : name[c] # Data!Blank

\* Behind a delimiter
Cleared(pieces) == [pieces |-> pieces, piece |-> <<>>]

\* A name without a blank in it is a piece, from one delimiter to the next.
LEMMA NameIsAPiece ==
  ASSUME NEW names \in Seq(Text), NEW L, NEW text, Spelled(names, L, text),
         NEW cut, Cut(text, cut),
         NEW k \in 0 .. Len(names) - 1, OneWord(names[k + 1]),
         NEW p \in Seq(Text), cut[L[k]] = Cleared(p)
  PROVE  cut[L[k + 1]] = Cleared(Append(p, names[k + 1]))
<1> USE DEF Cleared
<1> DEFINE name == names[k + 1]
           at == L[k]
<1>1. Len(names) \in Nat /\ k + 1 \in 1 .. Len(names) /\ k \in 0 .. Len(names) /\ k + 1 \in 0 .. Len(names)
  OBVIOUS
<1>2. name \in Text /\ Len(name) \in Nat /\ Len(name) > 0 /\ name # <<>>
  <2>1. name \in Text
    BY <1>1
  <2>2. name # <<>>
    BY DEF OneWord
  <2> QED BY <2>1, <2>2 DEF Text
<1>3. /\ at \in Nat /\ L[k + 1] = at + Len(name) + 1 /\ L[k + 1] <= Len(text) + 1 /\ Len(text) \in Nat
      /\ \A j \in 1 .. Len(name) : text[at + j] = name[j]
      /\ k + 1 # Len(names) => text[L[k + 1]] = Data!Blank
      /\ k + 1 = Len(names) => L[k + 1] = Len(text) + 1
  <2>1. /\ L \in [0 .. Len(names) -> Nat] /\ L[k + 1] = L[k] + Len(names[k + 1]) + 1
        /\ L[k + 1] <= L[Len(names)] /\ Len(text) = L[Len(names)] - 1 /\ text \in Text
        /\ \A j \in 1 .. Len(names[k + 1]) : text[L[k] + j] = names[k + 1][j]
    BY <1>1 DEF Spelled
  <2>2. k + 1 # Len(names) => text[L[k + 1]] = Data!Blank
    <3>1. k + 1 # Len(names) => k + 1 \in 1 .. Len(names) - 1
      BY <1>1
    <3> QED BY <3>1 DEF Spelled
  <2>3. L[k] \in Nat /\ L[Len(names)] \in Nat
    BY <1>1, <2>1
  <2>4. Len(text) \in Nat
    BY <2>1 DEF Text
  <2> QED BY <1>1, <2>1, <2>2, <2>3, <2>4
<1>4. OneWord(name)
  OBVIOUS
<1>5. \A i \in 0 .. Len(text) : cut[i + 1] = CutStep(text, cut[i], i + 1)
  BY DEF Cut
<1>6. cut[at] = [pieces |-> p, piece |-> <<>>]
  OBVIOUS
<1> HIDE DEF name, at
<1>p. /\ SubSeq(name, 1, 0) = <<>> /\ SubSeq(name, 1, Len(name)) = name
      /\ \A j \in 0 .. Len(name) - 1 : SubSeq(name, 1, j + 1) = Append(SubSeq(name, 1, j), name[j + 1])
  BY <1>2, PrefixIs DEF Text
<1> DEFINE N == {j \in Nat : j <= Len(name) => cut[at + j] = [pieces |-> p, piece |-> SubSeq(name, 1, j)]}
<1>7. N \in SUBSET Nat /\ 0 \in N
  <2>1. at + 0 = at
    BY <1>3
  <2> QED BY <1>6, <1>p, <2>1
<1>8. ASSUME NEW j \in N PROVE j + 1 \in N
  <2>0. j \in Nat /\ (j <= Len(name) => cut[at + j] = [pieces |-> p, piece |-> SubSeq(name, 1, j)])
    OBVIOUS
  <2>1. ASSUME j + 1 <= Len(name) PROVE cut[at + (j + 1)] = [pieces |-> p, piece |-> SubSeq(name, 1, j + 1)]
    <3>1. /\ j <= Len(name) /\ j \in 0 .. Len(name) - 1 /\ j + 1 \in 1 .. Len(name)
          /\ at + j \in 0 .. Len(text) /\ at + j + 1 = at + (j + 1) /\ at + (j + 1) # Len(text) + 1
      BY <1>2, <1>3, <2>0, <2>1
    <3>2. cut[at + j + 1] = CutStep(text, cut[at + j], at + j + 1)
      BY <1>5, <3>1
    <3>3. cut[at + (j + 1)] = CutStep(text, cut[at + j], at + (j + 1))
      BY <3>1, <3>2
    <3>4. text[at + (j + 1)] = name[j + 1] /\ name[j + 1] # Data!Blank
      BY <1>3, <1>4, <3>1 DEF OneWord
    <3>5. ~EndsAt(text, at + (j + 1))
      BY <3>1, <3>4 DEF EndsAt
    <3>6. cut[at + j] = [pieces |-> p, piece |-> SubSeq(name, 1, j)]
      BY <2>0, <3>1
    <3>7. cut[at + (j + 1)] = [pieces |-> p, piece |-> Append(SubSeq(name, 1, j), text[at + (j + 1)])]
      <4> DEFINE s == SubSeq(name, 1, j)
      <4>1. CutStep(text, [pieces |-> p, piece |-> s], at + (j + 1)) =
              [pieces |-> p, piece |-> Append(s, text[at + (j + 1)])]
        <5> HIDE DEF s
        <5> QED BY <3>5 DEF CutStep
      <4> QED BY <3>3, <3>6, <4>1
    <3> QED BY <1>p, <3>1, <3>4, <3>7
  <2> QED BY <2>0, <2>1
<1>9. N = Nat
  <2> HIDE DEF N
  <2> QED BY <1>7, <1>8, SetInduction
<1>10. cut[at + Len(name)] = [pieces |-> p, piece |-> name]
  <2>1. Len(name) \in N
    <3> HIDE DEF N
    <3> QED BY <1>2, <1>9
  <2> QED BY <1>2, <1>p, <2>1
<1> HIDE DEF N
<1>11. /\ at + Len(name) \in 0 .. Len(text)
       /\ cut[L[k + 1]] = CutStep(text, cut[at + Len(name)], L[k + 1])
  <2>1. at + Len(name) \in 0 .. Len(text)
    BY <1>2, <1>3
  <2>2. cut[at + Len(name) + 1] = CutStep(text, cut[at + Len(name)], at + Len(name) + 1)
    BY <1>5, <2>1
  <2> QED BY <1>3, <2>1, <2>2
<1>12. EndsAt(text, L[k + 1])
  BY <1>3 DEF EndsAt
<1>13. cut[L[k + 1]] = [pieces |-> Append(p, name), piece |-> <<>>]
  BY <1>2, <1>10, <1>11, <1>12 DEF CutStep
<1> QED BY <1>13 DEF name

\* The first m names are such.
Plain(names, m) == \A k \in 1 .. m : OneWord(names[k])

\* Behind the m-th name, the pieces are the first m names.
LEMMA NamesArePieces ==
  ASSUME NEW names \in Seq(Text), NEW L, NEW text, Spelled(names, L, text),
         NEW cut, Cut(text, cut), NEW m \in 0 .. Len(names), Plain(names, m)
  PROVE  cut[L[m]] = Cleared(SubSeq(names, 1, m))
<1> DEFINE N == {k \in Nat : k <= m => cut[L[k]] = Cleared(SubSeq(names, 1, k))}
<1>p. /\ SubSeq(names, 1, 0) = <<>> /\ Len(names) \in Nat
      /\ \A k \in 0 .. Len(names) : SubSeq(names, 1, k) \in Seq(Text)
      /\ \A k \in 0 .. Len(names) - 1 : SubSeq(names, 1, k + 1) = Append(SubSeq(names, 1, k), names[k + 1])
  BY PrefixIs
<1>1. N \in SUBSET Nat /\ 0 \in N
  <2>1. L[0] = 0 /\ cut[0] = Cleared(<<>>)
    BY DEF Spelled, Cut, NoPieces, Cleared
  <2> QED BY <1>p, <2>1
<1>2. ASSUME NEW k \in N PROVE k + 1 \in N
  <2>0. k \in Nat /\ (k <= m => cut[L[k]] = Cleared(SubSeq(names, 1, k)))
    OBVIOUS
  <2>1. ASSUME k + 1 <= m PROVE cut[L[k + 1]] = Cleared(SubSeq(names, 1, k + 1))
    <3> DEFINE p == SubSeq(names, 1, k)
    <3>1. k \in 0 .. Len(names) - 1 /\ k \in 0 .. Len(names) /\ k <= m /\ k + 1 \in 1 .. m
      BY <1>p, <2>0, <2>1
    <3>2. OneWord(names[k + 1])
      BY <3>1 DEF Plain
    <3>3. p \in Seq(Text) /\ cut[L[k]] = Cleared(p)
      BY <1>p, <2>0, <3>1
    <3>4. SubSeq(names, 1, k + 1) = Append(p, names[k + 1])
      BY <1>p, <3>1
    <3> HIDE DEF p
    <3>5. cut[L[k + 1]] = Cleared(Append(p, names[k + 1]))
      <4> k \in 0 .. Len(names) - 1 /\ p \in Seq(Text) /\ cut[L[k]] = Cleared(p)
        BY <3>1, <3>3
      <4> QED BY <3>2, NameIsAPiece
    <3> QED BY <3>4, <3>5
  <2> QED BY <2>0, <2>1
<1>3. N = Nat
  <2> HIDE DEF N
  <2> QED BY <1>1, <1>2, SetInduction
<1>4. m \in N
  <2> HIDE DEF N
  <2> QED BY <1>3, <1>p
<1> QED BY <1>4

\* t goes on from s.
Extends(s, t) == Len(s) \in Nat /\ Len(t) \in Nat /\ Len(s) <= Len(t) /\ \A i \in 1 .. Len(s) : t[i] = s[i]

\* Going on from what goes on from s
LEMMA ExtendsFurther ==
  ASSUME NEW s, NEW t, NEW u, Extends(s, t), Extends(t, u)
  PROVE  Extends(s, u)
<1>1. \A i \in 1 .. Len(s) : i \in 1 .. Len(t)
  BY DEF Extends
<1> QED BY <1>1 DEF Extends

\* What is cut off stays.
LEMMA PiecesStay ==
  ASSUME NEW text \in Text, NEW cut, Cut(text, cut), NEW i \in 0 .. Len(text) + 1
  PROVE  Extends(cut[i].pieces, Data!Pieces(text))
<1> DEFINE N == {d \in Nat : i + d <= Len(text) + 1 => Extends(cut[i].pieces, cut[i + d].pieces)}
<1>0. /\ Len(text) \in Nat /\ cut \in [0 .. Len(text) + 1 -> CutState]
      /\ Data!Pieces(text) = cut[Len(text) + 1].pieces
      /\ \A k \in 0 .. Len(text) : cut[k + 1] = CutStep(text, cut[k], k + 1)
  <2>1. Len(text) \in Nat
    BY DEF Text
  <2> QED BY <2>1 DEF Cut
<1>1. N \in SUBSET Nat /\ 0 \in N
  <2>1. cut[i] \in CutState /\ i + 0 = i
    BY <1>0
  <2>2. cut[i].pieces \in Seq(Text)
    BY <2>1 DEF CutState
  <2>3. Extends(cut[i].pieces, cut[i].pieces)
    BY <2>2 DEF Extends
  <2> QED BY <2>1, <2>3
<1>2. ASSUME NEW d \in N PROVE d + 1 \in N
  <2>0. d \in Nat /\ (i + d <= Len(text) + 1 => Extends(cut[i].pieces, cut[i + d].pieces))
    OBVIOUS
  <2>1. ASSUME i + (d + 1) <= Len(text) + 1 PROVE Extends(cut[i].pieces, cut[i + (d + 1)].pieces)
    <3>1. i + d <= Len(text) + 1 /\ i + d \in 0 .. Len(text) /\ i + d + 1 = i + (d + 1)
          /\ i + d \in 0 .. Len(text) + 1
      BY <1>0, <2>0, <2>1
    <3> DEFINE v == cut[i + d]
    <3>2. v \in CutState
      BY <1>0, <3>1
    <3>3. cut[i + (d + 1)] = CutStep(text, v, i + (d + 1))
      BY <1>0, <3>1
    <3>4. Extends(cut[i].pieces, v.pieces)
      BY <2>0, <3>1
    <3> HIDE DEF v
    <3>5. v.pieces \in Seq(Text) /\ v.piece \in Text
      BY <3>2 DEF CutState
    <3>6. Extends(v.pieces, v.pieces) /\ Extends(v.pieces, Append(v.pieces, v.piece))
      BY <3>5 DEF Extends
    <3>7. CutStep(text, v, i + (d + 1)).pieces \in {v.pieces, Append(v.pieces, v.piece)}
      BY <3>2 DEF CutStep, CutState
    <3>8. Extends(v.pieces, cut[i + (d + 1)].pieces)
      BY <3>3, <3>6, <3>7
    <3> QED BY <3>4, <3>8, ExtendsFurther
  <2> QED BY <2>0, <2>1
<1>3. N = Nat
  <2> HIDE DEF N
  <2> QED BY <1>1, <1>2, SetInduction
<1>4. Len(text) + 1 - i \in N /\ i + (Len(text) + 1 - i) = Len(text) + 1
  <2>1. Len(text) + 1 - i \in Nat /\ i + (Len(text) + 1 - i) = Len(text) + 1
    BY <1>0
  <2> HIDE DEF N
  <2> QED BY <1>3, <2>1
<1>5. Extends(cut[i].pieces, cut[Len(text) + 1].pieces)
  BY <1>0, <1>4
<1> QED BY <1>0, <1>5

\* The first names come out of strtok as they went in.
LEMMA PiecesAreNames ==
  ASSUME NEW names \in Seq(Text), NEW L, NEW text, Spelled(names, L, text),
         NEW m \in 0 .. Len(names), Plain(names, m)
  PROVE  /\ Data!Pieces(text) \in Seq(Text)
         /\ Len(Data!Pieces(text)) >= m
         /\ \A k \in 1 .. m : Data!Pieces(text)[k] = names[k]
         /\ m = Len(names) => Data!Pieces(text) = names
<1>0. text \in Text /\ L \in [0 .. Len(names) -> Nat] /\ L[m] <= L[Len(names)] /\ Len(text) = L[Len(names)] - 1
      /\ Len(names) \in Nat
  BY DEF Spelled
<1>1. PICK cut : Cut(text, cut)
  BY <1>0, PiecesAreCut
<1>2. cut[L[m]] = Cleared(SubSeq(names, 1, m))
  BY <1>1, NamesArePieces
<1>3. L[m] \in 0 .. Len(text) + 1 /\ L[Len(names)] = Len(text) + 1
  <2>1. L[m] \in Nat /\ L[Len(names)] \in Nat
    BY <1>0
  <2> QED BY <1>0, <2>1
<1>4. Extends(SubSeq(names, 1, m), Data!Pieces(text))
  <2>1. Extends(cut[L[m]].pieces, Data!Pieces(text))
    BY <1>0, <1>1, <1>3, PiecesStay
  <2> QED BY <1>2, <2>1 DEF Cleared
<1>5. Data!Pieces(text) \in Seq(Text) /\ Data!Pieces(text) = cut[Len(text) + 1].pieces
  <2>1. Len(text) + 1 \in 0 .. Len(text) + 1
    BY <1>0, <1>3
  <2>2. cut[Len(text) + 1] \in CutState /\ Data!Pieces(text) = cut[Len(text) + 1].pieces
    BY <1>1, <2>1 DEF Cut
  <2> QED BY <2>2 DEF CutState
<1>6. /\ SubSeq(names, 1, Len(names)) = names /\ Len(SubSeq(names, 1, m)) = m
      /\ \A j \in 1 .. m : SubSeq(names, 1, m)[j] = names[j]
  BY PrefixIs
<1>7. m = Len(names) => Data!Pieces(text) = names
  BY <1>2, <1>3, <1>5, <1>6 DEF Cleared
<1>8. Len(Data!Pieces(text)) >= m /\ \A k \in 1 .. m : Data!Pieces(text)[k] = names[k]
  BY <1>4, <1>6 DEF Extends
<1> QED BY <1>5, <1>7, <1>8

-----------------------------------------------------------------------------
(* The table that is made of the pieces.                                   *)

Adds(v, name) == Data!FT_add(v, name).ft

\* ME_FT_add leaves the entries there are, and appends a new name.
LEMMA AddsIs ==
  ASSUME NEW v \in Seq(Text), NEW name \in Text
  PROVE  /\ Adds(v, name) \in {v, Append(v, name)} /\ Adds(v, name) \in Seq(Text)
         /\ Extends(v, Adds(v, name))
         /\ name # <<>> /\ (\A i \in 1 .. Len(v) : v[i] # name) => Adds(v, name) = Append(v, name)
<1>1. Adds(v, name) \in {v, Append(v, name)}
  BY DEF Adds, Data!FT_add
<1>2. Append(v, name) \in Seq(Text) /\ Extends(v, v) /\ Extends(v, Append(v, name))
  BY DEF Extends
<1>3. ASSUME name # <<>>, \A i \in 1 .. Len(v) : v[i] # name
      PROVE  Adds(v, name) = Append(v, name)
  <2>1. Data!FT_get_index(v, name) = -1
    BY <1>3 DEF Data!FT_get_index
  <2> QED BY <1>3, <2>1 DEF Adds, Data!FT_add, Data!Null
<1> QED BY <1>1, <1>2, <1>3

\* The table entry by entry: "ft" of FT_decode
Tabled(text, q, table) ==
  /\ table \in [0 .. Len(q) -> Seq(Text)] /\ table[0] = <<>>
  /\ \A k \in 0 .. Len(q) - 1 : table[k + 1] = Adds(table[k], q[k + 1])
  /\ Data!FT_decode(text) = table[Len(q)]

\* ME_FT_decode adds one piece after the other.
LEMMA DecodeAdds ==
  ASSUME NEW text, Data!Pieces(text) \in Seq(Text)
  PROVE  \E table : Tabled(text, Data!Pieces(text), table)
<1> DEFINE q == Data!Pieces(text)
           n == Len(q)
           V == Seq(Text)
           G == [k \in 1 .. n |-> [v \in V |-> Adds(v, q[k])]]
           Eq(w) == w = [k \in 0 .. n |-> IF k = 0 THEN <<>> ELSE Adds(w[k - 1], q[k])]
           w == CHOOSE x : Eq(x)
<1>1. n \in Nat /\ <<>> \in V /\ \A k \in 1 .. n : q[k] \in Text
  OBVIOUS
<1>2. Data!FT_decode(text) = w[n]
  BY DEF Data!FT_decode, Adds
<1> HIDE DEF q
<1>3. G \in [1 .. n -> [V -> V]]
  BY <1>1, AddsIs
<1>4. \A k \in 1 .. n : \A v \in V : G[k][v] = Adds(v, q[k])
  OBVIOUS
<1> HIDE DEF G, V
<1>5. PICK f : Goes(f, V, <<>>, n, G)
  <2> HIDE DEF n
  <2> QED BY <1>1, <1>3, RecursionExists
<1>6. Eq(f)
  <2> HIDE DEF n
  <2>0. f \in [0 .. n -> V] /\ f[0] = <<>> /\ \A k \in 1 .. n : f[k] = G[k][f[k - 1]]
    BY <1>5 DEF Goes
  <2>1. \A k \in 0 .. n : k # 0 => k \in 1 .. n /\ k - 1 \in 0 .. n
    BY <1>1
  <2>2. \A k \in 1 .. n : f[k] = Adds(f[k - 1], q[k])
    <3>1. \A k \in 1 .. n : f[k - 1] \in V
      BY <2>0, <2>1
    <3> QED BY <1>4, <2>0, <3>1
  <2> QED BY <2>0, <2>1, <2>2
<1>7. Eq(w)
  <2> HIDE DEF Eq
  <2> QED BY <1>6
<1>9. /\ w = [k \in 0 .. n |-> w[k]] /\ w[0] = <<>>
      /\ \A k \in 1 .. n : w[k] = Adds(w[k - 1], q[k])
  <2> HIDE DEF w, n
  <2>1. \A k \in 1 .. n : k \in 0 .. n /\ k # 0
    BY <1>1
  <2>2. 0 \in 0 .. n
    BY <1>1
  <2>3. w[0] = <<>> /\ \A k \in 1 .. n : w[k] = Adds(w[k - 1], q[k])
    BY <1>7, <2>1, <2>2
  <2>4. w = [k \in 0 .. n |-> w[k]]
    BY <1>7
  <2> QED BY <2>3, <2>4
<1> HIDE DEF w, Eq
<1>10. w \in [0 .. n -> V]
  <2> HIDE DEF n
  <2>1. \A k \in 1 .. n : w[k - 1] \in V => w[k] = G[k][w[k - 1]]
    BY <1>4, <1>9
  <2>2. Follows(w, V, <<>>, n, G)
    BY <1>9, <2>1 DEF Follows
  <2>3. Goes(w, V, <<>>, n, G)
    BY <1>1, <1>3, <2>2, RecursionIs
  <2> QED BY <2>3 DEF Goes
<1>11. ASSUME NEW i \in 0 .. n - 1 PROVE w[i + 1] = Adds(w[i], q[i + 1])
  <2>1. PICK k \in 1 .. n : k = i + 1
    BY <1>1
  <2>2. w[k] = Adds(w[k - 1], q[k])
    BY <1>9
  <2>3. k - 1 = i
    BY <2>1
  <2> QED BY <2>1, <2>2, <2>3
<1>12. Tabled(text, q, w)
  BY <1>2, <1>9, <1>10, <1>11 DEF Tabled, V
<1> QED BY <1>12 DEF q

\* No name is listed twice.
Distinct(names) == \A i, j \in 1 .. Len(names) : names[i] = names[j] => i = j

\* Names that are distinct and of one word each are the first entries of the table
\* that comes out, and all of it if that is true of all.
LEMMA TableOfNames ==
  ASSUME NEW names \in Seq(Text), Distinct(names), NEW L, NEW text, Spelled(names, L, text),
         NEW m \in 0 .. Len(names), Plain(names, m)
  PROVE  /\ Data!FT_decode(text) \in Seq(Text)
         /\ Extends(SubSeq(names, 1, m), Data!FT_decode(text))
         /\ m = Len(names) => Data!FT_decode(text) = names
<1> DEFINE q == Data!Pieces(text)
<1>1. /\ q \in Seq(Text) /\ Len(q) >= m /\ Len(q) \in Nat
      /\ \A k \in 1 .. m : q[k] = names[k]
      /\ m = Len(names) => q = names
  <2>1. /\ q \in Seq(Text) /\ Len(q) >= m
        /\ \A k \in 1 .. m : q[k] = names[k]
        /\ m = Len(names) => q = names
    BY PiecesAreNames
  <2> QED BY <2>1
<1>2. PICK t : Tabled(text, q, t)
  BY <1>1, DecodeAdds
<1> HIDE DEF q
<1>3. /\ t \in [0 .. Len(q) -> Seq(Text)] /\ t[0] = <<>>
      /\ \A k \in 0 .. Len(q) - 1 : t[k + 1] = Adds(t[k], q[k + 1])
      /\ Data!FT_decode(text) = t[Len(q)]
  BY <1>2 DEF Tabled
<1>p. /\ SubSeq(names, 1, 0) = <<>> /\ Len(names) \in Nat /\ SubSeq(names, 1, Len(names)) = names
      /\ \A k \in 0 .. Len(names) : /\ SubSeq(names, 1, k) \in Seq(Text) /\ Len(SubSeq(names, 1, k)) = k
                                    /\ \A j \in 1 .. k : SubSeq(names, 1, k)[j] = names[j]
      /\ \A k \in 0 .. Len(names) - 1 : SubSeq(names, 1, k + 1) = Append(SubSeq(names, 1, k), names[k + 1])
  BY PrefixIs
<1> DEFINE N == {k \in Nat : k <= m => t[k] = SubSeq(names, 1, k)}
<1>4. N \in SUBSET Nat /\ 0 \in N
  BY <1>3, <1>p
<1>5. ASSUME NEW k \in N PROVE k + 1 \in N
  <2>0. k \in Nat /\ (k <= m => t[k] = SubSeq(names, 1, k))
    OBVIOUS
  <2>1. ASSUME k + 1 <= m PROVE t[k + 1] = SubSeq(names, 1, k + 1)
    <3> DEFINE v == SubSeq(names, 1, k)
               name == names[k + 1]
    <3>1. /\ k <= m /\ k \in 0 .. Len(names) - 1 /\ k \in 0 .. Len(names) /\ k + 1 \in 1 .. m
          /\ k + 1 \in 1 .. Len(names) /\ k \in 0 .. Len(q) - 1
      <4>1. Len(q) >= m /\ Len(q) \in Nat /\ Len(names) \in Nat /\ k \in Nat
        BY <1>1, <1>p, <2>0
      <4> QED BY <2>1, <4>1
    <3>2. t[k] = v /\ v \in Seq(Text) /\ Len(v) = k /\ \A j \in 1 .. k : v[j] = names[j]
      BY <1>p, <2>0, <3>1
    <3>3. t[k + 1] = Adds(t[k], q[k + 1]) /\ q[k + 1] = name
      BY <1>1, <1>3, <3>1
    <3>4. name \in Text /\ name # <<>>
      <4>1. OneWord(name)
        BY <3>1 DEF Plain
      <4>2. name \in Text
        BY <3>1
      <4> QED BY <4>1, <4>2 DEF OneWord
    <3>5. \A j \in 1 .. k : names[j] # name
      <4>1. \A j \in 1 .. k : j \in 1 .. Len(names) /\ j # k + 1
        BY <3>1
      <4> QED BY <3>1, <4>1 DEF Distinct
    <3>6. SubSeq(names, 1, k + 1) = Append(v, name)
      BY <1>p, <3>1
    <3> HIDE DEF v, name
    <3>7. \A i \in 1 .. Len(v) : v[i] # name
      BY <3>2, <3>5
    <3>8. Adds(v, name) = Append(v, name)
      BY <3>2, <3>4, <3>7, AddsIs
    <3> QED BY <3>2, <3>3, <3>6, <3>8
  <2> QED BY <2>0, <2>1
<1>6. N = Nat
  <2> HIDE DEF N
  <2> QED BY <1>4, <1>5, SetInduction
<1>7. t[m] = SubSeq(names, 1, m)
  <2>1. m \in N
    <3> HIDE DEF N
    <3> QED BY <1>6, <1>p
  <2> QED BY <2>1
<1> HIDE DEF N
<1> DEFINE D == {d \in Nat : m + d <= Len(q) => Extends(t[m], t[m + d])}
<1>8. D \in SUBSET Nat /\ 0 \in D
  <2>1. t[m] \in Seq(Text) /\ m + 0 = m
    BY <1>1, <1>3
  <2> QED BY <2>1 DEF Extends
<1>9. ASSUME NEW d \in D PROVE d + 1 \in D
  <2>0. d \in Nat /\ (m + d <= Len(q) => Extends(t[m], t[m + d]))
    OBVIOUS
  <2>1. ASSUME m + (d + 1) <= Len(q) PROVE Extends(t[m], t[m + (d + 1)])
    <3>1. /\ m + d <= Len(q) /\ m + d \in 0 .. Len(q) - 1 /\ m + d \in 0 .. Len(q)
          /\ m + d + 1 = m + (d + 1) /\ m + d + 1 \in 1 .. Len(q)
      BY <1>1, <2>0, <2>1
    <3>2. t[m + d + 1] = Adds(t[m + d], q[m + d + 1])
      BY <1>3, <3>1
    <3>3. t[m + d] \in Seq(Text) /\ q[m + d + 1] \in Text
      BY <1>1, <1>3, <3>1
    <3>4. Extends(t[m + d], t[m + d + 1])
      BY <3>2, <3>3, AddsIs
    <3> QED BY <2>0, <3>1, <3>4, ExtendsFurther
  <2> QED BY <2>0, <2>1
<1>10. D = Nat
  <2> HIDE DEF D
  <2> QED BY <1>8, <1>9, SetInduction
<1>11. Extends(t[m], t[Len(q)])
  <2>1. Len(q) - m \in Nat /\ m + (Len(q) - m) = Len(q)
    BY <1>1
  <2>2. Len(q) - m \in D
    <3> HIDE DEF D
    <3> QED BY <1>10, <2>1
  <2> QED BY <2>1, <2>2
<1> HIDE DEF D
<1>12. Data!FT_decode(text) \in Seq(Text)
  <2>1. Len(q) \in 0 .. Len(q)
    BY <1>1
  <2> QED BY <1>3, <2>1
<1>13. m = Len(names) => Data!FT_decode(text) = names
  BY <1>1, <1>3, <1>7, <1>p
<1> QED BY <1>3, <1>7, <1>11, <1>12, <1>13

-----------------------------------------------------------------------------
(* str_split's count of the delimiters.                                    *)

Blanks(text, blanks) ==
  /\ blanks \in [0 .. Len(text) -> Nat] /\ blanks[0] = 0
  /\ \A i \in 0 .. Len(text) - 1 :
       blanks[i + 1] = blanks[i] + IF text[i + 1] = Data!Blank THEN 1 ELSE 0
  /\ Data!Expects(text) = blanks[Len(text)] + IF text # <<>> /\ text[Len(text)] = Data!Blank THEN 0 ELSE 1

\* Expects counts the delimiters one by one.
LEMMA BlanksAreCounted ==
  ASSUME NEW text \in Text
  PROVE  \E blanks : Blanks(text, blanks)
<1> DEFINE n == Len(text)
           One(i) == IF text[i] = Data!Blank THEN 1 ELSE 0
           G == [i \in 1 .. n |-> [v \in Nat |-> v + One(i)]]
           Eq(w) == w = [i \in 0 .. n |-> IF i = 0 THEN 0 ELSE w[i - 1] + One(i)]
           w == CHOOSE x : Eq(x)
<1>1. n \in Nat
  BY DEF Text
<1>2. Data!Expects(text) = w[n] + IF text # <<>> /\ text[n] = Data!Blank THEN 0 ELSE 1
  BY DEF Data!Expects
<1>3. G \in [1 .. n -> [Nat -> Nat]]
  OBVIOUS
<1>4. \A k \in 1 .. n : \A v \in Nat : G[k][v] = v + One(k)
  OBVIOUS
<1> HIDE DEF G, One
<1>5. PICK f : Goes(f, Nat, 0, n, G)
  <2> HIDE DEF n
  <2> QED BY <1>1, <1>3, RecursionExists
<1>6. Eq(f)
  <2> HIDE DEF n
  <2>0. f \in [0 .. n -> Nat] /\ f[0] = 0 /\ \A k \in 1 .. n : f[k] = G[k][f[k - 1]]
    BY <1>5 DEF Goes
  <2>1. \A k \in 0 .. n : k # 0 => k \in 1 .. n /\ k - 1 \in 0 .. n
    BY <1>1
  <2>2. \A k \in 1 .. n : f[k] = f[k - 1] + One(k)
    <3>1. \A k \in 1 .. n : f[k - 1] \in Nat
      BY <2>0, <2>1
    <3> QED BY <1>4, <2>0, <3>1
  <2> QED BY <2>0, <2>1, <2>2
<1>7. Eq(w)
  <2> HIDE DEF Eq
  <2> QED BY <1>6
<1>9. /\ w = [k \in 0 .. n |-> w[k]] /\ w[0] = 0
      /\ \A k \in 1 .. n : w[k] = w[k - 1] + One(k)
  <2> HIDE DEF w, n
  <2>1. \A k \in 1 .. n : k \in 0 .. n /\ k # 0
    BY <1>1
  <2>2. 0 \in 0 .. n
    BY <1>1
  <2>3. w[0] = 0 /\ \A k \in 1 .. n : w[k] = w[k - 1] + One(k)
    BY <1>7, <2>1, <2>2
  <2>4. w = [k \in 0 .. n |-> w[k]]
    BY <1>7
  <2> QED BY <2>3, <2>4
<1> HIDE DEF w, Eq
<1>10. w \in [0 .. n -> Nat]
  <2> HIDE DEF n
  <2>1. \A k \in 1 .. n : w[k - 1] \in Nat => w[k] = G[k][w[k - 1]]
    BY <1>4, <1>9
  <2>2. Follows(w, Nat, 0, n, G)
    BY <1>9, <2>1 DEF Follows
  <2>3. Goes(w, Nat, 0, n, G)
    BY <1>1, <1>3, <2>2, RecursionIs
  <2> QED BY <2>3 DEF Goes
<1>11. ASSUME NEW i \in 0 .. n - 1 PROVE w[i + 1] = w[i] + One(i + 1)
  <2>1. PICK k \in 1 .. n : k = i + 1
    BY <1>1
  <2>2. w[k] = w[k - 1] + One(k)
    BY <1>9
  <2>3. k - 1 = i
    BY <2>1
  <2> QED BY <2>1, <2>2, <2>3
<1>12. \A i \in 0 .. n - 1 : w[i + 1] = w[i] + IF text[i + 1] = Data!Blank THEN 1 ELSE 0
  BY <1>11 DEF One
<1> QED BY <1>2, <1>9, <1>10, <1>12 DEF Blanks

\* Each of the names but the last has one blank, behind it.
LEMMA ExpectsTheNames ==
  ASSUME NEW names \in Seq(Text), names # <<>>, NEW L, NEW text, Spelled(names, L, text),
         Plain(names, Len(names))
  PROVE  Data!Expects(text) = Len(names)
<1> DEFINE n == Len(names)
<1>1. n \in Nat /\ n >= 1
  OBVIOUS
<1>2. /\ L \in [0 .. n -> Nat] /\ L[0] = 0
      /\ \A k \in 0 .. n - 1 : L[k + 1] = L[k] + Len(names[k + 1]) + 1
      /\ \A k \in 0 .. n : L[k] <= L[n]
      /\ text \in Text /\ Len(text) = L[n] - 1
      /\ \A k \in 0 .. n - 1 : \A j \in 1 .. Len(names[k + 1]) : text[L[k] + j] = names[k + 1][j]
      /\ \A k \in 1 .. n - 1 : text[L[k]] = Data!Blank
  BY DEF Spelled
<1>3. PICK blanks : Blanks(text, blanks)
  BY <1>2, BlanksAreCounted
<1>4. /\ blanks \in [0 .. Len(text) -> Nat] /\ blanks[0] = 0
      /\ \A i \in 0 .. Len(text) - 1 :
           blanks[i + 1] = blanks[i] + IF text[i + 1] = Data!Blank THEN 1 ELSE 0
      /\ Data!Expects(text) = blanks[Len(text)] + IF text # <<>> /\ text[Len(text)] = Data!Blank THEN 0 ELSE 1
  BY <1>3 DEF Blanks
<1>5. \A k \in 0 .. n - 1 : /\ Len(names[k + 1]) \in Nat /\ Len(names[k + 1]) >= 1
                            /\ \A j \in 1 .. Len(names[k + 1]) : names[k + 1][j] # Data!Blank
  <2> SUFFICES ASSUME NEW k \in 0 .. n - 1
               PROVE  /\ Len(names[k + 1]) \in Nat /\ Len(names[k + 1]) >= 1
                      /\ \A j \in 1 .. Len(names[k + 1]) : names[k + 1][j] # Data!Blank
    OBVIOUS
  <2>1. k + 1 \in 1 .. n
    BY <1>1
  <2>2. OneWord(names[k + 1]) /\ names[k + 1] \in Text
    BY <2>1 DEF Plain
  <2> QED BY <2>2 DEF OneWord, Text
<1> HIDE DEF n
<1> DEFINE M == [k \in 0 .. n - 1 |-> Len(names[k + 1])]
<1>6. /\ \A k \in 0 .. n - 1 : L[k + 1] = L[k] + M[k] + 1 /\ M[k] \in Nat /\ M[k] >= 1
                               /\ k \in 0 .. n /\ k + 1 \in 0 .. n
      /\ \A k \in 0 .. n - 1 : \A j \in 1 .. M[k] : text[L[k] + j] # Data!Blank
      /\ \A k \in 0 .. n : L[k] \in Nat
  <2>1. \A k \in 0 .. n - 1 : k \in 0 .. n /\ k + 1 \in 0 .. n
    BY <1>1
  <2>2. \A k \in 0 .. n - 1 : M[k] = Len(names[k + 1])
    OBVIOUS
  <2> HIDE DEF M
  <2>3. \A k \in 0 .. n - 1 : L[k + 1] = L[k] + M[k] + 1 /\ M[k] \in Nat /\ M[k] >= 1
    BY <1>2, <1>5, <2>2
  <2>4. ASSUME NEW k \in 0 .. n - 1, NEW j \in 1 .. M[k] PROVE text[L[k] + j] # Data!Blank
    <3>1. j \in 1 .. Len(names[k + 1])
      BY <2>2
    <3>2. text[L[k] + j] = names[k + 1][j]
      BY <1>2, <3>1
    <3>3. names[k + 1][j] # Data!Blank
      BY <1>5, <3>1
    <3> QED BY <3>2, <3>3
  <2>5. \A k \in 0 .. n : L[k] \in Nat
    BY <1>2
  <2> QED BY <2>1, <2>3, <2>4, <2>5
<1>7. Len(text) \in Nat /\ Len(text) = L[n] - 1 /\ L[n] \in Nat
  <2>1. n \in 0 .. n
    BY <1>1
  <2> QED BY <1>2, <1>6, <2>1 DEF Text
<1> HIDE DEF M
\* Within a name nothing is counted.
<1>8. ASSUME NEW k \in 0 .. n - 1 PROVE blanks[L[k] + M[k]] = blanks[L[k]]
  <2> DEFINE N == {j \in Nat : j <= M[k] => blanks[L[k] + j] = blanks[L[k]]}
  <2>1. L[k] \in Nat /\ M[k] \in Nat /\ L[k + 1] = L[k] + M[k] + 1 /\ L[k + 1] <= L[n] /\ L[k + 1] \in Nat
    BY <1>2, <1>6
  <2>2. N \in SUBSET Nat /\ 0 \in N
    BY <2>1
  <2>3. ASSUME NEW j \in N PROVE j + 1 \in N
    <3>0. j \in Nat /\ (j <= M[k] => blanks[L[k] + j] = blanks[L[k]])
      OBVIOUS
    <3>1. ASSUME j + 1 <= M[k] PROVE blanks[L[k] + (j + 1)] = blanks[L[k]]
      <4>1. /\ j <= M[k] /\ j + 1 \in 1 .. M[k] /\ L[k] + j \in 0 .. Len(text) - 1
            /\ L[k] + j \in 0 .. Len(text) /\ L[k] + j + 1 = L[k] + (j + 1)
        <5> DEFINE a == L[k]
                   m == M[k]
                   b == L[k + 1]
                   c == L[n]
                   l == Len(text)
        <5>1. a \in Nat /\ m \in Nat /\ b \in Nat /\ c \in Nat /\ l \in Nat /\ j \in Nat
          BY <1>7, <2>1, <3>0
        <5>2. b = a + m + 1 /\ b <= c /\ l = c - 1 /\ j + 1 <= m
          BY <1>7, <2>1, <3>1
        <5> HIDE DEF a, m, b, c, l
        <5>3. j <= m /\ j + 1 \in 1 .. m /\ a + j \in 0 .. l - 1 /\ a + j \in 0 .. l /\ a + j + 1 = a + (j + 1)
          BY <5>1, <5>2
        <5> QED BY <5>3 DEF a, m, l
      <4>2. text[L[k] + j + 1] # Data!Blank
        BY <1>6, <4>1
      <4>3. blanks[L[k] + j + 1] = blanks[L[k] + j] + 0
        BY <1>4, <4>1, <4>2
      <4>4. blanks[L[k] + j] \in Nat
        BY <1>4, <4>1
      <4> QED BY <3>0, <4>1, <4>3, <4>4
    <3> QED BY <3>0, <3>1
  <2>4. N = Nat
    <3> HIDE DEF N
    <3> QED BY <2>2, <2>3, SetInduction
  <2>5. M[k] \in N
    <3> HIDE DEF N
    <3> QED BY <2>1, <2>4
  <2> QED BY <2>1, <2>5
<1> DEFINE N == {k \in Nat : k <= n - 1 => blanks[L[k]] = k}
<1>9. N \in SUBSET Nat /\ 0 \in N
  BY <1>2, <1>4
<1>10. ASSUME NEW k \in N PROVE k + 1 \in N
  <2>0. k \in Nat /\ (k <= n - 1 => blanks[L[k]] = k)
    OBVIOUS
  <2>1. ASSUME k + 1 <= n - 1 PROVE blanks[L[k + 1]] = k + 1
    <3>1. k \in 0 .. n - 1 /\ k <= n - 1 /\ k + 1 \in 1 .. n - 1 /\ k + 1 \in 0 .. n - 1
      BY <1>1, <2>0, <2>1
    <3>2. /\ L[k] \in Nat /\ M[k] \in Nat /\ L[k + 1] = L[k] + M[k] + 1 /\ L[k + 1] \in Nat
          /\ L[k + 1 + 1] = L[k + 1] + M[k + 1] + 1 /\ M[k + 1] \in Nat
          /\ L[k + 1 + 1] \in Nat /\ L[k + 1 + 1] <= L[n]
      BY <1>2, <1>6, <3>1
    <3>3. L[k] + M[k] \in 0 .. Len(text) - 1 /\ L[k] + M[k] + 1 = L[k + 1]
      <4> DEFINE a == L[k]
                 m == M[k]
                 b == L[k + 1]
                 f == M[k + 1]
                 d == L[k + 1 + 1]
                 c == L[n]
                 l == Len(text)
      <4>1. a \in Nat /\ m \in Nat /\ b \in Nat /\ f \in Nat /\ d \in Nat /\ c \in Nat /\ l \in Nat
        BY <1>7, <3>2
      <4>2. b = a + m + 1 /\ d = b + f + 1 /\ d <= c /\ l = c - 1
        BY <1>7, <3>2
      <4> HIDE DEF a, m, b, f, d, c, l
      <4>3. a + m \in 0 .. l - 1 /\ a + m + 1 = b
        BY <4>1, <4>2
      <4> QED BY <4>3 DEF a, m, b, l
    <3>4. text[L[k + 1]] = Data!Blank
      BY <1>2, <3>1
    <3>5. blanks[L[k] + M[k] + 1] = blanks[L[k] + M[k]] + 1
      BY <1>4, <3>3, <3>4
    <3> QED BY <1>8, <2>0, <3>1, <3>3, <3>5
  <2> QED BY <2>0, <2>1
<1>11. N = Nat
  <2> HIDE DEF N
  <2> QED BY <1>9, <1>10, SetInduction
<1>12. n - 1 \in N /\ n - 1 \in 0 .. n - 1 /\ n - 1 + 1 = n
  <2>1. n - 1 \in Nat /\ n - 1 \in 0 .. n - 1 /\ n - 1 + 1 = n
    BY <1>1
  <2> HIDE DEF N
  <2> QED BY <1>11, <2>1
<1>13. blanks[L[n - 1]] = n - 1
  BY <1>12
<1>14. /\ L[n - 1 + 1] = L[n - 1] + M[n - 1] + 1 /\ M[n - 1] \in Nat /\ M[n - 1] >= 1 /\ L[n - 1] \in Nat
       /\ \A j \in 1 .. M[n - 1] : text[L[n - 1] + j] # Data!Blank
  <2>1. n - 1 \in 0 .. n
    BY <1>12
  <2> QED BY <1>6, <1>12, <2>1
<1>15. Len(text) = L[n - 1] + M[n - 1]
  BY <1>7, <1>12, <1>14
<1>16. blanks[Len(text)] = n - 1
  BY <1>8, <1>12, <1>13, <1>15
<1>17. text[Len(text)] # Data!Blank
  <2>1. M[n - 1] \in 1 .. M[n - 1]
    BY <1>14
  <2> QED BY <1>14, <1>15, <2>1
<1>18. Data!Expects(text) = n - 1 + 1
  BY <1>4, <1>16, <1>17
<1> QED BY <1>12, <1>18 DEF n

-----------------------------------------------------------------------------
(* Both halves of the flat form together                                   *)

\* The table of a call graph: names of functions, none of them empty or twice in it
LEMMA NamesOfTheTable ==
  ASSUME Inv
  PROVE  /\ ft \in Seq(Text) /\ Distinct(ft) /\ Len(ft) \in Nat /\ DOMAIN ft = 1 .. Len(ft)
         /\ \A i \in 1 .. Len(ft) : ft[i] \in Seq(STRING) /\ ft[i] # <<>> /\ (BlankFree(i) => OneWord(ft[i]))
<1>1. ft \in Seq(Functions) /\ TableInv
  BY DEF Inv, TypeOK
<1>2. Functions \subseteq Seq(STRING) \ {<<>>}
  BY NamesAreTexts
<1>3. Len(ft) \in Nat /\ DOMAIN ft = 1 .. Len(ft) /\ \A i \in 1 .. Len(ft) : ft[i] \in Functions
  BY <1>1
<1>4. \A s \in Seq(STRING) : s \in Text
  BY DEF Text
<1>5. \A i \in 1 .. Len(ft) : ft[i] \in Seq(STRING) /\ ft[i] # <<>> /\ ft[i] \in Text
  BY <1>2, <1>3, <1>4
<1>6. ft \in Seq(Text)
  <2> HIDE DEF TableInv
  <2>1. ft = [i \in 1 .. Len(ft) |-> ft[i]]
    BY <1>1
  <2> QED BY <1>3, <1>5, <2>1
<1>7. ASSUME NEW i \in 1 .. Len(ft), BlankFree(i) PROVE OneWord(ft[i])
  <2>1. DOMAIN ft[i] = 1 .. Len(ft[i])
    BY <1>5
  <2> QED BY <1>5, <1>7, <2>1 DEF BlankFree, OneWord
<1> QED BY <1>1, <1>3, <1>5, <1>6, <1>7 DEF TableInv, Distinct

\* ME_FT_decode of what ME_FT_encode wrote of the table of a call graph: the names
\* up to the first one with a blank in it, and str_split's assertion holds when
\* no name has one.
LEMMA TextIsReadBack ==
  ASSUME Inv
  PROVE  LET text == Data!FT_encode(ft)
         IN /\ ft # <<>> /\ (\A i \in DOMAIN ft : BlankFree(i)) =>
                 Data!SplitAsserts(text) /\ Data!FT_decode(text) = ft
            /\ \A i \in DOMAIN ft :
                 (\A j \in 1 .. i : BlankFree(j)) => Data!FT_get(Data!FT_decode(text), i) = ft[i]
<1> DEFINE text == Data!FT_encode(ft)
<1>1. /\ ft \in Seq(Text) /\ Distinct(ft) /\ Len(ft) \in Nat /\ DOMAIN ft = 1 .. Len(ft)
      /\ \A i \in 1 .. Len(ft) : BlankFree(i) => OneWord(ft[i])
  BY NamesOfTheTable
<1>2. ft # <<>> => \E L : Spelled(ft, L, text)
  BY <1>1, TextIsSpelled
<1>3. ASSUME ft # <<>>, \A i \in DOMAIN ft : BlankFree(i)
      PROVE  Data!SplitAsserts(text) /\ Data!FT_decode(text) = ft
  <2>1. PICK L : Spelled(ft, L, text)
    BY <1>2, <1>3
  <2>2. Plain(ft, Len(ft)) /\ Len(ft) \in 0 .. Len(ft)
    BY <1>1, <1>3 DEF Plain
  <2> HIDE DEF text
  <2>3. Data!Pieces(text) = ft
    BY <1>1, <2>1, <2>2, PiecesAreNames
  <2>4. Data!Expects(text) = Len(ft)
    BY <1>1, <1>3, <2>1, <2>2, ExpectsTheNames
  <2>5. Data!FT_decode(text) = ft
    BY <1>1, <2>1, <2>2, TableOfNames
  <2> QED BY <2>3, <2>4, <2>5 DEF Data!SplitAsserts
<1>4. ASSUME NEW i \in DOMAIN ft, \A j \in 1 .. i : BlankFree(j)
      PROVE  Data!FT_get(Data!FT_decode(text), i) = ft[i]
  <2>0. ft # <<>> /\ i \in 1 .. Len(ft) /\ i \in 0 .. Len(ft)
    BY <1>1
  <2>1. PICK L : Spelled(ft, L, text)
    BY <1>2, <2>0
  <2>2. Plain(ft, i)
    BY <1>1, <1>4, <2>0 DEF Plain
  <2> HIDE DEF text
  <2>3. Extends(SubSeq(ft, 1, i), Data!FT_decode(text))
    BY <1>1, <2>0, <2>1, <2>2, TableOfNames
  <2>4. Len(SubSeq(ft, 1, i)) = i /\ \A j \in 1 .. i : SubSeq(ft, 1, i)[j] = ft[j]
    BY <1>1, <2>0, PrefixIs
  <2>5. i \in 1 .. Len(Data!FT_decode(text)) /\ Data!FT_decode(text)[i] = ft[i]
    BY <2>0, <2>3, <2>4 DEF Extends
  <2> QED BY <2>5 DEF Data!FT_get
<1> QED BY <1>3, <1>4

\* The flat form of every call graph, of any shape and size, is read back: what
\* ME_CG_encode writes is what ME_CG_decode makes the same graph of, in the buffer
\* that is sized by ME_CG_count, and ME_FT_decode finds in the text of ME_FT_encode
\* the names up to the first one with a blank in it, all of them in their places
\* and without str_split's assertion failing when there is none.
THEOREM FlatFormIsFaithful == Spec => []FlatFormIsReadBack
<1>1. Inv => FlatFormIsReadBack
  BY NumbersAreReadBack, TextIsReadBack DEF FlatFormIsReadBack
<1> QED BY <1>1, CallGraphInvariance, PTL

-----------------------------------------------------------------------------
(* The JSON form: each object of ME_CG_toJSON is read alone, without its   *)
(* children.                                                               *)

\* An object without children: nothing is read, and nothing is linked.
LEMMA NothingIsRead ==
  ASSUME NEW read, NEW t
  PROVE  Data!ReadAll(read, <<>>, t) = [nodes |-> <<>>, ft |-> t]
<1> DEFINE base == [nodes |-> <<>>, ft |-> t]
           After(f, k) == LET one == read[<<>>[k]][f[k - 1].ft]
                          IN [nodes |-> Append(f[k - 1].nodes, one.cg), ft |-> one.ft]
           Eq(f) == f = [k \in 0 .. Len(<<>>) |-> IF k = 0 THEN base ELSE After(f, k)]
           g == [k \in 0 .. Len(<<>>) |-> base]
           all == CHOOSE f : Eq(f)
<1>1. Data!ReadAll(read, <<>>, t) = all[Len(<<>>)]
  BY DEF Data!ReadAll
<1>2. \A k \in 0 .. Len(<<>>) : k = 0
  OBVIOUS
<1> HIDE DEF After, base
<1>3. Eq(g)
  BY <1>2
<1>4. Eq(all)
  <2> HIDE DEF Eq, g
  <2> QED BY <1>3
<1>5. all[0] = base
  <2>1. 0 \in 0 .. Len(<<>>)
    OBVIOUS
  <2> HIDE DEF all
  <2> QED BY <1>4, <2>1
<1>6. Len(<<>>) = 0
  OBVIOUS
<1> HIDE DEF all
<1>7. all[Len(<<>>)] = base
  BY <1>5, <1>6
<1> QED BY <1>1, <1>7 DEF base

\* ME_CG_add_child is not called for no children.
LEMMA NothingIsLinked == Data!Linked(<<>>) = Data!Null
<1> DEFINE After(f, k) == [<<>>[k] EXCEPT !.sibling = f[k + 1]]
           Eq(f) == f = [k \in 1 .. Len(<<>>) + 1 |-> IF k > Len(<<>>) THEN Data!Null ELSE After(f, k)]
           g == [k \in 1 .. Len(<<>>) + 1 |-> Data!Null]
           from == CHOOSE f : Eq(f)
<1>1. Data!Linked(<<>>) = from[1]
  BY DEF Data!Linked
<1>2. \A k \in 1 .. Len(<<>>) + 1 : k > Len(<<>>)
  OBVIOUS
<1> HIDE DEF After
<1>3. Eq(g)
  BY <1>2
<1>4. Eq(from)
  <2> HIDE DEF Eq, g
  <2> QED BY <1>3
<1>5. 1 \in 1 .. Len(<<>>) + 1 /\ 1 > Len(<<>>)
  OBVIOUS
<1> HIDE DEF from
<1> QED BY <1>1, <1>4, <1>5

\* The table that one name is added to, and its index there
LEMMA FirstName ==
  ASSUME NEW name
  PROVE  /\ name = Data!Null => Data!FT_add(<<>>, name) = [ft |-> <<>>, index |-> -1]
         /\ name # Data!Null => Data!FT_add(<<>>, name) = [ft |-> <<name>>, index |-> 1]
<1>1. Data!FT_get_index(<<>>, name) = -1
  BY DEF Data!FT_get_index
<1>2. Append(<<>>, name) = <<name>> /\ Len(<<>>) + 1 = 1
  OBVIOUS
<1> QED BY <1>1, <1>2 DEF Data!FT_add

\* What ME_CG_toJSON makes of a node: its children are under another name than the
\* one that ME_CG_fromJSON looks for.
LEMMA ObjectOfANode ==
  ASSUME NEW h, NEW t, NEW n \in DOMAIN h
  PROVE  /\ DOMAIN Data!CG_toJSON(h, t) = DOMAIN h
         /\ Data!Member(Data!CG_toJSON(h, t)[n], "symbol") = Data!FT_get(t, h[n].symbol)
         /\ Data!Member(Data!CG_toJSON(h, t)[n], "json_children") = <<>>
<1> DEFINE siblings == CHOOSE s : s = [cg \in Data!Links(h) |->
                         IF cg = Data!NULL THEN <<>> ELSE <<cg>> \o s[h[cg].sibling]]
           object(cg) == [symbol |-> Data!FT_get(t, h[cg].symbol), children |-> siblings[h[cg].child]]
<1>1. Data!CG_toJSON(h, t) = [cg \in DOMAIN h |-> object(cg)]
  BY DEF Data!CG_toJSON
<1> HIDE DEF siblings
<1>2. Data!CG_toJSON(h, t)[n] = object(n) /\ DOMAIN Data!CG_toJSON(h, t) = DOMAIN h
  BY <1>1
<1>3. "symbol" \in DOMAIN object(n) /\ "json_children" \notin DOMAIN object(n)
  OBVIOUS
<1>4. object(n)["symbol"] = Data!FT_get(t, h[n].symbol)
  OBVIOUS
<1> HIDE DEF object
<1> QED BY <1>2, <1>3, <1>4 DEF Data!Member, Data!Null

\* The body of ME_CG_fromJSON_h
ReadStep(json, read, o) ==
  [t \in Seq(Seq(STRING)) |->
     LET added    == Data!FT_add(t, Data!Member(json[o], "symbol"))
         children == Data!ReadAll(read, Data!Member(json[o], "json_children"), added.ft)
     IN [cg |-> Data!Node(added.index, Data!Linked(children.nodes), Data!Null), ft |-> children.ft]]

\* ... so that it is read without them.
ReadAlone(json, o) ==
  [t \in Seq(Seq(STRING)) |->
     LET added == Data!FT_add(t, Data!Member(json[o], "symbol"))
     IN [cg |-> Data!Node(added.index, Data!Null, Data!Null), ft |-> added.ft]]

\* ME_CG_fromJSON_h of an object whose children it does not find
LEMMA NodesAreReadAlone ==
  ASSUME NEW json, \A o \in DOMAIN json : Data!Member(json[o], "json_children") = <<>>
  PROVE  \A o \in DOMAIN json : Data!CG_fromJSON(json)[o] = ReadAlone(json, o)
<1> DEFINE Eq(f) == f = [o \in DOMAIN json |-> ReadStep(json, f, o)]
           g == [o \in DOMAIN json |-> ReadAlone(json, o)]
           read == CHOOSE f : Eq(f)
<1>1. Data!CG_fromJSON(json) = read
  BY DEF Data!CG_fromJSON, ReadStep
<1>2. ASSUME NEW f, NEW o \in DOMAIN json PROVE ReadStep(json, f, o) = ReadAlone(json, o)
  <2> DEFINE added(t) == Data!FT_add(t, Data!Member(json[o], "symbol"))
  <2>1. \A t : Data!ReadAll(f, Data!Member(json[o], "json_children"), added(t).ft) = [nodes |-> <<>>, ft |-> added(t).ft]
    <3> HIDE DEF added
    <3> QED BY NothingIsRead
  <2> DEFINE children(t) == Data!ReadAll(f, Data!Member(json[o], "json_children"), added(t).ft)
  <2>2. \A t : children(t).nodes = <<>> /\ children(t).ft = added(t).ft
    <3> SUFFICES ASSUME NEW t PROVE children(t).nodes = <<>> /\ children(t).ft = added(t).ft
      OBVIOUS
    <3> DEFINE c == children(t)
               u == added(t)
    <3>1. c = [nodes |-> <<>>, ft |-> u.ft]
      BY <2>1
    <3> HIDE DEF c, u
    <3>2. c.nodes = <<>> /\ c.ft = u.ft
      BY <3>1
    <3> QED BY <3>2 DEF c, u
  <2>3. ReadStep(json, f, o) = [t \in Seq(Seq(STRING)) |->
          [cg |-> Data!Node(added(t).index, Data!Linked(children(t).nodes), Data!Null), ft |-> children(t).ft]]
    BY DEF ReadStep
  <2>4. ReadAlone(json, o) = [t \in Seq(Seq(STRING)) |->
          [cg |-> Data!Node(added(t).index, Data!Null, Data!Null), ft |-> added(t).ft]]
    BY DEF ReadAlone
  <2> HIDE DEF added, children
  <2> QED BY <2>2, <2>3, <2>4, NothingIsLinked
<1>3. Eq(g)
  <2>1. \A o \in DOMAIN json : ReadStep(json, g, o) = ReadAlone(json, o)
    <3> HIDE DEF g
    <3> QED BY <1>2
  <2> QED BY <2>1
<1>4. Eq(read)
  <2> HIDE DEF Eq, g
  <2> QED BY <1>3
<1>5. \A o \in DOMAIN json : read[o] = ReadStep(json, read, o)
  <2> HIDE DEF read
  <2> QED BY <1>4
<1> HIDE DEF read
<1>6. \A o \in DOMAIN json : read[o] = ReadAlone(json, o)
  BY <1>2, <1>5
<1> QED BY <1>1, <1>6

\* One graph in a list between two strings
LEMMA ListIsReadBack ==
  ASSUME NEW h, NEW t, NEW n \in DOMAIN h
  PROVE  LET name == Data!FT_get(t, h[n].symbol)
             one  == IF name = Data!Null THEN Data!Callstack(Data!Node(-1, Data!Null, Data!Null), <<>>)
                                         ELSE Data!Callstack(Data!Node(1, Data!Null, Data!Null), <<name>>)
             x    == Data!String("x")
             y    == Data!String("y")
         IN Data!measurement_fromJSON(Data!measurement_toJSON(<<x, Data!Sent(n, h, t), y>>)) = <<x, one, y>>
<1> DEFINE name == Data!FT_get(t, h[n].symbol)
           one  == IF name = Data!Null THEN Data!Callstack(Data!Node(-1, Data!Null, Data!Null), <<>>)
                                       ELSE Data!Callstack(Data!Node(1, Data!Null, Data!Null), <<name>>)
           x    == Data!String("x")
           y    == Data!String("y")
           ms   == <<x, Data!Sent(n, h, t), y>>
           json == Data!CG_toJSON(h, t)
           got  == Data!CG_fromJSON(json)[n][<<>>]
           js   == <<[type |-> "string", data |-> "x"], [type |-> "callstack", data |-> n, json |-> json],
                     [type |-> "string", data |-> "y"]>>
<1>1. got = [cg |-> Data!Node(Data!FT_add(<<>>, name).index, Data!Null, Data!Null), ft |-> Data!FT_add(<<>>, name).ft]
  <2>1. /\ DOMAIN json = DOMAIN h /\ \A o \in DOMAIN json : Data!Member(json[o], "json_children") = <<>>
        /\ Data!Member(json[n], "symbol") = name
    BY ObjectOfANode
  <2> HIDE DEF json, name
  <2>2. Data!CG_fromJSON(json)[n] = ReadAlone(json, n)
    BY <2>1, NodesAreReadAlone
  <2>3. <<>> \in Seq(Seq(STRING))
    OBVIOUS
  <2>4. ReadAlone(json, n)[<<>>] = [cg |-> Data!Node(Data!FT_add(<<>>, name).index, Data!Null, Data!Null),
                                    ft |-> Data!FT_add(<<>>, name).ft]
    BY <2>1, <2>3 DEF ReadAlone
  <2> QED BY <2>2, <2>4
<1>2. Data!Callstack(got.cg, got.ft) = one
  <2> HIDE DEF got, name
  <2>1. CASE name = Data!Null
    <3>1. Data!FT_add(<<>>, name) = [ft |-> <<>>, index |-> -1]
      BY <2>1, FirstName
    <3> QED BY <1>1, <2>1, <3>1
  <2>2. CASE name # Data!Null
    <3>1. Data!FT_add(<<>>, name) = [ft |-> <<name>>, index |-> 1]
      BY <2>2, FirstName
    <3> QED BY <1>1, <2>2, <3>1
  <2> QED BY <2>1, <2>2
<1>3. Data!measurement_toJSON(ms) = js
  <2> HIDE DEF json
  <2>1. Data!measurement_toJSON(ms) =
          [i \in 1 .. Len(ms) |->
             IF ms[i].type = "callstack"
               THEN [type |-> "callstack", data |-> ms[i].cg, json |-> Data!CG_toJSON(ms[i].heap, ms[i].ft)]
               ELSE [type |-> "string", data |-> ms[i].value]]
    BY DEF Data!measurement_toJSON
  <2>2. /\ Len(ms) = 3
        /\ ms[1] = [type |-> "string", value |-> "x"] /\ ms[3] = [type |-> "string", value |-> "y"]
        /\ ms[2] = [type |-> "callstack", cg |-> n, heap |-> h, ft |-> t]
    BY DEF Data!String, Data!Sent
  <2> HIDE DEF ms
  <2>3. Data!measurement_toJSON(ms) = [i \in 1 .. 3 |-> js[i]]
    <3>1. \A i \in 1 .. 3 : i = 1 \/ i = 2 \/ i = 3
      OBVIOUS
    <3>2. Data!CG_toJSON(h, t) = json
      BY DEF json
    <3> QED BY <2>1, <2>2, <3>1, <3>2
  <2> QED BY <2>3
<1>4. Data!measurement_fromJSON(js) = <<x, one, y>>
  <2> HIDE DEF json, one
  <2>1. Data!measurement_fromJSON(js) =
          [i \in 1 .. Len(js) |->
             IF js[i].type = "callstack"
               THEN LET read == Data!CG_fromJSON(js[i].json)[js[i].data][<<>>] IN Data!Callstack(read.cg, read.ft)
               ELSE Data!String(js[i].data)]
    BY DEF Data!measurement_fromJSON
  <2>2. /\ Len(js) = 3
        /\ js[1].type = "string" /\ js[1].data = "x" /\ js[3].type = "string" /\ js[3].data = "y"
        /\ js[2].type = "callstack" /\ js[2].json = json /\ js[2].data = n
    OBVIOUS
  <2> DEFINE list == <<x, one, y>>
  <2>3. list[1] = x /\ list[2] = one /\ list[3] = y /\ list = [i \in 1 .. 3 |-> list[i]]
    OBVIOUS
  <2>4. Data!Callstack(Data!CG_fromJSON(json)[n][<<>>].cg, Data!CG_fromJSON(json)[n][<<>>].ft) = one
    BY <1>2
  <2> HIDE DEF js, list
  <2>5. Data!measurement_fromJSON(js) = [i \in 1 .. 3 |-> list[i]]
    <3>1. \A i \in 1 .. 3 : i = 1 \/ i = 2 \/ i = 3
      OBVIOUS
    <3> HIDE DEF x, y
    <3>2. x = Data!String("x") /\ y = Data!String("y")
      BY DEF x, y
    <3> QED BY <2>1, <2>2, <2>3, <2>4, <3>1, <3>2
  <2> QED BY <2>3, <2>5 DEF list
<1> QED BY <1>3, <1>4

\* Of every call graph, of any shape and size, exactly the outermost function is
\* what measurement_fromJSON makes of what measurement_toJSON made of it, because
\* the children are written as "children" and looked for as "json_children"; the
\* measurements around it arrive as they were.
THEOREM OutermostFunctionIsWhatArrives == Spec => []OutermostFunctionArrives
<1>1. Inv => OutermostFunctionArrives
  <2> SUFFICES ASSUME Inv, Complete PROVE OutermostFunctionArrives
    BY DEF OutermostFunctionArrives
  <2>1. graph \in DOMAIN heap
    BY HeapSymbols
  <2> QED BY <2>1, ListIsReadBack DEF OutermostFunctionArrives
<1> QED BY <1>1, CallGraphInvariance, PTL
=============================================================================
