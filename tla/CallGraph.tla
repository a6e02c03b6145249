----------------------------- MODULE CallGraph -----------------------------
(***************************************************************************)
(* The call graph: trees of ME_CG nodes on the heap, linked by child and   *)
(* sibling, whose symbols index the feature table.  BE_update_callgraph    *)
(* takes the target's stack frame by frame (BE_get_call_stack_as_CG),      *)
(* keeps the first one as the graph and merges each later one into it      *)
(* (ME_CG_merge_stack), which is then deleted.  One thread does all of it; *)
(* what can go wrong is who owns which node.                               *)
(***************************************************************************)
EXTENDS Integers, Sequences

CONSTANTS
  Functions,   \* functions that gdb has a name for
  NoFunction,  \* ... and what frames without a name have
  Special,     \* a frame that is no function's: of a signal, or of gdb's own
  MaxFrames,   \* bound: frames of the target's stack
  MaxUpdates   \* bound: updates of the graph

Names  == Functions \cup {NoFunction}
Frames == Names \cup {Special}

ASSUME CallGraphAssumption ==
  /\ NoFunction \notin Functions /\ Special \notin Names
  /\ MaxFrames \in Nat \ {0} /\ MaxUpdates \in Nat

Null == 0

VARIABLES
  heap,    \* the nodes that are allocated, each named by the number of its malloc
  mallocs, \* history: how many there were
  updates, \* history: updates that began
  ft,      \* the_context.FT: the names that were added
  graph,   \* the_context.CG
  pc,
  frames,  \* frames that were not walked yet, innermost first
  chain,   \* the nodes of the stack that is taken, outermost first
  curr,    \* the node of the graph that the merge looks at
  depth,   \* ... and the node of the stack, chain[depth]; NULL behind the last
  path,    \* history: of each node of the graph, the names on the way to it
  order    \* history: ... and its place among its siblings

vars == <<heap, mallocs, updates, ft, graph, pc, frames, chain, curr, depth, path, order>>

Init ==
  /\ heap = <<>> /\ mallocs = 0 /\ updates = 0 /\ ft = <<>> /\ graph = Null /\ pc = "running" /\ frames = <<>>
  /\ chain = <<>> /\ curr = Null /\ depth = 0 /\ path = <<>> /\ order = <<>>

\* What k calls of malloc return
New(k) == [i \in 1 .. k |-> mallocs + i]

-----------------------------------------------------------------------------
(* The feature table: ME_FT_add finds a name or appends it; no name is -1. *)

FT_add(f) == IF f = NoFunction \/ \E i \in 1 .. Len(ft) : ft[i] = f THEN ft ELSE Append(ft, f)

\* The index that FT_add returns: the first of the name
Symbol(f, table) ==
  IF f = NoFunction THEN -1
  ELSE CHOOSE i \in 1 .. Len(table) : table[i] = f /\ \A j \in 1 .. i - 1 : table[j] # f

-----------------------------------------------------------------------------
(* Taking the stack.                                                       *)

Interrupt(s) ==
  /\ pc = "running" /\ updates < MaxUpdates
  /\ pc' = "walk" /\ frames' = s /\ chain' = <<>> /\ updates' = updates + 1
  /\ UNCHANGED <<heap, mallocs, ft, graph, curr, depth, path, order>>

Head1 == IF chain = <<>> THEN Null ELSE chain[1]     \* last_cg

\* ME_CG_from_frame, and the last frame's node becomes the child of this one's
WalkFrame ==
  /\ pc = "walk" /\ frames # <<>> /\ Head(frames) # Special
  /\ ft' = FT_add(Head(frames))
  /\ mallocs' = mallocs + 1
  /\ LET n == mallocs + 1
     IN /\ heap' = [a \in DOMAIN heap \cup {n} |->
                      IF a = n THEN [symbol |-> Symbol(Head(frames), ft'), child |-> Head1, sibling |-> Null]
                               ELSE heap[a]]
        /\ chain' = <<n>> \o chain
  /\ frames' = Tail(frames)
  /\ UNCHANGED <<updates, graph, pc, curr, depth, path, order>>

\* ... which does not go on at a frame that is special ("unhandled"): exit(-1)
WalkExits ==
  /\ pc = "walk" /\ frames # <<>> /\ Head(frames) = Special
  /\ pc' = "exited"
  /\ UNCHANGED <<heap, mallocs, updates, ft, graph, frames, chain, curr, depth, path, order>>

\* The names on the way to the node at depth k of the stack
NameOf(n) == IF heap[n].symbol = -1 THEN NoFunction ELSE ft[heap[n].symbol]
StackPath(k) == [j \in 1 .. k |-> NameOf(chain[j])]

\* The first stack is the graph from then on.
KeepStack ==
  /\ pc = "walk" /\ frames = <<>> /\ graph = Null
  /\ graph' = chain[1] /\ chain' = <<>> /\ pc' = "running"
  /\ path' = [n \in {chain[k] : k \in 1 .. Len(chain)} |->
                StackPath(CHOOSE k \in 1 .. Len(chain) : chain[k] = n)]
  /\ order' = [n \in DOMAIN path' |-> 1]
  /\ UNCHANGED <<heap, mallocs, updates, ft, frames, curr, depth>>

StartMerge ==
  /\ pc = "walk" /\ frames = <<>> /\ graph # Null
  /\ curr' = graph /\ depth' = 1 /\ pc' = "merge"
  /\ UNCHANGED <<heap, mallocs, updates, ft, graph, frames, chain, path, order>>

-----------------------------------------------------------------------------
(* ME_CG_merge_stack: along the siblings, down to the children.            *)

\* Mutant: any child is taken for the one that is looked for
MatchesAny == depth > 1 \/ heap[curr].symbol = heap[chain[depth]].symbol

Matches == heap[curr].symbol = heap[chain[depth]].symbol

\* ME_CG_copy of the stack from depth i on, as the heap then is and what its
\* nodes are to the graph; "top" is the place of the first one.
Copy(i, h, top) ==
  LET k   == Len(chain) + 1 - i
      new == New(k)
      At(n) == CHOOSE j \in 1 .. k : new[j] = n
      added == {new[j] : j \in 1 .. k}
  IN /\ mallocs' = mallocs + k
     /\ heap' = [n \in DOMAIN heap \cup added |->
                   IF n \in added
                     THEN [symbol  |-> heap[chain[i + At(n) - 1]].symbol,
                           child   |-> IF At(n) = k THEN Null ELSE new[At(n) + 1],
                           sibling |-> Null]
                     ELSE h[n]]
     /\ path'  = [n \in DOMAIN path \cup added |->
                    IF n \in added THEN StackPath(i + At(n) - 1) ELSE path[n]]
     /\ order' = [n \in DOMAIN path \cup added |->
                    IF n \notin added THEN order[n] ELSE IF At(n) = 1 THEN top ELSE 1]

Copied(i) == IF i > Len(chain) THEN Null ELSE New(Len(chain) + 1 - i)[1]

MergeAlong ==
  /\ pc = "merge" /\ depth <= Len(chain) /\ ~Matches /\ heap[curr].sibling # Null
  /\ curr' = heap[curr].sibling
  /\ UNCHANGED <<heap, mallocs, updates, ft, graph, pc, frames, chain, depth, path, order>>

AttachSibling ==
  /\ pc = "merge" /\ depth <= Len(chain) /\ ~Matches /\ heap[curr].sibling = Null
  /\ Copy(depth, [heap EXCEPT ![curr].sibling = Copied(depth)], order[curr] + 1)
  /\ pc' = "delete"
  /\ UNCHANGED <<updates, ft, graph, frames, chain, curr, depth>>

MergeDown ==
  /\ pc = "merge" /\ depth <= Len(chain) /\ Matches /\ heap[curr].child # Null
  /\ curr' = heap[curr].child /\ depth' = depth + 1
  /\ UNCHANGED <<heap, mallocs, updates, ft, graph, pc, frames, chain, path, order>>

AttachChild ==
  /\ pc = "merge" /\ depth <= Len(chain) /\ Matches /\ heap[curr].child = Null
  /\ Copy(depth + 1, [heap EXCEPT ![curr].child = Copied(depth + 1)], 1)
  /\ pc' = "delete"
  /\ UNCHANGED <<updates, ft, graph, frames, chain, curr, depth>>

\* stack == NULL
MergeEnds ==
  /\ pc = "merge" /\ depth > Len(chain)
  /\ pc' = "delete"
  /\ UNCHANGED <<heap, mallocs, updates, ft, graph, frames, chain, curr, depth, path, order>>

-----------------------------------------------------------------------------
\* Mutant: only the outermost node is freed
DeleteStackHead ==
  /\ pc = "delete"
  /\ heap' = [n \in DOMAIN heap \ {chain[1]} |-> heap[n]]
  /\ chain' = <<>> /\ pc' = "running" /\ curr' = Null /\ depth' = 0
  /\ UNCHANGED <<mallocs, updates, ft, graph, frames, path, order>>

\* ME_CG_delete(stack)
DeleteStack ==
  /\ pc = "delete"
  /\ heap' = [n \in DOMAIN heap \ {chain[k] : k \in 1 .. Len(chain)} |-> heap[n]]
  /\ chain' = <<>> /\ pc' = "running" /\ curr' = Null /\ depth' = 0
  /\ UNCHANGED <<mallocs, updates, ft, graph, frames, path, order>>

Stacks == UNION {[1 .. n -> Frames] : n \in 1 .. MaxFrames}

Update ==
  \/ WalkFrame \/ WalkExits \/ KeepStack \/ StartMerge
  \/ MergeAlong \/ AttachSibling \/ MergeDown \/ AttachChild \/ MergeEnds
  \/ DeleteStack

Next == Update \/ \E s \in Stacks : Interrupt(s)

Spec == Init /\ [][Next]_vars

-----------------------------------------------------------------------------
(* Properties.                                                             *)

Nodes == 1 .. mallocs
Node  == [symbol  : {-1} \cup 1 .. Len(ft),
          child   : Nodes \cup {Null},
          sibling : Nodes \cup {Null}]
Graph == DOMAIN path
Stack == {chain[k] : k \in 1 .. Len(chain)}
Paths == {path[n] : n \in Graph}

TypeOK ==
  /\ mallocs \in Nat /\ updates \in Nat
  /\ DOMAIN heap \subseteq Nodes /\ heap \in [DOMAIN heap -> Node]
  /\ ft \in Seq(Functions) /\ graph \in Nodes \cup {Null}
  /\ pc \in {"running", "walk", "merge", "delete", "exited"}
  /\ frames \in Seq(Frames) /\ chain \in Seq(Nodes)
  /\ curr \in Nodes \cup {Null} /\ depth \in Nat
  /\ DOMAIN path \subseteq Nodes /\ path \in [DOMAIN path -> Seq(Names)]
  /\ order \in [DOMAIN path -> Nat]

\* Every node that is allocated is one of the graph or one of the stack that is
\* taken, and none is both: deleting the stack leaves the graph whole, nothing
\* that is freed stays linked, and no node is leaked by a merge.
NodesHaveOneOwner ==
  /\ DOMAIN heap = Graph \cup Stack /\ Graph \cap Stack = {}
  /\ pc = "running" => Stack = {}
  /\ \A n \in Graph : {heap[n].child, heap[n].sibling} \subseteq Graph \cup {Null}
  /\ \A k \in 1 .. Len(chain) :
       /\ heap[chain[k]].child = (IF k = Len(chain) THEN Null ELSE chain[k + 1])
       /\ heap[chain[k]].sibling = Null

Siblings(m, n) ==
  Len(path[m]) = Len(path[n]) /\ \A j \in 1 .. Len(path[n]) - 1 : path[m][j] = path[n][j]

Below(m, n) ==
  Len(path[m]) = Len(path[n]) + 1 /\ \A j \in 1 .. Len(path[n]) : path[m][j] = path[n][j]

\* The graph is a tree of which "path" tells the truth: a child is one call
\* further in, a sibling is the next callee of the same caller, and each node but
\* the first hangs on another.
GraphIsATree ==
  /\ graph # Null <=> Graph # {}
  /\ graph # Null => graph \in Graph /\ Len(path[graph]) = 1
  /\ \A n \in Graph :
       /\ path[n] # <<>> /\ path[n][Len(path[n])] = NameOf(n)
       /\ heap[n].child # Null => Below(heap[n].child, n) /\ order[heap[n].child] = 1
       /\ heap[n].sibling # Null =>
            Siblings(heap[n].sibling, n) /\ order[heap[n].sibling] = order[n] + 1
       /\ n # graph => \E m \in Graph : n \in {heap[m].child, heap[m].sibling}

\* A function occurs once among the callees of a call path, however many stacks
\* were merged.
CallPathsOccurOnce == \A m, n \in Graph : path[m] = path[n] => m = n

\* A stack is deleted when all of it is in the graph.
StackIsMerged == pc = "delete" => \A k \in 1 .. Len(chain) : StackPath(k) \in Paths

Tree == INSTANCE CallTree WITH paths <- Paths

\* The graph grows by the call paths of a stack, and by nothing else.
GraphIsACallTree == Tree!Spec
=============================================================================
