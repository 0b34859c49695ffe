--------------------------- MODULE TracePathProofs ---------------------------
(***************************************************************************)
(* Proofs about the way of a stack trace: it is collapsed                  *)
(* (CollapseRecursion), gets an id that its cache remembers (TraceIds),    *)
(* and the ids are reported (Reports).                                     *)
(***************************************************************************)
EXTENDS TraceIds, CollapseRecursion, Reports, LoopTheorems

-----------------------------------------------------------------------------
(* The tree of StacktraceTree.                                             *)

\* The values of a tree, of the nodes its callback appended, and of the loop of
\* index.
Edges == [from : Nat, ptrId : Nat, to : Nat]
Trees == [edges : SUBSET Edges, counter : Nat, ptrs : Seq(Addresses)]
TreeNodes == [ptr : Addresses, ptrId : Nat, parent : Nat]
IndexStates == [tree : Trees, node : Nat, calls : Seq(TreeNodes)]

\* GetPtrId gives a new address the next id and an old one the id it has.
LEMMA PtrFacts ==
  ASSUME NEW tree \in Trees, NEW ptr \in Addresses
  PROVE  /\ WithPtr(tree, ptr) \in Trees
         /\ WithPtr(tree, ptr).edges = tree.edges
         /\ WithPtr(tree, ptr).counter = tree.counter
         /\ Len(tree.ptrs) <= Len(WithPtr(tree, ptr).ptrs)
         /\ \A i \in DOMAIN tree.ptrs : WithPtr(tree, ptr).ptrs[i] = tree.ptrs[i]
         /\ GetPtrId(WithPtr(tree, ptr), ptr) \in DOMAIN WithPtr(tree, ptr).ptrs
         /\ WithPtr(tree, ptr).ptrs[GetPtrId(WithPtr(tree, ptr), ptr)] = ptr
<1> DEFINE new == WithPtr(tree, ptr)
<1>1. CASE ptr \in ToSet(tree.ptrs)
  <2>1. new = tree
    BY <1>1 DEF WithPtr
  <2>2. \E i \in DOMAIN new.ptrs : new.ptrs[i] = ptr
    BY <1>1, <2>1 DEF ToSet
  <2> QED BY <2>1, <2>2 DEF GetPtrId, Trees
<1>2. CASE ptr \notin ToSet(tree.ptrs)
  <2>1. new = [tree EXCEPT !.ptrs = Append(tree.ptrs, ptr)]
    BY <1>2 DEF WithPtr
  <2>2. tree.ptrs \in Seq(Addresses)
    BY DEF Trees
  <2>3. new \in Trees /\ new.ptrs = Append(tree.ptrs, ptr)
        /\ new.edges = tree.edges /\ new.counter = tree.counter
    <3>1. Append(tree.ptrs, ptr) \in Seq(Addresses)
      BY <2>2
    <3> QED BY <2>1, <3>1 DEF Trees
  <2> HIDE DEF new
  <2>4. /\ Len(new.ptrs) = Len(tree.ptrs) + 1
        /\ new.ptrs[Len(tree.ptrs) + 1] = ptr
        /\ \A i \in DOMAIN tree.ptrs : new.ptrs[i] = tree.ptrs[i]
        /\ Len(tree.ptrs) + 1 \in DOMAIN new.ptrs
    BY <2>2, <2>3
  <2>5. GetPtrId(new, ptr) \in DOMAIN new.ptrs /\ new.ptrs[GetPtrId(new, ptr)] = ptr
    BY <2>4 DEF GetPtrId
  <2>6. Len(tree.ptrs) <= Len(new.ptrs)
    BY <2>2, <2>4
  <2> QED BY <2>3, <2>4, <2>5, <2>6 DEF new
<1> QED BY <1>1, <1>2

\* One frame of index leaves a tree, a node and calls.
LEMMA DescendType ==
  ASSUME NEW st \in IndexStates, NEW ptr \in Addresses
  PROVE  Descend(st, ptr) \in IndexStates
<1> DEFINE tree == WithPtr(st.tree, ptr)
           ptrId == GetPtrId(tree, ptr)
           found == Edge(tree, st.node, ptrId)
<1>1. st.tree \in Trees /\ st.node \in Nat /\ st.calls \in Seq(TreeNodes)
  BY DEF IndexStates
<1>2. tree \in Trees /\ ptrId \in DOMAIN tree.ptrs
  BY <1>1, PtrFacts
<1>3. ptrId \in Nat
  BY <1>2 DEF Trees
<1>4. \A e \in found : e.to \in Nat
  BY <1>2 DEF Edge, Trees, Edges
<1> HIDE DEF tree, ptrId, found
<1>5. CASE ptr = Null
  BY <1>5 DEF Descend
<1>6. CASE ptr # Null /\ found # {}
  <2>1. Descend(st, ptr) = [st EXCEPT !.tree = tree, !.node = (CHOOSE e \in found : TRUE).to]
    BY <1>6 DEF Descend, tree, ptrId, found
  <2>2. (CHOOSE e \in found : TRUE).to \in Nat
    BY <1>4, <1>6
  <2> QED BY <1>1, <1>2, <2>1, <2>2 DEF IndexStates
<1>7. CASE ptr # Null /\ found = {}
  <2>1. Descend(st, ptr) =
          [tree  |-> [tree EXCEPT
             !.edges = tree.edges \cup {[from |-> st.node, ptrId |-> ptrId, to |-> tree.counter]},
             !.counter = tree.counter + 1],
           node  |-> tree.counter,
           calls |-> Append(st.calls, [ptr |-> ptr, ptrId |-> ptrId, parent |-> st.node])]
    BY <1>7 DEF Descend, tree, ptrId, found
  <2>2. [from |-> st.node, ptrId |-> ptrId, to |-> tree.counter] \in Edges
    BY <1>1, <1>2, <1>3 DEF Edges, Trees
  <2>3. [ptr |-> ptr, ptrId |-> ptrId, parent |-> st.node] \in TreeNodes
    BY <1>1, <1>3 DEF TreeNodes
  <2>4. Append(st.calls, [ptr |-> ptr, ptrId |-> ptrId, parent |-> st.node]) \in Seq(TreeNodes)
    BY <1>1, <2>3
  <2>5. ASSUME NEW edges \in SUBSET Edges, NEW n \in Nat
        PROVE  [tree EXCEPT !.edges = edges, !.counter = n] \in Trees
    BY <1>2 DEF Trees
  <2>7. tree.edges \cup {[from |-> st.node, ptrId |-> ptrId, to |-> tree.counter]} \in SUBSET Edges
    BY <1>2, <2>2 DEF Trees
  <2>6. tree.counter \in Nat
    BY <1>2 DEF Trees
  <2>8. tree.counter + 1 \in Nat
    BY <2>6
  <2> DEFINE new == [tree EXCEPT
             !.edges = tree.edges \cup {[from |-> st.node, ptrId |-> ptrId, to |-> tree.counter]},
             !.counter = tree.counter + 1]
  <2>9. new \in Trees
    BY <2>5, <2>7, <2>8
  <2> HIDE DEF new
  <2>10. Descend(st, ptr) = [tree |-> new, node  |-> tree.counter,
           calls |-> Append(st.calls, [ptr |-> ptr, ptrId |-> ptrId, parent |-> st.node])]
    BY <2>1 DEF new
  <2> QED BY <2>4, <2>6, <2>9, <2>10 DEF IndexStates
<1> QED BY <1>5, <1>6, <1>7

\* The loop of index.
LEMMA IndexingFacts ==
  ASSUME NEW tree \in Trees, NEW trace \in Seq(Addresses)
  PROVE  /\ Indexing(tree, trace) \in [0 .. Len(trace) -> IndexStates]
         /\ Indexing(tree, trace)[0] = [tree |-> tree, node |-> 0, calls |-> <<>>]
         /\ \A n \in 1 .. Len(trace) :
              Indexing(tree, trace)[n]
                = Descend(Indexing(tree, trace)[n - 1], FromEnd(trace, n))
<1> DEFINE N == Len(trace)
           init == [tree |-> tree, node |-> 0, calls |-> <<>>]
           step == [n \in 1 .. N |-> [st \in IndexStates |-> Descend(st, FromEnd(trace, n))]]
           Eqn(f) == f = [n \in 0 .. N |-> IF n = 0 THEN init
                                          ELSE Descend(f[n - 1], FromEnd(trace, n))]
<1>1. N \in Nat /\ init \in IndexStates
  BY DEF IndexStates
<1>2. \A n \in 1 .. N : FromEnd(trace, n) \in Addresses
  BY DEF FromEnd
<1>3. Loop(IndexStates, N, init, step)
  BY <1>1, <1>2, DescendType DEF Loop
<1> HIDE DEF N, init, step
<1>4. PICK f : Loops(f, IndexStates, N, init, step)
  BY <1>3, Iteration
<1>5. ASSUME NEW n \in 1 .. N
      PROVE  f[n - 1] \in IndexStates /\ f[n] = Descend(f[n - 1], FromEnd(trace, n))
  <2>1. n - 1 \in 0 .. N
    BY <1>1
  <2> QED BY <1>4, <2>1 DEF step, Loops
<1>6. Eqn(f)
  BY <1>1, <1>4, <1>5 DEF Loops
<1>7. Indexing(tree, trace) = CHOOSE g : Eqn(g)
  BY DEF Indexing, N, init
<1>8. Eqn(Indexing(tree, trace))
  BY <1>6, <1>7
<1>9. ASSUME NEW g, Eqn(g)
      PROVE  /\ g[0] = init
             /\ \A n \in 1 .. N : g[n] = Descend(g[n - 1], FromEnd(trace, n))
  BY <1>1, <1>9
<1> DEFINE g == Indexing(tree, trace)
<1>10. /\ g[0] = init
       /\ \A n \in 1 .. N : g[n] = Descend(g[n - 1], FromEnd(trace, n))
  BY <1>8, <1>9
<1>11. DOMAIN g = 0 .. N /\ g = [n \in 0 .. N |-> g[n]]
  BY <1>8
<1>12. \A n \in 0 .. N : g[n] \in IndexStates
  <2> HIDE DEF g
  <2> QED BY <1>1, <1>2, <1>10, DescendType, LoopInvariant
<1> QED BY <1>10, <1>11, <1>12 DEF N, init

\* The loop that drops the null frames.
LEMMA NotNullFacts ==
  ASSUME NEW trace \in Seq(Addresses)
  PROVE  /\ NotNullOf(trace) \in [0 .. Len(trace) -> Seq(Addresses)]
         /\ NotNullOf(trace)[0] = <<>>
         /\ \A n \in 1 .. Len(trace) :
              NotNullOf(trace)[n] = IF FromEnd(trace, n) = Null THEN NotNullOf(trace)[n - 1]
                                    ELSE <<FromEnd(trace, n)>> \o NotNullOf(trace)[n - 1]
<1> DEFINE N == Len(trace)
           S == Seq(Addresses)
           Longer(s, n) == IF FromEnd(trace, n) = Null THEN s ELSE <<FromEnd(trace, n)>> \o s
           step == [n \in 1 .. N |-> [s \in S |-> Longer(s, n)]]
           Eqn(f) == f = [n \in 0 .. N |-> IF n = 0 THEN <<>> ELSE Longer(f[n - 1], n)]
<1>1. N \in Nat /\ <<>> \in S
  OBVIOUS
<1>2. ASSUME NEW n \in 1 .. N, NEW s \in S PROVE Longer(s, n) \in S
  <2>1. FromEnd(trace, n) \in Addresses
    BY DEF FromEnd
  <2>2. <<FromEnd(trace, n)>> \in S
    BY <2>1
  <2> QED BY <2>2
<1>3. Loop(S, N, <<>>, step)
  <2> HIDE DEF S, N, Longer
  <2> QED BY <1>1, <1>2 DEF Loop
<1>4. NotNullOf(trace) = CHOOSE g : Eqn(g)
  BY DEF NotNullOf
<1> HIDE DEF N, S, step, Longer
<1>5. PICK f : Loops(f, S, N, <<>>, step)
  BY <1>3, Iteration
<1>6. ASSUME NEW n \in 1 .. N PROVE f[n] = Longer(f[n - 1], n)
  <2>1. n - 1 \in 0 .. N
    BY <1>1
  <2> QED BY <1>5, <2>1 DEF step, Loops
<1>7. Eqn(f)
  BY <1>1, <1>5, <1>6 DEF Loops
<1>8. Eqn(NotNullOf(trace))
  BY <1>4, <1>7
<1> DEFINE g == NotNullOf(trace)
<1>9. /\ g[0] = <<>> /\ \A n \in 1 .. N : g[n] = Longer(g[n - 1], n)
      /\ g = [n \in 0 .. N |-> g[n]]
  <2>1. ASSUME NEW h, Eqn(h)
        PROVE  /\ h[0] = <<>> /\ \A n \in 1 .. N : h[n] = Longer(h[n - 1], n)
               /\ h = [n \in 0 .. N |-> h[n]]
    BY <1>1, <2>1
  <2> QED BY <1>8, <2>1
<1>10. \A n \in 0 .. N : g[n] \in S
  <2> HIDE DEF g
  <2> QED BY <1>1, <1>2, <1>9, LoopInvariant
<1> QED BY <1>9, <1>10 DEF N, S, Longer

\* Nodes whose parents come first, and whose addresses are known.
Rooted(ptrs, nodes) ==
  /\ ptrs \in Seq(Addresses) /\ nodes \in Seq(TreeNodes)
  /\ \A n \in DOMAIN nodes : nodes[n].parent < n /\ nodes[n].ptrId \in DOMAIN ptrs

\* The paths of such nodes exist, and each goes through its parent.
LEMMA PathFacts ==
  ASSUME NEW ptrs, NEW nodes, Rooted(ptrs, nodes)
  PROVE  /\ NodePaths(ptrs, nodes) \in [0 .. Len(nodes) -> Seq(Addresses)]
         /\ NodePaths(ptrs, nodes)[0] = <<>>
         /\ \A n \in 1 .. Len(nodes) :
              /\ nodes[n].parent \in 0 .. n - 1
              /\ ptrs[nodes[n].ptrId] \in Addresses
              /\ NodePaths(ptrs, nodes)[n]
                   = <<ptrs[nodes[n].ptrId]>> \o NodePaths(ptrs, nodes)[nodes[n].parent]
<1> DEFINE N == Len(nodes)
           D == 0 .. N
           S == Seq(Addresses)
           parent(n) == nodes[n].parent
           ptr(n) == ptrs[nodes[n].ptrId]
           rank == [n \in D |-> n]
           base == [n \in D |-> <<>>]
           next == [n \in D |-> IF n = 0 THEN 0 ELSE parent(n)]
           step == [n \in D |-> [s \in S |-> IF n = 0 THEN s ELSE <<ptr(n)>> \o s]]
           Eqn(f) == f = [n \in D |-> IF n = 0 THEN <<>> ELSE <<ptr(n)>> \o f[parent(n)]]
<1>1. N \in Nat
  BY DEF Rooted
<1>2. ASSUME NEW n \in 1 .. N
      PROVE  parent(n) \in 0 .. n - 1 /\ ptr(n) \in Addresses
  <2>1. nodes[n] \in TreeNodes /\ nodes[n].parent < n /\ nodes[n].ptrId \in DOMAIN ptrs
    BY DEF Rooted
  <2> QED BY <2>1 DEF TreeNodes, Rooted
<1>3. NodePaths(ptrs, nodes) = CHOOSE g : Eqn(g)
  BY DEF NodePaths
<1>4. \A a \in Addresses, s \in S : <<a>> \o s \in S
  OBVIOUS
<1>5. <<>> \in S
  OBVIOUS
<1> HIDE DEF N, S, parent, ptr
<1>6. Recursion(D, S, N, rank, base, next, step)
  <2>1. rank \in [D -> 0 .. N] /\ base \in [D -> S]
    BY <1>5
  <2>2. next \in [D -> D] /\ \A n \in D : rank[n] > 0 => rank[next[n]] < rank[n]
    BY <1>1, <1>2
  <2>3. step \in [D -> [S -> S]]
    <3>1. \A n \in D : n # 0 => n \in 1 .. N
      BY <1>1
    <3> QED BY <1>2, <1>4, <3>1
  <2> QED BY <1>1, <2>1, <2>2, <2>3 DEF Recursion
<1>7. \A n \in D : n # 0 => n \in 1 .. N /\ parent(n) \in D
  BY <1>1, <1>2
<1>8. \E f : Eqn(f)
  <2> HIDE DEF rank, base, next, step
  <2>1. PICK f : Solves(f, D, S, rank, base, next, step)
    BY <1>6, RecursiveFunction
  <2>2. f \in [D -> S]
    BY <2>1 DEF Solves
  <2>3. ASSUME NEW n \in D PROVE f[n] = IF n = 0 THEN <<>> ELSE <<ptr(n)>> \o f[parent(n)]
    BY <1>7, <2>1, <2>2 DEF Solves, rank, base, next, step
  <2> QED BY <2>2, <2>3
<1> DEFINE g == NodePaths(ptrs, nodes)
<1>9. /\ \A n \in D : g[n] = IF n = 0 THEN <<>> ELSE <<ptr(n)>> \o g[parent(n)]
      /\ g = [n \in D |-> g[n]]
  <2>1. Eqn(g)
    BY <1>3, <1>8
  <2>2. ASSUME NEW h, Eqn(h)
        PROVE  /\ \A n \in D : h[n] = IF n = 0 THEN <<>> ELSE <<ptr(n)>> \o h[parent(n)]
               /\ h = [n \in D |-> h[n]]
    BY <2>2
  <2> QED BY <2>1, <2>2
<1>10. \A n \in D : g[n] \in S
  <2> HIDE DEF g
  <2> DEFINE T == {n \in Nat : n \in D => g[n] \in S}
  <2>1. ASSUME NEW n \in Nat, \A m \in 0 .. n - 1 : m \in T PROVE n \in T
    <3> SUFFICES ASSUME n \in D, n # 0 PROVE g[n] \in S
      BY <1>5, <1>9
    <3>1. parent(n) \in 0 .. n - 1 /\ parent(n) \in D /\ ptr(n) \in Addresses
      BY <1>2, <1>7
    <3>2. g[parent(n)] \in S
      BY <2>1, <3>1
    <3> QED BY <1>4, <1>9, <3>1, <3>2
  <2>2. \A n \in Nat : n \in T
    <3> HIDE DEF T
    <3> QED BY <2>1, StrongInduction
  <2> QED BY <1>1, <2>2
<1>11. g \in [0 .. N -> S] /\ g[0] = <<>>
  <2> HIDE DEF g
  <2>1. g \in [D -> S]
    BY <1>9, <1>10
  <2>2. 0 \in D
    BY <1>1
  <2> QED BY <1>9, <2>1, <2>2
<1>12. ASSUME NEW n \in 1 .. N PROVE g[n] = <<ptr(n)>> \o g[parent(n)]
  <2> HIDE DEF g
  <2>1. n \in D /\ n # 0
    BY <1>1
  <2> QED BY <1>9, <2>1
<1> QED BY <1>2, <1>11, <1>12 DEF N, S, parent, ptr

\* s is the beginning of t.
Extends(s, t) == Len(s) <= Len(t) /\ \A i \in DOMAIN s : t[i] = s[i]

\* Growing twice is growing.
LEMMA ExtendsTransitive ==
  ASSUME NEW A, NEW s \in Seq(A), NEW t \in Seq(A), NEW u \in Seq(A),
         Extends(s, t), Extends(t, u)
  PROVE  Extends(s, u)
BY DEF Extends

\* The tree and the nodes its callback appended: an address has one id, edges
\* and nodes are the same thing, a node has the address of its id, and it is
\* the only one that is reached from its parent by its address.
WellFormed(tree, nodes) ==
  /\ tree \in Trees
  /\ Rooted(tree.ptrs, nodes)
  /\ tree.counter = Len(nodes) + 1
  /\ \A i, j \in DOMAIN tree.ptrs : tree.ptrs[i] = tree.ptrs[j] => i = j
  /\ \A e \in tree.edges :
       e.to \in DOMAIN nodes /\ nodes[e.to].parent = e.from /\ nodes[e.to].ptrId = e.ptrId
  /\ \A n \in DOMAIN nodes :
       [from |-> nodes[n].parent, ptrId |-> nodes[n].ptrId, to |-> n] \in tree.edges
  /\ \A n \in DOMAIN nodes : nodes[n].ptr = tree.ptrs[nodes[n].ptrId]
  /\ \A n, m \in DOMAIN nodes :
       nodes[n].parent = nodes[m].parent /\ nodes[n].ptrId = nodes[m].ptrId => n = m

\* A tree that grows leaves the paths of its nodes as they are.
LEMMA PathsKept ==
  ASSUME NEW ptrs, NEW nodes, NEW ptrs2, NEW nodes2,
         Rooted(ptrs, nodes), Rooted(ptrs2, nodes2),
         Extends(ptrs, ptrs2), Extends(nodes, nodes2)
  PROVE  \A n \in 0 .. Len(nodes) : NodePaths(ptrs2, nodes2)[n] = NodePaths(ptrs, nodes)[n]
<1> DEFINE f == NodePaths(ptrs, nodes)
           g == NodePaths(ptrs2, nodes2)
           T == {n \in Nat : n <= Len(nodes) => g[n] = f[n]}
<1>1. Len(nodes) \in Nat /\ Len(nodes2) \in Nat /\ Len(nodes) <= Len(nodes2)
  BY DEF Rooted, Extends
<1>2. /\ f[0] = <<>> /\ g[0] = <<>>
      /\ \A n \in 1 .. Len(nodes) :
           /\ nodes[n].parent \in 0 .. n - 1
           /\ f[n] = <<ptrs[nodes[n].ptrId]>> \o f[nodes[n].parent]
      /\ \A n \in 1 .. Len(nodes2) : g[n] = <<ptrs2[nodes2[n].ptrId]>> \o g[nodes2[n].parent]
  BY PathFacts
<1>6. \A n \in 1 .. Len(nodes) : nodes[n].parent \in 0 .. n - 1
  BY <1>2
<1>3. ASSUME NEW n \in 1 .. Len(nodes)
      PROVE  nodes2[n] = nodes[n] /\ ptrs2[nodes[n].ptrId] = ptrs[nodes[n].ptrId]
  BY DEF Rooted, Extends
<1> HIDE DEF f, g
<1>4. ASSUME NEW n \in Nat, \A m \in 0 .. n - 1 : m \in T PROVE n \in T
  <2> SUFFICES ASSUME n <= Len(nodes), n # 0 PROVE g[n] = f[n]
    BY <1>2
  <2>1. n \in 1 .. Len(nodes) /\ n \in 1 .. Len(nodes2)
    BY <1>1
  <2> DEFINE k == nodes[n].parent
  <2>6. k \in 0 .. n - 1 /\ k <= Len(nodes)
    BY <1>1, <1>6, <2>1
  <2>2. k \in T /\ k <= Len(nodes)
    <3> HIDE DEF k, T
    <3> QED BY <1>4, <2>6
  <2>3. g[k] = f[k]
    <3> HIDE DEF k
    <3> QED BY <2>2
  <2>4. f[n] = <<ptrs[nodes[n].ptrId]>> \o f[nodes[n].parent]
    BY <1>2, <2>1
  <2>5. g[n] = <<ptrs2[nodes2[n].ptrId]>> \o g[nodes2[n].parent]
    BY <1>2, <2>1
  <2> QED BY <1>3, <2>1, <2>3, <2>4, <2>5
<1>5. \A n \in Nat : n \in T
  <2> HIDE DEF T
  <2> QED BY <1>4, StrongInduction
<1> QED BY <1>1, <1>5 DEF f, g

\* A sequence has one first element and one rest.
LEMMA ConsInjective ==
  ASSUME NEW A, NEW s \in Seq(A), NEW t \in Seq(A), NEW a \in A, NEW b \in A,
         Cons(a, s) = Cons(b, t)
  PROVE  a = b /\ s = t
<1> USE DEF Cons
<1>1. \A u \in Seq(A), c \in A :
        /\ Len(<<c>> \o u) = Len(u) + 1
        /\ (<<c>> \o u)[1] = c
        /\ \A i \in 1 .. Len(u) : (<<c>> \o u)[i + 1] = u[i]
  OBVIOUS
<1>2. a = b
  BY <1>1
<1>3. Len(s) = Len(t)
  BY <1>1
<1>4. \A i \in 1 .. Len(s) : s[i] = t[i]
  BY <1>1, <1>3
<1> QED BY <1>2, <1>3, <1>4, SeqEqual

\* Different nodes have different paths.
LEMMA PathsDiffer ==
  ASSUME NEW tree, NEW nodes, WellFormed(tree, nodes)
  PROVE  \A n, m \in 0 .. Len(nodes) :
           NodePaths(tree.ptrs, nodes)[n] = NodePaths(tree.ptrs, nodes)[m] => n = m
<1> DEFINE N == Len(nodes)
           f == NodePaths(tree.ptrs, nodes)
           ptr(n) == tree.ptrs[nodes[n].ptrId]
           parent(n) == nodes[n].parent
           T == {n \in Nat : n <= N => \A m \in 0 .. N : f[n] = f[m] => n = m}
<1>1. N \in Nat /\ Rooted(tree.ptrs, nodes)
  BY DEF WellFormed, Rooted
<1>2. /\ f \in [0 .. N -> Seq(Addresses)]
      /\ f[0] = <<>>
      /\ \A n \in 1 .. N : /\ parent(n) \in 0 .. n - 1
                           /\ ptr(n) \in Addresses
                           /\ f[n] = <<ptr(n)>> \o f[parent(n)]
  BY <1>1, PathFacts
<1>7. \A n \in 1 .. N : parent(n) \in 0 .. n - 1 /\ parent(n) \in 0 .. N
  <2> HIDE DEF N, parent, f, ptr
  <2>1. \A n \in 1 .. N : parent(n) \in 0 .. n - 1
    BY <1>2, Zenon
  <2> QED BY <1>1, <2>1
<1>3. ASSUME NEW n \in 1 .. N, NEW m \in 1 .. N, ptr(n) = ptr(m), parent(n) = parent(m)
      PROVE  n = m
  <2>1. nodes[n].ptrId \in DOMAIN tree.ptrs /\ nodes[m].ptrId \in DOMAIN tree.ptrs
    BY <1>1 DEF Rooted
  <2>2. nodes[n].ptrId = nodes[m].ptrId
    BY <1>3, <2>1 DEF WellFormed
  <2>3. n \in DOMAIN nodes /\ m \in DOMAIN nodes
    BY <1>1 DEF Rooted
  <2> QED BY <1>3, <2>2, <2>3 DEF WellFormed
<1> HIDE DEF N, f, ptr, parent
<1>4. ASSUME NEW n \in 1 .. N PROVE f[n] # <<>>
  <2>1. f[n] = <<ptr(n)>> \o f[parent(n)] /\ f[parent(n)] \in Seq(Addresses) /\ ptr(n) \in Addresses
    BY <1>1, <1>2
  <2>2. Len(<<ptr(n)>> \o f[parent(n)]) = 1 + Len(f[parent(n)])
    BY <2>1
  <2>3. Len(f[parent(n)]) >= 0 /\ Len(f[parent(n)]) \in Nat
    BY <2>1
  <2>4. Len(f[n]) # 0
    BY <2>1, <2>2, <2>3
  <2> QED BY <2>4
<1>5. ASSUME NEW n \in Nat, \A k \in 0 .. n - 1 : k \in T PROVE n \in T
  <2> SUFFICES ASSUME n <= N, NEW m \in 0 .. N, f[n] = f[m] PROVE n = m
    OBVIOUS
  <2>1. CASE n = 0 \/ m = 0
    BY <1>1, <1>2, <1>4, <2>1
  <2>2. CASE n # 0 /\ m # 0
    <3>1. n \in 1 .. N /\ m \in 1 .. N
      BY <1>1, <2>2
    <3>2. /\ parent(n) \in 0 .. n - 1 /\ parent(m) \in 0 .. N /\ parent(n) \in 0 .. N
          /\ ptr(n) \in Addresses /\ ptr(m) \in Addresses
      BY <1>2, <1>7, <3>1
    <3>7. f[n] = <<ptr(n)>> \o f[parent(n)] /\ f[m] = <<ptr(m)>> \o f[parent(m)]
      BY <1>2, <3>1, Zenon
    <3>3. f[parent(n)] \in Seq(Addresses) /\ f[parent(m)] \in Seq(Addresses)
      BY <1>2, <3>2
    <3>4. ptr(n) = ptr(m) /\ f[parent(n)] = f[parent(m)]
      <4>1. Cons(ptr(n), f[parent(n)]) = Cons(ptr(m), f[parent(m)])
        BY <3>7, Zenon DEF Cons
      <4>2. ptr(n) \in Addresses /\ ptr(m) \in Addresses
        BY <3>2
      <4> QED BY <3>3, <4>1, <4>2, ConsInjective
    <3> DEFINE k == parent(n)
    <3>5. k \in T /\ k \in Nat /\ k <= N
      <4>1. k \in Nat /\ k <= N
        BY <1>1, <3>2
      <4> HIDE DEF k, T
      <4>2. k \in 0 .. n - 1
        BY <3>2 DEF k
      <4> QED BY <1>5, <4>1, <4>2
    <3>6. parent(n) = parent(m)
      <4>1. \A j \in 0 .. N : f[k] = f[j] => k = j
        BY <3>5
      <4> QED BY <3>2, <3>4, <4>1
    <3> QED BY <1>3, <3>1, <3>4, <3>6
  <2> QED BY <2>1, <2>2
<1>6. \A n \in Nat : n \in T
  <2> HIDE DEF T
  <2> QED BY <1>5, StrongInduction
<1> QED BY <1>1, <1>6 DEF N, f

\* An address that gets an id leaves the tree well formed.
LEMMA WithPtrKeeps ==
  ASSUME NEW tree, NEW nodes, NEW ptr \in Addresses, WellFormed(tree, nodes)
  PROVE  /\ WellFormed(WithPtr(tree, ptr), nodes)
         /\ Extends(tree.ptrs, WithPtr(tree, ptr).ptrs)
<1> DEFINE new == WithPtr(tree, ptr)
<1>1. tree \in Trees /\ tree.ptrs \in Seq(Addresses)
  BY DEF WellFormed, Trees
<1>2. /\ new \in Trees /\ new.edges = tree.edges /\ new.counter = tree.counter
      /\ Extends(tree.ptrs, new.ptrs)
  BY <1>1, PtrFacts DEF Extends
<1>3. ASSUME NEW i \in DOMAIN new.ptrs, NEW j \in DOMAIN new.ptrs, new.ptrs[i] = new.ptrs[j]
      PROVE  i = j
  <2>1. CASE ptr \in ToSet(tree.ptrs)
    BY <1>3, <2>1 DEF WithPtr, WellFormed
  <2>2. CASE ptr \notin ToSet(tree.ptrs)
    <3>1. new.ptrs = Append(tree.ptrs, ptr)
      BY <1>1, <2>2 DEF WithPtr, Trees
    <3>2. \A k \in DOMAIN tree.ptrs : tree.ptrs[k] # ptr
      BY <2>2 DEF ToSet
    <3> HIDE DEF new
    <3>3. \A k, l \in DOMAIN tree.ptrs : tree.ptrs[k] = tree.ptrs[l] => k = l
      BY DEF WellFormed
    <3> QED BY <1>1, <1>3, <3>1, <3>2, <3>3
  <2> QED BY <2>1, <2>2
<1> HIDE DEF new
<1>4. Rooted(new.ptrs, nodes)
  <2>1. new.ptrs \in Seq(Addresses)
    BY <1>2 DEF Trees
  <2>2. \A i \in DOMAIN tree.ptrs : i \in DOMAIN new.ptrs
    BY <1>1, <1>2, <2>1 DEF Extends
  <2> QED BY <2>1, <2>2 DEF WellFormed, Rooted
<1>6. ASSUME NEW n \in DOMAIN nodes PROVE nodes[n].ptr = new.ptrs[nodes[n].ptrId]
  <2>1. nodes[n].ptrId \in DOMAIN tree.ptrs /\ nodes[n].ptr = tree.ptrs[nodes[n].ptrId]
    BY DEF WellFormed, Rooted
  <2> QED BY <1>2, <2>1 DEF Extends
<1>5. WellFormed(new, nodes)
  BY <1>2, <1>3, <1>4, <1>6 DEF WellFormed
<1> QED BY <1>2, <1>5 DEF new

\* So does a node for an edge that was not there.
LEMMA AddNodeKeeps ==
  ASSUME NEW tree, NEW nodes, WellFormed(tree, nodes),
         NEW from \in 0 .. Len(nodes), NEW ptrId \in DOMAIN tree.ptrs, NEW ptr \in Addresses,
         tree.ptrs[ptrId] = ptr, Edge(tree, from, ptrId) = {}
  PROVE  WellFormed([tree EXCEPT
                       !.edges = @ \cup {[from |-> from, ptrId |-> ptrId, to |-> tree.counter]},
                       !.counter = @ + 1],
                    Append(nodes, [ptr |-> ptr, ptrId |-> ptrId, parent |-> from]))
<1> DEFINE edge == [from |-> from, ptrId |-> ptrId, to |-> tree.counter]
           node == [ptr |-> ptr, ptrId |-> ptrId, parent |-> from]
           edges == tree.edges \cup {edge}
           new == [tree EXCEPT !.edges = edges, !.counter = tree.counter + 1]
           all == Append(nodes, node)
<1>1. /\ tree \in Trees /\ tree.edges \in SUBSET Edges /\ tree.counter \in Nat
      /\ tree.ptrs \in Seq(Addresses) /\ nodes \in Seq(TreeNodes) /\ Len(nodes) \in Nat
      /\ tree.counter = Len(nodes) + 1
  BY DEF WellFormed, Trees, Rooted
<1>2. ptrId \in Nat /\ from \in Nat
  BY <1>1
<1>3. edge \in Edges /\ edge.from = from /\ edge.ptrId = ptrId /\ edge.to = tree.counter
  BY <1>1, <1>2 DEF Edges
<1>4. node \in TreeNodes /\ node.ptrId = ptrId /\ node.parent = from /\ node.ptr = ptr
  BY <1>2 DEF TreeNodes
<1> HIDE DEF edge, node
<1>5. edges \in SUBSET Edges
  BY <1>1, <1>3
<1>6. /\ new \in Trees /\ new.edges = edges /\ new.counter = Len(nodes) + 2
      /\ new.ptrs = tree.ptrs
  <2> HIDE DEF edges
  <2>1. tree.counter + 1 = Len(nodes) + 2 /\ tree.counter + 1 \in Nat
    BY <1>1
  <2> QED BY <1>1, <1>5, <2>1 DEF Trees
<1>7. /\ all \in Seq(TreeNodes) /\ Len(all) = Len(nodes) + 1
      /\ DOMAIN all = DOMAIN nodes \cup {Len(nodes) + 1}
      /\ \A n \in DOMAIN nodes : all[n] = nodes[n]
      /\ all[Len(nodes) + 1] = node
      /\ DOMAIN nodes = 1 .. Len(nodes)
  BY <1>1, <1>4
<1> HIDE DEF new, all
<1>8. Rooted(new.ptrs, all)
  <2>1. ASSUME NEW n \in DOMAIN all PROVE all[n].parent < n /\ all[n].ptrId \in DOMAIN tree.ptrs
    <3>1. CASE n \in DOMAIN nodes
      BY <1>7, <3>1 DEF WellFormed, Rooted
    <3>2. CASE n = Len(nodes) + 1
      BY <1>1, <1>4, <1>7, <3>2
    <3> QED BY <1>7, <3>1, <3>2
  <2> QED BY <1>1, <1>6, <1>7, <2>1 DEF Rooted
<1>9. ASSUME NEW e \in edges
      PROVE  e.to \in DOMAIN all /\ all[e.to].parent = e.from /\ all[e.to].ptrId = e.ptrId
  <2>1. CASE e \in tree.edges
    BY <1>7, <2>1 DEF WellFormed
  <2>2. CASE e = edge
    BY <1>1, <1>3, <1>4, <1>7, <2>2
  <2> QED BY <2>1, <2>2
<1>10. ASSUME NEW n \in DOMAIN all
       PROVE  [from |-> all[n].parent, ptrId |-> all[n].ptrId, to |-> n] \in edges
  <2>1. CASE n \in DOMAIN nodes
    BY <1>7, <2>1 DEF WellFormed
  <2>2. CASE n = Len(nodes) + 1
    <3>1. [from |-> all[n].parent, ptrId |-> all[n].ptrId, to |-> n] = edge
      BY <1>1, <1>4, <1>7, <2>2 DEF edge
    <3> QED BY <3>1
  <2> QED BY <1>7, <2>1, <2>2
<1>11. \A n \in DOMAIN nodes : ~(nodes[n].parent = from /\ nodes[n].ptrId = ptrId)
  <2> SUFFICES ASSUME NEW n \in DOMAIN nodes, nodes[n].parent = from, nodes[n].ptrId = ptrId
               PROVE  FALSE
    OBVIOUS
  <2>1. [from |-> from, ptrId |-> ptrId, to |-> n] \in tree.edges
    BY DEF WellFormed
  <2>2. [from |-> from, ptrId |-> ptrId, to |-> n] \in Edge(tree, from, ptrId)
    BY <2>1 DEF Edge
  <2> QED BY <2>2
<1>12. ASSUME NEW n \in DOMAIN all, NEW m \in DOMAIN all,
              all[n].parent = all[m].parent, all[n].ptrId = all[m].ptrId
       PROVE  n = m
  <2>1. CASE n \in DOMAIN nodes /\ m \in DOMAIN nodes
    BY <1>7, <1>12, <2>1 DEF WellFormed
  <2>2. CASE n = Len(nodes) + 1 \/ m = Len(nodes) + 1
    BY <1>4, <1>7, <1>11, <1>12, <2>2
  <2> QED BY <1>7, <2>1, <2>2
<1>14. ASSUME NEW n \in DOMAIN all PROVE all[n].ptr = new.ptrs[all[n].ptrId]
  <2>1. CASE n \in DOMAIN nodes
    BY <1>6, <1>7, <2>1 DEF WellFormed
  <2>2. CASE n = Len(nodes) + 1
    BY <1>4, <1>6, <1>7, <2>2
  <2> QED BY <1>7, <2>1, <2>2
<1>13. WellFormed(new, all)
  <2>1. new.counter = Len(all) + 1
    BY <1>1, <1>6, <1>7
  <2> QED BY <1>6, <1>8, <1>9, <1>10, <1>12, <1>14, <2>1 DEF WellFormed
<1> QED BY <1>13 DEF new, all, edge, node

\* The calls of one index follow the nodes that were there.
LEMMA AppendToConcat ==
  ASSUME NEW A, NEW s \in Seq(A), NEW t \in Seq(A), NEW a \in A
  PROVE  s \o Append(t, a) = Append(s \o t, a)
OBVIOUS

\* One frame: the tree stays well formed, the paths stay, and the new node is
\* the child of the old one at the address.
LEMMA DescendStep ==
  ASSUME NEW st \in IndexStates, NEW nodes \in Seq(TreeNodes),
         NEW ptr \in Addresses, ptr # Null,
         WellFormed(st.tree, nodes \o st.calls), st.node \in 0 .. Len(nodes \o st.calls)
  PROVE  LET new == Descend(st, ptr)
             all == nodes \o new.calls
         IN  /\ WellFormed(new.tree, all)
             /\ new.node \in 1 .. Len(all)
             /\ Extends(st.tree.ptrs, new.tree.ptrs)
             /\ Extends(nodes \o st.calls, all)
             /\ Len(new.calls) <= Len(st.calls) + 1
             /\ all[new.node].parent = st.node
             /\ new.tree.ptrs[all[new.node].ptrId] = ptr
<1> DEFINE old == nodes \o st.calls
           new == Descend(st, ptr)
           all == nodes \o new.calls
           tree == WithPtr(st.tree, ptr)
           ptrId == GetPtrId(tree, ptr)
           found == Edge(tree, st.node, ptrId)
<1>1. st.tree \in Trees /\ st.node \in Nat /\ st.calls \in Seq(TreeNodes)
  BY DEF IndexStates
<1>2. WellFormed(tree, old) /\ Extends(st.tree.ptrs, tree.ptrs)
  BY WithPtrKeeps
<1>3. tree \in Trees /\ ptrId \in DOMAIN tree.ptrs /\ tree.ptrs[ptrId] = ptr
  BY <1>1, PtrFacts
<1>4. old \in Seq(TreeNodes)
  BY <1>1
<1>5. CASE found # {}
  <2>1. PICK e \in found : new = [st EXCEPT !.tree = tree, !.node = e.to]
    BY <1>5 DEF Descend
  <2>2. e \in tree.edges /\ e.from = st.node /\ e.ptrId = ptrId
    BY DEF Edge
  <2>3. e.to \in DOMAIN old /\ old[e.to].parent = st.node /\ old[e.to].ptrId = ptrId
    BY <1>2, <2>2 DEF WellFormed
  <2>4. new.tree = tree /\ new.node = e.to /\ new.calls = st.calls
    BY <2>1 DEF IndexStates
  <2> HIDE DEF new, tree, ptrId, found
  <2>5. all = old
    BY <2>4
  <2> HIDE DEF old, all
  <2>6. new.node \in 1 .. Len(all)
    BY <1>4, <2>3, <2>4, <2>5
  <2>7. Extends(old, all) /\ Len(new.calls) <= Len(st.calls) + 1
    BY <1>1, <1>4, <2>4, <2>5 DEF Extends
  <2>8. WellFormed(new.tree, all) /\ Extends(st.tree.ptrs, new.tree.ptrs)
    BY <1>2, <2>4, <2>5
  <2>9. all[new.node].parent = st.node /\ new.tree.ptrs[all[new.node].ptrId] = ptr
    BY <1>3, <2>3, <2>4, <2>5
  <2> QED BY <2>6, <2>7, <2>8, <2>9 DEF old, all, new
<1>6. CASE found = {}
  <2> DEFINE node == [ptr |-> ptr, ptrId |-> ptrId, parent |-> st.node]
             grown == [tree EXCEPT
                         !.edges = @ \cup {[from |-> st.node, ptrId |-> ptrId, to |-> tree.counter]},
                         !.counter = @ + 1]
  <2>1. new = [tree |-> grown, node |-> tree.counter, calls |-> Append(st.calls, node)]
    BY <1>6 DEF Descend
  <2>2. new.tree = grown /\ new.node = tree.counter /\ new.calls = Append(st.calls, node)
    BY <2>1
  <2>3. grown.ptrs = tree.ptrs
    BY <1>3 DEF Trees
  <2>4. WellFormed(grown, Append(old, node))
    <3> HIDE DEF old, tree, ptrId
    <3> QED BY <1>2, <1>3, <1>6, AddNodeKeeps DEF old
  <2>5. ptrId \in Nat
    BY <1>3 DEF Trees
  <2>6. node \in TreeNodes /\ node.parent = st.node /\ node.ptrId = ptrId
    BY <1>1, <2>5 DEF TreeNodes
  <2>7. tree.counter = Len(old) + 1
    BY <1>2 DEF WellFormed
  <2> HIDE DEF new, grown, tree, ptrId, found, node
  <2>8. all = Append(old, node)
    BY <1>1, <2>2, <2>6, AppendToConcat
  <2> HIDE DEF old, all
  <2>9. /\ Len(all) = Len(old) + 1 /\ all[Len(old) + 1] = node
        /\ \A i \in DOMAIN old : all[i] = old[i]
        /\ Len(old) \in Nat
    BY <1>4, <2>6, <2>8
  <2>10. new.node \in 1 .. Len(all) /\ Extends(old, all)
    BY <2>2, <2>7, <2>9 DEF Extends
  <2>11. Len(new.calls) <= Len(st.calls) + 1
    BY <1>1, <2>2, <2>6
  <2>12. WellFormed(new.tree, all) /\ Extends(st.tree.ptrs, new.tree.ptrs)
    BY <1>2, <2>2, <2>3, <2>4, <2>8
  <2>13. all[new.node].parent = st.node /\ new.tree.ptrs[all[new.node].ptrId] = ptr
    BY <1>3, <2>2, <2>3, <2>6, <2>7, <2>9
  <2> QED BY <2>10, <2>11, <2>12, <2>13 DEF old, all, new
<1> QED BY <1>5, <1>6

\* index: the node it returns has the frames of the trace as its path.
LEMMA IndexEffect ==
  ASSUME NEW tree, NEW nodes, WellFormed(tree, nodes), NEW trace \in Seq(Addresses)
  PROVE  LET r == index(tree, trace)
             all == nodes \o r.calls
         IN  /\ r \in IndexStates
             /\ WellFormed(r.tree, all)
             /\ r.node \in 0 .. Len(all)
             /\ Extends(tree.ptrs, r.tree.ptrs)
             /\ Extends(nodes, all)
             /\ Len(all) <= Len(nodes) + Len(trace)
             /\ NodePaths(r.tree.ptrs, all)[r.node] = NotNull(trace)
<1> DEFINE N == Len(trace)
           f == Indexing(tree, trace)
           g == NotNullOf(trace)
           all(n) == nodes \o f[n].calls
           Good(n) == /\ WellFormed(f[n].tree, all(n))
                      /\ f[n].node \in 0 .. Len(all(n))
                      /\ Extends(tree.ptrs, f[n].tree.ptrs)
                      /\ Len(f[n].calls) <= n
                      /\ NodePaths(f[n].tree.ptrs, all(n))[f[n].node] = g[n]
           T == {n \in Nat : n <= N => Good(n)}
<1>1. tree \in Trees /\ nodes \in Seq(TreeNodes) /\ N \in Nat /\ tree.ptrs \in Seq(Addresses)
  BY DEF WellFormed, Rooted
<1>2. /\ f \in [0 .. N -> IndexStates]
      /\ f[0] = [tree |-> tree, node |-> 0, calls |-> <<>>]
      /\ \A n \in 1 .. N : f[n] = Descend(f[n - 1], FromEnd(trace, n))
  BY <1>1, IndexingFacts
<1>3. /\ g[0] = <<>>
      /\ \A n \in 1 .. N : g[n] = IF FromEnd(trace, n) = Null THEN g[n - 1]
                                  ELSE <<FromEnd(trace, n)>> \o g[n - 1]
  BY NotNullFacts
<1>4. ASSUME NEW n \in 0 .. N
      PROVE  f[n].tree \in Trees /\ f[n].calls \in Seq(TreeNodes) /\ all(n) \in Seq(TreeNodes)
  <2>1. f[n].tree \in Trees /\ f[n].calls \in Seq(TreeNodes)
    BY <1>2 DEF IndexStates
  <2> QED BY <1>1, <2>1
<1> HIDE DEF f, g
<1>5. Good(0)
  <2>1. f[0].tree = tree /\ f[0].node = 0 /\ f[0].calls = <<>>
    BY <1>2
  <2>2. all(0) = nodes
    BY <1>1, <2>1
  <2> HIDE DEF all
  <2>3. Rooted(tree.ptrs, nodes) /\ Len(nodes) \in Nat
    BY <1>1 DEF WellFormed
  <2>4. NodePaths(tree.ptrs, nodes)[0] = <<>>
    BY <2>3, PathFacts
  <2>5. Extends(tree.ptrs, tree.ptrs)
    BY <1>1 DEF Extends
  <2> QED BY <1>3, <2>1, <2>2, <2>3, <2>4, <2>5
<1>6. ASSUME NEW n \in 1 .. N, Good(n - 1) PROVE Good(n)
  <2> DEFINE p == FromEnd(trace, n)
             k == n - 1
  <2>1. k \in 0 .. N /\ k + 1 = n /\ k \in Nat
    BY <1>1
  <2>2. p \in Addresses /\ f[n] = Descend(f[k], p) /\ f[k] \in IndexStates
    <3>1. p \in Addresses
      BY <1>1 DEF FromEnd
    <3>2. f[n] = Descend(f[k], p)
      BY <1>2
    <3>3. f[k] \in IndexStates
      BY <1>2, <2>1
    <3> QED BY <3>1, <3>2, <3>3
  <2>3. Good(k)
    BY <1>6
  <2>4. f[k].tree \in Trees /\ f[k].calls \in Seq(TreeNodes) /\ all(k) \in Seq(TreeNodes)
    BY <1>4, <2>1
  <2>5. f[n].tree \in Trees /\ f[n].calls \in Seq(TreeNodes) /\ all(n) \in Seq(TreeNodes)
    BY <1>1, <1>4
  <2>6. g[n] = IF p = Null THEN g[k] ELSE <<p>> \o g[k]
    BY <1>3
  <2> HIDE DEF k, p
  <2>7. CASE p = Null
    <3>1. f[n] = f[k] /\ g[n] = g[k]
      BY <2>2, <2>6, <2>7 DEF Descend
    <3>2. Len(f[n].calls) <= n
      BY <2>1, <2>3, <2>4, <3>1
    <3> QED BY <2>3, <3>1, <3>2
  <2>8. CASE p # Null
    <3>1. /\ WellFormed(f[n].tree, all(n))
          /\ f[n].node \in 1 .. Len(all(n))
          /\ Extends(f[k].tree.ptrs, f[n].tree.ptrs)
          /\ Extends(all(k), all(n))
          /\ Len(f[n].calls) <= Len(f[k].calls) + 1
          /\ all(n)[f[n].node].parent = f[k].node
          /\ f[n].tree.ptrs[all(n)[f[n].node].ptrId] = p
      <4>1. WellFormed(f[k].tree, nodes \o f[k].calls) /\ f[k].node \in 0 .. Len(nodes \o f[k].calls)
        BY <2>3
      <4> DEFINE st == f[k]
      <4> HIDE DEF st
      <4>2. st \in IndexStates /\ WellFormed(st.tree, nodes \o st.calls)
            /\ st.node \in 0 .. Len(nodes \o st.calls) /\ f[n] = Descend(st, p)
        BY <2>2, <4>1 DEF st
      <4> DEFINE new == Descend(st, p)
                 al == nodes \o new.calls
      <4>3. /\ WellFormed(new.tree, al)
            /\ new.node \in 1 .. Len(al)
            /\ Extends(st.tree.ptrs, new.tree.ptrs)
            /\ Extends(nodes \o st.calls, al)
            /\ Len(new.calls) <= Len(st.calls) + 1
            /\ al[new.node].parent = st.node
            /\ new.tree.ptrs[al[new.node].ptrId] = p
        BY <1>1, <2>2, <2>8, <4>2, DescendStep
      <4> QED BY <4>2, <4>3, Zenon DEF st
    <3>2. Rooted(f[n].tree.ptrs, all(n)) /\ Rooted(f[k].tree.ptrs, all(k))
      BY <2>3, <3>1 DEF WellFormed
    <3> HIDE DEF all
    <3>3. NodePaths(f[n].tree.ptrs, all(n))[f[n].node]
            = <<p>> \o NodePaths(f[n].tree.ptrs, all(n))[f[k].node]
      <4> DEFINE q == f[n].tree.ptrs
                 a == all(n)
                 m == f[n].node
      <4>1. m \in 1 .. Len(a) /\ Rooted(q, a) /\ a[m].parent = f[k].node /\ q[a[m].ptrId] = p
        BY <3>1, <3>2
      <4> HIDE DEF q, a, m
      <4>2. NodePaths(q, a)[m] = <<q[a[m].ptrId]>> \o NodePaths(q, a)[a[m].parent]
        BY <4>1, PathFacts, ZenonT(30)
      <4>3. NodePaths(q, a)[m] = <<p>> \o NodePaths(q, a)[f[k].node]
        BY <4>1, <4>2, Zenon
      <4> QED BY <4>3 DEF q, a, m
    <3>4. NodePaths(f[n].tree.ptrs, all(n))[f[k].node] = g[k]
      <4>1. f[k].node \in 0 .. Len(all(k))
        BY <2>3
      <4>2. NodePaths(f[k].tree.ptrs, all(k))[f[k].node] = g[k]
        BY <2>3
      <4> QED BY <3>1, <3>2, <4>1, <4>2, PathsKept
    <3>5. NodePaths(f[n].tree.ptrs, all(n))[f[n].node] = g[n]
      BY <2>6, <2>8, <3>3, <3>4
    <3>6. Extends(tree.ptrs, f[n].tree.ptrs)
      <4>1. Extends(tree.ptrs, f[k].tree.ptrs)
        BY <2>3
      <4>2. f[k].tree.ptrs \in Seq(Addresses) /\ f[n].tree.ptrs \in Seq(Addresses)
        BY <2>4, <2>5 DEF Trees
      <4>3. Extends(f[k].tree.ptrs, f[n].tree.ptrs)
        BY <3>1
      <4> QED BY <1>1, <4>1, <4>2, <4>3, ExtendsTransitive
    <3>7. Len(f[n].calls) <= n
      <4>1. Len(f[k].calls) <= k
        BY <2>3
      <4> QED BY <2>1, <2>4, <2>5, <3>1, <4>1
    <3>8. f[n].node \in 0 .. Len(all(n))
      BY <2>5, <3>1
    <3> QED BY <3>1, <3>5, <3>6, <3>7, <3>8
  <2> QED BY <2>7, <2>8
<1>7. N \in T
  <2> HIDE DEF Good
  <2>1. 0 \in T
    BY <1>5
  <2>2. ASSUME NEW n \in Nat, n \in T PROVE n + 1 \in T
    <3> SUFFICES ASSUME n + 1 <= N PROVE Good(n + 1)
      OBVIOUS
    <3> DEFINE m == n + 1
    <3>1. Good(n) /\ m \in 1 .. N /\ m - 1 = n
      BY <1>1, <2>2
    <3>2. Good(m - 1)
      BY <3>1
    <3> HIDE DEF m
    <3>3. Good(m)
      BY <1>6, <3>1, <3>2
    <3> QED BY <3>3 DEF m
  <2> HIDE DEF T
  <2> QED BY <1>1, <2>1, <2>2, Induction
<1>8. Good(N)
  <2> HIDE DEF Good
  <2> QED BY <1>1, <1>7
<1>9. N \in 0 .. N
  BY <1>1
<1>10. f[N].calls \in Seq(TreeNodes) /\ Len(f[N].calls) <= N
  BY <1>4, <1>8, <1>9
<1>11. Extends(nodes, all(N)) /\ Len(all(N)) <= Len(nodes) + N
  BY <1>1, <1>10 DEF Extends
<1>12. f[N] \in IndexStates
  BY <1>2, <1>9
<1> QED BY <1>8, <1>11, <1>12 DEF index, NotNull, f, g

-----------------------------------------------------------------------------
(* TraceIds: what the storages, the caches and the calls in progress agree *)
(* on.                                                                     *)

\* Who is given ids: the thread trackers, and MemHawk itself.
Givers == External \cup {Inner}

\* The types of TraceIds' variables.
TypeOK ==
  /\ lru \in [External -> Seq([key : Traces, value : Nat])]
  /\ pc \in [External -> {"idle", "insert", "cache"}]
  /\ cur \in [External -> Traces \cup {<<>>}]
  /\ \A t \in External : pc[t] # "idle" => cur[t] \in Traces
  /\ got \in [External -> Nat]
  /\ given \subseteq Givers \X Traces \X Nat
  /\ used \in [External -> Seq(Traces)]

\* The tree and the nodes it calls back for agree, and the array of nodes is not
\* overrun (TreeStacktraceTracker).
TreeInv ==
  /\ WellFormed(storage.tree, storage.nodes)
  /\ storage.leafs \subseteq 0 .. Len(storage.nodes)
  /\ Len(storage.nodes) <= MaxNodes

\* The array of the static tracker holds different traces
\* (StaticStacktraceTracker).
ElementsInv ==
  /\ elements \in Seq(Seq(Addresses))
  /\ Len(elements) <= ElementsCount
  /\ \A i, j \in DOMAIN elements : elements[i] = elements[j] => i = j

\* id is right for the trace unwound: its storage has the kept trace there.
InTree(st, unwound, id) ==
  /\ id \in st.leafs
  /\ NodePaths(st.tree.ptrs, st.nodes)[id] = NotNull(Collapse(unwound))
InElements(els, unwound, id) ==
  \/ id = UnknownTraceId
  \/ \E i \in DOMAIN els : id = i - 1 + Flag /\ els[i] = Truncated(unwound)
Right(st, els, t, unwound, id) ==
  IF t = Inner THEN InElements(els, unwound, id) ELSE InTree(st, unwound, id)

\* Every id that was given, is cached or is about to be is right.
RightInv ==
  /\ \A g \in given : Right(storage, elements, g[1], g[2], g[3])
  /\ \A t \in External : \A i \in DOMAIN lru[t] : Right(storage, elements, t, lru[t][i].key, lru[t][i].value)
  /\ \A t \in External : pc[t] = "cache" => Right(storage, elements, t, cur[t], got[t])

\* The inductive invariant.
IdsInv == TypeOK /\ TreeInv /\ ElementsInv /\ RightInv

\* Empty storages and caches.
LEMMA InitIds == Init => IdsInv
<1> SUFFICES ASSUME Init PROVE IdsInv
  OBVIOUS
<1> USE DEF Init
<1>1. TypeOK
  BY DEF TypeOK
<1>2. WithPtr(NewTree, Null) = [edges |-> {}, counter |-> 1, ptrs |-> <<Null>>]
  <2>1. NewTree.ptrs = <<>>
    BY DEF NewTree
  <2>2. Null \notin ToSet(NewTree.ptrs) /\ Append(NewTree.ptrs, Null) = <<Null>>
    BY <2>1 DEF ToSet
  <2>3. WithPtr(NewTree, Null) = [NewTree EXCEPT !.ptrs = <<Null>>]
    BY <2>2 DEF WithPtr
  <2> QED BY <2>3 DEF NewTree
<1>3. storage.tree = [edges |-> {}, counter |-> 1, ptrs |-> <<Null>>]
      /\ storage.nodes = <<>> /\ storage.leafs = {}
  BY <1>2 DEF NewStorage
<1>4. storage.tree \in Trees /\ storage.tree.ptrs = <<Null>> /\ storage.tree.edges = {}
      /\ storage.tree.counter = 1
  BY <1>3, AddressAssumption DEF Trees
<1>5. TreeInv
  <2>1. Rooted(storage.tree.ptrs, storage.nodes)
    BY <1>3, <1>4, AddressAssumption DEF Rooted
  <2>2. WellFormed(storage.tree, storage.nodes)
    BY <1>3, <1>4, <2>1 DEF WellFormed
  <2> QED BY <1>3, <2>2, FlagAssumption DEF TreeInv
<1>6. ElementsInv /\ RightInv
  BY FlagAssumption DEF ElementsInv, RightInv
<1> QED BY <1>1, <1>5, <1>6 DEF IdsInv

\* InsertStacktrace of the tree: the id is right, and other ids stay right.
LEMMA TreeInsertEffect ==
  ASSUME TreeInv, NEW unwound \in Traces,
         Len(storage.nodes) + Len(Collapse(unwound)) <= MaxNodes,
         NEW new, new = TreeInsert(storage, Collapse(unwound)), storage' = new.storage
  PROVE  /\ TreeInv'
         /\ new.id \in Nat
         /\ InTree(storage', unwound, new.id)
         /\ \A x, id : InTree(storage, x, id) => InTree(storage', x, id)
<1> DEFINE trace == Collapse(unwound)
           r == index(storage.tree, trace)
           all == storage.nodes \o r.calls
<1>1. trace \in Seq(Addresses)
  BY TracesAssumption
<1>2. /\ new.id = r.node
      /\ storage'.tree = r.tree /\ storage'.nodes = all
      /\ storage'.leafs = storage.leafs \cup {r.node}
  BY DEF TreeInsert
<1>3. WellFormed(storage.tree, storage.nodes) /\ storage.nodes \in Seq(TreeNodes)
  BY DEF TreeInv, WellFormed, Rooted
<1> HIDE DEF trace
<1>4. /\ WellFormed(r.tree, all)
      /\ r.node \in 0 .. Len(all)
      /\ Extends(storage.tree.ptrs, r.tree.ptrs)
      /\ Extends(storage.nodes, all)
      /\ Len(all) <= Len(storage.nodes) + Len(trace)
      /\ NodePaths(r.tree.ptrs, all)[r.node] = NotNull(trace)
  BY <1>1, <1>3, IndexEffect
<1> HIDE DEF r, all
<1>5. /\ all \in Seq(TreeNodes) /\ Len(all) \in Nat /\ Len(storage.nodes) \in Nat
      /\ Len(trace) \in Nat
  BY <1>1, <1>3, <1>4 DEF WellFormed, Rooted
<1>6. Len(storage.nodes) <= Len(all) /\ Len(all) <= MaxNodes
  BY <1>4, <1>5, FlagAssumption DEF Extends, trace
<1>7. TreeInv'
  <2>1. storage.leafs \subseteq 0 .. Len(storage.nodes)
    BY DEF TreeInv
  <2>2. storage'.leafs \subseteq 0 .. Len(all)
    BY <1>2, <1>4, <1>5, <1>6, <2>1
  <2> QED BY <1>2, <1>4, <1>6, <2>2 DEF TreeInv
<1>8. new.id \in Nat
  BY <1>2, <1>4, <1>5
<1>9. InTree(storage', unwound, new.id)
  BY <1>2, <1>4 DEF InTree, trace
<1>10. ASSUME NEW x, NEW id, InTree(storage, x, id) PROVE InTree(storage', x, id)
  <2>1. id \in storage.leafs /\ id \in 0 .. Len(storage.nodes)
    BY <1>10 DEF InTree, TreeInv
  <2>2. Rooted(storage.tree.ptrs, storage.nodes) /\ Rooted(r.tree.ptrs, all)
    BY <1>3, <1>4 DEF WellFormed
  <2>3. NodePaths(r.tree.ptrs, all)[id] = NodePaths(storage.tree.ptrs, storage.nodes)[id]
    BY <1>4, <2>1, <2>2, PathsKept
  <2> QED BY <1>2, <1>10, <2>1, <2>3 DEF InTree
<1> QED BY <1>7, <1>8, <1>9, <1>10

\* A truncated trace is a trace.
LEMMA TruncatedType ==
  ASSUME NEW trace \in Seq(Addresses)
  PROVE  Truncated(trace) \in Seq(Addresses)
<1> DEFINE S == {Len(trace), MaxStacktraceLength}
           n == Min(S)
<1>1. n \in S /\ \A k \in S : n <= k
  <2>1. \E m \in S : \A k \in S : m <= k
    BY LengthAssumption
  <2> QED BY <2>1 DEF Min
<1>2. n \in 0 .. Len(trace)
  <2> HIDE DEF n
  <2> QED BY <1>1, LengthAssumption
<1> HIDE DEF n
<1>3. SubSeq(trace, 1, n) \in Seq(Addresses)
  BY <1>2
<1> QED BY <1>3 DEF Truncated, n

\* InsertStacktrace of the fixed storage.
LEMMA StaticInsertEffect ==
  ASSUME ElementsInv, NEW unwound \in Traces,
         NEW new, new = StaticInsert(elements, unwound), elements' = new.els
  PROVE  /\ ElementsInv'
         /\ new.id \in Nat
         /\ InElements(elements', unwound, new.id)
         /\ \A x, id : InElements(elements, x, id) => InElements(elements', x, id)
<1> DEFINE e == Truncated(unwound)
           found == {i \in DOMAIN elements : elements[i] = e}
<1>1. e \in Seq(Addresses)
  BY TracesAssumption, TruncatedType
<1>2. elements \in Seq(Seq(Addresses)) /\ Len(elements) \in Nat
      /\ DOMAIN elements = 1 .. Len(elements)
  BY DEF ElementsInv
<1> HIDE DEF e
<1>3. CASE found # {}
  <2>1. new = [els |-> elements, id |-> Min(found) - 1 + Flag]
    BY <1>3 DEF StaticInsert, e
  <2>2. found \subseteq Nat
    BY <1>2
  <2>3. Min(found) \in found
    <3>1. \E n \in found : \A m \in found : n <= m
      BY <1>3, <2>2, LeastElement
    <3> QED BY <3>1 DEF Min
  <2>4. new.els = elements /\ new.id = Min(found) - 1 + Flag
    BY <2>1
  <2>5. Min(found) \in DOMAIN elements /\ elements[Min(found)] = e
    BY <2>3
  <2>6. new.id \in Nat
    BY <1>2, <2>4, <2>5, FlagAssumption
  <2>7. InElements(elements, unwound, new.id)
    BY <2>4, <2>5 DEF InElements, e
  <2>8. elements' = elements
    BY <2>4
  <2> QED BY <2>6, <2>7, <2>8 DEF ElementsInv, InElements
<1>4. CASE found = {} /\ Fits(elements, e)
  <2>1. new = [els |-> Append(elements, e), id |-> Len(elements) + Flag]
    BY <1>4 DEF StaticInsert, e
  <2>2. elements' = Append(elements, e) /\ new.id = Len(elements) + Flag
    BY <2>1
  <2>3. Len(elements) + 1 < ElementsCount
    BY <1>4 DEF Fits
  <2>4. /\ elements' \in Seq(Seq(Addresses)) /\ Len(elements') = Len(elements) + 1
        /\ elements'[Len(elements) + 1] = e
        /\ \A i \in DOMAIN elements : elements'[i] = elements[i]
        /\ DOMAIN elements' = 1 .. Len(elements) + 1
    BY <1>1, <1>2, <2>2
  <2>5. \A i \in DOMAIN elements : elements[i] # e
    BY <1>4
  <2>6. ElementsInv'
    <3>1. Len(elements') <= ElementsCount
      BY <1>2, <2>3, <2>4, FlagAssumption
    <3>2. ASSUME NEW i \in DOMAIN elements', NEW j \in DOMAIN elements',
                 elements'[i] = elements'[j]
          PROVE  i = j
      <4>1. i \in DOMAIN elements \/ i = Len(elements) + 1
        BY <1>2, <2>4
      <4>2. j \in DOMAIN elements \/ j = Len(elements) + 1
        BY <1>2, <2>4
      <4>3. \A k, l \in DOMAIN elements : elements[k] = elements[l] => k = l
        BY DEF ElementsInv
      <4> QED BY <2>4, <2>5, <3>2, <4>1, <4>2, <4>3
    <3> QED BY <2>4, <3>1, <3>2 DEF ElementsInv
  <2>7. new.id \in Nat
    BY <1>2, <2>2, FlagAssumption
  <2>8. InElements(elements', unwound, new.id)
    <3> DEFINE i == Len(elements) + 1
    <3>1. i \in DOMAIN elements' /\ new.id = i - 1 + Flag
      BY <1>2, <2>2, <2>4, FlagAssumption
    <3>2. elements'[i] = Truncated(unwound)
      BY <2>4 DEF e
    <3> HIDE DEF i
    <3> QED BY <3>1, <3>2 DEF InElements
  <2>9. ASSUME NEW x, NEW id, InElements(elements, x, id) PROVE InElements(elements', x, id)
    <3>1. DOMAIN elements \subseteq DOMAIN elements'
      BY <1>2, <2>4
    <3> QED BY <2>4, <2>9, <3>1 DEF InElements, UnknownTraceId
  <2> QED BY <2>6, <2>7, <2>8, <2>9
<1>5. CASE found = {} /\ ~Fits(elements, e)
  <2>1. new = [els |-> elements, id |-> UnknownTraceId]
    BY <1>5 DEF StaticInsert, e
  <2>2. elements' = elements /\ new.id = UnknownTraceId
    BY <2>1
  <2>3. new.id \in Nat
    BY <2>2, FlagAssumption DEF UnknownTraceId
  <2> QED BY <2>2, <2>3 DEF ElementsInv, InElements, UnknownTraceId
<1> QED BY <1>3, <1>4, <1>5

\* Relocate moves one entry to the end and keeps the order of the others.
LEMMA RelocateFacts ==
  ASSUME NEW A, NEW s \in Seq(A), NEW p \in DOMAIN s
  PROVE  /\ Relocate(s, p) \in Seq(A)
         /\ Len(Relocate(s, p)) = Len(s)
         /\ \A j \in DOMAIN s : Relocate(s, p)[j] = IF j < p THEN s[j]
                                                    ELSE IF j < Len(s) THEN s[j + 1] ELSE s[p]
<1> DEFINE a == SubSeq(s, 1, p - 1)
           b == SubSeq(s, p + 1, Len(s))
           n == Len(s)
<1>1. p \in 1 .. n /\ n \in Nat /\ s[p] \in A
  OBVIOUS
<1>2. a \in Seq(A) /\ Len(a) = p - 1 /\ \A j \in 1 .. p - 1 : a[j] = s[j]
  BY <1>1
<1>3. b \in Seq(A) /\ Len(b) = n - p /\ \A j \in 1 .. n - p : b[j] = s[j + p]
  BY <1>1
<1>4. Relocate(s, p) = Append(a \o b, s[p])
  BY DEF Relocate, RemoveAt
<1> HIDE DEF a, b, n
<1> DEFINE c == a \o b
<1>5. /\ c \in Seq(A) /\ Len(c) = n - 1
      /\ \A j \in 1 .. n - 1 : c[j] = IF j < p THEN s[j] ELSE s[j + 1]
  <2>0. /\ c \in Seq(A) /\ Len(c) = Len(a) + Len(b)
        /\ \A i \in 1 .. Len(a) + Len(b) : c[i] = IF i <= Len(a) THEN a[i] ELSE b[i - Len(a)]
    BY <1>2, <1>3, ConcatProperties
  <2> HIDE DEF c
  <2>1. c \in Seq(A) /\ Len(c) = n - 1
    BY <1>1, <1>2, <1>3, <2>0
  <2>2. ASSUME NEW j \in 1 .. n - 1 PROVE c[j] = IF j < p THEN s[j] ELSE s[j + 1]
    <3>1. Len(a) + Len(b) = n - 1 /\ j \in 1 .. Len(a) + Len(b)
      BY <1>1, <1>2, <1>3
    <3>2. c[j] = IF j <= p - 1 THEN a[j] ELSE b[j - (p - 1)]
      BY <1>2, <2>0, <3>1
    <3>3. CASE j < p
      BY <1>1, <1>2, <3>2, <3>3
    <3>4. CASE j >= p
      <4>1. j - (p - 1) \in 1 .. n - p /\ (j - (p - 1)) + p = j + 1 /\ ~(j <= p - 1)
        BY <1>1, <3>4
      <4>2. b[j - (p - 1)] = s[(j - (p - 1)) + p]
        BY <1>3, <4>1
      <4> QED BY <1>1, <3>2, <3>4, <4>1, <4>2
    <3> QED BY <1>1, <3>3, <3>4
  <2> QED BY <2>1, <2>2
<1> HIDE DEF c
<1>6. Append(c, s[p]) \in Seq(A) /\ Len(Append(c, s[p])) = n
  BY <1>1, <1>5
<1>7. \A j \in 1 .. n : Append(c, s[p])[j] = IF j < n THEN c[j] ELSE s[p]
  BY <1>1, <1>5
<1>8. Relocate(s, p) = Append(c, s[p]) /\ DOMAIN s = 1 .. n
  BY <1>4 DEF c, n
<1> QED BY <1>1, <1>5, <1>6, <1>7, <1>8 DEF n

\* A node of the cache's list.
Entry == [key : Traces, value : Nat]

\* LruInsert appends, and drops the oldest entry if the cache is full.
LEMMA LruInsertFacts ==
  ASSUME NEW s \in Seq(Entry), NEW node \in Entry
  PROVE  /\ LruInsert(s, node) \in Seq(Entry)
         /\ Len(s) >= Capacity =>
              /\ Len(LruInsert(s, node)) = Len(s)
              /\ \A j \in DOMAIN s :
                   LruInsert(s, node)[j] = IF j < Len(s) THEN s[j + 1] ELSE node
         /\ Len(s) < Capacity => LruInsert(s, node) = Append(s, node)
         /\ \A j \in DOMAIN LruInsert(s, node) :
              LruInsert(s, node)[j] = node \/ \E i \in DOMAIN s : LruInsert(s, node)[j] = s[i]
<1>1. CASE Len(s) >= Capacity
  <2> DEFINE u == [s EXCEPT ![1] = node]
  <2>1. Len(s) \in Nat /\ 1 \in DOMAIN s /\ DOMAIN s = 1 .. Len(s)
    BY <1>1, CapacityAssumption
  <2>2. u \in Seq(Entry) /\ Len(u) = Len(s) /\ u[1] = node /\ DOMAIN u = DOMAIN s
        /\ \A j \in DOMAIN s : j # 1 => u[j] = s[j]
    BY <2>1, ExceptSeq
  <2>3. LruInsert(s, node) = Relocate(u, 1)
    BY <1>1 DEF LruInsert
  <2> HIDE DEF u
  <2>4. /\ Relocate(u, 1) \in Seq(Entry) /\ Len(Relocate(u, 1)) = Len(u)
        /\ \A j \in DOMAIN u : Relocate(u, 1)[j] = IF j < 1 THEN u[j]
                                                   ELSE IF j < Len(u) THEN u[j + 1] ELSE u[1]
    BY <2>1, <2>2, RelocateFacts
  <2>5. ASSUME NEW j \in DOMAIN s
        PROVE  /\ Relocate(u, 1)[j] = IF j < Len(s) THEN s[j + 1] ELSE node
               /\ j < Len(s) => j + 1 \in DOMAIN s
    BY <2>1, <2>2, <2>4
  <2>6. DOMAIN Relocate(u, 1) = DOMAIN s
    BY <2>1, <2>2, <2>4
  <2> QED BY <1>1, <2>1, <2>2, <2>3, <2>4, <2>5, <2>6, CapacityAssumption
<1>2. CASE Len(s) < Capacity
  <2>1. LruInsert(s, node) = Append(s, node)
    BY <1>2, CapacityAssumption DEF LruInsert
  <2>2. Append(s, node) \in Seq(Entry)
        /\ \A j \in DOMAIN Append(s, node) :
             Append(s, node)[j] = node \/ (j \in DOMAIN s /\ Append(s, node)[j] = s[j])
    OBVIOUS
  <2> QED BY <1>2, <2>1, <2>2, CapacityAssumption
<1> QED BY <1>1, <1>2, CapacityAssumption

\* A use of a trace moves it to the end of the history, or puts it there.
LEMMA UseFacts ==
  ASSUME NEW A, NEW s \in Seq(A), NEW x \in A
  PROVE  \/ /\ \A i \in DOMAIN s : s[i] # x
            /\ Append(RemoveFirst(s, x), x) = Append(s, x)
         \/ \E p \in DOMAIN s : s[p] = x /\ Append(RemoveFirst(s, x), x) = Relocate(s, p)
<1> DEFINE I == {i \in 1 .. Len(s) : s[i] = x}
<1>1. DOMAIN s = 1 .. Len(s) /\ Len(s) \in Nat
  OBVIOUS
<1>2. CASE I = {}
  BY <1>1, <1>2 DEF RemoveFirst
<1>3. CASE I # {}
  <2>0. I \subseteq Nat
    BY <1>1
  <2>1. PICK p \in I : \A m \in I : p <= m
    <3> HIDE DEF I
    <3> QED BY <1>3, <2>0, LeastElement
  <2>2. Min(I) \in I
    BY <2>1 DEF Min
  <2>3. RemoveFirst(s, x) = RemoveAt(s, Min(I))
    BY <1>3 DEF RemoveFirst, SelectInSeq
  <2> DEFINE q == Min(I)
  <2>4. q \in DOMAIN s /\ s[q] = x
    BY <1>1, <2>2
  <2> HIDE DEF q
  <2>5. RemoveFirst(s, x) = RemoveAt(s, q)
    BY <2>3 DEF q
  <2>6. Append(RemoveFirst(s, x), x) = Relocate(s, q)
    BY <2>4, <2>5 DEF Relocate
  <2> QED BY <2>4, <2>6
<1> QED BY <1>2, <1>3

\* A hit returns an id the cache holds, a miss starts an insertion.
LEMMA TouchIds ==
  ASSUME IdsInv, NEW t \in External, Touch(t)
  PROVE  IdsInv'
<1> USE DEF IdsInv
<1>1. PICK trace \in Traces :
        LET hit == {i \in DOMAIN lru[t] : lru[t][i].key = trace} IN
        /\ used' = [used EXCEPT ![t] = Append(RemoveFirst(@, trace), trace)]
        /\ IF hit # {}
             THEN LET i == CHOOSE i \in hit : TRUE IN
                  /\ lru' = [lru EXCEPT ![t] = Relocate(@, i)]
                  /\ given' = given \cup {<<t, trace, lru[t][i].value>>}
                  /\ UNCHANGED <<pc, cur>>
             ELSE /\ pc' = [pc EXCEPT ![t] = "insert"]
                  /\ cur' = [cur EXCEPT ![t] = trace]
                  /\ UNCHANGED <<lru, given>>
  BY DEF Touch
<1> DEFINE hit == {i \in DOMAIN lru[t] : lru[t][i].key = trace}
<1>2. UNCHANGED <<storage, elements, got>> /\ pc[t] = "idle"
  BY DEF Touch, traceVars
<1>3. TreeInv' /\ ElementsInv'
  BY <1>2 DEF TreeInv, ElementsInv
<1>4. \A t0, x, id : Right(storage, elements, t0, x, id) => Right(storage', elements', t0, x, id)
  BY <1>2 DEF Right, InTree, InElements, UnknownTraceId
<1>5. used' \in [External -> Seq(Traces)]
  <2>1. used[t] \in Seq(Traces)
    BY DEF TypeOK
  <2>2. Append(RemoveFirst(used[t], trace), trace) \in Seq(Traces)
    <3>1. CASE Append(RemoveFirst(used[t], trace), trace) = Append(used[t], trace)
      BY <2>1, <3>1
    <3>2. CASE \E p \in DOMAIN used[t] :
                 Append(RemoveFirst(used[t], trace), trace) = Relocate(used[t], p)
      BY <2>1, <3>2, RelocateFacts
    <3> QED BY <2>1, <3>1, <3>2, UseFacts
  <2> QED BY <1>1, <2>2 DEF TypeOK
<1>6. CASE hit # {}
  <2>1. PICK i \in hit : /\ lru' = [lru EXCEPT ![t] = Relocate(@, i)]
                         /\ given' = given \cup {<<t, trace, lru[t][i].value>>}
                         /\ UNCHANGED <<pc, cur>>
    BY <1>1, <1>6
  <2>2. /\ i \in DOMAIN lru[t] /\ lru[t][i].key = trace
        /\ lru[t] \in Seq(Entry) /\ lru[t][i] \in Entry /\ lru[t][i].value \in Nat
    <3>1. i \in DOMAIN lru[t] /\ lru[t][i].key = trace
      OBVIOUS
    <3>2. lru[t] \in Seq(Entry)
      BY DEF TypeOK, Entry
    <3>3. lru[t][i] \in Entry
      BY <3>1, <3>2
    <3> QED BY <3>1, <3>2, <3>3 DEF Entry
  <2>3. /\ Relocate(lru[t], i) \in Seq(Entry)
        /\ Len(Relocate(lru[t], i)) = Len(lru[t])
        /\ \A j \in DOMAIN lru[t] :
             Relocate(lru[t], i)[j] = IF j < i THEN lru[t][j]
                                      ELSE IF j < Len(lru[t]) THEN lru[t][j + 1] ELSE lru[t][i]
    BY <2>2, RelocateFacts
  <2>4. TypeOK'
    <3>1. lru' \in [External -> Seq(Entry)]
      BY <2>1, <2>3 DEF TypeOK, Entry
    <3>2. given' \subseteq Givers \X Traces \X Nat
      BY <2>1, <2>2 DEF TypeOK, Givers
    <3> QED BY <1>2, <1>5, <2>1, <3>1, <3>2 DEF TypeOK, Entry
  <2>5. ASSUME NEW j \in DOMAIN Relocate(lru[t], i)
        PROVE  \E k \in DOMAIN lru[t] : Relocate(lru[t], i)[j] = lru[t][k]
    <3>1. DOMAIN lru[t] = 1 .. Len(lru[t]) /\ Len(lru[t]) \in Nat /\ i \in 1 .. Len(lru[t])
      BY <2>2
    <3>2. j \in DOMAIN lru[t]
      BY <2>2, <2>3
    <3>3. Relocate(lru[t], i)[j] = IF j < i THEN lru[t][j]
                                   ELSE IF j < Len(lru[t]) THEN lru[t][j + 1] ELSE lru[t][i]
      BY <2>3, <3>2
    <3>4. j < Len(lru[t]) => j + 1 \in DOMAIN lru[t]
      BY <3>1, <3>2
    <3> QED BY <2>2, <3>2, <3>3, <3>4
  <2>6. Right(storage, elements, t, trace, lru[t][i].value)
    BY <2>2 DEF RightInv
  <2>7. ASSUME NEW u \in External, NEW j \in DOMAIN lru'[u]
        PROVE  \E k \in DOMAIN lru[u] : lru'[u][j] = lru[u][k]
    BY <2>1, <2>5 DEF TypeOK
  <2>8. RightInv'
    <3>1. \A g \in given' : Right(storage', elements', g[1], g[2], g[3])
      BY <1>4, <2>1, <2>6 DEF RightInv
    <3>2. \A u \in External : \A j \in DOMAIN lru'[u] : Right(storage', elements', u, lru'[u][j].key, lru'[u][j].value)
      BY <1>4, <2>7 DEF RightInv
    <3>3. \A u \in External : pc'[u] = "cache" => Right(storage', elements', u, cur'[u], got'[u])
      BY <1>2, <1>4, <2>1 DEF RightInv
    <3> QED BY <3>1, <3>2, <3>3 DEF RightInv
  <2> QED BY <1>3, <2>4, <2>8
<1>7. CASE hit = {}
  <2>1. /\ pc' = [pc EXCEPT ![t] = "insert"]
        /\ cur' = [cur EXCEPT ![t] = trace]
        /\ UNCHANGED <<lru, given>>
    BY <1>1, <1>7
  <2>2. TypeOK'
    BY <1>2, <1>5, <2>1 DEF TypeOK
  <2>3. RightInv'
    <3>1. \A g \in given' : Right(storage', elements', g[1], g[2], g[3])
      BY <1>4, <2>1 DEF RightInv
    <3>2. \A u \in External : \A j \in DOMAIN lru'[u] : Right(storage', elements', u, lru'[u][j].key, lru'[u][j].value)
      BY <1>4, <2>1 DEF RightInv
    <3>3. ASSUME NEW u \in External, pc'[u] = "cache" PROVE Right(storage', elements', u, cur'[u], got'[u])
      <4>1. u # t /\ pc[u] = "cache" /\ cur'[u] = cur[u] /\ got'[u] = got[u]
        BY <1>2, <2>1, <3>3 DEF TypeOK
      <4> QED BY <1>4, <4>1 DEF RightInv
    <3> QED BY <3>1, <3>2, <3>3 DEF RightInv
  <2> QED BY <1>3, <2>2, <2>3
<1> QED BY <1>6, <1>7

\* The storage grows, and what was right stays right.
LEMMA InsertIds ==
  ASSUME IdsInv, NEW t \in External, InsertStacktrace(t)
  PROVE  IdsInv'
<1> USE DEF IdsInv
<1>1. /\ pc[t] = "insert" /\ cur[t] \in Traces
      /\ pc' = [pc EXCEPT ![t] = "cache"]
      /\ UNCHANGED <<lru, cur, saves, given, used>>
  BY DEF InsertStacktrace, TypeOK
<1>2. PICK id \in Nat :
        /\ got' = [got EXCEPT ![t] = id]
        /\ TreeInv' /\ ElementsInv'
        /\ Right(storage', elements', t, cur[t], id)
        /\ \A u, x, i : Right(storage, elements, u, x, i) => Right(storage', elements', u, x, i)
  <2> DEFINE new == TreeInsert(storage, Collapse(cur[t]))
  <2>1. storage' = new.storage /\ got' = [got EXCEPT ![t] = new.id] /\ UNCHANGED elements
        /\ Len(storage.nodes) + Len(Collapse(cur[t])) <= MaxNodes
    BY DEF InsertStacktrace
  <2>2. TreeInv' /\ new.id \in Nat /\ InTree(storage', cur[t], new.id)
        /\ \A x, i : InTree(storage, x, i) => InTree(storage', x, i)
    BY <1>1, <2>1, TreeInsertEffect
  <2>3. ElementsInv'
    BY <2>1 DEF ElementsInv
  <2> HIDE DEF new
  <2> QED BY <2>1, <2>2, <2>3, InnerAssumption DEF Right
<1>3. TypeOK'
  BY <1>1, <1>2 DEF TypeOK
<1>4. RightInv'
  <2>1. \A g \in given' : Right(storage', elements', g[1], g[2], g[3])
    BY <1>1, <1>2 DEF RightInv
  <2>2. \A u \in External : \A j \in DOMAIN lru'[u] :
          Right(storage', elements', u, lru'[u][j].key, lru'[u][j].value)
    BY <1>1, <1>2 DEF RightInv
  <2>3. ASSUME NEW u \in External, pc'[u] = "cache"
        PROVE  Right(storage', elements', u, cur'[u], got'[u])
    <3>1. CASE u = t
      BY <1>1, <1>2, <3>1 DEF TypeOK
    <3>2. CASE u # t
      <4>1. pc[u] = "cache" /\ cur'[u] = cur[u] /\ got'[u] = got[u]
        BY <1>1, <1>2, <2>3, <3>2 DEF TypeOK
      <4> QED BY <1>2, <4>1 DEF RightInv
    <3> QED BY <3>1, <3>2
  <2> QED BY <2>1, <2>2, <2>3 DEF RightInv
<1> QED BY <1>2, <1>3, <1>4

\* The id that goes into the cache is the one the storage returned.
LEMMA CacheIds ==
  ASSUME IdsInv, NEW t \in External, CacheInsert(t)
  PROVE  IdsInv'
<1> USE DEF IdsInv
<1> DEFINE node == [key |-> cur[t], value |-> got[t]]
<1>1. /\ pc[t] = "cache" /\ cur[t] \in Traces /\ got[t] \in Nat
      /\ lru' = [lru EXCEPT ![t] = LruInsert(@, node)]
      /\ given' = given \cup {<<t, cur[t], got[t]>>}
      /\ pc' = [pc EXCEPT ![t] = "idle"]
      /\ UNCHANGED <<storage, elements, cur, got, saves, used>>
  BY DEF CacheInsert, TypeOK, traceVars
<1>2. node \in Entry /\ lru[t] \in Seq(Entry) /\ node.key = cur[t] /\ node.value = got[t]
  BY <1>1 DEF Entry, TypeOK
<1> HIDE DEF node
<1>3. /\ LruInsert(lru[t], node) \in Seq(Entry)
      /\ \A j \in DOMAIN LruInsert(lru[t], node) :
           LruInsert(lru[t], node)[j] = node
           \/ \E i \in DOMAIN lru[t] : LruInsert(lru[t], node)[j] = lru[t][i]
  BY <1>2, LruInsertFacts
<1>4. TreeInv' /\ ElementsInv'
  BY <1>1 DEF TreeInv, ElementsInv
<1>5. Right(storage, elements, t, cur[t], got[t])
  BY <1>1 DEF RightInv
<1>6. TypeOK'
  <2>1. lru' \in [External -> Seq(Entry)]
    BY <1>1, <1>3 DEF TypeOK, Entry
  <2>2. given' \subseteq Givers \X Traces \X Nat
    BY <1>1 DEF TypeOK, Givers
  <2>3. pc' \in [External -> {"idle", "insert", "cache"}]
        /\ \A u \in External : pc'[u] # "idle" => cur'[u] \in Traces
    BY <1>1 DEF TypeOK
  <2> QED BY <1>1, <2>1, <2>2, <2>3 DEF TypeOK, Entry
<1>7. RightInv'
  <2>1. \A g \in given' : Right(storage', elements', g[1], g[2], g[3])
    BY <1>1, <1>5 DEF RightInv
  <2>2. ASSUME NEW u \in External, NEW j \in DOMAIN lru'[u]
        PROVE  Right(storage', elements', u, lru'[u][j].key, lru'[u][j].value)
    <3>1. CASE u = t
      <4>1. lru'[u] = LruInsert(lru[t], node)
        BY <1>1, <3>1 DEF TypeOK
      <4>2. CASE lru'[u][j] = node
        BY <1>1, <1>2, <1>5, <3>1, <4>2
      <4>3. CASE \E i \in DOMAIN lru[t] : lru'[u][j] = lru[t][i]
        BY <1>1, <3>1, <4>3 DEF RightInv
      <4> QED BY <1>3, <2>2, <4>1, <4>2, <4>3
    <3>2. CASE u # t
      <4>1. lru'[u] = lru[u]
        BY <1>1, <3>2 DEF TypeOK
      <4> QED BY <1>1, <2>2, <4>1 DEF RightInv
    <3> QED BY <3>1, <3>2
  <2>3. \A u \in External : pc'[u] = "cache" => Right(storage', elements', u, cur'[u], got'[u])
    BY <1>1 DEF RightInv, TypeOK
  <2> QED BY <2>1, <2>2, <2>3 DEF RightInv
<1> QED BY <1>4, <1>6, <1>7

\* MemHawk's own trace goes straight to the fixed storage.
LEMMA InnerIds ==
  ASSUME IdsInv, InsertInner
  PROVE  IdsInv'
<1> USE DEF IdsInv
<1>1. PICK trace \in Traces :
        /\ elements' = StaticInsert(elements, trace).els
        /\ given' = given \cup {<<Inner, trace, StaticInsert(elements, trace).id>>}
  BY DEF InsertInner
<1>2. UNCHANGED <<storage, lru, pc, cur, got, used>>
  BY DEF InsertInner
<1> DEFINE new == StaticInsert(elements, trace)
<1>3. ElementsInv' /\ new.id \in Nat /\ InElements(elements', trace, new.id)
      /\ \A x, i : InElements(elements, x, i) => InElements(elements', x, i)
  BY <1>1, StaticInsertEffect
<1>4. given' = given \cup {<<Inner, trace, new.id>>}
  BY <1>1
<1> HIDE DEF new
<1>5. \A u, x, i : Right(storage, elements, u, x, i) => Right(storage', elements', u, x, i)
  BY <1>2, <1>3 DEF Right
<1>6. TreeInv'
  BY <1>2 DEF TreeInv
<1>7. TypeOK'
  <2>1. given' \subseteq Givers \X Traces \X Nat
    BY <1>3, <1>4 DEF TypeOK, Givers
  <2> QED BY <1>2, <2>1 DEF TypeOK
<1>8. RightInv'
  <2>1. Right(storage', elements', Inner, trace, new.id)
    BY <1>3 DEF Right
  <2>2. \A g \in given' : Right(storage', elements', g[1], g[2], g[3])
    BY <1>4, <1>5, <2>1 DEF RightInv
  <2>3. \A u \in External : \A j \in DOMAIN lru'[u] :
          Right(storage', elements', u, lru'[u][j].key, lru'[u][j].value)
    BY <1>2, <1>5 DEF RightInv
  <2>4. \A u \in External : pc'[u] = "cache" => Right(storage', elements', u, cur'[u], got'[u])
    BY <1>2, <1>5 DEF RightInv
  <2> QED BY <2>2, <2>3, <2>4 DEF RightInv
<1> QED BY <1>3, <1>6, <1>7, <1>8

\* Every step keeps the invariant.
LEMMA IdsStep == IdsInv /\ [Next]_vars => IdsInv'
<1> SUFFICES ASSUME IdsInv, [Next]_vars PROVE IdsInv'
  OBVIOUS
<1>1. CASE Next
  BY <1>1, TouchIds, InsertIds, CacheIds, InnerIds DEF Next
<1>2. CASE UNCHANGED vars
  BY <1>2 DEF vars, IdsInv, TypeOK, TreeInv, ElementsInv, RightInv
<1> QED BY <1>1, <1>2

\* So it holds in every reachable state.
LEMMA IdsInvariance == Spec => []IdsInv
BY InitIds, IdsStep, PTL DEF Spec

\* What the finder returns for an id that is right.
LEMMA FindRight ==
  ASSUME IdsInv, NEW t \in Givers, NEW unwound \in Traces, NEW id \in Nat,
         Right(storage, elements, t, unwound, id)
  PROVE  /\ t = Inner => id >= Flag
         /\ t # Inner => id < Flag
         /\ id = UnknownTraceId => Find(id) = {}
         /\ id # UnknownTraceId => Find(id) = {Kept(t, unwound)}
<1> USE DEF IdsInv
<1>1. /\ Len(storage.nodes) \in Nat /\ Len(storage.nodes) < Flag
      /\ storage.leafs \subseteq 0 .. Len(storage.nodes)
  BY FlagAssumption DEF TreeInv, WellFormed, Rooted
<1>2. /\ Len(elements) \in Nat /\ Len(elements) <= ElementsCount
      /\ DOMAIN elements = 1 .. Len(elements)
  BY DEF ElementsInv
<1>3. CASE t # Inner
  <2>1. id \in storage.leafs
        /\ NodePaths(storage.tree.ptrs, storage.nodes)[id] = NotNull(Collapse(unwound))
    BY <1>3 DEF Right, InTree
  <2>2. id < Flag /\ id <= Len(storage.nodes) /\ id # UnknownTraceId
    BY <1>1, <2>1, FlagAssumption DEF UnknownTraceId
  <2>3. TreeFind(storage, id) = {Kept(t, unwound)}
    BY <1>3, <2>1, <2>2 DEF TreeFind, Kept
  <2> QED BY <1>3, <2>2, <2>3 DEF Find
<1>4. CASE t = Inner
  <2>1. ASSUME id >= Flag PROVE TreeFind(storage, id) = {}
    BY <1>1, <2>1, FlagAssumption DEF TreeFind
  <2>2. CASE id = UnknownTraceId
    <3>1. id >= Flag
      BY <2>2, FlagAssumption DEF UnknownTraceId
    <3>2. StaticFind(elements, id) = {}
      BY <1>2, <2>2, FlagAssumption DEF StaticFind, UnknownTraceId
    <3> QED BY <1>4, <2>1, <2>2, <3>1, <3>2 DEF Find
  <2>3. CASE id # UnknownTraceId
    <3>1. PICK i \in DOMAIN elements :
            id = i - 1 + Flag /\ elements[i] = Truncated(unwound)
      BY <1>4, <2>3 DEF Right, InElements
    <3>2. id >= Flag
      BY <1>2, <3>1, FlagAssumption
    <3>3. {j \in 0 .. Len(elements) - 1 : j + Flag = id} = {i - 1}
      BY <1>2, <3>1, FlagAssumption
    <3>4. StaticFind(elements, id) = {elements[(i - 1) + 1]}
      BY <3>3 DEF StaticFind
    <3>5. (i - 1) + 1 = i
      BY <1>2
    <3>6. StaticFind(elements, id) = {Kept(t, unwound)}
      BY <1>4, <3>1, <3>4, <3>5 DEF Kept
    <3> QED BY <1>4, <2>1, <2>3, <3>2, <3>6 DEF Find
  <2> QED BY <2>2, <2>3
<1> QED BY <1>3, <1>4

\* Right ids in one storage are equal exactly if the kept traces are.
LEMMA SameRight ==
  ASSUME IdsInv, NEW t \in Givers, NEW u \in Givers, (t = Inner) = (u = Inner),
         NEW x \in Traces, NEW y \in Traces, NEW i \in Nat, NEW j \in Nat,
         i # UnknownTraceId, j # UnknownTraceId,
         Right(storage, elements, t, x, i), Right(storage, elements, u, y, j)
  PROVE  i = j <=> Kept(t, x) = Kept(u, y)
<1> USE DEF IdsInv
<1>1. CASE t = Inner /\ u = Inner
  <2>1. PICK k \in DOMAIN elements : i = k - 1 + Flag /\ elements[k] = Truncated(x)
    BY <1>1 DEF Right, InElements
  <2>2. PICK l \in DOMAIN elements : j = l - 1 + Flag /\ elements[l] = Truncated(y)
    BY <1>1 DEF Right, InElements
  <2>3. k \in Nat /\ l \in Nat
    BY DEF ElementsInv
  <2>4. i = j <=> k = l
    BY <2>1, <2>2, <2>3, FlagAssumption
  <2>5. k = l <=> elements[k] = elements[l]
    BY DEF ElementsInv
  <2> QED BY <1>1, <2>1, <2>2, <2>4, <2>5 DEF Kept
<1>2. CASE t # Inner /\ u # Inner
  <2>1. /\ i \in storage.leafs /\ j \in storage.leafs
        /\ NodePaths(storage.tree.ptrs, storage.nodes)[i] = NotNull(Collapse(x))
        /\ NodePaths(storage.tree.ptrs, storage.nodes)[j] = NotNull(Collapse(y))
    BY <1>2 DEF Right, InTree
  <2>2. i \in 0 .. Len(storage.nodes) /\ j \in 0 .. Len(storage.nodes)
    BY <2>1 DEF TreeInv
  <2>3. WellFormed(storage.tree, storage.nodes)
    BY DEF TreeInv
  <2>4. NodePaths(storage.tree.ptrs, storage.nodes)[i]
          = NodePaths(storage.tree.ptrs, storage.nodes)[j] <=> i = j
    BY <2>2, <2>3, PathsDiffer
  <2> QED BY <1>2, <2>1, <2>4 DEF Kept
<1> QED BY <1>1, <1>2

\* IdsResolve: an id resolves for ever to the trace it was given for, and is
\* shared exactly by equal traces, for any trackers, traces and sizes: the
\* program's collapsed traces in the tree, and MemHawk's own ones, cut but
\* uncollapsed, in the fixed storage (SaveTraceId, InsertStacktrace of both
\* stack-trace trackers, GetStacktraceFromId).
THEOREM IdsAreRight == Spec => []IdsResolve
<1>1. IdsInv => IdsResolve
  <2> SUFFICES ASSUME IdsInv PROVE IdsResolve
    OBVIOUS
  <2>1. ASSUME NEW g \in given
        PROVE  /\ g[1] \in Givers /\ g[2] \in Traces /\ g[3] \in Nat
               /\ Right(storage, elements, g[1], g[2], g[3])
    BY DEF IdsInv, TypeOK, RightInv
  <2>2. ASSUME NEW g \in given
        PROVE  /\ g[1] = Inner => g[3] >= Flag
               /\ g[1] # Inner => g[3] < Flag
               /\ Find(g[3]) = IF g[3] = UnknownTraceId THEN {} ELSE {Kept(g[1], g[2])}
    BY <2>1, FindRight
  <2>3. Resolves
    BY <2>2 DEF Resolves
  <2>4. ASSUME NEW g \in given, NEW h \in given, (g[1] = Inner) # (h[1] = Inner)
        PROVE  g[3] # h[3]
    <3>1. g[3] \in Nat /\ h[3] \in Nat
      BY <2>1
    <3>2. \/ g[1] = Inner /\ h[1] # Inner
          \/ g[1] # Inner /\ h[1] = Inner
      BY <2>4
    <3>3. \/ g[3] >= Flag /\ h[3] < Flag
          \/ g[3] < Flag /\ h[3] >= Flag
      BY <2>2, <3>2
    <3> QED BY <3>1, <3>3, FlagAssumption
  <2>5. ASSUME NEW g \in given, NEW h \in given, (g[1] = Inner) = (h[1] = Inner),
               UnknownTraceId \notin {g[3], h[3]}
        PROVE  g[3] = h[3] <=> Kept(g[1], g[2]) = Kept(h[1], h[2])
    BY <2>1, <2>5, SameRight
  <2>6. SameTraceSameId
    BY <2>4, <2>5 DEF SameTraceSameId
  <2> QED BY <2>3, <2>6 DEF IdsResolve
<1> QED BY <1>1, IdsInvariance, PTL

-----------------------------------------------------------------------------
(* The caches.                                                             *)

\* No element comes twice.
Distinct(s) == \A i, j \in DOMAIN s : s[i] = s[j] => i = j

\* How many of n traces a cache holds.
Held(n) == IF n > Capacity THEN Capacity ELSE n

\* A cache with the latest of the first n traces of a history.
Latest(cache, history, n) ==
  /\ n \in Nat /\ n <= Len(history)
  /\ Len(cache) = Held(n)
  /\ \A i \in 1 .. Held(n) : cache[i].key = history[n - Held(n) + i]

\* While a trace is inserted it is the last of the history, but not cached.
LatestAt(t) ==
  /\ Distinct(used[t])
  /\ pc[t] = "idle" => Latest(lru[t], used[t], Len(used[t]))
  /\ pc[t] # "idle" => /\ Latest(lru[t], used[t], Len(used[t]) - 1)
                       /\ used[t][Len(used[t])] = cur[t]
\* Every cache holds the latest traces.
LatestInv == \A t \in External : LatestAt(t)

\* The cache is full after Capacity traces.
LEMMA HeldFacts ==
  ASSUME NEW n \in Nat
  PROVE  /\ Held(n) \in 0 .. n
         /\ n > Capacity => Held(n) = Capacity
         /\ n <= Capacity => Held(n) = n
BY CapacityAssumption DEF Held

\* Moving an entry leaves the entries distinct.
LEMMA RelocateDistinct ==
  ASSUME NEW A, NEW s \in Seq(A), NEW p \in DOMAIN s, Distinct(s)
  PROVE  Distinct(Relocate(s, p))
<1> DEFINE r == Relocate(s, p)
           n == Len(s)
           old(j) == IF j < p THEN j ELSE IF j < n THEN j + 1 ELSE p
<1>1. p \in 1 .. n /\ n \in Nat /\ DOMAIN s = 1 .. n
  OBVIOUS
<1>2. r \in Seq(A) /\ Len(r) = n
      /\ \A j \in 1 .. n : r[j] = IF j < p THEN s[j] ELSE IF j < n THEN s[j + 1] ELSE s[p]
  BY <1>1, RelocateFacts
<1> HIDE DEF r, n
<1>3. DOMAIN r = 1 .. n
  BY <1>1, <1>2
<1>4. ASSUME NEW j \in 1 .. n PROVE old(j) \in 1 .. n /\ r[j] = s[old(j)]
  <2>1. CASE j < p
    BY <1>1, <1>2, <2>1
  <2>2. CASE j >= p /\ j < n
    BY <1>1, <1>2, <2>2
  <2>3. CASE j >= p /\ j = n
    BY <1>1, <1>2, <2>3
  <2> QED BY <1>1, <2>1, <2>2, <2>3
<1>5. ASSUME NEW i \in 1 .. n, NEW j \in 1 .. n, old(i) = old(j) PROVE i = j
  <2>1. i \in Nat /\ j \in Nat /\ p \in Nat
    BY <1>1
  <2>2. ASSUME NEW k \in 1 .. n
        PROVE  \/ k < p /\ old(k) = k
               \/ k >= p /\ k < n /\ old(k) = k + 1
               \/ k >= p /\ k = n /\ old(k) = p
    <3>1. k \in Nat /\ k <= n /\ p \in Nat
      BY <1>1
    <3>2. CASE k < p
      BY <3>2
    <3>3. CASE k >= p /\ k < n
      BY <3>1, <3>3
    <3>4. CASE k >= p /\ k = n
      BY <1>1, <3>1, <3>4
    <3>5. k < p \/ (k >= p /\ k < n) \/ (k >= p /\ k = n)
      BY <1>1, <3>1
    <3> QED BY <3>2, <3>3, <3>4, <3>5
  <2> HIDE DEF old
  <2> QED BY <1>1, <1>5, <2>1, <2>2
<1> HIDE DEF old
<1>6. Distinct(r)
  BY <1>1, <1>3, <1>4, <1>5 DEF Distinct
<1> QED BY <1>6 DEF r

\* So does a new one at the end.
LEMMA AppendDistinct ==
  ASSUME NEW A, NEW s \in Seq(A), NEW x \in A, Distinct(s), \A i \in DOMAIN s : s[i] # x
  PROVE  Distinct(Append(s, x))
BY DEF Distinct

\* A hit moves the trace to the end of the cache and of the history.
LEMMA LatestHit ==
  ASSUME NEW cache \in Seq(Entry), NEW h \in Seq(Traces), Distinct(h),
         Latest(cache, h, Len(h)),
         NEW i \in DOMAIN cache, NEW q \in DOMAIN h, h[q] = cache[i].key
  PROVE  Latest(Relocate(cache, i), Relocate(h, q), Len(h))
<1> DEFINE n == Len(h)
           k == Held(n)
           c == Relocate(cache, i)
           g == Relocate(h, q)
<1>1. n \in Nat /\ DOMAIN h = 1 .. n /\ k \in 0 .. n
  BY HeldFacts
<1>2. Len(cache) = k /\ DOMAIN cache = 1 .. k /\ \A j \in 1 .. k : cache[j].key = h[n - k + j]
  BY <1>1 DEF Latest
<1>3. Len(c) = k
      /\ \A j \in 1 .. k : c[j] = IF j < i THEN cache[j] ELSE IF j < k THEN cache[j + 1] ELSE cache[i]
  <2>1. Len(c) = Len(cache)
        /\ \A j \in 1 .. Len(cache) :
             c[j] = IF j < i THEN cache[j] ELSE IF j < Len(cache) THEN cache[j + 1] ELSE cache[i]
    BY RelocateFacts
  <2> HIDE DEF c, k
  <2> QED BY <1>2, <2>1
<1>4. Len(g) = n
      /\ \A j \in 1 .. n : g[j] = IF j < q THEN h[j] ELSE IF j < n THEN h[j + 1] ELSE h[q]
  BY <1>1, RelocateFacts
<1> HIDE DEF n, k, c, g
<1>5. q = n - k + i
  <2>1. n - k + i \in 1 .. n /\ i \in 1 .. k
    BY <1>1, <1>2
  <2> QED BY <1>1, <1>2, <2>1 DEF Distinct
<1>6. ASSUME NEW j \in 1 .. k PROVE c[j].key = g[n - k + j]
  <2>1. i \in 1 .. k /\ n - k + j \in 1 .. n
    BY <1>1, <1>2
  <2>2. CASE j < i
    <3>2. c[j] = cache[j]
      BY <1>3, <2>2, Zenon
    <3>3. n - k + j < q
      BY <1>1, <1>5, <2>1, <2>2
    <3>1. c[j] = cache[j] /\ n - k + j < q
      BY <3>2, <3>3
    <3> QED BY <1>2, <1>4, <2>1, <3>1
  <2>3. CASE j >= i /\ j < k
    <3>4. ~(j < i) /\ ~(n - k + j < q) /\ n - k + j < n /\ j + 1 \in 1 .. k
      BY <1>1, <1>5, <2>1, <2>3
    <3>5. c[j] = cache[j + 1]
      BY <1>3, <2>3, <3>4, Zenon
    <3>1. c[j] = cache[j + 1] /\ ~(n - k + j < q) /\ n - k + j < n /\ j + 1 \in 1 .. k
      BY <3>4, <3>5
    <3>2. g[n - k + j] = h[(n - k + j) + 1] /\ (n - k + j) + 1 = n - k + (j + 1)
      BY <1>1, <1>4, <2>1, <3>1
    <3>3. cache[j + 1].key = h[n - k + (j + 1)]
      BY <1>2, <3>1
    <3> QED BY <3>1, <3>2, <3>3
  <2>4. CASE j >= i /\ j = k
    <3>3. ~(j < i) /\ ~(j < k) /\ n - k + j = n /\ ~(n < q)
      BY <1>1, <1>5, <2>1, <2>4
    <3>4. c[j] = cache[i]
      BY <1>3, <3>3, Zenon
    <3>1. c[j] = cache[i] /\ n - k + j = n /\ ~(n < q)
      BY <3>3, <3>4
    <3>2. g[n] = h[q]
      BY <1>4, <2>1, <3>1
    <3> QED BY <3>1, <3>2
  <2> QED BY <1>1, <2>1, <2>2, <2>3, <2>4
<1>7. Latest(c, g, n)
  BY <1>1, <1>3, <1>4, <1>6 DEF Latest, k
<1> QED BY <1>7 DEF c, g, n

\* A miss of a trace that was evicted.
LEMMA LatestEvicted ==
  ASSUME NEW cache \in Seq(Entry), NEW h \in Seq(Traces), Distinct(h),
         Latest(cache, h, Len(h)),
         NEW q \in DOMAIN h, \A i \in DOMAIN cache : cache[i].key # h[q]
  PROVE  Latest(cache, Relocate(h, q), Len(h) - 1)
<1> DEFINE n == Len(h)
           k == Held(n)
           g == Relocate(h, q)
<1>1. n \in Nat /\ DOMAIN h = 1 .. n /\ k \in 0 .. n /\ q \in 1 .. n
  BY HeldFacts, SMTT(20)
<1>2. Len(cache) = k /\ DOMAIN cache = 1 .. k /\ \A j \in 1 .. k : cache[j].key = h[n - k + j]
  BY <1>1 DEF Latest
<1>4. Len(g) = n
      /\ \A j \in 1 .. n : g[j] = IF j < q THEN h[j] ELSE IF j < n THEN h[j + 1] ELSE h[q]
  BY <1>1, RelocateFacts
<1>5. n > Capacity => k = Capacity
  BY HeldFacts
<1>6. n <= Capacity => k = n
  BY HeldFacts
<1> HIDE DEF n, k, g
<1>7. q <= n - k
  <2> SUFFICES ASSUME q > n - k PROVE FALSE
    BY <1>1
  <2>1. q - (n - k) \in 1 .. k /\ n - k + (q - (n - k)) = q
    BY <1>1
  <2>2. cache[q - (n - k)].key = h[n - k + (q - (n - k))]
    BY <1>2, <2>1
  <2> QED BY <1>2, <2>1, <2>2
<1>8. n > Capacity /\ k = Capacity /\ n - 1 >= k
  BY <1>1, <1>5, <1>6, <1>7, CapacityAssumption
<1>9. ASSUME NEW j \in 1 .. k PROVE cache[j].key = g[(n - 1) - k + j]
  <2> DEFINE l == (n - 1) - k + j
  <2>1. l \in 1 .. n /\ ~(l < q) /\ l < n /\ l + 1 = n - k + j
    BY <1>1, <1>7
  <2> HIDE DEF l
  <2>2. g[l] = h[l + 1]
    BY <1>4, <2>1
  <2> QED BY <1>2, <2>1, <2>2 DEF l
<1>10. n - 1 \in Nat /\ n - 1 <= n /\ k = Held(n - 1)
  <2>1. n - 1 \in Nat
    BY <1>1, <1>8
  <2>2. /\ n - 1 > Capacity => Held(n - 1) = Capacity
        /\ n - 1 <= Capacity => Held(n - 1) = n - 1
    BY <2>1, HeldFacts
  <2> QED BY <1>1, <1>8, <2>1, <2>2, CapacityAssumption
<1>11. Latest(cache, g, n - 1)
  BY <1>1, <1>2, <1>4, <1>9, <1>10 DEF Latest
<1> QED BY <1>11 DEF g, n

\* A miss of a trace that was never used.
LEMMA LatestNew ==
  ASSUME NEW cache \in Seq(Entry), NEW h \in Seq(Traces), NEW x \in Traces,
         Latest(cache, h, Len(h))
  PROVE  Latest(cache, Append(h, x), Len(Append(h, x)) - 1)
<1> DEFINE n == Len(h)
           k == Held(n)
           g == Append(h, x)
<1>1. n \in Nat /\ k \in 0 .. n
  BY HeldFacts
<1>2. Len(cache) = k /\ \A j \in 1 .. k : cache[j].key = h[n - k + j]
  BY DEF Latest
<1>3. Len(g) = n + 1 /\ \A j \in 1 .. n : g[j] = h[j]
  OBVIOUS
<1>4. Len(g) - 1 = n
  BY <1>1, <1>3
<1> HIDE DEF g
<1>5. \A j \in 1 .. k : cache[j].key = g[n - k + j]
  <2> HIDE DEF n, k
  <2>1. \A j \in 1 .. k : n - k + j \in 1 .. n
    BY <1>1
  <2> QED BY <1>2, <1>3, <2>1
<1> QED BY <1>1, <1>2, <1>3, <1>4, <1>5 DEF Latest, g

\* Insert.
LEMMA LatestInsert ==
  ASSUME NEW cache \in Seq(Entry), NEW h \in Seq(Traces), NEW node \in Entry,
         Latest(cache, h, Len(h) - 1), node.key = h[Len(h)]
  PROVE  Latest(LruInsert(cache, node), h, Len(h))
<1> DEFINE n == Len(h)
           m == n - 1
           k == Held(m)
           k2 == Held(n)
           c == LruInsert(cache, node)
<1>1. /\ n \in Nat /\ m \in Nat /\ m + 1 = n
      /\ k \in 0 .. m
      /\ m > Capacity => k = Capacity
      /\ m <= Capacity => k = m
      /\ n > Capacity => k2 = Capacity
      /\ n <= Capacity => k2 = n
  <2>1. n \in Nat /\ m \in Nat /\ m + 1 = n
    BY DEF Latest
  <2> QED BY <2>1, HeldFacts
<1>2. Len(cache) = k /\ \A j \in 1 .. k : cache[j].key = h[m - k + j]
  BY DEF Latest
<1>3. DOMAIN cache = 1 .. k
  BY <1>2
<1>4. CASE k >= Capacity
  <2>1. k = Capacity /\ k2 = Capacity /\ k > 0
    BY <1>1, <1>4, CapacityAssumption
  <2>2. Len(c) = k /\ \A j \in 1 .. k : c[j] = IF j < k THEN cache[j + 1] ELSE node
    <3>1. Len(cache) >= Capacity
      BY <1>2, <1>4
    <3>2. Len(c) = Len(cache)
          /\ \A j \in DOMAIN cache : c[j] = IF j < Len(cache) THEN cache[j + 1] ELSE node
      BY <3>1, LruInsertFacts
    <3> HIDE DEF c, k
    <3> QED BY <1>2, <1>3, <3>2
  <2> HIDE DEF c, n, m, k, k2
  <2>3. ASSUME NEW j \in 1 .. k PROVE c[j].key = h[n - k2 + j]
    <3>1. CASE j < k
      <4>1. j + 1 \in 1 .. k /\ m - k + (j + 1) = n - k2 + j
        BY <1>1, <2>1, <3>1
      <4>2. cache[j + 1].key = h[m - k + (j + 1)]
        BY <1>2, <4>1
      <4>3. c[j] = cache[j + 1]
        BY <2>2, <3>1
      <4> QED BY <4>1, <4>2, <4>3
    <3>2. CASE j = k
      <4>1. n - k2 + j = n /\ c[j] = node
        BY <1>1, <2>1, <2>2, <3>2
      <4>2. node.key = h[n]
        BY DEF n
      <4> QED BY <4>1, <4>2
    <3> QED BY <1>1, <3>1, <3>2
  <2>4. Latest(c, h, n)
    <3>1. Len(c) = k2 /\ \A j \in 1 .. k2 : c[j].key = h[n - k2 + j]
      BY <2>1, <2>2, <2>3
    <3> QED BY <1>1, <3>1 DEF Latest, k2, n
  <2> QED BY <2>4 DEF c, n
<1>5. CASE k < Capacity
  <2>1. k = m /\ k2 = n
    BY <1>1, <1>5, CapacityAssumption
  <2>2. c = Append(cache, node)
    BY <1>2, <1>5, LruInsertFacts
  <2>3. Len(c) = n /\ \A j \in 1 .. n : c[j] = IF j < n THEN cache[j] ELSE node
    <3>1. Len(cache) = m
      BY <1>2, <2>1
    <3> HIDE DEF n, m, k, k2, c
    <3> QED BY <1>1, <2>2, <3>1
  <2> HIDE DEF c, n, m, k, k2
  <2>4. ASSUME NEW j \in 1 .. n PROVE c[j].key = h[n - k2 + j]
    <3>1. n - k2 + j = j
      BY <1>1, <2>1
    <3>2. CASE j < n
      <4>1. j \in 1 .. k /\ m - k + j = j
        BY <1>1, <2>1, <3>2
      <4> QED BY <1>2, <2>3, <3>1, <3>2, <4>1
    <3>3. CASE j = n
      BY <2>3, <3>1, <3>3 DEF n
    <3> QED BY <1>1, <3>2, <3>3
  <2>5. Latest(c, h, n)
    <3>1. Len(c) = k2 /\ \A j \in 1 .. k2 : c[j].key = h[n - k2 + j]
      BY <2>1, <2>3, <2>4
    <3> QED BY <1>1, <3>1 DEF Latest, k2, n
  <2> QED BY <2>5 DEF c, n
<1>6. k >= Capacity \/ k < Capacity
  BY <1>1, CapacityAssumption
<1> QED BY <1>4, <1>5, <1>6

\* One more call of SaveTraceId: the trace becomes the last of the history.
LEMMA LatestTouch ==
  ASSUME TypeOK, NEW t \in External, LatestAt(t), Touch(t)
  PROVE  LatestAt(t)'
<1> DEFINE c == lru[t]
           h == used[t]
<1>1. PICK trace \in Traces :
        LET hit == {i \in DOMAIN lru[t] : lru[t][i].key = trace} IN
        /\ used' = [used EXCEPT ![t] = Append(RemoveFirst(@, trace), trace)]
        /\ IF hit # {}
             THEN LET i == CHOOSE i \in hit : TRUE IN
                  /\ lru' = [lru EXCEPT ![t] = Relocate(@, i)]
                  /\ given' = given \cup {<<t, trace, lru[t][i].value>>}
                  /\ UNCHANGED <<pc, cur>>
             ELSE /\ pc' = [pc EXCEPT ![t] = "insert"]
                  /\ cur' = [cur EXCEPT ![t] = trace]
                  /\ UNCHANGED <<lru, given>>
  BY DEF Touch
<1> DEFINE new == Append(RemoveFirst(h, trace), trace)
<1>2. /\ c \in Seq(Entry) /\ h \in Seq(Traces) /\ pc[t] = "idle"
      /\ Distinct(h) /\ Latest(c, h, Len(h))
  BY DEF Touch, TypeOK, Entry, LatestAt
<1>3. used'[t] = new
  BY <1>1 DEF TypeOK
<1>4. \/ /\ \A i \in DOMAIN h : h[i] # trace
         /\ new = Append(h, trace)
      \/ \E p \in DOMAIN h : h[p] = trace /\ new = Relocate(h, p)
  BY <1>2, UseFacts
<1>5. CASE \E i \in DOMAIN c : c[i].key = trace
  <2>1. PICK i \in DOMAIN c :
          c[i].key = trace /\ lru' = [lru EXCEPT ![t] = Relocate(@, i)] /\ pc' = pc
    BY <1>1, <1>5
  <2>2. lru'[t] = Relocate(c, i) /\ pc'[t] = "idle"
    BY <1>2, <2>1 DEF TypeOK
  <2>3. \E j \in DOMAIN h : h[j] = trace
    <3>1. Len(h) \in Nat /\ Held(Len(h)) \in 0 .. Len(h) /\ DOMAIN h = 1 .. Len(h)
      BY <1>2, HeldFacts
    <3>2. DOMAIN c = 1 .. Held(Len(h)) /\ c[i].key = h[Len(h) - Held(Len(h)) + i]
      <4>1. Len(c) = Held(Len(h)) /\ \A j \in 1 .. Held(Len(h)) : c[j].key = h[Len(h) - Held(Len(h)) + j]
        BY <1>2, Zenon DEF Latest
      <4>2. DOMAIN c = 1 .. Len(c)
        BY <1>2
      <4> QED BY <4>1, <4>2, Zenon
    <3>3. Len(h) - Held(Len(h)) + i \in DOMAIN h
      BY <3>1, <3>2
    <3> QED BY <2>1, <3>2, <3>3
  <2> HIDE DEF new, c, h
  <2>4. PICK p \in DOMAIN h : h[p] = trace /\ new = Relocate(h, p)
    BY <1>4, <2>3
  <2>5. Distinct(new)
    BY <1>2, <2>4, RelocateDistinct
  <2>6. Latest(Relocate(c, i), new, Len(h))
    BY <1>2, <2>1, <2>4, LatestHit
  <2>7. Len(new) = Len(h)
    BY <1>2, <2>4, RelocateFacts
  <2> QED BY <1>3, <2>2, <2>5, <2>6, <2>7 DEF LatestAt
<1>6. CASE \A i \in DOMAIN c : c[i].key # trace
  <2>1. pc' = [pc EXCEPT ![t] = "insert"] /\ cur' = [cur EXCEPT ![t] = trace] /\ lru' = lru
    BY <1>1, <1>6
  <2>2. pc'[t] = "insert" /\ cur'[t] = trace /\ lru'[t] = c
    BY <2>1 DEF TypeOK
  <2> HIDE DEF new, c, h
  <2>3. Distinct(new) /\ Latest(c, new, Len(new) - 1) /\ new[Len(new)] = trace
    <3>1. CASE (\A i \in DOMAIN h : h[i] # trace) /\ new = Append(h, trace)
      <4>1. Distinct(new)
        BY <1>2, <3>1, AppendDistinct
      <4>2. Latest(c, new, Len(new) - 1)
        BY <1>2, <3>1, LatestNew
      <4>3. new[Len(new)] = trace
        BY <1>2, <3>1
      <4> QED BY <4>1, <4>2, <4>3
    <3>2. CASE \E p \in DOMAIN h : h[p] = trace /\ new = Relocate(h, p)
      <4>1. PICK p \in DOMAIN h : h[p] = trace /\ new = Relocate(h, p)
        BY <3>2
      <4>2. Distinct(new)
        BY <1>2, <4>1, RelocateDistinct
      <4>3. Latest(c, new, Len(h) - 1)
        BY <1>2, <1>6, <4>1, LatestEvicted
      <4>4. Len(new) = Len(h)
            /\ \A j \in DOMAIN h : new[j] = IF j < p THEN h[j] ELSE IF j < Len(h) THEN h[j + 1] ELSE h[p]
        BY <1>2, <4>1, RelocateFacts
      <4>5. Len(h) \in DOMAIN h /\ ~(Len(h) < p) /\ ~(Len(h) < Len(h))
        BY <1>2
      <4>6. new[Len(new)] = trace
        BY <4>1, <4>4, <4>5
      <4> QED BY <4>2, <4>3, <4>4, <4>6
    <3> QED BY <1>4, <3>1, <3>2
  <2> QED BY <1>3, <2>2, <2>3 DEF LatestAt
<1> QED BY <1>5, <1>6

\* Every step keeps the caches' invariant.
LEMMA LatestStep == TypeOK /\ LatestInv /\ [Next]_vars => LatestInv'
<1> SUFFICES ASSUME TypeOK, LatestInv, [Next]_vars, NEW t \in External PROVE LatestAt(t)'
  BY DEF LatestInv
<1>0. LatestAt(t)
  BY DEF LatestInv
<1>1. ASSUME NEW u \in External, u # t, Touch(u) \/ InsertStacktrace(u) \/ CacheInsert(u)
      PROVE  LatestAt(t)'
  <2>1. lru'[t] = lru[t] /\ used'[t] = used[t] /\ pc'[t] = pc[t] /\ cur'[t] = cur[t]
    <3>1. CASE Touch(u)
      BY <1>1, <3>1 DEF Touch, TypeOK
    <3>2. CASE InsertStacktrace(u)
      BY <1>1, <3>2 DEF InsertStacktrace, TypeOK
    <3>3. CASE CacheInsert(u)
      BY <1>1, <3>3 DEF CacheInsert, TypeOK
    <3> QED BY <1>1, <3>1, <3>2, <3>3
  <2> QED BY <1>0, <2>1 DEF LatestAt
<1>2. CASE Touch(t)
  BY <1>0, <1>2, LatestTouch
<1>3. CASE InsertStacktrace(t)
  <2>1. lru' = lru /\ used' = used /\ cur' = cur /\ pc[t] = "insert" /\ pc'[t] = "cache"
    BY <1>3 DEF InsertStacktrace, TypeOK
  <2> QED BY <1>0, <2>1 DEF LatestAt
<1>4. CASE CacheInsert(t)
  <2> DEFINE entry == [key |-> cur[t], value |-> got[t]]
  <2>1. /\ pc[t] = "cache" /\ cur[t] \in Traces /\ got[t] \in Nat
        /\ lru'[t] = LruInsert(lru[t], entry) /\ pc'[t] = "idle" /\ used' = used
    BY <1>4 DEF CacheInsert, TypeOK
  <2>2. entry \in Entry /\ entry.key = cur[t] /\ lru[t] \in Seq(Entry) /\ used[t] \in Seq(Traces)
    BY <2>1 DEF Entry, TypeOK
  <2> HIDE DEF entry
  <2>3. /\ Distinct(used[t]) /\ Latest(lru[t], used[t], Len(used[t]) - 1)
        /\ used[t][Len(used[t])] = cur[t]
    BY <1>0, <2>1 DEF LatestAt
  <2>4. Latest(LruInsert(lru[t], entry), used[t], Len(used[t]))
    BY <2>2, <2>3, LatestInsert
  <2> QED BY <2>1, <2>3, <2>4 DEF LatestAt
<1>5. CASE InsertInner
  <2>1. UNCHANGED <<lru, used, pc, cur>>
    BY <1>5 DEF InsertInner
  <2> QED BY <1>0, <2>1 DEF LatestAt
<1>6. CASE UNCHANGED vars
  BY <1>0, <1>6 DEF vars, LatestAt
<1> QED BY <1>1, <1>2, <1>3, <1>4, <1>5, <1>6 DEF Next

\* HoldsTheLatest: the cache of a thread tracker holds the traces it used last,
\* each once and in the order of their last use, for any capacity
\* (LruCache::Touch, LruCache::Insert).
THEOREM CacheHoldsLatest == Spec => []HoldsTheLatest
<1>1. Init => LatestInv
  <2> SUFFICES ASSUME Init, NEW t \in External PROVE LatestAt(t)
    BY DEF LatestInv
  <2>1. lru[t] = <<>> /\ used[t] = <<>> /\ pc[t] = "idle"
    BY DEF Init
  <2>2. Held(0) = 0
    BY HeldFacts, CapacityAssumption
  <2> QED BY <2>1, <2>2 DEF LatestAt, Latest, Distinct
<1>2. IdsInv => TypeOK
  BY DEF IdsInv
<1>3. TypeOK /\ LatestInv => HoldsTheLatest
  <2> SUFFICES ASSUME TypeOK, LatestInv, NEW t \in External, pc[t] = "idle"
               PROVE  LET n == Len(used[t])
                          first == IF n > Capacity THEN n - Capacity + 1 ELSE 1
                      IN  [i \in DOMAIN lru[t] |-> lru[t][i].key] = SubSeq(used[t], first, n)
    BY DEF HoldsTheLatest
  <2> DEFINE n == Len(used[t])
             first == IF n > Capacity THEN n - Capacity + 1 ELSE 1
             k == Held(n)
             latest == SubSeq(used[t], first, n)
  <2>1. /\ lru[t] \in Seq(Entry) /\ used[t] \in Seq(Traces) /\ n \in Nat /\ k \in 0 .. n
        /\ Latest(lru[t], used[t], n)
    <3>0. lru[t] \in Seq(Entry) /\ used[t] \in Seq(Traces)
      BY Zenon DEF TypeOK, Entry
    <3>1. n \in Nat
      BY <3>0
    <3>2. Latest(lru[t], used[t], n)
      BY DEF LatestInv, LatestAt
    <3> QED BY <3>0, <3>1, <3>2, HeldFacts
  <2>2. first = n - k + 1
    <3>1. n > Capacity => k = Capacity
      BY <2>1, HeldFacts
    <3>2. n <= Capacity => k = n
      BY <2>1, HeldFacts
    <3> HIDE DEF n, k
    <3> QED BY <2>1, <3>1, <3>2, CapacityAssumption
  <2>3. DOMAIN lru[t] = 1 .. k /\ \A i \in 1 .. k : lru[t][i].key = used[t][n - k + i]
    BY <2>1 DEF Latest
  <2>4. latest = [i \in 1 .. k |-> used[t][n - k + i]]
    <3>1. latest = SubSeq(used[t], n - k + 1, n)
      BY <2>2
    <3>2. SubSeq(used[t], n - k + 1, n) = [i \in 1 .. n - (n - k + 1) + 1 |-> used[t][i + (n - k + 1) - 1]]
      BY <2>1, SMTT(20)
    <3> HIDE DEF latest, n, k
    <3>3. n - (n - k + 1) + 1 = k
      BY <2>1
    <3>4. \A i \in 1 .. k : i + (n - k + 1) - 1 = n - k + i
      BY <2>1
    <3> QED BY <3>1, <3>2, <3>3, <3>4
  <2> HIDE DEF n, k, first, latest
  <2>5. [i \in DOMAIN lru[t] |-> lru[t][i].key] = latest
    BY <2>3, <2>4
  <2> QED BY <2>5 DEF n, first, latest
<1> QED BY <1>1, <1>2, <1>3, LatestStep, IdsInvariance, PTL DEF Spec

-----------------------------------------------------------------------------
(* CollapseRecursion.  d is a stack of at least two frames.                *)

\* The frames up to p that match at distance shift.
LEMMA RunLengthFacts ==
  ASSUME NEW F, NEW d \in Seq(F), NEW shift \in 1 .. Len(d)
  PROVE  /\ RunLength(d, shift) \in [0 .. Len(d) - shift -> Nat]
         /\ RunLength(d, shift)[0] = 0
         /\ \A p \in 1 .. Len(d) - shift :
              RunLength(d, shift)[p] = IF d[p] # d[p + shift] THEN 0
                                         ELSE RunLength(d, shift)[p - 1] + 1
<1> DEFINE n == Len(d)
<1>0. n \in Nat
  OBVIOUS
<1> DEFINE N == n - shift
           More(p, k) == IF d[p] # d[p + shift] THEN 0 ELSE k + 1
           step == [p \in 1 .. N |-> [k \in Nat |-> More(p, k)]]
           Eqn(f) == f = [p \in 0 .. N |-> IF p = 0 \/ d[p] # d[p + shift] THEN 0
                                             ELSE f[p - 1] + 1]
<1>1. N \in Nat
  OBVIOUS
<1>2. Loop(Nat, N, 0, step)
  BY <1>1 DEF Loop
<1>3. RunLength(d, shift) = CHOOSE f : Eqn(f)
  BY DEF RunLength
<1> HIDE DEF N, step
<1>4. PICK f : Loops(f, Nat, N, 0, step)
  BY <1>2, Iteration
<1>5. ASSUME NEW p \in 1 .. N
      PROVE  f[p - 1] \in Nat /\ f[p] = More(p, f[p - 1])
  <2>1. p - 1 \in 0 .. N
    BY <1>1
  <2> QED BY <1>4, <2>1 DEF step, Loops
<1>6. Eqn(f)
  BY <1>1, <1>4, <1>5 DEF Loops
<1> DEFINE g == RunLength(d, shift)
<1>7. Eqn(g)
  BY <1>3, <1>6
<1>8. /\ g[0] = 0
      /\ \A p \in 1 .. N : g[p] = More(p, g[p - 1])
  <2> HIDE DEF g
  <2> QED BY <1>1, <1>7
<1>9. DOMAIN g = 0 .. N /\ g = [p \in 0 .. N |-> g[p]]
  BY <1>7
<1>10. \A p \in 0 .. N : g[p] \in Nat
  <2>1. ASSUME NEW p \in 1 .. N, g[p - 1] \in Nat PROVE g[p] \in Nat
    <3> HIDE DEF g
    <3> QED BY <1>8, <2>1
  <2>2. g[0] \in Nat
    BY <1>8
  <2> HIDE DEF g
  <2> QED BY <1>1, <2>1, <2>2, LoopInvariant
<1> QED BY <1>8, <1>9, <1>10 DEF N

\* A block before p that is repeated behind p.
Repeats(d, shift, p) ==
  \A j \in 0 .. shift - 1 : p - j >= 1 /\ d[p - j] = d[p - j + shift]

\* The run length at a position counts frames that equal those one shift later.
LEMMA RunsMatch ==
  ASSUME NEW F, NEW d \in Seq(F), NEW shift \in 1 .. Len(d)
  PROVE  \A p \in 0 .. Len(d) - shift : \A j \in 0 .. RunLength(d, shift)[p] - 1 :
           p - j >= 1 /\ d[p - j] = d[p - j + shift]
<1> DEFINE n == Len(d)
<1>0. n \in Nat
  OBVIOUS
<1> DEFINE N == n - shift
           run == RunLength(d, shift)
           T == {p \in Nat : p <= N =>
                   \A j \in 0 .. run[p] - 1 : p - j >= 1 /\ d[p - j] = d[p - j + shift]}
<1>1. N \in Nat /\ run \in [0 .. N -> Nat] /\ run[0] = 0
      /\ \A p \in 1 .. N : run[p] = IF d[p] # d[p + shift] THEN 0 ELSE run[p - 1] + 1
  BY RunLengthFacts
<1> HIDE DEF N, run
<1>2. 0 \in T
  BY <1>1
<1>3. ASSUME NEW c \in Nat, c \in T PROVE c + 1 \in T
  <2> SUFFICES ASSUME c + 1 <= N, NEW j \in 0 .. run[c + 1] - 1
               PROVE  (c + 1) - j >= 1 /\ d[(c + 1) - j] = d[(c + 1) - j + shift]
    OBVIOUS
  <2>1. c + 1 \in 1 .. N /\ (c + 1) - 1 = c /\ c \in 0 .. N /\ run[c] \in Nat
    BY <1>1
  <2>2. run[c + 1] = IF d[c + 1] # d[c + 1 + shift] THEN 0 ELSE run[c] + 1
    BY <1>1, <2>1
  <2>3. d[c + 1] = d[c + 1 + shift] /\ run[c + 1] = run[c] + 1
    BY <2>2
  <2>4. CASE j = 0
    BY <2>3, <2>4
  <2>5. CASE j # 0
    <3>1. j - 1 \in 0 .. run[c] - 1 /\ c - (j - 1) = (c + 1) - j
      BY <2>1, <2>3, <2>5
    <3> QED BY <1>3, <2>1, <3>1
  <2> QED BY <2>4, <2>5
<1>4. \A c \in Nat : c \in T
  <2> HIDE DEF T
  <2> QED BY <1>2, <1>3, Induction
<1> QED BY <1>1, <1>4 DEF N, run

\* maxDp, as the final loop uses it.
IsMaxDp(maxDp, d, dep) ==
  /\ maxDp \in [0 .. Len(d) -> Nat]
  /\ \A p \in 1 .. Len(d) :
       LET s == maxDp[p] IN
       /\ s > 0 => s <= dep /\ p + s <= Len(d) /\ Repeats(d, s, p)
       /\ s = 0 /\ p < Len(d) /\ dep > 0 => d[p] # d[p + 1]

\* The shifts at which the sequence that ends at p comes again.
Hits(d, dep, p) ==
  {shift \in 1 .. dep :
     p > 0 /\ p + shift <= Len(d) /\ RunLength(d, shift)[p] >= shift}

\* The table has the greatest of these shifts, or 0.
LEMMA MaxDpFacts ==
  ASSUME NEW F, NEW d \in Seq(F), NEW dep \in Nat
  PROVE  /\ MaxDp(d, dep) \in [0 .. Len(d) -> Nat]
         /\ \A p \in 0 .. Len(d) :
              /\ Hits(d, dep, p) = {} => MaxDp(d, dep)[p] = 0
              /\ Hits(d, dep, p) # {} =>
                   /\ MaxDp(d, dep)[p] \in Hits(d, dep, p)
                   /\ \A s \in Hits(d, dep, p) : MaxDp(d, dep)[p] >= s
<1> DEFINE n == Len(d)
<1>0. n \in Nat
  OBVIOUS
<1>1. MaxDp(d, dep) = [p \in 0 .. n |-> IF Hits(d, dep, p) = {} THEN 0 ELSE Max(Hits(d, dep, p))]
  BY DEF MaxDp, Hits
<1>2. ASSUME NEW p \in 0 .. n
      PROVE  /\ Hits(d, dep, p) \subseteq 0 .. dep
             /\ MaxDp(d, dep)[p] = IF Hits(d, dep, p) = {} THEN 0 ELSE Max(Hits(d, dep, p))
  BY <1>1 DEF Hits
<1>3. ASSUME NEW p \in 0 .. n
      PROVE  /\ MaxDp(d, dep)[p] \in Nat
             /\ Hits(d, dep, p) = {} => MaxDp(d, dep)[p] = 0
             /\ Hits(d, dep, p) # {} =>
                   /\ MaxDp(d, dep)[p] \in Hits(d, dep, p)
                   /\ \A s \in Hits(d, dep, p) : MaxDp(d, dep)[p] >= s
  <2>1. CASE Hits(d, dep, p) = {}
    BY <1>2, <2>1
  <2>2. CASE Hits(d, dep, p) # {}
    <3>1. MaxDp(d, dep)[p] = Max(Hits(d, dep, p)) /\ Hits(d, dep, p) \subseteq 0 .. dep
      BY <1>2, <2>2
    <3>2. /\ Max(Hits(d, dep, p)) \in Hits(d, dep, p)
          /\ \A s \in Hits(d, dep, p) : Max(Hits(d, dep, p)) >= s
      BY <2>2, <3>1, GreatestElement
    <3> QED BY <2>2, <3>1, <3>2
  <2> QED BY <2>1, <2>2
<1>4. MaxDp(d, dep) \in [0 .. n -> Nat]
  BY <1>1, <1>3
<1> QED BY <1>3, <1>4

\* So it is a table of repetitions.
LEMMA MaxDpIs ==
  ASSUME NEW F, NEW d \in Seq(F), NEW dep \in Nat
  PROVE  IsMaxDp(MaxDp(d, dep), d, dep)
<1> DEFINE n == Len(d)
<1>0. n \in Nat
  OBVIOUS
<1> DEFINE m == MaxDp(d, dep)
<1>1. m \in [0 .. n -> Nat]
  BY MaxDpFacts
<1>2. ASSUME NEW p \in 1 .. n, m[p] > 0
      PROVE  m[p] <= dep /\ p + m[p] <= n /\ Repeats(d, m[p], p)
  <2>1. p \in 0 .. n
    OBVIOUS
  <2>2. m[p] \in Hits(d, dep, p)
    <3>1. \A c \in 0 .. n :
            /\ Hits(d, dep, c) = {} => m[c] = 0
            /\ Hits(d, dep, c) # {} => m[c] \in Hits(d, dep, c)
      BY MaxDpFacts
    <3> HIDE DEF m, n
    <3>2. m[p] # 0
      BY <1>2
    <3> QED BY <2>1, <3>1, <3>2, Zenon
  <2> DEFINE s == m[p]
  <2> HIDE DEF m
  <2>3. s \in 1 .. dep /\ p + s <= n /\ RunLength(d, s)[p] >= s
    BY <2>2 DEF Hits
  <2> HIDE DEF s
  <2>4. s \in 1 .. n /\ p \in 0 .. n - s
    BY <2>3
  <2>5. RunLength(d, s)[p] \in Nat
    BY <2>4, RunLengthFacts, ZenonT(30)
  <2>6. \A j \in 0 .. RunLength(d, s)[p] - 1 : p - j >= 1 /\ d[p - j] = d[p - j + s]
    BY <2>4, RunsMatch
  <2>7. Repeats(d, s, p)
    <3>1. ASSUME NEW j \in 0 .. s - 1
          PROVE  j \in 0 .. RunLength(d, s)[p] - 1
      BY <2>3, <2>4, <2>5
    <3>2. \A j \in 0 .. s - 1 : p - j >= 1 /\ d[p - j] = d[p - j + s]
      BY <2>6, <3>1, Zenon
    <3> QED BY <3>2, Zenon DEF Repeats
  <2> QED BY <2>3, <2>7 DEF s
<1>3. ASSUME NEW p \in 1 .. n, m[p] = 0, p < n, dep > 0, d[p] = d[p + 1]
      PROVE  FALSE
  <2>1. 1 \in 1 .. n /\ p \in 1 .. n - 1 /\ p - 1 \in 0 .. n - 1 /\ p \in 0 .. n
    BY <1>3
  <2>2. /\ RunLength(d, 1)[p] = RunLength(d, 1)[p - 1] + 1
        /\ RunLength(d, 1)[p - 1] \in Nat
    <3>1. /\ RunLength(d, 1) \in [0 .. n - 1 -> Nat]
          /\ \A c \in 1 .. n - 1 : RunLength(d, 1)[c] = IF d[c] # d[c + 1] THEN 0
                                                       ELSE RunLength(d, 1)[c - 1] + 1
      BY <2>1, RunLengthFacts
    <3> HIDE DEF n
    <3> QED BY <1>3, <2>1, <3>1
  <2>3. 1 \in Hits(d, dep, p)
    BY <1>3, <2>2 DEF Hits
  <2>4. m[p] \in Hits(d, dep, p)
    BY <2>1, <2>3, MaxDpFacts
  <2> QED BY <1>3, <2>4 DEF Hits
<1> QED BY <1>1, <1>2, <1>3 DEF IsMaxDp

\* What Cons returns.
IsCons(c, x, s) ==
  Len(c) = Len(s) + 1 /\ c[1] = x /\ \A i \in 1 .. Len(s) : c[i + 1] = s[i]

\* Cons puts an element before a sequence.
LEMMA ConsFacts ==
  ASSUME NEW A, NEW x \in A, NEW s \in Seq(A)
  PROVE  Cons(x, s) \in Seq(A) /\ IsCons(Cons(x, s), x, s)
BY DEF Cons, IsCons

\* The function of Squeeze.
KeptFrom(d, maxDp) ==
  CHOOSE f : f = [p \in 1 .. 2 * Len(d) |->
                    IF p >= Len(d) THEN <<>>
                    ELSE IF maxDp[p] = 0 THEN <<d[p + 1]>> \o f[p + 1]
                    ELSE f[p + maxDp[p]]]

\* Squeeze keeps the first frame and what KeptFrom keeps after it.
LEMMA SqueezeKept ==
  ASSUME NEW d, NEW maxDp
  PROVE  Squeeze(d, maxDp) = Cons(d[1], KeptFrom(d, maxDp)[1])
BY DEF Squeeze, KeptFrom, Cons

\* KeptFrom exists if no jump leaves the stack, and follows its equation.
LEMMA KeptFacts ==
  ASSUME NEW F, NEW d \in Seq(F), NEW maxDp \in [0 .. Len(d) -> Nat],
         \A p \in 1 .. Len(d) : maxDp[p] > 0 => p + maxDp[p] <= Len(d)
  PROVE  \A p \in 1 .. Len(d) :
           /\ KeptFrom(d, maxDp)[p] \in Seq(F)
           /\ p = Len(d) => KeptFrom(d, maxDp)[p] = <<>>
           /\ p < Len(d) /\ maxDp[p] = 0 =>
                KeptFrom(d, maxDp)[p] = Cons(d[p + 1], KeptFrom(d, maxDp)[p + 1])
           /\ p < Len(d) /\ maxDp[p] > 0 =>
                KeptFrom(d, maxDp)[p] = KeptFrom(d, maxDp)[p + maxDp[p]]
<1> DEFINE n == Len(d)
           D == 1 .. 2 * n
           rank == [p \in D |-> IF p >= n THEN 0 ELSE n - p]
           base == [p \in D |-> <<>>]
           next == [p \in D |-> IF p >= n THEN p ELSE IF maxDp[p] = 0 THEN p + 1 ELSE p + maxDp[p]]
           step == [p \in D |-> [s \in Seq(F) |-> IF p < n /\ maxDp[p] = 0 THEN Cons(d[p + 1], s) ELSE s]]
           Eqn(f) == f = [p \in D |-> IF p >= n THEN <<>>
                                      ELSE IF maxDp[p] = 0 THEN <<d[p + 1]>> \o f[p + 1]
                                      ELSE f[p + maxDp[p]]]
<1>1. n \in Nat /\ \A p \in 1 .. n : d[p] \in F
  OBVIOUS
<1>2. KeptFrom(d, maxDp) = CHOOSE f : Eqn(f)
  BY DEF KeptFrom
<1>3. ASSUME NEW p \in D, p < n
      PROVE  /\ p \in 1 .. n /\ p + 1 \in 1 .. n /\ maxDp[p] \in Nat
             /\ maxDp[p] > 0 => p + maxDp[p] \in 1 .. n
  <2>1. p \in 1 .. n
    BY <1>1, <1>3
  <2>2. maxDp[p] \in Nat
    BY <2>1
  <2> QED BY <1>1, <1>3, <2>1, <2>2
<1> HIDE DEF n
<1>4. next \in [D -> D]
  <2> SUFFICES ASSUME NEW p \in D PROVE next[p] \in D
    OBVIOUS
  <2>1. CASE p >= n
    BY <2>1
  <2>2. CASE p < n /\ maxDp[p] = 0
    BY <1>1, <1>3, <2>2
  <2>3. CASE p < n /\ maxDp[p] # 0
    BY <1>1, <1>3, <2>3
  <2> QED BY <1>1, <2>1, <2>2, <2>3
<1>5. rank \in [D -> 0 .. 2 * n] /\ base \in [D -> Seq(F)] /\ 2 * n \in Nat
  BY <1>1
<1>6. step \in [D -> [Seq(F) -> Seq(F)]]
  <2> SUFFICES ASSUME NEW p \in D, NEW s \in Seq(F), p < n, maxDp[p] = 0
               PROVE  Cons(d[p + 1], s) \in Seq(F)
    OBVIOUS
  <2>1. d[p + 1] \in F
    BY <1>1, <1>3
  <2> QED BY <2>1, ConsFacts
<1>7. ASSUME NEW p \in D, rank[p] > 0 PROVE rank[next[p]] < rank[p]
  <2>1. p < n /\ rank[p] = n - p
    BY <1>1, <1>7
  <2>2. next[p] \in D /\ next[p] > p
    <3>1. CASE maxDp[p] = 0
      BY <1>1, <1>4, <2>1, <3>1
    <3>2. CASE maxDp[p] # 0
      BY <1>1, <1>3, <1>4, <2>1, <3>2
    <3> QED BY <3>1, <3>2
  <2> HIDE DEF next
  <2> QED BY <1>1, <2>1, <2>2
<1>8. Recursion(D, Seq(F), 2 * n, rank, base, next, step)
  <2> HIDE DEF D, rank, base, next, step
  <2> QED BY <1>4, <1>5, <1>6, <1>7 DEF Recursion
<1>9. PICK f : Solves(f, D, Seq(F), rank, base, next, step)
  <2> HIDE DEF D, rank, base, next, step
  <2> QED BY <1>8, RecursiveFunction
<1>10. ASSUME NEW p \in D
       PROVE  f[p] = IF p >= n THEN <<>>
                     ELSE IF maxDp[p] = 0 THEN <<d[p + 1]>> \o f[p + 1]
                     ELSE f[p + maxDp[p]]
  <2>0. f[p] = IF rank[p] = 0 THEN base[p] ELSE step[p][f[next[p]]]
    BY <1>9, Zenon DEF Solves
  <2>00. f[next[p]] \in Seq(F)
    BY <1>4, <1>9 DEF Solves
  <2>1. CASE p >= n
    BY <2>0, <2>1
  <2>2. CASE p < n /\ maxDp[p] = 0
    <3>1. next[p] = p + 1 /\ rank[p] # 0
      BY <1>1, <2>2
    <3>2. step[p][f[p + 1]] = Cons(d[p + 1], f[p + 1])
      BY <2>2, <2>00, <3>1
    <3> HIDE DEF step, rank, next, base, D
    <3>3. f[p] = Cons(d[p + 1], f[p + 1])
      BY <2>0, <3>1, <3>2, Zenon
    <3>4. ~(p >= n)
      BY <1>1, <2>2
    <3> QED BY <2>2, <3>3, <3>4, Zenon DEF Cons
  <2>3. CASE p < n /\ maxDp[p] # 0
    <3>1. next[p] = p + maxDp[p] /\ rank[p] # 0
      BY <1>1, <2>3
    <3>2. step[p][f[p + maxDp[p]]] = f[p + maxDp[p]]
      BY <2>3, <2>00, <3>1
    <3> HIDE DEF step, rank, next, base, D
    <3> QED BY <1>1, <2>0, <2>3, <3>1, <3>2
  <2>4. p >= n \/ (p < n /\ maxDp[p] = 0) \/ (p < n /\ maxDp[p] # 0)
    BY <1>1
  <2> QED BY <2>1, <2>2, <2>3, <2>4
<1> DEFINE g == KeptFrom(d, maxDp)
<1>11. Eqn(g)
  <2>1. Eqn(f)
    <3>1. f = [p \in D |-> f[p]]
      BY <1>9, Zenon DEF Solves
    <3> HIDE DEF D
    <3> QED BY <1>10, <3>1
  <2> QED BY <1>2, <2>1
<1>12. ASSUME NEW p \in D
       PROVE  /\ p >= n => g[p] = <<>>
              /\ p < n /\ maxDp[p] = 0 => g[p] = Cons(d[p + 1], g[p + 1])
              /\ p < n /\ maxDp[p] # 0 => g[p] = g[p + maxDp[p]]
  <2> HIDE DEF g
  <2>1. g[p] = IF p >= n THEN <<>>
               ELSE IF maxDp[p] = 0 THEN <<d[p + 1]>> \o g[p + 1]
               ELSE g[p + maxDp[p]]
    <3> HIDE DEF D
    <3> QED BY <1>11
  <2> QED BY <1>1, <2>1 DEF Cons
<1> DEFINE T == {k \in Nat : \A p \in 1 .. n : n - p = k => g[p] \in Seq(F)}
<1>13. ASSUME NEW k \in Nat, \A j \in 0 .. k - 1 : j \in T PROVE k \in T
  <2> SUFFICES ASSUME NEW p \in 1 .. n, n - p = k PROVE g[p] \in Seq(F)
    OBVIOUS
  <2>0. p \in D
    BY <1>1
  <2>1. ASSUME NEW q \in 1 .. n, q > p PROVE g[q] \in Seq(F)
    <3>1. n - q \in 0 .. k - 1
      BY <1>1, <2>1
    <3>2. n - q \in T
      BY <1>13, <3>1
    <3> HIDE DEF g
    <3> QED BY <3>2
  <2> HIDE DEF g, T
  <2>2. CASE p >= n
    <3>1. g[p] = <<>>
      BY <1>12, <2>0, <2>2
    <3> QED BY <3>1
  <2>3. CASE p < n /\ maxDp[p] = 0
    <3>1. p + 1 \in 1 .. n /\ d[p + 1] \in F
      BY <1>1, <1>3, <2>0, <2>3
    <3>2. g[p + 1] \in Seq(F)
      BY <2>1, <3>1
    <3>3. g[p] = Cons(d[p + 1], g[p + 1])
      BY <1>12, <2>0, <2>3
    <3>4. Cons(d[p + 1], g[p + 1]) \in Seq(F)
      BY <3>1, <3>2, ConsFacts
    <3> QED BY <3>3, <3>4
  <2>4. CASE p < n /\ maxDp[p] # 0
    <3>1. p + maxDp[p] \in 1 .. n /\ p + maxDp[p] > p
      BY <1>3, <2>0, <2>4
    <3> QED BY <1>12, <2>0, <2>1, <2>4, <3>1
  <2> QED BY <1>1, <2>2, <2>3, <2>4
<1>14. \A k \in Nat : k \in T
  <2> HIDE DEF T
  <2> QED BY <1>13, StrongInduction
<1>15. \A p \in 1 .. n : g[p] \in Seq(F)
  <2> HIDE DEF g
  <2> SUFFICES ASSUME NEW p \in 1 .. n PROVE g[p] \in Seq(F)
    OBVIOUS
  <2>1. n - p \in Nat
    BY <1>1
  <2>2. n - p \in T
    BY <1>14, <2>1
  <2> QED BY <2>2
<1>16. \A p \in 1 .. n : p \in D /\ maxDp[p] \in Nat
  BY <1>1 DEF n
<1> HIDE DEF g, D, T
<1>17. ASSUME NEW p \in 1 .. n
       PROVE  /\ g[p] \in Seq(F)
              /\ p = n => g[p] = <<>>
              /\ p < n /\ maxDp[p] = 0 => g[p] = Cons(d[p + 1], g[p + 1])
              /\ p < n /\ maxDp[p] > 0 => g[p] = g[p + maxDp[p]]
  <2>1. p \in D /\ g[p] \in Seq(F) /\ maxDp[p] \in Nat
    BY <1>15, <1>16
  <2>2. /\ p >= n => g[p] = <<>>
        /\ p < n /\ maxDp[p] = 0 => g[p] = Cons(d[p + 1], g[p + 1])
        /\ p < n /\ maxDp[p] # 0 => g[p] = g[p + maxDp[p]]
    BY <1>12, <2>1
  <2> QED BY <1>1, <2>1, <2>2
<1> QED BY <1>17 DEF n, g

\* x called y on the stack d; with a collapse depth they are different.
Called(d, dep, x, y) ==
  \E j \in 1 .. Len(d) - 1 : x = d[j] /\ y = d[j + 1] /\ (dep > 0 => x # y)

\* s ends like the stack d, and its neighbours called each other.
Traced(s, d, dep) ==
  /\ Len(s) > 0 /\ s[Len(s)] = d[Len(d)]
  /\ \A i \in 1 .. Len(s) - 1 : Called(d, dep, s[i], s[i + 1])

\* s is the stack d without repetitions.
Collapsed(s, d, dep) ==
  /\ Traced(s, d, dep)
  /\ s[1] = d[1]
  /\ \A i \in DOMAIN d : \E j \in DOMAIN s : d[i] = s[j]

\* One more caller before a traced sequence.
LEMMA TracedCons ==
  ASSUME NEW F, NEW d \in Seq(F), NEW dep, NEW s \in Seq(F), NEW x \in F,
         Traced(s, d, dep), Called(d, dep, x, s[1])
  PROVE  Traced(Cons(x, s), d, dep)
<1> DEFINE c == Cons(x, s)
           n == Len(s)
<1>1. n \in Nat /\ n > 0 /\ s[n] = d[Len(d)]
      /\ \A i \in 1 .. n - 1 : Called(d, dep, s[i], s[i + 1])
  BY DEF Traced
<1>2. Len(c) = n + 1 /\ c[1] = x /\ \A i \in 1 .. n : c[i + 1] = s[i]
  <2>1. IsCons(c, x, s)
    BY ConsFacts
  <2> QED BY <2>1 DEF IsCons
<1> HIDE DEF c, n
<1>3. c[Len(c)] = d[Len(d)]
  BY <1>1, <1>2
<1>4. ASSUME NEW i \in 1 .. Len(c) - 1 PROVE Called(d, dep, c[i], c[i + 1])
  <2>1. CASE i = 1
    BY <1>1, <1>2, <2>1
  <2>2. CASE i # 1
    <3>1. i - 1 \in 1 .. n - 1 /\ i \in 1 .. n /\ (i - 1) + 1 = i /\ i - 1 \in 1 .. n
      BY <1>1, <1>2, <2>2
    <3>2. c[(i - 1) + 1] = s[i - 1] /\ c[i + 1] = s[i]
      BY <1>2, <3>1
    <3>3. Called(d, dep, s[i - 1], s[(i - 1) + 1])
      BY <1>1, <3>1
    <3> QED BY <3>1, <3>2, <3>3
  <2> QED BY <2>1, <2>2
<1>5. Len(c) > 0
  BY <1>1, <1>2
<1> QED BY <1>3, <1>4, <1>5 DEF Traced, c

\* The final loop.
LEMMA SqueezeCollapses ==
  ASSUME NEW F, NEW d \in Seq(F), Len(d) > 0, NEW dep \in Nat \ {0},
         NEW maxDp, IsMaxDp(maxDp, d, dep)
  PROVE  Squeeze(d, maxDp) \in Seq(F) /\ Collapsed(Squeeze(d, maxDp), d, dep)
<1> DEFINE n == Len(d)
           kept == KeptFrom(d, maxDp)
           G(p) == Cons(d[p], kept[p])
           InFront(x, p) == \E j \in 1 .. p : x = d[j]
           Behind(x, p) == \E j \in DOMAIN kept[p] : x = kept[p][j]
           Good(p) == /\ Traced(G(p), d, dep)
                      /\ \A i \in 1 .. n : InFront(d[i], p) \/ Behind(d[i], p)
<1>1. n \in Nat /\ n > 0 /\ \A p \in 1 .. n : d[p] \in F
  OBVIOUS
<1>2. /\ maxDp \in [0 .. n -> Nat]
      /\ \A p \in 1 .. n : maxDp[p] > 0 => p + maxDp[p] <= n /\ Repeats(d, maxDp[p], p)
      /\ \A p \in 1 .. n : maxDp[p] = 0 /\ p < n => d[p] # d[p + 1]
  BY DEF IsMaxDp
<1>3. \A p \in 1 .. n :
        /\ kept[p] \in Seq(F)
        /\ p = n => kept[p] = <<>>
        /\ p < n /\ maxDp[p] = 0 => kept[p] = Cons(d[p + 1], kept[p + 1])
        /\ p < n /\ maxDp[p] > 0 => kept[p] = kept[p + maxDp[p]]
  BY <1>2, KeptFacts, ZenonT(30)
<1> HIDE DEF n, kept
<1>4. ASSUME NEW p \in 1 .. n, \A q \in 1 .. n : q > p => Good(q) PROVE Good(p)
  <2>0. kept[p] \in Seq(F) /\ d[p] \in F /\ maxDp[p] \in Nat /\ p \in Nat
    BY <1>1, <1>2, <1>3
  <2>1. CASE p = n
    <3>1. kept[p] = <<>>
      BY <1>3, <2>1
    <3>2. G(p) = Cons(d[p], <<>>) /\ <<>> \in Seq(F)
      BY <3>1
    <3>3. Len(G(p)) = 1 /\ G(p)[1] = d[n]
      <4> HIDE DEF G
      <4>1. Len(<<>>) = 0
        OBVIOUS
      <4>2. IsCons(G(p), d[p], <<>>)
        BY <2>0, <3>2, ConsFacts
      <4> QED BY <2>1, <4>1, <4>2 DEF IsCons
    <3>4. Traced(G(p), d, dep)
      <4> HIDE DEF G
      <4> QED BY <3>3 DEF Traced, n
    <3>5. \A i \in 1 .. n : InFront(d[i], p)
      BY <2>1
    <3> QED BY <3>4, <3>5
  <2>2. CASE p < n /\ maxDp[p] = 0
    <3>1. p + 1 \in 1 .. n /\ p + 1 > p
      BY <1>1, <2>2
    <3>2. Good(p + 1)
      BY <1>4, <3>1
    <3>3. kept[p] = G(p + 1) /\ kept[p + 1] \in Seq(F) /\ d[p + 1] \in F
      BY <1>1, <1>3, <2>2, <3>1
    <3>0. DOMAIN kept[p] = 1 .. Len(kept[p]) /\ DOMAIN kept[p + 1] = 1 .. Len(kept[p + 1])
          /\ Len(kept[p + 1]) \in Nat
      BY <2>0, <3>3
    <3>4. /\ Len(kept[p]) = Len(kept[p + 1]) + 1 /\ kept[p][1] = d[p + 1]
          /\ \A i \in 1 .. Len(kept[p + 1]) : kept[p][i + 1] = kept[p + 1][i]
      <4>1. IsCons(kept[p], d[p + 1], kept[p + 1])
        BY <3>3, ConsFacts
      <4> QED BY <4>1 DEF IsCons
    <3>5. Called(d, dep, d[p], kept[p][1])
      <4>1. p \in 1 .. Len(d) - 1 /\ d[p] # d[p + 1]
        BY <1>1, <1>2, <2>2 DEF n
      <4> QED BY <3>4, <4>1 DEF Called
    <3>6. Traced(G(p), d, dep)
      <4>1. Traced(kept[p], d, dep)
        BY <3>2, <3>3
      <4> QED BY <2>0, <3>5, <4>1, TracedCons
    <3>7. ASSUME NEW i \in 1 .. n PROVE InFront(d[i], p) \/ Behind(d[i], p)
      <4>1. CASE InFront(d[i], p + 1)
        <5>1. PICK j \in 1 .. p + 1 : d[i] = d[j]
          BY <4>1
        <5>2. CASE j \in 1 .. p
          BY <5>1, <5>2
        <5>3. CASE j = p + 1
          <6>1. 1 \in DOMAIN kept[p] /\ d[i] = kept[p][1]
            BY <3>0, <3>4, <5>1, <5>3
          <6> QED BY <6>1
        <5> QED BY <2>0, <5>2, <5>3, SMTT(20)
      <4>2. CASE Behind(d[i], p + 1)
        <5>1. PICK j \in DOMAIN kept[p + 1] : d[i] = kept[p + 1][j]
          BY <4>2
        <5>2. j + 1 \in DOMAIN kept[p] /\ kept[p][j + 1] = kept[p + 1][j]
          <6>1. j \in 1 .. Len(kept[p + 1])
            BY <3>0
          <6>2. j + 1 \in 1 .. Len(kept[p])
            BY <3>0, <3>4, <6>1
          <6> QED BY <3>0, <3>4, <6>1, <6>2
        <5> QED BY <5>1, <5>2
      <4> QED BY <3>2, <4>1, <4>2
    <3> QED BY <3>6, <3>7
  <2>3. CASE p < n /\ maxDp[p] > 0
    <3> DEFINE s == maxDp[p]
               q == p + s
    <3>1. q \in 1 .. n /\ q > p /\ Repeats(d, s, p) /\ s \in Nat \ {0}
      BY <1>1, <1>2, <2>0, <2>3
    <3>2. Good(q)
      BY <1>4, <3>1
    <3>3. kept[p] = kept[q]
      BY <1>3, <2>3
    <3> HIDE DEF s
    <3>4. d[p] = d[q]
      <4>1. 0 \in 0 .. s - 1 /\ p - 0 = p
        BY <2>0, <3>1
      <4>2. d[p - 0] = d[p - 0 + s]
        BY <3>1, <4>1 DEF Repeats
      <4> QED BY <4>1, <4>2
    <3> HIDE DEF q
    <3>5. Traced(G(p), d, dep)
      BY <3>2, <3>3, <3>4
    <3>6. ASSUME NEW i \in 1 .. n PROVE InFront(d[i], p) \/ Behind(d[i], p)
      <4>1. CASE InFront(d[i], q)
        <5>1. PICK j \in 1 .. q : d[i] = d[j]
          BY <4>1
        <5>2. CASE j \in 1 .. p
          BY <5>1, <5>2
        <5>3. CASE j \notin 1 .. p
          <6>1. q - j \in 0 .. s - 1 /\ p - (q - j) = j - s /\ j - s + s = j
            BY <2>0, <3>1, <5>3 DEF q
          <6>2. p - (q - j) >= 1 /\ d[p - (q - j)] = d[p - (q - j) + s]
            BY <3>1, <6>1 DEF Repeats
          <6>3. j - s \in 1 .. p /\ d[j - s] = d[j]
            BY <2>0, <3>1, <6>1, <6>2 DEF q
          <6> QED BY <5>1, <6>3
        <5> QED BY <5>2, <5>3
      <4>2. CASE Behind(d[i], q)
        BY <3>3, <4>2
      <4> QED BY <3>2, <4>1, <4>2
    <3> QED BY <3>5, <3>6
  <2> QED BY <1>1, <2>0, <2>1, <2>2, <2>3
<1> DEFINE T == {k \in Nat : \A p \in 1 .. n : n - p = k => Good(p)}
<1>5. ASSUME NEW k \in Nat, \A j \in 0 .. k - 1 : j \in T PROVE k \in T
  <2> SUFFICES ASSUME NEW p \in 1 .. n, n - p = k PROVE Good(p)
    OBVIOUS
  <2> HIDE DEF Good
  <2>1. ASSUME NEW q \in 1 .. n, q > p PROVE Good(q)
    <3>1. n - q \in 0 .. k - 1
      BY <1>1, <2>1
    <3>2. n - q \in T
      BY <1>5, <3>1
    <3> QED BY <3>2
  <2> QED BY <1>4, <2>1
<1>6. \A k \in Nat : k \in T
  <2> HIDE DEF T
  <2> QED BY <1>5, StrongInduction
<1>7. Good(1)
  <2> HIDE DEF Good
  <2>1. n - 1 \in Nat /\ 1 \in 1 .. n
    BY <1>1
  <2>2. n - 1 \in T
    BY <1>6, <2>1
  <2> QED BY <2>1, <2>2
<1> DEFINE r == Squeeze(d, maxDp)
<1>8. r = Cons(d[1], kept[1]) /\ d[1] \in F /\ kept[1] \in Seq(F)
  BY <1>1, <1>3, SqueezeKept DEF kept
<1> HIDE DEF r
<1>9. /\ r \in Seq(F) /\ Len(r) = Len(kept[1]) + 1 /\ r[1] = d[1]
      /\ \A i \in 1 .. Len(kept[1]) : r[i + 1] = kept[1][i]
  <2>1. r \in Seq(F) /\ IsCons(r, d[1], kept[1])
    BY <1>8, ConsFacts
  <2> QED BY <2>1 DEF IsCons
<1>12. DOMAIN r = 1 .. Len(r) /\ DOMAIN kept[1] = 1 .. Len(kept[1]) /\ Len(kept[1]) \in Nat
  BY <1>8, <1>9
<1>10. ASSUME NEW i \in DOMAIN d PROVE \E j \in DOMAIN r : d[i] = r[j]
  <2>1. i \in 1 .. n
    BY DEF n
  <2>2. CASE InFront(d[i], 1)
    <3>1. d[i] = d[1]
      BY <2>2
    <3>2. 1 \in DOMAIN r
      BY <1>9, <1>12
    <3> QED BY <1>9, <3>1, <3>2
  <2>3. CASE Behind(d[i], 1)
    <3>1. PICK j \in DOMAIN kept[1] : d[i] = kept[1][j]
      BY <2>3
    <3>2. j + 1 \in DOMAIN r /\ r[j + 1] = kept[1][j]
      BY <1>9, <1>12
    <3> QED BY <3>1, <3>2
  <2> QED BY <1>7, <2>1, <2>2, <2>3
<1>11. Traced(r, d, dep)
  BY <1>7, <1>8
<1> QED BY <1>9, <1>10, <1>11 DEF Collapsed, r

\* The loop over the trailing null frames stops at a frame, or at the start.
LEMMA ResultSizeFacts ==
  ASSUME NEW F, NEW d \in Seq(F)
  PROVE  /\ ResultSize(d) \in 0 .. Len(d)
         /\ ResultSize(d) > 0 => d[ResultSize(d)] # NullFrame
<1> DEFINE N == Len(d)
           Shorter(k, s) == IF d[k] = NullFrame THEN s ELSE k
           step == [k \in 1 .. N |-> [s \in Nat |-> Shorter(k, s)]]
           Eqn(f) == f = [k \in 0 .. N |-> IF k > 0 /\ d[k] = NullFrame THEN f[k - 1] ELSE k]
           size == CHOOSE f : Eqn(f)
<1>1. N \in Nat
  OBVIOUS
<1>2. Loop(Nat, N, 0, step)
  BY <1>1 DEF Loop
<1>3. ResultSize(d) = size[N]
  BY DEF ResultSize
<1> HIDE DEF N, step
<1>4. PICK f : Loops(f, Nat, N, 0, step)
  BY <1>2, Iteration
<1>5. ASSUME NEW k \in 1 .. N PROVE f[k] = Shorter(k, f[k - 1])
  <2>1. k - 1 \in 0 .. N
    BY <1>1
  <2> QED BY <1>4, <2>1 DEF step, Loops
<1>6. Eqn(f)
  BY <1>1, <1>4, <1>5 DEF Loops
<1>7. Eqn(size)
  BY <1>6
<1> HIDE DEF size
<1>8. /\ size[0] = 0
      /\ \A k \in 1 .. N : size[k] = Shorter(k, size[k - 1])
  BY <1>1, <1>7
<1> DEFINE T == {k \in Nat : k <= N => /\ size[k] \in 0 .. k
                                       /\ size[k] > 0 => d[size[k]] # NullFrame}
<1>9. 0 \in T
  BY <1>8
<1>10. ASSUME NEW k \in Nat, k \in T PROVE k + 1 \in T
  <2> SUFFICES ASSUME k + 1 <= N
               PROVE  size[k + 1] \in 0 .. k + 1 /\ (size[k + 1] > 0 => d[size[k + 1]] # NullFrame)
    OBVIOUS
  <2>1. size[k + 1] = Shorter(k + 1, size[k])
    <3>1. k + 1 \in 1 .. N /\ (k + 1) - 1 = k
      BY <1>1
    <3> QED BY <1>8, <3>1
  <2>2. size[k] \in 0 .. k /\ (size[k] > 0 => d[size[k]] # NullFrame)
    BY <1>1, <1>10
  <2>3. CASE d[k + 1] = NullFrame
    BY <2>1, <2>2, <2>3
  <2>4. CASE d[k + 1] # NullFrame
    BY <2>1, <2>4
  <2> QED BY <2>3, <2>4
<1>11. \A k \in Nat : k \in T
  <2> HIDE DEF T
  <2> QED BY <1>9, <1>10, Induction
<1> QED BY <1>1, <1>3, <1>11 DEF N

\* The trace that is collapsed does not end with a null frame.
LEMMA GetTraceFacts ==
  ASSUME NEW F, NEW d \in Seq(F)
  PROVE  /\ GetTrace(d) \in Seq(F)
         /\ Len(GetTrace(d)) > 0 => GetTrace(d)[Len(GetTrace(d))] # NullFrame
<1> DEFINE r == ResultSize(d)
           s == SubSeq(d, SkipFrames + 1, r)
<1>1. r \in 0 .. Len(d) /\ (r > 0 => d[r] # NullFrame) /\ SkipFrames \in Nat /\ Len(d) \in Nat
  BY ResultSizeFacts, DepthAssumption
<1> HIDE DEF r
<1>2. CASE r < SkipFrames
  <2>1. GetTrace(d) = <<>>
    BY <1>2 DEF GetTrace, r
  <2> QED BY <2>1
<1>3. CASE r >= SkipFrames
  <2>1. GetTrace(d) = s
    <3>1. ~(r < SkipFrames)
      BY <1>1, <1>3
    <3> QED BY <3>1 DEF GetTrace, r
  <2>2. CASE r = SkipFrames
    <3>1. s = <<>>
      BY <1>1, <2>2
    <3>2. GetTrace(d) = <<>>
      BY <2>1, <3>1
    <3> QED BY <3>2
  <2>3. CASE r > SkipFrames
    <3>1. s \in Seq(F) /\ Len(s) = r - SkipFrames /\ \A i \in 1 .. r - SkipFrames : s[i] = d[i + SkipFrames]
      BY <1>1, <2>3
    <3> HIDE DEF s
    <3>2. s[Len(s)] = d[r]
      BY <1>1, <2>3, <3>1
    <3>3. s[Len(s)] # NullFrame
      BY <1>1, <2>3, <3>2
    <3> QED BY <2>1, <3>1, <3>3
  <2> QED BY <1>1, <1>3, <2>2, <2>3
<1> QED BY <1>1, <1>2, <1>3

\* The vector version, after i elements of one shift.
AvxDp(d, m, shift, i) ==
  [c \in 0 .. Len(d) |-> IF c <= i /\ RunLength(d, shift)[c] >= shift THEN shift ELSE m[c]]
AvxState(d, m, shift, i) ==
  [lastDp |-> RunLength(d, shift)[i], maxDp |-> AvxDp(d, m, shift, i)]

\* One lane of a stride does what one position of the plain loop does.
LEMMA AvxLaneStep ==
  ASSUME NEW F, NEW d \in Seq(F), NEW m \in [0 .. Len(d) -> Nat],
         NEW shift \in 1 .. Len(d), NEW i \in 1 .. Len(d) - shift
  PROVE  AvxLane(AvxState(d, m, shift, i - 1), shift, d[i] = d[i + shift], i - 1)
           = AvxState(d, m, shift, i)
<1> DEFINE n == Len(d)
           run == RunLength(d, shift)
           old == AvxDp(d, m, shift, i - 1)
           new == AvxDp(d, m, shift, i)
           st == AvxState(d, m, shift, i - 1)
<1>1. n \in Nat /\ shift \in 1 .. n /\ i \in 1 .. n - shift /\ i - 1 \in 0 .. n - shift
  OBVIOUS
<1>2. /\ run[i] = IF d[i] # d[i + shift] THEN 0 ELSE run[i - 1] + 1
      /\ run[i - 1] \in Nat
  <2>1. /\ run \in [0 .. n - shift -> Nat]
        /\ \A c \in 1 .. n - shift : run[c] = IF d[c] # d[c + shift] THEN 0 ELSE run[c - 1] + 1
    BY RunLengthFacts
  <2> HIDE DEF run, n
  <2> QED BY <1>1, <2>1
<1>3. st.lastDp = run[i - 1] /\ st.maxDp = old /\ st = [lastDp |-> run[i - 1], maxDp |-> old]
  BY DEF AvxState
<1>4. /\ old = [c \in 0 .. n |-> IF c <= i - 1 /\ run[c] >= shift THEN shift ELSE m[c]]
      /\ new = [c \in 0 .. n |-> IF c <= i /\ run[c] >= shift THEN shift ELSE m[c]]
  BY DEF AvxDp
<1>5. AvxState(d, m, shift, i) = [lastDp |-> run[i], maxDp |-> new]
  BY DEF AvxState
<1> HIDE DEF n, run, old, new, st
<1>6. (i - 1) + 1 = i /\ i \in 0 .. n
  BY <1>1
<1>7. CASE d[i] # d[i + shift]
  <2>1. run[i] = 0
    BY <1>2, <1>7
  <2>2. new = old
    BY <1>1, <1>4, <2>1
  <2>3. AvxLane(st, shift, d[i] = d[i + shift], i - 1) = [lastDp |-> 0, maxDp |-> old]
    BY <1>3, <1>7 DEF AvxLane
  <2> QED BY <1>5, <2>1, <2>2, <2>3 DEF st
<1>8. CASE d[i] = d[i + shift] /\ run[i] >= shift
  <2>1. run[i] = run[i - 1] + 1
    BY <1>2, <1>8
  <2>2. new = [old EXCEPT ![i] = shift]
    <3>1. \A c \in 0 .. n : c <= i <=> c <= i - 1 \/ c = i
      BY <1>1
    <3> QED BY <1>4, <1>6, <1>8, <3>1
  <2>3. AvxLane(st, shift, d[i] = d[i + shift], i - 1)
          = [lastDp |-> run[i], maxDp |-> [old EXCEPT ![i] = shift]]
    BY <1>3, <1>6, <1>8, <2>1 DEF AvxLane
  <2> QED BY <1>5, <2>2, <2>3 DEF st
<1>9. CASE d[i] = d[i + shift] /\ ~(run[i] >= shift)
  <2>1. run[i] = run[i - 1] + 1
    BY <1>2, <1>9
  <2>2. new = old
    <3>1. \A c \in 0 .. n : c <= i <=> c <= i - 1 \/ c = i
      BY <1>1
    <3> QED BY <1>4, <1>9, <3>1
  <2>3. AvxLane(st, shift, d[i] = d[i + shift], i - 1) = [lastDp |-> run[i], maxDp |-> old]
    BY <1>3, <1>9, <2>1 DEF AvxLane
  <2> QED BY <1>5, <2>2, <2>3 DEF st
<1> QED BY <1>7, <1>8, <1>9

\* A stride does what Stride positions do.
LEMMA AvxStrideStep ==
  ASSUME NEW F, NEW d \in Seq(F), NEW m \in [0 .. Len(d) -> Nat],
         NEW shift \in 1 .. Len(d), NEW i \in Nat, i + Stride <= Len(d) - shift
  PROVE  AvxStride(d, AvxState(d, m, shift, i), shift, i) = AvxState(d, m, shift, i + Stride)
<1> DEFINE st == AvxState(d, m, shift, i)
           mask == [j \in 0 .. Stride - 1 |-> d[i + j + 1] = d[i + j + shift + 1]]
           Lane(s, j) == AvxLane(s, shift, mask[j - 1], i + j - 1)
           Eqn(f) == f = [j \in 0 .. Stride |-> IF j = 0 THEN st ELSE Lane(f[j - 1], j)]
           lanes == CHOOSE f : Eqn(f)
           g == [j \in 0 .. Stride |-> AvxState(d, m, shift, i + j)]
<1>1. AvxStride(d, st, shift, i) = lanes[Stride]
  BY DEF AvxStride
<1>2. Stride \in Nat \ {0} /\ Len(d) \in Nat /\ shift \in Nat
  BY StrideAssumption
<1>3. ASSUME NEW j \in 1 .. Stride
      PROVE  Lane(AvxState(d, m, shift, i + (j - 1)), j) = AvxState(d, m, shift, i + j)
  <2>1. /\ j - 1 \in 0 .. Stride - 1 /\ i + j \in 1 .. Len(d) - shift
        /\ i + (j - 1) = (i + j) - 1 /\ i + j - 1 = (i + j) - 1
        /\ i + (j - 1) + 1 = i + j /\ i + (j - 1) + shift + 1 = (i + j) + shift
    BY <1>2
  <2>2. mask[j - 1] = (d[i + j] = d[(i + j) + shift])
    BY <2>1
  <2>3. AvxLane(AvxState(d, m, shift, (i + j) - 1), shift, d[i + j] = d[(i + j) + shift], (i + j) - 1)
          = AvxState(d, m, shift, i + j)
    BY <2>1, AvxLaneStep
  <2> HIDE DEF mask
  <2> QED BY <2>1, <2>2, <2>3
<1> HIDE DEF mask
<1>4. g[0] = st /\ \A j \in 1 .. Stride : g[j] = Lane(g[j - 1], j)
  <2> HIDE DEF Lane
  <2>1. g[0] = st
    BY <1>2
  <2>2. ASSUME NEW j \in 1 .. Stride PROVE g[j] = Lane(g[j - 1], j)
    <3>1. j - 1 \in 0 .. Stride /\ j \in 0 .. Stride
      BY <1>2
    <3> QED BY <1>3, <3>1
  <2> QED BY <2>1, <2>2
<1>5. Eqn(g)
  <2>1. g = [j \in 0 .. Stride |-> g[j]]
    OBVIOUS
  <2> HIDE DEF g, Lane
  <2>2. \A j \in 0 .. Stride : j # 0 => j \in 1 .. Stride
    BY <1>2
  <2> QED BY <1>4, <2>1, <2>2
<1>6. Eqn(lanes)
  <2> HIDE DEF g
  <2> QED BY <1>5
<1> HIDE DEF lanes, g, Lane
<1>7. lanes[0] = st /\ \A j \in 1 .. Stride : lanes[j] = Lane(lanes[j - 1], j)
  BY <1>2, <1>6
<1>8. lanes[Stride] = g[Stride]
  <2>1. lanes[0] = g[0] /\ Stride \in Nat
    BY <1>2, <1>4, <1>7
  <2>2. \A j \in 1 .. Stride : lanes[j - 1] = g[j - 1] => lanes[j] = g[j]
    BY <1>4, <1>7
  <2> QED BY <2>1, <2>2, SameLoop
<1>9. g[Stride] = AvxState(d, m, shift, i + Stride)
  BY <1>2 DEF g
<1> QED BY <1>1, <1>8, <1>9

\* A position where a stride ends is at least a stride from the start.
LEMMA FullStride ==
  ASSUME NEW i \in Nat \ {0}, i % Stride = 0
  PROVE  i >= Stride
<1>1. Stride \in Nat \ {0}
  BY StrideAssumption
<1> SUFFICES ASSUME i < Stride PROVE FALSE
  BY <1>1
<1>2. i % Stride = i
  BY <1>1
<1> QED BY <1>2

\* Strides and the rest of a shift do what its positions do.
LEMMA AvxShiftDp ==
  ASSUME NEW F, NEW d \in Seq(F), NEW m \in [0 .. Len(d) -> Nat], NEW shift \in 1 .. Len(d)
  PROVE  AvxShift(d, m, shift) = AvxDp(d, m, shift, Len(d) - shift)
<1> DEFINE N == Len(d) - shift
           S(i) == AvxState(d, m, shift, i)
           init == [lastDp |-> 0, maxDp |-> m]
           Eqn(f) == f = [i \in 0 .. N |->
                            IF i = 0 THEN init
                            ELSE IF i % Stride = 0 THEN AvxStride(d, f[i - Stride], shift, i - Stride)
                            ELSE AvxLane(f[i - 1], shift, d[i] = d[i + shift], i - 1)]
           at == CHOOSE f : Eqn(f)
           g == [i \in 0 .. N |-> S(i)]
<1>1. N \in Nat /\ Stride \in Nat \ {0}
  BY StrideAssumption
<1>2. AvxShift(d, m, shift) = at[N].maxDp
  BY DEF AvxShift
<1>3. S(0) = init
  <2>1. RunLength(d, shift)[0] = 0
    BY RunLengthFacts
  <2>2. AvxDp(d, m, shift, 0) = m
    <3>1. ASSUME NEW c \in 0 .. Len(d), c <= 0 PROVE ~(RunLength(d, shift)[c] >= shift)
      BY <2>1, <3>1
    <3> QED BY <3>1 DEF AvxDp
  <2> QED BY <2>1, <2>2 DEF AvxState
<1>4. ASSUME NEW i \in 1 .. N, i % Stride = 0
      PROVE  i - Stride \in 0 .. N /\ i - Stride < i /\ AvxStride(d, S(i - Stride), shift, i - Stride) = S(i)
  <2>1. i >= Stride
    BY <1>4, FullStride
  <2>2. i - Stride \in Nat /\ (i - Stride) + Stride = i /\ (i - Stride) + Stride <= Len(d) - shift
        /\ i - Stride \in 0 .. N /\ i - Stride < i
    BY <1>1, <2>1
  <2>3. AvxStride(d, S(i - Stride), shift, i - Stride) = S((i - Stride) + Stride)
    BY <2>2, AvxStrideStep
  <2> QED BY <2>2, <2>3
<1>5. ASSUME NEW i \in 1 .. N
      PROVE  i - 1 \in 0 .. N /\ AvxLane(S(i - 1), shift, d[i] = d[i + shift], i - 1) = S(i)
  BY AvxLaneStep
<1> HIDE DEF S, N
<1>6. Eqn(g)
  <2> SUFFICES ASSUME NEW i \in 0 .. N
               PROVE  g[i] = IF i = 0 THEN init
                             ELSE IF i % Stride = 0 THEN AvxStride(d, g[i - Stride], shift, i - Stride)
                             ELSE AvxLane(g[i - 1], shift, d[i] = d[i + shift], i - 1)
    OBVIOUS
  <2>1. CASE i = 0
    BY <1>3, <2>1
  <2>2. CASE i # 0 /\ i % Stride = 0
    BY <1>1, <1>4, <2>2
  <2>3. CASE i # 0 /\ i % Stride # 0
    <3>1. i \in 1 .. N
      BY <1>1, <2>3
    <3>2. g[i - 1] = S(i - 1) /\ g[i] = S(i)
      BY <1>5, <3>1
    <3> HIDE DEF g
    <3> QED BY <1>5, <2>3, <3>1, <3>2
  <2> QED BY <2>1, <2>2, <2>3
<1>7. Eqn(at)
  <2> HIDE DEF g
  <2> QED BY <1>6
<1> HIDE DEF at, g
<1> DEFINE T == {i \in Nat : i <= N => at[i] = S(i)}
<1>8. ASSUME NEW i \in Nat, \A j \in 0 .. i - 1 : j \in T PROVE i \in T
  <2> SUFFICES ASSUME i <= N PROVE at[i] = S(i)
    OBVIOUS
  <2>0. at[i] = IF i = 0 THEN init
                ELSE IF i % Stride = 0 THEN AvxStride(d, at[i - Stride], shift, i - Stride)
                ELSE AvxLane(at[i - 1], shift, d[i] = d[i + shift], i - 1)
    <3>1. i \in 0 .. N
      BY <1>1
    <3> QED BY <1>7, <3>1
  <2>1. CASE i = 0
    BY <1>3, <2>0, <2>1
  <2>2. CASE i # 0 /\ i % Stride = 0
    <3>1. i \in 1 .. N
      BY <1>1, <2>2
    <3>2. i - Stride \in 0 .. N /\ i - Stride < i /\ AvxStride(d, S(i - Stride), shift, i - Stride) = S(i)
      BY <1>4, <2>2, <3>1
    <3>3. at[i - Stride] = S(i - Stride)
      <4>1. i - Stride \in 0 .. i - 1 /\ i - Stride <= N
        BY <1>1, <3>2
      <4>2. i - Stride \in T
        BY <1>8, <4>1
      <4> QED BY <4>1, <4>2
    <3> QED BY <2>0, <2>2, <3>2, <3>3
  <2>3. CASE i # 0 /\ i % Stride # 0
    <3>1. i \in 1 .. N
      BY <1>1, <2>3
    <3>2. AvxLane(S(i - 1), shift, d[i] = d[i + shift], i - 1) = S(i)
      BY <1>5, <3>1
    <3>3. at[i - 1] = S(i - 1)
      <4>1. i - 1 \in 0 .. i - 1 /\ i - 1 <= N
        BY <1>1, <3>1
      <4>2. i - 1 \in T
        BY <1>8, <4>1
      <4> QED BY <4>1, <4>2
    <3> QED BY <2>0, <2>3, <3>2, <3>3
  <2> QED BY <2>1, <2>2, <2>3
<1>9. \A i \in Nat : i \in T
  <2> HIDE DEF T
  <2> QED BY <1>8, StrongInduction
<1>10. at[N] = S(N)
  BY <1>1, <1>9
<1>11. S(N).maxDp = AvxDp(d, m, shift, N)
  BY DEF S, AvxState
<1> QED BY <1>2, <1>10, <1>11 DEF N

\* One more shift.
LEMMA MaxDpNext ==
  ASSUME NEW F, NEW d \in Seq(F), NEW shift \in 1 .. Len(d) - 1
  PROVE  AvxDp(d, MaxDp(d, shift - 1), shift, Len(d) - shift) = MaxDp(d, shift)
<1> DEFINE n == Len(d)
           old == MaxDp(d, shift - 1)
           new == MaxDp(d, shift)
           H(c) == Hits(d, shift, c)
           G(c) == Hits(d, shift - 1, c)
           run == RunLength(d, shift)
<1>1. n \in Nat /\ shift \in 1 .. n - 1 /\ shift - 1 \in Nat /\ shift \in Nat
  OBVIOUS
<1>2. /\ new \in [0 .. n -> Nat]
      /\ \A c \in 0 .. n : /\ H(c) = {} => new[c] = 0
                           /\ H(c) # {} => new[c] \in H(c) /\ \A s \in H(c) : new[c] >= s
  BY <1>1, MaxDpFacts
<1>3. /\ old \in [0 .. n -> Nat]
      /\ \A c \in 0 .. n : /\ G(c) = {} => old[c] = 0
                           /\ G(c) # {} => old[c] \in G(c) /\ \A s \in G(c) : old[c] >= s
  BY <1>1, MaxDpFacts
<1>4. run[0] = 0
  BY <1>1, RunLengthFacts
<1>5. ASSUME NEW c \in 0 .. n
      PROVE  /\ G(c) \subseteq 1 .. shift - 1
             /\ c <= n - shift /\ run[c] >= shift => H(c) = G(c) \cup {shift}
             /\ ~(c <= n - shift /\ run[c] >= shift) => H(c) = G(c)
  <2>1. G(c) \subseteq 1 .. shift - 1
    BY DEF Hits
  <2>2. \A s : s \in 1 .. shift <=> s \in 1 .. shift - 1 \/ s = shift
    BY <1>1
  <2>3. shift \in H(c) <=> c <= n - shift /\ run[c] >= shift
    <3>1. shift \in 1 .. shift
      BY <1>1
    <3>2. c > 0 <=> c # 0
      OBVIOUS
    <3>3. c = 0 => ~(run[c] >= shift)
      BY <1>1, <1>4
    <3>4. c + shift <= n <=> c <= n - shift
      BY <1>1
    <3> QED BY <3>1, <3>2, <3>3, <3>4 DEF Hits
  <2>4. \A s \in 1 .. shift - 1 : s \in H(c) <=> s \in G(c)
    BY <2>2 DEF Hits
  <2>5. H(c) \subseteq 1 .. shift
    BY DEF Hits
  <2> HIDE DEF H, G, run, n
  <2> QED BY <2>1, <2>2, <2>3, <2>4, <2>5
<1> HIDE DEF old, new, run, n, H, G
<1>6. ASSUME NEW c \in 0 .. n
      PROVE  new[c] = IF c <= n - shift /\ run[c] >= shift THEN shift ELSE old[c]
  <2>1. CASE c <= n - shift /\ run[c] >= shift
    <3>1. new[c] \in G(c) \cup {shift} /\ new[c] >= shift
      BY <1>2, <1>5, <2>1
    <3>2. new[c] \notin G(c)
      BY <1>1, <1>5, <3>1
    <3> QED BY <2>1, <3>1, <3>2
  <2>2. CASE ~(c <= n - shift /\ run[c] >= shift)
    <3>1. H(c) = G(c)
      BY <1>5, <2>2
    <3>2. CASE G(c) = {}
      BY <1>2, <1>3, <2>2, <3>1, <3>2
    <3>3. CASE G(c) # {}
      <4>1. new[c] \in G(c) /\ old[c] \in G(c) /\ new[c] >= old[c] /\ old[c] >= new[c]
        BY <1>2, <1>3, <3>1, <3>3
      <4>2. new[c] \in Nat /\ old[c] \in Nat
        BY <1>2, <1>3
      <4> QED BY <2>2, <4>1, <4>2
    <3> QED BY <3>2, <3>3
  <2> QED BY <2>1, <2>2
<1>7. AvxDp(d, old, shift, n - shift)
        = [c \in 0 .. n |-> IF c <= n - shift /\ run[c] >= shift THEN shift ELSE old[c]]
  BY DEF AvxDp, n, run
<1>8. new = [c \in 0 .. n |-> new[c]]
  BY <1>2
<1>9. AvxDp(d, old, shift, n - shift) = new
  BY <1>6, <1>7, <1>8
<1> QED BY <1>9 DEF n, old, new

\* Shifts that reach the size match nothing.
LEMMA MaxDpEnds ==
  ASSUME NEW F, NEW d \in Seq(F), NEW dep \in Nat, dep >= Len(d) - 1, Len(d) >= 1
  PROVE  MaxDp(d, dep) = MaxDp(d, Len(d) - 1)
<1> DEFINE n == Len(d)
<1>1. n \in Nat /\ n >= 1 /\ n - 1 \in Nat /\ dep >= n - 1
  OBVIOUS
<1>2. ASSUME NEW c \in 0 .. n PROVE Hits(d, dep, c) = Hits(d, n - 1, c)
  <2>1. ASSUME NEW s \in 1 .. dep, c > 0, c + s <= n PROVE s \in 1 .. n - 1
    BY <1>1, <2>1
  <2>2. ASSUME NEW s \in 1 .. n - 1 PROVE s \in 1 .. dep
    BY <1>1
  <2> HIDE DEF n
  <2> QED BY <2>1, <2>2 DEF Hits, n
<1>3. ASSUME NEW k \in Nat
      PROVE  MaxDp(d, k) = [c \in 0 .. n |-> IF Hits(d, k, c) = {} THEN 0 ELSE Max(Hits(d, k, c))]
  BY DEF MaxDp, Hits
<1> HIDE DEF n
<1>4. MaxDp(d, dep) = MaxDp(d, n - 1)
  BY <1>1, <1>2, <1>3
<1> QED BY <1>4 DEF n

\* The vector version computes what the scalar one computes.
LEMMA AvxIsOpt ==
  ASSUME NEW F, NEW d \in Seq(F), NEW dep \in Nat
  PROVE  CollapseRecursionAvx(d, dep) = CollapseRecursionOpt(d, dep)
<1>1. CASE dep = 0 \/ Len(d) < 2
  BY <1>1 DEF CollapseRecursionAvx, CollapseRecursionOpt
<1>2. CASE dep # 0 /\ Len(d) >= 2
  <2> DEFINE n == Len(d)
             last == Min({dep, Len(d) - 1})
             zero == [c \in 0 .. Len(d) |-> 0]
             Eqn(f) == f = [shift \in 0 .. last |->
                              IF shift = 0 THEN zero
                              ELSE AvxShift(d, f[shift - 1], shift)]
             dps == CHOOSE f : Eqn(f)
             g == [shift \in 0 .. last |-> MaxDp(d, shift)]
  <2>0. n \in Nat /\ n >= 2 /\ ~(dep = 0 \/ n < 2)
    BY <1>2
  <2>1. CollapseRecursionAvx(d, dep) = Squeeze(d, dps[last])
    BY <2>0 DEF CollapseRecursionAvx
  <2>2. last \in Nat /\ last <= n - 1 /\ (last = dep \/ (last = n - 1 /\ dep >= n - 1))
    <3>1. dep \in Nat /\ n - 1 \in Nat
      BY <2>0
    <3> HIDE DEF n
    <3>2. ASSUME NEW a \in Nat, NEW b \in Nat
          PROVE  /\ Min({a, b}) \in Nat /\ Min({a, b}) <= b
                 /\ Min({a, b}) = a \/ (Min({a, b}) = b /\ a >= b)
      <4>1. \E x \in {a, b} : \A y \in {a, b} : x <= y
        BY <3>2
      <4>2. Min({a, b}) \in {a, b} /\ \A y \in {a, b} : Min({a, b}) <= y
        BY <4>1 DEF Min
      <4> QED BY <3>2, <4>2
    <3> QED BY <3>1, <3>2 DEF n
  <2> HIDE DEF last
  <2>3. MaxDp(d, 0) = zero
    <3>1. \A c \in 0 .. n : Hits(d, 0, c) = {}
      BY DEF Hits
    <3>2. MaxDp(d, 0) \in [0 .. n -> Nat] /\ \A c \in 0 .. n : MaxDp(d, 0)[c] = 0
      BY <3>1, MaxDpFacts
    <3> QED BY <3>2
  <2>4. ASSUME NEW shift \in 1 .. last
        PROVE  AvxShift(d, MaxDp(d, shift - 1), shift) = MaxDp(d, shift)
    <3>1. shift \in 1 .. n - 1 /\ shift \in 1 .. Len(d) /\ shift - 1 \in Nat
      BY <2>0, <2>2
    <3>2. MaxDp(d, shift - 1) \in [0 .. Len(d) -> Nat]
      BY <3>1, MaxDpFacts
    <3> QED BY <3>1, <3>2, AvxShiftDp, MaxDpNext
  <2> HIDE DEF n, zero
  <2>5. /\ g[0] = zero
        /\ \A shift \in 1 .. last : g[shift] = AvxShift(d, g[shift - 1], shift)
    <3>1. g[0] = zero
      BY <2>2, <2>3
    <3>2. ASSUME NEW shift \in 1 .. last PROVE g[shift] = AvxShift(d, g[shift - 1], shift)
      <4>1. shift \in 0 .. last /\ shift - 1 \in 0 .. last
        BY <2>2
      <4> QED BY <2>4, <4>1
    <3> QED BY <3>1, <3>2
  <2>6. Eqn(g)
    <3>1. g = [shift \in 0 .. last |-> g[shift]]
      OBVIOUS
    <3>2. \A shift \in 0 .. last : shift # 0 => shift \in 1 .. last
      BY <2>2
    <3> HIDE DEF g
    <3> QED BY <2>5, <3>1, <3>2
  <2>7. Eqn(dps)
    <3> HIDE DEF g
    <3> QED BY <2>6
  <2> HIDE DEF dps, g
  <2>8. /\ dps[0] = zero
        /\ \A shift \in 1 .. last : dps[shift] = AvxShift(d, dps[shift - 1], shift)
    BY <2>2, <2>7
  <2>9. dps[last] = g[last]
    <3>1. dps[0] = g[0]
      BY <2>5, <2>8
    <3>2. \A shift \in 1 .. last : dps[shift - 1] = g[shift - 1] => dps[shift] = g[shift]
      BY <2>5, <2>8
    <3> QED BY <2>2, <3>1, <3>2, SameLoop
  <2>10. g[last] = MaxDp(d, dep)
    <3>1. g[last] = MaxDp(d, last)
      BY <2>2 DEF g
    <3>2. CASE last = dep
      BY <3>1, <3>2
    <3>3. CASE last = n - 1 /\ dep >= n - 1
      <4>1. MaxDp(d, dep) = MaxDp(d, Len(d) - 1)
        BY <2>0, <3>3, MaxDpEnds DEF n
      <4> QED BY <3>1, <3>3, <4>1 DEF n
    <3> QED BY <2>2, <3>2, <3>3
  <2>11. CollapseRecursionOpt(d, dep) = Squeeze(d, MaxDp(d, dep))
    BY <2>0 DEF CollapseRecursionOpt, n
  <2> QED BY <2>1, <2>9, <2>10, <2>11
<1>3. Len(d) \in Nat
  OBVIOUS
<1> QED BY <1>1, <1>2, <1>3

\* The loop of the naive version: what it has kept stands for the frames in
\* front of its cursor.
NaiveInv(d, dep, out, c) ==
  /\ c \in 2 .. Len(d) + 1
  /\ Len(out) > 0 /\ out[1] = d[1] /\ out[Len(out)] = d[c - 1]
  /\ \A i \in 1 .. c - 1 : \E j \in DOMAIN out : d[i] = out[j]
  /\ \A i \in 1 .. Len(out) - 1 : Called(d, 0, out[i], out[i + 1])
  /\ dep = 0 => Len(out) = c - 1 /\ \A j \in 1 .. c - 1 : out[j] = d[j]
  /\ dep = 1 => out \o KeptFrom(d, MaxDp(d, 1))[c - 1] = Squeeze(d, MaxDp(d, 1))

\* With depth 1 only frames that repeat at once are dropped.
LEMMA KeptAtOne ==
  ASSUME NEW F, NEW d \in Seq(F), Len(d) > 0
  PROVE  LET kept == KeptFrom(d, MaxDp(d, 1)) IN
         /\ \A p \in 1 .. Len(d) : kept[p] \in Seq(F)
         /\ kept[Len(d)] = <<>>
         /\ \A p \in 1 .. Len(d) - 1 :
              /\ d[p] = d[p + 1] => kept[p] = kept[p + 1]
              /\ d[p] # d[p + 1] => kept[p] = Cons(d[p + 1], kept[p + 1])
<1> DEFINE n == Len(d)
           m == MaxDp(d, 1)
           kept == KeptFrom(d, m)
<1>1. n \in Nat /\ n > 0
  OBVIOUS
<1>2. IsMaxDp(m, d, 1)
  BY MaxDpIs
<1> HIDE DEF m
<1>3. m \in [0 .. n -> Nat]
      /\ \A p \in 1 .. n : /\ m[p] > 0 => m[p] <= 1 /\ p + m[p] <= n /\ Repeats(d, m[p], p)
                           /\ m[p] = 0 /\ p < n => d[p] # d[p + 1]
  BY <1>2 DEF IsMaxDp
<1>4. \A p \in 1 .. n :
        /\ kept[p] \in Seq(F)
        /\ p = n => kept[p] = <<>>
        /\ p < n /\ m[p] = 0 => kept[p] = Cons(d[p + 1], kept[p + 1])
        /\ p < n /\ m[p] > 0 => kept[p] = kept[p + m[p]]
  BY <1>3, KeptFacts, ZenonT(30)
<1> HIDE DEF kept, n
<1>5. ASSUME NEW p \in 1 .. n - 1
      PROVE  /\ d[p] = d[p + 1] => kept[p] = kept[p + 1]
             /\ d[p] # d[p + 1] => kept[p] = Cons(d[p + 1], kept[p + 1])
  <2>1. p \in 1 .. n /\ p < n /\ m[p] \in Nat /\ p \in Nat
    BY <1>1, <1>3
  <2>2. CASE m[p] = 0
    BY <1>3, <1>4, <2>1, <2>2
  <2>3. CASE m[p] > 0
    <3>1. m[p] = 1 /\ Repeats(d, 1, p)
      <4>1. m[p] = 1
        BY <1>3, <2>1, <2>3
      <4>2. Repeats(d, m[p], p)
        BY <1>3, <2>1, <2>3
      <4> QED BY <4>1, <4>2
    <3>2. d[p] = d[p + 1]
      <4>1. 0 \in 0 .. 1 - 1 /\ p - 0 = p
        BY <2>1
      <4>2. d[p - 0] = d[p - 0 + 1]
        BY <3>1, <4>1 DEF Repeats
      <4> QED BY <4>1, <4>2
    <3> QED BY <1>4, <2>1, <2>3, <3>1, <3>2
  <2> QED BY <2>1, <2>2, <2>3
<1>6. n \in 1 .. n
  BY <1>1
<1> QED BY <1>4, <1>5, <1>6 DEF n, kept, m

\* An element moves over the seam of two sequences.
LEMMA ConcatCons ==
  ASSUME NEW A, NEW s \in Seq(A), NEW t \in Seq(A), NEW x \in A
  PROVE  s \o Cons(x, t) = Append(s, x) \o t
<1> DEFINE l == s \o Cons(x, t)
           r == Append(s, x) \o t
<1>1. l \in Seq(A) /\ r \in Seq(A) /\ Len(l) = Len(r)
  BY DEF Cons
<1>2. \A i \in 1 .. Len(l) : l[i] = r[i]
  BY DEF Cons
<1> HIDE DEF l, r
<1>3. l = r
  BY <1>1, <1>2, SeqEqual
<1> QED BY <1>3 DEF l, r

\* A state that follows one with the cursor c.
NaiveNext(F, d, dep, c, new) ==
  \E o \in Seq(F), k \in Nat :
    /\ new = [out |-> o, cur |-> k]
    /\ NaiveInv(d, dep, o, k)
    /\ c <= Len(d) => k > c
    /\ c > Len(d) => k = c

\* One iteration of the naive version keeps its invariant and gets on.
LEMMA NaiveStepInv ==
  ASSUME NEW F, NEW d \in Seq(F), NEW dep \in Nat, NEW out \in Seq(F), NEW c,
         NaiveInv(d, dep, out, c)
  PROVE  NaiveNext(F, d, dep, c, NaiveStep(d, dep, [out |-> out, cur |-> c]))
<1> DEFINE n == Len(d)
           l == Len(out)
           st == [out |-> out, cur |-> c]
           new == NaiveStep(d, dep, st)
           match == {s \in 1 .. dep :
                       /\ c + s - 1 <= n /\ s <= l
                       /\ \A p \in 0 .. s - 1 : d[c + p] = out[l - s + 1 + p]}
           kept == KeptFrom(d, MaxDp(d, 1))
           all == Squeeze(d, MaxDp(d, 1))
<1>1. n \in Nat /\ l \in Nat /\ c \in 2 .. n + 1 /\ c \in Nat /\ l > 0 /\ n > 0
      /\ DOMAIN out = 1 .. l
  BY DEF NaiveInv
<1>2. /\ out[1] = d[1] /\ out[l] = d[c - 1]
      /\ \A i \in 1 .. c - 1 : \E j \in 1 .. l : d[i] = out[j]
      /\ \A i \in 1 .. l - 1 : Called(d, 0, out[i], out[i + 1])
      /\ dep = 0 => l = c - 1 /\ \A j \in 1 .. c - 1 : out[j] = d[j]
  BY <1>1 DEF NaiveInv
<1>3. dep = 1 => out \o kept[c - 1] = all
  BY DEF NaiveInv
<1>4. /\ \A p \in 1 .. n : kept[p] \in Seq(F)
      /\ \A p \in 1 .. n - 1 : /\ d[p] = d[p + 1] => kept[p] = kept[p + 1]
                               /\ d[p] # d[p + 1] => kept[p] = Cons(d[p + 1], kept[p + 1])
  BY <1>1, KeptAtOne
<1>5. new = IF c > n THEN st
            ELSE IF match = {} THEN [out |-> Append(out, d[c]), cur |-> c + 1]
            ELSE [out |-> out, cur |-> c + Min(match)]
  BY DEF NaiveStep
<1> HIDE DEF new, kept, all
<1> SUFFICES \E o \in Seq(F), k \in Nat :
               /\ new = [out |-> o, cur |-> k]
               /\ NaiveInv(d, dep, o, k)
               /\ c <= n => k > c
               /\ c > n => k = c
  BY DEF NaiveNext, new
<1>6. CASE c > n
  <2>1. new = [out |-> out, cur |-> c]
    BY <1>5, <1>6
  <2> HIDE DEF match, st
  <2> QED BY <1>1, <1>6, <2>1
<1>7. CASE c <= n /\ match = {}
  <2> DEFINE o == Append(out, d[c])
  <2>0. c \in 1 .. n /\ d[c] \in F /\ ~(c > n)
    BY <1>1, <1>7
  <2>1. new = [out |-> o, cur |-> c + 1]
    BY <1>5, <1>7, <2>0
  <2>2. o \in Seq(F) /\ Len(o) = l + 1 /\ DOMAIN o = 1 .. l + 1
        /\ o[l + 1] = d[c] /\ \A j \in 1 .. l : o[j] = out[j]
    BY <2>0
  <2>3. dep = 1 => d[c - 1] # d[c]
    <3> SUFFICES ASSUME dep = 1, d[c - 1] = d[c] PROVE FALSE
      OBVIOUS
    <3>1. 1 \in 1 .. dep /\ c + 1 - 1 <= n /\ 1 <= l
      BY <1>1, <2>0
    <3>2. ASSUME NEW p \in 0 .. 1 - 1 PROVE d[c + p] = out[l - 1 + 1 + p]
      <4>1. p = 0 /\ c + p = c /\ l - 1 + 1 + p = l
        BY <1>1
      <4> QED BY <1>2, <4>1
    <3>3. 1 \in match
      BY <3>1, <3>2
    <3> QED BY <1>7, <3>3
  <2> HIDE DEF o, match, st
  <2>4. c + 1 \in 2 .. n + 1 /\ (c + 1) - 1 = c /\ c + 1 \in Nat
    BY <1>1, <2>0
  <2>5. o[1] = d[1] /\ o[Len(o)] = d[(c + 1) - 1] /\ Len(o) > 0
    BY <1>1, <1>2, <2>2, <2>4
  <2>6. ASSUME NEW i \in 1 .. (c + 1) - 1 PROVE \E j \in DOMAIN o : d[i] = o[j]
    <3>1. CASE i = c
      BY <1>1, <2>2, <3>1
    <3>2. CASE i # c
      <4>1. i \in 1 .. c - 1
        BY <1>1, <3>2
      <4>2. PICK j \in 1 .. l : d[i] = out[j]
        BY <1>2, <4>1
      <4>3. j \in DOMAIN o /\ o[j] = out[j]
        BY <1>1, <2>2
      <4> QED BY <4>2, <4>3
    <3> QED BY <3>1, <3>2
  <2>7. ASSUME NEW i \in 1 .. Len(o) - 1 PROVE Called(d, 0, o[i], o[i + 1])
    <3>1. CASE i = l
      <4>1. o[i] = d[c - 1] /\ o[i + 1] = d[c]
        BY <1>1, <1>2, <2>2, <3>1
      <4>2. c - 1 \in 1 .. Len(d) - 1 /\ (c - 1) + 1 = c
        BY <1>1, <2>0
      <4> QED BY <4>1, <4>2 DEF Called
    <3>2. CASE i # l
      <4>0. Len(o) - 1 = l
        BY <1>1, <2>2
      <4>1. i \in 1 .. l - 1 /\ i \in 1 .. l /\ i + 1 \in 1 .. l
        <5>1. i \in 1 .. l
          BY <4>0
        <5> HIDE DEF l
        <5> QED BY <1>1, <3>2, <5>1
      <4> QED BY <1>2, <2>2, <4>1
    <3> QED BY <3>1, <3>2
  <2>8. ASSUME dep = 0 PROVE Len(o) = (c + 1) - 1 /\ \A j \in 1 .. (c + 1) - 1 : o[j] = d[j]
    <3>1. l = c - 1 /\ \A j \in 1 .. c - 1 : out[j] = d[j]
      BY <1>2, <2>8
    <3> QED BY <1>1, <2>2, <3>1
  <2>9. ASSUME dep = 1 PROVE o \o kept[(c + 1) - 1] = all
    <3>1. c - 1 \in 1 .. n - 1 /\ (c - 1) + 1 = c
      BY <1>1, <2>0
    <3>2. kept[c - 1] = Cons(d[c], kept[c])
      BY <1>4, <2>3, <2>9, <3>1
    <3>3. kept[c] \in Seq(F)
      BY <1>4, <2>0
    <3>4. out \o Cons(d[c], kept[c]) = o \o kept[c]
      BY <2>0, <3>3, ConcatCons DEF o
    <3> QED BY <1>3, <2>4, <2>9, <3>2, <3>4, Zenon
  <2>10. NaiveInv(d, dep, o, c + 1)
    BY <2>4, <2>5, <2>6, <2>7, <2>8, <2>9, Zenon DEF NaiveInv, kept, all, n
  <2>11. c <= n => c + 1 > c
    BY <1>1
  <2>12. ~(c > n)
    BY <2>0
  <2> QED BY <2>1, <2>2, <2>4, <2>10, <2>11, <2>12, Zenon
<1>8. CASE c <= n /\ match # {}
  <2> DEFINE s == Min(match)
  <2>1. s \in match
    <3>1. match \subseteq Nat
      OBVIOUS
    <3> HIDE DEF match
    <3>2. \E x \in match : \A y \in match : x <= y
      BY <1>8, <3>1, LeastElement
    <3> QED BY <3>2, Zenon DEF Min
  <2>2. ~(c > n)
    BY <1>1, <1>8
  <2>3. new = [out |-> out, cur |-> c + s]
    BY <1>5, <1>8, <2>2, Zenon
  <2> HIDE DEF s
  <2>4. s \in 1 .. dep /\ c + s - 1 <= n /\ s <= l
        /\ \A p \in 0 .. s - 1 : d[c + p] = out[l - s + 1 + p]
    BY <2>1
  <2> HIDE DEF match, st
  <2>5. c + s \in 2 .. n + 1 /\ c + s \in Nat /\ c + s > c /\ s \in Nat /\ s > 0
    BY <1>1, <2>4
  <2>6. out[l] = d[(c + s) - 1]
    <3>1. s - 1 \in 0 .. s - 1 /\ c + (s - 1) = (c + s) - 1 /\ l - s + 1 + (s - 1) = l
      BY <1>1, <2>5
    <3> QED BY <2>4, <3>1
  <2>7. ASSUME NEW i \in 1 .. (c + s) - 1 PROVE \E j \in 1 .. l : d[i] = out[j]
    <3>1. CASE i \in 1 .. c - 1
      BY <1>2, <3>1
    <3>2. CASE i \notin 1 .. c - 1
      <4>1. i - c \in 0 .. s - 1 /\ c + (i - c) = i /\ l - s + 1 + (i - c) \in 1 .. l
        BY <1>1, <2>4, <2>5, <3>2
      <4>2. d[c + (i - c)] = out[l - s + 1 + (i - c)]
        BY <2>4, <4>1
      <4> QED BY <4>1, <4>2
    <3> QED BY <3>1, <3>2
  <2>8. dep # 0
    BY <2>4
  <2>9. ASSUME dep = 1 PROVE out \o kept[(c + s) - 1] = all
    <3>1. s = 1 /\ (c + s) - 1 = c /\ c - 1 \in 1 .. n - 1 /\ (c - 1) + 1 = c
      BY <1>1, <1>8, <2>4, <2>9
    <3>2. d[c - 1] = d[c]
      BY <1>2, <2>6, <3>1
    <3>3. kept[c - 1] = kept[c]
      BY <1>4, <3>1, <3>2
    <3> QED BY <1>3, <2>9, <3>1, <3>3, Zenon
  <2>10. NaiveInv(d, dep, out, c + s)
    BY <1>1, <1>2, <2>5, <2>6, <2>7, <2>8, <2>9, Zenon DEF NaiveInv, kept, all, n, l
  <2> QED BY <2>2, <2>3, <2>5, <2>10, Zenon
<1> QED BY <1>1, <1>6, <1>7, <1>8

\* The first frame is kept.
LEMMA NaiveInit ==
  ASSUME NEW F, NEW d \in Seq(F), Len(d) > 0, NEW dep \in Nat
  PROVE  <<d[1]>> \in Seq(F) /\ NaiveInv(d, dep, <<d[1]>>, 2)
<1> DEFINE o == <<d[1]>>
<1>1. d[1] \in F /\ Len(d) \in Nat
  OBVIOUS
<1>2. o \in Seq(F) /\ Len(o) = 1 /\ o[1] = d[1] /\ DOMAIN o = 1 .. 1
  BY <1>1
<1>3. 2 \in 2 .. Len(d) + 1 /\ 2 - 1 = 1
  BY <1>1
<1>4. o \o KeptFrom(d, MaxDp(d, 1))[1] = Squeeze(d, MaxDp(d, 1))
  BY SqueezeKept, Zenon DEF Cons
<1> HIDE DEF o
<1>5. \A i \in 1 .. 2 - 1 : \E j \in DOMAIN o : d[i] = o[j]
  BY <1>2
<1>6. \A i \in 1 .. Len(o) - 1 : Called(d, 0, o[i], o[i + 1])
  BY <1>2
<1>7. Len(o) = 2 - 1 /\ \A j \in 1 .. 2 - 1 : o[j] = d[j]
  BY <1>2
<1>8. Len(o) > 0 /\ o[Len(o)] = d[2 - 1]
  BY <1>2
<1>9. NaiveInv(d, dep, o, 2)
  BY <1>2, <1>3, <1>4, <1>5, <1>6, <1>7, <1>8, Zenon DEF NaiveInv
<1> QED BY <1>2, <1>9 DEF o

\* When the loop has ended.
LEMMA NaiveEnd ==
  ASSUME NEW F, NEW d \in Seq(F), Len(d) > 0, NEW dep \in Nat, NEW o \in Seq(F),
         NaiveInv(d, dep, o, Len(d) + 1)
  PROVE  /\ Collapsed(o, d, 0)
         /\ dep <= 1 => o = CollapseRecursionOpt(d, dep)
<1> DEFINE n == Len(d)
<1>1. n \in Nat /\ n > 0 /\ (n + 1) - 1 = n /\ DOMAIN d = 1 .. n
  OBVIOUS
<1>2. /\ Len(o) > 0 /\ o[1] = d[1] /\ o[Len(o)] = d[n]
      /\ \A i \in 1 .. n : \E j \in DOMAIN o : d[i] = o[j]
      /\ \A i \in 1 .. Len(o) - 1 : Called(d, 0, o[i], o[i + 1])
      /\ dep = 0 => Len(o) = n /\ \A j \in 1 .. n : o[j] = d[j]
      /\ dep = 1 => o \o KeptFrom(d, MaxDp(d, 1))[n] = Squeeze(d, MaxDp(d, 1))
  <2> HIDE DEF n
  <2>1. NaiveInv(d, dep, o, n + 1)
    BY DEF n
  <2> QED BY <1>1, <2>1 DEF NaiveInv
<1>3. Collapsed(o, d, 0)
  BY <1>1, <1>2 DEF Collapsed, Traced
<1>4. CASE dep = 0
  <2>1. o = d
    BY <1>2, <1>4, SeqEqual
  <2> QED BY <1>3, <1>4, <2>1 DEF CollapseRecursionOpt
<1>5. CASE dep = 1
  <2> DEFINE kept == KeptFrom(d, MaxDp(d, 1))
             all == Squeeze(d, MaxDp(d, 1))
  <2>1. kept[n] = <<>>
    BY KeptAtOne
  <2>2. o = all
    <3>1. o \o <<>> = o
      OBVIOUS
    <3> HIDE DEF kept, all
    <3>2. o \o kept[n] = all
      BY <1>2, <1>5 DEF kept, all
    <3> QED BY <2>1, <3>1, <3>2
  <2>3. CASE n >= 2
    <3>1. CollapseRecursionOpt(d, dep) = all
      <4>1. ~(dep = 0 \/ Len(d) < 2)
        BY <1>5, <2>3
      <4> QED BY <1>5, <4>1 DEF CollapseRecursionOpt
    <3> HIDE DEF all
    <3> QED BY <1>3, <2>2, <3>1
  <2>4. CASE n < 2
    <3>1. n = 1 /\ CollapseRecursionOpt(d, dep) = d
      BY <1>1, <2>4 DEF CollapseRecursionOpt
    <3>2. all = Cons(d[1], <<>>)
      BY <2>1, <3>1, SqueezeKept, Zenon
    <3>3. d[1] \in F /\ <<>> \in Seq(F) /\ Len(<<>>) = 0
      BY <1>1
    <3>4. IsCons(all, d[1], <<>>)
      BY <3>2, <3>3, ConsFacts, Zenon
    <3> HIDE DEF all
    <3>5. Len(o) = 1 /\ o[1] = d[1]
      BY <2>2, <3>3, <3>4 DEF IsCons
    <3>6. o = d
      <4>1. Len(o) = Len(d)
        BY <3>1, <3>5
      <4>2. \A i \in 1 .. Len(o) : o[i] = d[i]
        BY <3>5
      <4> QED BY <4>1, <4>2, SeqEqual
    <3> QED BY <1>3, <3>1, <3>6
  <2> QED BY <1>1, <2>3, <2>4
<1>6. CASE dep > 1
  <2>1. ~(dep <= 1)
    BY <1>6
  <2> QED BY <1>3, <2>1
<1>7. dep = 0 \/ dep = 1 \/ dep > 1
  OBVIOUS
<1> QED BY <1>4, <1>5, <1>6, <1>7

\* The naive version ends with a collapsed stack, and agrees with the others up
\* to depth 1.
LEMMA NaiveFacts ==
  ASSUME NEW F, NEW d \in Seq(F), Len(d) > 0, NEW dep \in Nat
  PROVE  LET o == CollapseRecursionNaive(d, dep) IN
         /\ o \in Seq(F) /\ Collapsed(o, d, 0)
         /\ dep <= 1 => o = CollapseRecursionOpt(d, dep)
<1> DEFINE n == Len(d)
           S == {st \in [out : Seq(F), cur : Nat] : NaiveInv(d, dep, st.out, st.cur)}
           init == [out |-> <<d[1]>>, cur |-> 2]
           step == [k \in 1 .. n |-> [st \in S |-> NaiveStep(d, dep, st)]]
           Eqn(f) == f = [k \in 0 .. n |-> IF k = 0 THEN init ELSE NaiveStep(d, dep, f[k - 1])]
           at == CHOOSE f : Eqn(f)
<1>0. CollapseRecursionNaive(d, dep) = at[n].out
  BY DEF CollapseRecursionNaive
<1>1. n \in Nat /\ n > 0
  OBVIOUS
<1>2. init \in S
  BY NaiveInit
<1>3. ASSUME NEW st \in S
      PROVE  /\ NaiveStep(d, dep, st) \in S
             /\ st.cur <= n => NaiveStep(d, dep, st).cur > st.cur
             /\ st.cur > n => NaiveStep(d, dep, st).cur = st.cur
  <2>1. st = [out |-> st.out, cur |-> st.cur] /\ st.out \in Seq(F) /\ NaiveInv(d, dep, st.out, st.cur)
    OBVIOUS
  <2> DEFINE o0 == st.out
             c0 == st.cur
             new == NaiveStep(d, dep, [out |-> o0, cur |-> c0])
  <2>2. NaiveNext(F, d, dep, c0, new)
    <3>1. o0 \in Seq(F) /\ NaiveInv(d, dep, o0, c0)
      BY <2>1
    <3> HIDE DEF o0, c0
    <3> QED BY <3>1, NaiveStepInv
  <2>3. NaiveStep(d, dep, st) = new
    BY <2>1
  <2> HIDE DEF new
  <2>4. PICK o \in Seq(F), k \in Nat :
          /\ new = [out |-> o, cur |-> k]
          /\ NaiveInv(d, dep, o, k)
          /\ c0 <= Len(d) => k > c0
          /\ c0 > Len(d) => k = c0
    BY <2>2 DEF NaiveNext
  <2>5. new \in S /\ new.cur = k
    BY <2>4
  <2>6. (st.cur <= n => k > st.cur) /\ (st.cur > n => k = st.cur)
    BY <2>4
  <2> HIDE DEF S, n
  <2> QED BY <2>3, <2>5, <2>6
<1>4. Loop(S, n, init, step)
  <2> HIDE DEF S, init, n
  <2> QED BY <1>1, <1>2, <1>3 DEF Loop
<1>5. S \subseteq [out : Seq(F), cur : Nat] /\ init.cur = 2
      /\ \A st \in S : st.out \in Seq(F) /\ NaiveInv(d, dep, st.out, st.cur) /\ st.cur \in 2 .. n + 1
  BY DEF NaiveInv
<1> HIDE DEF S, init, n
<1>6. PICK f : Loops(f, S, n, init, step)
  <2> HIDE DEF step
  <2> QED BY <1>4, Iteration
<1>7. ASSUME NEW k \in 1 .. n
      PROVE  f[k - 1] \in S /\ f[k] = NaiveStep(d, dep, f[k - 1])
  <2>1. k - 1 \in 0 .. n
    BY <1>1
  <2> QED BY <1>6, <2>1 DEF Loops
<1> HIDE DEF step
<1>8. Eqn(f)
  <2>1. f = [k \in 0 .. n |-> f[k]] /\ f[0] = init
    BY <1>6 DEF Loops
  <2>2. \A k \in 0 .. n : k # 0 => k \in 1 .. n
    BY <1>1
  <2> QED BY <1>7, <2>1, <2>2
<1>9. Eqn(at)
  BY <1>8
<1> HIDE DEF at
<1>10. at[0] = init /\ \A k \in 1 .. n : at[k] = NaiveStep(d, dep, at[k - 1])
  BY <1>1, <1>9
<1> DEFINE T == {k \in Nat : k <= n => at[k] \in S /\ (at[k].cur > k + 1 \/ at[k].cur > n)}
<1>11. 0 \in T
  BY <1>2, <1>5, <1>10
<1>12. ASSUME NEW k \in Nat, k \in T PROVE k + 1 \in T
  <2> SUFFICES ASSUME k + 1 <= n
               PROVE  at[k + 1] \in S /\ (at[k + 1].cur > (k + 1) + 1 \/ at[k + 1].cur > n)
    OBVIOUS
  <2>1. at[k] \in S /\ (at[k].cur > k + 1 \/ at[k].cur > n)
    BY <1>1, <1>12
  <2>2. at[k + 1] = NaiveStep(d, dep, at[k])
    <3>1. k + 1 \in 1 .. n /\ (k + 1) - 1 = k
      BY <1>1
    <3> QED BY <1>10, <3>1
  <2>3. at[k + 1] \in S
    BY <1>3, <2>1, <2>2
  <2>4. at[k].cur \in Nat /\ at[k + 1].cur \in Nat
    BY <1>1, <1>5, <2>1, <2>3
  <2>5. CASE at[k].cur <= n
    <3>1. at[k + 1].cur > at[k].cur
      BY <1>3, <2>1, <2>2, <2>5
    <3> QED BY <1>1, <2>1, <2>3, <2>4, <2>5, <3>1
  <2>6. CASE at[k].cur > n
    <3>1. at[k + 1].cur = at[k].cur
      BY <1>3, <2>1, <2>2, <2>6
    <3> QED BY <2>3, <2>6, <3>1
  <2> QED BY <1>1, <2>4, <2>5, <2>6
<1>13. \A k \in Nat : k \in T
  <2> HIDE DEF T
  <2> QED BY <1>11, <1>12, Induction
<1>14. at[n] \in S /\ at[n].cur > n
  <2>1. at[n] \in S /\ (at[n].cur > n + 1 \/ at[n].cur > n)
    BY <1>1, <1>13
  <2>2. at[n].cur \in Nat
    BY <1>1, <1>5, <2>1
  <2> QED BY <1>1, <2>1, <2>2
<1>15. at[n].cur = n + 1 /\ at[n].out \in Seq(F) /\ NaiveInv(d, dep, at[n].out, n + 1)
  <2>1. at[n].cur \in 2 .. n + 1 /\ at[n].out \in Seq(F) /\ NaiveInv(d, dep, at[n].out, at[n].cur)
    BY <1>5, <1>14
  <2>2. at[n].cur = n + 1
    BY <1>1, <1>14, <2>1
  <2> QED BY <2>1, <2>2
<1> DEFINE o == at[n].out
<1>16. o \in Seq(F) /\ NaiveInv(d, dep, o, Len(d) + 1)
  BY <1>15 DEF n
<1> HIDE DEF o
<1>17. Collapsed(o, d, 0) /\ (dep <= 1 => o = CollapseRecursionOpt(d, dep))
  BY <1>16, NaiveEnd
<1> QED BY <1>0, <1>16, <1>17 DEF o

\* The table-driven version ends with a collapsed stack.
LEMMA OptFacts ==
  ASSUME NEW F, NEW d \in Seq(F), Len(d) > 0, NEW dep \in Nat
  PROVE  LET o == CollapseRecursionOpt(d, dep) IN o \in Seq(F) /\ Collapsed(o, d, dep)
<1>1. CASE dep = 0 \/ Len(d) < 2
  <2>1. CollapseRecursionOpt(d, dep) = d
    BY <1>1 DEF CollapseRecursionOpt
  <2>2. ASSUME NEW i \in 1 .. Len(d) - 1 PROVE Called(d, dep, d[i], d[i + 1])
    <3>1. dep = 0
      BY <1>1, <2>2
    <3> QED BY <3>1 DEF Called
  <2>3. Collapsed(d, d, dep)
    BY <2>2 DEF Collapsed, Traced
  <2> QED BY <2>1, <2>3
<1>2. CASE dep # 0 /\ Len(d) >= 2
  <2> DEFINE m == MaxDp(d, dep)
  <2>1. CollapseRecursionOpt(d, dep) = Squeeze(d, m)
    <3>1. ~(dep = 0 \/ Len(d) < 2)
      BY <1>2
    <3> QED BY <3>1 DEF CollapseRecursionOpt
  <2>2. IsMaxDp(m, d, dep)
    BY MaxDpIs
  <2> HIDE DEF m
  <2>3. dep \in Nat \ {0}
    BY <1>2
  <2>4. Squeeze(d, m) \in Seq(F) /\ Collapsed(Squeeze(d, m), d, dep)
    BY <2>2, <2>3, SqueezeCollapses
  <2> QED BY <2>1, <2>4
<1>3. Len(d) \in Nat
  OBVIOUS
<1> QED BY <1>1, <1>2, <1>3

\* What a collapsed stack has in common with the stack.
LEMMA CollapsedFacts ==
  ASSUME NEW F, NEW d \in Seq(F), Len(d) > 0, NEW dep, NEW s \in Seq(F), Collapsed(s, d, dep)
  PROVE  /\ ToSet(s) = ToSet(d) /\ Head(s) = Head(d) /\ Last(s) = Last(d)
         /\ Calls(s) \subseteq Calls(d)
         /\ dep > 0 => \A c \in Calls(s) : c[1] # c[2]
<1>1. /\ Len(s) > 0 /\ s[Len(s)] = d[Len(d)] /\ s[1] = d[1]
      /\ \A i \in 1 .. Len(s) - 1 : Called(d, dep, s[i], s[i + 1])
      /\ \A i \in DOMAIN d : \E j \in DOMAIN s : d[i] = s[j]
  BY DEF Collapsed, Traced
<1>2. Head(s) = Head(d) /\ Last(s) = Last(d)
  <2>1. s # <<>> /\ d # <<>>
    BY <1>1
  <2>2. Head(s) = s[1] /\ Head(d) = d[1]
    BY <2>1
  <2> QED BY <1>1, <2>2 DEF Last
<1>3. ASSUME NEW i \in DOMAIN s PROVE \E j \in DOMAIN d : s[i] = d[j]
  <2>1. CASE i = 1
    BY <1>1, <2>1
  <2>2. CASE i # 1
    <3>1. i - 1 \in 1 .. Len(s) - 1 /\ (i - 1) + 1 = i
      BY <2>2
    <3>2. Called(d, dep, s[i - 1], s[(i - 1) + 1])
      BY <1>1, <3>1
    <3>3. PICK j \in 1 .. Len(d) - 1 : s[(i - 1) + 1] = d[j + 1]
      BY <3>2 DEF Called
    <3> QED BY <3>1, <3>3
  <2> QED BY <2>1, <2>2
<1>4. ToSet(s) = ToSet(d)
  <2>1. \A i \in DOMAIN d : d[i] \in ToSet(s)
    BY <1>1 DEF ToSet
  <2>2. \A i \in DOMAIN s : s[i] \in ToSet(d)
    BY <1>3 DEF ToSet
  <2> QED BY <2>1, <2>2, Zenon DEF ToSet
<1>5. ASSUME NEW c \in Calls(s)
      PROVE  c \in Calls(d) /\ (dep > 0 => c[1] # c[2])
  <2>1. PICK i \in 1 .. Len(s) - 1 : c = <<s[i], s[i + 1]>>
    BY DEF Calls
  <2>2. PICK j \in 1 .. Len(d) - 1 : s[i] = d[j] /\ s[i + 1] = d[j + 1] /\ (dep > 0 => s[i] # s[i + 1])
    BY <1>1 DEF Called
  <2> QED BY <2>1, <2>2 DEF Calls
<1> QED BY <1>2, <1>4, <1>5

-----------------------------------------------------------------------------
\* What the three versions compute.
Results(stack, dep) ==
  LET d == GetTrace(stack) IN
  [span  |-> d,
   opt   |-> CollapseRecursionOpt(d, dep),
   avx   |-> CollapseRecursionAvx(d, dep),
   naive |-> IF d = <<>> THEN d ELSE CollapseRecursionNaive(d, dep),
   run   |-> TRUE]

\* The run computed exactly that.
CollapseInv ==
  /\ raw \in Seq(Frames \cup {NullFrame}) /\ depth \in Nat
  /\ res = NotRun \/ res = Results(raw, depth)

\* In every reachable state.
LEMMA CollapseInvariance == CollapseSpec => []CollapseInv
<1>1. CollapseInit => CollapseInv
  <2> SUFFICES ASSUME CollapseInit PROVE CollapseInv
    OBVIOUS
  <2>1. PICK n \in 0 .. MaxUnwindDepth : raw \in [1 .. n -> Frames \cup {NullFrame}]
    BY DEF CollapseInit
  <2>2. raw \in Seq(Frames \cup {NullFrame})
    BY <2>1, UnwindAssumption
  <2> QED BY <2>2, DepthAssumption DEF CollapseInit, CollapseInv
<1>2. CollapseInv /\ [Run]_collapseVars => CollapseInv'
  <2> SUFFICES ASSUME CollapseInv, [Run]_collapseVars PROVE CollapseInv'
    OBVIOUS
  <2>1. CASE Run
    <3>1. raw' = raw /\ depth' = depth /\ res' = Results(raw, depth)
      BY <2>1 DEF Run, Results
    <3> QED BY <3>1 DEF CollapseInv
  <2>2. CASE UNCHANGED collapseVars
    BY <2>2 DEF collapseVars, CollapseInv
  <2> QED BY <2>1, <2>2
<1> QED BY <1>1, <1>2, PTL DEF CollapseSpec

\* CollapseCorrect: whatever the stack and the depth, no frame is lost, no
\* call is invented, direct recursion disappears, and the three versions agree
\* as far as they have to (CollapseRecursionOpt, CollapseRecursionAvx,
\* CollapseRecursionNaive).
THEOREM CollapseIsCorrect == CollapseSpec => []CollapseCorrect
<1>1. CollapseInv => CollapseCorrect
  <2> SUFFICES ASSUME CollapseInv PROVE CollapseCorrect
    OBVIOUS
  <2>1. CASE res = NotRun
    <3>1. res.run = FALSE
      BY <2>1 DEF NotRun
    <3> QED BY <3>1 DEF CollapseCorrect, FramesKept, NoInventedCall, NoDirectRecursion,
                        SameOnAllBuilds, NaiveAgrees
  <2>2. CASE res = Results(raw, depth)
    <3> DEFINE F == Frames \cup {NullFrame}
               d == GetTrace(raw)
               opt == CollapseRecursionOpt(d, depth)
               naive == CollapseRecursionNaive(d, depth)
    <3>1. /\ res.run = TRUE /\ res.span = d /\ res.opt = opt /\ res.avx = CollapseRecursionAvx(d, depth)
          /\ res.naive = IF d = <<>> THEN d ELSE naive
      BY <2>2 DEF Results
    <3>2. d \in Seq(F) /\ depth \in Nat /\ (Len(d) > 0 => d[Len(d)] # NullFrame)
      BY GetTraceFacts DEF CollapseInv
    <3> HIDE DEF d, F
    <3>3. res.avx = opt
      BY <3>1, <3>2, AvxIsOpt
    <3>4. SameOnAllBuilds
      BY <3>1, <3>3 DEF SameOnAllBuilds
    <3>5. CASE d = <<>>
      <4>1. opt = <<>> /\ res.naive = <<>> /\ res.span = <<>> /\ res.opt = <<>>
        BY <3>1, <3>5 DEF CollapseRecursionOpt
      <4>2. Calls(<<>>) = {}
        BY DEF Calls
      <4> HIDE DEF opt, naive
      <4>3. FramesKept /\ NoInventedCall /\ NoDirectRecursion /\ NaiveAgrees
        BY <4>1, <4>2 DEF FramesKept, NoInventedCall, NoDirectRecursion, NaiveAgrees
      <4> QED BY <3>4, <4>3 DEF CollapseCorrect
    <3>6. CASE d # <<>>
      <4>1. Len(d) > 0 /\ res.naive = naive
        <5>1. Len(d) \in Nat /\ Len(d) # 0
          BY <3>2, <3>6
        <5> QED BY <3>1, <3>6, <5>1
      <4>2. opt \in Seq(F) /\ Collapsed(opt, d, depth)
        BY <3>2, <4>1, OptFacts
      <4>3. naive \in Seq(F) /\ Collapsed(naive, d, 0) /\ (depth <= 1 => naive = opt)
        BY <3>2, <4>1, NaiveFacts
      <4> HIDE DEF opt, naive
      <4>4. /\ ToSet(opt) = ToSet(d) /\ Head(opt) = Head(d) /\ Last(opt) = Last(d)
            /\ Calls(opt) \subseteq Calls(d)
            /\ depth > 0 => \A c \in Calls(opt) : c[1] # c[2]
        BY <3>2, <4>1, <4>2, CollapsedFacts
      <4>5. ToSet(naive) = ToSet(d) /\ Calls(naive) \subseteq Calls(d)
        BY <3>2, <4>1, <4>3, CollapsedFacts
      <4>6. FramesKept
        BY <3>1, <3>2, <4>1, <4>4 DEF FramesKept
      <4>7. NoInventedCall /\ NoDirectRecursion
        BY <3>1, <4>4 DEF NoInventedCall, NoDirectRecursion
      <4>8. NaiveAgrees
        BY <3>1, <4>1, <4>3, <4>5 DEF NaiveAgrees
      <4> QED BY <3>4, <4>6, <4>7, <4>8 DEF CollapseCorrect
    <3> QED BY <3>5, <3>6
  <2> QED BY <2>1, <2>2 DEF CollapseInv
<1> QED BY <1>1, CollapseInvariance, PTL

-----------------------------------------------------------------------------
(* Reports: the heaptrack writer.                                          *)

\* Maps from some of the traces.
Maps(R) == UNION {[A -> R] : A \in SUBSET TraceId}

\* The values of TextWriter's and HeaptrackWriter's state.
Summaries == [size : Int, active : Int, count : Int]
Heaps == [sizes    : Maps([current : Int, prev : Int]),
          node     : Maps(Nat),
          tree     : Trees,
          tRecords : Seq(TreeNodes),
          blocks   : [TraceId -> Seq([size : Int, index : Nat])]]

\* The block that was written for a trace: of the size before, if positive.
Written(h, id) ==
  IF id \in DOMAIN h.node /\ h.sizes[id].prev > 0
    THEN <<[size |-> h.sizes[id].prev, index |-> h.node[id]]>> ELSE <<>>

\* The nodes of the traces have their paths, and the blocks are those of the
\* sizes before.
HeapGood(h) ==
  /\ h \in Heaps
  /\ WellFormed(h.tree, h.tRecords)
  /\ DOMAIN h.node \subseteq DOMAIN h.sizes
  /\ \A id \in DOMAIN h.node :
       /\ h.node[id] \in 0 .. Len(h.tRecords)
       /\ NodePaths(h.tree.ptrs, h.tRecords)[h.node[id]] = NotNull(Trace[id])
       /\ Finds(id)
  /\ \A id \in DOMAIN h.sizes \ DOMAIN h.node : h.sizes[id].prev = 0
  /\ \A id \in TraceId : h.blocks[id] = Written(h, id)

\* What was flushed of a trace is its size.
Settled(h, id) == Finds(id) => id \in DOMAIN h.node /\ h.sizes[id].prev = h.sizes[id].current

\* Put on maps.
LEMMA PutType ==
  ASSUME NEW R, NEW f \in Maps(R), NEW x \in TraceId, NEW v \in R
  PROVE  Put(f, x, v) \in Maps(R)
<1>1. PICK A \in SUBSET TraceId : f \in [A -> R]
  BY DEF Maps
<1>2. A \cup {x} \in SUBSET TraceId /\ Put(f, x, v) \in [A \cup {x} -> R]
  BY <1>1 DEF Put
<1> QED BY <1>2 DEF Maps

\* Values of maps.
LEMMA MapsFacts ==
  ASSUME NEW R, NEW f \in Maps(R)
  PROVE  DOMAIN f \subseteq TraceId /\ f \in [DOMAIN f -> R] /\ \A x \in DOMAIN f : f[x] \in R
BY DEF Maps

\* WriteTrace: the trace has its node, and nothing else changes.
LEMMA WriteTraceEffect ==
  ASSUME NEW h, HeapGood(h), NEW id \in DOMAIN h.sizes, Finds(id)
  PROVE  /\ HeapGood(WriteTrace(h, id))
         /\ DOMAIN WriteTrace(h, id).node = DOMAIN h.node \cup {id}
         /\ WriteTrace(h, id).sizes = h.sizes
<1> DEFINE w == WriteTrace(h, id)
           r == index(h.tree, Trace[id])
           all == h.tRecords \o r.calls
           node == Put(h.node, id, r.node)
<1>1. CASE id \in DOMAIN h.node
  <2>1. w = h
    BY <1>1 DEF WriteTrace
  <2>2. DOMAIN h.node = DOMAIN h.node \cup {id}
    BY <1>1
  <2> QED BY <2>1, <2>2
<1>2. CASE id \notin DOMAIN h.node
  <2>1. /\ h \in Heaps /\ h.node \in Maps(Nat) /\ h.sizes \in Maps([current : Int, prev : Int])
        /\ WellFormed(h.tree, h.tRecords) /\ h.tRecords \in Seq(TreeNodes)
        /\ h.blocks \in [TraceId -> Seq([size : Int, index : Nat])]
    BY DEF HeapGood, Heaps
  <2>2. id \in TraceId /\ Trace[id] \in Seq(Addresses)
    BY <2>1, MapsFacts, TraceAssumption
  <2>3. /\ r \in IndexStates
        /\ WellFormed(r.tree, all)
        /\ r.node \in 0 .. Len(all)
        /\ Extends(h.tree.ptrs, r.tree.ptrs)
        /\ Extends(h.tRecords, all)
        /\ NodePaths(r.tree.ptrs, all)[r.node] = NotNull(Trace[id])
    BY <2>1, <2>2, IndexEffect
  <2> HIDE DEF r
  <2>4. r.tree \in Trees /\ r.node \in Nat /\ all \in Seq(TreeNodes) /\ Len(all) \in Nat
    BY <2>1, <2>3 DEF IndexStates
  <2>5. w = [h EXCEPT !.node = node, !.tree = r.tree, !.tRecords = all]
    BY <1>2, Zenon DEF WriteTrace, r
  <2>6. /\ node \in Maps(Nat) /\ DOMAIN node = DOMAIN h.node \cup {id} /\ node[id] = r.node
        /\ \A y \in DOMAIN h.node : y # id => node[y] = h.node[y]
    <3>1. node \in Maps(Nat)
      <4> DEFINE R == Nat
      <4>1. h.node \in Maps(R) /\ r.node \in R
        BY <2>1, <2>4
      <4> HIDE DEF R
      <4>2. Put(h.node, id, r.node) \in Maps(R)
        BY <2>2, <4>1, PutType
      <4> QED BY <4>2 DEF R
    <3>2. /\ DOMAIN node = DOMAIN h.node \cup {id} /\ node[id] = r.node
          /\ \A y \in DOMAIN h.node : y # id => node[y] = h.node[y]
      <4> HIDE DEF all, w
      <4> QED BY Zenon DEF Put
    <3> QED BY <3>1, <3>2, Zenon
  <2> HIDE DEF node, all
  <2>7. /\ w \in Heaps /\ w.node = node /\ w.tree = r.tree /\ w.tRecords = all
        /\ w.sizes = h.sizes /\ w.blocks = h.blocks
    BY <2>1, <2>4, <2>5, <2>6 DEF Heaps
  <2> HIDE DEF w
  <2>8. ASSUME NEW x \in DOMAIN node
        PROVE  /\ node[x] \in 0 .. Len(all)
               /\ NodePaths(r.tree.ptrs, all)[node[x]] = NotNull(Trace[x])
               /\ Finds(x)
    <3>1. CASE x = id
      BY <2>3, <2>6, <3>1
    <3>2. CASE x # id
      <4>1. x \in DOMAIN h.node /\ node[x] = h.node[x]
        BY <2>6, <3>2
      <4>2. /\ h.node[x] \in 0 .. Len(h.tRecords) /\ Finds(x)
            /\ NodePaths(h.tree.ptrs, h.tRecords)[h.node[x]] = NotNull(Trace[x])
        BY <4>1 DEF HeapGood
      <4>3. Rooted(h.tree.ptrs, h.tRecords) /\ Rooted(r.tree.ptrs, all)
        BY <2>1, <2>3 DEF WellFormed
      <4>4. NodePaths(r.tree.ptrs, all)[h.node[x]] = NodePaths(h.tree.ptrs, h.tRecords)[h.node[x]]
        BY <2>3, <4>2, <4>3, PathsKept
      <4>5. h.node[x] \in 0 .. Len(all)
        BY <2>1, <2>3, <2>4, <4>2 DEF Extends
      <4> QED BY <4>1, <4>2, <4>4, <4>5
    <3> QED BY <3>1, <3>2
  <2>9. h.sizes[id].prev = 0
    BY <1>2 DEF HeapGood
  <2>10. ASSUME NEW x \in TraceId PROVE h.blocks[x] = Written(w, x)
    <3>1. h.blocks[x] = Written(h, x)
      BY DEF HeapGood
    <3>2. CASE x = id
      BY <1>2, <2>7, <2>9, <3>1, <3>2 DEF Written
    <3>3. CASE x # id
      <4>1. (x \in DOMAIN node <=> x \in DOMAIN h.node) /\ (x \in DOMAIN h.node => node[x] = h.node[x])
        BY <2>6, <3>3
      <4> QED BY <2>7, <3>1, <4>1 DEF Written
    <3> QED BY <3>2, <3>3
  <2>11. \A x \in DOMAIN h.sizes \ DOMAIN node : h.sizes[x].prev = 0
    BY <2>6 DEF HeapGood
  <2>12. DOMAIN node \subseteq DOMAIN h.sizes
    BY <2>6 DEF HeapGood
  <2>13. HeapGood(w)
    BY <2>3, <2>7, <2>8, <2>10, <2>11, <2>12 DEF HeapGood
  <2> QED BY <2>6, <2>7, <2>13 DEF w
<1> QED BY <1>1, <1>2

\* WriteBlock: the size before is now the size, and so is the block.
LEMMA WriteBlockEffect ==
  ASSUME NEW h, HeapGood(h), NEW id \in DOMAIN h.node
  PROVE  /\ HeapGood(WriteBlock(h, id))
         /\ WriteBlock(h, id).node = h.node
         /\ DOMAIN WriteBlock(h, id).sizes = DOMAIN h.sizes
         /\ WriteBlock(h, id).sizes[id] = [current |-> h.sizes[id].current, prev |-> h.sizes[id].current]
         /\ \A x \in DOMAIN h.sizes : x # id => WriteBlock(h, id).sizes[x] = h.sizes[x]
<1> DEFINE w == WriteBlock(h, id)
           b == h.sizes[id]
           old == h.blocks[id]
           kept == IF Frees(b) /\ old # <<>> THEN Tail(old) ELSE old
           new == IF b.current > 0 THEN <<[size |-> b.current, index |-> h.node[id]]>> ELSE <<>>
           Pairs == [current : Int, prev : Int]
           Blocks == [size : Int, index : Nat]
<1>1. /\ h \in Heaps /\ h.node \in Maps(Nat) /\ h.sizes \in Maps(Pairs)
      /\ h.blocks \in [TraceId -> Seq(Blocks)] /\ id \in DOMAIN h.sizes
  BY DEF HeapGood, Heaps
<1>2. id \in TraceId /\ h.node[id] \in Nat /\ b \in Pairs /\ b.current \in Int /\ b.prev \in Int
  <2>1. id \in TraceId /\ b \in Pairs
    <3> HIDE DEF Pairs, b
    <3> QED BY <1>1, MapsFacts DEF b
  <2>2. h.node[id] \in Nat
    <3> DEFINE R == Nat
    <3>1. h.node \in Maps(R)
      BY <1>1
    <3> HIDE DEF R
    <3>2. h.node[id] \in R
      BY <3>1, MapsFacts
    <3> QED BY <3>2 DEF R
  <2> QED BY <2>1, <2>2
<1>3. kept = <<>>
  <2>1. old = Written(h, id)
    BY <1>2 DEF HeapGood
  <2>2. CASE b.prev > 0
    <3>1. old = <<[size |-> b.prev, index |-> h.node[id]]>>
      BY <2>1, <2>2 DEF Written
    <3> QED BY <1>2, <2>2, <3>1 DEF Frees
  <2>3. CASE ~(b.prev > 0)
    BY <2>1, <2>3 DEF Written
  <2> QED BY <2>2, <2>3
<1>4. new \in Seq(Blocks) /\ kept \o new = new
  <2>1. new \in Seq(Blocks)
    <3>1. [size |-> b.current, index |-> h.node[id]] \in Blocks
      BY <1>2
    <3> HIDE DEF Blocks, b
    <3> QED BY <3>1
  <2> HIDE DEF kept, new, Blocks
  <2> QED BY <1>3, <2>1
<1> HIDE DEF kept, new, Blocks
<1> DEFINE sizes == [h.sizes EXCEPT ![id].prev = b.current]
           blocks == [h.blocks EXCEPT ![id] = new]
<1>5. w = [h EXCEPT !.blocks = blocks, !.sizes = sizes]
  <2>1. w = [h EXCEPT !.blocks[id] = kept \o new, !.sizes[id].prev = b.current]
    BY Zenon DEF WriteBlock, kept, new
  <2> QED BY <1>1, <1>4, <2>1 DEF Heaps
<1>6. /\ DOMAIN sizes = DOMAIN h.sizes /\ sizes[id] = [current |-> b.current, prev |-> b.current]
      /\ \A x \in DOMAIN h.sizes : x # id => sizes[x] = h.sizes[x]
  BY <1>1, <1>2
<1>7. sizes \in Maps(Pairs)
  <2>1. PICK A \in SUBSET TraceId : h.sizes \in [A -> Pairs]
    BY <1>1 DEF Maps
  <2>2. sizes \in [A -> Pairs]
    BY <1>2, <2>1
  <2> HIDE DEF sizes, Pairs
  <2> QED BY <2>2 DEF Maps
<1>8. /\ blocks \in [TraceId -> Seq(Blocks)] /\ blocks[id] = new
      /\ \A x \in TraceId : x # id => blocks[x] = h.blocks[x]
  BY <1>1, <1>2, <1>4
<1> HIDE DEF sizes, blocks, b
<1>9. /\ w \in Heaps /\ w.node = h.node /\ w.tree = h.tree /\ w.tRecords = h.tRecords
      /\ w.sizes = sizes /\ w.blocks = blocks
  <2>1. /\ w.node = h.node /\ w.tree = h.tree /\ w.tRecords = h.tRecords
        /\ w.sizes = sizes /\ w.blocks = blocks
    BY <1>1, <1>5 DEF Heaps
  <2>2. w \in Heaps
    <3>1. h \in [sizes : Maps(Pairs), node : Maps(Nat), tree : Trees, tRecords : Seq(TreeNodes),
                 blocks : [TraceId -> Seq(Blocks)]]
      BY <1>1 DEF Heaps, Blocks
    <3> HIDE DEF Pairs
    <3>2. w \in [sizes : Maps(Pairs), node : Maps(Nat), tree : Trees, tRecords : Seq(TreeNodes),
                 blocks : [TraceId -> Seq(Blocks)]]
      BY <1>5, <1>7, <1>8, <3>1
    <3> QED BY <3>2 DEF Heaps, Blocks, Pairs
  <2> QED BY <2>1, <2>2
<1> HIDE DEF w, Pairs
<1>10. ASSUME NEW x \in TraceId PROVE blocks[x] = Written(w, x)
  <2>1. CASE x = id
    BY <1>2, <1>6, <1>8, <1>9, <2>1 DEF Written, new
  <2>2. CASE x # id
    <3>1. x \in DOMAIN h.node => sizes[x] = h.sizes[x]
      BY <1>6, <2>2 DEF HeapGood
    <3>2. h.blocks[x] = Written(h, x)
      BY DEF HeapGood
    <3> QED BY <1>8, <1>9, <2>2, <3>1, <3>2 DEF Written
  <2> QED BY <2>1, <2>2
<1>11. \A x \in DOMAIN sizes \ DOMAIN h.node : sizes[x].prev = 0
  BY <1>6 DEF HeapGood
<1>12. HeapGood(w)
  BY <1>6, <1>9, <1>10, <1>11 DEF HeapGood
<1> QED BY <1>6, <1>9, <1>12 DEF w, b

\* One trace of the loop is settled and the others are left alone.
LEMMA FlushTraceEffect ==
  ASSUME NEW h, HeapGood(h), NEW id \in DOMAIN h.sizes
  PROVE  /\ HeapGood(FlushTrace(h, id))
         /\ DOMAIN FlushTrace(h, id).sizes = DOMAIN h.sizes
         /\ \A x \in DOMAIN h.sizes : FlushTrace(h, id).sizes[x].current = h.sizes[x].current
         /\ Settled(FlushTrace(h, id), id)
         /\ \A x \in DOMAIN h.sizes : Settled(h, x) => Settled(FlushTrace(h, id), x)
<1> DEFINE f == FlushTrace(h, id)
           t == WriteTrace(h, id)
           w == WriteBlock(t, id)
<1>1. CASE id \notin DOMAIN h.node /\ ~Finds(id)
  <2>1. f = h
    BY <1>1 DEF FlushTrace
  <2> QED BY <1>1, <2>1 DEF Settled
<1>2. CASE ~(id \notin DOMAIN h.node /\ ~Finds(id))
  <2>1. f = w
    BY <1>2 DEF FlushTrace
  <2>2. Finds(id)
    BY <1>2 DEF HeapGood
  <2>3. HeapGood(t) /\ DOMAIN t.node = DOMAIN h.node \cup {id} /\ t.sizes = h.sizes
    BY <2>2, WriteTraceEffect
  <2> HIDE DEF t
  <2>4. /\ HeapGood(w) /\ w.node = t.node /\ DOMAIN w.sizes = DOMAIN t.sizes
        /\ w.sizes[id] = [current |-> t.sizes[id].current, prev |-> t.sizes[id].current]
        /\ \A x \in DOMAIN t.sizes : x # id => w.sizes[x] = t.sizes[x]
    <3>1. id \in DOMAIN t.node
      BY <2>3
    <3> QED BY <2>3, <3>1, WriteBlockEffect
  <2> HIDE DEF w
  <2>5. w.sizes[id].current = h.sizes[id].current /\ w.sizes[id].prev = h.sizes[id].current
    BY <2>3, <2>4
  <2>6. DOMAIN w.sizes = DOMAIN h.sizes /\ \A x \in DOMAIN h.sizes : x # id => w.sizes[x] = h.sizes[x]
    BY <2>3, <2>4
  <2>7. \A x \in DOMAIN h.sizes : w.sizes[x].current = h.sizes[x].current
    BY <2>5, <2>6
  <2>8. Settled(w, id)
    BY <2>3, <2>4, <2>5 DEF Settled
  <2>9. ASSUME NEW x \in DOMAIN h.sizes, Settled(h, x) PROVE Settled(w, x)
    <3>1. CASE x = id
      BY <2>8, <3>1
    <3>2. CASE x # id
      BY <2>3, <2>4, <2>6, <2>9, <3>2 DEF Settled
    <3> QED BY <3>1, <3>2
  <2> HIDE DEF f
  <2> QED BY <2>1, <2>4, <2>6, <2>7, <2>8, <2>9 DEF f
<1> QED BY <1>1, <1>2

\* h was reached from o by flushing traces.
Flushed(h, o) ==
  /\ HeapGood(h)
  /\ DOMAIN h.sizes = DOMAIN o.sizes
  /\ \A x \in DOMAIN o.sizes : h.sizes[x].current = o.sizes[x].current
  /\ \A x \in DOMAIN o.sizes : Settled(o, x) => Settled(h, x)

\* Flushing one more trace settles it.
LEMMA FlushedStep ==
  ASSUME NEW o, NEW h, Flushed(h, o), NEW id \in DOMAIN o.sizes
  PROVE  /\ Flushed(FlushTrace(h, id), o)
         /\ Settled(FlushTrace(h, id), id)
         /\ \A x \in DOMAIN o.sizes : Settled(h, x) => Settled(FlushTrace(h, id), x)
<1> DEFINE f == FlushTrace(h, id)
<1>1. HeapGood(h) /\ id \in DOMAIN h.sizes /\ DOMAIN h.sizes = DOMAIN o.sizes
  BY DEF Flushed
<1>2. /\ HeapGood(f) /\ DOMAIN f.sizes = DOMAIN h.sizes
      /\ \A x \in DOMAIN h.sizes : f.sizes[x].current = h.sizes[x].current
      /\ Settled(f, id)
      /\ \A x \in DOMAIN h.sizes : Settled(h, x) => Settled(f, x)
  BY <1>1, FlushTraceEffect
<1> HIDE DEF f
<1>3. Flushed(f, o)
  BY <1>1, <1>2 DEF Flushed
<1> QED BY <1>1, <1>2, <1>3 DEF f

\* The loop of FlushData settles the traces it visits.
LEMMA FlushingEffect ==
  ASSUME NEW o, HeapGood(o), NEW order \in Seq(DOMAIN o.sizes)
  PROVE  /\ Flushed(Flushing(o, order)[Len(order)], o)
         /\ \A n \in 1 .. Len(order) : Settled(Flushing(o, order)[Len(order)], order[n])
<1> DEFINE N == Len(order)
           S == {h \in Heaps : Flushed(h, o)}
           step == [n \in 1 .. N |-> [h \in S |-> FlushTrace(h, order[n])]]
           Eqn(f) == f = [n \in 0 .. N |-> IF n = 0 THEN o ELSE FlushTrace(f[n - 1], order[n])]
<1>1. N \in Nat /\ \A n \in 1 .. N : order[n] \in DOMAIN o.sizes
  OBVIOUS
<1>2. o \in S
  BY DEF HeapGood, Flushed
<1>3. ASSUME NEW n \in 1 .. N, NEW h \in S
      PROVE  /\ FlushTrace(h, order[n]) \in S
             /\ Settled(FlushTrace(h, order[n]), order[n])
             /\ \A x \in DOMAIN o.sizes : Settled(h, x) => Settled(FlushTrace(h, order[n]), x)
  <2>1. Flushed(h, o) /\ order[n] \in DOMAIN o.sizes
    BY <1>1
  <2>2. /\ Flushed(FlushTrace(h, order[n]), o)
        /\ Settled(FlushTrace(h, order[n]), order[n])
        /\ \A x \in DOMAIN o.sizes : Settled(h, x) => Settled(FlushTrace(h, order[n]), x)
    BY <2>1, FlushedStep
  <2>3. FlushTrace(h, order[n]) \in Heaps
    BY <2>2 DEF Flushed, HeapGood
  <2> QED BY <2>2, <2>3
<1> HIDE DEF N, S
<1>4. Loop(S, N, o, step)
  BY <1>1, <1>2, <1>3 DEF Loop
<1> HIDE DEF step
<1>5. PICK f : Loops(f, S, N, o, step)
  BY <1>4, Iteration
<1>6. ASSUME NEW n \in 1 .. N
      PROVE  f[n - 1] \in S /\ f[n] = FlushTrace(f[n - 1], order[n])
  <2>1. n - 1 \in 0 .. N
    BY <1>1
  <2> QED BY <1>5, <2>1 DEF step, Loops
<1>7. Eqn(f)
  BY <1>1, <1>5, <1>6 DEF Loops
<1>8. Flushing(o, order) = CHOOSE g : Eqn(g)
  BY DEF Flushing, N
<1>9. Eqn(Flushing(o, order))
  BY <1>7, <1>8
<1>10. ASSUME NEW g, Eqn(g)
       PROVE  g[0] = o /\ \A n \in 1 .. N : g[n] = FlushTrace(g[n - 1], order[n])
  BY <1>1, <1>10
<1> DEFINE g == Flushing(o, order)
<1>11. g[0] = o /\ \A n \in 1 .. N : g[n] = FlushTrace(g[n - 1], order[n])
  BY <1>9, <1>10
<1> HIDE DEF g
<1>12. \A n \in 0 .. N : g[n] \in S
  BY <1>1, <1>2, <1>3, <1>11, LoopInvariant, ZenonT(30)
<1> DEFINE T == {n \in Nat : n <= N => \A m \in 1 .. n : Settled(g[n], order[m])}
<1>13. \A n \in Nat : n \in T
  <2>1. 0 \in T
    OBVIOUS
  <2>2. ASSUME NEW n \in Nat, n \in T PROVE n + 1 \in T
    <3> SUFFICES ASSUME n + 1 <= N, NEW m \in 1 .. n + 1 PROVE Settled(g[n + 1], order[m])
      OBVIOUS
    <3>1. n + 1 \in 1 .. N /\ (n + 1) - 1 = n /\ n \in 0 .. N
      BY <1>1
    <3>2. g[n + 1] = FlushTrace(g[n], order[n + 1]) /\ g[n] \in S
      BY <1>11, <1>12, <3>1
    <3>3. CASE m = n + 1
      BY <1>3, <3>1, <3>2, <3>3
    <3>4. CASE m # n + 1
      <4>1. m \in 1 .. n /\ m \in 1 .. N
        BY <1>1, <3>1, <3>4
      <4>2. Settled(g[n], order[m])
        BY <1>1, <2>2, <3>1, <4>1
      <4> QED BY <1>1, <1>3, <3>1, <3>2, <4>1, <4>2
    <3> QED BY <3>3, <3>4
  <2> HIDE DEF T
  <2> QED BY <2>1, <2>2, Induction
<1>14. \A n \in 1 .. N : Settled(g[N], order[n])
  BY <1>1, <1>13
<1>15. Flushed(g[N], o)
  BY <1>1, <1>12 DEF S
<1> QED BY <1>14, <1>15 DEF N, g

\* The paths heaptrack gives the records are those of the writer's tree.
LEMMA RecordPathsAre ==
  ASSUME NEW tree, NEW nodes, WellFormed(tree, nodes)
  PROVE  \A n \in 0 .. Len(nodes) : RecordPaths(nodes)[n] = NodePaths(tree.ptrs, nodes)[n]
<1> DEFINE N == Len(nodes)
           D == 0 .. N
           p == NodePaths(tree.ptrs, nodes)
           parent(n) == nodes[n].parent
           ptr(n) == nodes[n].ptr
           Eqn(f) == f = [n \in D |-> IF n = 0 THEN <<>> ELSE <<ptr(n)>> \o f[parent(n)]]
<1>1. Rooted(tree.ptrs, nodes) /\ N \in Nat
  BY DEF WellFormed, Rooted
<1>2. /\ p \in [D -> Seq(Addresses)] /\ p[0] = <<>>
      /\ \A n \in 1 .. N : /\ nodes[n].parent \in 0 .. n - 1
                           /\ p[n] = <<tree.ptrs[nodes[n].ptrId]>> \o p[nodes[n].parent]
  BY <1>1, PathFacts
<1>3. \A n \in 1 .. N : nodes[n].ptr = tree.ptrs[nodes[n].ptrId]
  BY DEF WellFormed
<1> HIDE DEF p
<1>4. \A n \in 1 .. N : parent(n) \in 0 .. n - 1 /\ p[n] = <<ptr(n)>> \o p[parent(n)]
  BY <1>2, <1>3
<1>5. RecordPaths(nodes) = CHOOSE f : Eqn(f)
  BY DEF RecordPaths
<1> HIDE DEF N, parent, ptr
<1>6. Eqn(p)
  <2>1. \A n \in D : n # 0 => n \in 1 .. N
    BY <1>1
  <2>2. \A n \in D : p[n] = IF n = 0 THEN <<>> ELSE <<ptr(n)>> \o p[parent(n)]
    <3> HIDE DEF D
    <3> QED BY <1>2, <1>4, <2>1, Zenon
  <2>3. p = [n \in D |-> p[n]]
    BY <1>2
  <2> HIDE DEF D
  <2> QED BY <2>2, <2>3, Zenon
<1> DEFINE g == RecordPaths(nodes)
<1>7. \A n \in D : g[n] = IF n = 0 THEN <<>> ELSE <<ptr(n)>> \o g[parent(n)]
  <2>1. Eqn(g)
    BY <1>5, <1>6
  <2>2. ASSUME NEW f, Eqn(f)
        PROVE  \A n \in D : f[n] = IF n = 0 THEN <<>> ELSE <<ptr(n)>> \o f[parent(n)]
    BY <2>2
  <2> QED BY <2>1, <2>2
<1> HIDE DEF g
<1> DEFINE T == {n \in Nat : n \in D => g[n] = p[n]}
<1>8. ASSUME NEW n \in Nat, \A m \in 0 .. n - 1 : m \in T PROVE n \in T
  <2> SUFFICES ASSUME n \in D PROVE g[n] = p[n]
    OBVIOUS
  <2>1. CASE n = 0
    BY <1>2, <1>7, <2>1
  <2>2. CASE n # 0
    <3>1. n \in 1 .. N
      BY <1>1, <2>2
    <3>2. parent(n) \in 0 .. n - 1 /\ parent(n) \in D /\ parent(n) \in Nat
      <4>1. parent(n) \in 0 .. n - 1
        BY <1>4, <3>1, Zenon
      <4> QED BY <1>1, <3>1, <4>1
    <3>3. g[parent(n)] = p[parent(n)]
      <4> DEFINE k == parent(n)
      <4>1. k \in 0 .. n - 1 /\ k \in D
        BY <3>2
      <4> HIDE DEF k, D, g
      <4>2. k \in T
        BY <1>8, <4>1
      <4>3. g[k] = p[k]
        BY <4>1, <4>2
      <4> QED BY <4>3 DEF k
    <3>4. g[n] = <<ptr(n)>> \o g[parent(n)] /\ p[n] = <<ptr(n)>> \o p[parent(n)]
      BY <1>4, <1>7, <2>2, <3>1, Zenon
    <3> QED BY <3>3, <3>4, Zenon
  <2> QED BY <2>1, <2>2
<1>9. \A n \in Nat : n \in T
  <2> HIDE DEF T
  <2> QED BY <1>8, StrongInduction
<1>10. \A n \in D : g[n] = p[n]
  BY <1>1, <1>9
<1> QED BY <1>10 DEF N, p, g

-----------------------------------------------------------------------------
(* Reports: what the writers agree on.                                     *)

\* A size that is handed over changes neither nodes nor blocks.
HeapAccounting(h, w, id, c, prev) ==
  /\ HeapGood(h) /\ id \in TraceId /\ c \in Int
  /\ prev = IF id \in DOMAIN h.sizes THEN h.sizes[id].prev ELSE 0
  /\ w = [h EXCEPT !.sizes = Put(@, id, [current |-> c, prev |-> prev])]

\* The blocks follow the sizes before, which stay.
LEMMA AccountHeap ==
  ASSUME NEW h, NEW w, NEW id, NEW c, NEW prev, HeapAccounting(h, w, id, c, prev)
  PROVE  /\ HeapGood(w)
         /\ DOMAIN w.sizes = DOMAIN h.sizes \cup {id}
         /\ w.sizes[id].current = c
         /\ \A x \in DOMAIN h.sizes : x # id => w.sizes[x] = h.sizes[x]
         /\ \A x \in DOMAIN h.sizes : x # id => (Settled(h, x) => Settled(w, x))
<1> USE DEF HeapAccounting
<1> DEFINE Pairs == [current : Int, prev : Int]
           b == [current |-> c, prev |-> prev]
           sizes == Put(h.sizes, id, b)
<1>1. h \in Heaps /\ h.sizes \in Maps(Pairs) /\ DOMAIN h.node \subseteq DOMAIN h.sizes
  BY DEF HeapGood, Heaps
<1>2. b \in Pairs
  <2>1. CASE id \in DOMAIN h.sizes
    <3>1. h.sizes[id] \in Pairs
      <4> HIDE DEF Pairs
      <4> QED BY <1>1, <2>1, MapsFacts
    <3> QED BY <2>1, <3>1
  <2>2. CASE id \notin DOMAIN h.sizes
    BY <2>2
  <2> QED BY <2>1, <2>2
<1>3a. w = [h EXCEPT !.sizes = sizes]
  OBVIOUS
<1>3. b.current = c /\ b.prev = prev
  OBVIOUS
<1>4. sizes \in Maps(Pairs)
  <2> HIDE DEF Pairs, b
  <2> QED BY <1>1, <1>2, PutType
<1> HIDE DEF b, Pairs
<1>5. /\ DOMAIN sizes = DOMAIN h.sizes \cup {id} /\ sizes[id] = b
      /\ \A x \in DOMAIN h.sizes : x # id => sizes[x] = h.sizes[x]
  BY Zenon DEF Put
<1>5a. HeapGood(h) /\ id \in TraceId /\ prev = IF id \in DOMAIN h.sizes THEN h.sizes[id].prev ELSE 0
  OBVIOUS
<1> HIDE DEF sizes, HeapAccounting
<1> USE <1>5a
<1>6. /\ w.sizes = sizes /\ w.node = h.node /\ w.tree = h.tree /\ w.tRecords = h.tRecords
      /\ w.blocks = h.blocks
  BY <1>1, <1>3a DEF Heaps
<1>7. w \in Heaps
  <2>1. h \in [sizes : Maps(Pairs), node : Maps(Nat), tree : Trees, tRecords : Seq(TreeNodes),
               blocks : [TraceId -> Seq([size : Int, index : Nat])]]
    BY <1>1 DEF Heaps, Pairs
  <2>2. w \in [sizes : Maps(Pairs), node : Maps(Nat), tree : Trees, tRecords : Seq(TreeNodes),
               blocks : [TraceId -> Seq([size : Int, index : Nat])]]
    BY <1>4, <1>3a, <2>1
  <2> QED BY <2>2 DEF Heaps, Pairs
<1>8. ASSUME NEW x \in DOMAIN h.node PROVE x \in DOMAIN h.sizes /\ sizes[x].prev = h.sizes[x].prev
  <2>1. x \in DOMAIN h.sizes
    BY <1>1
  <2>2. CASE x = id
    BY <1>3, <1>5, <2>1, <2>2
  <2>3. CASE x # id
    BY <1>5, <2>1, <2>3
  <2> QED BY <2>1, <2>2, <2>3
<1>9. ASSUME NEW x \in TraceId PROVE h.blocks[x] = Written(w, x)
  <2>1. h.blocks[x] = Written(h, x)
    BY DEF HeapGood
  <2> QED BY <1>6, <1>8, <2>1 DEF Written
<1>10. ASSUME NEW x \in DOMAIN sizes \ DOMAIN h.node PROVE sizes[x].prev = 0
  <2>1. CASE x = id
    <3>1. prev = 0
      BY <1>10, <2>1 DEF HeapGood
    <3> QED BY <1>3, <1>5, <2>1, <3>1
  <2>2. CASE x # id
    BY <1>5, <1>10, <2>2 DEF HeapGood
  <2> QED BY <2>1, <2>2
<1>11. DOMAIN h.node \subseteq DOMAIN sizes
  BY <1>1, <1>5
<1>12. HeapGood(w)
  BY <1>6, <1>7, <1>9, <1>10, <1>11 DEF HeapGood
<1>13. \A x \in DOMAIN h.sizes : x # id => (Settled(h, x) => Settled(w, x))
  BY <1>5, <1>6 DEF Settled
<1> QED BY <1>3, <1>5, <1>6, <1>12, <1>13

\* The totals of the sections are the sums of an index.
Ids(ix, s) == {x \in DOMAIN ix : Section(x) = s}
SumsRight(ix, t) ==
  \A s \in Sections :
    /\ t[s].size = SumFunction([x \in Ids(ix, s) |-> ix[x].size])
    /\ t[s].active = SumFunction([x \in Ids(ix, s) |-> ix[x].active])
    /\ t[s].count = SumFunction([x \in Ids(ix, s) |-> ix[x].count])

\* AccountSnapshot of the text writer keeps them so.
Accounting(ix, t, id, d, old) ==
  /\ ix \in Maps(Summaries) /\ IsFiniteSet(DOMAIN ix)
  /\ t \in [Sections -> Summaries] /\ SumsRight(ix, t)
  /\ id \in TraceId /\ d \in Summaries
  /\ old = IF id \in DOMAIN ix THEN ix[id] ELSE Zero

\* By SumGrows, in the section of the trace.
LEMMA AccountSums ==
  ASSUME NEW ix, NEW t, NEW id, NEW d, NEW old, Accounting(ix, t, id, d, old)
  PROVE  /\ Put(ix, id, Plus(old, d)) \in Maps(Summaries)
         /\ [t EXCEPT ![Section(id)] = Plus(@, d)] \in [Sections -> Summaries]
         /\ SumsRight(Put(ix, id, Plus(old, d)), [t EXCEPT ![Section(id)] = Plus(@, d)])
         /\ Plus(old, d).size = old.size + d.size
<1> USE DEF Accounting
<1> DEFINE new == Plus(old, d)
           nx == Put(ix, id, new)
           nt == [t EXCEPT ![Section(id)] = Plus(@, d)]
<1>1. Section(id) \in Sections
  BY DEF Section, Sections
<1>2. \A x \in DOMAIN ix : ix[x] \in Summaries
  <2> DEFINE R == Summaries
  <2> HIDE DEF R
  <2>1. ix \in Maps(R)
    BY DEF R
  <2>2. \A x \in DOMAIN ix : ix[x] \in R
    BY <2>1, MapsFacts
  <2> QED BY <2>2 DEF R
<1>3. old \in Summaries
  BY <1>2 DEF Zero, Summaries
<1>4. \A a, b \in Summaries : /\ Plus(a, b) \in Summaries
                              /\ Plus(a, b).size = a.size + b.size
                              /\ Plus(a, b).active = a.active + b.active
                              /\ Plus(a, b).count = a.count + b.count
  BY DEF Plus, Summaries
<1>5. new \in Summaries /\ new.size = old.size + d.size /\ new.active = old.active + d.active
      /\ new.count = old.count + d.count
  BY <1>3, <1>4
<1> HIDE DEF new
<1>6. nx \in Maps(Summaries)
  <2> DEFINE R == Summaries
  <2> HIDE DEF R
  <2>1. ix \in Maps(R) /\ new \in R
    BY <1>5 DEF R
  <2>2. Put(ix, id, new) \in Maps(R)
    BY <2>1, PutType
  <2> QED BY <2>2 DEF R
<1>7. /\ DOMAIN nx = DOMAIN ix \cup {id} /\ nx[id] = new
      /\ \A x \in DOMAIN ix : x # id => nx[x] = ix[x]
  BY Zenon DEF Put
<1>8. /\ nt \in [Sections -> Summaries] /\ nt[Section(id)] = Plus(t[Section(id)], d)
      /\ \A s \in Sections : s # Section(id) => nt[s] = t[s]
  <2>1. Plus(t[Section(id)], d) \in Summaries
    BY <1>1, <1>4
  <2> QED BY <1>1, <2>1
<1> HIDE DEF nx, nt
<1>9. ASSUME NEW s \in Sections
      PROVE  /\ nt[s].size = SumFunction([x \in Ids(nx, s) |-> nx[x].size])
             /\ nt[s].active = SumFunction([x \in Ids(nx, s) |-> nx[x].active])
             /\ nt[s].count = SumFunction([x \in Ids(nx, s) |-> nx[x].count])
  <2> DEFINE S == Ids(ix, s)
             T == Ids(nx, s)
  <2>1. /\ t[s].size = SumFunction([x \in S |-> ix[x].size])
        /\ t[s].active = SumFunction([x \in S |-> ix[x].active])
        /\ t[s].count = SumFunction([x \in S |-> ix[x].count])
    BY DEF SumsRight
  <2>2. CASE s # Section(id)
    <3>1. T = S /\ \A x \in S : nx[x] = ix[x]
      BY <1>7, <2>2 DEF Ids
    <3>2. nt[s] = t[s]
      BY <1>8, <2>2
    <3> HIDE DEF S, T
    <3>3. /\ [x \in T |-> nx[x].size] = [x \in S |-> ix[x].size]
          /\ [x \in T |-> nx[x].active] = [x \in S |-> ix[x].active]
          /\ [x \in T |-> nx[x].count] = [x \in S |-> ix[x].count]
      BY <3>1
    <3>4. /\ nt[s].size = SumFunction([x \in T |-> nx[x].size])
          /\ nt[s].active = SumFunction([x \in T |-> nx[x].active])
          /\ nt[s].count = SumFunction([x \in T |-> nx[x].count])
      BY <2>1, <3>2, <3>3, Zenon
    <3> QED BY <3>4 DEF T
  <2>3. CASE s = Section(id)
    <3>1. T = S \cup {id} /\ (id \in S <=> id \in DOMAIN ix) /\ S \subseteq DOMAIN ix
      BY <1>7, <2>3 DEF Ids
    <3>2. IsFiniteSet(S)
      <4>1. S \in SUBSET DOMAIN ix
        BY <3>1
      <4> QED BY <4>1, FS_Subset
    <3> HIDE DEF S, T
    <3>3. nt[s] = Plus(t[s], d) /\ t[s] \in Summaries
      BY <1>8, <2>3
    <3>4. /\ \A x \in S : ix[x] \in Summaries
          /\ \A x \in T : nx[x] \in Summaries
          /\ \A x \in S : x # id => nx[x] = ix[x]
      BY <1>2, <1>5, <1>7, <3>1
    <3>5. id \in S => old = ix[id]
      BY <3>1
    <3>6. id \notin S => old = Zero
      BY <3>1
    <3>7. nt[s].size = SumFunction([x \in T |-> nx[x].size])
      <4> DEFINE f == [x \in S |-> ix[x].size]
                 g == [x \in T |-> nx[x].size]
                 e == d.size
      <4>1. f \in [S -> Int] /\ g \in [S \cup {id} -> Int] /\ e \in Int
        BY <3>1, <3>4 DEF Summaries
      <4>2. g[id] = (IF id \in S THEN f[id] ELSE 0) + e
        BY <1>5, <1>7, <3>1, <3>5, <3>6 DEF Zero
      <4>3. \A y \in S : y # id => g[y] = f[y]
        BY <3>1, <3>4
      <4> HIDE DEF f, g, e
      <4>4. SumFunction(g) = SumFunction(f) + e
        <5>1. Grows(f, g, S, id, e)
          BY <3>2, <4>1, <4>2, <4>3 DEF Grows
        <5> QED BY <5>1, SumGrows
      <4>5. nt[s].size = t[s].size + e
        BY <1>4, <3>3 DEF e
      <4> QED BY <2>1, <4>4, <4>5 DEF f, g
    <3>8. nt[s].active = SumFunction([x \in T |-> nx[x].active])
      <4> DEFINE f == [x \in S |-> ix[x].active]
                 g == [x \in T |-> nx[x].active]
                 e == d.active
      <4>1. f \in [S -> Int] /\ g \in [S \cup {id} -> Int] /\ e \in Int
        BY <3>1, <3>4 DEF Summaries
      <4>2. g[id] = (IF id \in S THEN f[id] ELSE 0) + e
        BY <1>5, <1>7, <3>1, <3>5, <3>6 DEF Zero
      <4>3. \A y \in S : y # id => g[y] = f[y]
        BY <3>1, <3>4
      <4> HIDE DEF f, g, e
      <4>4. SumFunction(g) = SumFunction(f) + e
        <5>1. Grows(f, g, S, id, e)
          BY <3>2, <4>1, <4>2, <4>3 DEF Grows
        <5> QED BY <5>1, SumGrows
      <4>5. nt[s].active = t[s].active + e
        BY <1>4, <3>3 DEF e
      <4> QED BY <2>1, <4>4, <4>5 DEF f, g
    <3>9. nt[s].count = SumFunction([x \in T |-> nx[x].count])
      <4> DEFINE f == [x \in S |-> ix[x].count]
                 g == [x \in T |-> nx[x].count]
                 e == d.count
      <4>1. f \in [S -> Int] /\ g \in [S \cup {id} -> Int] /\ e \in Int
        BY <3>1, <3>4 DEF Summaries
      <4>2. g[id] = (IF id \in S THEN f[id] ELSE 0) + e
        BY <1>5, <1>7, <3>1, <3>5, <3>6 DEF Zero
      <4>3. \A y \in S : y # id => g[y] = f[y]
        BY <3>1, <3>4
      <4> HIDE DEF f, g, e
      <4>4. SumFunction(g) = SumFunction(f) + e
        <5>1. Grows(f, g, S, id, e)
          BY <3>2, <4>1, <4>2, <4>3 DEF Grows
        <5> QED BY <5>1, SumGrows
      <4>5. nt[s].count = t[s].count + e
        BY <1>4, <3>3 DEF e
      <4> QED BY <2>1, <4>4, <4>5 DEF f, g
    <3> QED BY <3>7, <3>8, <3>9 DEF T
  <2> QED BY <2>2, <2>3
<1>10. SumsRight(nx, nt)
  BY <1>9 DEF SumsRight
<1> QED BY <1>5, <1>6, <1>8, <1>10 DEF nx, nt, new

\* The two writers keep the same sizes, and what is not in m_changedSummaries
\* was flushed.
WritersInv ==
  /\ allocsIndex \in Maps(Summaries) /\ IsFiniteSet(DOMAIN allocsIndex)
  /\ changed \subseteq DOMAIN allocsIndex
  /\ HeapGood(heaptrack)
  /\ DOMAIN heaptrack.sizes = DOMAIN allocsIndex
  /\ \A id \in DOMAIN allocsIndex : heaptrack.sizes[id].current = allocsIndex[id].size
  /\ \A id \in DOMAIN allocsIndex \ changed : Settled(heaptrack, id)

\* What was listed is described.
TextInv ==
  /\ listed \subseteq described \cup Unresolved
  /\ report.bySize \cup report.byCount \subseteq listed

\* The totals are sums.
TotalsInv == totals \in [Sections -> Summaries] /\ SumsRight(allocsIndex, totals)

\* The inductive invariant.
ReportsInv == WritersInv /\ TextInv /\ TotalsInv

\* No trace was handed over yet.
LEMMA InitReports == ReportsInit => ReportsInv
<1> SUFFICES ASSUME ReportsInit PROVE ReportsInv
  OBVIOUS
<1> USE DEF ReportsInit
<1>1. ASSUME NEW R, NEW z PROVE [x \in {} |-> z] \in Maps(R) /\ DOMAIN [x \in {} |-> z] = {}
  <2>1. {} \in SUBSET TraceId /\ [x \in {} |-> z] \in [{} -> R]
    OBVIOUS
  <2> QED BY <2>1 DEF Maps
<1>2. /\ allocsIndex \in Maps(Summaries) /\ DOMAIN allocsIndex = {} /\ IsFiniteSet(DOMAIN allocsIndex)
  <2> DEFINE R == Summaries
  <2> HIDE DEF R
  <2>1. allocsIndex = [x \in {} |-> Zero]
    OBVIOUS
  <2>2. allocsIndex \in Maps(R)
    BY <1>1, <2>1
  <2>3. DOMAIN allocsIndex = {}
    BY <2>1
  <2> QED BY <2>2, <2>3, FS_EmptySet DEF R
<1>3. HeapGood(heaptrack) /\ DOMAIN heaptrack.sizes = {}
  <2> DEFINE h == heaptrack
             none == [x \in {} |-> 0]
             Pairs == [current : Int, prev : Int]
  <2>1. /\ h.sizes = none /\ h.node = none /\ h.tree = NewTree /\ h.tRecords = <<>>
        /\ h.blocks = [x \in TraceId |-> <<>>]
        /\ h = [sizes |-> none, node |-> none, tree |-> NewTree, tRecords |-> <<>>,
                blocks |-> [x \in TraceId |-> <<>>]]
    OBVIOUS
  <2>2. DOMAIN none = {}
    OBVIOUS
  <2>3. \A R : none \in Maps(R)
    BY <1>1
  <2> HIDE DEF h, none
  <2>4. NewTree \in Trees /\ WellFormed(NewTree, <<>>)
    <3>1. /\ NewTree \in Trees /\ NewTree.ptrs = <<>> /\ NewTree.edges = {} /\ NewTree.counter = 1
      BY DEF NewTree, Trees
    <3>2. Rooted(NewTree.ptrs, <<>>)
      BY <3>1 DEF Rooted
    <3> QED BY <3>1, <3>2 DEF WellFormed
  <2>5. h \in Heaps
    <3>1. none \in Maps(Pairs) /\ none \in Maps(Nat)
      BY <2>3, Zenon
    <3> HIDE DEF Pairs
    <3>2. h \in [sizes : Maps(Pairs), node : Maps(Nat), tree : Trees, tRecords : Seq(TreeNodes),
                 blocks : [TraceId -> Seq([size : Int, index : Nat])]]
      BY <2>1, <2>4, <3>1
    <3> QED BY <3>2 DEF Heaps, Pairs
  <2>6. \A x \in TraceId : h.blocks[x] = Written(h, x)
    BY <2>1, <2>2 DEF Written
  <2> QED BY <2>1, <2>2, <2>4, <2>5, <2>6 DEF HeapGood, h
<1>4. WritersInv
  BY <1>2, <1>3 DEF WritersInv
<1>5. TextInv
  BY DEF TextInv
<1>6. TotalsInv
  <2>1. Zero \in Summaries /\ Zero.size = 0 /\ Zero.active = 0 /\ Zero.count = 0
    BY DEF Zero, Summaries
  <2>2. totals \in [Sections -> Summaries] /\ \A s \in Sections : totals[s] = Zero
    BY <2>1
  <2>3. ASSUME NEW f \in [{} -> Int] PROVE SumFunction(f) = 0
    <3>1. IsFiniteSet({})
      BY FS_EmptySet
    <3>2. PICK g : IsSum(g, f, {}) /\ SumFunction(f) = g[{}]
      BY <3>1, SumExists
    <3> QED BY <3>2 DEF IsSum
  <2>4. ASSUME NEW s \in Sections
        PROVE  /\ SumFunction([x \in Ids(allocsIndex, s) |-> allocsIndex[x].size]) = 0
               /\ SumFunction([x \in Ids(allocsIndex, s) |-> allocsIndex[x].active]) = 0
               /\ SumFunction([x \in Ids(allocsIndex, s) |-> allocsIndex[x].count]) = 0
    <3> DEFINE I == Ids(allocsIndex, s)
    <3>1. I = {}
      BY <1>2 DEF Ids
    <3> HIDE DEF I
    <3>2. /\ [x \in I |-> allocsIndex[x].size] \in [{} -> Int]
          /\ [x \in I |-> allocsIndex[x].active] \in [{} -> Int]
          /\ [x \in I |-> allocsIndex[x].count] \in [{} -> Int]
      BY <3>1
    <3> QED BY <2>3, <3>2 DEF I
  <2> QED BY <2>1, <2>2, <2>4 DEF TotalsInv, SumsRight
<1> QED BY <1>4, <1>5, <1>6 DEF ReportsInv

\* AccountSnapshot: both writers add the same size.
LEMMA AccountStep == ReportsInv /\ AccountSnapshot => ReportsInv'
<1> SUFFICES ASSUME ReportsInv, AccountSnapshot PROVE ReportsInv'
  OBVIOUS
<1> DEFINE sizes == heaptrack.sizes
           prev(id) == IF id \in DOMAIN sizes THEN sizes[id].prev ELSE 0
           old(id) == IF id \in DOMAIN allocsIndex THEN allocsIndex[id] ELSE Zero
<1>1. PICK id \in TraceId, d \in Deltas :
        /\ totals' = [totals EXCEPT ![Section(id)] = Plus(@, d)]
        /\ allocsIndex' = Put(allocsIndex, id, Plus(old(id), d))
        /\ heaptrack' = [heaptrack EXCEPT !.sizes =
                           Put(@, id, [current |-> Current(sizes, id, d), prev |-> prev(id)])]
        /\ changed' = changed \cup {id}
  BY Zenon DEF AccountSnapshot
<1>2. UNCHANGED <<listed, described, report>>
  BY Zenon DEF AccountSnapshot
<1>3. d \in Summaries
  BY DeltasAssumption DEF Summaries
<1> USE DEF ReportsInv
<1>4. WritersInv /\ TotalsInv /\ TextInv
  OBVIOUS
<1>5. /\ allocsIndex' \in Maps(Summaries) /\ totals' \in [Sections -> Summaries]
      /\ SumsRight(allocsIndex', totals') /\ Plus(old(id), d).size = old(id).size + d.size
  <2>1. /\ Put(allocsIndex, id, Plus(old(id), d)) \in Maps(Summaries)
        /\ [totals EXCEPT ![Section(id)] = Plus(@, d)] \in [Sections -> Summaries]
        /\ SumsRight(Put(allocsIndex, id, Plus(old(id), d)), [totals EXCEPT ![Section(id)] = Plus(@, d)])
        /\ Plus(old(id), d).size = old(id).size + d.size
    <3> DEFINE ix == allocsIndex
               t == totals
               o == old(id)
    <3>1. Accounting(ix, t, id, d, o)
      BY <1>3, <1>4 DEF WritersInv, TotalsInv, Accounting
    <3> HIDE DEF ix, t, o
    <3>2. /\ Put(ix, id, Plus(o, d)) \in Maps(Summaries)
          /\ [t EXCEPT ![Section(id)] = Plus(@, d)] \in [Sections -> Summaries]
          /\ SumsRight(Put(ix, id, Plus(o, d)), [t EXCEPT ![Section(id)] = Plus(@, d)])
          /\ Plus(o, d).size = o.size + d.size
      BY <3>1, AccountSums
    <3> QED BY <3>2 DEF ix, t, o
  <2> HIDE DEF old, sizes, prev
  <2> QED BY <1>1, <2>1, Zenon
<1>6. /\ DOMAIN allocsIndex' = DOMAIN allocsIndex \cup {id} /\ allocsIndex'[id] = Plus(old(id), d)
      /\ \A x \in DOMAIN allocsIndex : x # id => allocsIndex'[x] = allocsIndex[x]
  <2> HIDE DEF old, sizes, prev
  <2>1. allocsIndex' = Put(allocsIndex, id, Plus(old(id), d))
    BY <1>1
  <2> QED BY <2>1, Zenon DEF Put
<1>7. Current(sizes, id, d) \in Int /\ Current(sizes, id, d) = old(id).size + d.size
  <2>1. DOMAIN sizes = DOMAIN allocsIndex /\ \A x \in DOMAIN sizes : sizes[x].current = allocsIndex[x].size
    BY <1>4 DEF WritersInv
  <2>2. \A x \in DOMAIN allocsIndex : allocsIndex[x] \in Summaries
    <3> DEFINE R == Summaries
    <3> HIDE DEF R
    <3>1. allocsIndex \in Maps(R)
      BY <1>4 DEF WritersInv, R
    <3>2. \A x \in DOMAIN allocsIndex : allocsIndex[x] \in R
      BY <3>1, MapsFacts
    <3> QED BY <3>2 DEF R
  <2>3. d.size \in Int /\ Zero.size = 0
    BY <1>3 DEF Summaries, Zero
  <2>4. CASE id \in DOMAIN sizes
    <3>1. Current(sizes, id, d) = sizes[id].current + d.size /\ old(id) = allocsIndex[id]
      BY <2>1, <2>4 DEF Current
    <3>2. allocsIndex[id].size \in Int
      BY <2>1, <2>2, <2>4 DEF Summaries
    <3> QED BY <2>1, <2>3, <2>4, <3>1, <3>2
  <2>5. CASE id \notin DOMAIN sizes
    <3>1. Current(sizes, id, d) = d.size /\ old(id) = Zero
      BY <2>1, <2>5 DEF Current
    <3> QED BY <2>3, <3>1
  <2> QED BY <2>4, <2>5
<1>8. /\ HeapGood(heaptrack')
      /\ DOMAIN heaptrack'.sizes = DOMAIN sizes \cup {id}
      /\ heaptrack'.sizes[id].current = Current(sizes, id, d)
      /\ \A x \in DOMAIN sizes : x # id => heaptrack'.sizes[x] = sizes[x]
      /\ \A x \in DOMAIN sizes : x # id => (Settled(heaptrack, x) => Settled(heaptrack', x))
  <2> DEFINE c == Current(sizes, id, d)
             p == prev(id)
  <2>1. HeapAccounting(heaptrack, heaptrack', id, c, p)
    BY <1>1, <1>4, <1>7 DEF WritersInv, HeapAccounting
  <2> DEFINE h == heaptrack
             w == heaptrack'
  <2> HIDE DEF c, p, h, w
  <2>2. HeapAccounting(h, w, id, c, p)
    BY <2>1 DEF h, w
  <2>3. /\ HeapGood(w) /\ DOMAIN w.sizes = DOMAIN h.sizes \cup {id} /\ w.sizes[id].current = c
        /\ \A x \in DOMAIN h.sizes : x # id => w.sizes[x] = h.sizes[x]
        /\ \A x \in DOMAIN h.sizes : x # id => (Settled(h, x) => Settled(w, x))
    BY <2>2, AccountHeap
  <2> QED BY <2>3 DEF c, h, w
<1> HIDE DEF old, prev
<1>9. WritersInv'
  <2>1. IsFiniteSet(DOMAIN allocsIndex')
    <3>1. IsFiniteSet(DOMAIN allocsIndex \cup {id})
      BY <1>4, FS_AddElement DEF WritersInv
    <3> QED BY <1>6, <3>1
  <2>2. changed' = changed \cup {id} /\ changed' \subseteq DOMAIN allocsIndex'
    BY <1>1, <1>4, <1>6 DEF WritersInv
  <2>3. DOMAIN heaptrack'.sizes = DOMAIN allocsIndex'
    BY <1>4, <1>6, <1>8 DEF WritersInv
  <2>4. ASSUME NEW x \in DOMAIN allocsIndex' PROVE heaptrack'.sizes[x].current = allocsIndex'[x].size
    <3>1. CASE x = id
      BY <1>5, <1>6, <1>7, <1>8, <3>1
    <3>2. CASE x # id
      <4>1. x \in DOMAIN allocsIndex /\ x \in DOMAIN sizes /\ sizes[x].current = allocsIndex[x].size
        BY <1>4, <1>6, <3>2 DEF WritersInv
      <4> QED BY <1>6, <1>8, <3>2, <4>1
    <3> QED BY <3>1, <3>2
  <2>5. ASSUME NEW x \in DOMAIN allocsIndex' \ changed' PROVE Settled(heaptrack', x)
    <3>1. x # id /\ x \in DOMAIN allocsIndex \ changed /\ x \in DOMAIN sizes /\ Settled(heaptrack, x)
      BY <1>4, <1>6, <2>2 DEF WritersInv
    <3> QED BY <1>8, <3>1
  <2> QED BY <1>5, <1>8, <2>1, <2>2, <2>3, <2>4, <2>5 DEF WritersInv
<1>10. TotalsInv'
  BY <1>5 DEF TotalsInv
<1>11. TextInv'
  BY <1>2, <1>4 DEF TextInv
<1> QED BY <1>9, <1>10, <1>11

\* FlushData: heaptrack has the sizes of the changed traces, and what is
\* listed now is described.
LEMMA FlushStep == ReportsInv /\ FlushData => ReportsInv'
<1> SUFFICES ASSUME ReportsInv, FlushData PROVE ReportsInv'
  OBVIOUS
<1>1. WritersInv /\ TotalsInv /\ TextInv
  BY DEF ReportsInv
<1>2. FlushText /\ FlushHeaptrack /\ allocsIndex' = allocsIndex /\ totals' = totals
  BY DEF FlushData
<1>3. TextInv'
  <2>1. PICK e \in DumpIndex("external"), i \in DumpIndex("internal") :
          LET r == [totals |-> totals, bySize |-> e.bySize \cup i.bySize,
                    byCount |-> e.byCount \cup i.byCount] IN
          /\ report' = r
          /\ listed' = listed \cup r.bySize \cup r.byCount
          /\ described' = described \cup {id \in NewStacktraces(r) : Finds(id)}
    BY <1>2, Zenon DEF FlushText
  <2> DEFINE r == [totals |-> totals, bySize |-> e.bySize \cup i.bySize,
                   byCount |-> e.byCount \cup i.byCount]
  <2>2. /\ report' = r
        /\ listed' = listed \cup r.bySize \cup r.byCount
        /\ described' = described \cup {id \in NewStacktraces(r) : Finds(id)}
    BY <2>1, Zenon
  <2> HIDE DEF r
  <2> QED BY <1>1, <2>2 DEF TextInv, NewStacktraces, Finds
<1>4. TotalsInv'
  BY <1>1, <1>2 DEF TotalsInv
<1>5. WritersInv'
  <2>1. PICK order \in SetToSeqs(changed) : heaptrack' = Flushing(heaptrack, order)[Len(order)]
    BY <1>2 DEF FlushHeaptrack
  <2>2. changed' = {} /\ IsFiniteSet(changed)
    <3>1. changed \in SUBSET DOMAIN allocsIndex /\ IsFiniteSet(DOMAIN allocsIndex)
      BY <1>1 DEF WritersInv
    <3> QED BY <1>2, <3>1, FS_Subset DEF FlushHeaptrack
  <2>3. order \in Seq(changed) /\ \A x \in changed : \E n \in 1 .. Len(order) : order[n] = x
    BY <2>2, OrderCovers
  <2>4. order \in Seq(DOMAIN heaptrack.sizes) /\ HeapGood(heaptrack)
    <3>1. changed \subseteq DOMAIN heaptrack.sizes /\ HeapGood(heaptrack)
      BY <1>1 DEF WritersInv
    <3> QED BY <2>3, <3>1
  <2>5. /\ Flushed(heaptrack', heaptrack)
        /\ \A n \in 1 .. Len(order) : Settled(heaptrack', order[n])
    <3> DEFINE w == Flushing(heaptrack, order)[Len(order)]
    <3>1. Flushed(w, heaptrack) /\ \A n \in 1 .. Len(order) : Settled(w, order[n])
      BY <2>4, FlushingEffect
    <3> HIDE DEF w
    <3> QED BY <2>1, <3>1 DEF w
  <2>6. \A x \in DOMAIN allocsIndex : Settled(heaptrack', x)
    <3> SUFFICES ASSUME NEW x \in DOMAIN allocsIndex PROVE Settled(heaptrack', x)
      OBVIOUS
    <3>1. CASE x \in changed
      <4>1. PICK n \in 1 .. Len(order) : order[n] = x
        BY <2>3, <3>1
      <4> QED BY <2>5, <4>1
    <3>2. CASE x \notin changed
      BY <1>1, <2>5, <3>2 DEF WritersInv, Flushed
    <3> QED BY <3>1, <3>2
  <2> QED BY <1>1, <1>2, <2>2, <2>5, <2>6 DEF WritersInv, Flushed
<1> QED BY <1>3, <1>4, <1>5 DEF ReportsInv

\* It holds in every reachable state.
LEMMA ReportsInvariance == ReportsSpec => []ReportsInv
<1>1. ReportsInv /\ [ReportsNext]_reportVars => ReportsInv'
  <2>1. ReportsInv /\ UNCHANGED reportVars => ReportsInv'
    <3> SUFFICES ASSUME ReportsInv, UNCHANGED reportVars PROVE ReportsInv'
      OBVIOUS
    <3>1. /\ allocsIndex' = allocsIndex /\ totals' = totals /\ listed' = listed
          /\ described' = described /\ report' = report /\ changed' = changed
          /\ heaptrack' = heaptrack
      BY DEF reportVars, textVars
    <3> QED BY <3>1 DEF ReportsInv, WritersInv, TextInv, TotalsInv
  <2> QED BY <2>1, AccountStep, FlushStep DEF ReportsNext
<1> QED BY <1>1, InitReports, PTL DEF ReportsSpec

\* Whatever sizes the trackers hand over, in whatever order, and whenever the
\* writers flush: after a flush heaptrack holds one block per trace that
\* resolves, of its size and with its frames; the text report describes what it lists, and its
\* totals are the sums of the sizes both writers keep (TextWriter,
\* HeaptrackWriter).
THEOREM ReportsAreCorrect == ReportsSpec => []ReportsCorrect
<1>1. ReportsInv => ReportsCorrect
  <2> SUFFICES ASSUME ReportsInv PROVE ReportsCorrect
    OBVIOUS
  <2>1. WritersInv /\ TotalsInv /\ TextInv
    BY DEF ReportsInv
  <2>2. /\ HeapGood(heaptrack) /\ heaptrack \in Heaps /\ DOMAIN allocsIndex \subseteq TraceId
        /\ DOMAIN heaptrack.sizes = DOMAIN allocsIndex
        /\ \A id \in TraceId : heaptrack.blocks[id] = Written(heaptrack, id)
    <3>1. HeapGood(heaptrack) /\ DOMAIN heaptrack.sizes = DOMAIN allocsIndex
      BY <2>1 DEF WritersInv
    <3>2. DOMAIN allocsIndex \subseteq TraceId
      <4> DEFINE R == Summaries
      <4> HIDE DEF R
      <4>1. allocsIndex \in Maps(R)
        BY <2>1 DEF WritersInv, R
      <4> QED BY <4>1, MapsFacts
    <3> QED BY <3>1, <3>2 DEF HeapGood
  <2>3. BlocksAreSizes
    <3> SUFFICES ASSUME NEW id \in DOMAIN allocsIndex \ changed, Finds(id)
                 PROVE  BlocksOfItsSize(id)
      BY DEF BlocksAreSizes
    <3> DEFINE s == allocsIndex[id].size
               blocks == heaptrack.blocks[id]
               h == heaptrack
    <3>1. id \in TraceId /\ Settled(h, id) /\ h.sizes[id].current = s
      BY <2>1, <2>2 DEF WritersInv
    <3>2. blocks = Written(h, id)
      BY <2>2, <3>1
    <3>3. CASE s > 0
      <4>1. blocks = <<[size |-> s, index |-> h.node[id]]>>
        BY <3>1, <3>2, <3>3 DEF Settled, Written
      <4> HIDE DEF blocks, s
      <4>2. [i \in DOMAIN blocks |-> blocks[i].size] = <<s>>
        BY <4>1
      <4> QED BY <3>3, <4>2 DEF blocks, s, BlocksOfItsSize
    <3>4. CASE ~(s > 0)
      <4>1. blocks = <<>>
        BY <3>1, <3>2, <3>4 DEF Settled, Written
      <4> HIDE DEF blocks, s
      <4>2. [i \in DOMAIN blocks |-> blocks[i].size] = <<>>
        BY <4>1
      <4> QED BY <3>4, <4>2 DEF blocks, s, BlocksOfItsSize
    <3> QED BY <3>3, <3>4
  <2>4. BlocksHaveTheirTrace
    <3> SUFFICES ASSUME NEW id \in TraceId, NEW i \in DOMAIN heaptrack.blocks[id]
                 PROVE  /\ heaptrack.blocks[id][i].index \in 0 .. Len(heaptrack.tRecords)
                        /\ RecordPaths(heaptrack.tRecords)[heaptrack.blocks[id][i].index]
                             = NotNull(Trace[id])
      BY DEF BlocksHaveTheirTrace
    <3> DEFINE h == heaptrack
    <3>1. h.blocks[id] = Written(h, id)
      BY <2>2
    <3>2. id \in DOMAIN h.node /\ h.blocks[id][i].index = h.node[id]
      BY <3>1 DEF Written
    <3>3. /\ WellFormed(h.tree, h.tRecords) /\ h.node[id] \in 0 .. Len(h.tRecords)
          /\ NodePaths(h.tree.ptrs, h.tRecords)[h.node[id]] = NotNull(Trace[id])
      BY <2>2, <3>2 DEF HeapGood
    <3>4. RecordPaths(h.tRecords)[h.node[id]] = NodePaths(h.tree.ptrs, h.tRecords)[h.node[id]]
      BY <3>3, RecordPathsAre
    <3> QED BY <3>2, <3>3, <3>4
  <2>5. ListedIsDescribed
    BY <2>1 DEF TextInv, ListedIsDescribed
  <2>6. TotalsAreSums
    <3> SUFFICES ASSUME NEW s \in Sections
                 PROVE  /\ totals[s].size = SumFunction([id \in Ids(allocsIndex, s) |-> allocsIndex[id].size])
                        /\ totals[s].active = SumFunction([id \in Ids(allocsIndex, s) |-> allocsIndex[id].active])
                        /\ totals[s].count = SumFunction([id \in Ids(allocsIndex, s) |-> allocsIndex[id].count])
                        /\ totals[s].size = SumFunction([id \in Ids(allocsIndex, s) |-> heaptrack.sizes[id].current])
      BY DEF TotalsAreSums, Ids
    <3> DEFINE I == Ids(allocsIndex, s)
    <3>1. \A id \in I : heaptrack.sizes[id].current = allocsIndex[id].size
      BY <2>1 DEF WritersInv, Ids
    <3> HIDE DEF I
    <3>2. [id \in I |-> heaptrack.sizes[id].current] = [id \in I |-> allocsIndex[id].size]
      BY <3>1
    <3>3. /\ totals[s].size = SumFunction([id \in I |-> allocsIndex[id].size])
          /\ totals[s].active = SumFunction([id \in I |-> allocsIndex[id].active])
          /\ totals[s].count = SumFunction([id \in I |-> allocsIndex[id].count])
      BY <2>1 DEF TotalsInv, SumsRight, I
    <3> QED BY <3>2, <3>3 DEF I
  <2> QED BY <2>3, <2>4, <2>5, <2>6 DEF ReportsCorrect
<1> QED BY <1>1, ReportsInvariance, PTL
=============================================================================
