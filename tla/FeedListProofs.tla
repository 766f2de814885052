---------------------------- MODULE FeedListProofs ----------------------------
(***************************************************************************)
(* Proofs about FeedList, for any tree of nodes, any items and any number  *)
(* of steps, and, at the end, about ReaderEdit, the edits of a reader      *)
(* account, for any items, feeds and number of edits.                      *)
(*                                                                         *)
(* The tree is handled through the ranks of its nodes (IsTree): a node     *)
(* comes before its children, so ancestors, folder counters and the nodes  *)
(* below a folder are functions that recursion defines and induction over  *)
(* the ranks reaches.  Then come the edits of the tree, the merging of a   *)
(* download, the recount, and one lemma for each action.                   *)
(***************************************************************************)
EXTENDS FeedList, ReaderEdit, FiniteSetTheorems, WellFoundedInduction, TLAPS

-----------------------------------------------------------------------------
(* Induction over numbers, and functions that are defined by recursion.    *)

LEMMA LeastMember ==
    ASSUME NEW S, S \subseteq Nat, S # {}
    PROVE \E n \in S : \A m \in S : n <= m
  <1>1. \E n \in S : \A m \in S : ~(<<m, n>> \in OpToRel(<, Nat))
    BY WFMin, NatLessThanWellFounded, Zenon
  <1>2. PICK n \in S : \A m \in S : ~(<<m, n>> \in OpToRel(<, Nat))
    BY <1>1, Zenon
  <1>3. \A m \in S : ~(m < n)
    BY <1>2, Zenon DEF OpToRel
  <1> QED
    BY <1>3

\* A set of numbers that has 0 and with each number the next has all of them.
LEMMA AllNumbers ==
    ASSUME NEW S, 0 \in S, \A n \in Nat : n \in S => n + 1 \in S
    PROVE Nat \subseteq S
  <1> SUFFICES ASSUME Nat \ S # {} PROVE FALSE
    OBVIOUS
  <1>1. PICK n \in Nat \ S : \A m \in Nat \ S : n <= m
    BY LeastMember
  <1>2. n # 0
    OBVIOUS
  <1>3. n - 1 \in Nat /\ ~(n <= n - 1)
    BY <1>2
  <1>4. n - 1 \in S
    BY <1>1, <1>3
  <1>5. (n - 1) + 1 \in S /\ (n - 1) + 1 = n
    BY <1>3, <1>4
  <1> QED
    BY <1>5

\* The value that G gives a function f at x depends on f at places of a lower rank.
DependsBelow(X, V, D, rank, G) ==
    /\ V # {} /\ D \in Nat /\ rank \in [X -> 0..D]
    /\ G \in [X \X [X -> V] -> V]
    /\ \A x \in X : \A f, g \in [X -> V] :
          (\A y \in X : rank[y] < rank[x] => f[y] = g[y]) => G[<<x, f>>] = G[<<x, g>>]

LEMMA RecursionExists ==
    ASSUME NEW X, NEW V, NEW D, NEW rank, NEW G, DependsBelow(X, V, D, rank, G)
    PROVE \E f \in [X -> V] : \A x \in X : f[x] = G[<<x, f>>]
  <1> USE DEF DependsBelow
  <1> DEFINE Holds(f, k) == \A x \in X : rank[x] < k => f[x] = G[<<x, f>>]
             reached == {k \in Nat : \E f \in [X -> V] : Holds(f, k)}
  <1>1. 0 \in reached
    <2>1. PICK v \in V : TRUE
      OBVIOUS
    <2>2. [x \in X |-> v] \in [X -> V] /\ Holds([x \in X |-> v], 0)
      BY <2>1
    <2> QED
      BY <2>2
  <1>2. ASSUME NEW k \in Nat, k \in reached PROVE k + 1 \in reached
    <2>1. PICK f \in [X -> V] : Holds(f, k)
      BY <1>2
    <2> DEFINE g == [x \in X |-> G[<<x, f>>]]
    <2>2. g \in [X -> V]
      OBVIOUS
    <2>3. \A y \in X : rank[y] < k => g[y] = f[y]
      BY <2>1
    <2>4. ASSUME NEW x \in X, rank[x] < k + 1 PROVE g[x] = G[<<x, g>>]
      <3>1. \A y \in X : rank[y] < rank[x] => rank[y] < k
        BY <2>4
      <3>2. \A y \in X : rank[y] < rank[x] => f[y] = g[y]
        BY <2>3, <3>1
      <3> HIDE DEF g
      <3>3. G[<<x, f>>] = G[<<x, g>>]
        BY <2>2, <3>2
      <3>4. g[x] = G[<<x, f>>]
        BY DEF g
      <3> QED
        BY <3>3, <3>4
    <2> HIDE DEF g
    <2>5. Holds(g, k + 1)
      BY <2>4
    <2> HIDE DEF Holds
    <2> QED
      BY <2>2, <2>5
  <1>3. D + 1 \in reached
    <2> HIDE DEF reached
    <2>1. Nat \subseteq reached
      BY <1>1, <1>2, AllNumbers
    <2> QED
      BY <2>1
  <1>4. PICK f \in [X -> V] : Holds(f, D + 1)
    BY <1>3
  <1>5. \A x \in X : rank[x] < D + 1
    OBVIOUS
  <1> QED
    BY <1>4, <1>5

-----------------------------------------------------------------------------
(* Trees.                                                                  *)

\* Parents have a lower number than their children.
Ranked(c, D, d) ==
    /\ d \in [Nodes -> 0..D]
    /\ \A p, n \in Nodes : n \in ChildrenOf(c, p) => d[p] < d[n]

LEMMA ChildrenAreNodes ==
    ASSUME NEW c, IsTree(c), NEW p \in Nodes
    PROVE ChildrenOf(c, p) \subseteq InTree(c) /\ InTree(c) \subseteq Nodes
  <1>1. \A n \in Nodes : Range(c[n]) \subseteq Nodes
    <2> SUFFICES ASSUME NEW n \in Nodes PROVE Range(c[n]) \subseteq Nodes
      OBVIOUS
    <2>1. c[n] \in Seq(Nodes)
      BY DEF IsTree
    <2> QED
      BY <2>1 DEF Range
  <1> QED
    BY <1>1, NodeTreeAssumption DEF ChildrenOf, InTree

LEMMA TreeIsRanked ==
    ASSUME NEW c, IsTree(c)
    PROVE \E D \in Nat : \E d : Ranked(c, D, d)
  <1> DEFINE In(s, d, k) == /\ d \in [Nodes -> 0..k]
                            /\ \A p, n \in s : n \in ChildrenOf(c, p) => d[p] < d[n]
             done == {k \in Nat : \A s \in SUBSET Nodes :
                                    Cardinality(s) = k => \E d : In(s, d, k)}
  <1>1. 0 \in done
    <2> SUFFICES ASSUME NEW s \in SUBSET Nodes, Cardinality(s) = 0
                 PROVE \E d : In(s, d, 0)
      OBVIOUS
    <2>1. s = {}
      BY FS_Subset, FS_EmptySet, NodeTreeAssumption
    <2>2. In(s, [n \in Nodes |-> 0], 0)
      BY <2>1
    <2> QED
      BY <2>2
  <1>2. ASSUME NEW k \in Nat, k \in done PROVE k + 1 \in done
    <2> SUFFICES ASSUME NEW s \in SUBSET Nodes, Cardinality(s) = k + 1
                 PROVE \E d : In(s, d, k + 1)
      OBVIOUS
    <2>1. IsFiniteSet(s) /\ s # {}
      BY FS_Subset, FS_EmptySet, NodeTreeAssumption
    <2>2. PICK top \in s : \A p \in s : top \notin ChildrenOf(c, p)
      BY <2>1 DEF IsTree
    <2>3. Cardinality(s \ {top}) = k
      BY <2>1, FS_RemoveElement
    <2>4. PICK d : In(s \ {top}, d, k)
      BY <1>2, <2>3
    <2> DEFINE e == [n \in Nodes |-> IF n = top THEN 0 ELSE d[n] + 1]
    <2>5. e \in [Nodes -> 0..(k + 1)]
      BY <2>4
    <2>6. ASSUME NEW p \in s, NEW n \in s, n \in ChildrenOf(c, p) PROVE e[p] < e[n]
      <3>1. n # top /\ n \in Nodes /\ p \in Nodes
        BY <2>2, <2>6
      <3>2. d[n] \in Nat /\ d[p] \in Nat
        BY <2>4, <3>1
      <3>3. p # top => d[p] < d[n]
        BY <2>4, <2>6, <3>1
      <3>4. e[n] = d[n] + 1 /\ e[p] = IF p = top THEN 0 ELSE d[p] + 1
        BY <3>1
      <3> QED
        BY <3>2, <3>3, <3>4
    <2> HIDE DEF e
    <2>7. In(s, e, k + 1)
      BY <2>5, <2>6
    <2> HIDE DEF In
    <2> QED
      BY <2>7
  <1>3. Cardinality(Nodes) \in done
    <2> HIDE DEF done
    <2>1. Nat \subseteq done
      BY <1>1, <1>2, AllNumbers
    <2> QED
      BY <2>1, FS_CardinalityType, NodeTreeAssumption
  <1>4. PICK d : In(Nodes, d, Cardinality(Nodes))
    BY <1>3
  <1> QED
    BY <1>4, FS_CardinalityType, NodeTreeAssumption DEF Ranked

\* The last conjunct of IsTree.
LEMMA RankedHasTops ==
    ASSUME NEW c, NEW D \in Nat, NEW d, Ranked(c, D, d), NEW s \in SUBSET Nodes, s # {}
    PROVE \E n \in s : \A p \in s : n \notin ChildrenOf(c, p)
  <1> DEFINE ranks == {d[n] : n \in s}
  <1>1. ranks \subseteq Nat /\ ranks # {}
    BY DEF Ranked
  <1> HIDE DEF ranks
  <1>2. PICK k \in ranks : \A m \in ranks : k <= m
    BY <1>1, LeastMember
  <1>3. PICK n \in s : d[n] = k
    BY <1>2 DEF ranks
  <1>4. ASSUME NEW p \in s PROVE n \notin ChildrenOf(c, p)
    <2>1. d[n] <= d[p]
      BY <1>2, <1>3 DEF ranks
    <2>2. d[n] \in Nat /\ d[p] \in Nat /\ (n \in ChildrenOf(c, p) => d[p] < d[n])
      BY DEF Ranked
    <2> QED
      BY <2>1, <2>2
  <1> QED
    BY <1>4

-----------------------------------------------------------------------------

\* Every member of the tree but the root is a child of its parent alone.
LEMMA ParentOfChild ==
    ASSUME NEW c, IsTree(c), NEW p \in Nodes, NEW n \in ChildrenOf(c, p)
    PROVE /\ ParentIn(c, n) = p /\ p # NoNode
          /\ \A q \in Nodes : n \in ChildrenOf(c, q) => q = p
  <1>1. ASSUME NEW q \in Nodes, n \in ChildrenOf(c, q) PROVE q = p
    <2>1. PICK i \in DOMAIN c[p] : c[p][i] = n
      BY DEF ChildrenOf, Range
    <2>2. PICK j \in DOMAIN c[q] : c[q][j] = n
      BY <1>1 DEF ChildrenOf, Range
    <2> QED
      BY <2>1, <2>2 DEF IsTree
  <1>2. (CHOOSE q \in Nodes : n \in ChildrenOf(c, q)) = p
    BY <1>1
  <1> QED
    BY <1>1, <1>2, NodeTreeAssumption DEF ParentIn

LEMMA ParentOfTop ==
    ASSUME NEW c, NEW n, \A p \in Nodes : n \notin ChildrenOf(c, p)
    PROVE ParentIn(c, n) = NoNode
  BY DEF ParentIn

LEMMA RootHasNoParent ==
    ASSUME NEW c, IsTree(c)
    PROVE ParentIn(c, Root) = NoNode
  BY ParentOfTop DEF IsTree

LEMMA ParentsExist ==
    ASSUME NEW c, IsTree(c), NEW n \in InTree(c), n # Root
    PROVE /\ ParentIn(c, n) \in InTree(c) /\ ParentIn(c, n) \in Nodes
          /\ n \in ChildrenOf(c, ParentIn(c, n))
  <1>1. PICK p \in Nodes : n \in ChildrenOf(c, p)
    BY DEF InTree, ChildrenOf
  <1>2. c[p] # <<>>
    BY <1>1 DEF ChildrenOf, Range
  <1>3. p \in InTree(c)
    BY <1>2 DEF IsTree
  <1> QED
    BY <1>1, <1>3, ParentOfChild

\* Induction from the root down.
LEMMA DownTheTree ==
    ASSUME NEW c, IsTree(c), NEW S,
           \A n \in Nodes : (\A p \in Nodes : n \in ChildrenOf(c, p) => p \in S) => n \in S
    PROVE Nodes \subseteq S
  <1> SUFFICES ASSUME Nodes \ S # {} PROVE FALSE
    OBVIOUS
  <1>1. PICK n \in Nodes \ S : \A p \in Nodes \ S : n \notin ChildrenOf(c, p)
    BY DEF IsTree
  <1> QED
    BY <1>1

\* Induction from the leaves up.
LEMMA UpTheTree ==
    ASSUME NEW c, IsTree(c), NEW S,
           \A n \in Nodes : ChildrenOf(c, n) \subseteq S => n \in S
    PROVE Nodes \subseteq S
  <1> SUFFICES ASSUME Nodes \ S # {} PROVE FALSE
    OBVIOUS
  <1>1. PICK D \in Nat : \E d : Ranked(c, D, d)
    BY TreeIsRanked
  <1>2. PICK d : Ranked(c, D, d)
    BY <1>1
  <1> DEFINE heights == {D - d[n] : n \in Nodes \ S}
  <1>3. \A n \in Nodes : d[n] \in 0..D
    BY <1>2 DEF Ranked
  <1>4. heights \subseteq Nat /\ heights # {}
    BY <1>3
  <1> HIDE DEF heights
  <1>5. PICK h \in heights : \A m \in heights : h <= m
    BY <1>4, LeastMember
  <1>6. PICK n \in Nodes \ S : h = D - d[n]
    BY <1>5 DEF heights
  <1>7. ASSUME NEW k \in ChildrenOf(c, n), k \notin S PROVE FALSE
    <2>1. k \in Nodes
      BY ChildrenAreNodes
    <2>2. d[n] < d[k] /\ D - d[n] <= D - d[k]
      BY <1>2, <1>5, <1>6, <1>7, <2>1 DEF Ranked, heights
    <2> QED
      BY <1>3, <2>1, <2>2
  <1> QED
    BY <1>6, <1>7

\* AncestorsIn() is what its recursive definition says.
LEMMA AncestorsUnfold ==
    ASSUME NEW c, IsTree(c)
    PROVE /\ \A n \in Nodes : AncestorsIn(c, n) \subseteq Nodes
          /\ \A n \in Nodes :
                AncestorsIn(c, n) = IF ParentIn(c, n) = NoNode THEN {}
                                    ELSE {ParentIn(c, n)} \union AncestorsIn(c, ParentIn(c, n))
  <1> DEFINE V == SUBSET Nodes
             next(k, f) == IF ParentIn(c, k) = NoNode THEN {}
                           ELSE {ParentIn(c, k)} \union f[ParentIn(c, k)]
             G == [a \in Nodes \X [Nodes -> V] |-> next(a[1], a[2])]
  <1>1. PICK D \in Nat : \E d : Ranked(c, D, d)
    BY TreeIsRanked
  <1>2. PICK d : Ranked(c, D, d)
    BY <1>1
  <1>3. \A k \in Nodes : ParentIn(c, k) # NoNode =>
            /\ ParentIn(c, k) \in Nodes /\ k \in ChildrenOf(c, ParentIn(c, k))
    BY ParentOfChild, ParentOfTop
  <1>4. \A k \in Nodes : \A f \in [Nodes -> V] : G[<<k, f>>] = next(k, f)
    OBVIOUS
  <1>5. G \in [Nodes \X [Nodes -> V] -> V]
    <2> SUFFICES ASSUME NEW k \in Nodes, NEW f \in [Nodes -> V] PROVE next(k, f) \in V
      OBVIOUS
    <2> QED
      BY <1>3
  <1>6. ASSUME NEW k \in Nodes, NEW f \in [Nodes -> V], NEW g \in [Nodes -> V],
               \A y \in Nodes : d[y] < d[k] => f[y] = g[y]
        PROVE G[<<k, f>>] = G[<<k, g>>]
    <2>1. ParentIn(c, k) # NoNode => d[ParentIn(c, k)] < d[k]
      BY <1>2, <1>3 DEF Ranked
    <2> QED
      BY <1>3, <1>4, <1>6, <2>1
  <1>7. V # {} /\ d \in [Nodes -> 0..D]
    BY <1>2 DEF Ranked
  <1> HIDE DEF G, V
  <1>8. \E f \in [Nodes -> V] : \A k \in Nodes : f[k] = G[<<k, f>>]
    <2>1. \A k \in Nodes : \A f, g \in [Nodes -> V] :
             (\A y \in Nodes : d[y] < d[k] => f[y] = g[y]) => G[<<k, f>>] = G[<<k, g>>]
      BY <1>6
    <2>2. DependsBelow(Nodes, V, D, d, G)
      BY <1>1, <1>5, <1>7, <2>1 DEF DependsBelow
    <2> QED
      BY <2>2, RecursionExists
  <1> DEFINE above == CHOOSE f : f = [k \in Nodes |-> next(k, f)]
  <1>9. \E f : f = [k \in Nodes |-> next(k, f)]
    <2>1. PICK f \in [Nodes -> V] : \A k \in Nodes : f[k] = G[<<k, f>>]
      BY <1>8
    <2>2. f = [k \in Nodes |-> next(k, f)]
      BY <1>4, <2>1
    <2> QED
      BY <2>2
  <1>10. above = [k \in Nodes |-> next(k, above)]
    <2> HIDE DEF next
    <2> QED
      BY <1>9
  <1>11. \A n : AncestorsIn(c, n) = above[n]
    BY DEF AncestorsIn
  <1> HIDE DEF above
  <1>12. \A n \in Nodes : above[n] = next(n, above)
    BY <1>10
  <1>13. Nodes \subseteq {n \in Nodes : above[n] \subseteq Nodes}
    <2> DEFINE S == {n \in Nodes : above[n] \subseteq Nodes}
    <2>1. ASSUME NEW n \in Nodes,
                 \A p \in Nodes : n \in ChildrenOf(c, p) => p \in S
          PROVE n \in S
      BY <1>3, <1>12, <2>1
    <2> HIDE DEF S
    <2>2. Nodes \subseteq S
      BY <2>1, DownTheTree
    <2> QED
      BY <2>2 DEF S
  <1> QED
    BY <1>11, <1>12, <1>13

LEMMA AncestorsOfChild ==
    ASSUME NEW c, IsTree(c), NEW p \in Nodes, NEW n \in ChildrenOf(c, p)
    PROVE AncestorsIn(c, n) = {p} \union AncestorsIn(c, p)
  <1>1. n \in Nodes
    BY ChildrenAreNodes
  <1> QED
    BY <1>1, AncestorsUnfold, ParentOfChild

LEMMA AncestorsOfTop ==
    ASSUME NEW c, IsTree(c), NEW n \in Nodes, \A p \in Nodes : n \notin ChildrenOf(c, p)
    PROVE AncestorsIn(c, n) = {}
  BY AncestorsUnfold, ParentOfTop

\* Whether a node has a parent or not.
LEMMA AncestorsCases ==
    ASSUME NEW c, IsTree(c), NEW n \in Nodes
    PROVE \/ AncestorsIn(c, n) = {} /\ \A p \in Nodes : n \notin ChildrenOf(c, p)
          \/ \E p \in Nodes : /\ n \in ChildrenOf(c, p)
                              /\ AncestorsIn(c, n) = {p} \union AncestorsIn(c, p)
  BY AncestorsOfChild, AncestorsOfTop

LEMMA AncestorsInTree ==
    ASSUME NEW c, IsTree(c), NEW n \in Nodes
    PROVE AncestorsIn(c, n) \subseteq InTree(c)
  <1> DEFINE S == {k \in Nodes : AncestorsIn(c, k) \subseteq InTree(c)}
  <1>1. ASSUME NEW k \in Nodes, \A p \in Nodes : k \in ChildrenOf(c, p) => p \in S
        PROVE k \in S
    <2>1. CASE AncestorsIn(c, k) = {}
      BY <2>1
    <2>2. CASE \E p \in Nodes : /\ k \in ChildrenOf(c, p)
                                /\ AncestorsIn(c, k) = {p} \union AncestorsIn(c, p)
      <3>1. PICK p \in Nodes : /\ k \in ChildrenOf(c, p)
                               /\ AncestorsIn(c, k) = {p} \union AncestorsIn(c, p)
        BY <2>2
      <3>2. c[p] # <<>>
        BY <3>1 DEF ChildrenOf, Range
      <3>3. p \in InTree(c)
        BY <3>2 DEF IsTree
      <3> QED
        BY <1>1, <3>1, <3>3
    <2> QED
      BY <2>1, <2>2, AncestorsCases
  <1> HIDE DEF S
  <1>2. Nodes \subseteq S
    BY <1>1, DownTheTree
  <1> QED
    BY <1>2 DEF S

\* The parent of an ancestor is one.
LEMMA AncestorsClosed ==
    ASSUME NEW c, IsTree(c), NEW n \in Nodes, NEW p \in Nodes, NEW a \in ChildrenOf(c, p),
           a \in AncestorsIn(c, n)
    PROVE p \in AncestorsIn(c, n)
  <1> DEFINE S == {k \in Nodes : a \in AncestorsIn(c, k) => p \in AncestorsIn(c, k)}
  <1>1. ASSUME NEW k \in Nodes, \A q \in Nodes : k \in ChildrenOf(c, q) => q \in S
        PROVE k \in S
    <2>1. CASE AncestorsIn(c, k) = {}
      BY <2>1
    <2>2. CASE \E q \in Nodes : /\ k \in ChildrenOf(c, q)
                                /\ AncestorsIn(c, k) = {q} \union AncestorsIn(c, q)
      <3>1. PICK q \in Nodes : /\ k \in ChildrenOf(c, q)
                               /\ AncestorsIn(c, k) = {q} \union AncestorsIn(c, q)
        BY <2>2
      <3>2. a = q => p \in AncestorsIn(c, q)
        BY AncestorsOfChild
      <3> QED
        BY <1>1, <3>1, <3>2
    <2> QED
      BY <2>1, <2>2, AncestorsCases
  <1> HIDE DEF S
  <1>2. Nodes \subseteq S
    BY <1>1, DownTheTree
  <1> QED
    BY <1>2 DEF S

LEMMA AncestorsTransitive ==
    ASSUME NEW c, IsTree(c), NEW n \in Nodes, NEW a \in AncestorsIn(c, n)
    PROVE AncestorsIn(c, a) \subseteq AncestorsIn(c, n)
  <1> DEFINE S == {k \in Nodes : k \in AncestorsIn(c, n) =>
                                    AncestorsIn(c, k) \subseteq AncestorsIn(c, n)}
  <1>1. ASSUME NEW k \in Nodes, \A q \in Nodes : k \in ChildrenOf(c, q) => q \in S
        PROVE k \in S
    <2>1. CASE AncestorsIn(c, k) = {}
      BY <2>1
    <2>2. CASE \E q \in Nodes : /\ k \in ChildrenOf(c, q)
                                /\ AncestorsIn(c, k) = {q} \union AncestorsIn(c, q)
      <3>1. PICK q \in Nodes : /\ k \in ChildrenOf(c, q)
                               /\ AncestorsIn(c, k) = {q} \union AncestorsIn(c, q)
        BY <2>2
      <3>2. k \in AncestorsIn(c, n) => q \in AncestorsIn(c, n)
        BY <3>1, AncestorsClosed
      <3> QED
        BY <1>1, <3>1, <3>2
    <2> QED
      BY <2>1, <2>2, AncestorsCases
  <1> HIDE DEF S
  <1>2. Nodes \subseteq S
    BY <1>1, DownTheTree
  <1>3. a \in Nodes
    BY AncestorsUnfold
  <1> QED
    BY <1>2, <1>3 DEF S

LEMMA AncestorsHaveLowerRank ==
    ASSUME NEW c, IsTree(c), NEW D \in Nat, NEW d, Ranked(c, D, d), NEW n \in Nodes,
           NEW a \in AncestorsIn(c, n)
    PROVE d[a] < d[n]
  <1> DEFINE S == {k \in Nodes : \A b \in AncestorsIn(c, k) : d[b] < d[k]}
  <1>0. \A k \in Nodes : d[k] \in Nat /\ AncestorsIn(c, k) \subseteq Nodes
    BY AncestorsUnfold DEF Ranked
  <1>1. ASSUME NEW k \in Nodes, \A q \in Nodes : k \in ChildrenOf(c, q) => q \in S
        PROVE k \in S
    <2>1. CASE AncestorsIn(c, k) = {}
      BY <2>1
    <2>2. CASE \E q \in Nodes : /\ k \in ChildrenOf(c, q)
                                /\ AncestorsIn(c, k) = {q} \union AncestorsIn(c, q)
      <3>1. PICK q \in Nodes : /\ k \in ChildrenOf(c, q)
                               /\ AncestorsIn(c, k) = {q} \union AncestorsIn(c, q)
        BY <2>2
      <3>2. d[q] < d[k]
        BY <3>1 DEF Ranked
      <3>3. \A b \in AncestorsIn(c, q) : d[b] < d[q] /\ d[b] \in Nat
        BY <1>0, <1>1, <3>1
      <3> QED
        BY <1>0, <3>1, <3>2, <3>3
    <2> QED
      BY <2>1, <2>2, AncestorsCases
  <1> HIDE DEF S
  <1>2. Nodes \subseteq S
    BY <1>1, DownTheTree
  <1> QED
    BY <1>2 DEF S

LEMMA NotOwnAncestor ==
    ASSUME NEW c, IsTree(c), NEW n \in Nodes
    PROVE n \notin AncestorsIn(c, n)
  <1>1. PICK D \in Nat : \E d : Ranked(c, D, d)
    BY TreeIsRanked
  <1>2. PICK d : Ranked(c, D, d)
    BY <1>1
  <1>3. d[n] \in Nat
    BY <1>2 DEF Ranked
  <1> QED
    BY <1>2, <1>3, AncestorsHaveLowerRank

LEMMA BelowHasChildren ==
    ASSUME NEW c, IsTree(c), NEW n \in Nodes, NEW k \in BelowIn(c, n), NEW m \in ChildrenOf(c, k)
    PROVE m \in BelowIn(c, n) /\ m # n
  <1>1. k \in Nodes /\ m \in InTree(c) /\ m \in Nodes
    BY ChildrenAreNodes DEF BelowIn
  <1>2. AncestorsIn(c, m) = {k} \union AncestorsIn(c, k)
    BY <1>1, AncestorsOfChild
  <1>3. n \in AncestorsIn(c, m)
    BY <1>2 DEF BelowIn
  <1> QED
    BY <1>1, <1>3, NotOwnAncestor DEF BelowIn

LEMMA BelowHasParents ==
    ASSUME NEW c, IsTree(c), NEW n \in Nodes, NEW m \in BelowIn(c, n), m # n,
           NEW q \in Nodes, m \in ChildrenOf(c, q)
    PROVE q \in BelowIn(c, n)
  <1>1. n \in {q} \union AncestorsIn(c, q)
    BY AncestorsOfChild DEF BelowIn
  <1>2. c[q] # <<>>
    BY DEF ChildrenOf, Range
  <1>3. q \in InTree(c)
    BY <1>2 DEF IsTree
  <1> QED
    BY <1>1, <1>3 DEF BelowIn

\* Trees that agree about the parents of some nodes agree about their ancestors.
LEMMA SameAncestors ==
    ASSUME NEW c, IsTree(c), NEW e, IsTree(e), NEW U, U \subseteq Nodes,
           \A n \in U : /\ ParentIn(e, n) = ParentIn(c, n)
                        /\ ParentIn(c, n) # NoNode => ParentIn(c, n) \in U
    PROVE \A n \in U : AncestorsIn(e, n) = AncestorsIn(c, n)
  <1> DEFINE S == {k \in Nodes : k \in U => AncestorsIn(e, k) = AncestorsIn(c, k)}
  <1>1. ASSUME NEW k \in Nodes, \A q \in Nodes : k \in ChildrenOf(c, q) => q \in S
        PROVE k \in S
    <2> SUFFICES ASSUME k \in U PROVE AncestorsIn(e, k) = AncestorsIn(c, k)
      OBVIOUS
    <2>1. CASE ParentIn(c, k) = NoNode
      BY <2>1, AncestorsUnfold
    <2>2. CASE ParentIn(c, k) # NoNode
      <3>1. ParentIn(c, k) \in Nodes /\ k \in ChildrenOf(c, ParentIn(c, k))
        BY <2>2, ParentOfChild, ParentOfTop
      <3>2. AncestorsIn(e, ParentIn(c, k)) = AncestorsIn(c, ParentIn(c, k))
        BY <1>1, <2>2, <3>1
      <3> QED
        BY <2>2, <3>2, AncestorsUnfold
    <2> QED
      BY <2>1, <2>2
  <1> HIDE DEF S
  <1>2. Nodes \subseteq S
    BY <1>1, DownTheTree
  <1> QED
    BY <1>2 DEF S

-----------------------------------------------------------------------------
(* Lists of children.                                                      *)

LEMMA RestIs ==
    ASSUME NEW T, NEW s \in Seq(T), NEW k \in 1..(Len(s) + 1)
    PROVE /\ SubSeq(s, k, Len(s)) \in Seq(T)
          /\ Len(SubSeq(s, k, Len(s))) = Len(s) - k + 1
          /\ \A i \in 1..(Len(s) - k + 1) : SubSeq(s, k, Len(s))[i] = s[i + k - 1]
  OBVIOUS

LEMMA ConcatIs ==
    ASSUME NEW T, NEW a \in Seq(T), NEW b \in Seq(T)
    PROVE /\ a \o b \in Seq(T) /\ Len(a \o b) = Len(a) + Len(b)
          /\ \A i \in 1..(Len(a) + Len(b)) :
                (a \o b)[i] = IF i <= Len(a) THEN a[i] ELSE b[i - Len(a)]
  OBVIOUS

LEMMA WithoutIs ==
    ASSUME NEW T, NEW s \in Seq(T), IsInjective(s), NEW n
    PROVE /\ Without(s, n) \in Seq(T) /\ IsInjective(Without(s, n))
          /\ Range(Without(s, n)) = Range(s) \ {n}
          /\ Len(Without(s, n)) <= Len(s)
  <1> DEFINE at == {i \in DOMAIN s : s[i] = n}
  <1>0. Len(s) \in Nat /\ DOMAIN s = 1..Len(s)
    OBVIOUS
  <1>1. CASE at = {}
    <2>1. Without(s, n) = s
      BY <1>1 DEF Without
    <2>2. n \notin Range(s)
      BY <1>1 DEF Range
    <2> QED
      BY <1>0, <2>1, <2>2
  <1>2. CASE at # {}
    <2> DEFINE k == CHOOSE i \in at : TRUE
               w == Without(s, n)
               a == SubSeq(s, 1, k - 1)
               b == SubSeq(s, k + 1, Len(s))
    <2>1. k \in 1..Len(s) /\ s[k] = n
      BY <1>0, <1>2
    <2>2. w = a \o b
      BY <1>2 DEF Without, RemoveAt
    <2> HIDE DEF k, at, w
    <2>3. /\ a \in Seq(T) /\ Len(a) = k - 1
          /\ \A i \in 1..(k - 1) : a[i] = s[i]
      BY <2>1, <1>0
    <2>4. /\ b \in Seq(T) /\ Len(b) = Len(s) - k
          /\ \A i \in 1..(Len(s) - k) : b[i] = s[i + k]
      <3>1. k + 1 \in 1..(Len(s) + 1) /\ k \in Nat
        BY <2>1, <1>0
      <3>2. /\ b \in Seq(T) /\ Len(b) = Len(s) - (k + 1) + 1
            /\ \A i \in 1..(Len(s) - (k + 1) + 1) : b[i] = s[i + (k + 1) - 1]
        BY <3>1, RestIs
      <3>3. /\ Len(s) - (k + 1) + 1 = Len(s) - k
            /\ \A i \in Nat : i + (k + 1) - 1 = i + k
        BY <3>1, <1>0
      <3> QED
        BY <3>2, <3>3
    <2> HIDE DEF a, b
    <2>5. w \in Seq(T) /\ Len(w) = Len(s) - 1 /\ DOMAIN w = 1..(Len(s) - 1)
      <3>0. w \in Seq(T) /\ Len(w) = Len(a) + Len(b)
        BY <2>2, <2>3, <2>4, ConcatIs
      <3>1. w \in Seq(T) /\ Len(w) = Len(a) + Len(b) /\ DOMAIN w = 1..Len(w)
        BY <3>0
      <3>2. k \in Nat
        BY <2>1, <1>0
      <3> QED
        BY <3>1, <3>2, <2>3, <2>4, <1>0
    <2>6. \A i \in 1..(Len(s) - 1) : w[i] = IF i < k THEN s[i] ELSE s[i + 1]
      <3> SUFFICES ASSUME NEW i \in 1..(Len(s) - 1)
                   PROVE w[i] = IF i < k THEN s[i] ELSE s[i + 1]
        OBVIOUS
      <3>1. CASE i < k
        BY <2>1, <2>2, <2>3, <2>4, <1>0, <3>1
      <3>2. CASE ~(i < k)
        <4>1. i - (k - 1) \in 1..(Len(s) - k) /\ (i - (k - 1)) + k = i + 1
          BY <2>1, <1>0, <3>2
        <4>2. w[i] = b[i - (k - 1)]
          BY <2>1, <2>2, <2>3, <2>4, <1>0, <3>2
        <4> QED
          BY <2>4, <3>2, <4>1, <4>2
      <3> QED
        BY <3>1, <3>2
    <2>7. IsInjective(w)
      <3> SUFFICES ASSUME NEW i \in 1..(Len(s) - 1), NEW j \in 1..(Len(s) - 1), w[i] = w[j]
                   PROVE i = j
        BY <2>5 DEF IsInjective
      <3> DEFINE from(x) == IF x < k THEN x ELSE x + 1
      <3>1. from(i) \in DOMAIN s /\ from(j) \in DOMAIN s
        BY <1>0, <2>1
      <3>2. s[from(i)] = s[from(j)]
        BY <2>6
      <3>3. from(i) = from(j)
        BY <3>1, <3>2 DEF IsInjective
      <3> QED
        BY <3>3, <2>1
    <2>8. Range(w) = Range(s) \ {n}
      <3>1. ASSUME NEW i \in 1..(Len(s) - 1) PROVE w[i] \in Range(s) \ {n}
        <4> DEFINE x == IF i < k THEN i ELSE i + 1
        <4>1. x \in DOMAIN s /\ x # k /\ k \in DOMAIN s
          BY <1>0, <2>1
        <4>2. w[i] = s[x]
          BY <2>6
        <4> HIDE DEF x
        <4>3. s[x] # s[k]
          BY <4>1 DEF IsInjective
        <4> QED
          BY <2>1, <4>1, <4>2, <4>3 DEF Range
      <3>2. ASSUME NEW x \in DOMAIN s, s[x] # n PROVE s[x] \in Range(w)
        <4> DEFINE i == IF x < k THEN x ELSE x - 1
        <4>1. i \in 1..(Len(s) - 1) /\ x = IF i < k THEN i ELSE i + 1
          <5>1. x # k /\ x \in 1..Len(s)
            BY <3>2, <2>1, <1>0
          <5> QED
            BY <5>1, <2>1, <1>0
        <4> HIDE DEF i
        <4>2. w[i] = s[x]
          BY <2>6, <4>1
        <4> QED
          BY <2>5, <4>1, <4>2 DEF Range
      <3>3. \A e \in Range(w) : \E i \in 1..(Len(s) - 1) : e = w[i]
        BY <2>5 DEF Range
      <3>4. \A e \in Range(s) : \E x \in DOMAIN s : e = s[x]
        BY DEF Range
      <3> QED
        BY <3>1, <3>2, <3>3, <3>4
    <2>9. Len(w) <= Len(s)
      BY <2>5, <1>0
    <2> QED
      BY <2>5, <2>7, <2>8, <2>9 DEF w
  <1> QED
    BY <1>1, <1>2

LEMMA InsertAtIs ==
    ASSUME NEW T, NEW s \in Seq(T), IsInjective(s), NEW n \in T, n \notin Range(s),
           NEW k \in 1..(Len(s) + 1)
    PROVE /\ InsertAt(s, k, n) \in Seq(T) /\ IsInjective(InsertAt(s, k, n))
          /\ Range(InsertAt(s, k, n)) = Range(s) \union {n}
  <1> DEFINE w == InsertAt(s, k, n)
             a == SubSeq(s, 1, k - 1)
             b == SubSeq(s, k, Len(s))
  <1>0. Len(s) \in Nat /\ DOMAIN s = 1..Len(s) /\ k \in Nat
    OBVIOUS
  <1>2. w = (a \o <<n>>) \o b
    BY DEF InsertAt
  <1>3. /\ a \in Seq(T) /\ Len(a) = k - 1
        /\ \A i \in 1..(k - 1) : a[i] = s[i]
    BY <1>0
  <1>4. /\ b \in Seq(T) /\ Len(b) = Len(s) - k + 1
        /\ \A i \in 1..(Len(s) - k + 1) : b[i] = s[i + k - 1]
    BY <1>0
  <1> HIDE DEF a, b, w
  <1> DEFINE front == a \o <<n>>
  <1>5. /\ front \in Seq(T) /\ Len(front) = k
        /\ \A i \in 1..k : front[i] = IF i < k THEN s[i] ELSE n
    BY <1>0, <1>3
  <1> HIDE DEF front
  <1>6. w \in Seq(T) /\ Len(w) = Len(s) + 1 /\ DOMAIN w = 1..(Len(s) + 1)
    <2>1. w = front \o b
      BY <1>2 DEF front
    <2> QED
      BY <2>1, <1>0, <1>4, <1>5
  <1>7. \A i \in 1..(Len(s) + 1) :
            w[i] = IF i < k THEN s[i] ELSE IF i = k THEN n ELSE s[i - 1]
    <2> SUFFICES ASSUME NEW i \in 1..(Len(s) + 1)
                 PROVE w[i] = IF i < k THEN s[i] ELSE IF i = k THEN n ELSE s[i - 1]
      OBVIOUS
    <2>1. w = front \o b
      BY <1>2 DEF front
    <2>2. CASE i <= k
      <3>1. w[i] = front[i]
        BY <2>1, <2>2, <1>0, <1>4, <1>5
      <3> QED
        BY <3>1, <2>2, <1>0, <1>5
    <2>3. CASE ~(i <= k)
      <3>1. w[i] = b[i - k]
        BY <2>1, <2>3, <1>0, <1>4, <1>5
      <3>2. i - k \in 1..(Len(s) - k + 1) /\ (i - k) + k - 1 = i - 1
        BY <2>3, <1>0
      <3> QED
        BY <3>1, <3>2, <2>3, <1>0, <1>4
    <2> QED
      BY <2>2, <2>3
  <1>8. \A i \in DOMAIN s : s[i] # n
    BY DEF Range
  <1>9. IsInjective(w)
    <2> SUFFICES ASSUME NEW i \in 1..(Len(s) + 1), NEW j \in 1..(Len(s) + 1), w[i] = w[j]
                 PROVE i = j
      BY <1>6 DEF IsInjective
    <2> DEFINE from(x) == IF x < k THEN x ELSE x - 1
    <2>1. \A x \in 1..(Len(s) + 1) :
              x # k => from(x) \in DOMAIN s /\ w[x] = s[from(x)]
      BY <1>0, <1>7
    <2>2. w[k] = n
      BY <1>0, <1>7
    <2>3. (i = k) <=> (j = k)
      BY <1>8, <2>1, <2>2
    <2>4. i # k => from(i) = from(j)
      BY <2>1, <2>3 DEF IsInjective
    <2> QED
      BY <2>3, <2>4, <1>0
  <1>10. Range(w) = Range(s) \union {n}
    <2>1. ASSUME NEW i \in 1..(Len(s) + 1) PROVE w[i] \in Range(s) \union {n}
      <3> DEFINE x == IF i < k THEN i ELSE i - 1
      <3>1. i # k => x \in DOMAIN s /\ w[i] = s[x]
        BY <1>0, <1>7
      <3>2. i = k => w[i] = n
        BY <1>0, <1>7
      <3> QED
        BY <3>1, <3>2 DEF Range
    <2>2. ASSUME NEW x \in DOMAIN s PROVE s[x] \in Range(w)
      <3> DEFINE i == IF x < k THEN x ELSE x + 1
      <3>1. i \in DOMAIN w /\ w[i] = s[x]
        BY <1>0, <1>6, <1>7
      <3> QED
        BY <3>1 DEF Range
    <2>3. n \in Range(w)
      <3>1. k \in DOMAIN w /\ w[k] = n
        BY <1>0, <1>6, <1>7
      <3> QED
        BY <3>1 DEF Range
    <2>4. \A e \in Range(w) : \E i \in 1..(Len(s) + 1) : e = w[i]
      BY <1>6 DEF Range
    <2>5. \A e \in Range(s) : \E x \in DOMAIN s : e = s[x]
      BY DEF Range
    <2> QED
      BY <2>1, <2>2, <2>3, <2>4, <2>5
  <1> QED
    BY <1>6, <1>9, <1>10 DEF w

-----------------------------------------------------------------------------
(* Changes of trees.                                                       *)

\* What holds of the lists while a node is between two places.
Lists(c) ==
    /\ c \in [Nodes -> Seq(Nodes)]
    /\ \A p \in Nodes : IsInjective(c[p]) /\ Root \notin ChildrenOf(c, p)
    /\ \A p, q \in Nodes : p = q \/ ChildrenOf(c, p) \intersect ChildrenOf(c, q) = {}

LEMMA TreeHasLists ==
    ASSUME NEW c, IsTree(c)
    PROVE Lists(c)
  <1>1. \A p \in Nodes : IsInjective(c[p])
    BY DEF IsTree, IsInjective
  <1>2. ASSUME NEW p \in Nodes, NEW q \in Nodes, p # q
        PROVE ChildrenOf(c, p) \intersect ChildrenOf(c, q) = {}
    BY <1>2, ParentOfChild
  <1> QED
    BY <1>1, <1>2 DEF IsTree, Lists

LEMMA ListsMakeTree ==
    ASSUME NEW e, Lists(e), \A n \in Nodes : e[n] = <<>> \/ n \in InTree(e),
           NEW D \in Nat, NEW d, Ranked(e, D, d)
    PROVE IsTree(e)
  <1>1. ASSUME NEW p \in Nodes, NEW q \in Nodes, NEW i \in DOMAIN e[p], NEW j \in DOMAIN e[q],
               e[p][i] = e[q][j]
        PROVE p = q /\ i = j
    <2>1. e[p][i] \in ChildrenOf(e, p) /\ e[q][j] \in ChildrenOf(e, q)
      BY DEF ChildrenOf, Range
    <2>2. p = q
      BY <1>1, <2>1 DEF Lists
    <2> QED
      BY <1>1, <2>2 DEF Lists, IsInjective
  <1>2. \A s \in SUBSET Nodes :
            s = {} \/ \E n \in s : \A p \in s : n \notin ChildrenOf(e, p)
    BY RankedHasTops
  <1> QED
    BY <1>1, <1>2 DEF IsTree, Lists

LEMMA ListsWithout ==
    ASSUME NEW c, Lists(c), NEW n, NEW e, DOMAIN e = Nodes, e = [k \in Nodes |-> e[k]],
           \A k \in Nodes : e[k] \in {c[k], <<>>, Without(c[k], n)}
    PROVE /\ Lists(e)
          /\ \A k \in Nodes : /\ ChildrenOf(e, k) \subseteq ChildrenOf(c, k)
                              /\ e[k] = Without(c[k], n) =>
                                    ChildrenOf(e, k) = ChildrenOf(c, k) \ {n}
  <1>1. ASSUME NEW k \in Nodes
        PROVE /\ e[k] \in Seq(Nodes) /\ IsInjective(e[k])
              /\ ChildrenOf(e, k) \subseteq ChildrenOf(c, k)
              /\ e[k] = Without(c[k], n) => ChildrenOf(e, k) = ChildrenOf(c, k) \ {n}
    <2>1. c[k] \in Seq(Nodes) /\ IsInjective(c[k])
      BY DEF Lists
    <2>2. /\ Without(c[k], n) \in Seq(Nodes) /\ IsInjective(Without(c[k], n))
          /\ Range(Without(c[k], n)) = Range(c[k]) \ {n}
      BY <2>1, WithoutIs
    <2>3. /\ <<>> \in Seq(Nodes) /\ IsInjective(<<>>) /\ Range(<<>>) = {}
      BY DEF IsInjective, Range
    <2>4. CASE e[k] = c[k]
      BY <2>1, <2>2, <2>4 DEF ChildrenOf
    <2>5. CASE e[k] = <<>>
      BY <2>2, <2>3, <2>5 DEF ChildrenOf
    <2>6. CASE e[k] = Without(c[k], n)
      BY <2>2, <2>6 DEF ChildrenOf
    <2> QED
      BY <2>4, <2>5, <2>6
  <1>2. e \in [Nodes -> Seq(Nodes)]
    BY <1>1
  <1>3. \A p \in Nodes : Root \notin ChildrenOf(e, p)
    BY <1>1 DEF Lists
  <1>4. \A p, q \in Nodes : p = q \/ ChildrenOf(e, p) \intersect ChildrenOf(e, q) = {}
    <2> SUFFICES ASSUME NEW p \in Nodes, NEW q \in Nodes, p # q
                 PROVE ChildrenOf(e, p) \intersect ChildrenOf(e, q) = {}
      OBVIOUS
    <2>1. ChildrenOf(c, p) \intersect ChildrenOf(c, q) = {}
      BY DEF Lists
    <2> QED
      BY <1>1, <2>1
  <1> QED
    BY <1>1, <1>2, <1>3, <1>4 DEF Lists

Inserted(c, e, p, n, pos) == e = [c EXCEPT ![p] = InsertAt(@, pos, n)]

LEMMA ListsInserted ==
    ASSUME NEW c, Lists(c), NEW p \in Nodes, NEW n \in Nodes \ {Root},
           \A q \in Nodes : n \notin ChildrenOf(c, q), NEW pos \in 1..(Len(c[p]) + 1),
           NEW e, Inserted(c, e, p, n, pos)
    PROVE /\ Lists(e)
          /\ \A q \in Nodes : ChildrenOf(e, q) = IF q = p THEN ChildrenOf(c, p) \union {n}
                                                 ELSE ChildrenOf(c, q)
  <1>1. c[p] \in Seq(Nodes) /\ IsInjective(c[p]) /\ n \notin Range(c[p])
    BY DEF Lists, ChildrenOf
  <1>2. /\ InsertAt(c[p], pos, n) \in Seq(Nodes) /\ IsInjective(InsertAt(c[p], pos, n))
        /\ Range(InsertAt(c[p], pos, n)) = Range(c[p]) \union {n}
    BY <1>1, InsertAtIs
  <1>3. /\ e \in [Nodes -> Seq(Nodes)] /\ e[p] = InsertAt(c[p], pos, n)
        /\ \A q \in Nodes : q # p => e[q] = c[q]
    BY <1>2 DEF Lists, Inserted
  <1>4. \A q \in Nodes : ChildrenOf(e, q) = IF q = p THEN ChildrenOf(c, p) \union {n}
                                            ELSE ChildrenOf(c, q)
    BY <1>2, <1>3 DEF ChildrenOf
  <1>5. \A q \in Nodes : IsInjective(e[q]) /\ Root \notin ChildrenOf(e, q)
    BY <1>2, <1>3, <1>4 DEF Lists
  <1>6. ASSUME NEW q \in Nodes, NEW r \in Nodes, q # r
        PROVE ChildrenOf(e, q) \intersect ChildrenOf(e, r) = {}
    <2>1. ChildrenOf(c, q) \intersect ChildrenOf(c, r) = {}
      BY <1>6 DEF Lists
    <2> QED
      BY <1>4, <1>6, <2>1
  <1>7. Lists(e)
    BY <1>3, <1>5, <1>6 DEF Lists
  <1> QED
    BY <1>4, <1>7

\* The members of a tree are the root and the children.
LEMMA InTreeIs ==
    ASSUME NEW c, NEW n
    PROVE n \in InTree(c) <=> (n = Root \/ \E p \in Nodes : n \in ChildrenOf(c, p))
  BY DEF InTree, ChildrenOf

\* A new leaf.
LEMMA AddedTree ==
    ASSUME NEW c, IsTree(c), NEW p \in InTree(c), NEW n \in Nodes \ InTree(c),
           NEW pos \in 1..(Len(c[p]) + 1),
           NEW e, Inserted(c, e, p, n, pos)
    PROVE /\ IsTree(e) /\ InTree(e) = InTree(c) \union {n}
          /\ \A q \in Nodes : ChildrenOf(e, q) = IF q = p THEN ChildrenOf(c, p) \union {n}
                                                 ELSE ChildrenOf(c, q)
          /\ \A k \in InTree(c) : AncestorsIn(e, k) = AncestorsIn(c, k)
          /\ ParentIn(e, n) = p
  <1>1. p \in Nodes /\ n \in Nodes /\ n # p /\ n # Root /\ Lists(c)
    BY ChildrenAreNodes, TreeHasLists DEF InTree
  <1>2. c \in [Nodes -> Seq(Nodes)] /\ c[n] = <<>>
    BY DEF IsTree
  <1>4. \A q \in Nodes : n \notin ChildrenOf(c, q)
    BY InTreeIs
  <1>5. /\ Lists(e)
        /\ \A q \in Nodes : ChildrenOf(e, q) = IF q = p THEN ChildrenOf(c, p) \union {n}
                                               ELSE ChildrenOf(c, q)
    BY <1>1, <1>4, ListsInserted
  <1>6. \A k \in Nodes : k # p => e[k] = c[k]
    BY <1>2 DEF Inserted
  <1>7. \A k : k \in InTree(e) <=> (k \in InTree(c) \/ k = n)
    BY <1>1, <1>5, InTreeIs
  <1>8. \A k \in Nodes : e[k] = <<>> \/ k \in InTree(e)
    BY <1>6, <1>7 DEF IsTree
  <1>9. \E D \in Nat : \E d : Ranked(e, D, d)
    <2>1. PICK D \in Nat : \E d : Ranked(c, D, d)
      BY TreeIsRanked
    <2>2. PICK d : Ranked(c, D, d)
      BY <2>1
    <2> DEFINE r == [k \in Nodes |-> IF k = n THEN D + 1 ELSE d[k]]
    <2>3. r \in [Nodes -> 0..(D + 1)]
      BY <2>2 DEF Ranked
    <2>4. ASSUME NEW q \in Nodes, NEW k \in Nodes, k \in ChildrenOf(e, q) PROVE r[q] < r[k]
      <3>1. q # n
        <4>1. ChildrenOf(c, n) = {}
          BY <1>2 DEF ChildrenOf, Range
        <4> QED
          BY <1>1, <1>5, <2>4, <4>1
      <3>2. d[q] \in 0..D /\ r[q] = d[q]
        BY <2>2, <3>1 DEF Ranked
      <3>3. CASE k = n
        BY <3>2, <3>3
      <3>4. CASE k # n
        BY <1>5, <2>2, <2>4, <3>2, <3>4 DEF Ranked
      <3> QED
        BY <3>3, <3>4
    <2> HIDE DEF r
    <2>5. Ranked(e, D + 1, r)
      BY <2>3, <2>4 DEF Ranked
    <2> QED
      BY <2>5
  <1>10. IsTree(e)
    BY <1>5, <1>8, <1>9, ListsMakeTree
  <1>11. ASSUME NEW k \in InTree(c)
         PROVE /\ ParentIn(e, k) = ParentIn(c, k)
               /\ ParentIn(c, k) # NoNode => ParentIn(c, k) \in InTree(c)
    <2>1. CASE k = Root
      BY <2>1, <1>10, RootHasNoParent
    <2>2. CASE k # Root
      <3>1. /\ ParentIn(c, k) \in InTree(c) /\ ParentIn(c, k) \in Nodes
            /\ k \in ChildrenOf(c, ParentIn(c, k))
        BY <2>2, ParentsExist
      <3>2. k \in ChildrenOf(e, ParentIn(c, k))
        BY <1>5, <3>1
      <3> QED
        BY <3>1, <3>2, <1>10, ParentOfChild
    <2> QED
      BY <2>1, <2>2
  <1>12. \A k \in InTree(c) : AncestorsIn(e, k) = AncestorsIn(c, k)
    <2>1. InTree(c) \subseteq Nodes
      BY <1>1, ChildrenAreNodes
    <2> QED
      BY <1>10, <1>11, <2>1, SameAncestors
  <1>13. ParentIn(e, n) = p
    BY <1>1, <1>5, <1>10, ParentOfChild
  <1>14. InTree(e) = InTree(c) \union {n}
    BY <1>7
  <1> QED
    BY <1>5, <1>10, <1>12, <1>13, <1>14

LEMMA WithoutEmpty ==
    ASSUME NEW n
    PROVE Without(<<>>, n) = <<>>
  BY DEF Without

LEMMA RootIsNotBelow ==
    ASSUME NEW c, IsTree(c), NEW n, n # Root
    PROVE Root \notin BelowIn(c, n)
  <1>1. AncestorsIn(c, Root) = {}
    BY AncestorsOfTop, NodeTreeAssumption DEF IsTree
  <1> QED
    BY <1>1 DEF BelowIn

\* A subtree goes.
Removed(c, e, n) ==
    e = [k \in Nodes |-> IF k \in BelowIn(c, n) THEN <<>> ELSE Without(c[k], n)]

LEMMA RemovedTree ==
    ASSUME NEW c, IsTree(c), NEW n \in InTree(c) \ {Root}, NEW e, Removed(c, e, n)
    PROVE /\ IsTree(e) /\ InTree(e) = InTree(c) \ BelowIn(c, n)
          /\ \A k \in InTree(e) : /\ ChildrenOf(e, k) = ChildrenOf(c, k) \ {n}
                                  /\ AncestorsIn(e, k) = AncestorsIn(c, k)
  <1> DEFINE gone == BelowIn(c, n)
  <1>1. n \in Nodes /\ InTree(c) \subseteq Nodes /\ Lists(c) /\ n \in gone /\ Root \notin gone
    BY ChildrenAreNodes, NodeTreeAssumption, TreeHasLists, RootIsNotBelow DEF BelowIn
  <1>2. /\ DOMAIN e = Nodes /\ e = [k \in Nodes |-> e[k]]
        /\ \A k \in gone : k \in Nodes => e[k] = <<>>
        /\ \A k \in Nodes \ gone : e[k] = Without(c[k], n)
    BY DEF Removed
  <1>3. \A q \in Nodes : \A k \in ChildrenOf(c, q) :
            /\ q \in gone => k \in gone
            /\ k \in gone /\ k # n => q \in gone
    BY <1>1, BelowHasChildren, BelowHasParents
  <1> HIDE DEF gone
  <1>4. /\ Lists(e)
        /\ \A k \in Nodes : /\ ChildrenOf(e, k) \subseteq ChildrenOf(c, k)
                            /\ k \notin gone => ChildrenOf(e, k) = ChildrenOf(c, k) \ {n}
    <2>1. \A k \in Nodes : e[k] \in {c[k], <<>>, Without(c[k], n)}
      BY <1>2
    <2>2. /\ Lists(e)
          /\ \A k \in Nodes : /\ ChildrenOf(e, k) \subseteq ChildrenOf(c, k)
                              /\ e[k] = Without(c[k], n) =>
                                    ChildrenOf(e, k) = ChildrenOf(c, k) \ {n}
      BY <1>1, <1>2, <2>1, ListsWithout
    <2> QED
      BY <1>2, <2>2
  <1>5. \A k \in Nodes : k \in gone => ChildrenOf(e, k) = {}
    BY <1>2 DEF ChildrenOf, Range
  <1>6. ASSUME NEW k \in InTree(e) PROVE k \in InTree(c) \ gone
    <2>1. CASE k = Root
      BY <2>1, <1>1, InTreeIs
    <2>2. CASE k # Root
      <3>1. PICK q \in Nodes : k \in ChildrenOf(e, q)
        BY <2>2, InTreeIs
      <3>2. q \notin gone /\ k \in ChildrenOf(c, q) /\ k # n
        BY <3>1, <1>4, <1>5
      <3> QED
        BY <3>2, <1>3, InTreeIs
    <2> QED
      BY <2>1, <2>2
  <1>7. ASSUME NEW k \in InTree(c) \ gone
        PROVE /\ k \in InTree(e)
              /\ k # Root => /\ ParentIn(c, k) \in Nodes \ gone
                             /\ k \in ChildrenOf(e, ParentIn(c, k))
    <2>1. CASE k = Root
      BY <2>1, InTreeIs
    <2>2. CASE k # Root
      <3>1. ParentIn(c, k) \in Nodes /\ k \in ChildrenOf(c, ParentIn(c, k))
        BY <2>2, ParentsExist
      <3>2. ParentIn(c, k) \notin gone /\ k # n
        BY <3>1, <1>1, <1>3
      <3>3. k \in ChildrenOf(e, ParentIn(c, k))
        BY <3>1, <3>2, <1>4
      <3> QED
        BY <3>1, <3>2, <3>3, InTreeIs
    <2> QED
      BY <2>1, <2>2
  <1>8. InTree(e) = InTree(c) \ gone
    BY <1>6, <1>7
  <1>9. ASSUME NEW k \in Nodes PROVE e[k] = <<>> \/ k \in InTree(e)
    <2>1. CASE k \in gone
      BY <2>1, <1>2
    <2>2. CASE k \notin gone
      <3>1. c[k] = <<>> => e[k] = <<>>
        BY <2>2, <1>2, WithoutEmpty
      <3> QED
        BY <2>2, <3>1, <1>8 DEF IsTree
    <2> QED
      BY <2>1, <2>2
  <1>10. IsTree(e)
    <2>1. PICK D \in Nat : \E d : Ranked(c, D, d)
      BY TreeIsRanked
    <2>2. PICK d : Ranked(c, D, d)
      BY <2>1
    <2>3. Ranked(e, D, d)
      BY <2>2, <1>4 DEF Ranked
    <2> QED
      BY <2>1, <2>3, <1>4, <1>9, ListsMakeTree
  <1>11. ASSUME NEW k \in InTree(e)
         PROVE /\ ParentIn(e, k) = ParentIn(c, k)
               /\ ParentIn(c, k) # NoNode => ParentIn(c, k) \in InTree(e)
    <2>1. CASE k = Root
      BY <2>1, <1>10, RootHasNoParent
    <2>2. CASE k # Root
      <3>1. /\ ParentIn(c, k) \in Nodes \ gone
            /\ k \in ChildrenOf(e, ParentIn(c, k))
        BY <2>2, <1>7, <1>8
      <3>2. ParentIn(c, k) \in InTree(c)
        BY <2>2, <1>8, ParentsExist
      <3> QED
        BY <3>1, <3>2, <1>8, <1>10, ParentOfChild
    <2> QED
      BY <2>1, <2>2
  <1>12. \A k \in InTree(e) : AncestorsIn(e, k) = AncestorsIn(c, k)
    <2>1. InTree(e) \subseteq Nodes
      BY <1>1, <1>8
    <2> QED
      BY <1>10, <1>11, <2>1, SameAncestors
  <1> QED
    BY <1>1, <1>4, <1>8, <1>10, <1>12 DEF gone

\* A subtree moves under a node that is not in it.
Moved(c, e, n, p, pos) ==
    LET w == [c EXCEPT ![ParentIn(c, n)] = Without(@, n)]
    IN  pos \in 1..(Len(w[p]) + 1) /\ Inserted(w, e, p, n, pos)

LEMMA MovedTree ==
    ASSUME NEW c, IsTree(c), NEW n \in InTree(c) \ {Root}, NEW p \in InTree(c) \ BelowIn(c, n),
           NEW e, NEW pos, Moved(c, e, n, p, pos)
    PROVE /\ IsTree(e) /\ InTree(e) = InTree(c)
          /\ \A k \in Nodes : ChildrenOf(e, k) = IF k = p THEN ChildrenOf(c, k) \union {n}
                                                 ELSE ChildrenOf(c, k) \ {n}
          /\ \A k \in InTree(c) \ BelowIn(c, n) : AncestorsIn(e, k) = AncestorsIn(c, k)
  <1> DEFINE gone == BelowIn(c, n)
             q0 == ParentIn(c, n)
             w == [c EXCEPT ![q0] = Without(@, n)]
  <1>1. /\ n \in Nodes /\ InTree(c) \subseteq Nodes /\ Lists(c) /\ n \in gone /\ Root \notin gone
        /\ p \in Nodes /\ n # Root /\ c \in [Nodes -> Seq(Nodes)]
    BY ChildrenAreNodes, NodeTreeAssumption, TreeHasLists, RootIsNotBelow DEF BelowIn, IsTree
  <1>2. q0 \in Nodes /\ n \in ChildrenOf(c, q0)
    BY ParentsExist
  <1>3. \A q \in Nodes : q # q0 => n \notin ChildrenOf(c, q)
    BY <1>2, ParentOfChild
  <1>4. \A q \in Nodes : \A k \in ChildrenOf(c, q) :
            /\ q \in gone => k \in gone /\ k # n
            /\ k \in gone /\ k # n => q \in gone
    BY <1>1, BelowHasChildren, BelowHasParents
  <1>5. /\ DOMAIN w = Nodes /\ w = [k \in Nodes |-> w[k]]
        /\ w[q0] = Without(c[q0], n)
        /\ \A k \in Nodes : k # q0 => w[k] = c[k]
    BY <1>1, <1>2
  <1>6. pos \in 1..(Len(w[p]) + 1) /\ Inserted(w, e, p, n, pos)
    BY DEF Moved
  <1> HIDE DEF gone, q0, w
  <1>7. /\ Lists(w)
        /\ \A k \in Nodes : ChildrenOf(w, k) = ChildrenOf(c, k) \ {n}
    <2>1. \A k \in Nodes : w[k] \in {c[k], <<>>, Without(c[k], n)}
      BY <1>5
    <2>2. /\ Lists(w)
          /\ \A k \in Nodes : /\ ChildrenOf(w, k) \subseteq ChildrenOf(c, k)
                              /\ w[k] = Without(c[k], n) =>
                                    ChildrenOf(w, k) = ChildrenOf(c, k) \ {n}
      <3>1. Lists(c) /\ DOMAIN w = Nodes /\ w = [k \in Nodes |-> w[k]]
        BY <1>1, <1>5
      <3> QED
        BY <3>1, <2>1, ListsWithout
    <2>3. \A k \in Nodes : k # q0 => ChildrenOf(w, k) = ChildrenOf(c, k)
      BY <1>5 DEF ChildrenOf
    <2> QED
      BY <1>3, <1>5, <2>2, <2>3
  <1>8. /\ Lists(e)
        /\ \A q \in Nodes : ChildrenOf(e, q) = IF q = p THEN ChildrenOf(w, p) \union {n}
                                               ELSE ChildrenOf(w, q)
    <2>1. \A q \in Nodes : n \notin ChildrenOf(w, q)
      BY <1>7
    <2>2. Lists(w) /\ p \in Nodes /\ n \in Nodes \ {Root}
      BY <1>1, <1>7
    <2> QED
      BY <1>6, <2>1, <2>2, ListsInserted
  <1>9. \A k \in Nodes : k # p => e[k] = w[k]
    BY <1>5, <1>6 DEF Inserted
  <1>10. \A k \in Nodes : ChildrenOf(e, k) = IF k = p THEN ChildrenOf(c, k) \union {n}
                                             ELSE ChildrenOf(c, k) \ {n}
    BY <1>7, <1>8
  <1>11. InTree(e) = InTree(c)
    <2>1. ASSUME NEW k PROVE k \in InTree(e) <=> k \in InTree(c)
      <3>1. CASE k = n
        BY <3>1, <1>1, <1>10, InTreeIs
      <3>2. CASE k # n
        <4>1. \A q \in Nodes : k \in ChildrenOf(e, q) <=> k \in ChildrenOf(c, q)
          BY <3>2, <1>10
        <4> QED
          BY <4>1, InTreeIs
      <3> QED
        BY <3>1, <3>2
    <2> QED
      BY <2>1
  <1>12. ASSUME NEW k \in Nodes PROVE e[k] = <<>> \/ k \in InTree(e)
    <2>1. CASE k = p
      BY <2>1, <1>11
    <2>2. CASE k # p
      <3>1. c[k] = <<>> => e[k] = <<>>
        BY <2>2, <1>5, <1>9, WithoutEmpty
      <3> QED
        BY <3>1, <1>11 DEF IsTree
    <2> QED
      BY <2>1, <2>2
  <1>13. \E D \in Nat : \E d : Ranked(e, D, d)
    <2>1. PICK D \in Nat : \E d : Ranked(c, D, d)
      BY TreeIsRanked
    <2>2. PICK d : Ranked(c, D, d)
      BY <2>1
    <2> DEFINE r == [k \in Nodes |-> IF k \in gone THEN d[k] + (D + 1) ELSE d[k]]
    <2>3. \A k \in Nodes : d[k] \in 0..D
      BY <2>2 DEF Ranked
    <2>4. r \in [Nodes -> 0..(D + (D + 1))]
      <3> SUFFICES ASSUME NEW k \in Nodes PROVE r[k] \in 0..(D + (D + 1))
        OBVIOUS
      <3> QED
        BY <2>1, <2>3
    <2>5. ASSUME NEW q \in Nodes, NEW k \in Nodes, k \in ChildrenOf(e, q) PROVE r[q] < r[k]
      <3>1. d[q] \in 0..D /\ d[k] \in 0..D
        BY <2>3
      <3>2. CASE k = n
        <4>1. q = p
          BY <2>5, <3>2, <1>10
        <4>2. r[q] = d[q] /\ r[k] = d[k] + (D + 1)
          BY <4>1, <3>2, <1>1 DEF gone
        <4> QED
          BY <4>2, <3>1, <2>1
      <3>3. CASE k # n
        <4>1. k \in ChildrenOf(c, q)
          BY <2>5, <3>3, <1>10
        <4>2. (k \in gone) <=> (q \in gone)
          BY <4>1, <3>3, <1>4
        <4>3. d[q] < d[k]
          BY <4>1, <2>2 DEF Ranked
        <4> QED
          BY <4>2, <4>3, <3>1, <2>1
      <3> QED
        BY <3>2, <3>3
    <2> HIDE DEF r
    <2>6. Ranked(e, D + (D + 1), r)
      BY <2>4, <2>5 DEF Ranked
    <2> QED
      BY <2>1, <2>6
  <1>14. IsTree(e)
    BY <1>8, <1>12, <1>13, ListsMakeTree
  <1>15. ASSUME NEW k \in InTree(c) \ gone
         PROVE /\ ParentIn(e, k) = ParentIn(c, k)
               /\ ParentIn(c, k) # NoNode => ParentIn(c, k) \in InTree(c) \ gone
    <2>1. CASE k = Root
      BY <2>1, <1>14, RootHasNoParent
    <2>2. CASE k # Root
      <3>1. /\ ParentIn(c, k) \in InTree(c) /\ ParentIn(c, k) \in Nodes
            /\ k \in ChildrenOf(c, ParentIn(c, k)) /\ k # n
        BY <2>2, <1>1, ParentsExist
      <3>2. k \in ChildrenOf(e, ParentIn(c, k)) /\ ParentIn(c, k) \notin gone
        BY <3>1, <1>4, <1>10
      <3> QED
        BY <3>1, <3>2, <1>14, ParentOfChild
    <2> QED
      BY <2>1, <2>2
  <1>16. \A k \in InTree(c) \ gone : AncestorsIn(e, k) = AncestorsIn(c, k)
    <2>1. InTree(c) \ gone \subseteq Nodes
      BY <1>1
    <2> QED
      BY <1>14, <1>15, <2>1, SameAncestors
  <1> QED
    BY <1>10, <1>11, <1>14, <1>16 DEF gone

-----------------------------------------------------------------------------
(* Sums.                                                                   *)

\* iter[s] is the sum of f over s, whichever member is taken first.
SumsUp(iter, S, f) ==
    /\ iter \in [SUBSET S -> Nat] /\ iter[{}] = 0
    /\ \A s \in SUBSET S : \A x \in s : iter[s] = f[x] + iter[s \ {x}]

SumOf(f) == FoldFunction(LAMBDA x, y : x + y, 0, f)

LEMMA SumExists ==
    ASSUME NEW S, IsFiniteSet(S), NEW f \in [S -> Nat]
    PROVE \E iter : SumsUp(iter, S, f) /\ SumOf(f) = iter[S]
  <1> DEFINE first(s) == CHOOSE x \in s : TRUE
             next(s, it) == IF s = {} THEN 0 ELSE f[first(s)] + it[s \ {first(s)}]
             X == SUBSET S
             D == Cardinality(S)
             G == [a \in X \X [X -> Nat] |-> next(a[1], a[2])]
             rank == [s \in X |-> Cardinality(s)]
             iter == CHOOSE it : it = [s \in X |-> next(s, it)]
  <1>1. D \in Nat /\ \A s \in X : /\ IsFiniteSet(s) /\ Cardinality(s) \in 0..D
                                  /\ s # {} => first(s) \in s
                                  /\ \A x \in s : Cardinality(s \ {x}) = Cardinality(s) - 1
    <2>1. D \in Nat
      BY FS_CardinalityType
    <2>2. ASSUME NEW s \in X PROVE IsFiniteSet(s) /\ Cardinality(s) \in 0..D
      <3>1. IsFiniteSet(s) /\ Cardinality(s) <= D
        BY FS_Subset
      <3>2. Cardinality(s) \in Nat
        BY <3>1, FS_CardinalityType
      <3> QED
        BY <2>1, <3>1, <3>2
    <2>3. ASSUME NEW s \in X, NEW x \in s PROVE Cardinality(s \ {x}) = Cardinality(s) - 1
      BY <2>2, FS_RemoveElement
    <2> QED
      BY <2>1, <2>2, <2>3
  <1> HIDE DEF first, D
  <1>2. \A s \in X : \A it \in [X -> Nat] : G[<<s, it>>] = next(s, it)
    OBVIOUS
  <1>3. G \in [X \X [X -> Nat] -> Nat]
    <2> SUFFICES ASSUME NEW s \in X, NEW it \in [X -> Nat] PROVE next(s, it) \in Nat
      OBVIOUS
    <2>1. CASE s = {}
      BY <2>1
    <2>2. CASE s # {}
      <3>1. first(s) \in s /\ s \ {first(s)} \in X /\ first(s) \in S
        BY <2>2, <1>1
      <3>2. f[first(s)] \in Nat /\ it[s \ {first(s)}] \in Nat
        BY <3>1
      <3> QED
        BY <2>2, <3>2
    <2> QED
      BY <2>1, <2>2
  <1> HIDE DEF G
  <1>4. \A s \in X : \A g, h \in [X -> Nat] :
            (\A t \in X : rank[t] < rank[s] => g[t] = h[t]) => G[<<s, g>>] = G[<<s, h>>]
    <2> SUFFICES ASSUME NEW s \in X, NEW g \in [X -> Nat], NEW h \in [X -> Nat],
                        \A t \in X : rank[t] < rank[s] => g[t] = h[t]
                 PROVE G[<<s, g>>] = G[<<s, h>>]
      OBVIOUS
    <2>0. G[<<s, g>>] = next(s, g) /\ G[<<s, h>>] = next(s, h)
      BY <1>2
    <2>1. CASE s # {}
      <3>1. s \ {first(s)} \in X
        BY <2>1
      <3>2. rank[s \ {first(s)}] < rank[s]
        BY <1>1, <2>1, <3>1
      <3> QED
        BY <2>0, <2>1, <3>1, <3>2
    <2> QED
      BY <2>0, <2>1
  <1>5. rank \in [X -> 0..D]
    BY <1>1
  <1> HIDE DEF rank
  <1>6. DependsBelow(X, Nat, D, rank, G)
    <2> HIDE DEF X
    <2> QED
      BY <1>1, <1>3, <1>4, <1>5 DEF DependsBelow
  <1>7. PICK it \in [X -> Nat] : \A s \in X : it[s] = G[<<s, it>>]
    <2> HIDE DEF X
    <2> QED
      BY <1>6, RecursionExists
  <1>8. it = [s \in X |-> next(s, it)]
    BY <1>2, <1>7
  <1>9. iter = [s \in X |-> next(s, iter)]
    <2> HIDE DEF next, X
    <2> QED
      BY <1>8
  <1>10. SumOf(f) = iter[S]
    BY DEF SumOf, FoldFunction, FoldFunctionOnSet, MapThenFoldSet, first
  <1> HIDE DEF iter
  <1>11. \A s \in X : iter[s] = next(s, iter)
    BY <1>9
  <1> DEFINE typed == {k \in Nat : \A s \in X : Cardinality(s) = k => iter[s] \in Nat}
             done == {k \in Nat : \A s \in X : Cardinality(s) = k =>
                                    \A x \in s : iter[s] = f[x] + iter[s \ {x}]}
  <1>12. Nat \subseteq typed
    <2>1. 0 \in typed
      <3> SUFFICES ASSUME NEW s \in X, Cardinality(s) = 0 PROVE iter[s] \in Nat
        OBVIOUS
      <3>1. s = {}
        BY <1>1, FS_EmptySet
      <3>2. iter[s] = next(s, iter)
        BY <1>11
      <3> QED
        BY <3>1, <3>2
    <2>2. ASSUME NEW k \in Nat, k \in typed PROVE k + 1 \in typed
      <3> SUFFICES ASSUME NEW s \in X, Cardinality(s) = k + 1 PROVE iter[s] \in Nat
        OBVIOUS
      <3>1. s # {}
        <4>1. Cardinality(s) # 0
          BY <2>2
        <4> QED
          BY <4>1, FS_EmptySet
      <3>2. first(s) \in S /\ s \ {first(s)} \in X /\ Cardinality(s \ {first(s)}) = k
        BY <1>1, <3>1
      <3>3. iter[s \ {first(s)}] \in Nat /\ f[first(s)] \in Nat
        BY <2>2, <3>2
      <3>4. iter[s] = next(s, iter)
        BY <1>11
      <3> QED
        BY <3>1, <3>3, <3>4
    <2> HIDE DEF typed
    <2> QED
      BY <2>1, <2>2, AllNumbers
  <1>13. \A s \in X : iter[s] \in Nat
    BY <1>1, <1>12
  <1>14. Nat \subseteq done
    <2>1. 0 \in done
      <3> SUFFICES ASSUME NEW s \in X, Cardinality(s) = 0 PROVE s = {}
        OBVIOUS
      <3> QED
        BY <1>1, FS_EmptySet
    <2>2. ASSUME NEW k \in Nat, k \in done PROVE k + 1 \in done
      <3> SUFFICES ASSUME NEW s \in X, Cardinality(s) = k + 1, NEW x \in s
                   PROVE iter[s] = f[x] + iter[s \ {x}]
        OBVIOUS
      <3> DEFINE z == first(s)
      <3>1. z \in s /\ iter[s] = f[z] + iter[s \ {z}]
        BY <1>1, <1>11
      <3> HIDE DEF z
      <3>2. CASE x = z
        BY <3>1, <3>2
      <3>3. CASE x # z
        <4>1. s \ {z} \in X /\ s \ {x} \in X /\ x \in s \ {z} /\ z \in s \ {x}
          BY <3>1, <3>3
        <4>2. Cardinality(s \ {z}) = k /\ Cardinality(s \ {x}) = k
          BY <1>1, <3>1
        <4>3. iter[s \ {z}] = f[x] + iter[(s \ {z}) \ {x}]
          BY <2>2, <4>1, <4>2
        <4>4. iter[s \ {x}] = f[z] + iter[(s \ {x}) \ {z}]
          BY <2>2, <4>1, <4>2
        <4>5. (s \ {z}) \ {x} = (s \ {x}) \ {z} /\ (s \ {z}) \ {x} \in X
          OBVIOUS
        <4>6. f[x] \in Nat /\ f[z] \in Nat /\ iter[(s \ {z}) \ {x}] \in Nat
          BY <1>13, <3>1, <4>5
        <4>7. iter[s] = f[z] + (f[x] + iter[(s \ {z}) \ {x}])
          BY <3>1, <4>3
        <4>8. f[x] + iter[s \ {x}] = f[x] + (f[z] + iter[(s \ {z}) \ {x}])
          BY <4>4, <4>5
        <4> QED
          BY <4>6, <4>7, <4>8
      <3> QED
        BY <3>2, <3>3
    <2> HIDE DEF done
    <2> QED
      BY <2>1, <2>2, AllNumbers
  <1>15. \A s \in X : \A x \in s : iter[s] = f[x] + iter[s \ {x}]
    <2> SUFFICES ASSUME NEW s \in X PROVE \A x \in s : iter[s] = f[x] + iter[s \ {x}]
      OBVIOUS
    <2>1. Cardinality(s) \in Nat
      BY <1>1
    <2>2. Cardinality(s) \in done
      BY <1>14, <2>1
    <2> QED
      BY <2>2
  <1>16. iter \in [X -> Nat] /\ iter[{}] = 0
    <2>1. iter = [s \in X |-> iter[s]]
      BY <1>9
    <2>2. iter[{}] = 0
      BY <1>11
    <2> QED
      BY <1>13, <2>1, <2>2
  <1> QED
    BY <1>10, <1>15, <1>16 DEF SumsUp

\* Functions that agree have the same sum, over however large a set each is.
LEMMA SumsAgree ==
    ASSUME NEW S, NEW f, NEW a, SumsUp(a, S, f),
           NEW T, NEW g, NEW b, SumsUp(b, T, g),
           NEW U, IsFiniteSet(U), U \subseteq S, U \subseteq T, \A x \in U : f[x] = g[x]
    PROVE a[U] = b[U]
  <1> DEFINE done == {k \in Nat : \A s \in SUBSET U : Cardinality(s) = k => a[s] = b[s]}
  <1>1. 0 \in done
    <2> SUFFICES ASSUME NEW s \in SUBSET U, Cardinality(s) = 0 PROVE a[s] = b[s]
      OBVIOUS
    <2>1. s = {}
      BY FS_Subset, FS_EmptySet
    <2> QED
      BY <2>1 DEF SumsUp
  <1>2. ASSUME NEW k \in Nat, k \in done PROVE k + 1 \in done
    <2> SUFFICES ASSUME NEW s \in SUBSET U, Cardinality(s) = k + 1 PROVE a[s] = b[s]
      OBVIOUS
    <2>1. IsFiniteSet(s) /\ s # {}
      BY FS_Subset, FS_EmptySet
    <2>2. PICK x \in s : TRUE
      BY <2>1
    <2>3. Cardinality(s \ {x}) = k
      <3>1. Cardinality(s \ {x}) = Cardinality(s) - 1
        BY <2>1, <2>2, FS_RemoveElement
      <3> QED
        BY <3>1, <1>2
    <2>4. a[s \ {x}] = b[s \ {x}]
      BY <1>2, <2>3
    <2>5. a[s] = f[x] + a[s \ {x}] /\ b[s] = g[x] + b[s \ {x}]
      BY <2>2 DEF SumsUp
    <2> QED
      BY <2>4, <2>5
  <1> HIDE DEF done
  <1>3. Cardinality(U) \in done
    BY <1>1, <1>2, AllNumbers, FS_CardinalityType
  <1> QED
    BY <1>3 DEF done

\* What a folder adds up.
Addends(c, n) == {k \in ChildrenOf(c, n) : ~IsVFolder(k)}

LEMMA FoldersSumIs ==
    ASSUME NEW c, IsTree(c), NEW u \in [Nodes -> Nat], NEW n \in Nodes
    PROVE /\ IsFiniteSet(Addends(c, n))
          /\ [k \in Addends(c, n) |-> u[k]] \in [Addends(c, n) -> Nat]
          /\ FoldersSum(c, u, n) = SumOf([k \in Addends(c, n) |-> u[k]])
          /\ FoldersSum(c, u, n) \in Nat
  <1>1. Addends(c, n) \subseteq Nodes
    BY ChildrenAreNodes DEF Addends
  <1>2. IsFiniteSet(Addends(c, n))
    BY <1>1, FS_Subset, NodeTreeAssumption
  <1>3. [k \in Addends(c, n) |-> u[k]] \in [Addends(c, n) -> Nat]
    BY <1>1
  <1>4. FoldersSum(c, u, n) = SumOf([k \in Addends(c, n) |-> u[k]])
    BY DEF FoldersSum, SumOf, Addends
  <1> DEFINE S == Addends(c, n)
             f == [k \in S |-> u[k]]
  <1> HIDE DEF f, S
  <1>5. PICK iter : SumsUp(iter, S, f) /\ SumOf(f) = iter[S]
    <2>1. IsFiniteSet(S) /\ f \in [S -> Nat]
      BY <1>2, <1>3 DEF f, S
    <2> QED
      BY <2>1, SumExists
  <1>6. SumOf(f) \in Nat
    BY <1>5 DEF SumsUp
  <1> QED
    BY <1>2, <1>3, <1>4, <1>6 DEF f, S

LEMMA FoldersSumSame ==
    ASSUME NEW c, NEW u, NEW e, NEW v, NEW n, Addends(e, n) = Addends(c, n),
           \A k \in Addends(c, n) : v[k] = u[k]
    PROVE FoldersSum(e, v, n) = FoldersSum(c, u, n)
  <1>1. [k \in Addends(e, n) |-> v[k]] = [k \in Addends(c, n) |-> u[k]]
    OBVIOUS
  <1>2. /\ FoldersSum(c, u, n) = SumOf([k \in Addends(c, n) |-> u[k]])
        /\ FoldersSum(e, v, n) = SumOf([k \in Addends(e, n) |-> v[k]])
    BY DEF FoldersSum, SumOf, Addends
  <1> QED
    BY <1>1, <1>2

LEMMA FoldersSumEmpty ==
    ASSUME NEW c, IsTree(c), NEW u \in [Nodes -> Nat], NEW n \in Nodes, Addends(c, n) = {}
    PROVE FoldersSum(c, u, n) = 0
  <1> DEFINE f == [k \in Addends(c, n) |-> u[k]]
  <1>1. f \in [{} -> Nat] /\ IsFiniteSet({}) /\ FoldersSum(c, u, n) = SumOf(f)
    BY FoldersSumIs
  <1> HIDE DEF f
  <1>2. PICK iter : SumsUp(iter, {}, f) /\ SumOf(f) = iter[{}]
    BY <1>1, SumExists
  <1> QED
    BY <1>1, <1>2 DEF SumsUp

LEMMA FoldersSumAdds ==
    ASSUME NEW c, IsTree(c), NEW u \in [Nodes -> Nat], NEW e, IsTree(e),
           NEW v \in [Nodes -> Nat], NEW p \in Nodes, NEW n,
           Addends(e, p) = Addends(c, p) \union {n}, n \notin Addends(c, p), v[n] = 0,
           \A k \in Addends(c, p) : v[k] = u[k]
    PROVE FoldersSum(e, v, p) = FoldersSum(c, u, p)
  <1> DEFINE S == Addends(c, p)
             T == Addends(e, p)
             f == [k \in S |-> u[k]]
             g == [k \in T |-> v[k]]
  <1>1. IsFiniteSet(S) /\ f \in [S -> Nat] /\ FoldersSum(c, u, p) = SumOf(f)
    BY FoldersSumIs
  <1>2. IsFiniteSet(T) /\ g \in [T -> Nat] /\ FoldersSum(e, v, p) = SumOf(g)
    BY FoldersSumIs
  <1>3. T = S \union {n} /\ n \notin S /\ g[n] = 0 /\ \A k \in S : f[k] = g[k]
    OBVIOUS
  <1> HIDE DEF f, g, S, T
  <1>4. PICK a : SumsUp(a, S, f) /\ SumOf(f) = a[S]
    BY <1>1, SumExists
  <1>5. PICK b : SumsUp(b, T, g) /\ SumOf(g) = b[T]
    BY <1>2, SumExists
  <1>6. a[S] = b[S]
    BY <1>1, <1>3, <1>4, <1>5, SumsAgree
  <1>7. T \ {n} = S /\ n \in T
    BY <1>3
  <1>8. b[T] = g[n] + b[S] /\ b[S] \in Nat
    <2>1. T \in SUBSET T /\ S \in SUBSET T
      BY <1>3
    <2>2. b[T] = g[n] + b[T \ {n}]
      BY <1>5, <1>7, <2>1 DEF SumsUp
    <2>3. b[S] \in Nat
      BY <1>5, <2>1 DEF SumsUp
    <2> QED
      BY <1>7, <2>2, <2>3
  <1>9. SumOf(g) = SumOf(f)
    BY <1>3, <1>4, <1>5, <1>6, <1>8
  <1> QED
    BY <1>1, <1>2, <1>9

\* Counters that are added up from the leaves exist.
LEMMA CountsExist ==
    ASSUME NEW c, IsTree(c), NEW sums, NEW leaf \in [Nodes -> Nat]
    PROVE \E f \in [Nodes -> Nat] :
            \A n \in Nodes : f[n] = IF n \in sums THEN FoldersSum(c, f, n) ELSE leaf[n]
  <1> DEFINE next(n, f) == IF n \in sums THEN FoldersSum(c, f, n) ELSE leaf[n]
             V == [Nodes -> Nat]
             G == [a \in Nodes \X V |-> next(a[1], a[2])]
  <1>1. PICK D \in Nat : \E d : Ranked(c, D, d)
    BY TreeIsRanked
  <1>2. PICK d : Ranked(c, D, d)
    BY <1>1
  <1> DEFINE rank == [n \in Nodes |-> D - d[n]]
  <1>3. \A n \in Nodes : d[n] \in 0..D
    BY <1>2 DEF Ranked
  <1>4. rank \in [Nodes -> 0..D]
    <2> SUFFICES ASSUME NEW n \in Nodes PROVE rank[n] \in 0..D
      OBVIOUS
    <2> QED
      BY <1>1, <1>3
  <1>5. \A n \in Nodes : \A f \in V : G[<<n, f>>] = next(n, f)
    OBVIOUS
  <1>6. G \in [Nodes \X V -> Nat]
    <2>1. ASSUME NEW n \in Nodes, NEW f \in V PROVE next(n, f) \in Nat
      BY FoldersSumIs
    <2> HIDE DEF next
    <2> QED
      BY <2>1
  <1> HIDE DEF G
  <1>7. ASSUME NEW n \in Nodes, NEW f \in V, NEW g \in V,
               \A k \in Nodes : rank[k] < rank[n] => f[k] = g[k]
        PROVE G[<<n, f>>] = G[<<n, g>>]
    <2>1. ASSUME NEW k \in Addends(c, n) PROVE f[k] = g[k]
      <3>1. k \in Nodes /\ d[n] < d[k]
        BY <1>2, ChildrenAreNodes DEF Addends, Ranked
      <3>2. rank[k] < rank[n]
        BY <1>1, <1>3, <3>1
      <3> QED
        BY <1>7, <3>1, <3>2
    <2>2. FoldersSum(c, f, n) = FoldersSum(c, g, n)
      BY <2>1, FoldersSumSame
    <2> QED
      BY <1>5, <2>2
  <1> HIDE DEF rank
  <1>8. DependsBelow(Nodes, Nat, D, rank, G)
    <2>1. \A n \in Nodes : \A f, g \in V :
            (\A k \in Nodes : rank[k] < rank[n] => f[k] = g[k]) => G[<<n, f>>] = G[<<n, g>>]
      BY <1>7
    <2> QED
      BY <1>1, <1>4, <1>6, <2>1 DEF DependsBelow
  <1>9. PICK f \in [Nodes -> Nat] : \A n \in Nodes : f[n] = G[<<n, f>>]
    BY <1>8, RecursionExists
  <1>10. \A n \in Nodes : f[n] = next(n, f)
    BY <1>5, <1>9
  <1> QED
    BY <1>10

-----------------------------------------------------------------------------
(* The invariant.                                                          *)

ItemFields == {"node", "id", "text", "time", "read", "flag"}

IsItem(o) ==
    /\ DOMAIN o = ItemFields /\ o = [f \in ItemFields |-> o[f]]
    /\ o.node \in Nodes /\ Kind[o.node] \in {"feed", "newsbin"}

\* The rows of table items; ids count up.
StoredItems(d, next) ==
    /\ next \in Nat /\ d = [i \in DOMAIN d |-> d[i]]
    /\ \A i \in DOMAIN d : i \in Nat /\ i > 0 /\ i < next
    /\ \A i \in DOMAIN d : IsItem(d[i])

UnreadItems(d, n) == {i \in ItemsIn(d, n) : ~d[i].read}

\* A node that is marked has a parent that is marked or overlooked.
MarksGoUp ==
    \A p \in Nodes : \A n \in ChildrenOf(children, p) :
        n \in needsRecount => p \in needsRecount \union overlooked

Trees ==
    /\ IsTree(children) /\ IsTree(saved)
    /\ selected \in Live \union {NoNode}

Found == \A i \in folderItems : i \in DOMAIN db /\ db[i].node \in Live

Counted ==
    /\ unreadCount \in [Nodes -> Nat]
    /\ needsRecount \subseteq Live /\ overlooked \subseteq Nodes
    /\ MarksGoUp
    /\ CountersHold

Bounded ==
    /\ {recountTimer, saveTimer} \subseteq BOOLEAN
    /\ newCount \in Nat /\ steps \in 0..MaxSteps /\ nextId \in 1..(MaxItem + 1)
    /\ nodeRows \subseteq Nodes

FeedListIInv == Trees /\ StoredItems(db, nextId) /\ Found /\ Counted /\ Bounded

-----------------------------------------------------------------------------
(* Items.                                                                  *)

LEMMA UnreadInIs ==
    ASSUME NEW d, NEW n
    PROVE UnreadIn(d, n) = Cardinality(UnreadItems(d, n))
  BY DEF UnreadIn, UnreadItems

LEMMA ItemsAreFinite ==
    ASSUME NEW d, NEW next, StoredItems(d, next), NEW s, s \subseteq DOMAIN d
    PROVE IsFiniteSet(s) /\ Cardinality(s) \in Nat
  <1>1. next \in Nat /\ s \subseteq 0..next
    <2>1. next \in Nat /\ \A i \in s : i \in Nat /\ i < next
      BY DEF StoredItems
    <2> QED
      BY <2>1
  <1>2. IsFiniteSet(0..next)
    BY <1>1, FS_Interval
  <1> QED
    BY <1>1, <1>2, FS_Subset, FS_CardinalityType

LEMMA UnreadInType ==
    ASSUME NEW d, NEW next, StoredItems(d, next), NEW n
    PROVE UnreadIn(d, n) \in Nat
  <1>1. UnreadItems(d, n) \subseteq DOMAIN d
    BY DEF UnreadItems, ItemsIn
  <1> QED
    BY <1>1, ItemsAreFinite, UnreadInIs

LEMMA FoundUnreadType ==
    ASSUME NEW d, NEW next, StoredItems(d, next), NEW s, s \subseteq DOMAIN d
    PROVE Cardinality({i \in s : ~d[i].read}) \in Nat
  <1>1. {i \in s : ~d[i].read} \subseteq DOMAIN d
    OBVIOUS
  <1> QED
    BY <1>1, ItemsAreFinite

LEMMA PutIs ==
    ASSUME NEW d, NEW i, NEW o
    PROVE /\ DOMAIN Put(d, i, o) = DOMAIN d \union {i} /\ Put(d, i, o)[i] = o
          /\ \A j \in DOMAIN d : j # i => Put(d, i, o)[j] = d[j]
  BY DEF Put

\* A row that is added or replaced.
LEMMA RowPut ==
    ASSUME NEW d, NEW next, StoredItems(d, next), NEW o, IsItem(o),
           NEW i \in Nat, i > 0, NEW later \in Nat, i < later, next <= later
    PROVE StoredItems(Put(d, i, o), later)
  <1> DEFINE e == Put(d, i, o)
  <1>1. /\ DOMAIN e = DOMAIN d \union {i} /\ e = [j \in DOMAIN e |-> e[j]]
        /\ e[i] = o /\ \A j \in DOMAIN d : j # i => e[j] = d[j]
    BY DEF Put
  <1> HIDE DEF e
  <1>2. \A j \in DOMAIN d : j \in Nat /\ j > 0 /\ j < next /\ IsItem(d[j])
    BY DEF StoredItems
  <1>3. next \in Nat
    BY DEF StoredItems
  <1>4. \A j \in DOMAIN e : j \in Nat /\ j > 0 /\ j < later
    BY <1>1, <1>2, <1>3
  <1>5. \A j \in DOMAIN e : IsItem(e[j])
    BY <1>1, <1>2
  <1>6. StoredItems(e, later)
    BY <1>1, <1>4, <1>5 DEF StoredItems
  <1> QED
    BY <1>6 DEF e

LEMMA RowsRestricted ==
    ASSUME NEW d, NEW next, StoredItems(d, next), NEW s, s \subseteq DOMAIN d
    PROVE /\ StoredItems(Restrict(d, s), next) /\ DOMAIN Restrict(d, s) = s
          /\ \A i \in s : Restrict(d, s)[i] = d[i]
          /\ \A n : UnreadItems(Restrict(d, s), n) = UnreadItems(d, n) \intersect s
  BY DEF StoredItems, Restrict, UnreadItems, ItemsIn

-----------------------------------------------------------------------------
(* Marks.                                                                  *)

LEMMA WithAncestorsInTree ==
    ASSUME IsTree(children), NEW s, s \subseteq Live
    PROVE /\ WithAncestors(s) \subseteq Live
          /\ \A p \in Nodes : \A n \in ChildrenOf(children, p) :
                n \in WithAncestors(s) => p \in WithAncestors(s)
  <1>1. Live \subseteq Nodes
    BY ChildrenAreNodes, NodeTreeAssumption DEF Live
  <1>2. \A n \in s : AncestorsIn(children, n) \subseteq Live
    BY <1>1, AncestorsInTree DEF Live
  <1>3. ASSUME NEW p \in Nodes, NEW n \in ChildrenOf(children, p), n \in WithAncestors(s)
        PROVE p \in WithAncestors(s)
    <2>1. CASE n \in s
      <3>1. p \in AncestorsIn(children, n)
        BY AncestorsOfChild
      <3> QED
        BY <2>1, <3>1 DEF WithAncestors, Ancestors
    <2>2. CASE n \notin s
      <3>1. PICK m \in s : n \in AncestorsIn(children, m)
        BY <1>3, <2>2 DEF WithAncestors, Ancestors
      <3>2. p \in AncestorsIn(children, m)
        BY <1>1, <3>1, AncestorsClosed
      <3> QED
        BY <3>1, <3>2 DEF WithAncestors, Ancestors
    <2> QED
      BY <2>1, <2>2
  <1>4. WithAncestors(s) \subseteq Live
    BY <1>2 DEF WithAncestors, Ancestors
  <1> QED
    BY <1>3, <1>4

LEMMA NothingMarked ==
    WithAncestors({}) = {}
  BY DEF WithAncestors

\* Items change: what shows them is marked, or was overlooked.
LEMMA ItemsChange ==
    ASSUME FeedListIInv, UNCHANGED <<children, saved, selected, unreadCount>>,
           NEW s, s \subseteq Live, needsRecount' = needsRecount \union WithAncestors(s),
           overlooked \subseteq overlooked', overlooked' \subseteq Nodes,
           StoredItems(db, nextId)', Found', Bounded',
           \A n \in Live : n \in s \/ n \in overlooked' \/ UnreadIn(db', n) = UnreadIn(db, n),
           FolderUnread' = FolderUnread \/ VFolders \intersect Live \subseteq s
    PROVE FeedListIInv'
  <1>1. Trees /\ Counted
    BY DEF FeedListIInv
  <1>2. Trees'
    BY <1>1 DEF Trees, Live
  <1>3. s \subseteq needsRecount' /\ needsRecount \subseteq needsRecount'
    BY DEF WithAncestors
  <1>4. needsRecount' \subseteq Live'
    BY <1>1, WithAncestorsInTree DEF Counted, Trees, Live
  <1>5. MarksGoUp'
    <2> SUFFICES ASSUME NEW p \in Nodes, NEW n \in ChildrenOf(children, p), n \in needsRecount'
                 PROVE p \in needsRecount' \union overlooked'
      BY DEF MarksGoUp
    <2>1. CASE n \in needsRecount
      BY <1>1, <1>3, <2>1 DEF Counted, MarksGoUp
    <2>2. CASE n \in WithAncestors(s)
      BY <1>1, <2>2, WithAncestorsInTree DEF Trees
    <2> QED
      BY <2>1, <2>2
  <1>6. CountersHold'
    <2> SUFFICES ASSUME NEW n \in Live, n \notin needsRecount', n \notin overlooked'
                 PROVE unreadCount[n] = CountOf(n)'
      BY DEF CountersHold, Live
    <2>1. unreadCount[n] = CountOf(n)
      BY <1>1, <1>3 DEF Counted, CountersHold
    <2>2. n \notin s
      BY <1>3
    <2>3. UnreadIn(db', n) = UnreadIn(db, n)
      BY <2>2
    <2>4. IsVFolder(n) => FolderUnread' = FolderUnread
      <3>1. IsVFolder(n) => n \in VFolders \intersect Live
        BY <1>1, ChildrenAreNodes, NodeTreeAssumption DEF VFolders, Trees, Live
      <3> QED
        BY <2>2, <3>1
    <2> QED
      BY <2>1, <2>3, <2>4 DEF CountOf
  <1>7. Counted'
    BY <1>1, <1>4, <1>5, <1>6 DEF Counted
  <1> QED
    BY <1>2, <1>7 DEF FeedListIInv

\* A row gets another item of the same node.
LEMMA RowChanged ==
    ASSUME NEW d, NEW next, StoredItems(d, next), NEW i \in DOMAIN d, NEW o, IsItem(o),
           NEW e, e = [d EXCEPT ![i] = o]
    PROVE /\ StoredItems(e, next) /\ DOMAIN e = DOMAIN d /\ e[i] = o
          /\ \A j \in DOMAIN d : j # i => e[j] = d[j]
  <1>1. d = [j \in DOMAIN d |-> d[j]]
    BY DEF StoredItems
  <1>2. /\ DOMAIN e = DOMAIN d /\ e = [j \in DOMAIN e |-> e[j]] /\ e[i] = o
        /\ \A j \in DOMAIN d : j # i => e[j] = d[j]
    BY <1>1
  <1>3. \A j \in DOMAIN d : IsItem(e[j])
    BY <1>2 DEF StoredItems
  <1>4. StoredItems(e, next)
    BY <1>2, <1>3 DEF StoredItems
  <1> QED
    BY <1>2, <1>4

LEMMA ItemWith ==
    ASSUME NEW o, IsItem(o), NEW v
    PROVE /\ IsItem([o EXCEPT !.read = v]) /\ [o EXCEPT !.read = v].node = o.node
          /\ [o EXCEPT !.read = v].read = v
          /\ IsItem([o EXCEPT !.flag = v]) /\ [o EXCEPT !.flag = v].node = o.node
          /\ [o EXCEPT !.flag = v].read = o.read
  BY DEF IsItem, ItemFields

\* The same unread items.
LEMMA UnreadSame ==
    ASSUME NEW d, NEW e, NEW n, UnreadItems(e, n) = UnreadItems(d, n)
    PROVE UnreadIn(e, n) = UnreadIn(d, n)
  BY UnreadInIs

LEMMA UnreadElsewhere ==
    ASSUME NEW d, NEW e, DOMAIN e = DOMAIN d, NEW s,
           \A j \in DOMAIN d : e[j].node = d[j].node,
           \A j \in DOMAIN d : e[j].read = d[j].read \/ d[j].node \in s,
           NEW n, n \notin s
    PROVE UnreadIn(e, n) = UnreadIn(d, n)
  <1>1. ItemsIn(e, n) = ItemsIn(d, n)
    BY DEF ItemsIn
  <1>2. \A j \in ItemsIn(d, n) : e[j].read = d[j].read
    BY DEF ItemsIn
  <1>3. UnreadItems(e, n) = UnreadItems(d, n)
    BY <1>1, <1>2 DEF UnreadItems
  <1> QED
    BY <1>3, UnreadSame

\* Items change, and update_counters() is called for s and the search folders.
LEMMA ItemsUpdated ==
    ASSUME FeedListIInv, Step, UNCHANGED <<children, saved, selected, unreadCount>>,
           NEW s, s \subseteq Live, UpdateCounters(s),
           overlooked \subseteq overlooked', overlooked' \subseteq Nodes,
           StoredItems(db, nextId)', Found', newCount' \in Nat, nextId' \in 1..(MaxItem + 1),
           nodeRows' \subseteq Nodes, saveTimer' \in BOOLEAN,
           \A n \in Live : n \in s \/ n \in overlooked' \/ UnreadIn(db', n) = UnreadIn(db, n)
    PROVE FeedListIInv'
  <1> DEFINE t == s \union (VFolders \intersect Live)
  <1>1. Bounded
    BY DEF FeedListIInv
  <1>2. Bounded'
    BY <1>1, FeedListAssumption DEF Bounded, Step, UpdateCounters, MarkRecount
  <1>3. needsRecount' = needsRecount \union WithAncestors(t)
    BY DEF UpdateCounters, MarkRecount
  <1>4. t \subseteq Live /\ VFolders \intersect Live \subseteq t /\ s \subseteq t
    OBVIOUS
  <1> HIDE DEF t
  <1>5. \A n \in Live : n \in t \/ n \in overlooked' \/ UnreadIn(db', n) = UnreadIn(db, n)
    BY <1>4
  <1> QED
    BY <1>2, <1>3, <1>4, <1>5, ItemsChange

-----------------------------------------------------------------------------
(* The steps of the items.                                                 *)

LEMMA SetFlagKeeps ==
    ASSUME FeedListIInv, NEW i \in DOMAIN db, SetFlag(i)
    PROVE FeedListIInv'
  <1>1. /\ StoredItems(db, nextId) /\ Found /\ Bounded /\ Counted
        /\ Step /\ UNCHANGED <<children, saved, selected, unreadCount>>
        /\ UNCHANGED <<saveTimer, newCount, nodeRows, nextId, overlooked>>
        /\ UpdateCounters({}) /\ db[i].node \in Live
    BY DEF FeedListIInv, SetFlag, tree
  <1>2. IsItem(db[i])
    BY <1>1 DEF StoredItems
  <1> DEFINE o == [db[i] EXCEPT !.flag = ~@]
  <1>3. IsItem(o) /\ o.node = db[i].node /\ o.read = db[i].read
    BY <1>2, ItemWith
  <1>4. db' = [db EXCEPT ![i] = o]
    BY DEF SetFlag
  <1>5. /\ StoredItems(db', nextId) /\ DOMAIN db' = DOMAIN db /\ db'[i] = o
        /\ \A j \in DOMAIN db : j # i => db'[j] = db[j]
    <2> HIDE DEF o
    <2> QED
      BY <1>1, <1>3, <1>4, RowChanged
  <1> HIDE DEF o
  <1>6. \A j \in DOMAIN db : db'[j].node = db[j].node /\ db'[j].read = db[j].read
    BY <1>3, <1>5
  <1>7. Found'
    <2>1. folderItems' \subseteq folderItems \union {i}
      BY DEF SetFlag, FolderRows
    <2> QED
      BY <1>1, <1>5, <1>6, <2>1 DEF Found, Live
  <1>8. \A n \in Live : UnreadIn(db', n) = UnreadIn(db, n)
    <2> DEFINE none == {}
    <2>1. \A j \in DOMAIN db : db'[j].read = db[j].read \/ db[j].node \in none
      BY <1>6
    <2>2. \A n \in Live : n \notin none
      OBVIOUS
    <2> HIDE DEF none
    <2> QED
      BY <1>5, <1>6, <2>1, <2>2, UnreadElsewhere
  <1> QED
    BY <1>1, <1>5, <1>7, <1>8, ItemsUpdated DEF Bounded, Counted

LEMMA SetUnreadKeeps ==
    ASSUME FeedListIInv, NEW i \in DOMAIN db, SetUnread(i)
    PROVE FeedListIInv'
  <1> DEFINE k == db[i].node
  <1>1. /\ StoredItems(db, nextId) /\ Found /\ Bounded /\ Counted
        /\ Step /\ UNCHANGED <<children, saved, selected, unreadCount>>
        /\ UNCHANGED <<saveTimer, newCount, nodeRows, nextId, overlooked>>
        /\ UpdateCounters({k}) /\ k \in Live
    BY DEF FeedListIInv, SetUnread, tree
  <1>2. IsItem(db[i])
    BY <1>1 DEF StoredItems
  <1> DEFINE o == [db[i] EXCEPT !.read = FALSE]
  <1>3. IsItem(o) /\ o.node = k
    BY <1>2, ItemWith
  <1>4. db' = [db EXCEPT ![i] = o]
    BY DEF SetUnread
  <1>5. /\ StoredItems(db', nextId) /\ DOMAIN db' = DOMAIN db /\ db'[i] = o
        /\ \A j \in DOMAIN db : j # i => db'[j] = db[j]
    <2> HIDE DEF o
    <2> QED
      BY <1>1, <1>3, <1>4, RowChanged
  <1> HIDE DEF o
  <1>6. /\ \A j \in DOMAIN db : db'[j].node = db[j].node
        /\ \A j \in DOMAIN db : db'[j].read = db[j].read \/ db[j].node \in {k}
    BY <1>3, <1>5
  <1> HIDE DEF k
  <1>7. Found'
    <2>1. folderItems' \subseteq folderItems \union {i}
      BY DEF SetUnread, FolderRows
    <2> QED
      BY <1>1, <1>5, <1>6, <2>1 DEF Found, Live, k
  <1>8. \A n \in Live : n \in {k} \/ UnreadIn(db', n) = UnreadIn(db, n)
    <2> DEFINE owners == {k}
    <2>1. \A j \in DOMAIN db : db'[j].read = db[j].read \/ db[j].node \in owners
      BY <1>6
    <2> HIDE DEF owners
    <2>2. \A n \in Live : n \in owners \/ UnreadIn(db', n) = UnreadIn(db, n)
      BY <1>5, <1>6, <2>1, UnreadElsewhere
    <2> QED
      BY <2>2 DEF owners
  <1> QED
    BY <1>1, <1>5, <1>7, <1>8, ItemsUpdated DEF Bounded, Counted

\* Items are read, with their copies.
LEMMA MarkReadKeeps ==
    ASSUME FeedListIInv, NEW s,
           \A i \in s : i \in DOMAIN db /\ db[i].node \in Live, MarkItemsRead(s),
           Step, UNCHANGED <<tree, unreadCount, nodeRows, nextId, overlooked>>, newCount' \in Nat
    PROVE FeedListIInv'
  <1> DEFINE marked == ReadWith(s)
             owners == {db[i].node : i \in marked}
  <1>1. /\ StoredItems(db, nextId) /\ Found /\ Bounded /\ Counted
        /\ UNCHANGED <<children, saved, selected, saveTimer>>
    BY DEF FeedListIInv, tree
  <1>2. marked \subseteq DOMAIN db /\ \A i \in marked : db[i].node \in Live
    BY DEF ReadWith, Duplicates
  <1>3. /\ db' = [i \in DOMAIN db |->
                    IF i \in marked THEN [db[i] EXCEPT !.read = TRUE] ELSE db[i]]
        /\ folderItems' = folderItems \ marked
        /\ IF marked = {} THEN UNCHANGED <<needsRecount, recountTimer>>
           ELSE UpdateCounters(owners)
    BY DEF MarkItemsRead
  <1>4. owners \subseteq Live /\ \A i \in marked : db[i].node \in owners
    BY <1>2
  <1> HIDE DEF marked, owners
  <1>5. \A i \in DOMAIN db : IsItem(db[i])
    BY <1>1 DEF StoredItems
  <1>6. /\ DOMAIN db' = DOMAIN db
        /\ \A i \in DOMAIN db : IsItem(db'[i]) /\ db'[i].node = db[i].node
        /\ \A i \in DOMAIN db : db'[i].read = db[i].read \/ db[i].node \in owners
    <2>1. DOMAIN db' = DOMAIN db
      BY <1>3
    <2>2. ASSUME NEW i \in DOMAIN db
          PROVE /\ IsItem(db'[i]) /\ db'[i].node = db[i].node
                /\ db'[i].read = db[i].read \/ db[i].node \in owners
      <3>1. CASE i \in marked
        <4>1. db'[i] = [db[i] EXCEPT !.read = TRUE]
          BY <1>3, <3>1
        <4>2. IsItem(db[i])
          BY <1>5
        <4>3. /\ IsItem([db[i] EXCEPT !.read = TRUE])
              /\ [db[i] EXCEPT !.read = TRUE].node = db[i].node
          BY <4>2, ItemWith
        <4> QED
          BY <1>4, <3>1, <4>1, <4>3
      <3>2. CASE i \notin marked
        <4>1. db'[i] = db[i]
          BY <1>3, <3>2
        <4> QED
          BY <1>5, <4>1
      <3> QED
        BY <3>1, <3>2
    <2> QED
      BY <2>1, <2>2
  <1>7. StoredItems(db, nextId)'
    <2>1. db' = [i \in DOMAIN db' |-> db'[i]]
      BY <1>3
    <2>2. nextId' = nextId
      OBVIOUS
    <2> QED
      BY <1>1, <1>6, <2>1, <2>2 DEF StoredItems
  <1>8. Found'
    <2>1. folderItems' \subseteq folderItems
      BY <1>3
    <2> QED
      BY <1>1, <1>6, <2>1 DEF Found, Live
  <1>9. \A n \in Live : n \in owners \/ UnreadIn(db', n) = UnreadIn(db, n)
    BY <1>6, UnreadElsewhere
  <1>10. CASE marked # {}
    <2>1. UpdateCounters(owners)
      BY <1>3, <1>10
    <2> QED
      BY <1>1, <1>4, <1>7, <1>8, <1>9, <2>1, ItemsUpdated DEF Bounded, Counted
  <1>11. CASE marked = {}
    <2>1. \A i \in DOMAIN db : db'[i] = db[i]
      BY <1>3, <1>11
    <2>2. db' = db /\ folderItems' = folderItems
      BY <1>1, <1>3, <1>6, <1>11, <2>1 DEF StoredItems
    <2>3. UNCHANGED <<needsRecount, recountTimer>>
      BY <1>3, <1>11
    <2>4. Bounded'
      BY <1>1, <2>3, FeedListAssumption DEF Bounded, Step
    <2>5. needsRecount' = needsRecount \union WithAncestors({})
      BY <2>3, NothingMarked
    <2>6. FolderUnread' = FolderUnread
      BY <2>2 DEF FolderUnread
    <2> QED
      BY <1>1, <1>7, <1>8, <2>2, <2>4, <2>5, <2>6, ItemsChange DEF Counted
  <1> QED
    BY <1>10, <1>11

LEMMA SetReadKeeps ==
    ASSUME FeedListIInv, NEW i \in DOMAIN db, SetRead(i)
    PROVE FeedListIInv'
  <1>1. \A j \in {i} : j \in DOMAIN db /\ db[j].node \in Live
    BY DEF SetRead
  <1>2. newCount' \in Nat
    BY DEF SetRead, FeedListIInv, Bounded
  <1> QED
    BY <1>1, <1>2, MarkReadKeeps DEF SetRead

\* Items go.
LEMMA ItemRemovalKeeps ==
    ASSUME FeedListIInv, NEW gone, gone \subseteq DOMAIN db, ItemRemoval(gone), Step,
           NEW k \in Live, \A i \in gone : db[i].node = k, UpdateCounters({k}),
           UNCHANGED <<tree, unreadCount, newCount, nodeRows, nextId, overlooked>>
    PROVE FeedListIInv'
  <1> DEFINE kept == DOMAIN db \ gone
  <1>1. /\ StoredItems(db, nextId) /\ Found /\ Bounded /\ Counted
        /\ UNCHANGED <<children, saved, selected, saveTimer>>
    BY DEF FeedListIInv, tree
  <1>2. kept \subseteq DOMAIN db
    OBVIOUS
  <1>3. db' = Restrict(db, kept) /\ folderItems' = folderItems \ gone
    BY DEF ItemRemoval
  <1>4. /\ StoredItems(db', nextId) /\ DOMAIN db' = kept
        /\ \A i \in kept : db'[i] = db[i]
        /\ \A n : UnreadItems(db', n) = UnreadItems(db, n) \intersect kept
    <2> HIDE DEF kept
    <2> QED
      BY <1>1, <1>2, <1>3, RowsRestricted
  <1>5. \A n \in Live : n # k => UnreadItems(db', n) = UnreadItems(db, n)
    BY <1>4 DEF UnreadItems, ItemsIn
  <1>6. Found'
    BY <1>1, <1>3, <1>4 DEF Found, Live
  <1> HIDE DEF kept
  <1>7. \A n \in Live : n \in {k} \/ UnreadIn(db', n) = UnreadIn(db, n)
    BY <1>5, UnreadSame
  <1>8. StoredItems(db, nextId)'
    BY <1>4
  <1> QED
    BY <1>1, <1>6, <1>7, <1>8, ItemsUpdated DEF Bounded, Counted

LEMMA RemovalsKeep ==
    ASSUME FeedListIInv
    PROVE /\ \A i \in DOMAIN db : RemoveItem(i) => FeedListIInv'
          /\ \A n \in Nodes : RemoveAllItems(n) => FeedListIInv'
  <1>1. ASSUME NEW i \in DOMAIN db, RemoveItem(i) PROVE FeedListIInv'
    <2> DEFINE gone == {i}
               k == db[i].node
    <2>1. gone \subseteq DOMAIN db /\ (\A j \in gone : db[j].node = k)
      OBVIOUS
    <2>2. /\ ItemRemoval(gone) /\ Step /\ k \in Live /\ UpdateCounters({k})
          /\ UNCHANGED <<tree, unreadCount, newCount, nodeRows, nextId, overlooked>>
      BY <1>1 DEF RemoveItem
    <2> HIDE DEF gone, k
    <2> QED
      BY <2>1, <2>2, ItemRemovalKeeps
  <1>2. ASSUME NEW n \in Nodes, RemoveAllItems(n) PROVE FeedListIInv'
    <2> DEFINE gone == ItemsIn(db, n)
    <2>1. gone \subseteq DOMAIN db /\ (\A j \in gone : db[j].node = n)
      BY DEF ItemsIn
    <2>2. /\ ItemRemoval(gone) /\ Step /\ n \in Live /\ UpdateCounters({n})
          /\ UNCHANGED <<tree, unreadCount, newCount, nodeRows, nextId, overlooked>>
      BY <1>2 DEF RemoveAllItems
    <2> HIDE DEF gone
    <2> QED
      BY <2>1, <2>2, ItemRemovalKeeps
  <1> QED
    BY <1>1, <1>2

LEMMA NewsbinAddItemKeeps ==
    ASSUME FeedListIInv, NEW b \in Nodes, NEW i \in DOMAIN db, NewsbinAddItem(b, i)
    PROVE FeedListIInv'
  <1> DEFINE o == Copy(i, b)
  <1>1. /\ StoredItems(db, nextId) /\ Found /\ Bounded /\ Counted
        /\ UNCHANGED <<children, saved, selected, saveTimer, unreadCount, overlooked>>
        /\ UNCHANGED <<newCount, nodeRows, folderItems>>
        /\ Step /\ b \in Live /\ Kind[b] = "newsbin"
        /\ nextId <= MaxItem /\ nextId' = nextId + 1 /\ db' = Put(db, nextId, o)
        /\ MarkRecount({b})
    BY DEF FeedListIInv, NewsbinAddItem, tree
  <1>2. IsItem(db[i])
    BY <1>1 DEF StoredItems
  <1>3. IsItem(o) /\ o.node = b
    BY <1>1, <1>2 DEF IsItem, ItemFields, Copy
  <1> HIDE DEF o
  <1>4. nextId \in Nat /\ nextId > 0 /\ nextId + 1 \in Nat /\ nextId < nextId + 1
    BY <1>1 DEF Bounded
  <1>5. nextId <= nextId + 1
    BY <1>4
  <1>6. /\ StoredItems(db', nextId + 1) /\ DOMAIN db' = DOMAIN db \union {nextId}
        /\ db'[nextId] = o
        /\ \A j \in DOMAIN db : j # nextId => db'[j] = db[j]
    <2> DEFINE later == nextId + 1
    <2>1. /\ later \in Nat /\ nextId \in Nat /\ nextId > 0 /\ nextId < later /\ nextId <= later
          /\ IsItem(o) /\ StoredItems(db, nextId)
      BY <1>1, <1>3, <1>4, <1>5
    <2> HIDE DEF later
    <2>2. StoredItems(Put(db, nextId, o), later)
      BY <2>1, RowPut
    <2>3. /\ DOMAIN Put(db, nextId, o) = DOMAIN db \union {nextId}
          /\ Put(db, nextId, o)[nextId] = o
          /\ \A j \in DOMAIN db : j # nextId => Put(db, nextId, o)[j] = db[j]
      BY DEF Put
    <2>4. db' = Put(db, nextId, o)
      BY <1>1
    <2>5. StoredItems(db', later)
      BY <2>2, <2>4
    <2> QED
      BY <2>3, <2>4, <2>5 DEF later
  <1>7. \A j \in DOMAIN db : j # nextId
    BY <1>1, <1>4 DEF StoredItems
  <1>8. StoredItems(db, nextId)'
    BY <1>1, <1>6
  <1>9. Found'
    BY <1>1, <1>6, <1>7 DEF Found, Live
  <1>10. \A n \in Live : n # b => UnreadItems(db', n) = UnreadItems(db, n)
    BY <1>3, <1>6, <1>7 DEF UnreadItems, ItemsIn
  <1>11. \A n \in Live : n \in {b} \/ n \in overlooked' \/ UnreadIn(db', n) = UnreadIn(db, n)
    BY <1>10, UnreadSame
  <1>12. FolderUnread' = FolderUnread
    <2>1. \A j \in folderItems : db'[j] = db[j]
      BY <1>1, <1>6, <1>7 DEF Found
    <2>2. {j \in folderItems : ~db'[j].read} = {j \in folderItems : ~db[j].read}
      BY <2>1
    <2> QED
      BY <1>1, <2>2 DEF FolderUnread
  <1>13. Bounded'
    BY <1>1, <1>4, FeedListAssumption DEF Bounded, Step, MarkRecount
  <1>14. needsRecount' = needsRecount \union WithAncestors({b})
    BY <1>1 DEF MarkRecount
  <1>15. {b} \subseteq Live
    BY <1>1
  <1> QED
    BY <1>1, <1>8, <1>9, <1>11, <1>12, <1>13, <1>14, <1>15, ItemsChange DEF Counted

-----------------------------------------------------------------------------
(* The items of folders.                                                   *)

LEMMA ItemsOfUnfold ==
    ASSUME IsTree(children), folderItems \subseteq DOMAIN db
    PROVE /\ \A n \in Nodes : ItemsOf[n] \subseteq DOMAIN db
          /\ \A n \in Nodes :
                ItemsOf[n] = IF IsFolder(n) THEN UNION {ItemsOf[k] : k \in ChildrenOf(children, n)}
                             ELSE IF IsVFolder(n) THEN folderItems ELSE ItemsIn(db, n)
  <1> DEFINE next(n, f) ==
                IF IsFolder(n) THEN UNION {f[k] : k \in ChildrenOf(children, n)}
                ELSE IF IsVFolder(n) THEN folderItems ELSE ItemsIn(db, n)
             T == SUBSET DOMAIN db
             V == [Nodes -> T]
             G == [a \in Nodes \X V |-> next(a[1], a[2])]
  <1>1. PICK D \in Nat : \E d : Ranked(children, D, d)
    BY TreeIsRanked
  <1>2. PICK d : Ranked(children, D, d)
    BY <1>1
  <1> DEFINE rank == [n \in Nodes |-> D - d[n]]
  <1>3. \A n \in Nodes : d[n] \in 0..D
    BY <1>2 DEF Ranked
  <1>4. rank \in [Nodes -> 0..D]
    <2> SUFFICES ASSUME NEW n \in Nodes PROVE rank[n] \in 0..D
      OBVIOUS
    <2> QED
      BY <1>1, <1>3
  <1>5. \A n \in Nodes : \A f \in V : G[<<n, f>>] = next(n, f)
    OBVIOUS
  <1>6. \A n \in Nodes : ChildrenOf(children, n) \subseteq Nodes
    BY ChildrenAreNodes
  <1>7. G \in [Nodes \X V -> T]
    <2>1. ASSUME NEW n \in Nodes, NEW f \in V PROVE next(n, f) \in T
      <3>1. \A k \in ChildrenOf(children, n) : f[k] \subseteq DOMAIN db
        BY <1>6
      <3>2. UNION {f[k] : k \in ChildrenOf(children, n)} \subseteq DOMAIN db
        BY <3>1
      <3> QED
        BY <3>2 DEF ItemsIn
    <2> HIDE DEF next, T
    <2> QED
      BY <2>1
  <1> HIDE DEF G
  <1>8. ASSUME NEW n \in Nodes, NEW f \in V, NEW g \in V,
               \A k \in Nodes : rank[k] < rank[n] => f[k] = g[k]
        PROVE G[<<n, f>>] = G[<<n, g>>]
    <2>1. ASSUME NEW k \in ChildrenOf(children, n) PROVE f[k] = g[k]
      <3>1. k \in Nodes /\ d[n] < d[k]
        BY <1>2, <1>6 DEF Ranked
      <3>2. rank[k] < rank[n]
        BY <1>1, <1>3, <3>1
      <3> QED
        BY <1>8, <3>1, <3>2
    <2>2. {f[k] : k \in ChildrenOf(children, n)} = {g[k] : k \in ChildrenOf(children, n)}
      BY <2>1
    <2> QED
      BY <1>5, <2>2
  <1> HIDE DEF rank
  <1>9. DependsBelow(Nodes, T, D, rank, G)
    <2>1. \A n \in Nodes : \A f, g \in V :
            (\A k \in Nodes : rank[k] < rank[n] => f[k] = g[k]) => G[<<n, f>>] = G[<<n, g>>]
      BY <1>8
    <2>2. T # {}
      OBVIOUS
    <2> HIDE DEF T
    <2> QED
      BY <1>1, <1>4, <1>7, <2>1, <2>2 DEF DependsBelow
  <1>10. PICK f \in V : \A n \in Nodes : f[n] = G[<<n, f>>]
    <2> HIDE DEF T
    <2> QED
      BY <1>9, RecursionExists
  <1>11. \A n \in Nodes : f[n] = next(n, f)
    BY <1>5, <1>10
  <1> DEFINE unfolds(g) == g = [n \in Nodes |-> next(n, g)]
  <1>12. f = [n \in Nodes |-> f[n]]
    BY <1>10
  <1>13. unfolds(f)
    <2> HIDE DEF next
    <2> QED
      BY <1>11, <1>12
  <1>14. ItemsOf = CHOOSE g : unfolds(g)
    BY DEF ItemsOf
  <1>15. unfolds(ItemsOf)
    <2> HIDE DEF unfolds
    <2> QED
      BY <1>13, <1>14
  <1>16. \A n \in Nodes : ItemsOf[n] = next(n, ItemsOf)
    BY <1>15
  <1> DEFINE fine == {n \in Nodes : ItemsOf[n] \subseteq DOMAIN db}
  <1>17. Nodes \subseteq fine
    <2>1. ASSUME NEW n \in Nodes, ChildrenOf(children, n) \subseteq fine PROVE n \in fine
      <3>1. \A k \in ChildrenOf(children, n) : ItemsOf[k] \subseteq DOMAIN db
        BY <2>1
      <3>2. UNION {ItemsOf[k] : k \in ChildrenOf(children, n)} \subseteq DOMAIN db
        BY <3>1
      <3> QED
        BY <1>16, <3>2 DEF ItemsIn
    <2> HIDE DEF fine
    <2> QED
      BY <2>1, UpTheTree
  <1> QED
    BY <1>16, <1>17

\* An item of a folder is one of a node below it that is no folder.
LEMMA ItemsComeFrom ==
    ASSUME IsTree(children), folderItems \subseteq DOMAIN db
    PROVE \A n \in Nodes : \A i \in ItemsOf[n] :
            \E k \in Nodes : /\ ~IsFolder(k) /\ i \in ItemsOf[k]
                             /\ k = n \/ n \in AncestorsIn(children, k)
  <1> DEFINE from(n, i, k) == /\ ~IsFolder(k) /\ i \in ItemsOf[k]
                              /\ k = n \/ n \in AncestorsIn(children, k)
             fine == {n \in Nodes : \A i \in ItemsOf[n] : \E k \in Nodes : from(n, i, k)}
  <1>1. ASSUME NEW n \in Nodes, ChildrenOf(children, n) \subseteq fine PROVE n \in fine
    <2> SUFFICES ASSUME NEW i \in ItemsOf[n] PROVE \E k \in Nodes : from(n, i, k)
      OBVIOUS
    <2>1. CASE ~IsFolder(n)
      BY <2>1
    <2>2. CASE IsFolder(n)
      <3>1. ItemsOf[n] = UNION {ItemsOf[k] : k \in ChildrenOf(children, n)}
        BY <2>2, ItemsOfUnfold
      <3>2. PICK m \in ChildrenOf(children, n) : i \in ItemsOf[m]
        BY <3>1
      <3>3. PICK k \in Nodes : from(m, i, k)
        BY <1>1, <3>2
      <3>4. m \in Nodes /\ n \in AncestorsIn(children, m)
        BY ChildrenAreNodes, AncestorsOfChild
      <3>5. n \in AncestorsIn(children, k)
        BY <3>3, <3>4, AncestorsClosed
      <3> QED
        BY <3>3, <3>5
    <2> QED
      BY <2>1, <2>2
  <1>2. Nodes \subseteq fine
    <2> HIDE DEF fine
    <2> QED
      BY <1>1, UpTheTree
  <1> QED
    BY <1>2

LEMMA ItemsOfLiveNodes ==
    ASSUME FeedListIInv, NEW n \in Live, NEW i \in ItemsOf[n]
    PROVE i \in DOMAIN db /\ db[i].node \in Live
  <1>1. IsTree(children) /\ Found /\ folderItems \subseteq DOMAIN db /\ Live \subseteq Nodes
    BY ChildrenAreNodes, NodeTreeAssumption DEF FeedListIInv, Trees, Found, Live
  <1>2. PICK k \in Nodes : /\ ~IsFolder(k) /\ i \in ItemsOf[k]
                           /\ k = n \/ n \in AncestorsIn(children, k)
    BY <1>1, ItemsComeFrom
  <1>3. ItemsOf[k] = IF IsVFolder(k) THEN folderItems ELSE ItemsIn(db, k)
    BY <1>1, <1>2, ItemsOfUnfold
  <1>4. CASE IsVFolder(k)
    BY <1>1, <1>2, <1>3, <1>4 DEF Found
  <1>5. CASE ~IsVFolder(k)
    <2>1. i \in DOMAIN db /\ db[i].node = k
      BY <1>2, <1>3, <1>5 DEF ItemsIn
    <2>2. k \in Live
      <3>1. k # n => \E p \in Nodes : k \in ChildrenOf(children, p)
        BY <1>1, <1>2, AncestorsCases
      <3> QED
        BY <3>1, InTreeIs DEF Live
    <2> QED
      BY <2>1, <2>2
  <1> QED
    BY <1>4, <1>5

LEMMA MarkAllReadKeeps ==
    ASSUME FeedListIInv, NEW n \in Nodes, MarkAllRead(n)
    PROVE FeedListIInv'
  <1> DEFINE s == UNION {MarkedIn(k) : k \in Visited(n) \ {Root}}
  <1>1. /\ Step /\ MarkItemsRead(s) /\ newCount' \in Nat
        /\ UNCHANGED <<tree, unreadCount, nodeRows, nextId, overlooked>>
    BY DEF MarkAllRead
  <1>2. \A i \in s : i \in DOMAIN db /\ db[i].node \in Live
    <2> SUFFICES ASSUME NEW i \in s PROVE i \in DOMAIN db /\ db[i].node \in Live
      OBVIOUS
    <2>1. PICK k \in Visited(n) : i \in MarkedIn(k)
      OBVIOUS
    <2>2. k \in Live /\ i \in ItemsOf[k]
      BY <2>1 DEF Visited, Below, BelowIn, MarkedIn, Live
    <2> QED
      BY <2>2, ItemsOfLiveNodes
  <1> HIDE DEF s
  <1> QED
    BY <1>1, <1>2, MarkReadKeeps

-----------------------------------------------------------------------------
(* Merging.                                                                *)

MergeFields == {"db", "rows", "next", "new"}

\* What holds of the merge into n so far.
Merging(n, m) ==
    /\ DOMAIN m = MergeFields /\ m = [f \in MergeFields |-> m[f]]
    /\ StoredItems(m.db, m.next) /\ m.next \in Nat /\ nextId <= m.next /\ m.new \in Nat
    /\ \A i \in m.rows : i \in DOMAIN m.db /\ m.db[i].node \in Live
    /\ \A i \in DOMAIN m.db : m.db[i].node # n => i \in DOMAIN db /\ m.db[i] = db[i]
    /\ \A k \in Nodes : k # n => UnreadItems(m.db, k) = UnreadItems(db, k)
    /\ ~StateSync(n) /\ m.new = 0 => m.db = db

LEMMA MergeStarts ==
    ASSUME FeedListIInv, NEW n
    PROVE Merging(n, [db |-> db, rows |-> folderItems, next |-> nextId, new |-> 0])
  <1>1. StoredItems(db, nextId) /\ nextId \in Nat /\ nextId <= nextId /\ Found
    BY FeedListAssumption DEF FeedListIInv, Bounded
  <1> QED
    BY <1>1 DEF Merging, MergeFields, Found

\* A row of n is added or replaced.
LEMMA RowOfMerge ==
    ASSUME NEW n \in Live, NEW m, Merging(n, m), NEW i, NEW o, IsItem(o), o.node = n,
           i \in DOMAIN m.db => m.db[i].node = n
    PROVE /\ \A j \in DOMAIN Put(m.db, i, o) :
                Put(m.db, i, o)[j].node # n => j \in DOMAIN db /\ Put(m.db, i, o)[j] = db[j]
          /\ \A k \in Nodes : k # n => UnreadItems(Put(m.db, i, o), k) = UnreadItems(db, k)
          /\ \A j \in FolderRows(m.rows, Put(m.db, i, o), {i}) :
                j \in DOMAIN Put(m.db, i, o) /\ Put(m.db, i, o)[j].node \in Live
  <1> DEFINE e == Put(m.db, i, o)
  <1>1. /\ DOMAIN e = DOMAIN m.db \union {i} /\ e[i] = o
        /\ \A j \in DOMAIN m.db : j # i => e[j] = m.db[j]
    BY DEF Put
  <1> HIDE DEF e
  <1>2. \A k \in Nodes : k # n => UnreadItems(e, k) = UnreadItems(m.db, k)
    BY <1>1 DEF UnreadItems, ItemsIn
  <1>3. FolderRows(m.rows, e, {i}) \subseteq m.rows \union {i}
    BY DEF FolderRows
  <1>4. \A j \in m.rows : j \in DOMAIN m.db /\ m.db[j].node \in Live
    BY DEF Merging
  <1>5. \A k \in Nodes : k # n => UnreadItems(e, k) = UnreadItems(db, k)
    BY <1>2 DEF Merging
  <1>6. \A j \in FolderRows(m.rows, e, {i}) : j \in DOMAIN e /\ e[j].node \in Live
    BY <1>1, <1>3, <1>4
  <1>7. \A j \in DOMAIN e : e[j].node # n => j \in DOMAIN db /\ e[j] = db[j]
    <2>1. \A j \in DOMAIN m.db : m.db[j].node # n => j \in DOMAIN db /\ m.db[j] = db[j]
      BY DEF Merging
    <2> SUFFICES ASSUME NEW j \in DOMAIN e PROVE e[j].node # n => j \in DOMAIN db /\ e[j] = db[j]
      OBVIOUS
    <2>2. CASE j = i
      <3>1. e[j] = o
        BY <1>1, <2>2
      <3>2. o.node = n
        OBVIOUS
      <3> QED
        BY <3>1, <3>2
    <2>3. CASE j # i
      BY <1>1, <2>1, <2>3
    <2> QED
      BY <2>2, <2>3
  <1> QED
    BY <1>5, <1>6, <1>7 DEF e

LEMMA MergeItemKeeps ==
    ASSUME NEW n \in Live, n \in Nodes, Kind[n] = "feed", nextId \in Nat, nextId > 0,
           NEW m, Merging(n, m), NEW e
    PROVE Merging(n, MergeItem(n, m, e))
  <1>1. /\ DOMAIN m = MergeFields /\ m = [f \in MergeFields |-> m[f]]
        /\ StoredItems(m.db, m.next) /\ m.next \in Nat /\ nextId <= m.next /\ m.new \in Nat
    BY DEF Merging
  <1> DEFINE same == {i \in ItemsIn(m.db, n) : SameItem(m.db[i], e)}
  <1>2. CASE same = {}
    <2> DEFINE o == NewItem(n, e)
               d == Put(m.db, m.next, o)
               rows == FolderRows(m.rows, d, {m.next})
               later == m.next + 1
               new == m.new + 1
               r == MergeItem(n, m, e)
    <2>1. r = [ItemUpdate(m, m.next, o) EXCEPT !.next = @ + 1, !.new = @ + 1]
      BY <1>2 DEF MergeItem
    <2>2. IsItem(o) /\ o.node = n
      BY DEF NewItem, IsItem, ItemFields
    <2> HIDE DEF o
    <2>3. /\ DOMAIN r = MergeFields /\ r = [f \in MergeFields |-> r[f]]
          /\ r.db = d /\ r.rows = rows /\ r.next = later /\ r.new = new
      <3> HIDE DEF d, rows, r
      <3>1. ItemUpdate(m, m.next, o) = [m EXCEPT !.db = d, !.rows = rows]
        BY <1>1 DEF ItemUpdate, MergeFields, d, rows
      <3>2. r = [[m EXCEPT !.db = d, !.rows = rows] EXCEPT !.next = @ + 1, !.new = @ + 1]
        BY <2>1, <3>1
      <3> QED
        BY <1>1, <3>2 DEF MergeFields
    <2> HIDE DEF r
    <2>4. /\ m.next > 0 /\ later \in Nat /\ m.next < later /\ m.next <= later
          /\ nextId <= later /\ new \in Nat /\ new # 0
      BY <1>1
    <2> HIDE DEF later, new
    <2>5. StoredItems(d, later)
      BY <1>1, <2>2, <2>4, RowPut
    <2>6. m.next \notin DOMAIN m.db
      BY <1>1, SMTT(30) DEF StoredItems
    <2>7. /\ \A j \in DOMAIN d : d[j].node # n => j \in DOMAIN db /\ d[j] = db[j]
          /\ \A k \in Nodes : k # n => UnreadItems(d, k) = UnreadItems(db, k)
          /\ \A j \in rows : j \in DOMAIN d /\ d[j].node \in Live
      BY <2>2, <2>6, RowOfMerge
    <2> HIDE DEF d, rows
    <2>8. Merging(n, r)
      BY <2>3, <2>4, <2>5, <2>7 DEF Merging
    <2> QED
      BY <2>8 DEF r
  <1>3. CASE same # {}
    <2> DEFINE i == CHOOSE i \in same : TRUE
               differs == m.db[i].read # e.read \/ m.db[i].flag # e.flag
               o == StateUpdate(m.db[i], e)
               d == Put(m.db, i, o)
               rows == FolderRows(m.rows, d, {i})
               r == MergeItem(n, m, e)
    <2>1. i \in same
      BY <1>3
    <2>2. r = IF e.id # NoId /\ StateSync(n) /\ differs THEN ItemUpdate(m, i, o) ELSE m
      BY <1>3 DEF MergeItem
    <2>3. i \in DOMAIN m.db /\ m.db[i].node = n
      BY <2>1 DEF ItemsIn
    <2> HIDE DEF i, differs, same
    <2>4. IsItem(m.db[i])
      BY <1>1, <2>3 DEF StoredItems
    <2>5. IsItem(o) /\ o.node = n
      BY <2>3, <2>4 DEF StateUpdate, IsItem, ItemFields
    <2> HIDE DEF o
    <2>6. CASE r = m
      BY <2>6
    <2>7. CASE StateSync(n) /\ r = ItemUpdate(m, i, o)
      <3>1. /\ DOMAIN r = MergeFields /\ r = [f \in MergeFields |-> r[f]]
            /\ r.db = d /\ r.rows = rows /\ r.next = m.next /\ r.new = m.new
        <4> HIDE DEF d, rows, r
        <4>1. r = [m EXCEPT !.db = d, !.rows = rows]
          BY <1>1, <2>7 DEF ItemUpdate, MergeFields, d, rows
        <4> QED
          BY <1>1, <4>1 DEF MergeFields
      <3> HIDE DEF r
      <3>2. i \in Nat /\ i > 0 /\ i < m.next /\ m.next <= m.next
        BY <1>1, <2>3 DEF StoredItems
      <3>3. StoredItems(d, m.next)
        BY <1>1, <2>5, <3>2, RowPut
      <3>4. /\ \A j \in DOMAIN d : d[j].node # n => j \in DOMAIN db /\ d[j] = db[j]
            /\ \A k \in Nodes : k # n => UnreadItems(d, k) = UnreadItems(db, k)
            /\ \A j \in rows : j \in DOMAIN d /\ d[j].node \in Live
        BY <2>3, <2>5, RowOfMerge
      <3> HIDE DEF d, rows
      <3>5. Merging(n, r)
        BY <1>1, <2>7, <3>1, <3>3, <3>4 DEF Merging
      <3> QED
        BY <3>5 DEF r
    <2> QED
      BY <2>2, <2>6, <2>7
  <1> QED
    BY <1>2, <1>3

\* The states of the merge of the last k of L entries, from first.
MergeUnfolds(n, first, fits, L, f) ==
    f = [k \in 0..L |-> IF k = 0 THEN first
                        ELSE MergeItem(n, f[k - 1], fits[Len(fits) + 1 - k])]

LEMMA MergeExists ==
    ASSUME NEW n, NEW first, NEW fits
    PROVE \A L \in Nat : \E f : MergeUnfolds(n, first, fits, L, f)
  <1> DEFINE reached == {L \in Nat : \E f : MergeUnfolds(n, first, fits, L, f)}
             next(m, k) == MergeItem(n, m, fits[Len(fits) + 1 - k])
  <1>1. 0 \in reached
    <2> DEFINE f == [k \in 0..0 |-> first]
    <2>1. MergeUnfolds(n, first, fits, 0, f)
      BY DEF MergeUnfolds
    <2> QED
      BY <2>1
  <1>2. ASSUME NEW L \in Nat, L \in reached PROVE L + 1 \in reached
    <2>1. PICK f : MergeUnfolds(n, first, fits, L, f)
      BY <1>2
    <2> DEFINE g == [k \in 0..(L + 1) |-> IF k <= L THEN f[k] ELSE next(f[L], k)]
    <2>2. \A k \in 0..L : f[k] = IF k = 0 THEN first ELSE next(f[k - 1], k)
      BY <2>1 DEF MergeUnfolds
    <2> HIDE DEF next
    <2>3. \A k \in 0..L : g[k] = f[k]
      OBVIOUS
    <2>4. g[L + 1] = next(g[L], L + 1)
      BY <2>3
    <2>5. DOMAIN g = 0..(L + 1) /\ g = [k \in 0..(L + 1) |-> g[k]]
      OBVIOUS
    <2> HIDE DEF g
    <2>6. \A k \in 0..(L + 1) : g[k] = IF k = 0 THEN first ELSE next(g[k - 1], k)
      <3> SUFFICES ASSUME NEW k \in 0..(L + 1)
                   PROVE g[k] = IF k = 0 THEN first ELSE next(g[k - 1], k)
        OBVIOUS
      <3>1. CASE k = L + 1
        <4>1. k # 0 /\ k - 1 = L
          BY <3>1
        <4> QED
          BY <2>4, <3>1, <4>1
      <3>2. CASE k \in 0..L
        <4>1. k # 0 => k - 1 \in 0..L
          BY <3>2
        <4> QED
          BY <2>2, <2>3, <3>2, <4>1
      <3> QED
        BY <3>1, <3>2
    <2>7. g = [k \in 0..(L + 1) |-> IF k = 0 THEN first ELSE next(g[k - 1], k)]
      BY <2>5, <2>6
    <2>8. MergeUnfolds(n, first, fits, L + 1, g)
      BY <2>7 DEF MergeUnfolds, next
    <2> QED
      BY <2>8
  <1>3. Nat \subseteq reached
    <2> HIDE DEF reached
    <2> QED
      BY <1>1, <1>2, AllNumbers
  <1> QED
    BY <1>3

LEMMA MergedIs ==
    ASSUME FeedListIInv, NEW n \in Nodes, n \in Live, Kind[n] = "feed", NEW list \in Downloads
    PROVE Merging(n, Merged(n, list))
  <1> DEFINE max == EffectiveMax(n, list)
             fits == IF Len(list) > max THEN SubSeq(list, 1, max) ELSE list
             first == [db |-> db, rows |-> folderItems, next |-> nextId, new |-> 0]
             L == Len(fits)
             merge == CHOOSE f : MergeUnfolds(n, first, fits, L, f)
  <1>1. StoredItems(db, nextId) /\ nextId \in Nat /\ nextId > 0
    BY FeedListAssumption DEF FeedListIInv, Bounded
  <1>2. list \in Seq(Range(list))
    BY FeedListAssumption
  <1>3. max \in Nat
    <2> DEFINE flagged == {i \in ItemsIn(db, n) : db[i].flag}
    <2>1. flagged \subseteq DOMAIN db
      BY DEF ItemsIn
    <2>2. Cardinality(flagged) \in Nat
      <3> HIDE DEF flagged
      <3> QED
        BY <1>1, <2>1, ItemsAreFinite
    <2>3. CacheLimit[n] \in Nat /\ Len(list) \in Nat
      BY <1>2, FeedListAssumption
    <2>4. max \in {Cardinality(flagged) + Len(list), CacheLimit[n]}
      BY DEF EffectiveMax
    <2> HIDE DEF flagged, max
    <2> QED
      BY <2>2, <2>3, <2>4
  <1> HIDE DEF max
  <1>4. L \in Nat
    BY <1>2, <1>3
  <1>5. Merged(n, list) = merge[L]
    BY DEF Merged, MergeUnfolds, max
  <1> HIDE DEF fits, first, L
  <1>6. MergeUnfolds(n, first, fits, L, merge)
    BY <1>4, MergeExists
  <1> HIDE DEF merge
  <1>7. \A k \in 0..L : merge[k] = IF k = 0 THEN first
                                   ELSE MergeItem(n, merge[k - 1], fits[Len(fits) + 1 - k])
    BY <1>6 DEF MergeUnfolds
  <1> DEFINE fine == {k \in Nat : k \in 0..L => Merging(n, merge[k])}
  <1>8. 0 \in fine
    <2>1. merge[0] = first
      BY <1>4, <1>7
    <2> QED
      BY <2>1, MergeStarts DEF first
  <1>9. ASSUME NEW k \in Nat, k \in fine PROVE k + 1 \in fine
    <2> SUFFICES ASSUME k + 1 \in 0..L PROVE Merging(n, merge[k + 1])
      OBVIOUS
    <2>1. k \in 0..L /\ k + 1 # 0 /\ (k + 1) - 1 = k
      BY <1>4
    <2>2. PICK e : merge[k + 1] = MergeItem(n, merge[k], e)
      BY <1>7, <2>1
    <2>3. Merging(n, merge[k])
      BY <1>9, <2>1
    <2> QED
      BY <1>1, <2>2, <2>3, MergeItemKeeps
  <1>10. Nat \subseteq fine
    <2> HIDE DEF fine
    <2> QED
      BY <1>8, <1>9, AllNumbers
  <1>11. L \in 0..L
    BY <1>4
  <1> QED
    BY <1>4, <1>5, <1>10, <1>11

LEMMA UpdateKeeps ==
    ASSUME FeedListIInv, NEW n \in Nodes, NEW list \in Downloads, Update(n, list)
    PROVE FeedListIInv'
  <1> DEFINE m == Merged(n, list)
             gone == Dropped(m.db, n, EffectiveMax(n, list))
             kept == DOMAIN m.db \ gone
             marks == IF StateSync(n) \/ gone # {} THEN {n} ELSE {}
  <1>1. /\ StoredItems(db, nextId) /\ Found /\ Bounded /\ Counted /\ Step
        /\ n \in Live /\ Kind[n] = "feed" /\ MergeItems(n, list)
    BY DEF FeedListIInv, Update
  <1>2. /\ m.next <= MaxItem + 1 /\ db' = Restrict(m.db, kept) /\ folderItems' = m.rows \ gone
        /\ nextId' = m.next /\ nodeRows' = nodeRows \union {n} /\ UpdateCounters(marks)
        /\ newCount' = IF m.new > 0 THEN NewItems(m.new) ELSE newCount
        /\ saveTimer' = (saveTimer \/ m.new > 0)
        /\ overlooked' = overlooked \union (IF marks = {} /\ m.new > 0 THEN {n} ELSE {})
        /\ UNCHANGED <<children, selected, saved, unreadCount>>
    BY <1>1 DEF MergeItems
  <1>3. Merging(n, m)
    BY <1>1, MergedIs
  <1>4. gone \subseteq ItemsIn(m.db, n)
    BY DEF Dropped
  <1>5. marks \subseteq Live /\ (marks = {} => ~StateSync(n) /\ gone = {}) /\ marks \subseteq {n}
        /\ (marks # {} => n \in marks)
    BY <1>1
  <1> HIDE DEF m, gone, marks
  <1>6. /\ StoredItems(m.db, m.next) /\ m.next \in Nat /\ nextId <= m.next /\ m.new \in Nat
        /\ \A i \in m.rows : i \in DOMAIN m.db /\ m.db[i].node \in Live
        /\ \A k \in Nodes : k # n => UnreadItems(m.db, k) = UnreadItems(db, k)
        /\ ~StateSync(n) /\ m.new = 0 => m.db = db
    BY <1>3 DEF Merging
  <1>7. /\ StoredItems(db', m.next) /\ DOMAIN db' = kept /\ \A i \in kept : db'[i] = m.db[i]
        /\ \A k : UnreadItems(db', k) = UnreadItems(m.db, k) \intersect kept
    <2>1. kept \subseteq DOMAIN m.db
      OBVIOUS
    <2> HIDE DEF kept
    <2> QED
      BY <1>2, <1>6, <2>1, RowsRestricted
  <1>8. StoredItems(db, nextId)'
    BY <1>2, <1>7
  <1>9. Found'
    BY <1>2, <1>6, <1>7 DEF Found, Live
  <1>10. \A k \in Nodes : k # n => UnreadItems(db', k) = UnreadItems(db, k)
    <2> SUFFICES ASSUME NEW k \in Nodes, k # n PROVE UnreadItems(db', k) = UnreadItems(db, k)
      OBVIOUS
    <2>1. UnreadItems(m.db, k) \subseteq kept
      BY <1>4 DEF UnreadItems, ItemsIn
    <2> QED
      BY <1>6, <1>7, <2>1
  <1>11. marks = {} /\ m.new = 0 => UnreadItems(db', n) = UnreadItems(db, n)
    <2> SUFFICES ASSUME marks = {}, m.new = 0 PROVE UnreadItems(db', n) = UnreadItems(db, n)
      OBVIOUS
    <2>1. m.db = db /\ kept = DOMAIN db
      BY <1>5, <1>6
    <2>2. UnreadItems(db, n) \subseteq DOMAIN db
      BY DEF UnreadItems, ItemsIn
    <2> QED
      BY <1>7, <2>1, <2>2
  <1>12. Live \subseteq Nodes
    BY ChildrenAreNodes, NodeTreeAssumption DEF FeedListIInv, Trees, Live
  <1>13. \A k \in Live : k \in marks \/ k \in overlooked' \/ UnreadIn(db', k) = UnreadIn(db, k)
    <2> SUFFICES ASSUME NEW k \in Live, k \notin marks, k \notin overlooked'
                 PROVE UnreadIn(db', k) = UnreadIn(db, k)
      OBVIOUS
    <2>1. CASE k # n
      BY <1>10, <1>12, <2>1, UnreadSame
    <2>2. CASE k = n
      <3>1. marks = {} /\ ~(m.new > 0)
        BY <1>2, <1>5, <2>2
      <3>2. m.new = 0
        BY <1>6, <3>1
      <3> QED
        BY <1>11, <2>2, <3>1, <3>2, UnreadSame
    <2> QED
      BY <2>1, <2>2
  <1>14. overlooked \subseteq overlooked' /\ overlooked' \subseteq Nodes
    BY <1>1, <1>2 DEF Counted
  <1>15. newCount' \in Nat
    <2>1. unreadCount[Root] \in Nat
      BY <1>1, NodeTreeAssumption DEF Counted
    <2> QED
      BY <1>1, <1>2, <1>6, <2>1 DEF NewItems, Bounded
  <1>16. nextId' \in 1..(MaxItem + 1)
    BY <1>1, <1>2, <1>6, FeedListAssumption DEF Bounded
  <1>17. nodeRows' \subseteq Nodes /\ saveTimer' \in BOOLEAN
    BY <1>1, <1>2 DEF Bounded
  <1> QED
    BY <1>1, <1>2, <1>5, <1>8, <1>9, <1>13, <1>14, <1>15, <1>16, <1>17, ItemsUpdated

LEMMA ItemStepKeeps ==
    ASSUME FeedListIInv, ItemStep
    PROVE FeedListIInv'
  BY SetReadKeeps, SetUnreadKeeps, SetFlagKeeps, RemovalsKeep, MarkAllReadKeeps,
     NewsbinAddItemKeeps, UpdateKeeps DEF ItemStep

-----------------------------------------------------------------------------
(* The steps of the tree.                                                  *)

LEMMA LiveNodes ==
    ASSUME FeedListIInv
    PROVE /\ IsTree(children) /\ IsTree(saved) /\ Live \subseteq Nodes /\ Root \in Live
          /\ \A p \in Nodes : ChildrenOf(children, p) \subseteq Live
          /\ \A n \in Nodes \ Live : children[n] = <<>> /\ ChildrenOf(children, n) = {}
  <1>1. IsTree(children) /\ IsTree(saved)
    BY DEF FeedListIInv, Trees
  <1>2. Live \subseteq Nodes /\ \A p \in Nodes : ChildrenOf(children, p) \subseteq Live
    BY <1>1, ChildrenAreNodes, NodeTreeAssumption DEF Live
  <1>3. \A n \in Nodes \ Live : children[n] = <<>>
    BY <1>1 DEF IsTree, Live
  <1>4. \A n \in Nodes \ Live : ChildrenOf(children, n) = {}
    BY <1>3 DEF ChildrenOf, Range
  <1>5. Root \in Live
    BY DEF Live, InTree
  <1> QED
    BY <1>1, <1>2, <1>3, <1>4, <1>5

LEMMA PlaceForNew ==
    ASSUME FeedListIInv
    PROVE /\ ParentForNew \in Live
          /\ PositionForNew \in 1..(Len(children[ParentForNew]) + 1)
  <1>1. IsTree(children) /\ Live \subseteq Nodes /\ Root \in Live
    BY LiveNodes
  <1>2. selected \in Live \union {NoNode}
    BY DEF FeedListIInv, Trees
  <1>3. CASE selected = NoNode \/ IsFolder(selected)
    <2>1. ParentForNew \in Live
      BY <1>1, <1>2, <1>3, NodeTreeAssumption DEF ParentForNew
    <2>2. Len(children[ParentForNew]) \in Nat
      BY <1>1, <2>1 DEF IsTree
    <2>3. PositionForNew = Len(children[ParentForNew]) + 1
      BY <1>3 DEF PositionForNew
    <2> HIDE DEF FeedListIInv
    <2> QED
      BY <2>1, <2>2, <2>3
  <1>4. CASE ~(selected = NoNode \/ IsFolder(selected))
    <2>1. selected \in InTree(children) /\ selected # Root
      BY <1>2, <1>4, NodeTreeAssumption DEF IsFolder, Live
    <2>2. ParentForNew = ParentIn(children, selected)
      BY <1>4 DEF ParentForNew, Parent
    <2>3. /\ ParentForNew \in Live /\ ParentForNew \in Nodes
          /\ selected \in ChildrenOf(children, ParentForNew)
      BY <1>1, <2>1, <2>2, ParentsExist DEF Live
    <2> DEFINE list == children[ParentForNew]
    <2>4. list \in Seq(Nodes)
      BY <1>1, <2>3 DEF IsTree
    <2>5. \E i \in DOMAIN list : list[i] = selected
      BY <2>3 DEF ChildrenOf, Range
    <2>6. PositionForNew = (CHOOSE i \in DOMAIN list : list[i] = selected) + 1
      BY <1>4 DEF PositionForNew
    <2> HIDE DEF list
    <2> DEFINE i == CHOOSE i \in DOMAIN list : list[i] = selected
    <2>7. i \in DOMAIN list
      BY <2>5
    <2>8. PositionForNew = i + 1
      BY <2>6
    <2> HIDE DEF i
    <2>9. PositionForNew \in 1..(Len(list) + 1)
      BY <2>4, <2>7, <2>8
    <2> QED
      BY <2>3, <2>9 DEF list
  <1> QED
    BY <1>3, <1>4

LEMMA AddedChildren ==
    ASSUME FeedListIInv, NEW n \in Nodes, NodeAdded(n)
    PROVE /\ IsTree(children') /\ Live' = Live \union {n} /\ ParentForNew \in Live
          /\ \A q \in Nodes : ChildrenOf(children', q) =
                                IF q = ParentForNew THEN ChildrenOf(children, q) \union {n}
                                ELSE ChildrenOf(children, q)
          /\ \A k \in Live : AncestorsIn(children', k) = AncestorsIn(children, k)
  <1> DEFINE p == ParentForNew
             pos == PositionForNew
  <1>1. /\ IsTree(children) /\ Live \subseteq Nodes
        /\ \A k \in Nodes \ Live : children[k] = <<>>
    BY LiveNodes
  <1>2. /\ n \notin Live
        /\ children' = [children EXCEPT ![p] = InsertAt(@, pos, n), ![n] = <<>>]
    BY DEF NodeAdded
  <1>3. p \in Live /\ pos \in 1..(Len(children[p]) + 1)
    BY PlaceForNew
  <1> HIDE DEF p, pos
  <1>4. Inserted(children, children', p, n, pos)
    <2>1. children[n] = <<>> /\ n # p /\ children \in [Nodes -> Seq(Nodes)]
      BY <1>1, <1>2, <1>3 DEF IsTree
    <2> DEFINE e == [children EXCEPT ![p] = InsertAt(@, pos, n)]
    <2>2. [e EXCEPT ![n] = <<>>] = e
      BY <2>1
    <2>3. children' = e
      BY <1>2, <2>2
    <2> QED
      BY <2>3 DEF Inserted
  <1>5. p \in InTree(children) /\ n \in Nodes \ InTree(children)
    BY <1>2, <1>3 DEF Live
  <1>6. /\ IsTree(children') /\ InTree(children') = InTree(children) \union {n}
        /\ \A q \in Nodes : ChildrenOf(children', q) =
                                IF q = p THEN ChildrenOf(children, p) \union {n}
                                ELSE ChildrenOf(children, q)
        /\ \A k \in InTree(children) : AncestorsIn(children', k) = AncestorsIn(children, k)
    BY <1>1, <1>3, <1>4, <1>5, AddedTree
  <1> QED
    BY <1>3, <1>6 DEF Live, p

LEMMA NodeAddedKeeps ==
    ASSUME FeedListIInv, NEW n \in Nodes, NodeAdded(n)
    PROVE FeedListIInv'
  <1> DEFINE p == ParentForNew
  <1>1. /\ IsTree(children) /\ IsTree(saved) /\ Live \subseteq Nodes
        /\ \A q \in Nodes : ChildrenOf(children, q) \subseteq Live
        /\ \A k \in Nodes \ Live : children[k] = <<>> /\ ChildrenOf(children, k) = {}
    BY LiveNodes
  <1>2. /\ StoredItems(db, nextId) /\ Found /\ Bounded /\ Counted /\ Trees
        /\ Step /\ Kind[n] \in {"feed", "folder", "newsbin"}
        /\ n \notin Live /\ ItemsIn(db, n) = {}
        /\ unreadCount' = [unreadCount EXCEPT ![n] = 0]
        /\ nodeRows' = nodeRows \union {n} /\ saveTimer' = TRUE
        /\ UNCHANGED <<selected, saved, needsRecount, recountTimer, newCount, db,
                       folderItems, nextId, overlooked>>
    BY DEF FeedListIInv, NodeAdded, ScheduleSave
  <1>3. /\ p \in Live /\ IsTree(children') /\ Live' = Live \union {n}
        /\ \A q \in Nodes : ChildrenOf(children', q) =
                                IF q = p THEN ChildrenOf(children, p) \union {n}
                                ELSE ChildrenOf(children, q)
    BY AddedChildren
  <1> HIDE DEF p
  <1>4. Trees'
    BY <1>1, <1>2, <1>3 DEF Trees
  <1>5. StoredItems(db, nextId)' /\ Found'
    BY <1>2, <1>3 DEF Found
  <1>6. Bounded'
    BY <1>2, FeedListAssumption DEF Bounded, Step
  <1>7. /\ unreadCount \in [Nodes -> Nat] /\ needsRecount \subseteq Live
        /\ overlooked \subseteq Nodes /\ MarksGoUp /\ CountersHold
    BY <1>2 DEF Counted
  <1>8. /\ unreadCount' \in [Nodes -> Nat] /\ unreadCount'[n] = 0
         /\ \A k \in Live : unreadCount'[k] = unreadCount[k]
    BY <1>1, <1>2, <1>7
  <1>9. MarksGoUp'
    BY <1>2, <1>3, <1>7 DEF MarksGoUp
  <1>10. CountersHold'
    <2> SUFFICES ASSUME NEW m \in Live', m \notin needsRecount, m \notin overlooked
                 PROVE unreadCount'[m] = CountOf(m)'
      BY <1>2 DEF CountersHold
    <2>1. FolderUnread' = FolderUnread
      BY <1>2 DEF FolderUnread
    <2>2. CASE m = n
      <3>1. ~IsVFolder(n)
        BY <1>2 DEF IsVFolder
      <3>2. CASE IsFolder(n)
        <4>1. Addends(children', n) = {}
          BY <1>1, <1>2, <1>3 DEF Addends
        <4>2. FoldersSum(children', unreadCount', n) = 0
          BY <1>3, <1>8, <4>1, FoldersSumEmpty
        <4> QED
          BY <1>8, <2>2, <3>2, <4>2 DEF CountOf
      <3>3. CASE ~IsFolder(n)
        <4>1. UnreadItems(db, n) = {}
          BY <1>2 DEF UnreadItems
        <4>2. UnreadIn(db, n) = 0
          BY <4>1, UnreadInIs, FS_EmptySet
        <4> QED
          BY <1>2, <1>8, <2>2, <3>1, <3>3, <4>2 DEF CountOf
      <3> QED
        BY <3>2, <3>3
    <2>3. CASE m # n
      <3>1. m \in Live /\ unreadCount'[m] = unreadCount[m] /\ unreadCount[m] = CountOf(m)
        BY <1>3, <1>7, <1>8, <2>3 DEF CountersHold
      <3>2. CASE IsFolder(m)
        <4>1. \A k \in Addends(children, m) : unreadCount'[k] = unreadCount[k] /\ k # n
          BY <1>1, <1>2, <1>8, <3>1 DEF Addends
        <4>2. CASE m = p
          <5>1. Addends(children', m) = Addends(children, m) \union {n}
            BY <1>2, <1>3, <1>1, <4>2 DEF Addends, IsVFolder
          <5>2. n \notin Addends(children, m) /\ m \in Nodes
            BY <1>1, <3>1, <4>1
          <5>3. FoldersSum(children', unreadCount', m) = FoldersSum(children, unreadCount, m)
            BY <1>1, <1>3, <1>7, <1>8, <4>1, <5>1, <5>2, FoldersSumAdds
          <5> QED
            BY <3>1, <3>2, <5>3 DEF CountOf
        <4>3. CASE m # p
          <5>1. Addends(children', m) = Addends(children, m)
            BY <1>1, <1>3, <3>1, <4>3 DEF Addends
          <5>2. FoldersSum(children', unreadCount', m) = FoldersSum(children, unreadCount, m)
            BY <4>1, <5>1, FoldersSumSame
          <5> QED
            BY <3>1, <3>2, <5>2 DEF CountOf
        <4> QED
          BY <4>2, <4>3
      <3>3. CASE ~IsFolder(m)
        BY <1>2, <2>1, <3>1, <3>3 DEF CountOf
      <3> QED
        BY <3>2, <3>3
    <2> QED
      BY <2>2, <2>3
  <1>11. Counted'
    BY <1>2, <1>3, <1>7, <1>8, <1>9, <1>10 DEF Counted
  <1> QED
    BY <1>4, <1>5, <1>6, <1>11 DEF FeedListIInv

LEMMA NodeRemovedKeeps ==
    ASSUME FeedListIInv, NEW n \in Nodes, NodeRemoved(n)
    PROVE FeedListIInv'
  <1> DEFINE gone == Below(n)
             kept == {i \in DOMAIN db : db[i].node \notin gone}
             s == {n} \union (VFolders \intersect Live)
  <1>1. /\ IsTree(children) /\ IsTree(saved) /\ Live \subseteq Nodes
    BY LiveNodes
  <1>2. /\ StoredItems(db, nextId) /\ Found /\ Bounded /\ Counted /\ Trees
        /\ Step /\ n \in Live \ {Root}
        /\ selected' = IF selected \in gone THEN NoNode ELSE selected
        /\ children' = [k \in Nodes |-> IF k \in gone THEN <<>> ELSE Without(children[k], n)]
        /\ db' = Restrict(db, kept)
        /\ folderItems' = IF gone \intersect VFolders # {} THEN {}
                          ELSE {i \in folderItems : db[i].node \notin gone}
        /\ needsRecount' = (needsRecount \union WithAncestors(s)) \ gone
        /\ recountTimer' = TRUE /\ nodeRows' \subseteq nodeRows /\ saveTimer' = TRUE
        /\ overlooked' = overlooked \ gone
        /\ UNCHANGED <<saved, unreadCount, newCount, nextId>>
    BY DEF FeedListIInv, NodeRemoved, ScheduleSave
  <1>3. gone = BelowIn(children, n)
    BY DEF Below
  <1>4. Removed(children, children', n)
    BY <1>2, <1>3 DEF Removed
  <1> HIDE DEF gone
  <1>5. /\ IsTree(children') /\ Live' = Live \ gone
        /\ \A k \in Live' : ChildrenOf(children', k) = ChildrenOf(children, k) \ {n}
    BY <1>1, <1>2, <1>3, <1>4, RemovedTree DEF Live
  <1>6. Trees'
    BY <1>1, <1>2, <1>5 DEF Trees
  <1>7. /\ StoredItems(db', nextId) /\ DOMAIN db' = kept
        /\ \A i \in kept : db'[i] = db[i]
        /\ \A k : UnreadItems(db', k) = UnreadItems(db, k) \intersect kept
    <2>1. kept \subseteq DOMAIN db
      OBVIOUS
    <2> HIDE DEF kept
    <2> QED
      BY <1>2, <2>1, RowsRestricted
  <1>8. StoredItems(db, nextId)'
    BY <1>2, <1>7
  <1>9. Found'
    <2>1. \A i \in folderItems' : i \in folderItems /\ db[i].node \notin gone
      BY <1>2
    <2> QED
      BY <1>2, <1>5, <1>7, <2>1 DEF Found
  <1>10. Bounded'
    BY <1>2, FeedListAssumption DEF Bounded, Step
  <1>11. /\ unreadCount \in [Nodes -> Nat] /\ needsRecount \subseteq Live
         /\ overlooked \subseteq Nodes /\ MarksGoUp /\ CountersHold
    BY <1>2 DEF Counted
  <1>12. s \subseteq Live /\ n \in s /\ VFolders \intersect Live \subseteq s
    BY <1>2
  <1> HIDE DEF s
  <1>13. /\ WithAncestors(s) \subseteq Live /\ s \subseteq WithAncestors(s)
         /\ \A p \in Nodes : \A k \in ChildrenOf(children, p) :
                k \in WithAncestors(s) => p \in WithAncestors(s)
    <2>1. s \subseteq WithAncestors(s)
      BY DEF WithAncestors
    <2> QED
      BY <1>1, <1>12, <2>1, WithAncestorsInTree
  <1>14. needsRecount' \subseteq Live'
    BY <1>2, <1>5, <1>11, <1>13
  <1>15. MarksGoUp'
    <2> SUFFICES ASSUME NEW p \in Nodes, NEW k \in ChildrenOf(children', p), k \in needsRecount'
                 PROVE p \in needsRecount' \union overlooked'
      BY DEF MarksGoUp
    <2>1. p \in Live'
      <3>1. children'[p] # <<>>
        BY DEF ChildrenOf, Range
      <3> QED
        BY <1>5, <3>1 DEF IsTree, Live
    <2>2. k \in ChildrenOf(children, p) /\ p \notin gone
      BY <1>5, <2>1
    <2>3. CASE k \in needsRecount
      BY <1>2, <1>11, <2>2, <2>3 DEF MarksGoUp
    <2>4. CASE k \in WithAncestors(s)
      BY <1>2, <1>13, <2>2, <2>4
    <2> QED
      BY <1>2, <2>3, <2>4
  <1>16. CountersHold'
    <2> SUFFICES ASSUME NEW m \in Live', m \notin needsRecount', m \notin overlooked'
                 PROVE unreadCount'[m] = CountOf(m)'
      BY DEF CountersHold
    <2>1. /\ m \in Live /\ m \in Nodes /\ m \notin gone /\ m \notin needsRecount
          /\ m \notin overlooked /\ m \notin WithAncestors(s)
      BY <1>1, <1>2, <1>5
    <2>2. unreadCount'[m] = unreadCount[m] /\ unreadCount[m] = CountOf(m)
      BY <1>2, <1>11, <2>1 DEF CountersHold
    <2>3. ~IsVFolder(m)
      BY <1>12, <1>13, <2>1 DEF VFolders
    <2>4. CASE IsFolder(m)
      <3>1. n \notin ChildrenOf(children, m)
        BY <1>12, <1>13, <2>1
      <3>2. Addends(children', m) = Addends(children, m)
        BY <1>5, <3>1 DEF Addends
      <3>3. FoldersSum(children', unreadCount', m) = FoldersSum(children, unreadCount, m)
        BY <1>2, <3>2, FoldersSumSame
      <3> QED
        BY <2>2, <2>4, <3>3 DEF CountOf
    <2>5. CASE ~IsFolder(m)
      <3>1. UnreadItems(db, m) \subseteq kept
        BY <2>1 DEF UnreadItems, ItemsIn
      <3>2. UnreadItems(db', m) = UnreadItems(db, m)
        BY <1>7, <3>1
      <3>3. UnreadIn(db', m) = UnreadIn(db, m)
        BY <3>2, UnreadSame
      <3> QED
        BY <2>2, <2>3, <2>5, <3>3 DEF CountOf
    <2> QED
      BY <2>4, <2>5
  <1>17. Counted'
    BY <1>2, <1>11, <1>14, <1>15, <1>16 DEF Counted
  <1> QED
    BY <1>6, <1>8, <1>9, <1>10, <1>17 DEF FeedListIInv

LEMMA MovedChildren ==
    ASSUME FeedListIInv, NEW n \in Live \ {Root}, NEW p \in Live,
           NEW pos \in 1..(Len(children[p]) + 1), NodeMoved(n, p, pos)
    PROVE /\ IsTree(children') /\ Live' = Live
          /\ \A k \in Nodes : ChildrenOf(children', k) =
                                  IF k = p THEN ChildrenOf(children, k) \union {n}
                                  ELSE ChildrenOf(children, k) \ {n}
  <1> DEFINE old == ParentIn(children, n)
  <1>1. /\ IsTree(children) /\ Live \subseteq Nodes
    BY LiveNodes
  <1>2. /\ p \notin Below(n)
        /\ LET without == [children EXCEPT ![old] = Without(@, n)]
           IN  /\ pos <= Len(without[p]) + 1
               /\ children' = [without EXCEPT ![p] = InsertAt(@, pos, n)]
    BY DEF NodeMoved, Parent
  <1>3. old \in Nodes /\ n \in ChildrenOf(children, old)
    BY <1>1, ParentsExist DEF Live
  <1> HIDE DEF old
  <1>4. Moved(children, children', n, p, pos)
    <2> DEFINE w == [children EXCEPT ![old] = Without(@, n)]
    <2>1. pos <= Len(w[p]) + 1 /\ children' = [w EXCEPT ![p] = InsertAt(@, pos, n)]
      BY <1>2
    <2>2. w[p] \in Seq(Nodes)
      <3>1. children \in [Nodes -> Seq(Nodes)] /\ IsInjective(children[old]) /\ p \in Nodes
        BY <1>1, <1>3, TreeHasLists DEF Lists
      <3>2. Without(children[old], n) \in Seq(Nodes)
        BY <1>3, <3>1, WithoutIs
      <3> QED
        BY <1>3, <3>1, <3>2
    <2> HIDE DEF w
    <2>3. pos \in 1..(Len(w[p]) + 1)
      BY <2>1, <2>2
    <2>4. pos \in 1..(Len(w[p]) + 1) /\ Inserted(w, children', p, n, pos)
      BY <2>1, <2>3 DEF Inserted
    <2> QED
      BY <2>4 DEF w, Moved, old
  <1> QED
    <2>1. n \in InTree(children) \ {Root} /\ p \in InTree(children) \ BelowIn(children, n)
      BY <1>2 DEF Live, Below
    <2>2. /\ IsTree(children') /\ InTree(children') = InTree(children)
          /\ \A k \in Nodes : ChildrenOf(children', k) =
                                  IF k = p THEN ChildrenOf(children, k) \union {n}
                                  ELSE ChildrenOf(children, k) \ {n}
      BY <1>1, <1>4, <2>1, MovedTree
    <2> QED
      BY <2>2 DEF Live

LEMMA NodeMovedKeeps ==
    ASSUME FeedListIInv, NEW n \in Live \ {Root}, NEW p \in Live,
           NEW pos \in 1..(Len(children[p]) + 1), NodeMoved(n, p, pos)
    PROVE FeedListIInv'
  <1> DEFINE old == ParentIn(children, n)
  <1>1. /\ IsTree(children) /\ Live \subseteq Nodes
    BY LiveNodes
  <1>2. /\ StoredItems(db, nextId) /\ Found /\ Bounded /\ Counted /\ Trees
        /\ Step
        /\ nodeRows' = nodeRows \union {n} /\ saveTimer' = TRUE
        /\ overlooked' = overlooked \union (IF p = old THEN {} ELSE {p, old})
        /\ UNCHANGED <<selected, saved, counters, db, folderItems, nextId>>
    BY DEF FeedListIInv, NodeMoved, ScheduleSave, Parent
  <1>3. old \in Nodes /\ n \in ChildrenOf(children, old)
    BY <1>1, ParentsExist DEF Live
  <1>4. \A q \in Nodes : n \in ChildrenOf(children, q) => q = old
    BY <1>1, <1>3, ParentOfChild
  <1> HIDE DEF old
  <1>5. /\ IsTree(children') /\ Live' = Live
        /\ \A k \in Nodes : ChildrenOf(children', k) =
                                IF k = p THEN ChildrenOf(children, k) \union {n}
                                ELSE ChildrenOf(children, k) \ {n}
    BY MovedChildren
  <1>6. Trees'
    BY <1>1, <1>2, <1>5 DEF Trees
  <1>7. StoredItems(db, nextId)' /\ Found'
    BY <1>2, <1>5 DEF Found
  <1>8. Bounded'
    BY <1>1, <1>2, FeedListAssumption DEF Bounded, Step, counters
  <1>9. /\ unreadCount \in [Nodes -> Nat] /\ needsRecount \subseteq Live
         /\ overlooked \subseteq Nodes /\ MarksGoUp /\ CountersHold
         /\ UNCHANGED <<unreadCount, needsRecount>>
    BY <1>2 DEF Counted, counters
  <1>10. MarksGoUp'
    <2> SUFFICES ASSUME NEW q \in Nodes, NEW k \in ChildrenOf(children', q), k \in needsRecount
                 PROVE q \in needsRecount' \union overlooked'
      BY <1>9 DEF MarksGoUp
    <2>1. CASE k \in ChildrenOf(children, q)
      BY <1>2, <1>9, <2>1 DEF MarksGoUp
    <2>2. CASE k \notin ChildrenOf(children, q)
      <3>1. q = p /\ p # old
        BY <1>3, <1>5, <2>2
      <3> QED
        BY <1>2, <3>1
    <2> QED
      BY <2>1, <2>2
  <1>11. CountersHold'
    <2> SUFFICES ASSUME NEW m \in Live, m \notin needsRecount, m \notin overlooked'
                 PROVE unreadCount[m] = CountOf(m)'
      BY <1>5, <1>9 DEF CountersHold
    <2>1. unreadCount[m] = CountOf(m)
      BY <1>2, <1>9 DEF CountersHold
    <2>2. ChildrenOf(children', m) = ChildrenOf(children, m)
      <3>1. CASE p = old
        <4>1. /\ m \in Nodes /\ n \in ChildrenOf(children, p)
              /\ m # p => n \notin ChildrenOf(children, m)
          BY <1>1, <1>3, <1>4, <3>1
        <4>2. ChildrenOf(children', m) = IF m = p THEN ChildrenOf(children, m) \union {n}
                                         ELSE ChildrenOf(children, m) \ {n}
          BY <1>5, <4>1
        <4> QED
          BY <4>1, <4>2
      <3>2. CASE p # old
        <4>1. m # p /\ m # old /\ m \in Nodes
          BY <1>1, <1>2, <3>2
        <4> QED
          BY <1>4, <1>5, <4>1
      <3> QED
        BY <3>1, <3>2
    <2>3. Addends(children', m) = Addends(children, m)
      BY <2>2 DEF Addends
    <2>4. FoldersSum(children', unreadCount', m) = FoldersSum(children, unreadCount, m)
      BY <1>9, <2>3, FoldersSumSame
    <2>5. FolderUnread' = FolderUnread
      BY <1>2 DEF FolderUnread
    <2> QED
      BY <1>2, <2>1, <2>4, <2>5 DEF CountOf
  <1>12. overlooked' \subseteq Nodes
    BY <1>1, <1>2, <1>3, <1>9
  <1>13. Counted'
    BY <1>5, <1>9, <1>10, <1>11, <1>12 DEF Counted
  <1> QED
    BY <1>6, <1>7, <1>8, <1>13 DEF FeedListIInv

LEMMA SelectionKeeps ==
    ASSUME FeedListIInv, NEW n \in Live, Step, SetSelected(n)
    PROVE FeedListIInv'
  <1>1. /\ Trees /\ StoredItems(db, nextId) /\ Found /\ Bounded /\ Counted
        /\ selected' = n /\ newCount' = 0
        /\ UNCHANGED <<children, saved, saveTimer, unreadCount, needsRecount, recountTimer,
                       db, folderItems, nodeRows, nextId, overlooked>>
    BY DEF FeedListIInv, SetSelected, database
  <1>2. Trees'
    BY <1>1 DEF Trees, Live
  <1>3. Bounded'
    BY <1>1, FeedListAssumption DEF Bounded, Step
  <1>4. Counted'
    BY <1>1 DEF Counted, MarksGoUp, CountersHold, CountOf, FolderUnread, Live
  <1>5. StoredItems(db, nextId)' /\ Found'
    BY <1>1 DEF Found, Live
  <1> QED
    BY <1>2, <1>3, <1>4, <1>5 DEF FeedListIInv

LEMMA TreeStepKeeps ==
    ASSUME FeedListIInv, TreeStep
    PROVE FeedListIInv'
  <1>1. CASE \E n \in Nodes : NodeAdded(n)
    BY <1>1, NodeAddedKeeps
  <1>2. CASE \E n \in Nodes : NodeRemoved(n)
    BY <1>2, NodeRemovedKeeps
  <1>3. CASE \E n \in Nodes : Select(n)
    BY <1>3, SelectionKeeps DEF Select
  <1>4. CASE \E n \in Live \ {Root}, p \in Live :
                \E pos \in 1..(Len(children[p]) + 1) : NodeMoved(n, p, pos)
    BY <1>4, NodeMovedKeeps
  <1>5. CASE NextUnread
    BY <1>5, SelectionKeeps DEF NextUnread
  <1> QED
    BY <1>1, <1>2, <1>3, <1>4, <1>5 DEF TreeStep

LEMMA SaveTimerKeeps ==
    ASSUME FeedListIInv, SaveTimer
    PROVE FeedListIInv'
  <1>1. /\ Trees /\ StoredItems(db, nextId) /\ Found /\ Bounded /\ Counted
        /\ saveTimer' = FALSE /\ saved' = children
        /\ UNCHANGED <<children, selected, unreadCount, needsRecount, recountTimer, newCount,
                       db, folderItems, nodeRows, nextId, overlooked, steps>>
    BY DEF FeedListIInv, SaveTimer, database, counters
  <1>2. Trees'
    BY <1>1 DEF Trees, Live
  <1>3. Bounded'
    BY <1>1 DEF Bounded
  <1>4. Counted'
    BY <1>1 DEF Counted, MarksGoUp, CountersHold, CountOf, FolderUnread, Live
  <1>5. StoredItems(db, nextId)' /\ Found'
    BY <1>1 DEF Found, Live
  <1> QED
    BY <1>2, <1>3, <1>4, <1>5 DEF FeedListIInv

-----------------------------------------------------------------------------
(* Counting.                                                               *)

\* g counts: the nodes in sums add up their children, the others have their own.
Counts(c, sums, leaf, g) ==
    g = [n \in Nodes |-> IF n \in sums THEN FoldersSum(c, g, n) ELSE leaf[n]]

LEMMA CountsAreNumbers ==
    ASSUME NEW c, IsTree(c), NEW sums, NEW leaf \in [Nodes -> Nat]
    PROVE /\ \E g : Counts(c, sums, leaf, g)
          /\ \A g : Counts(c, sums, leaf, g) =>
                /\ g \in [Nodes -> Nat]
                /\ \A n \in Nodes : g[n] = IF n \in sums THEN FoldersSum(c, g, n) ELSE leaf[n]
  <1>1. PICK f \in [Nodes -> Nat] :
                \A n \in Nodes : f[n] = IF n \in sums THEN FoldersSum(c, f, n) ELSE leaf[n]
    BY CountsExist
  <1>2. Counts(c, sums, leaf, f)
    <2>1. f = [n \in Nodes |-> f[n]]
      OBVIOUS
    <2> QED
      BY <1>1, <2>1 DEF Counts
  <1>3. ASSUME NEW g, Counts(c, sums, leaf, g)
        PROVE /\ g \in [Nodes -> Nat]
              /\ \A n \in Nodes : g[n] = IF n \in sums THEN FoldersSum(c, g, n) ELSE leaf[n]
    <2>1. /\ DOMAIN g = Nodes /\ g = [n \in Nodes |-> g[n]]
          /\ \A n \in Nodes : g[n] = IF n \in sums THEN FoldersSum(c, g, n) ELSE leaf[n]
      BY <1>3 DEF Counts
    <2> DEFINE same == {n \in Nodes : g[n] = f[n]}
    <2>2. ASSUME NEW n \in Nodes, ChildrenOf(c, n) \subseteq same PROVE n \in same
      <3>1. \A k \in Addends(c, n) : g[k] = f[k]
        BY <2>2 DEF Addends
      <3>2. FoldersSum(c, g, n) = FoldersSum(c, f, n)
        BY <3>1, FoldersSumSame
      <3> QED
        BY <1>1, <2>1, <3>2
    <2>3. Nodes \subseteq same
      <3> HIDE DEF same
      <3> QED
        BY <2>2, UpTheTree
    <2>4. \A n \in Nodes : g[n] \in Nat
      BY <2>3
    <2> QED
      BY <2>1, <2>4
  <1> QED
    BY <1>2, <1>3

LEMMA CountOfIsNumber ==
    ASSUME FeedListIInv, NEW n \in Nodes
    PROVE CountOf(n) \in Nat
  <1>1. IsTree(children) /\ StoredItems(db, nextId) /\ unreadCount \in [Nodes -> Nat]
        /\ folderItems \subseteq DOMAIN db
    BY DEF FeedListIInv, Trees, Counted, Found
  <1>2. FoldersSum(children, unreadCount, n) \in Nat
    BY <1>1, FoldersSumIs
  <1>3. FolderUnread \in Nat
    BY <1>1, FoundUnreadType DEF FolderUnread
  <1>4. UnreadIn(db, n) \in Nat
    BY <1>1, UnreadInType
  <1> QED
    BY <1>2, <1>3, <1>4 DEF CountOf

LEMMA RecountedIs ==
    ASSUME FeedListIInv, NEW dirty
    PROVE /\ Recounted(dirty) \in [Nodes -> Nat]
          /\ \A n \in Nodes : Recounted(dirty)[n] =
                IF n \notin dirty THEN unreadCount[n]
                ELSE IF IsFolder(n) THEN FoldersSum(children, Recounted(dirty), n)
                ELSE CountOf(n)
  <1> DEFINE unfolds(f) ==
                f = [n \in Nodes |-> IF n \notin dirty THEN unreadCount[n]
                                     ELSE IF IsFolder(n) THEN FoldersSum(children, f, n)
                                     ELSE CountOf(n)]
             sums == {n \in dirty : IsFolder(n)}
             leaf == [n \in Nodes |-> IF n \notin dirty THEN unreadCount[n] ELSE CountOf(n)]
  <1>1. IsTree(children) /\ unreadCount \in [Nodes -> Nat]
    BY DEF FeedListIInv, Trees, Counted
  <1>2. leaf \in [Nodes -> Nat]
    BY <1>1, CountOfIsNumber
  <1>3. \A f : unfolds(f) <=> Counts(children, sums, leaf, f)
    <2> SUFFICES ASSUME NEW f
                 PROVE [n \in Nodes |-> IF n \notin dirty THEN unreadCount[n]
                                        ELSE IF IsFolder(n) THEN FoldersSum(children, f, n)
                                        ELSE CountOf(n)]
                       = [n \in Nodes |-> IF n \in sums THEN FoldersSum(children, f, n)
                                          ELSE leaf[n]]
      BY DEF Counts
    <2> QED
      OBVIOUS
  <1>4. Recounted(dirty) = CHOOSE f : unfolds(f)
    BY DEF Recounted
  <1> HIDE DEF unfolds, sums, leaf
  <1>5. unfolds(Recounted(dirty))
    BY <1>1, <1>2, <1>3, <1>4, CountsAreNumbers
  <1>6. Recounted(dirty) \in [Nodes -> Nat]
    BY <1>1, <1>2, <1>3, <1>5, CountsAreNumbers
  <1>7. \A n \in Nodes : Recounted(dirty)[n] =
                IF n \notin dirty THEN unreadCount[n]
                ELSE IF IsFolder(n) THEN FoldersSum(children, Recounted(dirty), n)
                ELSE CountOf(n)
    <2> DEFINE r == Recounted(dirty)
    <2>1. unfolds(r)
      BY <1>5
    <2> HIDE DEF r
    <2>2. \A n \in Nodes : r[n] = IF n \notin dirty THEN unreadCount[n]
                                  ELSE IF IsFolder(n) THEN FoldersSum(children, r, n)
                                  ELSE CountOf(n)
      BY <2>1 DEF unfolds
    <2> QED
      BY <2>2 DEF r
  <1> QED
    BY <1>6, <1>7

LEMMA RecountTimerKeeps ==
    ASSUME FeedListIInv, RecountTimer
    PROVE FeedListIInv'
  <1> DEFINE dirty == needsRecount \intersect Live
  <1>1. /\ Trees /\ StoredItems(db, nextId) /\ Found /\ Bounded /\ Counted
        /\ recountTimer' = FALSE /\ unreadCount' = Recounted(dirty)
        /\ needsRecount' = needsRecount \ Live /\ overlooked' = overlooked \ needsRecount
        /\ UNCHANGED <<children, selected, saved, saveTimer, newCount, db, folderItems,
                       nodeRows, nextId, steps>>
    BY DEF FeedListIInv, RecountTimer, tree, database
  <1>2. Trees' /\ Bounded' /\ StoredItems(db, nextId)' /\ Found'
    BY <1>1 DEF Trees, Bounded, Found, Live
  <1>3. /\ unreadCount \in [Nodes -> Nat] /\ needsRecount \subseteq Live
        /\ overlooked \subseteq Nodes /\ MarksGoUp /\ CountersHold
    BY <1>1 DEF Counted
  <1>4. dirty = needsRecount /\ needsRecount' = {}
    BY <1>1, <1>3
  <1> HIDE DEF dirty
  <1>5. /\ unreadCount' \in [Nodes -> Nat]
        /\ \A n \in Nodes : unreadCount'[n] =
                IF n \notin needsRecount THEN unreadCount[n]
                ELSE IF IsFolder(n) THEN FoldersSum(children, unreadCount', n)
                ELSE CountOf(n)
    BY <1>1, <1>4, RecountedIs
  <1>6. Live \subseteq Nodes
    BY LiveNodes
  <1>7. CountersHold'
    <2> SUFFICES ASSUME NEW n \in Live, n \notin overlooked'
                 PROVE unreadCount'[n] = CountOf(n)'
      BY <1>1 DEF CountersHold, Live
    <2>1. FolderUnread' = FolderUnread
      BY <1>1 DEF FolderUnread
    <2>2. CASE n \in needsRecount
      BY <1>1, <1>5, <1>6, <2>1, <2>2 DEF CountOf
    <2>3. CASE n \notin needsRecount
      <3>1. n \notin overlooked
        BY <1>1, <2>3
      <3>2. unreadCount'[n] = unreadCount[n] /\ unreadCount[n] = CountOf(n)
        BY <1>3, <1>5, <1>6, <2>3, <3>1 DEF CountersHold
      <3>3. \A k \in Addends(children, n) : unreadCount'[k] = unreadCount[k]
        <4> SUFFICES ASSUME NEW k \in Addends(children, n) PROVE unreadCount'[k] = unreadCount[k]
          OBVIOUS
        <4>1. k \in ChildrenOf(children, n) /\ k \in Nodes
          BY <1>6, LiveNodes DEF Addends
        <4>2. k \notin needsRecount
          BY <1>3, <1>6, <2>3, <3>1, <4>1 DEF MarksGoUp
        <4> QED
          BY <1>5, <4>1, <4>2
      <3>4. FoldersSum(children, unreadCount', n) = FoldersSum(children, unreadCount, n)
        BY <3>3, FoldersSumSame
      <3> QED
        BY <1>1, <2>1, <3>2, <3>4 DEF CountOf
    <2> QED
      BY <2>2, <2>3
  <1>8. Counted'
    BY <1>1, <1>3, <1>4, <1>5, <1>7 DEF Counted, MarksGoUp, Live
  <1> QED
    BY <1>2, <1>8 DEF FeedListIInv

LEMMA RestartKeeps ==
    ASSUME FeedListIInv, NEW killed \in BOOLEAN, Restart(killed)
    PROVE FeedListIInv'
  <1> DEFINE list == IF killed THEN saved ELSE children
             kept == KeptItems
             rows == ImportedRows(nodeRows, list)
             stale == StaleRows(rows, list)
             d == Restrict(db, kept)
             found == {i \in folderItems \intersect kept : db[i].node \notin stale}
             own(n) == IF IsVFolder(n) THEN Cardinality({i \in found : ~d[i].read})
                       ELSE UnreadIn(d, n)
             unfolds(f) == f = [n \in Nodes |-> IF n \notin InTree(list) THEN 0
                                                ELSE IF IsFolder(n) THEN FoldersSum(list, f, n)
                                                ELSE own(n)]
             sums == {n \in InTree(list) : IsFolder(n)}
             leaf == [n \in Nodes |-> IF n \notin InTree(list) THEN 0 ELSE own(n)]
  <1>1. /\ Trees /\ StoredItems(db, nextId) /\ Found /\ Bounded /\ Counted
        /\ Step /\ selected' = NoNode /\ newCount' = 0
        /\ needsRecount' = {} /\ recountTimer' = FALSE /\ saveTimer' = TRUE
        /\ overlooked' = {} /\ nextId' = nextId
        /\ saved' = list /\ children' = list /\ db' = d
        /\ folderItems' = found /\ nodeRows' = rows \ stale
        /\ unreadCount' = CHOOSE f : unfolds(f)
    BY DEF FeedListIInv, Restart
  <1>2. IsTree(list)
    BY <1>1 DEF Trees
  <1>3. InTree(list) \subseteq Nodes /\ kept \subseteq DOMAIN db
        /\ \A i \in kept : db[i].node \in nodeRows
    BY <1>2, ChildrenAreNodes, NodeTreeAssumption DEF KeptItems
  <1> HIDE DEF list, kept
  <1>4. rows \ stale = FoundInList(list)
    BY DEF ImportedRows, StaleRows, FoundInList
  <1>5. FoundInList(list) \subseteq InTree(list) /\ nodeRows \subseteq rows
    BY DEF FoundInList, ImportedRows
  <1>6. \A i \in found : i \in kept /\ db[i].node \in InTree(list)
    BY <1>3, <1>4, <1>5
  <1>7. /\ StoredItems(d, nextId) /\ DOMAIN d = kept /\ \A i \in kept : d[i] = db[i]
    BY <1>1, <1>3, RowsRestricted
  <1> HIDE DEF rows, stale, d, found
  <1>8. StoredItems(db, nextId)'
    BY <1>1, <1>7
  <1>9. Live' = InTree(list)
    BY <1>1 DEF Live
  <1>10. Found'
    BY <1>1, <1>6, <1>7, <1>9 DEF Found
  <1>11. Trees'
    BY <1>1, <1>2 DEF Trees
  <1>12. Bounded'
    <2>1. nodeRows' \subseteq Nodes
      BY <1>1, <1>3, <1>4, <1>5
    <2>2. /\ Bounded /\ Step /\ newCount' = 0 /\ recountTimer' = FALSE /\ saveTimer' = TRUE
          /\ nextId' = nextId
      BY <1>1
    <2>3. MaxItem \in Nat /\ MaxSteps \in Nat
      BY FeedListAssumption
    <2>4. steps' \in 0..MaxSteps
      BY <2>2, <2>3 DEF Bounded, Step
    <2> QED
      BY <2>1, <2>2, <2>4 DEF Bounded
  <1>13. \A n : own(n) \in Nat
    <2>1. found \subseteq DOMAIN d
      BY <1>6, <1>7
    <2>2. Cardinality({i \in found : ~d[i].read}) \in Nat
      BY <1>7, <2>1, FoundUnreadType
    <2>3. \A n : UnreadIn(d, n) \in Nat
      BY <1>7, UnreadInType
    <2> QED
      BY <2>2, <2>3
  <1>14. \A n \in Live' : ~IsFolder(n) => own(n) = CountOf(n)'
    BY <1>1 DEF CountOf, FolderUnread
  <1> HIDE DEF own
  <1>15. leaf \in [Nodes -> Nat]
    BY <1>13
  <1>16. \A f : unfolds(f) <=> Counts(list, sums, leaf, f)
    <2> SUFFICES ASSUME NEW f
                 PROVE [n \in Nodes |-> IF n \notin InTree(list) THEN 0
                                        ELSE IF IsFolder(n) THEN FoldersSum(list, f, n)
                                        ELSE own(n)]
                       = [n \in Nodes |-> IF n \in sums THEN FoldersSum(list, f, n)
                                          ELSE leaf[n]]
      BY DEF Counts
    <2> QED
      OBVIOUS
  <1>17. \A n \in InTree(list) : n \in Nodes /\ (~IsFolder(n) => leaf[n] = own(n))
                                 /\ (n \in sums <=> IsFolder(n))
    BY <1>3
  <1> HIDE DEF unfolds, sums, leaf
  <1>18. Counts(list, sums, leaf, unreadCount')
    <2>1. \E f : unfolds(f)
      BY <1>2, <1>15, <1>16, CountsAreNumbers
    <2>2. unfolds(unreadCount')
      BY <1>1, <2>1
    <2> QED
      BY <1>16, <2>2
  <1>19. /\ unreadCount' \in [Nodes -> Nat]
         /\ \A n \in Nodes : unreadCount'[n] = IF n \in sums THEN FoldersSum(list, unreadCount', n)
                                               ELSE leaf[n]
    BY <1>2, <1>15, <1>18, CountsAreNumbers
  <1>20. CountersHold'
    <2> SUFFICES ASSUME NEW n \in Live' PROVE unreadCount'[n] = CountOf(n)'
      BY DEF CountersHold
    <2>1. CASE IsFolder(n)
      <3>1. unreadCount'[n] = FoldersSum(list, unreadCount', n)
        BY <1>9, <1>17, <1>19, <2>1
      <3> QED
        BY <1>1, <2>1, <3>1 DEF CountOf
    <2>2. CASE ~IsFolder(n)
      BY <1>9, <1>14, <1>17, <1>19, <2>2
    <2> QED
      BY <2>1, <2>2
  <1>21. Counted'
    BY <1>1, <1>19, <1>20 DEF Counted, MarksGoUp
  <1> QED
    BY <1>8, <1>10, <1>11, <1>12, <1>21 DEF FeedListIInv

LEMMA InitHolds ==
    ASSUME FeedListInit
    PROVE FeedListIInv
  <1> DEFINE own(n) == IF IsVFolder(n) THEN FolderUnread ELSE UnreadIn(db, n)
             unfolds(f) == f = [n \in Nodes |-> IF IsFolder(n) THEN FoldersSum(children, f, n)
                                                ELSE own(n)]
             sums == {n \in Nodes : IsFolder(n)}
             leaf == [n \in Nodes |-> own(n)]
  <1>1. /\ children = InitialChildren /\ saved = InitialChildren /\ db = InitialDb
        /\ folderItems = {i \in DOMAIN InitialDb : ~InitialDb[i].read}
        /\ nodeRows = {n \in Live : n # Root}
        /\ nextId = Cardinality(DOMAIN InitialDb) + 1
        /\ unreadCount = CHOOSE f : unfolds(f)
        /\ needsRecount = {} /\ recountTimer = FALSE /\ saveTimer = TRUE
        /\ selected = NoNode /\ newCount = 0 /\ steps = 0 /\ overlooked = {}
    BY DEF FeedListInit
  <1>2. IsTree(children) /\ Trees
    BY <1>1, FeedListAssumption DEF Trees
  <1>3. Live \subseteq Nodes
    BY <1>2, ChildrenAreNodes, NodeTreeAssumption DEF Live
  <1>4. PICK last \in Nat : /\ DOMAIN db = 1..last /\ last <= MaxItem
                            /\ db = [i \in DOMAIN db |-> db[i]]
    <2>1. db \in Seq(Range(db)) /\ Len(db) <= MaxItem
      BY <1>1, FeedListAssumption
    <2> QED
      BY <2>1
  <1>5. nextId = last + 1
    <2>1. Cardinality(1..last) = last
      BY <1>4, FS_Interval
    <2> QED
      BY <1>1, <1>4, <2>1
  <1>6. \A i \in DOMAIN db : IsItem(db[i]) /\ db[i].node \in Live
    <2> SUFFICES ASSUME NEW i \in DOMAIN db PROVE IsItem(db[i]) /\ db[i].node \in Live
      OBVIOUS
    <2>1. /\ db[i] = [f \in ItemFields |-> db[i][f]]
          /\ db[i].node \in Live /\ Kind[db[i].node] \in {"feed", "newsbin"}
      BY <1>1, FeedListAssumption DEF Live, ItemFields
    <2>2. DOMAIN db[i] = ItemFields
      BY <2>1
    <2> QED
      BY <1>3, <2>1, <2>2 DEF IsItem
  <1>7. StoredItems(db, nextId)
    BY <1>4, <1>5, <1>6 DEF StoredItems
  <1>8. Found /\ folderItems \subseteq DOMAIN db
    BY <1>1, <1>6 DEF Found
  <1>9. Bounded
    <2>1. /\ newCount = 0 /\ steps = 0 /\ recountTimer = FALSE /\ saveTimer = TRUE
          /\ nodeRows \subseteq Live
      BY <1>1
    <2>2. MaxItem \in Nat /\ MaxSteps \in Nat
      BY FeedListAssumption
    <2>3. nextId \in 1..(MaxItem + 1) /\ steps \in 0..MaxSteps /\ newCount \in Nat
      BY <1>4, <1>5, <2>1, <2>2
    <2>4. nodeRows \subseteq Nodes
      BY <1>3, <2>1
    <2> QED
      BY <2>1, <2>3, <2>4 DEF Bounded
  <1>10. \A n : own(n) \in Nat
    <2>1. FolderUnread \in Nat
      BY <1>7, <1>8, FoundUnreadType DEF FolderUnread
    <2>2. \A n : UnreadIn(db, n) \in Nat
      BY <1>7, UnreadInType
    <2> QED
      BY <2>1, <2>2
  <1>11. \A n : ~IsFolder(n) => own(n) = CountOf(n)
    BY DEF CountOf
  <1> HIDE DEF own
  <1>12. leaf \in [Nodes -> Nat]
    BY <1>10
  <1>13. \A f : unfolds(f) <=> Counts(children, sums, leaf, f)
    <2> SUFFICES ASSUME NEW f
                 PROVE [n \in Nodes |-> IF IsFolder(n) THEN FoldersSum(children, f, n) ELSE own(n)]
                       = [n \in Nodes |-> IF n \in sums THEN FoldersSum(children, f, n)
                                          ELSE leaf[n]]
      BY DEF Counts
    <2> QED
      OBVIOUS
  <1>14. \A n \in Nodes : leaf[n] = own(n) /\ (n \in sums <=> IsFolder(n))
    OBVIOUS
  <1> HIDE DEF unfolds, sums, leaf
  <1>15. Counts(children, sums, leaf, unreadCount)
    <2>1. \E f : unfolds(f)
      BY <1>2, <1>12, <1>13, CountsAreNumbers
    <2>2. unfolds(unreadCount)
      BY <1>1, <2>1
    <2> QED
      BY <1>13, <2>2
  <1>16. /\ unreadCount \in [Nodes -> Nat]
         /\ \A n \in Nodes : unreadCount[n] = IF n \in sums THEN FoldersSum(children, unreadCount, n)
                                              ELSE leaf[n]
    BY <1>2, <1>12, <1>15, CountsAreNumbers
  <1>17. CountersHold
    <2> SUFFICES ASSUME NEW n \in Live PROVE unreadCount[n] = CountOf(n)
      BY DEF CountersHold
    <2>1. CASE IsFolder(n)
      BY <1>3, <1>14, <1>16, <2>1 DEF CountOf
    <2>2. CASE ~IsFolder(n)
      BY <1>3, <1>11, <1>14, <1>16, <2>2
    <2> QED
      BY <2>1, <2>2
  <1>18. Counted
    BY <1>1, <1>16, <1>17 DEF Counted, MarksGoUp
  <1> QED
    BY <1>2, <1>7, <1>8, <1>9, <1>18 DEF FeedListIInv

-----------------------------------------------------------------------------
(* The counters.                                                           *)

LEMMA NextKeeps ==
    ASSUME FeedListIInv, [FeedListNext]_feedListVars
    PROVE FeedListIInv'
  <1>1. CASE UNCHANGED feedListVars
    BY <1>1 DEF feedListVars, tree, counters, database, FeedListIInv, Trees, Found, Counted,
        Bounded, MarksGoUp,
       CountersHold, CountOf, FolderUnread, Live
  <1>2. CASE FeedListNext
    BY <1>2, ItemStepKeeps, TreeStepKeeps, RecountTimerKeeps, SaveTimerKeeps, RestartKeeps
    DEF FeedListNext
  <1> QED
    BY <1>1, <1>2

LEMMA AlwaysIInv ==
    FeedListSpec => []FeedListIInv
  <1>1. FeedListInit => FeedListIInv
    BY InitHolds
  <1>2. FeedListIInv /\ [FeedListNext]_feedListVars => FeedListIInv'
    BY NextKeeps
  <1> QED
    BY <1>1, <1>2, PTL DEF FeedListSpec

\* The variables always hold what they may hold.
THEOREM FeedListTypeCorrect ==
    FeedListSpec => []FeedListTypeOK
  <1>1. FeedListIInv => FeedListTypeOK
    <2> SUFFICES ASSUME FeedListIInv PROVE FeedListTypeOK
      OBVIOUS
    <2>1. Trees /\ StoredItems(db, nextId) /\ Found /\ Counted /\ Bounded
      BY DEF FeedListIInv
    <2>2. Live \subseteq Nodes
      BY LiveNodes
    <2>3. children \in [Nodes -> Seq(Nodes)] /\ saved \in [Nodes -> Seq(Nodes)]
      BY <2>1 DEF Trees, IsTree
    <2>4. DOMAIN db \subseteq 1..MaxItem
      BY <2>1, FeedListAssumption DEF StoredItems, Bounded
    <2> QED
      BY <2>1, <2>2, <2>3, <2>4 DEF FeedListTypeOK, Trees, Found, Counted, Bounded
  <1> QED
    BY <1>1, AlwaysIInv, PTL

\* A counter that neither is marked for a recount nor was overlooked shows what a
\* recount would, whatever the tree is and whatever was done to it: a feed's
\* shows the unread items of the database, a folder's the sum of its children's.
THEOREM CountersAreRight ==
    FeedListSpec => []CountersHold
  <1>1. FeedListIInv => CountersHold
    BY DEF FeedListIInv, Counted
  <1> QED
    BY <1>1, AlwaysIInv, PTL

-----------------------------------------------------------------------------
(* "Mark all as read".                                                     *)

LEMMA ReadStays ==
    ASSUME FeedListIInv, NEW s, MarkItemsRead(s), NEW i \in DOMAIN db, db[i].read \/ i \in s
    PROVE db'[i].read
  <1>1. IsItem(db[i])
    BY DEF FeedListIInv, StoredItems
  <1>2. db'[i] = IF i \in ReadWith(s) THEN [db[i] EXCEPT !.read = TRUE] ELSE db[i]
    BY DEF MarkItemsRead
  <1>3. CASE db[i].read
    <2>1. [db[i] EXCEPT !.read = TRUE].read = TRUE
      BY <1>1, ItemWith
    <2> QED
      BY <1>2, <1>3, <2>1
  <1>4. CASE ~db[i].read
    <2>1. i \in ReadWith(s)
      BY <1>4 DEF ReadWith
    <2>2. [db[i] EXCEPT !.read = TRUE].read = TRUE
      BY <1>1, ItemWith
    <2> QED
      BY <1>2, <2>1, <2>2
  <1> QED
    BY <1>3, <1>4

\* A node whose counter is up to date and that has unread items is visited.
LEMMA UnreadIsVisited ==
    ASSUME FeedListIInv, NEW n, NEW k \in Below(n), k \notin needsRecount, k \notin overlooked,
           ~IsFolder(k), NEW i \in ItemsOf[k], ~db[i].read
    PROVE k \in Visited(n) \ {Root}
  <1>1. k \in Live /\ k \in Nodes /\ k # Root
    BY LiveNodes, NodeTreeAssumption DEF Below, BelowIn, Live, IsFolder
  <1>2. CASE IsVFolder(k)
    BY <1>1, <1>2 DEF Visited
  <1>3. CASE ~IsVFolder(k)
    <2>1. unreadCount[k] = UnreadIn(db, k)
      BY <1>1, <1>3 DEF FeedListIInv, Counted, CountersHold, CountOf
    <2>2. ItemsOf[k] = ItemsIn(db, k)
      BY <1>1, <1>3, ItemsOfUnfold DEF FeedListIInv, Trees, Found
    <2>3. i \in UnreadItems(db, k) /\ UnreadItems(db, k) \subseteq DOMAIN db
      BY <2>2 DEF UnreadItems, ItemsIn
    <2>4. IsFiniteSet(UnreadItems(db, k)) /\ Cardinality(UnreadItems(db, k)) \in Nat
      BY <2>3, ItemsAreFinite DEF FeedListIInv
    <2>5. Cardinality(UnreadItems(db, k)) # 0
      BY <2>3, <2>4, FS_EmptySet
    <2>6. UnreadIn(db, k) > 0
      BY <2>4, <2>5, UnreadInIs
    <2> QED
      BY <1>1, <2>1, <2>6 DEF Visited
  <1> QED
    BY <1>2, <1>3

\* "Mark all as read" of a node leaves no unread item in it or in anything below
\* it, although it leaves out the nodes whose cached counter is zero, as long as
\* no counter there waits for a recount or was overlooked.
THEOREM AllReadMeansAll ==
    FeedListSpec => MarkedAllRead
  <1> DEFINE Marked ==
        \A n \in Live :
          (Below(n) \intersect (needsRecount \union overlooked) = {} /\ MarkAllRead(n))
             => \A k \in Below(n) : \A i \in ItemsOf[k] : db'[i].read
  <1>1. FeedListIInv => Marked
    <2> SUFFICES ASSUME FeedListIInv, NEW n \in Live, MarkAllRead(n),
                        Below(n) \intersect (needsRecount \union overlooked) = {},
                        NEW k \in Below(n), NEW i \in ItemsOf[k]
                 PROVE db'[i].read
      OBVIOUS
    <2> DEFINE s == UNION {MarkedIn(j) : j \in Visited(n) \ {Root}}
    <2>1. MarkItemsRead(s)
      BY DEF MarkAllRead
    <2>2. IsTree(children) /\ n \in Nodes /\ k \in Live /\ k \in Nodes
      BY LiveNodes DEF Below, BelowIn, Live
    <2>3. folderItems \subseteq DOMAIN db
      BY DEF FeedListIInv, Found
    <2>4. PICK j \in Nodes : /\ ~IsFolder(j) /\ i \in ItemsOf[j]
                             /\ j = k \/ k \in AncestorsIn(children, j)
      BY <2>2, <2>3, ItemsComeFrom
    <2>5. j \in Below(n)
      <3>1. CASE j = k
        BY <3>1
      <3>2. CASE k \in AncestorsIn(children, j)
        <4>1. AncestorsIn(children, k) \subseteq AncestorsIn(children, j)
          BY <2>2, <3>2, AncestorsTransitive
        <4>2. \E p \in Nodes : j \in ChildrenOf(children, p)
          BY <2>2, <3>2, AncestorsCases
        <4>3. j \in InTree(children)
          BY <4>2, InTreeIs
        <4> QED
          BY <3>2, <4>1, <4>3 DEF Below, BelowIn
      <3> QED
        BY <2>4, <3>1, <3>2
    <2>6. i \in DOMAIN db
      BY <2>2, <2>3, <2>4, ItemsOfUnfold
    <2>7. db[i].read \/ i \in s
      <3> SUFFICES ASSUME ~db[i].read PROVE i \in s
        OBVIOUS
      <3>1. j \in Visited(n) \ {Root}
        BY <2>4, <2>5, UnreadIsVisited
      <3>2. i \in MarkedIn(j)
        BY <2>4 DEF MarkedIn
      <3> QED
        BY <3>1, <3>2
    <2> HIDE DEF s
    <2> QED
      BY <2>1, <2>6, <2>7, ReadStays
  <1>2. FeedListIInv /\ [FeedListNext]_feedListVars => [Marked]_feedListVars
    BY <1>1
  <1> QED
    BY <1>2, AlwaysIInv, PTL DEF FeedListSpec, MarkedAllRead

-----------------------------------------------------------------------------
(* The rows of the nodes.                                                  *)

\* The nodes without a remote source have a row, as long as they are in the tree
\* or items show that they were in the tree that is saved; and no node that the
\* saved tree has under the local source is under a remote one.
RowsKept ==
    /\ \A n \in Live \ {Root} : SourceIn(children, n) = Root => n \in nodeRows
    /\ \A i \in DOMAIN db :
          db[i].node \in InTree(saved) /\ SourceIn(saved, db[i].node) = Root
             => db[i].node \in nodeRows
    /\ \A n \in Live \intersect InTree(saved) :
          SourceIn(saved, n) = Root => SourceIn(children, n) = Root

LEMMA LocalIs ==
    ASSUME NEW c, NEW n
    PROVE SourceIn(c, n) = Root <=> \A k \in AncestorsIn(c, n) \union {n} : Kind[k] # "source"
  <1> DEFINE roots == {k \in AncestorsIn(c, n) \union {n} : Kind[k] = "source"}
  <1>1. CASE roots = {}
    BY <1>1 DEF SourceIn
  <1>2. CASE roots # {}
    <2>1. (CHOOSE k \in roots : TRUE) \in roots
      BY <1>2
    <2>2. SourceIn(c, n) = CHOOSE k \in roots : TRUE
      BY <1>2 DEF SourceIn
    <2>3. Kind[SourceIn(c, n)] = "source"
      BY <2>1, <2>2
    <2> QED
      BY <1>2, <2>3, NodeTreeAssumption
  <1> QED
    BY <1>1, <1>2

LEMMA SameSource ==
    ASSUME NEW c, NEW e, NEW n, AncestorsIn(e, n) = AncestorsIn(c, n)
    PROVE SourceIn(e, n) = SourceIn(c, n)
  BY DEF SourceIn

\* The source of a child: its parent's, if it is none itself.
LEMMA LocalChild ==
    ASSUME NEW c, IsTree(c), NEW p \in Nodes, NEW n \in ChildrenOf(c, p)
    PROVE SourceIn(c, n) = Root <=> SourceIn(c, p) = Root /\ Kind[n] # "source"
  <1>1. AncestorsIn(c, n) = {p} \union AncestorsIn(c, p)
    BY AncestorsOfChild
  <1> QED
    BY <1>1, LocalIs

\* Moving a local node to a local folder leaves what is local and what is not.
LEMMA MovedSource ==
    ASSUME NEW c, IsTree(c), NEW e, IsTree(e), NEW n \in Nodes, NEW p \in Nodes,
           InTree(e) = InTree(c), n \in InTree(c), n # Root,
           \A k \in Nodes : ChildrenOf(e, k) = IF k = p THEN ChildrenOf(c, k) \union {n}
                                               ELSE ChildrenOf(c, k) \ {n},
           SourceIn(c, n) = Root, SourceIn(c, p) = Root
    PROVE \A k \in InTree(c) : SourceIn(e, k) = Root <=> SourceIn(c, k) = Root
  <1> DEFINE fine == {k \in Nodes : SourceIn(e, k) = Root <=> SourceIn(c, k) = Root}
  <1>1. Kind[n] # "source"
    BY LocalIs
  <1>2. ASSUME NEW k \in Nodes, \A q \in Nodes : k \in ChildrenOf(e, q) => q \in fine
        PROVE k \in fine
    <2>1. CASE k = n
      <3>1. n \in ChildrenOf(e, p) /\ p \in fine
        BY <1>2, <2>1
      <3>2. SourceIn(e, n) = Root
        BY <1>1, <3>1, LocalChild
      <3> QED
        BY <2>1, <3>2
    <2>2. CASE k # n /\ \E q \in Nodes : k \in ChildrenOf(e, q)
      <3>1. PICK q \in Nodes : k \in ChildrenOf(e, q)
        BY <2>2
      <3>2. k \in ChildrenOf(c, q) /\ q \in fine
        BY <1>2, <2>2, <3>1
      <3>3. SourceIn(e, k) = Root <=> SourceIn(e, q) = Root /\ Kind[k] # "source"
        BY <3>1, LocalChild
      <3>4. SourceIn(c, k) = Root <=> SourceIn(c, q) = Root /\ Kind[k] # "source"
        BY <3>2, LocalChild
      <3> QED
        BY <3>2, <3>3, <3>4
    <2>3. CASE k # n /\ \A q \in Nodes : k \notin ChildrenOf(e, q)
      <3>1. \A q \in Nodes : k \notin ChildrenOf(c, q)
        BY <2>3
      <3>2. AncestorsIn(e, k) = {} /\ AncestorsIn(c, k) = {}
        BY <2>3, <3>1, AncestorsOfTop
      <3>3. SourceIn(e, k) = SourceIn(c, k)
        BY <3>2, SameSource
      <3> QED
        BY <3>3
    <2> QED
      BY <2>1, <2>2, <2>3
  <1>3. Nodes \subseteq fine
    <2> HIDE DEF fine
    <2> QED
      BY <1>2, DownTheTree
  <1>4. InTree(c) \subseteq Nodes
    BY ChildrenAreNodes, NodeTreeAssumption
  <1> QED
    BY <1>3, <1>4

\* The node of every item after the step had items before, or is in the tree.
LEMMA ItemStepOwners ==
    ASSUME FeedListIInv, ItemStep
    PROVE /\ UNCHANGED <<children, saved>> /\ nodeRows \subseteq nodeRows'
          /\ \A i \in DOMAIN db' : \/ \E j \in DOMAIN db : db[j].node = db'[i].node
                                   \/ db'[i].node \in Live \ {Root}
  <1> DEFINE Owners == \A i \in DOMAIN db' : \/ \E j \in DOMAIN db : db[j].node = db'[i].node
                                             \/ db'[i].node \in Live \ {Root}
  <1>1. /\ StoredItems(db, nextId) /\ \A i \in DOMAIN db : IsItem(db[i])
        /\ db = [i \in DOMAIN db |-> db[i]]
    BY DEF FeedListIInv, StoredItems
  <1>2. ASSUME NEW s, MarkItemsRead(s) PROVE Owners
    <2>1. db' = [i \in DOMAIN db |->
                    IF i \in ReadWith(s) THEN [db[i] EXCEPT !.read = TRUE] ELSE db[i]]
      BY <1>2 DEF MarkItemsRead
    <2>2. \A i \in DOMAIN db : [db[i] EXCEPT !.read = TRUE].node = db[i].node
      BY <1>1, ItemWith
    <2>3. DOMAIN db' = DOMAIN db /\ \A i \in DOMAIN db : db'[i].node = db[i].node
      BY <2>1, <2>2
    <2> QED
      BY <2>3
  <1>3. ASSUME NEW gone, ItemRemoval(gone) PROVE Owners
    <2>1. DOMAIN db' = DOMAIN db \ gone /\ \A i \in DOMAIN db' : db'[i] = db[i]
      BY <1>3 DEF ItemRemoval, Restrict
    <2> QED
      BY <2>1
  <1>4. ASSUME NEW i \in DOMAIN db, SetRead(i) \/ SetUnread(i) \/ SetFlag(i) \/ RemoveItem(i)
        PROVE UNCHANGED <<children, saved, nodeRows>> /\ Owners
    <2>1. CASE SetRead(i)
      BY <1>2, <2>1 DEF SetRead, tree
    <2>2. CASE SetUnread(i)
      <3>1. db' = [db EXCEPT ![i] = [db[i] EXCEPT !.read = FALSE]]
        BY <2>2 DEF SetUnread
      <3>2. [db[i] EXCEPT !.read = FALSE].node = db[i].node
        BY <1>1, ItemWith
      <3>3. DOMAIN db' = DOMAIN db /\ \A j \in DOMAIN db : db'[j].node = db[j].node
        BY <1>1, <3>1, <3>2
      <3> QED
        BY <2>2, <3>3 DEF SetUnread, tree
    <2>3. CASE SetFlag(i)
      <3> DEFINE o == [db[i] EXCEPT !.flag = ~@]
      <3>1. db' = [db EXCEPT ![i] = o]
        BY <2>3 DEF SetFlag
      <3>2. o.node = db[i].node
        BY <1>1, ItemWith
      <3> HIDE DEF o
      <3>3. DOMAIN db' = DOMAIN db /\ \A j \in DOMAIN db : db'[j].node = db[j].node
        BY <1>1, <3>1, <3>2
      <3> QED
        BY <2>3, <3>3 DEF SetFlag, tree
    <2>4. CASE RemoveItem(i)
      BY <1>3, <2>4 DEF RemoveItem, tree
    <2> QED
      BY <1>4, <2>1, <2>2, <2>3, <2>4
  <1>5. ASSUME NEW n \in Nodes, MarkAllRead(n) \/ RemoveAllItems(n)
        PROVE UNCHANGED <<children, saved, nodeRows>> /\ Owners
    <2>1. CASE MarkAllRead(n)
      <3>1. PICK s : MarkItemsRead(s)
        BY <2>1 DEF MarkAllRead
      <3>2. Owners
        BY <1>2, <3>1
      <3>3. UNCHANGED <<children, saved, nodeRows>>
        BY <2>1 DEF MarkAllRead, tree
      <3> QED
        BY <3>2, <3>3
    <2>2. CASE RemoveAllItems(n)
      BY <1>3, <2>2 DEF RemoveAllItems, tree
    <2> QED
      BY <1>5, <2>1, <2>2
  <1>6. ASSUME NEW b \in Nodes, NEW i \in DOMAIN db, NewsbinAddItem(b, i)
        PROVE UNCHANGED <<children, saved, nodeRows>> /\ Owners
    <2>1. /\ b \in Live /\ Kind[b] = "newsbin" /\ db' = Put(db, nextId, Copy(i, b))
          /\ UNCHANGED <<children, saved, nodeRows>>
      BY <1>6 DEF NewsbinAddItem, tree
    <2>2. Copy(i, b).node = b /\ b # Root
      BY <1>1, <2>1, NodeTreeAssumption DEF Copy, IsItem, ItemFields
    <2>3. \A j \in DOMAIN db' : db'[j] = IF j = nextId THEN Copy(i, b) ELSE db[j]
      BY <2>1 DEF Put
    <2>4. DOMAIN db' = DOMAIN db \union {nextId}
      BY <2>1 DEF Put
    <2> QED
      BY <2>1, <2>2, <2>3, <2>4
  <1>7. ASSUME NEW n \in Nodes, NEW list \in Downloads, Update(n, list)
        PROVE UNCHANGED <<children, saved>> /\ nodeRows \subseteq nodeRows' /\ Owners
    <2> DEFINE m == Merged(n, list)
               gone == Dropped(m.db, n, EffectiveMax(n, list))
    <2>1. /\ n \in Live /\ Kind[n] = "feed" /\ db' = Restrict(m.db, DOMAIN m.db \ gone)
          /\ UNCHANGED <<children, saved>> /\ nodeRows' = nodeRows \union {n}
      BY <1>7 DEF Update, MergeItems
    <2>2. Merging(n, m)
      BY <2>1, MergedIs
    <2> HIDE DEF m, gone
    <2>3. \A i \in DOMAIN m.db : m.db[i].node # n => i \in DOMAIN db /\ m.db[i] = db[i]
      BY <2>2 DEF Merging
    <2>4. \A i \in DOMAIN db' : i \in DOMAIN m.db /\ db'[i] = m.db[i]
      BY <2>1 DEF Restrict
    <2>5. n # Root
      BY <2>1, NodeTreeAssumption
    <2> QED
      BY <2>1, <2>3, <2>4, <2>5
  <1> HIDE DEF Owners
  <1>8. UNCHANGED <<children, saved>> /\ nodeRows \subseteq nodeRows' /\ Owners
    BY <1>4, <1>5, <1>6, <1>7 DEF ItemStep
  <1> QED
    BY <1>8 DEF Owners

LEMMA RowsKeptByTrees ==
    ASSUME FeedListIInv, RowsKept, NEW n \in Nodes, NodeAdded(n) \/ NodeRemoved(n)
    PROVE RowsKept'
  <1>1. /\ IsTree(children) /\ Live \subseteq Nodes /\ StoredItems(db, nextId)
        /\ \A i \in DOMAIN db : IsItem(db[i])
    BY LiveNodes DEF FeedListIInv, StoredItems
  <1>2. CASE NodeAdded(n)
    <2>1. /\ n \notin Live \union InTree(saved)
          /\ nodeRows' = nodeRows \union {n} /\ UNCHANGED <<saved, db>>
      BY <1>2 DEF NodeAdded
    <2>2. /\ Live' = Live \union {n}
          /\ \A k \in Live : AncestorsIn(children', k) = AncestorsIn(children, k)
      BY <1>2, AddedChildren
    <2>3. \A k \in Live : SourceIn(children', k) = SourceIn(children, k)
      BY <2>2, SameSource
    <2> QED
      BY <2>1, <2>2, <2>3 DEF RowsKept
  <1>3. CASE NodeRemoved(n)
    <2> DEFINE gone == Below(n)
    <2>1. /\ n \in Live \ {Root} /\ saved' = saved
          /\ children' = [k \in Nodes |-> IF k \in gone THEN <<>> ELSE Without(children[k], n)]
          /\ db' = Restrict(db, {i \in DOMAIN db : db[i].node \notin gone})
          /\ nodeRows' = nodeRows \ {k \in gone : HasSubscription(k)}
      BY <1>3 DEF NodeRemoved
    <2>2. gone = BelowIn(children, n) /\ n \in InTree(children) \ {Root}
      BY <2>1 DEF Below, Live
    <2>3. Removed(children, children', n)
      BY <2>1, <2>2 DEF Removed
    <2> HIDE DEF gone
    <2>4. /\ Live' = Live \ gone
          /\ \A k \in Live' : AncestorsIn(children', k) = AncestorsIn(children, k)
      BY <1>1, <2>2, <2>3, RemovedTree DEF Live
    <2>5. \A k \in Live' : SourceIn(children', k) = SourceIn(children, k)
      BY <2>4, SameSource
    <2>6. \A i \in DOMAIN db' : i \in DOMAIN db /\ db'[i] = db[i] /\ db[i].node \notin gone
      BY <2>1 DEF Restrict
    <2> QED
      BY <2>1, <2>4, <2>5, <2>6 DEF RowsKept
  <1> QED
    BY <1>2, <1>3

LEMMA RowsKeptByMoves ==
    ASSUME FeedListIInv, RowsKept, NEW n \in Live \ {Root}, NEW p \in Live,
           NEW pos \in 1..(Len(children[p]) + 1), NodeMoved(n, p, pos)
    PROVE RowsKept'
  <1>1. IsTree(children) /\ Live \subseteq Nodes
    BY LiveNodes
  <1>2. /\ Source(n) = Root /\ Source(p) = Root
        /\ nodeRows' = nodeRows \union {n} /\ UNCHANGED <<saved, db>>
    BY DEF NodeMoved
  <1>3. /\ IsTree(children') /\ InTree(children') = InTree(children)
        /\ \A k \in Nodes : ChildrenOf(children', k) =
                                IF k = p THEN ChildrenOf(children, k) \union {n}
                                ELSE ChildrenOf(children, k) \ {n}
    BY MovedChildren DEF Live
  <1>4. n \in Nodes /\ p \in Nodes /\ n \in InTree(children) /\ n # Root
    BY <1>1 DEF Live
  <1>5. SourceIn(children, n) = Root /\ SourceIn(children, p) = Root
    BY <1>2 DEF Source
  <1>6. \A k \in InTree(children) : SourceIn(children', k) = Root <=> SourceIn(children, k) = Root
    BY <1>1, <1>3, <1>4, <1>5, MovedSource
  <1> QED
    BY <1>2, <1>3, <1>6 DEF RowsKept, Live

LEMMA RowsKeptByStarts ==
    ASSUME FeedListIInv, RowsKept, NEW killed \in BOOLEAN, Restart(killed)
    PROVE RowsKept'
  <1> DEFINE list == IF killed THEN saved ELSE children
  <1>1. /\ saved' = list /\ children' = list /\ db' = Restrict(db, KeptItems)
        /\ nodeRows' = ImportedRows(nodeRows, list)
                        \ StaleRows(ImportedRows(nodeRows, list), list)
    BY DEF Restart
  <1> HIDE DEF list
  <1>2. nodeRows' = FoundInList(list)
    BY <1>1 DEF ImportedRows, StaleRows, FoundInList
  <1>3. \A k \in InTree(list) : SourceIn(list, k) = Root => k \in nodeRows'
    BY <1>2 DEF FoundInList
  <1> QED
    BY <1>1, <1>3 DEF RowsKept, Live

LEMMA RowsKeptByNext ==
    ASSUME FeedListIInv, RowsKept, [FeedListNext]_feedListVars
    PROVE RowsKept'
  <1>1. \A i \in DOMAIN db : db[i].node # Root
    BY NodeTreeAssumption DEF FeedListIInv, StoredItems, IsItem
  <1>2. CASE UNCHANGED <<children, saved, db, nodeRows>>
    BY <1>2 DEF RowsKept, Live
  <1>3. CASE ItemStep
    <2>1. /\ UNCHANGED <<children, saved>> /\ nodeRows \subseteq nodeRows'
          /\ \A i \in DOMAIN db' : \/ \E j \in DOMAIN db : db[j].node = db'[i].node
                                   \/ db'[i].node \in Live \ {Root}
      BY <1>3, ItemStepOwners
    <2> SUFFICES ASSUME NEW i \in DOMAIN db', db'[i].node \in InTree(saved),
                        SourceIn(saved, db'[i].node) = Root
                 PROVE db'[i].node \in nodeRows
      BY <2>1 DEF RowsKept, Live
    <2>2. CASE \E j \in DOMAIN db : db[j].node = db'[i].node
      BY <2>2 DEF RowsKept
    <2>3. CASE db'[i].node \in Live \ {Root}
      BY <2>3 DEF RowsKept
    <2> QED
      BY <2>1, <2>2, <2>3
  <1>4. CASE TreeStep
    <2>1. CASE \E n \in Nodes : NodeAdded(n) \/ NodeRemoved(n)
      BY <2>1, RowsKeptByTrees
    <2>2. CASE \E n \in Live \ {Root}, p \in Live :
                  \E pos \in 1..(Len(children[p]) + 1) : NodeMoved(n, p, pos)
      BY <2>2, RowsKeptByMoves
    <2>3. CASE \E n : SetSelected(n)
      <3>1. UNCHANGED <<children, saved, db, nodeRows>>
        BY <2>3 DEF SetSelected, database
      <3> QED
        BY <1>2, <3>1
    <2> QED
      BY <1>4, <2>1, <2>2, <2>3 DEF TreeStep, Select, NextUnread
  <1>5. CASE RecountTimer
    BY <1>2, <1>5 DEF RecountTimer, tree, database
  <1>6. CASE SaveTimer
    <2>1. saved' = children /\ UNCHANGED <<children, db, nodeRows>>
      BY <1>6 DEF SaveTimer, database
    <2> QED
      BY <1>1, <2>1 DEF RowsKept, Live
  <1>7. CASE \E killed \in BOOLEAN : Restart(killed)
    BY <1>7, RowsKeptByStarts
  <1>8. CASE UNCHANGED feedListVars
    BY <1>2, <1>8 DEF feedListVars, tree, database
  <1> QED
    BY <1>3, <1>4, <1>5, <1>6, <1>7, <1>8 DEF FeedListNext

LEMMA AlwaysRowsKept ==
    FeedListSpec => []RowsKept
  <1>1. FeedListInit => RowsKept
    <2> SUFFICES ASSUME FeedListInit PROVE RowsKept
      OBVIOUS
    <2>1. /\ children = saved /\ nodeRows = {n \in Live : n # Root} /\ FeedListIInv
      BY InitHolds DEF FeedListInit
    <2>2. \A i \in DOMAIN db : db[i].node # Root
      BY <2>1, NodeTreeAssumption DEF FeedListIInv, StoredItems, IsItem
    <2> QED
      BY <2>1, <2>2 DEF RowsKept, Live
  <1>2. FeedListIInv /\ RowsKept /\ [FeedListNext]_feedListVars => RowsKept'
    BY RowsKeptByNext
  <1> QED
    BY <1>1, <1>2, AlwaysIInv, PTL DEF FeedListSpec

\* No start of the program loses items of a node that the file lists under the
\* local source, whether the feed list was saved before or the program was
\* killed: the row that the cleanup of the database asks for is always there.
THEOREM LocalItemsAreSafe ==
    FeedListSpec => LocalItemsSurvive
  <1> DEFINE Survive ==
        \A killed \in BOOLEAN : Restart(killed) =>
          \A i \in DOMAIN db :
              db[i].node \in Live' /\ SourceIn(children', db[i].node) = Root => i \in DOMAIN db'
  <1>1. FeedListIInv /\ RowsKept => Survive
    <2> SUFFICES ASSUME FeedListIInv, RowsKept, NEW killed \in BOOLEAN, Restart(killed),
                        NEW i \in DOMAIN db, db[i].node \in Live',
                        SourceIn(children', db[i].node) = Root
                 PROVE i \in DOMAIN db'
      OBVIOUS
    <2>1. /\ children' = IF killed THEN saved ELSE children
          /\ db' = Restrict(db, KeptItems)
      BY DEF Restart
    <2>2. db[i].node # Root
      BY NodeTreeAssumption DEF FeedListIInv, StoredItems, IsItem
    <2>3. db[i].node \in nodeRows
      BY <2>1, <2>2 DEF RowsKept, Live
    <2>4. i \in KeptItems /\ KeptItems \subseteq DOMAIN db
      BY <2>3 DEF KeptItems
    <2> QED
      BY <2>1, <2>4 DEF Restrict
  <1>2. FeedListIInv /\ RowsKept /\ [FeedListNext]_feedListVars => [Survive]_feedListVars
    BY <1>1
  <1> QED
    BY <1>2, AlwaysIInv, AlwaysRowsKept, PTL DEF FeedListSpec, LocalItemsSurvive

-----------------------------------------------------------------------------
(* The edits of a reader account (ReaderEdit).                             *)

\* No edit is numbered beyond those made, and a number is used once, wherever the
\* edit has got to.
Numbered ==
    /\ \A k \in 1..Len(queue) : queue[k].n <= made
    /\ \A k \in 1..Len(posts) : posts[k].n <= made
    /\ \A a \in answers : a.edit.n <= made

Distinct ==
    /\ \A k, l \in 1..Len(queue) : queue[k].n = queue[l].n => k = l
    /\ \A k, l \in 1..Len(posts) : posts[k].n = posts[l].n => k = l
    /\ \A k \in 1..Len(queue), l \in 1..Len(posts) : queue[k].n # posts[l].n
    /\ \A a \in answers :
        /\ \A b \in answers : a.edit.n = b.edit.n => a = b
        /\ \A k \in 1..Len(queue) : a.edit.n # queue[k].n
        /\ \A k \in 1..Len(posts) : a.edit.n # posts[k].n

\* Every token is asked for on behalf of one edit: the one just queued, or the one
\* just answered, which leaves the token for the next.
TokensFunded ==
    /\ IsFiniteSet(answers)
    /\ tokens + Len(posts) + Cardinality(answers) <= made
    /\ login # "active" => tokens = 0 /\ posts = <<>> /\ answers = {}
    /\ Len(queue) <= made

ItemTargets == Items \X {"read", "star"}

\* An edit that decides about an attribute, and what it decides.
Decides(e, t) == e.kind \in DOMAIN Sets /\ t = <<e.id, Sets[e.kind][1]>>
Decision(e) == Sets[e.kind][2]

DecidedIn(s, first, t) == \E k \in first..Len(s) : Decides(s[k], t)

\* As long as nothing has failed or overtaken, what the user asked for last is
\* what the last edit in line says (the posts are ahead of the queue), or what the
\* server holds if there is none.
InOrder ==
    trouble = {} => \A t \in ItemTargets :
        /\ \A k \in 1..Len(queue) :
            Decides(queue[k], t) /\ ~DecidedIn(queue, k + 1, t)
                => Decision(queue[k]) = wanted[t]
        /\ \A k \in 1..Len(posts) :
            Decides(posts[k], t) /\ ~DecidedIn(posts, k + 1, t)
                                 /\ ~DecidedIn(queue, 1, t)
                => Decision(posts[k]) = wanted[t]
        /\ ~DecidedIn(posts, 1, t) /\ ~DecidedIn(queue, 1, t)
            => remote[t] = wanted[t]

IInv ==
    /\ TypeOK
    /\ Numbered
    /\ Distinct
    /\ TokensFunded
    /\ InOrder

-----------------------------------------------------------------------------
(***************************************************************************)
(* Sequences: appending, prepending and removing, position by position.    *)
(***************************************************************************)
LEMMA ConcatAt ==
    ASSUME NEW T, NEW s \in Seq(T), NEW u \in Seq(T)
    PROVE  /\ s \o u \in Seq(T)
           /\ Len(s) \in Nat /\ Len(u) \in Nat
           /\ Len(s \o u) = Len(s) + Len(u)
           /\ \A k \in 1..Len(s) : (s \o u)[k] = s[k]
           /\ \A k \in (Len(s) + 1)..(Len(s) + Len(u)) :
                (s \o u)[k] = u[k - Len(s)]
OBVIOUS

LEMMA PrependAt ==
    ASSUME NEW T, NEW s \in Seq(T), NEW x \in T
    PROVE  /\ <<x>> \o s \in Seq(T)
           /\ Len(s) \in Nat
           /\ Len(<<x>> \o s) = Len(s) + 1
           /\ (<<x>> \o s)[1] = x
           /\ \A k \in 2..(Len(s) + 1) : (<<x>> \o s)[k] = s[k - 1]
<1>1. <<x>> \in Seq(T) /\ Len(<<x>>) = 1 /\ <<x>>[1] = x
  OBVIOUS
<1>. QED  BY <1>1, ConcatAt

LEMMA TailAt ==
    ASSUME NEW T, NEW s \in Seq(T), s # <<>>
    PROVE  /\ Tail(s) \in Seq(T) /\ Head(s) \in T /\ Head(s) = s[1]
           /\ Len(s) \in Nat \ {0}
           /\ Len(Tail(s)) = Len(s) - 1
           /\ \A k \in 1..(Len(s) - 1) : Tail(s)[k] = s[k + 1]
OBVIOUS

LEMMA AppendAt ==
    ASSUME NEW T, NEW s \in Seq(T), NEW x \in T
    PROVE  /\ Append(s, x) \in Seq(T)
           /\ Len(s) \in Nat
           /\ Len(Append(s, x)) = Len(s) + 1
           /\ Append(s, x)[Len(s) + 1] = x
           /\ \A k \in 1..Len(s) : Append(s, x)[k] = s[k]
OBVIOUS

LEMMA RemoveAtAt ==
    ASSUME NEW T, NEW s \in Seq(T), NEW k \in 1..Len(s)
    PROVE  /\ RemoveAt(s, k) \in Seq(T)
           /\ Len(s) \in Nat
           /\ Len(RemoveAt(s, k)) = Len(s) - 1
           /\ \A l \in 1..(Len(s) - 1) :
                RemoveAt(s, k)[l] = s[IF l < k THEN l ELSE l + 1]
<1>. DEFINE u == SubSeq(s, 1, k - 1)
            v == SubSeq(s, k + 1, Len(s))
<1>1. /\ u \in Seq(T) /\ Len(u) = k - 1
      /\ \A l \in 1..(k - 1) : u[l] = s[l]
  OBVIOUS
<1>2. /\ v \in Seq(T) /\ Len(v) = Len(s) - k
      /\ \A l \in 1..(Len(s) - k) : v[l] = s[l + k]
  OBVIOUS
<1>3. RemoveAt(s, k) = u \o v
  BY DEF RemoveAt
<1>0. Len(s) \in Nat /\ k \in 1..Len(s) /\ k \in Nat
  OBVIOUS
<1>. HIDE DEF u, v
<1>4. u \o v \in Seq(T) /\ Len(u \o v) = Len(s) - 1
  <2>1. u \o v \in Seq(T) /\ Len(u \o v) = Len(u) + Len(v)
    BY <1>1, <1>2, ConcatAt
  <2>2. (k - 1) + (Len(s) - k) = Len(s) - 1
    BY <1>0
  <2>. QED  BY <2>1, <2>2, <1>1, <1>2
<1>5. ASSUME NEW l \in 1..(Len(s) - 1)
      PROVE  (u \o v)[l] = s[IF l < k THEN l ELSE l + 1]
  <2>1. CASE l < k
    BY <2>1, <1>1, <1>2, ConcatAt
  <2>2. CASE l >= k
    <3>1. (u \o v)[l] = v[l - (k - 1)]
      BY <2>2, <1>1, <1>2, ConcatAt
    <3>2. l - (k - 1) \in 1..(Len(s) - k) /\ (l - (k - 1)) + k = l + 1
      BY <2>2
    <3>. QED  BY <2>2, <3>1, <3>2, <1>2
  <2>3. l < k \/ l >= k
    BY <1>0
  <2>. QED  BY <2>1, <2>2, <2>3
<1>. QED  BY <1>0, <1>3, <1>4, <1>5

\* The table of the edits.
LEMMA SetsTable ==
    /\ Sets["read"] = <<"read", TRUE>> /\ Sets["unread"] = <<"read", FALSE>>
    /\ Sets["starred"] = <<"star", TRUE>> /\ Sets["unstarred"] = <<"star", FALSE>>
    /\ {"read", "unread", "starred", "unstarred"} \subseteq DOMAIN Sets
    /\ {"tracking", "label"} \intersect DOMAIN Sets = {}
    /\ \A k \in DOMAIN Sets : Sets[k][2] \in BOOLEAN
<1>1. DOMAIN Sets = {"read", "unread", "starred", "unstarred", "subscribe",
                     "subscribeIn", "unsubscribe"}
  BY DEF Sets
<1>2. /\ Sets["read"] = <<"read", TRUE>> /\ Sets["unread"] = <<"read", FALSE>>
      /\ Sets["starred"] = <<"star", TRUE>>
      /\ Sets["unstarred"] = <<"star", FALSE>>
      /\ Sets["subscribe"] = <<"subscribed", TRUE>>
      /\ Sets["subscribeIn"] = <<"subscribed", TRUE>>
      /\ Sets["unsubscribe"] = <<"subscribed", FALSE>>
  BY DEF Sets
<1>3. \A k \in DOMAIN Sets : Sets[k][2] \in BOOLEAN
  <2>. SUFFICES ASSUME NEW k \in DOMAIN Sets
                PROVE  Sets[k][2] \in BOOLEAN
    OBVIOUS
  <2>1. /\ Sets["read"][2] = TRUE /\ Sets["unread"][2] = FALSE
        /\ Sets["starred"][2] = TRUE /\ Sets["unstarred"][2] = FALSE
        /\ Sets["subscribe"][2] = TRUE /\ Sets["subscribeIn"][2] = TRUE
        /\ Sets["unsubscribe"][2] = FALSE
    BY DEF Sets
  <2>. QED  BY <1>1, <2>1, Zenon
<1>. QED  BY <1>1, <1>2, <1>3

-----------------------------------------------------------------------------
(***************************************************************************)
(* What the operations do to the edits in line.                            *)
(***************************************************************************)

LEMMA EditsTyped ==
    ASSUME TypeOK
    PROVE  /\ queue \in Seq(Edits) /\ Len(queue) \in Nat
           /\ posts \in Seq(Edits) /\ Len(posts) \in Nat
           /\ made \in Nat
           /\ \A a \in answers : a.edit \in Edits /\ a.edit.n \in Nat
           /\ \A k \in 1..Len(queue) : queue[k] \in Edits /\ queue[k].n \in Nat
           /\ \A k \in 1..Len(posts) : posts[k] \in Edits /\ posts[k].n \in Nat
<1>1. \A e \in Edits : e.n \in Nat
  BY ReaderEditAssumption DEF Edits
<1>2. queue \in Seq(Edits) /\ posts \in Seq(Edits) /\ made \in Nat
  BY ReaderEditAssumption DEF TypeOK
<1>3. \A a \in answers : a.edit \in Edits
  BY DEF TypeOK
<1>. QED  BY <1>1, <1>2, <1>3

\* A new edit at the head of the queue, as for subscriptions and labels.
LEMMA PrependNumbers ==
    ASSUME TypeOK, Numbered, Distinct,
           NEW e \in Edits, e.n = made + 1, made' = made + 1,
           queue' = <<e>> \o queue, posts' = posts, answers' \subseteq answers
    PROVE  Numbered' /\ Distinct'
<1>1. /\ Len(queue') = Len(queue) + 1
      /\ queue'[1] = e
      /\ \A k \in 2..(Len(queue) + 1) :
            queue'[k] = queue[k - 1] /\ k - 1 \in 1..Len(queue)
  BY EditsTyped, PrependAt
<1>2. \A k \in 1..Len(queue') : k = 1 \/ k \in 2..(Len(queue) + 1)
  BY <1>1, EditsTyped
<1>3. made \in Nat /\ queue'[1].n = made + 1
  BY <1>1, EditsTyped
<1>4. ASSUME NEW k \in 2..(Len(queue) + 1)
      PROVE  /\ queue'[k].n = queue[k - 1].n
             /\ queue'[k].n \in Nat /\ queue'[k].n <= made
  BY <1>1, EditsTyped DEF Numbered
<1>5. Numbered'
  <2>1. ASSUME NEW k \in 1..Len(queue')
        PROVE  queue'[k].n <= made + 1
    BY <1>2, <1>3, <1>4
  <2>2. \A n \in Nat : n <= made => n <= made + 1
    BY <1>3
  <2>. QED  BY <2>1, <2>2, EditsTyped DEF Numbered
<1>6. Distinct'
  <2>1. ASSUME NEW k \in 1..Len(queue'), NEW l \in 1..Len(queue'),
               queue'[k].n = queue'[l].n
        PROVE  k = l
    <3>1. CASE k = 1 \/ l = 1
      <4>1. \A j \in 1..Len(queue') : queue'[j].n = made + 1 => j = 1
        <5>1. \A j \in 2..(Len(queue) + 1) : queue'[j].n # made + 1
          BY <1>3, <1>4
        <5>. QED  BY <1>2, <5>1
      <4>. QED  BY <1>3, <2>1, <3>1, <4>1
    <3>2. CASE k # 1 /\ l # 1
      <4>1. queue[k - 1].n = queue[l - 1].n
        BY <1>1, <1>2, <2>1, <3>2
      <4>. QED  BY <1>1, <1>2, <3>2, <4>1 DEF Distinct
    <3>. QED  BY <3>1, <3>2
  <2>2. ASSUME NEW k \in 1..Len(queue'), NEW l \in 1..Len(posts)
        PROVE  queue'[k].n # posts[l].n
    <3>1. CASE k = 1
      BY <1>3, <3>1, EditsTyped DEF Numbered
    <3>2. CASE k # 1
      <4>1. k - 1 \in 1..Len(queue) /\ queue'[k] = queue[k - 1]
        BY <1>1, <1>2, <3>2
      <4>. QED  BY <4>1 DEF Distinct
    <3>. QED  BY <3>1, <3>2
  <2>3. ASSUME NEW a \in answers, NEW k \in 1..Len(queue')
        PROVE  a.edit.n # queue'[k].n
    <3>1. CASE k = 1
      BY <1>3, <3>1, EditsTyped DEF Numbered
    <3>2. CASE k # 1
      BY <1>1, <1>2, <1>4, <3>2 DEF Distinct
    <3>. QED  BY <3>1, <3>2
  <2>. QED  BY <2>1, <2>2, <2>3 DEF Distinct
<1>. QED  BY <1>5, <1>6

\* A sequence that lost its first edit.
LEMMA DecidedAfterFirst ==
    ASSUME NEW s \in Seq(Edits), NEW u \in Seq(Edits), Len(s) = Len(u) + 1,
           \A k \in 1..Len(u) : u[k] = s[k + 1],
           NEW t
    PROVE  /\ \A k \in 1..Len(s) : DecidedIn(u, k, t) <=> DecidedIn(s, k + 1, t)
           /\ DecidedIn(s, 1, t) <=> Decides(s[1], t) \/ DecidedIn(u, 1, t)
<1>0. Len(s) \in Nat /\ Len(u) \in Nat
  OBVIOUS
<1>1. ASSUME NEW k \in 1..Len(s)
      PROVE  DecidedIn(u, k, t) <=> DecidedIn(s, k + 1, t)
  <2>1. ASSUME NEW l \in k..Len(u), Decides(u[l], t)
        PROVE  l + 1 \in (k + 1)..Len(s) /\ Decides(s[l + 1], t)
    BY <1>0, <2>1
  <2>2. ASSUME NEW l \in (k + 1)..Len(s), Decides(s[l], t)
        PROVE  l - 1 \in k..Len(u) /\ Decides(u[l - 1], t)
    <3>1. l - 1 \in k..Len(u) /\ l - 1 \in 1..Len(u) /\ (l - 1) + 1 = l
      BY <1>0
    <3>. QED  BY <2>2, <3>1
  <2>. QED  BY <2>1, <2>2 DEF DecidedIn
<1>2. DecidedIn(s, 1, t) <=> Decides(s[1], t) \/ DecidedIn(s, 2, t)
  <2>1. 1..Len(s) = {1} \union 2..Len(s)
    BY <1>0
  <2>. QED  BY <2>1 DEF DecidedIn
<1>3. 1 \in 1..Len(s) /\ 1 + 1 = 2
  BY <1>0
<1>. QED  BY <1>1, <1>2, <1>3

LEMMA PrependInOrder ==
    ASSUME TypeOK, InOrder,
           NEW e \in Edits, \A t \in ItemTargets : ~Decides(e, t),
           queue' = <<e>> \o queue,
           UNCHANGED <<posts, remote, trouble>>,
           \A t \in ItemTargets : wanted'[t] = wanted[t]
    PROVE  InOrder'
<1>1. /\ queue' \in Seq(Edits)
      /\ Len(queue') = Len(queue) + 1
      /\ queue'[1] = e
      /\ \A k \in 2..(Len(queue) + 1) :
            queue'[k] = queue[k - 1] /\ k - 1 \in 1..Len(queue)
  BY EditsTyped, PrependAt
<1>2. \A k \in 1..Len(queue) : queue[k] = queue'[k + 1]
  BY <1>1, EditsTyped
<1>. SUFFICES ASSUME trouble = {}, NEW t \in ItemTargets
     PROVE  /\ \A k \in 1..Len(queue') :
                 Decides(queue'[k], t) /\ ~DecidedIn(queue', k + 1, t)
                     => Decision(queue'[k]) = wanted[t]
            /\ \A k \in 1..Len(posts) :
                 Decides(posts[k], t) /\ ~DecidedIn(posts, k + 1, t)
                                      /\ ~DecidedIn(queue', 1, t)
                     => Decision(posts[k]) = wanted[t]
            /\ ~DecidedIn(posts, 1, t) /\ ~DecidedIn(queue', 1, t)
                 => remote[t] = wanted[t]
  BY DEF InOrder
<1>3. /\ \A k \in 1..Len(queue') :
            DecidedIn(queue, k, t) <=> DecidedIn(queue', k + 1, t)
      /\ DecidedIn(queue', 1, t) <=> DecidedIn(queue, 1, t)
  <2>1. /\ \A k \in 1..Len(queue') :
              DecidedIn(queue, k, t) <=> DecidedIn(queue', k + 1, t)
        /\ DecidedIn(queue', 1, t) <=> Decides(queue'[1], t) \/ DecidedIn(queue, 1, t)
    <3>1. queue \in Seq(Edits)
      BY EditsTyped
    <3>. QED  BY <3>1, <1>1, <1>2, DecidedAfterFirst
  <2>. QED  BY <2>1, <1>1
<1>4. ASSUME NEW k \in 1..Len(queue'), Decides(queue'[k], t),
             ~DecidedIn(queue', k + 1, t)
      PROVE  Decision(queue'[k]) = wanted[t]
  <2>1. k \in 2..(Len(queue) + 1) /\ (k - 1) + 1 = k
    BY <1>1, <1>4, EditsTyped
  <2>2. ~DecidedIn(queue, k, t)
    BY <1>3, <1>4
  <2>. QED  BY <1>1, <1>4, <2>1, <2>2 DEF InOrder
<1>. QED  BY <1>3, <1>4 DEF InOrder

\* The head of the queue becomes the last post.
LEMMA PostNumbers ==
    ASSUME TypeOK, Numbered, Distinct, queue # <<>>,
           posts' = Append(posts, Head(queue)), queue' = Tail(queue),
           UNCHANGED <<answers, made>>
    PROVE  Numbered' /\ Distinct'
<1>1. /\ Len(queue) \in Nat \ {0}
      /\ Len(queue') = Len(queue) - 1
      /\ Len(posts') = Len(posts) + 1
      /\ posts'[Len(posts) + 1] = queue[1]
      /\ Len(posts) \in Nat
  BY EditsTyped, TailAt, AppendAt
<1>2. ASSUME NEW k \in 1..Len(queue')
      PROVE  queue'[k] = queue[k + 1] /\ k + 1 \in 1..Len(queue) /\ k + 1 # 1
  BY <1>1, EditsTyped, TailAt
<1>3. ASSUME NEW k \in 1..Len(posts')
      PROVE  \/ k \in 1..Len(posts) /\ posts'[k] = posts[k]
             \/ k = Len(posts) + 1 /\ posts'[k] = queue[1] /\ 1 \in 1..Len(queue)
  BY <1>1, EditsTyped, TailAt, AppendAt
<1>4. Numbered'
  BY <1>2, <1>3 DEF Numbered
<1>5. Distinct'
  <2>1. ASSUME NEW k \in 1..Len(queue'), NEW l \in 1..Len(queue'),
               queue'[k].n = queue'[l].n
        PROVE  k = l
    BY <1>2, <2>1 DEF Distinct
  <2>2. ASSUME NEW k \in 1..Len(posts'), NEW l \in 1..Len(posts'),
               posts'[k].n = posts'[l].n
        PROVE  k = l
    BY <1>3, <2>2 DEF Distinct
  <2>3. ASSUME NEW k \in 1..Len(queue'), NEW l \in 1..Len(posts')
        PROVE  queue'[k].n # posts'[l].n
    BY <1>2, <1>3 DEF Distinct
  <2>4. ASSUME NEW a \in answers
        PROVE  /\ \A k \in 1..Len(queue') : a.edit.n # queue'[k].n
               /\ \A k \in 1..Len(posts') : a.edit.n # posts'[k].n
    BY <1>2, <1>3 DEF Distinct
  <2>. QED  BY <2>1, <2>2, <2>3, <2>4 DEF Distinct
<1>. QED  BY <1>4, <1>5

LEMMA PostInOrder ==
    ASSUME TypeOK, InOrder, queue # <<>>,
           posts' = Append(posts, Head(queue)), queue' = Tail(queue),
           UNCHANGED <<remote, wanted, trouble>>
    PROVE  InOrder'
<1>1. /\ Len(queue) \in Nat \ {0}
      /\ queue \in Seq(Edits) /\ queue' \in Seq(Edits)
      /\ Len(queue) = Len(queue') + 1
      /\ Len(posts') = Len(posts) + 1
      /\ posts'[Len(posts) + 1] = queue[1]
      /\ \A k \in 1..Len(posts) : posts'[k] = posts[k]
      /\ \A k \in 1..Len(queue') : queue'[k] = queue[k + 1]
      /\ Len(posts) \in Nat
  BY EditsTyped, TailAt, AppendAt
<1>. SUFFICES ASSUME trouble = {}, NEW t \in ItemTargets
     PROVE  /\ \A k \in 1..Len(queue') :
                 Decides(queue'[k], t) /\ ~DecidedIn(queue', k + 1, t)
                     => Decision(queue'[k]) = wanted[t]
            /\ \A k \in 1..Len(posts') :
                 Decides(posts'[k], t) /\ ~DecidedIn(posts', k + 1, t)
                                       /\ ~DecidedIn(queue', 1, t)
                     => Decision(posts'[k]) = wanted[t]
            /\ ~DecidedIn(posts', 1, t) /\ ~DecidedIn(queue', 1, t)
                 => remote[t] = wanted[t]
  BY DEF InOrder
<1>2. /\ \A k \in 1..Len(queue) :
            DecidedIn(queue', k, t) <=> DecidedIn(queue, k + 1, t)
      /\ DecidedIn(queue, 1, t) <=> Decides(queue[1], t) \/ DecidedIn(queue', 1, t)
  BY <1>1, DecidedAfterFirst
<1>3. ASSUME NEW k \in 1..(Len(posts) + 1)
      PROVE  DecidedIn(posts', k, t) <=>
                DecidedIn(posts, k, t) \/ Decides(queue[1], t)
  <2>1. k..Len(posts') = k..Len(posts) \union {Len(posts) + 1}
    BY <1>1
  <2>2. \A l \in k..Len(posts) : posts'[l] = posts[l]
    BY <1>1
  <2>. QED  BY <1>1, <2>1, <2>2 DEF DecidedIn
<1>4. ASSUME NEW k \in 1..Len(queue'), Decides(queue'[k], t),
             ~DecidedIn(queue', k + 1, t)
      PROVE  Decision(queue'[k]) = wanted[t]
  <2>1. k + 1 \in 1..Len(queue) /\ queue'[k] = queue[k + 1]
    BY <1>1
  <2>2. ~DecidedIn(queue, (k + 1) + 1, t)
    BY <1>2, <1>4, <2>1
  <2>. QED  BY <1>4, <2>1, <2>2 DEF InOrder
<1>5. ASSUME NEW k \in 1..Len(posts'), Decides(posts'[k], t),
             ~DecidedIn(posts', k + 1, t), ~DecidedIn(queue', 1, t)
      PROVE  Decision(posts'[k]) = wanted[t]
  <2>1. CASE k \in 1..Len(posts)
    <3>1. k + 1 \in 1..(Len(posts) + 1) /\ posts'[k] = posts[k]
      BY <1>1, <2>1
    <3>2. ~DecidedIn(posts, k + 1, t) /\ ~DecidedIn(queue, 1, t)
      BY <1>2, <1>3, <1>5, <3>1
    <3>. QED  BY <1>5, <2>1, <3>1, <3>2 DEF InOrder
  <2>2. CASE k = Len(posts) + 1
    <3>1. 1 \in 1..Len(queue) /\ posts'[k] = queue[1]
      BY <1>1, <2>2
    <3>2. ~DecidedIn(queue, 1 + 1, t)
      BY <1>2, <1>5, <3>1
    <3>. QED  BY <1>5, <3>1, <3>2 DEF InOrder
  <2>. QED  BY <1>1, <2>1, <2>2
<1>6. ~DecidedIn(posts', 1, t) /\ ~DecidedIn(queue', 1, t)
        => remote[t] = wanted[t]
  <2>1. 1 \in 1..(Len(posts) + 1)
    BY <1>1
  <2>. QED  BY <1>2, <1>3, <2>1 DEF InOrder
<1>. QED  BY <1>4, <1>5, <1>6

\* A post is answered, whether it was its turn or not.
LEMMA ServeNumbers ==
    ASSUME TypeOK, Numbered, Distinct, NEW k \in 1..Len(posts), NEW ok \in BOOLEAN,
           posts' = RemoveAt(posts, k),
           answers' = answers \union {[edit |-> posts[k], ok |-> ok]},
           UNCHANGED <<queue, made>>
    PROVE  Numbered' /\ Distinct'
<1>. DEFINE at(l) == IF l < k THEN l ELSE l + 1
            new == [edit |-> posts[k], ok |-> ok]
<1>1. Len(posts') = Len(posts) - 1
  BY EditsTyped, RemoveAtAt
<1>2. ASSUME NEW l \in 1..Len(posts')
      PROVE  posts'[l] = posts[at(l)] /\ at(l) \in 1..Len(posts) /\ at(l) # k
  <2>1. l \in 1..(Len(posts) - 1) /\ l \in Nat /\ k \in Nat /\ Len(posts) \in Nat
    BY <1>1, EditsTyped
  <2>2. posts'[l] = posts[at(l)]
    BY <2>1, EditsTyped, RemoveAtAt
  <2>. QED  BY <2>1, <2>2
<1>3. \A l, m \in 1..Len(posts') : at(l) = at(m) => l = m
  BY <1>1, EditsTyped
<1>4. new.edit.n = posts[k].n
  OBVIOUS
<1>. HIDE DEF at
<1>5. Numbered'
  <2>1. \A l \in 1..Len(posts') : posts'[l].n <= made
    BY <1>2 DEF Numbered
  <2>2. \A a \in answers' : a.edit.n <= made
    BY <1>4 DEF Numbered
  <2>. QED  BY <2>1, <2>2 DEF Numbered
<1>6. Distinct'
  <2>1. ASSUME NEW l \in 1..Len(posts'), NEW m \in 1..Len(posts'),
               posts'[l].n = posts'[m].n
        PROVE  l = m
    BY <1>2, <1>3, <2>1, SMTT(30) DEF Distinct
  <2>2. ASSUME NEW l \in 1..Len(queue), NEW m \in 1..Len(posts')
        PROVE  queue[l].n # posts'[m].n
    BY <1>2, SMTT(30) DEF Distinct
  <2>3. ASSUME NEW a \in answers', NEW b \in answers', a.edit.n = b.edit.n
        PROVE  a = b
    BY <1>4, <2>3 DEF Distinct
  <2>4. ASSUME NEW a \in answers', NEW l \in 1..Len(queue)
        PROVE  a.edit.n # queue[l].n
    BY <1>4 DEF Distinct
  <2>5. ASSUME NEW a \in answers', NEW l \in 1..Len(posts')
        PROVE  a.edit.n # posts'[l].n
    <3>1. posts'[l].n = posts[at(l)].n /\ posts[at(l)].n # posts[k].n
      BY <1>2 DEF Distinct
    <3>2. CASE a = new
      BY <1>4, <3>1, <3>2
    <3>3. CASE a \in answers
      BY <1>2, <3>1, <3>3 DEF Distinct
    <3>. QED  BY <3>2, <3>3
  <2>. QED  BY <2>1, <2>2, <2>3, <2>4, <2>5 DEF Distinct
<1>. QED  BY <1>5, <1>6

\* A post that is served in its turn, and applied, takes its decision to the
\* server.
LEMMA ServeInOrder ==
    ASSUME TypeOK, InOrder, trouble = {}, posts # <<>>,
           posts' = RemoveAt(posts, 1),
           remote' = IF posts[1].kind \in DOMAIN Sets
                     THEN [remote EXCEPT ![<<posts[1].id, Sets[posts[1].kind][1]>>] =
                                            Sets[posts[1].kind][2]]
                     ELSE remote,
           UNCHANGED <<queue, wanted>>
    PROVE  InOrder'
<1>1. /\ posts \in Seq(Edits) /\ posts' \in Seq(Edits)
      /\ Len(posts) \in Nat \ {0}
      /\ Len(posts) = Len(posts') + 1
      /\ \A k \in 1..Len(posts') : posts'[k] = posts[k + 1]
  <2>1. posts \in Seq(Edits) /\ Len(posts) \in Nat \ {0}
    BY EditsTyped
  <2>2. 1 \in 1..Len(posts)
    BY <2>1
  <2>3. /\ posts' \in Seq(Edits)
        /\ Len(posts') = Len(posts) - 1
        /\ \A l \in 1..(Len(posts) - 1) :
              posts'[l] = posts[IF l < 1 THEN l ELSE l + 1]
    BY <2>1, <2>2, RemoveAtAt
  <2>. QED  BY <2>1, <2>3
<1>. SUFFICES ASSUME NEW t \in ItemTargets
     PROVE  /\ \A k \in 1..Len(posts') :
                 Decides(posts'[k], t) /\ ~DecidedIn(posts', k + 1, t)
                                       /\ ~DecidedIn(queue, 1, t)
                     => Decision(posts'[k]) = wanted[t]
            /\ ~DecidedIn(posts', 1, t) /\ ~DecidedIn(queue, 1, t)
                 => remote'[t] = wanted[t]
  BY DEF InOrder
<1>2. /\ \A k \in 1..Len(posts) :
            DecidedIn(posts', k, t) <=> DecidedIn(posts, k + 1, t)
      /\ DecidedIn(posts, 1, t) <=> Decides(posts[1], t) \/ DecidedIn(posts', 1, t)
  BY <1>1, DecidedAfterFirst
<1>3. ASSUME NEW k \in 1..Len(posts'), Decides(posts'[k], t),
             ~DecidedIn(posts', k + 1, t), ~DecidedIn(queue, 1, t)
      PROVE  Decision(posts'[k]) = wanted[t]
  <2>1. k + 1 \in 1..Len(posts) /\ posts'[k] = posts[k + 1]
    BY <1>1
  <2>2. ~DecidedIn(posts, (k + 1) + 1, t)
    BY <1>2, <1>3, <2>1
  <2>. QED  BY <1>3, <2>1, <2>2 DEF InOrder
<1>4. ASSUME ~DecidedIn(posts', 1, t), ~DecidedIn(queue, 1, t)
      PROVE  remote'[t] = wanted[t]
  <2>1. remote \in [Targets -> BOOLEAN] /\ t \in Targets
    BY DEF TypeOK, Targets, ItemTargets
  <2>2. CASE Decides(posts[1], t)
    <3>1. 1 \in 1..Len(posts)
      BY <1>1
    <3>2. ~DecidedIn(posts, 1 + 1, t)
      BY <1>2, <1>4, <3>1
    <3>3. Decision(posts[1]) = wanted[t]
      BY <1>4, <2>2, <3>1, <3>2 DEF InOrder
    <3>. QED  BY <2>1, <2>2, <3>3 DEF Decides, Decision
  <2>3. CASE ~Decides(posts[1], t)
    <3>1. remote'[t] = remote[t]
      BY <2>1, <2>3 DEF Decides
    <3>. QED  BY <1>2, <1>4, <2>3, <3>1 DEF InOrder
  <2>. QED  BY <2>2, <2>3
<1>. QED  BY <1>3, <1>4

\* New edits at the end of the queue.
LEMMA ConcatNumbers ==
    ASSUME TypeOK, Numbered, Distinct,
           NEW new \in Seq(Edits), \A k \in 1..Len(new) : new[k].n = made + k,
           made' = made + Len(new), queue' = queue \o new,
           UNCHANGED <<posts, answers>>
    PROVE  Numbered' /\ Distinct'
<1>1. /\ Len(queue) \in Nat /\ Len(new) \in Nat /\ made \in Nat
      /\ Len(queue') = Len(queue) + Len(new)
  BY EditsTyped, ConcatAt
<1>2. ASSUME NEW k \in 1..Len(queue')
      PROVE  \/ k \in 1..Len(queue) /\ queue'[k] = queue[k]
             \/ /\ k \in (Len(queue) + 1)..(Len(queue) + Len(new))
                /\ queue'[k].n = made + (k - Len(queue))
  <2>1. CASE k \in 1..Len(queue)
    BY <2>1, EditsTyped, ConcatAt
  <2>2. CASE k \in (Len(queue) + 1)..(Len(queue) + Len(new))
    <3>1. queue'[k] = new[k - Len(queue)] /\ k - Len(queue) \in 1..Len(new)
      BY <1>1, <2>2, EditsTyped, ConcatAt
    <3>. QED  BY <2>2, <3>1
  <2>. QED  BY <1>1, <2>1, <2>2
<1>3. ASSUME NEW k \in 1..Len(queue')
      PROVE  \/ /\ k \in 1..Len(queue) /\ queue'[k].n = queue[k].n
                /\ queue'[k].n \in Nat /\ queue'[k].n <= made
             \/ /\ k \in (Len(queue) + 1)..(Len(queue) + Len(new))
                /\ queue'[k].n = made + (k - Len(queue))
                /\ queue'[k].n \in Nat /\ queue'[k].n > made
                /\ queue'[k].n <= made + Len(new)
  BY <1>1, <1>2, EditsTyped DEF Numbered
<1>4. /\ \A k \in 1..Len(posts) : posts[k].n \in Nat /\ posts[k].n <= made
      /\ \A a \in answers : a.edit.n \in Nat /\ a.edit.n <= made
  BY EditsTyped DEF Numbered
<1>5. Numbered'
  <2>1. \A n \in Nat : n <= made => n <= made + Len(new)
    BY <1>1
  <2>. QED  BY <1>3, <1>4, <2>1 DEF Numbered
<1>6. Distinct'
  <2>1. ASSUME NEW k \in 1..Len(queue'), NEW l \in 1..Len(queue'),
               queue'[k].n = queue'[l].n
        PROVE  k = l
    <3>. DEFINE Old(j) == /\ j \in 1..Len(queue) /\ queue'[j].n = queue[j].n
                          /\ queue'[j].n \in Nat /\ queue'[j].n <= made
                Added(j) == /\ queue'[j].n = made + (j - Len(queue))
                            /\ queue'[j].n \in Nat /\ queue'[j].n > made
    <3>1. Old(k) \/ Added(k)
      BY <1>3
    <3>2. Old(l) \/ Added(l)
      BY <1>3
    <3>3. CASE Old(k) /\ Old(l)
      <4>1. queue[k].n = queue[l].n
        BY <2>1, <3>3
      <4>. QED  BY <3>3, <4>1 DEF Distinct
    <3>4. made \in Nat /\ k \in Int /\ l \in Int /\ Len(queue) \in Int
      BY <1>1, EditsTyped
    <3>5. CASE Added(k) /\ Added(l)
      <4>1. made + (k - Len(queue)) = made + (l - Len(queue))
        BY <2>1, <3>5
      <4>. HIDE DEF Old, Added
      <4>. QED  BY <3>4, <4>1
    <3>6. ~(Old(k) /\ Added(l)) /\ ~(Added(k) /\ Old(l))
      <4>. DEFINE p == queue'[k].n
                  q == queue'[l].n
      <4>1. p = q
        BY <2>1
      <4>2. Old(k) => p \in Nat /\ p <= made
        OBVIOUS
      <4>3. Added(k) => p \in Nat /\ p > made
        OBVIOUS
      <4>4. Old(l) => q \in Nat /\ q <= made
        OBVIOUS
      <4>5. Added(l) => q \in Nat /\ q > made
        OBVIOUS
      <4>. HIDE DEF Old, Added, p, q
      <4>. QED  BY <3>4, <4>1, <4>2, <4>3, <4>4, <4>5
    <3>. HIDE DEF Old, Added
    <3>. QED  BY <3>1, <3>2, <3>3, <3>5, <3>6
  <2>2. ASSUME NEW k \in 1..Len(queue'), NEW l \in 1..Len(posts)
        PROVE  queue'[k].n # posts[l].n
    <3>1. CASE k \in 1..Len(queue)
      BY <1>1, <1>3, <3>1 DEF Distinct
    <3>2. CASE k \notin 1..Len(queue)
      BY <1>1, <1>3, <1>4, <3>2
    <3>. QED  BY <3>1, <3>2
  <2>3. ASSUME NEW a \in answers, NEW k \in 1..Len(queue')
        PROVE  a.edit.n # queue'[k].n
    <3>1. CASE k \in 1..Len(queue)
      BY <1>1, <1>3, <3>1 DEF Distinct
    <3>2. CASE k \notin 1..Len(queue)
      BY <1>1, <1>3, <1>4, <3>2
    <3>. QED  BY <3>1, <3>2
  <2>. QED  BY <2>1, <2>2, <2>3 DEF Distinct
<1>. QED  BY <1>5, <1>6

\* ... that decide about one attribute, the way the user wants it.
LEMMA ConcatInOrder ==
    ASSUME TypeOK, InOrder,
           NEW new \in Seq(Edits), NEW target \in ItemTargets, NEW value \in BOOLEAN,
           DecidedIn(new, 1, target),
           \A k \in 1..Len(new), t \in ItemTargets :
              Decides(new[k], t) => t = target /\ Decision(new[k]) = value,
           queue' = queue \o new,
           wanted' = [wanted EXCEPT ![target] = value],
           UNCHANGED <<posts, remote, trouble>>
    PROVE  InOrder'
<1>1. /\ Len(queue) \in Nat /\ Len(new) \in Nat
      /\ Len(queue') = Len(queue) + Len(new)
      /\ \A k \in 1..Len(queue) : queue'[k] = queue[k]
      /\ \A k \in (Len(queue) + 1)..(Len(queue) + Len(new)) :
            queue'[k] = new[k - Len(queue)] /\ k - Len(queue) \in 1..Len(new)
  BY EditsTyped, ConcatAt
<1>2. /\ wanted'[target] = value
      /\ \A t \in ItemTargets : t # target => wanted'[t] = wanted[t]
  BY DEF TypeOK, Targets, ItemTargets
<1>3. ASSUME NEW k \in 1..(Len(queue) + 1)
      PROVE  DecidedIn(queue', k, target)
  <2>1. PICK l \in 1..Len(new) : Decides(new[l], target)
    BY DEF DecidedIn
  <2>2. /\ Len(queue) + l \in (Len(queue) + 1)..(Len(queue) + Len(new))
        /\ Len(queue) + l \in k..Len(queue')
        /\ (Len(queue) + l) - Len(queue) = l
    BY <1>1
  <2>3. Decides(queue'[Len(queue) + l], target)
    BY <1>1, <2>1, <2>2
  <2>. QED  BY <2>2, <2>3 DEF DecidedIn
<1>4. ASSUME NEW t \in ItemTargets, t # target, NEW k \in 1..(Len(queue) + 1)
      PROVE  DecidedIn(queue', k, t) <=> DecidedIn(queue, k, t)
  <2>1. ASSUME NEW l \in k..Len(queue), Decides(queue[l], t)
        PROVE  l \in k..Len(queue') /\ Decides(queue'[l], t)
    BY <1>1, <2>1
  <2>2. ASSUME NEW l \in k..Len(queue'), Decides(queue'[l], t)
        PROVE  l \in k..Len(queue) /\ Decides(queue[l], t)
    <3>1. CASE l \in (Len(queue) + 1)..(Len(queue) + Len(new))
      BY <1>1, <1>4, <2>2, <3>1
    <3>2. CASE l \in 1..Len(queue)
      BY <1>1, <2>2, <3>2
    <3>. QED  BY <1>1, <3>1, <3>2
  <2>. QED  BY <2>1, <2>2 DEF DecidedIn
<1>5. 1 \in 1..(Len(queue) + 1) /\ \A k \in 1..Len(queue) : k + 1 \in 1..(Len(queue) + 1)
  BY <1>1
<1>6. SUFFICES ASSUME trouble = {}, NEW t \in ItemTargets
      PROVE  /\ \A k \in 1..Len(queue') :
                  Decides(queue'[k], t) /\ ~DecidedIn(queue', k + 1, t)
                      => Decision(queue'[k]) = wanted'[t]
             /\ \A k \in 1..Len(posts) :
                  Decides(posts[k], t) /\ ~DecidedIn(posts, k + 1, t)
                                       /\ ~DecidedIn(queue', 1, t)
                      => Decision(posts[k]) = wanted'[t]
             /\ ~DecidedIn(posts, 1, t) /\ ~DecidedIn(queue', 1, t)
                  => remote[t] = wanted'[t]
  BY DEF InOrder
<1>7. CASE t = target
  <2>1. ASSUME NEW k \in 1..Len(queue'), Decides(queue'[k], t),
               ~DecidedIn(queue', k + 1, t)
        PROVE  Decision(queue'[k]) = wanted'[t]
    <3>1. k \notin 1..Len(queue)
      BY <1>3, <1>5, <1>7, <2>1
    <3>2. k \in (Len(queue) + 1)..(Len(queue) + Len(new))
      BY <1>1, <3>1
    <3>. QED  BY <1>1, <1>2, <1>7, <2>1, <3>2
  <2>. QED  BY <1>3, <1>5, <1>7, <2>1
<1>8. CASE t # target
  <2>1. ASSUME NEW k \in 1..Len(queue'), Decides(queue'[k], t),
               ~DecidedIn(queue', k + 1, t)
        PROVE  Decision(queue'[k]) = wanted'[t]
    <3>1. k \in 1..Len(queue)
      <4>1. k \notin (Len(queue) + 1)..(Len(queue) + Len(new))
        BY <1>1, <1>8, <2>1
      <4>. QED  BY <1>1, <4>1
    <3>2. ~DecidedIn(queue, k + 1, t)
      BY <1>4, <1>5, <1>8, <2>1, <3>1
    <3>. QED  BY <1>1, <1>2, <1>6, <1>8, <2>1, <3>1, <3>2 DEF InOrder
  <2>2. DecidedIn(queue', 1, t) <=> DecidedIn(queue, 1, t)
    BY <1>4, <1>5, <1>8
  <2>. QED  BY <1>2, <1>6, <1>8, <2>1, <2>2 DEF InOrder
<1>. QED  BY <1>7, <1>8

-----------------------------------------------------------------------------
(***************************************************************************)
(* The steps.                                                              *)
(***************************************************************************)

\* What is left alone keeps what is said about it.
LEMMA LineUnchanged ==
    ASSUME IInv, UNCHANGED <<queue, posts, answers, made>>
    PROVE  /\ Numbered' /\ Distinct'
           /\ UNCHANGED <<remote, wanted, trouble>> => InOrder'
           /\ trouble' # {} => InOrder'
BY DEF IInv, Numbered, Distinct, InOrder

LEMMA TokensBounded ==
    ASSUME IInv
    PROVE  /\ tokens \in Nat /\ Len(posts) \in Nat /\ Len(queue) \in Nat
           /\ IsFiniteSet(answers) /\ Cardinality(answers) \in Nat
           /\ made \in Nat /\ made <= MaxEdits /\ MaxEdits \in Nat
           /\ tokens + Len(posts) + Cardinality(answers) <= made
           /\ Len(queue) <= made
<1>1. IsFiniteSet(answers) /\ Cardinality(answers) \in Nat
  BY FS_CardinalityType DEF IInv, TokensFunded
<1>2. tokens \in Nat /\ made \in Nat /\ made <= MaxEdits /\ MaxEdits \in Nat
  BY ReaderEditAssumption DEF IInv, TypeOK
<1>. QED  BY <1>1, <1>2, EditsTyped DEF IInv, TokensFunded

\* Every new edit may bring a token.
LEMMA PushedFunded ==
    ASSUME IInv, Pushed, made' \in made..MaxEdits,
           Len(queue') = Len(queue) + (made' - made),
           UNCHANGED <<login, posts, answers>>
    PROVE  /\ TokensFunded'
           /\ tokens' \in 0..MaxEdits /\ broken' \in BOOLEAN /\ made' \in 0..MaxEdits
<1>1. made' \in Nat /\ made' >= made /\ made' <= MaxEdits
  BY TokensBounded
<1>2. CASE Active
  <2>. DEFINE more == made' - made
  <2>1. tokens' = tokens + more /\ broken' = FALSE /\ login' = "active"
    BY <1>2 DEF Pushed, Active
  <2>2. more \in Nat /\ made' = made + more /\ Len(queue') = Len(queue) + more
    BY <1>1, TokensBounded
  <2>. HIDE DEF more
  <2>3. /\ tokens' + Len(posts) + Cardinality(answers) <= made'
        /\ Len(queue') <= made'
        /\ tokens' \in Nat /\ tokens' <= made'
    <3>1. /\ (tokens + more) + Len(posts) + Cardinality(answers) <= made + more
          /\ Len(queue) + more <= made + more
          /\ tokens + more <= made + more /\ tokens + more \in Nat
      <4>. DEFINE p == Len(posts)
                  q == Len(queue)
                  a == Cardinality(answers)
      <4>1. /\ tokens \in Nat /\ p \in Nat /\ a \in Nat /\ q \in Nat /\ made \in Nat
            /\ more \in Nat /\ tokens + p + a <= made /\ q <= made
        BY <2>2, TokensBounded
      <4>. HIDE DEF p, q, a
      <4>2. /\ (tokens + more) + p + a <= made + more /\ q + more <= made + more
            /\ tokens + more <= made + more /\ tokens + more \in Nat
        BY <4>1
      <4>. QED  BY <4>2 DEF p, q, a
    <3>. QED  BY <2>1, <2>2, <3>1
  <2>4. tokens' \in 0..MaxEdits /\ made' \in 0..MaxEdits
    BY <1>1, <2>3, TokensBounded
  <2>5. TokensFunded'
    BY <2>1, <2>3, TokensBounded DEF TokensFunded
  <2>. QED  BY <2>1, <2>4, <2>5
<1>3. CASE ~Active
  BY <1>1, <1>3, TokensBounded DEF Pushed, Active, IInv, TokensFunded, TypeOK
<1>. QED  BY <1>2, <1>3

\* An item edit: the first of the new edits decides, the others do not.
LEMMA ItemEdit ==
    ASSUME IInv,
           NEW i \in Items, NEW what \in {"read", "star"}, NEW value \in BOOLEAN,
           NEW kinds \in Seq(Kinds), kinds # <<>>,
           kinds[1] \in DOMAIN Sets, Sets[kinds[1]] = <<what, value>>,
           \A k \in 2..Len(kinds) : kinds[k] \notin DOMAIN Sets,
           PushItem(i, kinds),
           local' = [local EXCEPT ![<<i, what>>] = value],
           wanted' = [wanted EXCEPT ![<<i, what>>] = value],
           UNCHANGED <<login, posts, answers, remote, snapshot, trouble>>
    PROVE  IInv'
<1>. DEFINE new == [k \in 1..Len(kinds) |->
                      [n |-> made + k, kind |-> kinds[k], id |-> i]]
<1>1. /\ new \in Seq(Edits)
      /\ Len(new) = Len(kinds) /\ Len(kinds) \in Nat \ {0}
      /\ \A k \in 1..Len(kinds) :
            new[k].n = made + k /\ new[k].kind = kinds[k] /\ new[k].id = i
  <2>1. /\ Len(kinds) \in Nat \ {0} /\ made \in Nat /\ MaxEdits \in Nat
        /\ made + Len(kinds) <= MaxEdits
        /\ \A k \in 1..Len(kinds) : kinds[k] \in Kinds
    <3>1. made \in Nat /\ MaxEdits \in Nat /\ made + Len(kinds) <= MaxEdits
      BY ReaderEditAssumption DEF IInv, TypeOK, PushItem
    <3>. QED  BY <3>1
  <2>2. \A k \in 1..Len(kinds) : made + k \in 1..MaxEdits
    BY <2>1
  <2>3. \A k \in 1..Len(kinds) :
          [n |-> made + k, kind |-> kinds[k], id |-> i] \in Edits
    BY <2>1, <2>2 DEF Edits
  <2>. QED  BY <2>1, <2>3
<1>2. queue' = queue \o new /\ made' = made + Len(new)
  BY <1>1 DEF PushItem, ItemQueue
<1>. HIDE DEF new
<1>3. Numbered' /\ Distinct'
  BY <1>1, <1>2, ConcatNumbers DEF IInv
<1>4. <<i, what>> \in ItemTargets /\ ItemTargets \subseteq Targets
  BY DEF ItemTargets, Targets
<1>5. InOrder'
  <2>1. \A k \in 1..Len(new), t \in ItemTargets :
          Decides(new[k], t) => t = <<i, what>> /\ Decision(new[k]) = value
    <3>. SUFFICES ASSUME NEW k \in 1..Len(new), NEW t \in ItemTargets,
                         Decides(new[k], t)
                  PROVE  t = <<i, what>> /\ Decision(new[k]) = value
      OBVIOUS
    <3>1. k = 1
      BY <1>1 DEF Decides
    <3>. QED  BY <1>1, <3>1 DEF Decides, Decision
  <2>2. DecidedIn(new, 1, <<i, what>>)
    <3>1. 1 \in 1..Len(new) /\ Decides(new[1], <<i, what>>)
      BY <1>1 DEF Decides
    <3>. QED  BY <3>1 DEF DecidedIn
  <2>. QED  BY <1>1, <1>2, <1>4, <2>1, <2>2, ConcatInOrder DEF IInv
<1>6. /\ made' \in made..MaxEdits
      /\ queue' \in Seq(Edits)
      /\ Len(queue') = Len(queue) + (made' - made)
  <2>1. made + Len(new) <= MaxEdits
    BY <1>1 DEF PushItem
  <2>2. queue' \in Seq(Edits) /\ Len(queue') = Len(queue) + Len(new)
    <3>1. queue \in Seq(Edits) /\ new \in Seq(Edits)
      BY <1>1, EditsTyped DEF IInv
    <3>2. queue \o new \in Seq(Edits) /\ Len(queue \o new) = Len(queue) + Len(new)
      BY <3>1, ConcatAt
    <3>. QED  BY <1>2, <3>2
  <2>3. made \in Nat /\ Len(new) \in Nat /\ made' = made + Len(new)
    BY <1>1, <1>2, TokensBounded
  <2>. QED  BY <2>1, <2>2, <2>3
<1>7. /\ TokensFunded'
      /\ tokens' \in 0..MaxEdits /\ broken' \in BOOLEAN /\ made' \in 0..MaxEdits
  BY <1>6, PushedFunded DEF PushItem
<1>8. TypeOK'
  <2>1. {remote', local', wanted'} \subseteq [Targets -> BOOLEAN]
    BY <1>4 DEF IInv, TypeOK
  <2>. QED  BY <1>6, <1>7, <2>1 DEF IInv, TypeOK
<1>. QED  BY <1>3, <1>5, <1>7, <1>8 DEF IInv

LEMMA MarkReadStep ==
    ASSUME IInv, NEW i \in Items, NEW newStatus \in BOOLEAN, MarkRead(i, newStatus)
    PROVE  IInv'
<1>. DEFINE kinds == IF newStatus THEN <<"read">> ELSE <<"unread", "tracking">>
<1>1. /\ kinds \in Seq(Kinds) /\ kinds # <<>>
      /\ kinds[1] \in DOMAIN Sets /\ Sets[kinds[1]] = <<"read", newStatus>>
      /\ \A k \in 2..Len(kinds) : kinds[k] \notin DOMAIN Sets
  <2>1. CASE newStatus = TRUE
    <3>1. kinds = <<"read">>
      BY <2>1
    <3>2. /\ kinds # <<>> /\ Len(kinds) = 1 /\ kinds[1] = "read"
      BY <3>1
    <3>3. kinds \in Seq(Kinds)
      BY <3>1, SetsTable, SMTT(30) DEF Kinds
    <3>4. Sets[kinds[1]] = <<"read", newStatus>> /\ kinds[1] \in DOMAIN Sets
      BY <2>1, <3>2, SetsTable
    <3>5. \A k \in 2..Len(kinds) : kinds[k] \notin DOMAIN Sets
      BY <3>2, SetsTable
    <3>. QED  BY <3>2, <3>3, <3>4, <3>5
  <2>2. CASE newStatus = FALSE
    <3>1. kinds = <<"unread", "tracking">>
      BY <2>2
    <3>2. /\ kinds # <<>> /\ Len(kinds) = 2 /\ kinds[1] = "unread" /\ kinds[2] = "tracking"
      BY <3>1
    <3>3. kinds \in Seq(Kinds)
      <4>1. "unread" \in Kinds /\ "tracking" \in Kinds
        BY SetsTable DEF Kinds
      <4>. QED  BY <3>1, <4>1
    <3>4. Sets[kinds[1]] = <<"read", newStatus>> /\ kinds[1] \in DOMAIN Sets
      BY <2>2, <3>2, SetsTable
    <3>5. \A k \in 2..Len(kinds) : kinds[k] \notin DOMAIN Sets
      BY <3>2, SetsTable
    <3>. QED  BY <3>2, <3>3, <3>4, <3>5
  <2>. QED  BY <2>1, <2>2
<1>2. /\ PushItem(i, kinds)
      /\ local' = [local EXCEPT ![<<i, "read">>] = newStatus]
      /\ wanted' = [wanted EXCEPT ![<<i, "read">>] = newStatus]
      /\ UNCHANGED <<login, posts, answers, remote, snapshot, trouble>>
  BY DEF MarkRead
<1>3. "read" \in {"read", "star"}
  OBVIOUS
<1>. HIDE DEF kinds
<1>. QED  BY <1>1, <1>2, <1>3, ItemEdit

LEMMA MarkStarredStep ==
    ASSUME IInv, NEW i \in Items, NEW newStatus \in BOOLEAN,
           MarkStarred(i, newStatus)
    PROVE  IInv'
<1>. DEFINE kinds == IF newStatus THEN <<"starred">> ELSE <<"unstarred">>
<1>1. /\ kinds \in Seq(Kinds) /\ kinds # <<>>
      /\ kinds[1] \in DOMAIN Sets /\ Sets[kinds[1]] = <<"star", newStatus>>
      /\ \A k \in 2..Len(kinds) : kinds[k] \notin DOMAIN Sets
  <2>1. CASE newStatus = TRUE
    <3>1. kinds = <<"starred">>
      BY <2>1
    <3>2. /\ kinds # <<>> /\ Len(kinds) = 1 /\ kinds[1] = "starred"
      BY <3>1
    <3>3. kinds \in Seq(Kinds)
      BY <3>1, SetsTable DEF Kinds
    <3>4. Sets[kinds[1]] = <<"star", newStatus>> /\ kinds[1] \in DOMAIN Sets
      BY <2>1, <3>2, SetsTable
    <3>5. \A k \in 2..Len(kinds) : kinds[k] \notin DOMAIN Sets
      BY <3>2, SetsTable
    <3>. QED  BY <3>2, <3>3, <3>4, <3>5
  <2>2. CASE newStatus = FALSE
    <3>1. kinds = <<"unstarred">>
      BY <2>2
    <3>2. /\ kinds # <<>> /\ Len(kinds) = 1 /\ kinds[1] = "unstarred"
      BY <3>1
    <3>3. kinds \in Seq(Kinds)
      BY <3>1, SetsTable DEF Kinds
    <3>4. Sets[kinds[1]] = <<"star", newStatus>> /\ kinds[1] \in DOMAIN Sets
      BY <2>2, <3>2, SetsTable
    <3>5. \A k \in 2..Len(kinds) : kinds[k] \notin DOMAIN Sets
      BY <3>2, SetsTable
    <3>. QED  BY <3>2, <3>3, <3>4, <3>5
  <2>. QED  BY <2>1, <2>2
<1>2. /\ PushItem(i, kinds)
      /\ local' = [local EXCEPT ![<<i, "star">>] = newStatus]
      /\ wanted' = [wanted EXCEPT ![<<i, "star">>] = newStatus]
      /\ UNCHANGED <<login, posts, answers, remote, snapshot, trouble>>
  BY DEF MarkStarred
<1>3. "star" \in {"read", "star"}
  OBVIOUS
<1>. HIDE DEF kinds
<1>. QED  BY <1>1, <1>2, <1>3, ItemEdit

\* Edits of subscriptions and labels decide about no item.
LEMMA FeedEditsAreNoItemEdits ==
    ASSUME NEW f \in Feeds, NEW e, e.id = f, NEW t \in ItemTargets
    PROVE  ~Decides(e, t)
BY ReaderEditAssumption DEF Decides, ItemTargets

LEMMA HeadEdit ==
    ASSUME IInv, NEW f \in Feeds, NEW k \in Kinds, made < MaxEdits,
           made' = made + 1,
           queue' = <<[n |-> made', kind |-> k, id |-> f]>> \o queue
    PROVE  /\ queue' \in Seq(Edits)
           /\ made' \in made..MaxEdits
           /\ Len(queue') = Len(queue) + (made' - made)
           /\ Len(queue') = Len(queue) + 1
           /\ posts' = posts /\ answers' \subseteq answers => Numbered' /\ Distinct'
           /\ /\ UNCHANGED <<posts, remote, trouble>>
              /\ \A t \in ItemTargets : wanted'[t] = wanted[t]
              => InOrder'
<1>. DEFINE e == [n |-> made', kind |-> k, id |-> f]
<1>1. made' \in 1..MaxEdits /\ made' \in made..MaxEdits /\ made' - made = 1
  BY TokensBounded
<1>2. e \in Edits /\ e.n = made + 1 /\ e.id = f
  BY <1>1 DEF Edits
<1>3. \A t \in ItemTargets : ~Decides(e, t)
  BY <1>2, FeedEditsAreNoItemEdits
<1>4. queue' = <<e>> \o queue
  OBVIOUS
<1>. HIDE DEF e
<1>5. queue' \in Seq(Edits) /\ Len(queue') = Len(queue) + 1
  BY <1>2, <1>4, PrependAt, EditsTyped DEF IInv
<1>6. posts' = posts /\ answers' \subseteq answers => Numbered' /\ Distinct'
  BY <1>2, <1>4, PrependNumbers DEF IInv
<1>7. /\ UNCHANGED <<posts, remote, trouble>>
      /\ \A t \in ItemTargets : wanted'[t] = wanted[t]
      => InOrder'
  BY <1>2, <1>3, <1>4, PrependInOrder DEF IInv
<1>. QED  BY <1>1, <1>5, <1>6, <1>7

LEMMA FeedEdit ==
    ASSUME IInv, NEW f \in Feeds, NEW k \in Kinds, PushFeed(f, k),
           \A t \in ItemTargets : wanted'[t] = wanted[t],
           {local', wanted'} \subseteq [Targets -> BOOLEAN],
           UNCHANGED <<login, posts, answers, remote, snapshot, trouble>>
    PROVE  IInv'
<1>1. /\ queue' \in Seq(Edits) /\ made' \in made..MaxEdits
      /\ Len(queue') = Len(queue) + (made' - made)
      /\ Numbered' /\ Distinct' /\ InOrder'
  BY HeadEdit DEF PushFeed
<1>2. /\ TokensFunded'
      /\ tokens' \in 0..MaxEdits /\ broken' \in BOOLEAN /\ made' \in 0..MaxEdits
  BY <1>1, PushedFunded DEF PushFeed
<1>3. TypeOK'
  BY <1>1, <1>2 DEF IInv, TypeOK
<1>. QED  BY <1>1, <1>2, <1>3 DEF IInv

LEMMA SubscriptionStep ==
    ASSUME IInv, NEW f \in Feeds,
           \/ \E k \in {"subscribe", "subscribeIn"} : AddSubscription(f, k)
           \/ RemoveSubscription(f)
    PROVE  IInv'
<1>1. {"subscribe", "subscribeIn", "unsubscribe"} \subseteq Kinds
  BY DEF Kinds, Sets
<1>2. {local, wanted} \subseteq [Targets -> BOOLEAN]
  BY DEF IInv, TypeOK
<1>3. \A t \in ItemTargets : t # <<f, "subscribed">>
  BY DEF ItemTargets
<1>4. ItemTargets \subseteq Targets
  BY DEF ItemTargets, Targets
<1>5. ASSUME NEW k \in {"subscribe", "subscribeIn"}, AddSubscription(f, k)
      PROVE  IInv'
  BY <1>1, <1>2, <1>3, <1>4, <1>5, FeedEdit DEF AddSubscription
<1>6. CASE RemoveSubscription(f)
  BY <1>1, <1>2, <1>3, <1>4, <1>6, FeedEdit DEF RemoveSubscription
<1>. QED  BY <1>5, <1>6

\* The budget of tokens, posts and answers moves with the edit.
LEMMA BudgetMoves ==
    ASSUME login' = "active",
           made' \in 0..MaxEdits, Len(queue') <= made',
           tokens' \in Nat, Len(posts') \in Nat,
           IsFiniteSet(answers'), Cardinality(answers') \in Nat,
           tokens' + Len(posts') + Cardinality(answers') <= made'
    PROVE  TokensFunded' /\ tokens' \in 0..MaxEdits
<1>1. TokensFunded'
  BY DEF TokensFunded
<1>2. made' \in Nat /\ made' <= MaxEdits /\ MaxEdits \in Nat
  BY ReaderEditAssumption
<1>. QED  BY <1>1, <1>2

LEMMA LoginStep ==
    ASSUME IInv, LoginStart \/ LoginDone
    PROVE  IInv'
<1>1. Numbered' /\ Distinct' /\ InOrder'
  BY LineUnchanged DEF LoginStart, LoginDone
<1>2. CASE LoginStart
  <2>1. TypeOK'
    BY <1>2 DEF IInv, TypeOK, LoginStart
  <2>2. TokensFunded'
    BY <1>2 DEF IInv, TokensFunded, LoginStart
  <2>. QED  BY <1>1, <2>1, <2>2 DEF IInv
<1>3. CASE LoginDone /\ login' = "active"
  <2>1. /\ tokens = 0 /\ posts = <<>> /\ answers = {}
        /\ tokens' = IF queue = <<>> THEN 0 ELSE 1
    BY <1>3 DEF LoginDone, AfterLogin, ProcessQueue, IInv, TokensFunded
  <2>2. tokens' \in Nat /\ tokens' <= made
    <3>1. queue # <<>> => Len(queue) >= 1
      BY EditsTyped DEF IInv
    <3>. QED  BY <2>1, <3>1, TokensBounded
  <2>3. tokens' \in 0..MaxEdits
    BY <2>2, TokensBounded
  <2>4. Len(<<>>) = 0 /\ Cardinality({}) = 0
    BY FS_EmptySet
  <2>5. tokens' + Len(posts) + Cardinality(answers) <= made
    BY <2>1, <2>2, <2>4, TokensBounded
  <2>6. TokensFunded'
    BY <1>3, <2>5, TokensBounded DEF LoginDone, TokensFunded
  <2>7. TypeOK'
    BY <1>3, <2>3 DEF LoginDone, IInv, TypeOK
  <2>. QED  BY <1>1, <2>6, <2>7 DEF IInv
<1>4. CASE LoginDone /\ login' = "failed"
  <2>1. TypeOK'
    BY <1>4 DEF IInv, TypeOK, LoginDone
  <2>2. TokensFunded'
    BY <1>4 DEF IInv, TokensFunded, LoginDone
  <2>. QED  BY <1>1, <2>1, <2>2 DEF IInv
<1>. QED  BY <1>2, <1>3, <1>4 DEF LoginDone

LEMMA TokenAnswerStep ==
    ASSUME IInv, TokenAnswer
    PROVE  IInv'
<1>. DEFINE Rest == UNCHANGED <<login, answers, remote, local, wanted, snapshot, made>>
<1>1. /\ tokens' \in Nat /\ tokens' + 1 = tokens
      /\ login = "active" /\ Rest
  BY TokensBounded DEF TokenAnswer, TokensLeft, IInv, TokensFunded
<1>2. CASE /\ queue # <<>> /\ posts' = Append(posts, Head(queue))
           /\ queue' = Tail(queue) /\ UNCHANGED <<broken, trouble>>
  <2>1. Numbered' /\ Distinct' /\ InOrder'
    BY <1>1, <1>2, PostNumbers, PostInOrder DEF IInv
  <2>2. /\ queue' \in Seq(Edits) /\ posts' \in Seq(Edits)
        /\ Len(queue') = Len(queue) - 1
        /\ Len(posts') = Len(posts) + 1 /\ Len(posts') \in Nat
    BY <1>2, EditsTyped, TailAt, AppendAt DEF IInv
  <2>3. /\ tokens' + Len(posts') + Cardinality(answers') <= made'
        /\ Len(queue') <= made'
    BY <1>1, <2>2, TokensBounded, SMTT(30)
  <2>4. TokensFunded' /\ tokens' \in 0..MaxEdits
    <3>1. made' \in 0..MaxEdits
      BY <1>1 DEF IInv, TypeOK
    <3>2. /\ login' = "active"
          /\ Len(queue') <= made' /\ tokens' \in Nat /\ Len(posts') \in Nat
          /\ IsFiniteSet(answers') /\ Cardinality(answers') \in Nat
          /\ tokens' + Len(posts') + Cardinality(answers') <= made'
      BY <1>1, <2>2, <2>3, TokensBounded
    <3>. QED  BY <3>1, <3>2, BudgetMoves
  <2>5. TypeOK'
    BY <1>1, <1>2, <2>2, <2>4 DEF IInv, TypeOK
  <2>. QED  BY <2>1, <2>4, <2>5 DEF IInv
<1>3. CASE /\ UNCHANGED <<queue, posts>>
           /\ broken' \in BOOLEAN
           /\ UNCHANGED trouble \/ trouble' = trouble \union {"failed"}
  <2>1. Numbered' /\ Distinct' /\ InOrder'
    BY <1>1, <1>3, LineUnchanged
  <2>2. /\ tokens' + Len(posts') + Cardinality(answers') <= made'
        /\ Len(queue') <= made'
    BY <1>1, <1>3, TokensBounded, SMTT(30)
  <2>3. TokensFunded' /\ tokens' \in 0..MaxEdits
    <3>1. made' \in 0..MaxEdits
      BY <1>1 DEF IInv, TypeOK
    <3>2. /\ login' = "active"
          /\ Len(queue') <= made' /\ tokens' \in Nat /\ Len(posts') \in Nat
          /\ IsFiniteSet(answers') /\ Cardinality(answers') \in Nat
          /\ tokens' + Len(posts') + Cardinality(answers') <= made'
      BY <1>1, <1>3, <2>2, TokensBounded
    <3>. QED  BY <3>1, <3>2, BudgetMoves
  <2>4. TypeOK'
    BY <1>1, <1>3, <2>3 DEF IInv, TypeOK
  <2>. QED  BY <2>1, <2>3, <2>4 DEF IInv
<1>4. broken \in BOOLEAN
  BY DEF IInv, TypeOK
<1>. QED  BY <1>2, <1>3, <1>4 DEF TokenAnswer, AfterPost, Trouble

LEMMA ServerStep ==
    ASSUME IInv, NEW k \in 1..MaxEdits, Server(k)
    PROVE  IInv'
<1>. DEFINE e == posts[k]
<1>1. k \in 1..Len(posts) /\ posts' = RemoveAt(posts, k)
  BY DEF Server
<1>2. PICK applied \in BOOLEAN, ok \in BOOLEAN :
        /\ ok => applied
        /\ trouble' = trouble \union (IF k > 1 THEN {"overtaken"} ELSE {})
                              \union (IF ok THEN {} ELSE {"failed"})
        /\ answers' = answers \union {[edit |-> e, ok |-> ok]}
        /\ remote' = IF applied /\ e.kind \in DOMAIN Sets
                     THEN [remote EXCEPT ![<<e.id, Sets[e.kind][1]>>] =
                                            Sets[e.kind][2]]
                     ELSE remote
  BY DEF Server
<1>3. UNCHANGED <<login, queue, tokens, local, wanted, snapshot, made, broken>>
  BY DEF Server
<1>4. e \in Edits
  BY <1>1, EditsTyped DEF IInv
<1>5. Numbered' /\ Distinct'
  BY <1>1, <1>2, <1>3, ServeNumbers DEF IInv
<1>6. InOrder'
  <2>1. CASE trouble' = {}
    <3>1. trouble = {} /\ ok /\ applied /\ k = 1
      BY <1>2, <2>1
    <3>2. posts # <<>>
      BY <1>1
    <3>. QED  BY <1>1, <1>2, <1>3, <3>1, <3>2, ServeInOrder DEF IInv
  <2>2. CASE trouble' # {}
    BY <2>2 DEF InOrder
  <2>. QED  BY <2>1, <2>2
<1>. HIDE DEF e
<1>7. TokensFunded'
  <2>1. posts' \in Seq(Edits) /\ Len(posts') = Len(posts) - 1
    BY <1>1, EditsTyped, RemoveAtAt DEF IInv
  <2>2. /\ IsFiniteSet(answers')
        /\ Cardinality(answers') \in Nat
        /\ Cardinality(answers') <= Cardinality(answers) + 1
    <3>1. /\ IsFiniteSet(answers')
          /\ Cardinality(answers') = Cardinality(answers)
             \/ Cardinality(answers') = Cardinality(answers) + 1
      BY <1>2, TokensBounded, FS_AddElement
    <3>. QED  BY <3>1, TokensBounded
  <2>3. login = "active"
    BY <1>1, TokensBounded DEF IInv, TokensFunded
  <2>4. /\ tokens' + Len(posts') + Cardinality(answers') <= made'
        /\ Len(posts') \in Nat /\ Len(queue') <= made'
    <3>1. Len(posts) >= 1
      BY <1>1, TokensBounded
    <3>. QED  BY <1>3, <2>1, <2>2, <3>1, TokensBounded, SMTT(30)
  <2>5. made' \in 0..MaxEdits /\ tokens' \in Nat
    BY <1>3, TokensBounded
  <2>. QED  BY <1>3, <2>2, <2>3, <2>4, <2>5, BudgetMoves
<1>8. TypeOK'
  <2>1. posts' \in Seq(Edits)
    BY <1>1, EditsTyped, RemoveAtAt DEF IInv
  <2>2. answers' \subseteq [edit : Edits, ok : BOOLEAN]
    BY <1>2, <1>4 DEF IInv, TypeOK
  <2>3. remote' \in [Targets -> BOOLEAN]
    BY <1>2, SetsTable DEF IInv, TypeOK
  <2>4. trouble' \subseteq {"failed", "overtaken"}
    BY <1>2 DEF IInv, TypeOK
  <2>. QED  BY <1>3, <2>1, <2>2, <2>3, <2>4 DEF IInv, TypeOK
<1>. QED  BY <1>5, <1>6, <1>7, <1>8 DEF IInv

LEMMA ActionCompleteStep ==
    ASSUME IInv, NEW a \in answers, ActionComplete(a)
    PROVE  IInv'
<1>1. /\ answers' = answers \ {a}
      /\ UNCHANGED <<login, posts, remote, wanted, snapshot, trouble>>
  BY DEF ActionComplete
<1>2. /\ IsFiniteSet(answers')
      /\ Cardinality(answers') \in Nat
      /\ Cardinality(answers') + 1 = Cardinality(answers)
  <2>1. /\ IsFiniteSet(answers')
        /\ Cardinality(answers') = Cardinality(answers) - 1
    BY <1>1, TokensBounded, FS_RemoveElement
  <2>2. Cardinality(answers') \in Nat
    BY <2>1, FS_CardinalityType
  <2>. QED  BY <2>1, <2>2, TokensBounded
<1>3. login' = "active"
  BY <1>1 DEF IInv, TokensFunded
<1>4. answers' \subseteq [edit : Edits, ok : BOOLEAN]
  BY <1>1 DEF IInv, TypeOK
<1>5. CASE /\ a.edit.kind = "subscribeIn"
           /\ made < MaxEdits
           /\ made' = made + 1
           /\ queue' = <<[n |-> made', kind |-> "label", id |-> a.edit.id]>> \o queue
           /\ tokens' = tokens + (IF Active THEN 1 ELSE 0) + AfterAnswer(queue')
           /\ broken' = FALSE
           /\ UNCHANGED local
  <2>. DEFINE e == [n |-> made', kind |-> "label", id |-> a.edit.id]
  <2>1. made' \in 1..MaxEdits /\ made' \in 0..MaxEdits
    BY <1>5, TokensBounded
  <2>2. e \in Edits /\ e.n = made + 1 /\ e.kind = "label"
    <3>1. a.edit.id \in Items \union Feeds
      BY EditsTyped DEF IInv, Edits
    <3>2. "label" \in Kinds
      BY DEF Kinds
    <3>. QED  BY <1>5, <2>1, <3>1, <3>2 DEF Edits
  <2>3. \A t \in ItemTargets : ~Decides(e, t)
    BY <2>2, SetsTable DEF Decides
  <2>4. queue' = <<e>> \o queue
    BY <1>5
  <2>. HIDE DEF e
  <2>5. queue' \in Seq(Edits) /\ Len(queue') = Len(queue) + 1
    BY <2>2, <2>4, PrependAt, EditsTyped DEF IInv
  <2>6. Numbered' /\ Distinct'
    BY <1>1, <1>5, <2>2, <2>4, PrependNumbers DEF IInv
  <2>7. InOrder'
    BY <1>1, <2>2, <2>3, <2>4, PrependInOrder DEF IInv
  <2>8. tokens' = tokens + 2
    <3>1. queue' # <<>> /\ Active
      BY <1>1, <1>3, <2>5, EditsTyped DEF IInv, Active
    <3>. QED  BY <1>5, <3>1, TokensBounded DEF AfterAnswer, ProcessQueue
  <2>9. /\ tokens' + Len(posts') + Cardinality(answers') <= made'
        /\ tokens' \in Nat /\ Len(posts') \in Nat /\ Len(queue') <= made'
    BY <1>1, <1>2, <1>5, <2>5, <2>8, TokensBounded, SMTT(30)
  <2>10. TokensFunded' /\ tokens' \in 0..MaxEdits
    BY <1>2, <1>3, <2>1, <2>9, BudgetMoves
  <2>11. TypeOK'
    BY <1>1, <1>4, <1>5, <2>1, <2>5, <2>10 DEF IInv, TypeOK
  <2>. QED  BY <2>6, <2>7, <2>10, <2>11 DEF IInv
<1>6. CASE /\ UNCHANGED <<queue, made>>
           /\ tokens' = tokens \/ tokens' = tokens + 1
           /\ broken' \in BOOLEAN
           /\ local' \in [Targets -> BOOLEAN]
  <2>1. Numbered'
    BY <1>1, <1>6 DEF IInv, Numbered
  <2>2. Distinct'
    BY <1>1, <1>6 DEF IInv, Distinct
  <2>3. InOrder'
    BY <1>1, <1>6 DEF IInv, InOrder
  <2>4. /\ tokens' + Len(posts') + Cardinality(answers') <= made'
        /\ tokens' \in Nat /\ Len(posts') \in Nat /\ Len(queue') <= made'
    BY <1>1, <1>2, <1>6, TokensBounded
  <2>5. made' \in 0..MaxEdits
    BY <1>6, TokensBounded
  <2>6. TokensFunded' /\ tokens' \in 0..MaxEdits
    BY <1>2, <1>3, <2>4, <2>5, BudgetMoves
  <2>7. TypeOK'
    BY <1>1, <1>4, <1>6, <2>6 DEF IInv, TypeOK
  <2>. QED  BY <2>1, <2>2, <2>3, <2>6, <2>7 DEF IInv
<1>7. local \in [Targets -> BOOLEAN] /\ broken \in BOOLEAN
  BY DEF IInv, TypeOK
<1>8. [local EXCEPT ![<<a.edit.id, "subscribed">>] = FALSE] \in [Targets -> BOOLEAN]
  BY <1>7
<1>9. tokens + 0 = tokens
  BY TokensBounded
<1>. QED  BY <1>5, <1>6, <1>7, <1>8, <1>9 DEF ActionComplete, AfterAnswer, ProcessQueue

LEMMA PollStep ==
    ASSUME IInv, (\E p \in Polls : Poll(p)) \/ MergeStatus \/ MergeList
    PROVE  IInv'
<1>1. UNCHANGED <<login, queue, tokens, posts, answers, remote, wanted, made,
                  broken, trouble>>
  BY DEF Poll, MergeStatus, MergeList
<1>2. Numbered' /\ Distinct' /\ InOrder' /\ TokensFunded'
  BY <1>1, LineUnchanged DEF IInv, TokensFunded
<1>3. CASE \E p \in Polls : Poll(p)
  <2>1. <<remote>> \in Seq([Targets -> BOOLEAN])
    BY DEF IInv, TypeOK
  <2>2. snapshot' \in [Polls -> Seq([Targets -> BOOLEAN])] /\ local' = local
    BY <1>3, <2>1 DEF Poll, IInv, TypeOK
  <2>. QED  BY <1>1, <1>2, <2>2 DEF IInv, TypeOK
<1>4. ASSUME NEW p \in Polls, snapshot[p] # <<>>,
             snapshot' = [snapshot EXCEPT ![p] = <<>>],
             local' \in [Targets -> BOOLEAN]
      PROVE  IInv'
  <2>1. snapshot' \in [Polls -> Seq([Targets -> BOOLEAN])]
    BY <1>4 DEF IInv, TypeOK
  <2>. QED  BY <1>1, <1>2, <1>4, <2>1 DEF IInv, TypeOK
<1>5. ASSUME NEW p \in Polls, snapshot[p] # <<>>
      PROVE  snapshot[p][1] \in [Targets -> BOOLEAN]
  BY <1>5 DEF IInv, TypeOK
<1>6. local \in [Targets -> BOOLEAN]
  BY DEF IInv, TypeOK
<1>7. "status" \in Polls /\ "list" \in Polls
  BY DEF Polls
<1>8. CASE MergeStatus
  <2>1. local' \in [Targets -> BOOLEAN]
    BY <1>5, <1>6, <1>7, <1>8 DEF MergeStatus, MergedStatus
  <2>. QED  BY <1>4, <1>7, <1>8, <2>1 DEF MergeStatus
<1>9. CASE MergeList
  <2>1. local' \in [Targets -> BOOLEAN]
    BY <1>5, <1>6, <1>7, <1>9 DEF MergeList
  <2>. QED  BY <1>4, <1>7, <1>9, <2>1 DEF MergeList
<1>. QED  BY <1>3, <1>8, <1>9

-----------------------------------------------------------------------------
LEMMA InitIInv == Init => IInv
<1>. SUFFICES ASSUME Init
              PROVE  IInv
  OBVIOUS
<1>1. Len(<<>>) = 0 /\ IsFiniteSet({}) /\ Cardinality({}) = 0
  BY FS_EmptySet
<1>2. TypeOK
  <2>1. 0 \in 0..MaxEdits
    BY ReaderEditAssumption
  <2>2. snapshot \in [Polls -> Seq([Targets -> BOOLEAN])]
    BY DEF Init
  <2>3. {remote, local, wanted} \subseteq [Targets -> BOOLEAN]
    BY DEF Init
  <2>4. broken \in BOOLEAN
    BY DEF Init
  <2>. QED  BY <2>1, <2>2, <2>3, <2>4 DEF Init, TypeOK
<1>3. Numbered /\ Distinct
  BY DEF Init, Numbered, Distinct
<1>4. TokensFunded
  BY <1>1 DEF Init, TokensFunded
<1>5. InOrder
  BY DEF Init, InOrder
<1>. QED  BY <1>2, <1>3, <1>4, <1>5 DEF IInv

LEMMA NextIInv == IInv /\ [Next]_vars => IInv'
<1>. SUFFICES ASSUME IInv, [Next]_vars
              PROVE  IInv'
  OBVIOUS
<1>1. ASSUME NEW i \in Items, NEW newStatus \in BOOLEAN,
             MarkRead(i, newStatus) \/ MarkStarred(i, newStatus)
      PROVE  IInv'
  BY <1>1, MarkReadStep, MarkStarredStep
<1>2. ASSUME NEW f \in Feeds,
             \/ \E k \in {"subscribe", "subscribeIn"} : AddSubscription(f, k)
             \/ RemoveSubscription(f)
      PROVE  IInv'
  BY <1>2, SubscriptionStep
<1>3. CASE LoginStart \/ LoginDone
  BY <1>3, LoginStep
<1>4. CASE TokenAnswer
  BY <1>4, TokenAnswerStep
<1>5. ASSUME NEW k \in 1..MaxEdits, Server(k)
      PROVE  IInv'
  BY <1>5, ServerStep
<1>6. ASSUME NEW a \in answers, ActionComplete(a)
      PROVE  IInv'
  BY <1>6, ActionCompleteStep
<1>7. CASE (\E p \in Polls : Poll(p)) \/ MergeStatus \/ MergeList
  BY <1>7, PollStep
<1>8. CASE UNCHANGED vars
  BY <1>8, LineUnchanged DEF vars, IInv, TypeOK, TokensFunded
<1>. QED
  BY <1>1, <1>2, <1>3, <1>4, <1>5, <1>6, <1>7, <1>8 DEF Next, User

\* The invariant holds in every behaviour.
THEOREM Invariant == Spec => []IInv
BY InitIInv, NextIInv, PTL DEF Spec

\* Every variable keeps its type, in particular no answer leaves more tokens on
\* their way than there have been edits.
THEOREM TypeCorrect == Spec => []TypeOK
BY Invariant, PTL DEF IInv

\* An edit is queued, posted or answered, in one place only, however many tokens
\* come back in whatever order with the answers.
THEOREM EditsSentOnce == Spec => []EditsAreSentOnce
<1>1. IInv => EditsAreSentOnce
  <2>. SUFFICES ASSUME IInv
                PROVE  EditsAreSentOnce
    OBVIOUS
  <2>. DEFINE waiting == queue \o posts
  <2>1. queue \in Seq(Edits) /\ posts \in Seq(Edits)
    BY EditsTyped DEF IInv
  <2>2. /\ Len(queue) \in Nat /\ Len(posts) \in Nat
        /\ Len(waiting) = Len(queue) + Len(posts)
        /\ \A k \in 1..Len(queue) : waiting[k] = queue[k]
        /\ \A k \in (Len(queue) + 1)..(Len(queue) + Len(posts)) :
              waiting[k] = posts[k - Len(queue)]
    BY <2>1, ConcatAt
  <2>3. ASSUME NEW k \in 1..Len(waiting)
        PROVE  \/ k \in 1..Len(queue) /\ waiting[k] = queue[k]
               \/ /\ k \notin 1..Len(queue)
                  /\ k - Len(queue) \in 1..Len(posts)
                  /\ waiting[k] = posts[k - Len(queue)]
    BY <2>2
  <2>. HIDE DEF waiting
  <2>4. ASSUME NEW k \in 1..Len(waiting), NEW l \in 1..Len(waiting),
               waiting[k].n = waiting[l].n
        PROVE  k = l
    <3>1. CASE k \in 1..Len(queue) <=> l \in 1..Len(queue)
      <4>1. CASE k \in 1..Len(queue)
        BY <2>3, <2>4, <3>1, <4>1 DEF IInv, Distinct
      <4>2. CASE k \notin 1..Len(queue)
        <5>1. k - Len(queue) = l - Len(queue)
          <6>1. \A i, j \in 1..Len(posts) : posts[i].n = posts[j].n => i = j
            BY DEF IInv, Distinct
          <6>2. /\ k - Len(queue) \in 1..Len(posts) /\ waiting[k] = posts[k - Len(queue)]
                /\ l - Len(queue) \in 1..Len(posts) /\ waiting[l] = posts[l - Len(queue)]
            BY <2>3, <3>1, <4>2
          <6>. QED  BY <2>4, <6>1, <6>2
        <5>. QED  BY <2>2, <5>1
      <4>. QED  BY <4>1, <4>2
    <3>2. CASE k \in 1..Len(queue) /\ l \notin 1..Len(queue)
      BY <2>3, <2>4, <3>2 DEF IInv, Distinct
    <3>3. CASE k \notin 1..Len(queue) /\ l \in 1..Len(queue)
      <4>1. queue[l].n = posts[k - Len(queue)].n
        BY <2>3, <2>4, <3>3
      <4>. QED  BY <2>3, <3>3, <4>1 DEF IInv, Distinct
    <3>. QED  BY <3>1, <3>2, <3>3
  <2>5. ASSUME NEW a \in answers, NEW k \in 1..Len(waiting)
        PROVE  a.edit.n # waiting[k].n
    <3>1. CASE k \in 1..Len(queue) /\ waiting[k] = queue[k]
      BY <3>1 DEF IInv, Distinct
    <3>2. CASE /\ k - Len(queue) \in 1..Len(posts)
               /\ waiting[k] = posts[k - Len(queue)]
      BY <3>2 DEF IInv, Distinct
    <3>. QED  BY <2>3, <3>1, <3>2
  <2>6. \A a, b \in answers : a.edit.n = b.edit.n => a = b
    BY DEF IInv, Distinct
  <2>. QED  BY <2>4, <2>5, <2>6 DEF EditsAreSentOnce, waiting
<1>. QED  BY <1>1, Invariant, PTL

\* When everything has been answered, nothing failed and nothing was overtaken,
\* the server has the item states the user wanted, however edits, tokens, answers
\* and polls were interleaved.
THEOREM ItemsEndAsWanted == Spec => []ItemsAsWanted
<1>1. IInv => ItemsAsWanted
  <2>. SUFFICES ASSUME IInv, Settled,
                       NEW i \in Items, NEW what \in {"read", "star"}
                PROVE  remote[<<i, what>>] = wanted[<<i, what>>]
    BY DEF ItemsAsWanted
  <2>1. <<i, what>> \in ItemTargets
    BY DEF ItemTargets
  <2>2. 1..Len(queue) = {} /\ 1..Len(posts) = {}
    BY DEF Settled
  <2>3. ~DecidedIn(queue, 1, <<i, what>>) /\ ~DecidedIn(posts, 1, <<i, what>>)
    BY <2>2 DEF DecidedIn
  <2>. QED  BY <2>1, <2>3 DEF IInv, InOrder, Settled
<1>. QED  BY <1>1, Invariant, PTL

\* Requests in flight are never more than the edits made: neither the label that
\* follows a subscription nor the answers that start the next edit let them pile
\* up.
THEOREM RequestsAreFunded ==
    Spec => [](tokens + Len(posts) + Cardinality(answers) <= made)
<1>1. IInv => tokens + Len(posts) + Cardinality(answers) <= made
  BY DEF IInv, TokensFunded
<1>. QED  BY <1>1, Invariant, PTL

=============================================================================
