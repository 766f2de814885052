------------------------------ MODULE NodeTree ------------------------------
(***************************************************************************)
(* The tree of nodes (src/node.c, src/node_providers/): a tree is a        *)
(* function from nodes to the sequences of their children.  A node that is *)
(* not in the tree has neither a parent nor children.                      *)
(***************************************************************************)
EXTENDS SequencesExt, Functions

CONSTANTS
    Nodes,              \* all that can be in the tree
    Root,
    NoNode,
    Kind                \* the node provider of each node

ASSUME NodeTreeAssumption ==
    /\ IsFiniteSet(Nodes) /\ Root \in Nodes /\ NoNode \notin Nodes
    /\ Kind[Root] = "root"
    /\ Kind \in [Nodes -> {"root", "folder", "source", "feed", "newsbin", "vfolder"}]

IsVFolder(n) == Kind[n] = "vfolder"
VFolders == {n \in Nodes : IsVFolder(n)}
IsFolder(n) == Kind[n] \in {"folder", "source", "root"}

\* c is the tree that the operators are about.
ChildrenOf(c, n) == Range(c[n])
InTree(c) == {Root} \union UNION {Range(c[n]) : n \in Nodes}
ParentIn(c, n) == IF \E p \in Nodes : n \in ChildrenOf(c, p)
                  THEN CHOOSE p \in Nodes : n \in ChildrenOf(c, p) ELSE NoNode
AncestorsIn(c, n) ==
    LET above[k \in Nodes] ==
            LET p == ParentIn(c, k) IN IF p = NoNode THEN {} ELSE {p} \union above[p]
    IN  above[n]
BelowIn(c, n) == {k \in InTree(c) : k = n \/ n \in AncestorsIn(c, k)}

\* Every node but the root has one place, and none is below itself.
IsTree(c) ==
    /\ c \in [Nodes -> Seq(Nodes)]
    /\ \A p, q \in Nodes : \A i \in DOMAIN c[p], j \in DOMAIN c[q] :
          c[p][i] = c[q][j] => p = q /\ i = j
    /\ \A n \in Nodes : Root \notin ChildrenOf(c, n)
    /\ \A n \in Nodes : c[n] = <<>> \/ n \in InTree(c)
    /\ \A s \in SUBSET Nodes :
          s = {} \/ \E n \in s : \A p \in s : n \notin ChildrenOf(c, p)

\* The list without its member n, or the list.
Without(list, n) ==
    LET at == {i \in DOMAIN list : list[i] = n}
    IN  IF at = {} THEN list ELSE RemoveAt(list, CHOOSE i \in at : TRUE)

=============================================================================
