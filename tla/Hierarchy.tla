----------------------------- MODULE Hierarchy -----------------------------
(***************************************************************************)
(* The hierarchy of contexts: what makes a list of nodes a tree for the    *)
(* daemon (internal/domain/hierarchy.go, compiled from the file by         *)
(* internal/contexttree) and for the shell (homeGridModel.js), and the     *)
(* paths the home grid shows.  A document is a function from its nodes to  *)
(* their parent fields; titles, kinds and order are left out.              *)
(***************************************************************************)
EXTENDS Naturals, Sequences, FiniteSetsExt

CONSTANTS
    Nodes,        \* node ids
    NoNode        \* an empty parent field

ASSUME NodesAssumption == IsFiniteSet(Nodes) /\ NoNode \notin Nodes

Documents == UNION {[S -> Nodes \cup {NoNode}] : S \in SUBSET Nodes}

ChildrenOf(d, n) == {m \in DOMAIN d : d[m] = n}

\* The node k steps above n, NoNode when there is none.
Climb(d, n) ==
    LET up[k \in 0..Cardinality(DOMAIN d)] ==
          IF k = 0 THEN n
          ELSE IF up[k - 1] \in DOMAIN d THEN d[up[k - 1]] ELSE NoNode
    IN up

\* validatePathToRoot: following parents from n ends in the root, before a node
\* repeats (which it does after as many steps as there are nodes).
ReachesRoot(d, root, n) ==
    \E k \in 0..Cardinality(DOMAIN d) : Climb(d, n)[k] = root /\ d[root] = NoNode

\* NewTree accepts d: exactly one root, no parent missing, no cycle.
NewTree(d) ==
    /\ Cardinality(ChildrenOf(d, NoNode)) = 1
    /\ \A n \in DOMAIN d : d[n] # NoNode => d[n] \in DOMAIN d
    /\ \A n \in DOMAIN d, r \in ChildrenOf(d, NoNode) : ReachesRoot(d, r, n)

RootOf(d) == CHOOSE r \in DOMAIN d : d[r] = NoNode

\* buildTreeModel accepts d with the root the payload names.
BuildTreeModel(d, root) ==
    /\ root \in DOMAIN d /\ d[root] = NoNode
    /\ \A n \in DOMAIN d \ {root} : d[n] \in DOMAIN d
    /\ \A n \in DOMAIN d : ReachesRoot(d, root, n)

\* Tree.Path and pathToNode: from the root down to n.
PathTo(d, n) ==
    LET depth == CHOOSE k \in 0..Cardinality(DOMAIN d) : Climb(d, n)[k] = RootOf(d)
    IN [i \in 1..(depth + 1) |-> Climb(d, n)[depth + 1 - i]]

\* sanitizePath: the longest prefix of p that descends from the root of d.
SanitizePath(d, p) ==
    LET root == RootOf(d)
        rest == IF p # <<>> /\ Head(p) = root THEN Tail(p) ELSE p
        Descends(k) == \A i \in 1..k :
            rest[i] \in DOMAIN d /\ d[rest[i]] = (IF i = 1 THEN root ELSE rest[i - 1])
    IN <<root>> \o SubSeq(rest, 1, Max({k \in 0..Len(rest) : Descends(k)}))

\* selectPathNode: node n of the row below the path's element i.
SelectPathNode(d, p, i, n) ==
    LET path == SanitizePath(d, p)
    IN IF i \in DOMAIN path /\ n \in ChildrenOf(d, path[i])
       THEN Append(SubSeq(path, 1, i), n) ELSE path

\* A tree by definition: there is one node from which each node is reached by
\* going down in exactly one way.
IsTree(d) ==
    \E r \in DOMAIN d :
        /\ \A n \in DOMAIN d \ {r} : d[n] \in DOMAIN d
        /\ d[r] = NoNode
        /\ \A S \in SUBSET DOMAIN d :
             r \in S /\ (\A n \in DOMAIN d : d[n] \in S => n \in S) => S = DOMAIN d
=============================================================================
