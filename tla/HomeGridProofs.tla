--------------------------- MODULE HomeGridProofs ---------------------------
(***************************************************************************)
(* Proofs about Hierarchy and HomeGrid, for any nodes, hierarchy files and *)
(* workspaces.                                                             *)
(***************************************************************************)
EXTENDS HomeGrid, FiniteSetTheorems, WellFoundedInduction, SequenceTheorems, TLAPS

-----------------------------------------------------------------------------
(***************************************************************************)
(* Numbers                                                                 *)
(***************************************************************************)

\* The order on the naturals as a set of pairs.
LEMMA LessThanPairs == \A x, y \in Nat : x < y => <<x, y>> \in OpToRel(<, Nat)
BY DEF OpToRel

LEMMA LeastExists ==
    ASSUME NEW S, S \subseteq Nat, S # {}
    PROVE  \E k \in S : \A q \in S : k <= q
<1>1. PICK k \in S : \A q \in S : ~(<<q, k>> \in OpToRel(<, Nat))
  BY NatLessThanWellFounded, WFMin
<1>2. ASSUME NEW q \in S PROVE k <= q
  <2>1. ~(q < k)
    BY <1>1, LessThanPairs
  <2>2. QED
    BY <2>1
<1>3. QED
  BY <1>2

LEMMA LargestExists ==
    ASSUME NEW n \in Nat, NEW S, S \subseteq 0..n, S # {}
    PROVE  Max(S) \in S /\ \A q \in S : q <= Max(S)
<1> DEFINE T == {n - q : q \in S}
<1>1. T \subseteq Nat /\ T # {}
  <2>1. \A q \in S : n - q \in Nat
    OBVIOUS
  <2>2. PICK q \in S : TRUE
    OBVIOUS
  <2>3. n - q \in T
    BY <2>2
  <2>4. QED
    BY <2>1, <2>3
<1>2. PICK k \in T : \A t \in T : k <= t
  BY <1>1, LeastExists
<1>3. PICK m \in S : k = n - m
  OBVIOUS
<1>4. \A q \in S : m >= q
  <2> SUFFICES ASSUME NEW q \in S PROVE m >= q
    OBVIOUS
  <2>1. k <= n - q
    BY <1>2
  <2>2. QED
    BY <1>3, <2>1
<1>5. QED
  BY <1>4 DEF Max

-----------------------------------------------------------------------------
(***************************************************************************)
(* The hierarchy                                                           *)
(***************************************************************************)

\* A document: its nodes, and what their parent fields hold.
LEMMA DocumentShape ==
    ASSUME NEW d \in Documents
    PROVE  /\ DOMAIN d \subseteq Nodes /\ IsFiniteSet(DOMAIN d)
           /\ Cardinality(DOMAIN d) \in Nat /\ NoNode \notin DOMAIN d
           /\ \A n \in DOMAIN d : d[n] \in Nodes \cup {NoNode}
<1>1. PICK S \in SUBSET Nodes : d \in [S -> Nodes \cup {NoNode}]
  BY DEF Documents
<1>2. IsFiniteSet(S)
  BY NodesAssumption, FS_Subset
<1>3. QED
  BY <1>1, <1>2, FS_CardinalityType, NodesAssumption

\* Climb is defined by recursion: a function with that recursion exists for every
\* number of steps, or there were a least number for which it does not.
LEMMA ClimbDef ==
    ASSUME NEW d \in Documents, NEW n
    PROVE  /\ Climb(d, n)[0] = n
           /\ \A k \in 1..Cardinality(DOMAIN d) : Climb(d, n)[k] =
                IF Climb(d, n)[k - 1] \in DOMAIN d THEN d[Climb(d, n)[k - 1]] ELSE NoNode
<1> DEFINE K == Cardinality(DOMAIN d)
           climbs(f, j) == [k \in 0..j |->
                              IF k = 0 THEN n
                              ELSE IF f[k - 1] \in DOMAIN d THEN d[f[k - 1]] ELSE NoNode]
           bad == {j \in Nat : ~\E f : f = climbs(f, j)}
<1>1. bad = {}
  <2> SUFFICES ASSUME bad # {} PROVE FALSE
    OBVIOUS
  <2>1. PICK j \in bad : \A q \in bad : j <= q
    BY LeastExists
  <2>2. CASE j = 0
    <3> DEFINE f == [k \in 0..0 |-> n]
    <3>1. f = climbs(f, 0)
      OBVIOUS
    <3>2. QED
      BY <2>1, <2>2, <3>1
  <2>3. CASE j # 0
    <3>1. j \in Nat /\ j - 1 \in Nat /\ j - 1 \notin bad
      BY <2>1, <2>3
    <3>2. PICK f : f = climbs(f, j - 1)
      BY <3>1
    <3> DEFINE g == [k \in 0..j |->
                       IF k < j THEN f[k]
                       ELSE IF f[j - 1] \in DOMAIN d THEN d[f[j - 1]] ELSE NoNode]
    <3>3. \A k \in 0..(j - 1) : f[k] = IF k = 0 THEN n
              ELSE IF f[k - 1] \in DOMAIN d THEN d[f[k - 1]] ELSE NoNode
      BY <3>1, <3>2
    <3>4. \A k \in 0..j : g[k] = IF k = 0 THEN n
              ELSE IF g[k - 1] \in DOMAIN d THEN d[g[k - 1]] ELSE NoNode
      <4> SUFFICES ASSUME NEW k \in 0..j
                   PROVE  g[k] = IF k = 0 THEN n
                                 ELSE IF g[k - 1] \in DOMAIN d THEN d[g[k - 1]] ELSE NoNode
        OBVIOUS
      <4>1. CASE k < j
        BY <3>1, <3>3, <4>1
      <4>2. CASE k = j
        BY <2>3, <3>1, <4>2
      <4>3. QED
        BY <3>1, <4>1, <4>2
    <3>5. g = climbs(g, j)
      BY <3>4
    <3>6. QED
      BY <2>1, <3>5
  <2>4. QED
    BY <2>2, <2>3
<1>2. K \in Nat
  BY DocumentShape
<1>3. PICK f : f = climbs(f, K)
  BY <1>1, <1>2
<1>4. Climb(d, n) = CHOOSE c : c = climbs(c, K)
  BY DEF Climb
<1>5. Climb(d, n) = climbs(Climb(d, n), K)
  BY <1>3, <1>4
<1> HIDE DEF bad
<1>6. QED
  BY <1>2, <1>5

\* A tree as either side accepts it: the root has no parent, every other node has
\* one, and every node reaches the root.
GoodTree(d) ==
    /\ d \in Documents /\ RootOf(d) \in DOMAIN d /\ d[RootOf(d)] = NoNode
    /\ \A n \in DOMAIN d \ {RootOf(d)} : d[n] \in DOMAIN d
    /\ \A n \in DOMAIN d : ReachesRoot(d, RootOf(d), n)

LEMMA ShellAcceptsGood ==
    ASSUME NEW d \in Documents, BuildTreeModel(d, RootOf(d))
    PROVE  GoodTree(d)
BY DEF BuildTreeModel, GoodTree

LEMMA DaemonAcceptsGood ==
    ASSUME NEW d \in Documents, NewTree(d)
    PROVE  GoodTree(d)
<1>1. PICK r : ChildrenOf(d, NoNode) = {r}
  <2>1. IsFiniteSet(ChildrenOf(d, NoNode))
    BY DocumentShape, FS_Subset DEF ChildrenOf
  <2>2. QED
    BY <2>1, FS_Singleton DEF NewTree
<1>2. r \in DOMAIN d /\ d[r] = NoNode /\ \A n \in DOMAIN d : d[n] = NoNode => n = r
  BY <1>1 DEF ChildrenOf
<1>3. RootOf(d) = r
  BY <1>2 DEF RootOf
<1>4. QED
  BY <1>1, <1>2, <1>3 DEF NewTree, GoodTree

\* On the way up, a step that leaves the tree never returns.
LEMMA ClimbStays ==
    ASSUME NEW d \in Documents, NEW n,
           NEW k \in 0..Cardinality(DOMAIN d), Climb(d, n)[k] \in DOMAIN d,
           NEW j \in 0..k
    PROVE  Climb(d, n)[j] \in DOMAIN d
<1> DEFINE K == Cardinality(DOMAIN d)
           later == {i \in Nat : j < i /\ i <= k /\ Climb(d, n)[i] \in DOMAIN d}
<1>0. K \in Nat /\ NoNode \notin DOMAIN d
  BY DocumentShape
<1>1. SUFFICES ASSUME Climb(d, n)[j] \notin DOMAIN d PROVE FALSE
  OBVIOUS
<1>2. k \in later
  <2>1. j # k
    BY <1>1
  <2>2. QED
    BY <1>0, <2>1
<1>3. PICK i \in later : \A q \in later : i <= q
  BY <1>2, LeastExists
<1>4. i - 1 \notin later /\ i \in 1..K /\ i - 1 \in Nat /\ i <= k /\ j <= i - 1
  BY <1>0, <1>3
<1>5. Climb(d, n)[i - 1] \notin DOMAIN d
  BY <1>1, <1>4
<1>6. Climb(d, n)[i] = NoNode
  BY <1>4, <1>5, ClimbDef
<1>7. QED
  BY <1>0, <1>3, <1>6

\* The tests of both sides, which follow parents, accept only trees: whatever holds
\* of the root and of the children of a node of which it holds, holds of all.
LEMMA GoodIsTree ==
    ASSUME NEW d, GoodTree(d)
    PROVE  IsTree(d)
<1> DEFINE r == RootOf(d)
           K == Cardinality(DOMAIN d)
<1>1. d \in Documents /\ r \in DOMAIN d /\ d[r] = NoNode
      /\ \A n \in DOMAIN d \ {r} : d[n] \in DOMAIN d
  BY DEF GoodTree
<1>2. K \in Nat /\ NoNode \notin DOMAIN d
  BY <1>1, DocumentShape
<1>3. ASSUME NEW S \in SUBSET DOMAIN d, r \in S,
             \A n \in DOMAIN d : d[n] \in S => n \in S,
             NEW n \in DOMAIN d
      PROVE  n \in S
  <2> DEFINE reached == {j \in 0..K : Climb(d, n)[j] \in S}
  <2>1. PICK k \in 0..K : Climb(d, n)[k] = r
    BY DEF GoodTree, ReachesRoot
  <2>2. PICK j \in reached : \A q \in reached : j <= q
    <3>1. reached \subseteq Nat /\ k \in reached
      BY <1>2, <1>3, <2>1
    <3> HIDE DEF reached
    <3>2. QED
      BY <3>1, LeastExists
  <2>3. CASE j = 0
    BY <1>1, <2>2, <2>3, ClimbDef
  <2>4. CASE j # 0
    <3>1. j \in 1..K /\ j - 1 \in 0..K /\ j - 1 \notin reached
      BY <1>2, <2>2, <2>4
    <3>2. Climb(d, n)[j] =
            IF Climb(d, n)[j - 1] \in DOMAIN d THEN d[Climb(d, n)[j - 1]] ELSE NoNode
      BY <1>1, <3>1, ClimbDef
    <3>3. Climb(d, n)[j] \in S /\ Climb(d, n)[j] # NoNode
      BY <1>2, <1>3, <2>2
    <3>4. Climb(d, n)[j - 1] \in DOMAIN d /\ d[Climb(d, n)[j - 1]] \in S
      BY <3>2, <3>3
    <3>5. QED
      BY <1>3, <3>1, <3>4
  <2>5. QED
    BY <2>3, <2>4
<1>4. \A S \in SUBSET DOMAIN d :
        r \in S /\ (\A n \in DOMAIN d : d[n] \in S => n \in S) => S = DOMAIN d
  BY <1>3
<1>5. QED
  BY <1>1, <1>4 DEF IsTree

\* Climbing from a node is one step to its parent and climbing from there.
LEMMA ClimbFromParent ==
    ASSUME NEW d \in Documents, NEW n \in DOMAIN d,
           NEW j \in Nat, j < Cardinality(DOMAIN d)
    PROVE  Climb(d, n)[j + 1] = Climb(d, d[n])[j]
<1> DEFINE K == Cardinality(DOMAIN d)
           c == Climb(d, n)
           b == Climb(d, d[n])
           bad == {i \in Nat : i < K /\ c[i + 1] # b[i]}
<1>1. K \in Nat
  BY DocumentShape
<1>2. /\ c[0] = n /\ b[0] = d[n]
      /\ \A k \in 1..K : c[k] = IF c[k - 1] \in DOMAIN d THEN d[c[k - 1]] ELSE NoNode
      /\ \A k \in 1..K : b[k] = IF b[k - 1] \in DOMAIN d THEN d[b[k - 1]] ELSE NoNode
  BY ClimbDef
<1> HIDE DEF c, b, K
<1>3. SUFFICES ASSUME bad # {} PROVE FALSE
  BY DEF c, b, K
<1>4. PICK i \in bad : \A q \in bad : i <= q
  <2>1. bad \subseteq Nat
    OBVIOUS
  <2> HIDE DEF bad
  <2>2. QED
    BY <1>3, <2>1, LeastExists
<1>5. i + 1 \in 1..K /\ i + 1 - 1 = i
  BY <1>1, <1>4
<1>6. CASE i = 0
  <2>1. c[1] = d[n]
    BY <1>2, <1>5, <1>6
  <2>2. QED
    BY <1>2, <1>4, <1>6, <2>1
<1>7. CASE i # 0
  <2>1. i \in 1..K /\ i - 1 \in Nat /\ i - 1 < K /\ i - 1 + 1 = i /\ i - 1 \notin bad
    BY <1>1, <1>4, <1>7
  <2>2. c[i] = b[i - 1]
    BY <2>1
  <2>3. c[i + 1] = b[i]
    BY <1>2, <1>5, <2>1, <2>2
  <2>4. QED
    BY <1>4, <2>3
<1>8. QED
  BY <1>6, <1>7

\* T is the way from n up to r, as a set: n is the child of no other in it.
WayUp(d, r, T, n) ==
    /\ T \subseteq DOMAIN d /\ n \in T /\ r \in T
    /\ \A m \in T \ {r} : d[m] \in T \ {n}
    /\ Climb(d, n)[Cardinality(T) - 1] = r

\* The test passes on every tree: no way up is longer than there are nodes.
LEMMA TreeIsGood ==
    ASSUME NEW d \in Documents, IsTree(d)
    PROVE  GoodTree(d)
<1> DEFINE K == Cardinality(DOMAIN d)
<1>1. PICK r \in DOMAIN d :
        /\ \A n \in DOMAIN d \ {r} : d[n] \in DOMAIN d
        /\ d[r] = NoNode
        /\ \A S \in SUBSET DOMAIN d :
             r \in S /\ (\A n \in DOMAIN d : d[n] \in S => n \in S) => S = DOMAIN d
  BY DEF IsTree
<1>2. K \in Nat /\ IsFiniteSet(DOMAIN d) /\ NoNode \notin DOMAIN d
  BY DocumentShape
<1>3. RootOf(d) = r
  BY <1>1, <1>2 DEF RootOf
<1> DEFINE climbed == {n \in DOMAIN d : \E T : WayUp(d, r, T, n)}
<1>4. r \in climbed
  <2>1. Cardinality({r}) = 1
    BY FS_Singleton
  <2>2. Climb(d, r)[0] = r
    BY ClimbDef
  <2>3. WayUp(d, r, {r}, r)
    BY <1>1, <2>1, <2>2 DEF WayUp
  <2>4. QED
    BY <2>3
<1>5. ASSUME NEW n \in DOMAIN d, d[n] \in climbed
      PROVE  n \in climbed
  <2>1. PICK T : WayUp(d, r, T, d[n])
    BY <1>5
  <2>2. n # r
    BY <1>1, <1>2, <1>5
  <2>3. n \notin T
    BY <2>1, <2>2 DEF WayUp
  <2>4. /\ IsFiniteSet(T) /\ Cardinality(T) \in Nat /\ Cardinality(T) # 0
        /\ Cardinality(T \cup {n}) = Cardinality(T) + 1
    <3>1. IsFiniteSet(T) /\ T # {}
      BY <1>2, <2>1, FS_Subset DEF WayUp
    <3>2. QED
      BY <2>3, <3>1, FS_AddElement, FS_CardinalityType, FS_EmptySet
  <2>5. Cardinality(T \cup {n}) <= K
    <3>1. T \cup {n} \subseteq DOMAIN d
      BY <2>1 DEF WayUp
    <3>2. QED
      BY <1>2, <3>1, FS_Subset
  <2>6. Climb(d, n)[Cardinality(T)] = r
    <3>1. Cardinality(T) - 1 \in Nat /\ Cardinality(T) - 1 < K
      BY <1>2, <2>4, <2>5
    <3>2. Climb(d, n)[Cardinality(T) - 1 + 1] = Climb(d, d[n])[Cardinality(T) - 1]
      BY <3>1, ClimbFromParent
    <3>3. Cardinality(T) - 1 + 1 = Cardinality(T)
      BY <2>4
    <3>4. QED
      BY <2>1, <3>2, <3>3 DEF WayUp
  <2>7. Climb(d, n)[Cardinality(T \cup {n}) - 1] = r
    <3>1. Cardinality(T \cup {n}) - 1 = Cardinality(T)
      BY <2>4
    <3>2. QED
      BY <2>6, <3>1
  <2>8. WayUp(d, r, T \cup {n}, n)
    BY <2>1, <2>2, <2>3, <2>7 DEF WayUp
  <2>9. QED
    BY <2>8
<1> HIDE DEF climbed
<1>6. climbed = DOMAIN d
  BY <1>1, <1>4, <1>5 DEF climbed
<1>7. ASSUME NEW n \in DOMAIN d
      PROVE  ReachesRoot(d, r, n)
  <2>1. PICK T : WayUp(d, r, T, n)
    BY <1>6, <1>7 DEF climbed
  <2>2. IsFiniteSet(T) /\ Cardinality(T) \in Nat /\ Cardinality(T) <= K /\ T # {}
    BY <1>2, <2>1, FS_Subset, FS_CardinalityType DEF WayUp
  <2>3. Cardinality(T) - 1 \in 0..K
    BY <1>2, <2>2, FS_EmptySet
  <2>4. QED
    BY <1>1, <2>1, <2>3 DEF WayUp, ReachesRoot
<1>8. QED
  BY <1>1, <1>3, <1>7 DEF GoodTree

\* The two readers of a hierarchy agree: what NewTree compiles, buildTreeModel shows,
\* and the reverse, although one counts roots and the other is told the root; and
\* they accept the trees, all of them and nothing else, although they climb no more
\* steps than there are nodes.
THEOREM AcceptedAlike ==
    ASSUME NEW d \in Documents
    PROVE  /\ NewTree(d) <=> BuildTreeModel(d, RootOf(d))
           /\ NewTree(d) <=> IsTree(d)
<1>1. NewTree(d) => GoodTree(d)
  BY DaemonAcceptsGood
<1>2. BuildTreeModel(d, RootOf(d)) <=> GoodTree(d)
  BY DEF BuildTreeModel, GoodTree
<1>3. ASSUME GoodTree(d) PROVE NewTree(d)
  <2>1. NoNode \notin DOMAIN d
    BY DocumentShape
  <2>2. ChildrenOf(d, NoNode) = {RootOf(d)}
    BY <1>3, <2>1 DEF GoodTree, ChildrenOf
  <2>3. Cardinality(ChildrenOf(d, NoNode)) = 1
    BY <2>2, FS_Singleton
  <2>4. QED
    BY <1>3, <2>2, <2>3 DEF GoodTree, NewTree
<1>4. QED
  BY <1>1, <1>2, <1>3, GoodIsTree, TreeIsGood

\* The way from the root down to a node.
IsPath(d, p) ==
    /\ p \in Seq(DOMAIN d) /\ p # <<>> /\ p[1] = RootOf(d)
    /\ \A i \in 2..Len(p) : d[p[i]] = p[i - 1]

\* There is one way to a node: the one that climbing finds.
LEMMA PathIsUnique ==
    ASSUME NEW d, GoodTree(d), NEW p, IsPath(d, p)
    PROVE  Last(p) \in DOMAIN d /\ p = PathTo(d, Last(p))
<1> DEFINE n == Last(p)
           r == RootOf(d)
           L == Len(p)
           K == Cardinality(DOMAIN d)
           c == Climb(d, n)
<1>1. /\ d \in Documents /\ r \in DOMAIN d /\ d[r] = NoNode
      /\ K \in Nat /\ NoNode \notin DOMAIN d
  BY DocumentShape DEF GoodTree
<1>2. L \in Nat \ {0} /\ p[L] = n /\ \A i \in 1..L : p[i] \in DOMAIN d
  BY DEF IsPath, Last
<1>3. \A j \in 0..(L - 1) : j <= K => c[j] = p[L - j]
  <2> DEFINE bad == {j \in 0..(L - 1) : j <= K /\ c[j] # p[L - j]}
  <2>1. SUFFICES ASSUME bad # {} PROVE FALSE
    OBVIOUS
  <2>2. bad \subseteq Nat
    BY <1>2
  <2>3. PICK j \in bad : \A q \in bad : j <= q
    <3> HIDE DEF bad
    <3>1. QED
      BY <2>1, <2>2, LeastExists
  <2>4. j # 0
    BY <1>1, <1>2, <2>3, ClimbDef
  <2>5. j \in 1..K /\ j - 1 \in 0..(L - 1) /\ j - 1 <= K /\ j - 1 \notin bad
    BY <1>1, <1>2, <2>3, <2>4
  <2>6. c[j - 1] = p[L - (j - 1)]
    BY <2>5
  <2>7. L - (j - 1) \in 2..L /\ L - (j - 1) - 1 = L - j
    BY <1>2, <2>3, <2>5
  <2>8. c[j - 1] \in DOMAIN d /\ d[c[j - 1]] = p[L - j]
    <3>1. \A i \in 2..L : p[i] \in DOMAIN d /\ d[p[i]] = p[i - 1]
      BY <1>2 DEF IsPath
    <3> HIDE DEF c, L, n
    <3>2. QED
      BY <2>6, <2>7, <3>1
  <2>9. c[j] = p[L - j]
    BY <1>1, <2>5, <2>8, ClimbDef
  <2>10. QED
    BY <2>3, <2>9
<1>4. ASSUME NEW k \in 0..K, c[k] = r PROVE k = L - 1
  <2>1. CASE k < L - 1
    <3>1. k \in 0..(L - 1) /\ L - k \in 2..L /\ L - k - 1 \in 1..L /\ k <= K
      BY <1>1, <1>2, <2>1
    <3>2. r = p[L - k]
      BY <1>3, <1>4, <3>1
    <3>3. d[r] = p[L - k - 1]
      BY <3>1, <3>2 DEF IsPath
    <3>4. QED
      BY <1>1, <1>2, <3>1, <3>3
  <2>2. CASE L - 1 < k
    <3>1. L - 1 \in 0..(L - 1) /\ L - 1 <= K /\ L \in 1..K /\ L \in 0..k /\ L - (L - 1) = 1
      BY <1>1, <1>2, <2>2
    <3>2. c[L - 1] = r
      BY <1>3, <3>1 DEF IsPath
    <3>3. c[L] = NoNode
      BY <1>1, <3>1, <3>2, ClimbDef
    <3>4. c[L] \in DOMAIN d
      BY <1>1, <1>4, <3>1, ClimbStays
    <3>5. QED
      BY <1>1, <3>3, <3>4
  <2>3. QED
    BY <1>1, <1>2, <2>1, <2>2
<1>5. n \in DOMAIN d
  BY <1>2
<1>6. \E k \in 0..K : c[k] = r
  BY <1>5 DEF GoodTree, ReachesRoot
<1> DEFINE depth == CHOOSE k \in 0..K : c[k] = r
<1>7. depth = L - 1
  BY <1>4, <1>6
<1>8. PathTo(d, n) = [i \in 1..(L - 1 + 1) |-> c[L - 1 + 1 - i]]
  <2>1. PathTo(d, n) = [i \in 1..(depth + 1) |-> c[depth + 1 - i]]
    BY DEF PathTo
  <2> HIDE DEF depth, c, L, K, r, n
  <2>2. QED
    BY <1>7, <2>1
<1>9. L - 1 \in 0..K
  BY <1>4, <1>6
<1>10. L - 1 + 1 = L /\ \A i \in 1..L : L - i \in 0..(L - 1) /\ L - i <= K /\ L - (L - i) = i
  BY <1>1, <1>2, <1>9
<1>11. \A i \in 1..L : c[L - i] = p[i]
  <2> HIDE DEF L, c, K, n
  <2>1. QED
    BY <1>3, <1>10
<1>12. PathTo(d, n) = [i \in 1..L |-> p[i]]
  BY <1>8, <1>10, <1>11
<1>13. p = [i \in 1..L |-> p[i]]
  BY DEF IsPath
<1>14. QED
  BY <1>5, <1>12, <1>13

\* The path of a search result consists of nodes.
LEMMA PathToTyped ==
    ASSUME NEW d, GoodTree(d), NEW n \in DOMAIN d
    PROVE  PathTo(d, n) \in Seq(Nodes)
<1> DEFINE K == Cardinality(DOMAIN d)
           k == CHOOSE k \in 0..K : Climb(d, n)[k] = RootOf(d)
<1>1. d \in Documents /\ K \in Nat /\ DOMAIN d \subseteq Nodes /\ RootOf(d) \in DOMAIN d
  BY DocumentShape DEF GoodTree
<1>2. \E j \in 0..K : Climb(d, n)[j] = RootOf(d)
  BY DEF GoodTree, ReachesRoot
<1>3. k \in 0..K /\ Climb(d, n)[k] = RootOf(d)
  BY <1>2
<1>4. PathTo(d, n) = [i \in 1..(k + 1) |-> Climb(d, n)[k + 1 - i]]
  BY DEF PathTo
<1> HIDE DEF k
<1>5. ASSUME NEW i \in 1..(k + 1) PROVE Climb(d, n)[k + 1 - i] \in Nodes
  <2>1. k + 1 - i \in 0..k
    BY <1>1, <1>3
  <2>2. QED
    BY <1>1, <1>3, <2>1, ClimbStays
<1>6. k + 1 \in Nat
  BY <1>1, <1>3
<1>7. [i \in 1..(k + 1) |-> Climb(d, n)[k + 1 - i]] \in [1..(k + 1) -> Nodes]
  BY <1>5
<1>8. QED
  BY <1>4, <1>6, <1>7

LEMMA PrefixIsPath ==
    ASSUME NEW d, NEW p, IsPath(d, p), NEW i \in 1..Len(p)
    PROVE  IsPath(d, SubSeq(p, 1, i)) /\ Last(SubSeq(p, 1, i)) = p[i]
<1> DEFINE q == SubSeq(p, 1, i)
<1>1. p \in Seq(DOMAIN d) /\ i \in Nat /\ 1 <= i /\ i <= Len(p)
  BY DEF IsPath
<1>2. q \in Seq(DOMAIN d) /\ Len(q) = i /\ \A j \in 1..i : q[j] = p[j]
  BY <1>1
<1> HIDE DEF q
<1>3. q # <<>> /\ q[1] = RootOf(d)
  BY <1>1, <1>2 DEF IsPath
<1>4. \A j \in 2..i : q[j] = p[j] /\ q[j - 1] = p[j - 1] /\ j \in 2..Len(p)
  BY <1>1, <1>2
<1>5. \A j \in 2..Len(q) : d[q[j]] = q[j - 1]
  BY <1>2, <1>4 DEF IsPath
<1>6. IsPath(d, q) /\ Last(q) = p[i]
  BY <1>1, <1>2, <1>3, <1>5 DEF IsPath, Last
<1>7. QED
  BY <1>6 DEF q

LEMMA ExtendIsPath ==
    ASSUME NEW d, NEW p, IsPath(d, p), NEW n \in DOMAIN d, d[n] = Last(p)
    PROVE  IsPath(d, Append(p, n))
<1> DEFINE q == Append(p, n)
<1>1. p \in Seq(DOMAIN d) /\ Len(p) \in Nat \ {0}
  BY DEF IsPath
<1>2. /\ q \in Seq(DOMAIN d) /\ Len(q) = Len(p) + 1
      /\ \A j \in 1..Len(p) : q[j] = p[j] /\ q[Len(p) + 1] = n
  BY <1>1
<1> HIDE DEF q
<1>3. q # <<>> /\ q[1] = RootOf(d)
  BY <1>1, <1>2 DEF IsPath
<1>4. ASSUME NEW j \in 2..Len(q) PROVE d[q[j]] = q[j - 1]
  <2>1. CASE j \in 2..Len(p)
    BY <1>1, <1>2, <2>1 DEF IsPath
  <2>2. CASE j = Len(p) + 1
    BY <1>1, <1>2, <2>2 DEF Last
  <2>3. QED
    BY <1>1, <1>2, <2>1, <2>2
<1>5. IsPath(d, q)
  BY <1>2, <1>3, <1>4 DEF IsPath
<1>6. QED
  BY <1>5 DEF q

\* sanitizePath makes a path of the new tree from whatever was shown before.
LEMMA SanitizeIsPath ==
    ASSUME NEW d, GoodTree(d), NEW p \in Seq(Nodes)
    PROVE  IsPath(d, SanitizePath(d, p))
<1> DEFINE root == RootOf(d)
           rest == IF p # <<>> /\ Head(p) = root THEN Tail(p) ELSE p
           Descends(k) == \A i \in 1..k :
               rest[i] \in DOMAIN d /\ d[rest[i]] = (IF i = 1 THEN root ELSE rest[i - 1])
           fits == {k \in 0..Len(rest) : Descends(k)}
           m == Max(fits)
           q == <<root>> \o SubSeq(rest, 1, m)
<1>1. SanitizePath(d, p) = q
  BY DEF SanitizePath
<1>2. root \in DOMAIN d
  BY DEF GoodTree
<1>3. rest \in Seq(Nodes)
  <2>1. p # <<>> => Tail(p) \in Seq(Nodes)
    OBVIOUS
  <2>2. QED
    BY <2>1
<1> HIDE DEF rest, root
<1>4. m \in fits
  <2>1. Len(rest) \in Nat /\ fits \subseteq 0..Len(rest) /\ 0 \in fits
    BY <1>3
  <2> HIDE DEF fits
  <2>2. QED
    BY <2>1, LargestExists
<1>5. m \in Nat /\ m <= Len(rest) /\ Descends(m)
  BY <1>3, <1>4
<1> HIDE DEF m, fits
<1>6. /\ SubSeq(rest, 1, m) \in Seq(DOMAIN d) /\ Len(SubSeq(rest, 1, m)) = m
      /\ \A i \in 1..m : SubSeq(rest, 1, m)[i] = rest[i]
  <2>1. \A i \in 1..m : rest[i] \in DOMAIN d
    BY <1>5
  <2>2. QED
    BY <1>5, <2>1, SubSeqProperties
<1>7. <<root>> \in Seq(DOMAIN d) /\ Len(<<root>>) = 1 /\ <<root>>[1] = root
  BY <1>2
<1>8. /\ q \in Seq(DOMAIN d) /\ Len(q) = 1 + m
      /\ \A i \in 1..(1 + m) : q[i] = IF i <= 1 THEN <<root>>[i]
                                      ELSE SubSeq(rest, 1, m)[i - 1]
  BY <1>6, <1>7, ConcatProperties
<1> HIDE DEF q
<1>9. q[1] = root /\ \A i \in 2..(1 + m) : q[i] = rest[i - 1]
  BY <1>5, <1>6, <1>7, <1>8
<1>10. ASSUME NEW i \in 2..Len(q) PROVE d[q[i]] = q[i - 1]
  <2>1. i - 1 \in 1..m /\ i \in 2..(1 + m) /\ q[i] = rest[i - 1]
    BY <1>5, <1>8, <1>9
  <2>2. d[rest[i - 1]] = (IF i - 1 = 1 THEN root ELSE rest[i - 1 - 1])
    BY <1>5, <2>1
  <2>3. CASE i = 2
    BY <1>9, <2>1, <2>2, <2>3
  <2>4. CASE i # 2
    <3>1. i - 1 \in 2..(1 + m) /\ i - 1 # 1
      BY <1>5, <2>1, <2>4
    <3>2. QED
      BY <1>9, <2>1, <2>2, <3>1
  <2>5. QED
    BY <2>3, <2>4
<1>11. QED
  BY <1>1, <1>5, <1>8, <1>9, <1>10 DEF IsPath, root

LEMMA SelectIsPath ==
    ASSUME NEW d, GoodTree(d), NEW p \in Seq(Nodes), NEW i, NEW n
    PROVE  IsPath(d, SelectPathNode(d, p, i, n))
<1> DEFINE q == SanitizePath(d, p)
<1>1. IsPath(d, q)
  BY SanitizeIsPath
<1> HIDE DEF q
<1>2. CASE i \in DOMAIN q /\ n \in ChildrenOf(d, q[i])
  <2>1. i \in 1..Len(q) /\ n \in DOMAIN d /\ d[n] = q[i]
    BY <1>1, <1>2 DEF IsPath, ChildrenOf
  <2>2. IsPath(d, SubSeq(q, 1, i)) /\ Last(SubSeq(q, 1, i)) = q[i]
    BY <1>1, <2>1, PrefixIsPath
  <2>3. IsPath(d, Append(SubSeq(q, 1, i), n))
    BY <2>1, <2>2, ExtendIsPath
  <2>4. QED
    BY <1>2, <2>3 DEF SelectPathNode, q
<1>3. CASE ~(i \in DOMAIN q /\ n \in ChildrenOf(d, q[i]))
  BY <1>1, <1>3 DEF SelectPathNode, q
<1>4. QED
  BY <1>2, <1>3

-----------------------------------------------------------------------------
(***************************************************************************)
(* The path shown                                                          *)
(***************************************************************************)

\* The daemon's hierarchy and the one shown were accepted, and the path is a way in
\* the latter.
PathInv ==
    /\ GoodTree(tree)
    /\ model = Absent => path = <<>>
    /\ model # Absent => GoodTree(model) /\ IsPath(model, path)

LEMMA PathTyped ==
    ASSUME NEW m, NEW p, p = <<>> \/ (GoodTree(m) /\ IsPath(m, p))
    PROVE  p \in Seq(Nodes)
<1>1. CASE p = <<>>
  <2>1. <<>> \in Seq(Nodes)
    OBVIOUS
  <2>2. QED
    BY <1>1, <2>1
<1>2. CASE GoodTree(m) /\ IsPath(m, p)
  <2>1. p \in Seq(DOMAIN m) /\ DOMAIN m \subseteq Nodes
    BY <1>2, DocumentShape DEF GoodTree, IsPath
  <2>2. QED
    BY <2>1
<1>3. QED
  BY <1>1, <1>2

\* A read's callback leaves a good tree and a way in it.
LEMMA AnswerPath ==
    ASSUME TypeOK, PathInv, NEW k \in Kinds, Answer(k)
    PROVE  PathInv'
<1>0. path \in Seq(Nodes)
  BY PathTyped DEF PathInv
<1>1. PICK i \in DOMAIN calls[k] :
        LET data == calls[k][i].data IN
           \/ data = Absent /\ UNCHANGED <<model, states, path>>
           \/ data # Absent /\ k = "tree" /\ ShowTree(data) /\ UNCHANGED states
           \/ data # Absent /\ k = "states" /\ states' = data /\ UNCHANGED <<model, path>>
  BY DEF Answer
<1>2. UNCHANGED tree
  BY DEF Answer, daemon
<1>3. CASE UNCHANGED <<model, path>>
  BY <1>2, <1>3 DEF PathInv
<1>4. CASE k = "tree" /\ calls[k][i].data # Absent /\ ShowTree(calls[k][i].data)
  <2> DEFINE d == calls[k][i].data
  <2>1. d \in Files
    <3>1. calls["tree"] \in Seq(TreeReads)
      BY DEF TypeOK
    <3>2. calls[k][i] \in TreeReads
      BY <1>1, <1>4, <3>1
    <3>3. QED
      BY <1>4, <3>2 DEF TreeReads
  <2>2. d \in Documents /\ d # Absent
    BY <1>4, <2>1, HomeGridAssumption
  <2> HIDE DEF d
  <2>3. CASE BuildTreeModel(d, RootOf(d))
    <3>1. GoodTree(d)
      BY <2>2, <2>3, ShellAcceptsGood
    <3>2. model' = d /\ path' = SanitizePath(d, path)
      BY <1>4, <2>3 DEF ShowTree, d
    <3>3. IsPath(d, SanitizePath(d, path))
      BY <3>1, <1>0, SanitizeIsPath
    <3>4. QED
      BY <1>2, <2>2, <3>1, <3>2, <3>3 DEF PathInv
  <2>4. CASE ~BuildTreeModel(d, RootOf(d))
    BY <1>2, <1>4, <2>4 DEF ShowTree, PathInv, d
  <2>5. QED
    BY <2>3, <2>4
<1>5. QED
  BY <1>1, <1>3, <1>4

LEMMA PathStep == TypeOK /\ PathInv /\ [Next]_vars => PathInv'
<1> SUFFICES ASSUME TypeOK, PathInv, [Next]_vars PROVE PathInv'
  OBVIOUS
<1> USE DEF daemon, wire, view, user, history
<1>0. path \in Seq(Nodes)
  BY PathTyped DEF PathInv
<1>1. CASE UNCHANGED <<tree, model, path>>
  BY <1>1 DEF PathInv
<1>2. CASE OwnerLost
  BY <1>2 DEF OwnerLost, PathInv
<1>3. ASSUME NEW k \in Kinds, ClientStep(k) PROVE PathInv'
  <2>1. CASE Answer(k)
    BY <2>1, AnswerPath
  <2>2. CASE Signal(k) \/ Fire(k) \/ Reading(k)
    <3>1. UNCHANGED <<tree, model, path>>
      BY <2>2 DEF Signal, Fire, Reading, ServeTree, ServeState
    <3>2. QED
      BY <3>1 DEF PathInv
  <2>3. QED
    BY <1>3, <2>1, <2>2 DEF ClientStep
<1>4. CASE UserStep
  <2>1. CASE Open
    BY <2>1 DEF Open, PathInv
  <2>2. ASSUME NEW i \in DOMAIN path, Crumb(i) PROVE PathInv'
    <3>1. model # Absent /\ path' = SubSeq(path, 1, i) /\ UNCHANGED <<tree, model>>
      BY <2>2 DEF Crumb, Shown
    <3>2. i \in 1..Len(path)
      BY <1>0, <2>2
    <3>3. IsPath(model, SubSeq(path, 1, i))
      BY <3>1, <3>2, PrefixIsPath DEF PathInv
    <3>4. QED
      BY <3>1, <3>3 DEF PathInv
  <2>3. ASSUME NEW i \in DOMAIN path, NEW n \in Nodes, Choose(i, n) PROVE PathInv'
    <3>1. model # Absent /\ path' = SelectPathNode(model, path, i, n) /\ UNCHANGED <<tree, model>>
      BY <2>3 DEF Choose, Shown
    <3>2. IsPath(model, SelectPathNode(model, path, i, n))
      BY <1>0, <3>1, SelectIsPath DEF PathInv
    <3>3. QED
      BY <3>1, <3>2 DEF PathInv
  <2>4. ASSUME NEW n \in Nodes, Jump(n) PROVE PathInv'
    <3>1. /\ model # Absent /\ n \in DOMAIN model /\ UNCHANGED <<tree, model>>
          /\ path' = SanitizePath(model, PathTo(model, n))
      BY <2>4 DEF Jump, Shown
    <3>2. IsPath(model, SanitizePath(model, PathTo(model, n)))
      BY <3>1, PathToTyped, SanitizeIsPath DEF PathInv
    <3>3. QED
      BY <3>1, <3>2 DEF PathInv
  <2>5. ASSUME NEW act \in Actions, PressButton(act) PROVE PathInv'
    BY <2>5 DEF PressButton, PathInv
  <2>6. QED
    BY <1>4, <2>1, <2>2, <2>3, <2>4, <2>5 DEF UserStep
<1>5. ASSUME NEW d \in Files, EditHierarchy(d) PROVE PathInv'
  <2>1. UNCHANGED <<model, path>> /\ (tree' = tree \/ (NewTree(d) /\ tree' = d))
    BY <1>5 DEF EditHierarchy
  <2>2. NewTree(d) => GoodTree(d)
    <3>1. d \in Documents
      BY HomeGridAssumption
    <3>2. QED
      BY <3>1, DaemonAcceptsGood
  <2>3. QED
    BY <2>1, <2>2 DEF PathInv
<1>6. CASE OwnerGained \/ HelloAnswered \/ HelloFails \/ DaemonDies \/ DaemonStarts
  BY <1>1, <1>6 DEF OwnerGained, HelloAnswered, HelloFails, DaemonDies, DaemonStarts
<1>7. ASSUME NEW k \in Kinds, CallFails(k) PROVE PathInv'
  BY <1>1, <1>7 DEF CallFails
<1>8. ASSUME NEW m \in muts,
             \/ MutationAnswered(m) \/ MutationTimesOut(m)
             \/ MutationBegins(m) \/ MutationRefused(m)
      PROVE  PathInv'
  BY <1>1, <1>8 DEF MutationAnswered, MutationTimesOut, MutationBegins, MutationRefused, Dispatch
<1>9. ASSUME NEW w \in Workspaces,
             \/ \E act \in Actions : OtherBegins(w, act)
             \/ Commit(w) \/ Notify(w) \/ MutationFails(w)
      PROVE  PathInv'
  BY <1>1, <1>9 DEF OtherBegins, Dispatch, Commit, Notify, MutationFails
<1>10. QED
  BY <1>1, <1>2, <1>3, <1>4, <1>5, <1>6, <1>7, <1>8, <1>9 DEF Next, vars

-----------------------------------------------------------------------------
(***************************************************************************)
(* Types                                                                   *)
(***************************************************************************)

LEMMA SpendTyped ==
    ASSUME budget \in Budget,
           NEW e \in {"mutations", "others", "opens", "edits", "deaths", "failures"}, Spend(e)
    PROVE  budget' \in Budget
<1>1. budget[e] \in Nat /\ budget[e] > 0 /\ budget' = [budget EXCEPT ![e] = budget[e] - 1]
  BY DEF Spend, Budget
<1>2. budget[e] - 1 \in Nat
  BY <1>1
<1>3. QED
  BY <1>1, <1>2 DEF Budget

\* Changes of one queue of calls.
LEMMA CallsTyped ==
    ASSUME TypeOK, NEW k \in Kinds, NEW q, calls' = [calls EXCEPT ![k] = q],
           k = "tree" => q \in Seq(TreeReads), k = "states" => q \in Seq(StateReads)
    PROVE  /\ calls' \in [Kinds -> Seq(TreeReads) \cup Seq(StateReads)]
           /\ calls'["tree"] \in Seq(TreeReads) /\ calls'["states"] \in Seq(StateReads)
BY DEF TypeOK, Kinds

\* Removing an element of a queue.
LEMMA RemoveTyped ==
    ASSUME NEW S, NEW q \in Seq(S), NEW i \in DOMAIN q
    PROVE  RemoveAt(q, i) \in Seq(S)
<1>1. i \in 1..Len(q) /\ Len(q) \in Nat
  OBVIOUS
<1>2. SubSeq(q, 1, i - 1) \in Seq(S)
  <2>1. \A j \in 1..(i - 1) : q[j] \in S
    BY <1>1
  <2>2. QED
    BY <1>1, <2>1, SubSeqProperties
<1>3. SubSeq(q, i + 1, Len(q)) \in Seq(S)
  <2>1. \A j \in (i + 1)..Len(q) : q[j] \in S
    BY <1>1
  <2>2. QED
    BY <1>1, <2>1, SubSeqProperties
<1>4. QED
  BY <1>2, <1>3, ConcatProperties DEF RemoveAt

\* An operation that one of its steps changes is still one.
LEMMA UpdatedTyped ==
    ASSUME muts \subseteq Mutations, NEW m \in muts, NEW n \in Mutations,
           muts' = Updated(m, n)
    PROVE  muts' \subseteq Mutations
BY DEF Updated

LEMMA MutationTyped ==
    ASSUME NEW m \in Mutations
    PROVE  /\ [m EXCEPT !.open = FALSE] \in Mutations
           /\ [m EXCEPT !.phase = "running"] \in Mutations
           /\ [m EXCEPT !.phase = "answered"] \in Mutations
BY DEF Mutations

LEMMA MutateTyped ==
    ASSUME TypeOK, NEW w \in Workspaces, NEW act \in Actions, Mutate(w, act)
    PROVE  /\ lock' \in Workspaces \cup {NoWorkspace} /\ token' \in Nat
           /\ muts' \subseteq Mutations /\ budget' \in Budget
<1>1. CASE lock # NoWorkspace
  BY <1>1 DEF Mutate, TypeOK
<1>2. CASE lock = NoWorkspace
  <2>1. Spend("mutations") /\ lock' = w /\ token' = token + 1
        /\ muts' = muts \cup {[ws |-> w, act |-> act, open |-> TRUE, token |-> token + 1,
                                phase |-> IF up THEN "sent" ELSE "answered"]}
    BY <1>2 DEF Mutate
  <2>2. token \in Nat /\ token + 1 \in Nat /\ budget \in Budget
    BY DEF TypeOK
  <2>3. [ws |-> w, act |-> act, open |-> TRUE, token |-> token + 1,
         phase |-> IF up THEN "sent" ELSE "answered"] \in Mutations
    BY <2>2 DEF Mutations
  <2>4. budget' \in Budget
    BY <2>1, <2>2, SpendTyped
  <2>5. QED
    BY <2>1, <2>2, <2>3, <2>4 DEF TypeOK
<1>3. QED
  BY <1>1, <1>2

LEMMA DispatchTyped ==
    ASSUME TypeOK, NEW w \in Workspaces, NEW act \in Actions, Dispatch(w, act)
    PROVE  /\ status' \in [Workspaces -> Statuses] /\ op' \in [Workspaces -> Ops]
           /\ unannounced' \subseteq Workspaces
<1>1. status' \in [Workspaces -> Statuses]
  BY DEF Dispatch, TypeOK, Statuses
<1>2. op' \in [Workspaces -> Ops]
  BY DEF Dispatch, TypeOK, Ops
<1>3. QED
  BY <1>1, <1>2 DEF Dispatch, TypeOK

\* A callback of a read.
LEMMA AnswerTyped ==
    ASSUME TypeOK, NEW k \in Kinds, Answer(k)
    PROVE  /\ calls' \in [Kinds -> Seq(TreeReads) \cup Seq(StateReads)]
           /\ calls'["tree"] \in Seq(TreeReads) /\ calls'["states"] \in Seq(StateReads)
           /\ model' \in Files \cup {Absent}
           /\ states' \in [Workspaces -> Statuses] \cup {Absent}
<1>1. PICK i \in DOMAIN calls[k] :
        /\ calls[k][i].done
        /\ calls' = [calls EXCEPT ![k] = RemoveAt(calls[k], i)]
        /\ LET data == calls[k][i].data IN
           \/ data = Absent /\ UNCHANGED <<model, states, path>>
           \/ data # Absent /\ k = "tree" /\ ShowTree(data) /\ UNCHANGED states
           \/ data # Absent /\ k = "states" /\ states' = data /\ UNCHANGED <<model, path>>
  BY DEF Answer
<1>2. calls["tree"] \in Seq(TreeReads) /\ calls["states"] \in Seq(StateReads)
  BY DEF TypeOK
<1>3. k = "tree" => RemoveAt(calls[k], i) \in Seq(TreeReads)
  BY <1>1, <1>2, RemoveTyped
<1>4. k = "states" => RemoveAt(calls[k], i) \in Seq(StateReads)
  BY <1>1, <1>2, RemoveTyped
<1>5. k = "tree" => calls[k][i].data \in Files \cup {Absent}
  <2> SUFFICES ASSUME k = "tree" PROVE calls[k][i].data \in Files \cup {Absent}
    OBVIOUS
  <2>1. calls[k][i] \in TreeReads
    BY <1>1, <1>2
  <2>2. QED
    BY <2>1 DEF TreeReads
<1>6. k = "states" => calls[k][i].data \in [Workspaces -> Statuses] \cup {Absent}
  <2> SUFFICES ASSUME k = "states" PROVE calls[k][i].data \in [Workspaces -> Statuses] \cup {Absent}
    OBVIOUS
  <2>1. calls[k][i] \in StateReads
    BY <1>1, <1>2
  <2>2. QED
    BY <1>1, <2>1 DEF StateReads
<1>7. model' \in Files \cup {Absent}
  BY <1>1, <1>5 DEF ShowTree, TypeOK
<1>8. states' \in [Workspaces -> Statuses] \cup {Absent}
  BY <1>1, <1>6 DEF TypeOK
<1>9. QED
  BY <1>1, <1>3, <1>4, <1>7, <1>8, CallsTyped

\* The daemon answers or fails a call.
LEMMA ServeTyped ==
    ASSUME TypeOK, NEW k \in Kinds, Reading(k)
    PROVE  /\ calls' \in [Kinds -> Seq(TreeReads) \cup Seq(StateReads)]
           /\ calls'["tree"] \in Seq(TreeReads) /\ calls'["states"] \in Seq(StateReads)
<1>0. calls["tree"] \in Seq(TreeReads) /\ calls["states"] \in Seq(StateReads)
  BY DEF TypeOK
<1>1. ASSUME NEW i \in DOMAIN calls["tree"], ServeTree(i), k = "tree"
      PROVE  /\ calls' \in [Kinds -> Seq(TreeReads) \cup Seq(StateReads)]
             /\ calls'["tree"] \in Seq(TreeReads) /\ calls'["states"] \in Seq(StateReads)
  <2> DEFINE read == [data |-> tree, done |-> TRUE]
             q    == [calls["tree"] EXCEPT ![i] = read]
  <2>1. calls' = [calls EXCEPT !["tree"] = q]
    BY <1>1 DEF ServeTree
  <2>2. read \in TreeReads
    BY DEF TypeOK, TreeReads
  <2>3. q \in Seq(TreeReads)
    <3> HIDE DEF read
    <3>1. QED
      BY <1>0, <1>1, <2>2
  <2> HIDE DEF q
  <2>4. QED
    BY <1>1, <2>1, <2>3, CallsTyped
<1>2. ASSUME NEW i \in DOMAIN calls["states"], NEW w \in Workspaces, ServeState(i, w),
             k = "states"
      PROVE  /\ calls' \in [Kinds -> Seq(TreeReads) \cup Seq(StateReads)]
             /\ calls'["tree"] \in Seq(TreeReads) /\ calls'["states"] \in Seq(StateReads)
  <2> DEFINE data == [calls["states"][i].data EXCEPT ![w] = status[w]]
             read == [data |-> data, done |-> \A v \in Workspaces : data[v] # Unread]
             q    == [calls["states"] EXCEPT ![i] = read]
  <2>1. calls' = [calls EXCEPT !["states"] = q]
    BY <1>2 DEF ServeState
  <2>2. calls["states"][i] \in StateReads /\ ~calls["states"][i].done
    BY <1>0, <1>2 DEF ServeState, Serving
  <2>3. calls["states"][i].data \in [Workspaces -> Statuses \cup {Unread}]
    BY <2>2 DEF StateReads
  <2>4. data \in [Workspaces -> Statuses \cup {Unread}]
    BY <2>3 DEF TypeOK
  <2> HIDE DEF data
  <2>5. read \in StateReads
    <3>1. CASE \A v \in Workspaces : data[v] # Unread
      <4>1. data \in [Workspaces -> Statuses] /\ read = [data |-> data, done |-> TRUE]
        BY <2>4, <3>1
      <4>2. QED
        BY <4>1 DEF StateReads
    <3>2. CASE ~\A v \in Workspaces : data[v] # Unread
      <4>1. read = [data |-> data, done |-> FALSE]
        BY <3>2
      <4>2. QED
        BY <2>4, <4>1 DEF StateReads
    <3>3. QED
      BY <3>1, <3>2
  <2>6. q \in Seq(StateReads)
    <3> HIDE DEF read
    <3>1. QED
      BY <1>0, <1>2, <2>5
  <2> HIDE DEF q
  <2>7. QED
    BY <1>2, <2>1, <2>6, CallsTyped
<1>3. QED
  BY <1>1, <1>2 DEF Reading

LEMMA FailTyped ==
    ASSUME TypeOK, NEW k \in Kinds, CallFails(k)
    PROVE  /\ calls' \in [Kinds -> Seq(TreeReads) \cup Seq(StateReads)]
           /\ calls'["tree"] \in Seq(TreeReads) /\ calls'["states"] \in Seq(StateReads)
           /\ missed' \subseteq Kinds \cup {"hello"} /\ budget' \in Budget
<1>1. PICK i \in DOMAIN calls[k] :
        /\ calls' = [calls EXCEPT ![k] = RemoveAt(calls[k], i)]
        /\ missed' = IF i = Len(calls[k]) THEN missed \cup {k} ELSE missed
  BY DEF CallFails
<1>2. calls["tree"] \in Seq(TreeReads) /\ calls["states"] \in Seq(StateReads)
  BY DEF TypeOK
<1>3. k = "tree" => RemoveAt(calls[k], i) \in Seq(TreeReads)
  BY <1>1, <1>2, RemoveTyped
<1>4. k = "states" => RemoveAt(calls[k], i) \in Seq(StateReads)
  BY <1>1, <1>2, RemoveTyped
<1>5. missed' \subseteq Kinds \cup {"hello"}
  BY <1>1 DEF TypeOK
<1>6. budget' \in Budget
  <2>1. Spend("failures") /\ budget \in Budget
    BY DEF CallFails, TypeOK
  <2>2. QED
    BY <2>1, SpendTyped
<1>7. QED
  BY <1>1, <1>3, <1>4, <1>5, <1>6, CallsTyped

LEMMA DiesTyped ==
    ASSUME TypeOK, DaemonDies
    PROVE  /\ calls' \in [Kinds -> Seq(TreeReads) \cup Seq(StateReads)]
           /\ calls'["tree"] \in Seq(TreeReads) /\ calls'["states"] \in Seq(StateReads)
           /\ muts' \subseteq Mutations /\ op' \in [Workspaces -> Ops]
           /\ owner' \in Seq({"lost", "gained"}) /\ missed' \subseteq Kinds \cup {"hello"}
           /\ budget' \in Budget
<1> DEFINE lost(s) == [i \in DOMAIN s |-> IF s[i].done THEN s[i] ELSE Failed]
<1>1. Failed \in TreeReads /\ Failed \in StateReads
  BY DEF Failed, TreeReads, StateReads
<1>2. calls["tree"] \in Seq(TreeReads) /\ calls["states"] \in Seq(StateReads)
  BY DEF TypeOK
<1>3. ASSUME NEW S, Failed \in S, NEW s \in Seq(S) PROVE lost(s) \in Seq(S)
  <2>1. DOMAIN s = 1..Len(s) /\ Len(s) \in Nat /\ \A i \in 1..Len(s) : s[i] \in S
    OBVIOUS
  <2>2. lost(s) \in [1..Len(s) -> S]
    BY <1>3, <2>1
  <2>3. QED
    BY <2>1, <2>2
<1>4. calls' = [k \in Kinds |-> lost(calls[k])]
  BY DEF DaemonDies
<1>5. lost(calls["tree"]) \in Seq(TreeReads) /\ lost(calls["states"]) \in Seq(StateReads)
  BY <1>1, <1>2, <1>3
<1> HIDE DEF lost
<1>6. /\ calls' \in [Kinds -> Seq(TreeReads) \cup Seq(StateReads)]
      /\ calls'["tree"] \in Seq(TreeReads) /\ calls'["states"] \in Seq(StateReads)
  BY <1>4, <1>5 DEF Kinds
<1>7. muts' \subseteq Mutations
  BY MutationTyped DEF DaemonDies, TypeOK
<1>8. op' \in [Workspaces -> Ops]
  BY DEF DaemonDies, TypeOK, Ops
<1>9. owner' \in Seq({"lost", "gained"})
  BY DEF DaemonDies, TypeOK
<1>10. missed' \subseteq Kinds \cup {"hello"}
  BY DEF DaemonDies, TypeOK
<1>11. budget' \in Budget
  <2>1. Spend("deaths") /\ budget \in Budget
    BY DEF DaemonDies, TypeOK
  <2>2. QED
    BY <2>1, SpendTyped
<1>12. QED
  BY <1>6, <1>7, <1>8, <1>9, <1>10, <1>11

LEMMA TypeStep ==
    ASSUME TypeOK, PathInv', [Next]_vars
    PROVE  TypeOK'
<1> USE DEF daemon, wire, view, user, history
<1>0. path' \in Seq(Nodes)
  BY PathTyped DEF PathInv
<1>1. CASE UNCHANGED vars
  BY <1>1 DEF vars, TypeOK
<1>2. CASE OwnerLost
  <2>1. owner' \in Seq({"lost", "gained"}) /\ token' \in Nat
    BY <1>2 DEF OwnerLost, TypeOK
  <2>2. QED
    BY <1>0, <1>2, <2>1 DEF OwnerLost, TypeOK
<1>3. CASE OwnerGained
  <2>1. owner' \in Seq({"lost", "gained"})
    BY <1>3 DEF OwnerGained, TypeOK
  <2>2. QED
    BY <1>3, <2>1 DEF OwnerGained, TypeOK
<1>4. CASE HelloAnswered
  BY <1>4 DEF HelloAnswered, TypeOK
<1>5. CASE HelloFails
  <2>1. Spend("failures") /\ budget \in Budget
    BY <1>5 DEF HelloFails, TypeOK
  <2>2. budget' \in Budget
    BY <2>1, SpendTyped
  <2>3. QED
    BY <1>5, <2>2 DEF HelloFails, TypeOK
<1>6. ASSUME NEW k \in Kinds, ClientStep(k) PROVE TypeOK'
  <2>1. CASE Signal(k)
    BY <2>1 DEF Signal, TypeOK
  <2>2. CASE Fire(k)
    <3>1. [data |-> NotRead("tree"), done |-> FALSE] \in TreeReads
      BY DEF NotRead, TreeReads
    <3>2. [data |-> NotRead("states"), done |-> FALSE] \in StateReads
      BY DEF NotRead, StateReads
    <3> DEFINE q == IF available /\ up
                    THEN Append(calls[k], [data |-> NotRead(k), done |-> FALSE]) ELSE calls[k]
    <3>3. calls' = [calls EXCEPT ![k] = q]
      BY <2>2 DEF Fire
    <3>4. k = "tree" => q \in Seq(TreeReads)
      BY <3>1 DEF TypeOK
    <3>5. k = "states" => q \in Seq(StateReads)
      BY <3>2 DEF TypeOK
    <3> HIDE DEF q
    <3>6. /\ calls' \in [Kinds -> Seq(TreeReads) \cup Seq(StateReads)]
          /\ calls'["tree"] \in Seq(TreeReads) /\ calls'["states"] \in Seq(StateReads)
      BY <3>3, <3>4, <3>5, CallsTyped
    <3>7. QED
      BY <2>2, <3>6 DEF Fire, TypeOK
  <2>3. CASE Reading(k)
    <3>1. /\ calls' \in [Kinds -> Seq(TreeReads) \cup Seq(StateReads)]
          /\ calls'["tree"] \in Seq(TreeReads) /\ calls'["states"] \in Seq(StateReads)
      BY <2>3, ServeTyped
    <3>2. UNCHANGED <<daemon, owner, hello, hints, view, user, history, budget>>
      BY <2>3 DEF Reading, ServeTree, ServeState
    <3>3. QED
      BY <3>1, <3>2 DEF TypeOK
  <2>4. CASE Answer(k)
    <3>1. /\ calls' \in [Kinds -> Seq(TreeReads) \cup Seq(StateReads)]
          /\ calls'["tree"] \in Seq(TreeReads) /\ calls'["states"] \in Seq(StateReads)
          /\ model' \in Files \cup {Absent}
          /\ states' \in [Workspaces -> Statuses] \cup {Absent}
      BY <2>4, AnswerTyped
    <3>2. UNCHANGED <<daemon, owner, hello, hints, available, queued, lock, token, muts,
                      history, budget>>
      BY <2>4 DEF Answer
    <3>3. QED
      BY <1>0, <3>1, <3>2 DEF TypeOK
  <2>5. QED
    BY <1>6, <2>1, <2>2, <2>3, <2>4 DEF ClientStep
<1>7. ASSUME NEW k \in Kinds, CallFails(k) PROVE TypeOK'
  <2>1. UNCHANGED <<daemon, owner, hello, hints, view, user, unannounced>>
    BY <1>7 DEF CallFails
  <2>2. QED
    BY <1>7, <2>1, FailTyped DEF TypeOK
<1>8. CASE UserStep
  <2>1. CASE Open
    <3>1. Spend("opens") /\ budget \in Budget
      BY <2>1 DEF Open, TypeOK
    <3>2. budget' \in Budget
      BY <3>1, SpendTyped
    <3>3. QED
      BY <2>1, <3>2 DEF Open, TypeOK
  <2>2. ASSUME NEW i \in DOMAIN path, Crumb(i) PROVE TypeOK'
    BY <1>0, <2>2 DEF Crumb, TypeOK
  <2>3. ASSUME NEW n \in Nodes, Jump(n) PROVE TypeOK'
    BY <1>0, <2>3 DEF Jump, TypeOK
  <2>4. ASSUME UNCHANGED <<daemon, wire, view, history>>,
               \/ UNCHANGED <<lock, token, muts, budget>>
               \/ \E w \in Workspaces, act \in Actions : Mutate(w, act)
        PROVE  TypeOK'
    <3>1. /\ lock' \in Workspaces \cup {NoWorkspace} /\ token' \in Nat
          /\ muts' \subseteq Mutations /\ budget' \in Budget
      BY <2>4, MutateTyped DEF TypeOK
    <3>2. QED
      BY <1>0, <2>4, <3>1 DEF TypeOK
  <2>5. ASSUME NEW n \in Nodes, NEW act, Mutate(WorkspaceOf[n], act),
               WorkspaceOf[n] # NoWorkspace, act \in Actions
        PROVE  \E w \in Workspaces, b \in Actions : Mutate(w, b)
    BY <2>5, HomeGridAssumption
  <2>6. ASSUME NEW i \in DOMAIN path, NEW n \in Nodes, Choose(i, n) PROVE TypeOK'
    <3>1. UNCHANGED <<daemon, wire, view, history>>
      BY <2>6 DEF Choose
    <3>2. \/ UNCHANGED <<lock, token, muts, budget>>
          \/ /\ WorkspaceOf[n] # NoWorkspace
             /\ \E act \in PrimaryAction(StatusShown(WorkspaceOf[n])) : Mutate(WorkspaceOf[n], act)
      BY <2>6 DEF Choose
    <3>3. \A st : PrimaryAction(st) \subseteq Actions
      BY DEF PrimaryAction, Actions
    <3>4. QED
      BY <2>4, <2>5, <3>1, <3>2, <3>3
  <2>7. ASSUME NEW act \in Actions, PressButton(act) PROVE TypeOK'
    <3>1. UNCHANGED <<daemon, wire, view, history>> /\ path # <<>>
          /\ WorkspaceOf[Last(path)] # NoWorkspace /\ Mutate(WorkspaceOf[Last(path)], act)
      BY <2>7 DEF PressButton, TypeOK
    <3>2. Last(path) \in Nodes
      BY <3>1 DEF Last, TypeOK
    <3>3. QED
      BY <2>4, <2>5, <3>1, <3>2
  <2>8. QED
    BY <1>8, <2>1, <2>2, <2>3, <2>6, <2>7 DEF UserStep
<1>9. ASSUME NEW m \in muts, NEW n \in Mutations, muts' = Updated(m, n) PROVE muts' \subseteq Mutations
  BY <1>9, UpdatedTyped DEF TypeOK
<1>10. ASSUME NEW m \in muts, MutationAnswered(m) PROVE TypeOK'
  <2>1. [m EXCEPT !.open = FALSE] \in Mutations
    BY MutationTyped DEF TypeOK
  <2>2. muts' \subseteq Mutations
    BY <1>9, <1>10, <2>1 DEF MutationAnswered, Over
  <2>3. lock' \in Workspaces \cup {NoWorkspace}
    BY <1>10 DEF MutationAnswered, Over, TypeOK
  <2>4. QED
    BY <1>10, <2>2, <2>3 DEF MutationAnswered, TypeOK
<1>11. ASSUME NEW m \in muts, MutationTimesOut(m) PROVE TypeOK'
  <2>1. [m EXCEPT !.open = FALSE] \in Mutations
    BY MutationTyped DEF TypeOK
  <2>2. muts' \subseteq Mutations
    BY <1>9, <1>11, <2>1 DEF MutationTimesOut, Over
  <2>3. lock' \in Workspaces \cup {NoWorkspace}
    BY <1>11 DEF MutationTimesOut, Over, TypeOK
  <2>4. Spend("failures") /\ budget \in Budget
    BY <1>11 DEF MutationTimesOut, TypeOK
  <2>5. budget' \in Budget
    BY <2>4, SpendTyped
  <2>6. QED
    BY <1>11, <2>2, <2>3, <2>5 DEF MutationTimesOut, TypeOK
<1>12. ASSUME NEW m \in muts, MutationBegins(m) PROVE TypeOK'
  <2>1. [m EXCEPT !.phase = "running"] \in Mutations /\ m.ws \in Workspaces /\ m.act \in Actions
    BY MutationTyped DEF TypeOK, Mutations
  <2>2. muts' \subseteq Mutations
    BY <1>9, <1>12, <2>1 DEF MutationBegins
  <2>3. /\ status' \in [Workspaces -> Statuses] /\ op' \in [Workspaces -> Ops]
        /\ unannounced' \subseteq Workspaces
    BY <1>12, <2>1, DispatchTyped DEF MutationBegins
  <2>4. UNCHANGED <<up, tree, wire, view, path, lock, token, missed, budget>>
    BY <1>12 DEF MutationBegins, Dispatch
  <2>5. QED
    BY <2>2, <2>3, <2>4 DEF TypeOK
<1>13. ASSUME NEW m \in muts, MutationRefused(m) PROVE TypeOK'
  <2>1. [m EXCEPT !.phase = "answered"] \in Mutations
    BY MutationTyped DEF TypeOK
  <2>2. muts' \subseteq Mutations
    BY <1>9, <1>13, <2>1 DEF MutationRefused
  <2>3. QED
    BY <1>13, <2>2 DEF MutationRefused, TypeOK
<1>14. ASSUME NEW d \in Files, EditHierarchy(d) PROVE TypeOK'
  <2>1. Spend("edits") /\ budget \in Budget
    BY <1>14 DEF EditHierarchy, TypeOK
  <2>2. budget' \in Budget
    BY <2>1, SpendTyped
  <2>3. tree' \in Files /\ hints' \subseteq Kinds
    BY <1>14 DEF EditHierarchy, TypeOK, Kinds
  <2>4. QED
    BY <1>14, <2>2, <2>3 DEF EditHierarchy, TypeOK
<1>15. ASSUME NEW w \in Workspaces, NEW act \in Actions, OtherBegins(w, act) PROVE TypeOK'
  <2>1. Spend("others") /\ budget \in Budget
    BY <1>15 DEF OtherBegins, TypeOK
  <2>2. budget' \in Budget
    BY <2>1, SpendTyped
  <2>3. /\ status' \in [Workspaces -> Statuses] /\ op' \in [Workspaces -> Ops]
        /\ unannounced' \subseteq Workspaces
    BY <1>15, DispatchTyped DEF OtherBegins
  <2>4. UNCHANGED <<up, tree, wire, view, path, lock, token, missed, muts>>
    BY <1>15 DEF OtherBegins, Dispatch
  <2>5. QED
    BY <2>2, <2>3, <2>4 DEF TypeOK
<1>16. ASSUME NEW w \in Workspaces PROVE Outcomes(op[w]) \subseteq Statuses
  BY DEF Outcomes, Statuses
<1>17. ASSUME NEW w \in Workspaces, AnswerRunning(w) PROVE muts' \subseteq Mutations
  BY <1>17, MutationTyped DEF AnswerRunning, TypeOK
<1>18. ASSUME NEW w \in Workspaces, Commit(w) PROVE TypeOK'
  <2>1. status' \in [Workspaces -> Statuses]
    BY <1>16, <1>18 DEF Commit, TypeOK
  <2>2. op' \in [Workspaces -> Ops]
    BY <1>18 DEF Commit, TypeOK, Ops
  <2>3. QED
    BY <1>18, <2>1, <2>2 DEF Commit, TypeOK
<1>19. ASSUME NEW w \in Workspaces, Notify(w) PROVE TypeOK'
  <2>1. op' \in [Workspaces -> Ops] /\ hints' \subseteq Kinds
    BY <1>19 DEF Notify, TypeOK, Ops, Kinds
  <2>2. muts' \subseteq Mutations
    BY <1>17, <1>19 DEF Notify
  <2>3. QED
    BY <1>19, <2>1, <2>2 DEF Notify, TypeOK
<1>20. ASSUME NEW w \in Workspaces, MutationFails(w) PROVE TypeOK'
  <2>1. op' \in [Workspaces -> Ops]
    BY <1>20 DEF MutationFails, TypeOK, Ops
  <2>2. status' \in [Workspaces -> Statuses]
    BY <1>16, <1>20 DEF MutationFails, TypeOK
  <2>3. muts' \subseteq Mutations
    BY <1>17, <1>20 DEF MutationFails
  <2>4. Spend("failures") /\ budget \in Budget
    BY <1>20 DEF MutationFails, TypeOK
  <2>5. budget' \in Budget
    BY <2>4, SpendTyped
  <2>6. QED
    BY <1>20, <2>1, <2>2, <2>3, <2>5 DEF MutationFails, TypeOK
<1>21. CASE DaemonDies
  <2>1. up' \in BOOLEAN /\ hello' \in BOOLEAN
        /\ UNCHANGED <<tree, status, hints, view, path, lock, token, unannounced>>
    BY <1>21 DEF DaemonDies
  <2>2. QED
    BY <1>21, <2>1, DiesTyped DEF TypeOK
<1>22. CASE DaemonStarts
  <2>1. owner' \in Seq({"lost", "gained"})
    BY <1>22 DEF DaemonStarts, TypeOK
  <2>2. QED
    BY <1>22, <2>1 DEF DaemonStarts, TypeOK
<1>23. QED
  BY <1>1, <1>2, <1>3, <1>4, <1>5, <1>6, <1>7, <1>8, <1>10, <1>11, <1>12, <1>13, <1>14, <1>15,
     <1>18, <1>19, <1>20, <1>21, <1>22 DEF Next

LEMMA InitInv == Init => TypeOK /\ PathInv
<1> SUFFICES ASSUME Init PROVE TypeOK /\ PathInv
  OBVIOUS
<1>1. DefaultTree \in Files /\ DefaultTree \in Documents
  BY HomeGridAssumption
<1>2. GoodTree(tree) /\ PathInv
  BY <1>1, HomeGridAssumption, DaemonAcceptsGood DEF Init, PathInv
<1>3. /\ calls \in [Kinds -> Seq(TreeReads) \cup Seq(StateReads)]
      /\ calls["tree"] \in Seq(TreeReads) /\ calls["states"] \in Seq(StateReads)
  BY DEF Init, Kinds
<1>4. owner \in Seq({"lost", "gained"}) /\ path \in Seq(Nodes)
  BY DEF Init
<1>5. TypeOK
  BY <1>1, <1>3, <1>4, HomeGridAssumption DEF Init, TypeOK, Statuses, Ops
<1>6. QED
  BY <1>2, <1>5

\* Whatever the hierarchy file contained and whichever answers came late, failed or
\* never came, the daemon serves a tree, the home grid shows one, and its
\* breadcrumbs are the way from that tree's root to one of its nodes (setTree,
\* sanitizePath, buildTreeModel; NewTree).
THEOREM PathCorrect == Spec => []PathIsRooted
<1>1. Init => TypeOK /\ PathInv
  BY InitInv
<1>2. TypeOK /\ PathInv /\ [Next]_vars => TypeOK' /\ PathInv'
  BY PathStep, TypeStep
<1>3. TypeOK /\ PathInv => PathIsRooted
  <2> SUFFICES ASSUME TypeOK, PathInv PROVE PathIsRooted
    OBVIOUS
  <2>1. IsTree(tree)
    BY GoodIsTree DEF PathInv
  <2>2. model # Absent => IsTree(model)
    BY GoodIsTree DEF PathInv
  <2>3. model # Absent => path # <<>> /\ Last(path) \in DOMAIN model /\ path = PathTo(model, Last(path))
    BY PathIsUnique DEF PathInv, IsPath
  <2>4. QED
    BY <2>1, <2>2, <2>3 DEF PathInv, PathIsRooted
<1>4. QED
  BY <1>1, <1>2, <1>3, PTL DEF Spec

-----------------------------------------------------------------------------
(***************************************************************************)
(* The lock                                                                *)
(***************************************************************************)

\* An operation has the token that was current when it began, which no other
\* operation ever had.
TokenInv == \A m \in muts : m.token \in 1..token /\ \A n \in muts : m.token = n.token => m = n

LockInv == TokenInv /\ LockHasItsCall

\* Operations that only go on, or are no longer of interest to the client, keep the
\* lock's.
LEMMA OperationsGoOn ==
    ASSUME LockInv, UNCHANGED <<lock, token>>,
           \A n \in muts' : \E m \in muts : m.token = n.token /\ m.ws = n.ws /\ m.open = n.open,
           \A m \in muts : m.open => \E n \in muts' : n.token = m.token /\ n.ws = m.ws /\ n.open,
           \A m, n \in muts' : m.token = n.token => m = n
    PROVE  LockInv'
<1>1. TokenInv'
  BY DEF LockInv, TokenInv
<1>2. (lock # NoWorkspace => \E m \in muts : m.open /\ m.token = token /\ m.ws = lock)'
  BY DEF LockInv, LockHasItsCall
<1>3. (\A m \in muts : m.open /\ m.token = token => m.ws = lock)'
  BY DEF LockInv, LockHasItsCall
<1>4. QED
  BY <1>1, <1>2, <1>3 DEF LockInv, LockHasItsCall

\* An operation's own step, which leaves its token, workspace and callback alone.
LEMMA OneGoesOn ==
    ASSUME TypeOK, LockInv, UNCHANGED <<lock, token>>, NEW m \in muts, NEW n \in Mutations,
           n.token = m.token, n.ws = m.ws, n.open = m.open, muts' = Updated(m, n)
    PROVE  LockInv'
<1>1. \A k \in muts' : k = n \/ k \in muts \ {m}
  BY DEF Updated
<1>2. \A k \in muts : k.open => (k = m /\ n \in muts') \/ k \in muts'
  BY DEF Updated
<1>3. \A k \in muts' : \E j \in muts : j.token = k.token /\ j.ws = k.ws /\ j.open = k.open
  BY <1>1
<1>4. \A k \in muts : k.open => \E j \in muts' : j.token = k.token /\ j.ws = k.ws /\ j.open
  BY <1>2
<1>5. \A j, k \in muts' : j.token = k.token => j = k
  BY <1>1 DEF LockInv, TokenInv
<1>6. QED
  BY <1>3, <1>4, <1>5, OperationsGoOn

\* The user starts an operation: its token is new.
LEMMA MutateLocks ==
    ASSUME TypeOK, LockInv, NEW w \in Workspaces, NEW act \in Actions, Mutate(w, act)
    PROVE  LockInv'
<1>1. CASE lock # NoWorkspace
  BY <1>1 DEF Mutate, LockInv, TokenInv, LockHasItsCall
<1>2. CASE lock = NoWorkspace
  <2> DEFINE new == [ws |-> w, act |-> act, open |-> TRUE, token |-> token + 1,
                     phase |-> IF up THEN "sent" ELSE "answered"]
  <2>1. lock' = w /\ token' = token + 1 /\ muts' = muts \cup {new}
    BY <1>2 DEF Mutate
  <2>2. new.open /\ new.token = token' /\ new.ws = w
    BY <2>1
  <2> HIDE DEF new
  <2>3. token \in Nat /\ \A m \in muts : m.token \in 1..token
    BY DEF TypeOK, LockInv, TokenInv
  <2>4. \A m \in muts : m.token \in 1..token' /\ m.token # token'
    BY <2>1, <2>3
  <2>5. TokenInv'
    BY <2>1, <2>2, <2>3, <2>4 DEF LockInv, TokenInv
  <2>6. LockHasItsCall'
    BY <2>1, <2>2, <2>4 DEF LockHasItsCall
  <2>7. QED
    BY <2>5, <2>6 DEF LockInv
<1>3. QED
  BY <1>1, <1>2

\* A callback releases the lock of its own operation only.
LEMMA OverReleases ==
    ASSUME TypeOK, LockInv, NEW m \in muts, m.open, Over(m), UNCHANGED token
    PROVE  LockInv'
<1> DEFINE n == [m EXCEPT !.open = FALSE]
<1>1. m \in Mutations
  BY DEF TypeOK
<1>2. n.token = m.token /\ n.ws = m.ws /\ ~n.open
  BY <1>1 DEF Mutations
<1>3. muts' = Updated(m, n)
  BY DEF Over
<1> HIDE DEF n
<1>4. \A k \in muts' : k = n \/ k \in muts \ {m}
  BY <1>3 DEF Updated
<1>5. \A k \in muts \ {m} : k.open => k \in muts'
  BY <1>3 DEF Updated
<1>6. TokenInv'
  BY <1>2, <1>4 DEF LockInv, TokenInv
<1>7. CASE m.token = token
  <2>1. lock' = NoWorkspace
    BY <1>7 DEF Over
  <2>2. \A k \in muts' : ~(k.open /\ k.token = token)
    BY <1>2, <1>4, <1>7 DEF LockInv, TokenInv
  <2>3. QED
    BY <1>6, <2>1, <2>2 DEF LockInv, LockHasItsCall
<1>8. CASE m.token # token
  <2>1. lock' = lock
    BY <1>8 DEF Over
  <2>2. (lock # NoWorkspace => \E k \in muts : k.open /\ k.token = token /\ k.ws = lock)'
    BY <1>5, <1>8, <2>1 DEF LockInv, LockHasItsCall
  <2>3. (\A k \in muts : k.open /\ k.token = token => k.ws = lock)'
    BY <1>2, <1>4, <2>1 DEF LockInv, LockHasItsCall
  <2>4. QED
    BY <1>6, <2>2, <2>3 DEF LockInv, LockHasItsCall
<1>9. QED
  BY <1>7, <1>8

LEMMA LockStep == TypeOK /\ LockInv /\ [Next]_vars => LockInv'
<1> SUFFICES ASSUME TypeOK, LockInv, [Next]_vars PROVE LockInv'
  OBVIOUS
<1> USE DEF daemon, wire, view, user, history
<1>0. muts \subseteq Mutations /\ token \in Nat
  BY DEF TypeOK
<1>1. CASE UNCHANGED <<muts, lock, token>>
  BY <1>1 DEF LockInv, TokenInv, LockHasItsCall
<1>2. CASE OwnerLost
  <2>1. lock' = NoWorkspace /\ token' = token + 1 /\ muts' = muts
    BY <1>2 DEF OwnerLost
  <2>2. \A m \in muts : m.token \in 1..token' /\ m.token # token'
    BY <1>0, <2>1 DEF LockInv, TokenInv
  <2>3. QED
    BY <2>1, <2>2 DEF LockInv, TokenInv, LockHasItsCall
<1>3. CASE OwnerGained \/ HelloAnswered \/ HelloFails \/ DaemonStarts
  BY <1>1, <1>3 DEF OwnerGained, HelloAnswered, HelloFails, DaemonStarts
<1>4. ASSUME NEW k \in Kinds, ClientStep(k) \/ CallFails(k) PROVE LockInv'
  BY <1>1, <1>4 DEF ClientStep, CallFails, Signal, Fire, Reading, ServeTree, ServeState, Answer
<1>5. CASE UserStep
  <2>1. CASE Open
    BY <1>1, <2>1 DEF Open
  <2>2. ASSUME NEW i \in DOMAIN path, Crumb(i) PROVE LockInv'
    BY <1>1, <2>2 DEF Crumb
  <2>3. ASSUME NEW n \in Nodes, Jump(n) PROVE LockInv'
    BY <1>1, <2>3 DEF Jump
  <2>4. ASSUME NEW n \in Nodes, NEW act \in Actions, Mutate(WorkspaceOf[n], act),
               WorkspaceOf[n] # NoWorkspace
        PROVE  LockInv'
    BY <2>4, HomeGridAssumption, MutateLocks
  <2>5. ASSUME NEW i \in DOMAIN path, NEW n \in Nodes, Choose(i, n) PROVE LockInv'
    <3>1. \/ UNCHANGED <<lock, token, muts, budget>>
          \/ /\ WorkspaceOf[n] # NoWorkspace
             /\ \E act \in PrimaryAction(StatusShown(WorkspaceOf[n])) : Mutate(WorkspaceOf[n], act)
      BY <2>5 DEF Choose
    <3>2. \A st : PrimaryAction(st) \subseteq Actions
      BY DEF PrimaryAction, Actions
    <3>3. QED
      BY <1>1, <2>4, <3>1, <3>2
  <2>6. ASSUME NEW act \in Actions, PressButton(act) PROVE LockInv'
    <3>1. path # <<>> /\ WorkspaceOf[Last(path)] # NoWorkspace /\ Mutate(WorkspaceOf[Last(path)], act)
      BY <2>6 DEF PressButton, TypeOK
    <3>2. Last(path) \in Nodes
      BY <3>1 DEF Last, TypeOK
    <3>3. QED
      BY <2>4, <3>1, <3>2
  <2>7. QED
    BY <1>5, <2>1, <2>2, <2>3, <2>5, <2>6 DEF UserStep
<1>6. ASSUME NEW m \in muts, MutationAnswered(m) \/ MutationTimesOut(m) PROVE LockInv'
  BY <1>6, OverReleases DEF MutationAnswered, MutationTimesOut
<1>7. ASSUME NEW m \in muts, MutationBegins(m) PROVE LockInv'
  <2> DEFINE n == [m EXCEPT !.phase = "running"]
  <2>1. n \in Mutations /\ n.token = m.token /\ n.ws = m.ws /\ n.open = m.open
    BY <1>0 DEF Mutations
  <2>2. muts' = Updated(m, n) /\ UNCHANGED <<lock, token>>
    BY <1>7 DEF MutationBegins, Dispatch
  <2> HIDE DEF n
  <2>3. QED
    BY <2>1, <2>2, OneGoesOn
<1>8. ASSUME NEW m \in muts, MutationRefused(m) PROVE LockInv'
  <2> DEFINE n == [m EXCEPT !.phase = "answered"]
  <2>1. n \in Mutations /\ n.token = m.token /\ n.ws = m.ws /\ n.open = m.open
    BY <1>0 DEF Mutations
  <2>2. muts' = Updated(m, n) /\ UNCHANGED <<lock, token>>
    BY <1>8 DEF MutationRefused
  <2> HIDE DEF n
  <2>3. QED
    BY <2>1, <2>2, OneGoesOn
<1>9. ASSUME NEW d \in Files, EditHierarchy(d) PROVE LockInv'
  BY <1>1, <1>9 DEF EditHierarchy
<1>10. ASSUME NEW w \in Workspaces, (\E act \in Actions : OtherBegins(w, act)) \/ Commit(w)
       PROVE  LockInv'
  BY <1>1, <1>10 DEF OtherBegins, Dispatch, Commit
<1>11. ASSUME NEW w \in Workspaces, AnswerRunning(w), UNCHANGED <<lock, token>> PROVE LockInv'
  <2> DEFINE next(m) == IF m.ws = w /\ m.phase = "running" THEN [m EXCEPT !.phase = "answered"]
                        ELSE m
  <2>1. muts' = {next(m) : m \in muts}
    BY <1>11 DEF AnswerRunning
  <2>2. \A m \in muts : next(m).token = m.token /\ next(m).ws = m.ws /\ next(m).open = m.open
    BY <1>0 DEF Mutations
  <2> HIDE DEF next
  <2>3. \A m, n \in muts' : m.token = n.token => m = n
    BY <2>1, <2>2 DEF LockInv, TokenInv
  <2>4. \A n \in muts' : \E m \in muts : m.token = n.token /\ m.ws = n.ws /\ m.open = n.open
    BY <2>1, <2>2
  <2>5. \A m \in muts : m.open => \E n \in muts' : n.token = m.token /\ n.ws = m.ws /\ n.open
    BY <2>1, <2>2
  <2>6. QED
    BY <1>11, <2>3, <2>4, <2>5, OperationsGoOn
<1>12. ASSUME NEW w \in Workspaces, Notify(w) \/ MutationFails(w) PROVE LockInv'
  BY <1>11, <1>12 DEF Notify, MutationFails
<1>13. CASE DaemonDies
  <2> DEFINE next(m) == [m EXCEPT !.phase = "answered"]
  <2>1. muts' = {next(m) : m \in {m \in muts : m.open}} /\ UNCHANGED <<lock, token>>
    BY <1>13 DEF DaemonDies
  <2>2. \A m \in muts : next(m).token = m.token /\ next(m).ws = m.ws /\ next(m).open = m.open
    BY <1>0 DEF Mutations
  <2> HIDE DEF next
  <2>3. \A m, n \in muts' : m.token = n.token => m = n
    BY <2>1, <2>2 DEF LockInv, TokenInv
  <2>4. \A n \in muts' : \E m \in muts : m.token = n.token /\ m.ws = n.ws /\ m.open = n.open
    BY <2>1, <2>2
  <2>5. \A m \in muts : m.open => \E n \in muts' : n.token = m.token /\ n.ws = m.ws /\ n.open
    BY <2>1, <2>2
  <2>6. QED
    BY <2>1, <2>3, <2>4, <2>5, OperationsGoOn
<1>14. QED
  BY <1>1, <1>2, <1>3, <1>4, <1>5, <1>6, <1>7, <1>8, <1>9, <1>10, <1>12, <1>13 DEF Next, vars

\* The lock of the home grid belongs to one call whose callback is to come: the
\* token that _mutateWorkspace and setAvailable advance keeps late answers apart,
\* through any number of operations and deaths of the daemon.
THEOREM LockCorrect == Spec => []LockHasItsCall
<1>1. Init => TypeOK /\ PathInv /\ LockInv
  <2>1. Init => LockInv
    BY DEF Init, LockInv, TokenInv, LockHasItsCall
  <2>2. QED
    BY <2>1, InitInv
<1>2. TypeOK /\ PathInv /\ LockInv /\ [Next]_vars => TypeOK' /\ PathInv' /\ LockInv'
  BY PathStep, TypeStep, LockStep
<1>3. TypeOK /\ PathInv /\ LockInv => LockHasItsCall
  BY DEF LockInv
<1>4. QED
  BY <1>1, <1>2, <1>3, PTL DEF Spec
=============================================================================
