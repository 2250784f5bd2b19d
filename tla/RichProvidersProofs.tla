------------------------- MODULE RichProvidersProofs -------------------------
(***************************************************************************)
(* Proofs about SurfaceMerge and RichProviders, for any native worlds,     *)
(* identity keys, hosts, connections and commands.                         *)
(***************************************************************************)
EXTENDS RichProviders, FiniteSetTheorems, WellFoundedInduction, TLAPS

-----------------------------------------------------------------------------
(***************************************************************************)
(* Recursion over 0..n                                                     *)
(***************************************************************************)

\* The order on the naturals as a set of pairs.
LEMMA LessThanPairs == \A x, y \in Nat : x < y => <<x, y>> \in OpToRel(<, Nat)
BY DEF OpToRel

LEMMA LeastExists ==
    ASSUME NEW S, S \subseteq Nat, S # {}
    PROVE  \E k \in S : \A q \in S : k <= q
<1>1. PICK k \in S : \A q \in S : ~(<<q, k>> \in OpToRel(<, Nat))
  BY NatLessThanWellFounded, WFMin
<1>2. ASSUME NEW q \in S PROVE k <= q
  <2>1. ~(q < k)
    BY <1>1, LessThanPairs
  <2>2. QED
    BY <2>1
<1>3. QED
  BY <1>2

LEMMA Predecessor ==
    \A n \in Nat : \A k \in 0..n :
        k # 0 => k \in 1..n /\ k - 1 \in 0..n /\ k - 1 \in 0..(k - 1) /\ ~(k <= k - 1)
OBVIOUS

\* A set that has 0, and k with k - 1, has every number to n.
LEMMA UpTo ==
    ASSUME NEW n \in Nat, NEW S, 0 \in S, \A k \in 1..n : k - 1 \in S => k \in S
    PROVE  0..n \subseteq S
<1> DEFINE rest == (0..n) \ S
<1>1. SUFFICES ASSUME rest # {} PROVE FALSE
  OBVIOUS
<1>2. PICK k \in rest : \A q \in rest : k <= q
  <2>1. rest \subseteq Nat
    OBVIOUS
  <2>2. QED
    BY <1>1, <2>1, LeastExists
<1>3. k \in 1..n /\ k - 1 \in 0..n /\ ~(k <= k - 1)
  <2>1. k \in 0..n /\ k # 0
    BY <1>2
  <2>2. QED
    BY <2>1, Predecessor, Zenon
<1>4. k - 1 \in S
  BY <1>2, <1>3
<1>5. QED
  BY <1>2, <1>3, <1>4

\* step[k] takes the values of V to values of V; f has base first, and then what
\* each step makes of the value before.
StaysIn(V, n, step) == \A k \in 1..n : \A v \in V : step[k][v] \in V
Solves(f, n, base, step) == f[0] = base /\ \A k \in 1..n : f[k] = step[k][f[k - 1]]

\* A recursion whose steps stay in V has a solution.
LEMMA RecursionExists ==
    ASSUME NEW n \in Nat, NEW V, NEW base \in V,
           NEW step, StaysIn(V, n, step)
    PROVE  \E f \in [0..n -> V] : Solves(f, n, base, step)
<1> USE DEF StaysIn, Solves
<1> DEFINE solves(f, j) == f[0] = base /\ \A k \in 1..j : f[k] = step[k][f[k - 1]]
           good == {j \in 0..n : \E f \in [0..j -> V] : solves(f, j)}
<1>1. 0 \in good
  <2> DEFINE f == [k \in 0..0 |-> base]
  <2>1. f \in [0..0 -> V] /\ solves(f, 0)
    OBVIOUS
  <2> HIDE DEF f
  <2>2. QED
    BY <2>1
<1>2. ASSUME NEW j \in 1..n, j - 1 \in good PROVE j \in good
  <2>1. PICK f \in [0..(j - 1) -> V] : solves(f, j - 1)
    BY <1>2
  <2> DEFINE g == [k \in 0..j |-> IF k < j THEN f[k] ELSE step[j][f[j - 1]]]
  <2>2. f[j - 1] \in V /\ step[j][f[j - 1]] \in V
    OBVIOUS
  <2>3. g \in [0..j -> V]
    <3>1. \A k \in 0..j : k < j => k \in 0..(j - 1)
      OBVIOUS
    <3>2. QED
      BY <2>2, <3>1
  <2>4. g[0] = base
    BY <2>1
  <2>5. ASSUME NEW k \in 1..j PROVE g[k] = step[k][g[k - 1]]
    <3>1. k - 1 \in 0..j /\ k - 1 < j /\ k - 1 \in 0..(j - 1) /\ k \in 0..j
      OBVIOUS
    <3>2. CASE k < j
      BY <2>1, <3>1, <3>2
    <3>3. CASE k = j
      BY <3>1, <3>3
    <3>4. k < j \/ k = j
      OBVIOUS
    <3>5. QED
      BY <3>2, <3>3, <3>4
  <2> HIDE DEF g
  <2>6. j \in 0..n
    OBVIOUS
  <2>7. QED
    BY <2>3, <2>4, <2>5, <2>6
<1> HIDE DEF good
<1>3. n \in good
  BY <1>1, <1>2, UpTo
<1>4. QED
  BY <1>3 DEF good

-----------------------------------------------------------------------------
(***************************************************************************)
(* The application of a provider                                           *)
(***************************************************************************)

\* The order in which the applications of a world are walked has each of them.
LEMMA OrderShape ==
    ASSUME NEW world \in NativeWorlds, NEW order \in SetToSeqs(DOMAIN world)
    PROVE  /\ Len(order) \in Nat
           /\ \A j \in 1..Len(order) : order[j] \in DOMAIN world
           /\ \A b \in DOMAIN world : \E j \in 1..Len(order) : order[j] = b
<1> DEFINE S == DOMAIN world
           n == Cardinality(S)
<1>1. IsFiniteSet(S) /\ n \in Nat
  BY WorldsAssumption, FS_CardinalityType
<1>2. order \in [1..n -> S] /\ \A i, j \in 1..n : i # j => order[i] # order[j]
  BY DEF SetToSeqs
<1>3. order \in Injection(1..n, S)
  BY <1>2 DEF Injection, IsInjective
<1>4. Cardinality(1..n) = n
  BY <1>1, FS_Interval
<1>5. order \in Surjection(1..n, S)
  BY <1>1, <1>3, <1>4, FS_Injection
<1>6. \A b \in S : \E j \in 1..n : order[j] = b
  BY <1>5 DEF Surjection
<1> HIDE DEF n
<1>7. order \in Seq(S) /\ Len(order) = n
  BY <1>1, <1>2
<1>8. QED
  BY <1>1, <1>2, <1>6, <1>7

\* The applications among the first i of order that have key k.
Owners(order, i, k) == {order[j] : j \in {j \in 1..i : k \in NativeKeys[order[j]]}}

\* What the index holds after the first i applications, in whatever order: a key
\* leads to its only owner, or is ambiguous.
IndexAfter(order, i) ==
    [k \in UNION {NativeKeys[order[j]] : j \in 1..i} |->
        IF \E a : Owners(order, i, k) = {a}
        THEN CHOOSE a : Owners(order, i, k) = {a} ELSE Ambiguous]

\* One step of buildNativeIdentityIndex keeps that.
LEMMA AddKeysShape ==
    ASSUME NEW order, NEW i \in Nat \ {0}, order[i] # Ambiguous
    PROVE  IndexAfter(order, i) = AddKeys(IndexAfter(order, i - 1), order[i])
<1> DEFINE a   == order[i]
           old == IndexAfter(order, i - 1)
           D(m) == UNION {NativeKeys[order[j]] : j \in 1..m}
<1>1. 1..i = (1..(i - 1)) \cup {i}
  OBVIOUS
<1>2. D(i) = D(i - 1) \cup NativeKeys[a]
  BY <1>1
<1>3. DOMAIN old = D(i - 1) /\ DOMAIN IndexAfter(order, i) = D(i)
  BY DEF IndexAfter
<1>4. ASSUME NEW k \in D(i)
      PROVE  IndexAfter(order, i)[k] =
               IF k \notin NativeKeys[a] THEN old[k]
               ELSE IF k \in D(i - 1) /\ old[k] # a THEN Ambiguous ELSE a
  <2> DEFINE O == Owners(order, i - 1, k)
             P == Owners(order, i, k)
  <2>1. P = IF k \in NativeKeys[a] THEN O \cup {a} ELSE O
    BY <1>1 DEF Owners
  <2>2. k \in D(i - 1) <=> O # {}
    BY DEF Owners
  <2>3. IndexAfter(order, i)[k] = IF \E b : P = {b} THEN CHOOSE b : P = {b} ELSE Ambiguous
    BY <1>3 DEF IndexAfter
  <2>4. k \in D(i - 1) => old[k] = IF \E b : O = {b} THEN CHOOSE b : O = {b} ELSE Ambiguous
    BY <1>3 DEF IndexAfter
  <2> HIDE DEF O, P, D, old, a
  <2>5. CASE k \notin NativeKeys[a]
    <3>1. P = O /\ k \in D(i - 1)
      BY <1>2, <2>1, <2>5
    <3>2. QED
      BY <2>3, <2>4, <2>5, <3>1
  <2>6. CASE k \in NativeKeys[a] /\ O = {}
    BY <2>1, <2>2, <2>3, <2>6
  <2>7. CASE k \in NativeKeys[a] /\ \E b : O = {b}
    <3>1. PICK b : O = {b}
      BY <2>7
    <3>2. k \in D(i - 1) /\ old[k] = b
      BY <2>2, <2>4, <3>1
    <3>3. QED
      BY <2>1, <2>3, <2>7, <3>1, <3>2
  <2>8. CASE k \in NativeKeys[a] /\ O # {} /\ ~\E b : O = {b}
    <3>1. k \in D(i - 1) /\ old[k] = Ambiguous
      BY <2>2, <2>4, <2>8
    <3>2. ~\E b : P = {b}
      BY <2>1, <2>8
    <3>3. a # Ambiguous
      BY DEF a
    <3>4. QED
      BY <2>3, <2>8, <3>1, <3>2, <3>3
  <2>9. QED
    BY <2>5, <2>6, <2>7, <2>8
<1>5. QED
  BY <1>2, <1>3, <1>4 DEF AddKeys, IndexAfter

\* The index of a whole order.
LEMMA IndexShape ==
    ASSUME NEW world \in NativeWorlds, NEW order \in SetToSeqs(DOMAIN world)
    PROVE  IdentityIndex(order) = IndexAfter(order, Len(order))
<1> DEFINE n == Len(order)
           solves(f) == f = [i \in 0..n |-> IF i = 0 THEN <<>> ELSE AddKeys(f[i - 1], order[i])]
           g == [i \in 0..n |-> IndexAfter(order, i)]
<1>1. n \in Nat /\ \A i \in 1..n : order[i] # Ambiguous
  BY OrderShape, WorldsAssumption
<1>2. IndexAfter(order, 0) = <<>>
  BY DEF IndexAfter
<1>3. \A i \in 1..n : IndexAfter(order, i) = AddKeys(IndexAfter(order, i - 1), order[i])
  BY <1>1, AddKeysShape
<1> HIDE DEF n
<1>4. solves(g)
  <2>1. ASSUME NEW i \in 0..n
        PROVE  g[i] = IF i = 0 THEN <<>> ELSE AddKeys(g[i - 1], order[i])
    <3>1. CASE i = 0
      BY <1>2, <3>1
    <3>2. CASE i # 0
      <4>1. i \in 1..n /\ i - 1 \in 0..n
        BY <1>1, <3>2
      <4>2. g[i] = IndexAfter(order, i) /\ g[i - 1] = IndexAfter(order, i - 1)
        BY <4>1
      <4>3. QED
        BY <1>3, <3>2, <4>1, <4>2
    <3>3. QED
      BY <3>1, <3>2
  <2>2. QED
    BY <2>1
<1>5. ASSUME NEW f, solves(f) PROVE f[n] = IndexAfter(order, n)
  <2> DEFINE S == {i \in 0..n : f[i] = IndexAfter(order, i)}
  <2>1. 0 \in S
    BY <1>1, <1>2, <1>5
  <2>2. ASSUME NEW i \in 1..n, i - 1 \in S PROVE i \in S
    <3>1. i \in 0..n /\ i # 0
      BY <1>1
    <3>2. f[i] = AddKeys(f[i - 1], order[i])
      BY <1>5, <3>1
    <3>3. QED
      BY <1>3, <2>2, <3>1, <3>2
  <2> HIDE DEF S
  <2>3. 0..n \subseteq S
    BY <1>1, <2>1, <2>2, UpTo
  <2>4. n \in S
    BY <1>1, <2>3
  <2>5. QED
    BY <2>4 DEF S
<1> DEFINE index == CHOOSE f : solves(f)
<1>6. solves(index)
  BY <1>4
<1>7. IdentityIndex(order) = index[n]
  BY DEF IdentityIndex, n
<1> HIDE DEF index, solves, g
<1>8. QED
  BY <1>5, <1>6, <1>7 DEF n

\* A provider that goes to an application of the shell either claims its id or is
\* led there by a key that only this one has, and to no other by such a key.
LEMMA AppOfIsCertain ==
    ASSUME NEW world \in NativeWorlds, NEW order \in SetToSeqs(DOMAIN world),
           AppOf(order) \in DOMAIN world
    PROVE  LET a == AppOf(order) IN
           \/ a = ProviderApp
           \/ Identified(world, a) /\ \A b \in DOMAIN world \ {a} : ~Identified(world, b)
<1> DEFINE n     == Len(order)
           index == IdentityIndex(order)
           owners(k) == {b \in DOMAIN world : k \in NativeKeys[b]}
           candidates == {index[k] : k \in ProviderKeys \cap DOMAIN index} \ {Ambiguous}
           a == AppOf(order)
<1>1. /\ n \in Nat /\ \A j \in 1..n : order[j] \in DOMAIN world
      /\ \A b \in DOMAIN world : \E j \in 1..n : order[j] = b
  BY OrderShape
<1>2. \A k : Owners(order, n, k) = owners(k)
  BY <1>1 DEF Owners
<1> HIDE DEF n, index, owners
<1>3. index = IndexAfter(order, n)
  BY IndexShape DEF index, n
<1>4. \A k : k \in DOMAIN index <=> owners(k) # {}
  <2>1. DOMAIN index = UNION {NativeKeys[order[j]] : j \in 1..n}
    BY <1>3 DEF IndexAfter
  <2>2. QED
    BY <1>1, <2>1 DEF owners
<1>5. \A k \in DOMAIN index :
        /\ \A b : owners(k) = {b} => index[k] = b
        /\ (~\E b : owners(k) = {b}) => index[k] = Ambiguous
  BY <1>2, <1>3 DEF IndexAfter
<1> USE DEF owners
<1>6. Ambiguous \notin DOMAIN world
  BY WorldsAssumption
<1>7. a = IF Cardinality(candidates) = 1 THEN CHOOSE c \in candidates : TRUE ELSE ProviderApp
  BY DEF AppOf, index
<1> HIDE DEF a
<1>8. \A b : b \in candidates <=>
        b \in DOMAIN world /\ \E k \in ProviderKeys : owners(k) = {b}
  <2>1. ASSUME NEW b \in candidates
        PROVE  b \in DOMAIN world /\ \E k \in ProviderKeys : owners(k) = {b}
    <3>1. PICK k \in ProviderKeys \cap DOMAIN index : b = index[k] /\ b # Ambiguous
      BY <2>1
    <3>2. PICK c : owners(k) = {c}
      BY <1>5, <3>1
    <3>3. index[k] = c
      BY <1>5, <3>1, <3>2
    <3>4. QED
      BY <3>1, <3>2, <3>3
  <2>2. ASSUME NEW b \in DOMAIN world, NEW k \in ProviderKeys, owners(k) = {b}
        PROVE  b \in candidates
    <3>1. k \in DOMAIN index
      BY <1>4, <2>2
    <3>2. index[k] = b
      BY <1>5, <2>2, <3>1
    <3>3. QED
      BY <1>6, <3>1, <3>2
  <2>3. QED
    BY <2>1, <2>2
<1>9. \A b \in DOMAIN world : Identified(world, b) <=> \E k \in ProviderKeys : owners(k) = {b}
  BY DEF Identified
<1> HIDE DEF candidates, owners
<1>10. \A b \in DOMAIN world : Identified(world, b) <=> b \in candidates
  BY <1>8, <1>9
<1>11. IsFiniteSet(candidates)
  <2>1. candidates \subseteq DOMAIN world
    BY <1>8
  <2>2. QED
    BY <2>1, WorldsAssumption, FS_Subset
<1>12. CASE Cardinality(candidates) = 1
  <2>1. PICK c : candidates = {c}
    BY <1>11, <1>12, FS_Singleton
  <2>2. a = c
    BY <1>7, <1>12, <2>1
  <2>3. c \in DOMAIN world
    BY <1>8, <2>1
  <2>4. QED
    BY <1>10, <2>1, <2>2, <2>3 DEF a
<1>13. CASE Cardinality(candidates) # 1
  BY <1>7, <1>13 DEF a
<1>14. QED
  BY <1>12, <1>13

-----------------------------------------------------------------------------
(***************************************************************************)
(* The windows of a provider                                               *)
(***************************************************************************)

\* Windows with views, D among them.
WindowsOver(D) ==
    {ws \in UNION {[W -> SUBSET Views] : W \in SUBSET (D \cup 1..MaxPatch)} : D \subseteq DOMAIN ws}

\* A patch, where there is one.
PatchAt(ws, patches, p) ==
    IF p \in DOMAIN patches THEN MergePatch(ws, p, patches[p]) ELSE ws

\* One patch keeps every window and shows views only.
LEMMA PatchKeepsWindows ==
    ASSUME NEW D, NEW ws \in WindowsOver(D), NEW p \in 1..MaxPatch, NEW patches,
           \A q \in DOMAIN patches : patches[q] \subseteq Views
    PROVE  PatchAt(ws, patches, p) \in WindowsOver(D)
<1>1. PICK W \in SUBSET (D \cup 1..MaxPatch) : ws \in [W -> SUBSET Views] /\ D \subseteq W
  BY DEF WindowsOver
<1>2. CASE p \notin DOMAIN patches
  BY <1>2 DEF PatchAt
<1>3. CASE p \in DOMAIN patches /\ Cardinality(W) = 1
  <2>1. PatchAt(ws, patches, p) = [w \in W |-> patches[p]]
    BY <1>1, <1>3 DEF PatchAt, MergePatch
  <2>2. [w \in W |-> patches[p]] \in [W -> SUBSET Views]
    BY <1>3
  <2>3. QED
    BY <1>1, <2>1, <2>2 DEF WindowsOver
<1>4. CASE p \in DOMAIN patches /\ Cardinality(W) # 1
  <2> DEFINE X == W \cup {p}
             g == [w \in X |-> IF w = p THEN patches[p] ELSE ws[w]]
  <2>1. PatchAt(ws, patches, p) = g
    BY <1>1, <1>4 DEF PatchAt, MergePatch
  <2>2. g \in [X -> SUBSET Views] /\ X \in SUBSET (D \cup 1..MaxPatch) /\ D \subseteq X
    BY <1>1, <1>4
  <2> HIDE DEF X, g
  <2>3. g \in WindowsOver(D)
    BY <2>2 DEF WindowsOver
  <2>4. QED
    BY <2>1, <2>3
<1>5. QED
  BY <1>2, <1>3, <1>4

\* So does mergeWindows.
LEMMA MergeKeepsWindows ==
    ASSUME NEW D, NEW windows \in [D -> SUBSET Views], NEW patches,
           \A q \in DOMAIN patches : patches[q] \subseteq Views
    PROVE  MergeWindows(windows, patches) \in WindowsOver(D)
<1> DEFINE n == MaxPatch
           V == WindowsOver(D)
           solves(f) == f = [p \in 0..n |->
                               IF p = 0 THEN windows
                               ELSE IF p \in DOMAIN patches
                                    THEN MergePatch(f[p - 1], p, patches[p]) ELSE f[p - 1]]
           step == [k \in 1..n |-> [v \in V |-> PatchAt(v, patches, k)]]
<1>1. n \in Nat
  BY SurfaceMergeAssumption
<1>2. windows \in V
  BY DEF WindowsOver
<1>3. \A k \in 1..n : \A v \in V : step[k][v] = PatchAt(v, patches, k)
  OBVIOUS
<1>4. StaysIn(V, n, step)
  BY <1>3, PatchKeepsWindows DEF StaysIn
<1> HIDE DEF n, V, step
<1>5. PICK g \in [0..n -> V] : Solves(g, n, windows, step)
  BY <1>1, <1>2, <1>4, RecursionExists
<1>6. solves(g)
  <2>1. ASSUME NEW p \in 0..n
        PROVE  g[p] = IF p = 0 THEN windows
                      ELSE IF p \in DOMAIN patches
                           THEN MergePatch(g[p - 1], p, patches[p]) ELSE g[p - 1]
    <3>1. CASE p = 0
      BY <1>5, <3>1 DEF Solves
    <3>2. CASE p # 0
      <4>1. p \in 1..n /\ p - 1 \in 0..n
        BY <1>1, <3>2
      <4>2. g[p] = PatchAt(g[p - 1], patches, p)
        BY <1>3, <1>5, <4>1 DEF Solves
      <4>3. QED
        BY <3>2, <4>2 DEF PatchAt
    <3>3. QED
      BY <3>1, <3>2
  <2>2. QED
    BY <2>1
<1> DEFINE merged == CHOOSE f : solves(f)
<1>7. solves(merged)
  BY <1>6
<1>8. MergeWindows(windows, patches) = merged[n]
  BY DEF MergeWindows, n
<1> HIDE DEF merged
<1>9. n \in {p \in 0..n : merged[p] \in V}
  <2> DEFINE S == {p \in 0..n : merged[p] \in V}
  <2>1. 0 \in S
    BY <1>1, <1>2, <1>7
  <2>2. ASSUME NEW p \in 1..n, p - 1 \in S PROVE p \in S
    <3>1. p \in 0..n /\ p # 0
      BY <1>1
    <3>2. merged[p] = PatchAt(merged[p - 1], patches, p)
      BY <1>7, <3>1 DEF PatchAt
    <3>3. merged[p] \in V
      BY <1>4, <1>3, <2>2, <3>2 DEF StaysIn
    <3>4. QED
      BY <3>1, <3>3
  <2> HIDE DEF S
  <2>3. 0..n \subseteq S
    BY <1>1, <2>1, <2>2, UpTo
  <2>4. QED
    BY <1>1, <2>3 DEF S
<1>10. QED
  BY <1>8, <1>9 DEF V

-----------------------------------------------------------------------------
(***************************************************************************)
(* The surface                                                             *)
(***************************************************************************)

\* What NativeRemains and AttributionIsCertain say of a surface and the world it is
\* computed from.
Fits(s, world) ==
    /\ DOMAIN world \subseteq DOMAIN s
    /\ \A a \in DOMAIN world : world[a] \subseteq DOMAIN s[a]
    /\ Cardinality(DOMAIN s \ DOMAIN world) <= 1
    /\ ViewsIn(s) \subseteq Views
    /\ \A a \in DOMAIN world :
         UNION Range(s[a]) # {} =>
            \/ a = ProviderApp
            \/ Identified(world, a) /\ \A b \in DOMAIN world \ {a} : ~Identified(world, b)

\* What a host publishes becomes patches with its views.
LEMMA PatchesShow ==
    ASSUME NEW msg \in Messages
    PROVE  \A q \in DOMAIN Patches(msg) : Patches(msg)[q] \subseteq Views
<1>1. msg.views \subseteq Views
  BY DEF Messages
<1>2. DOMAIN EditorPatches(msg.views) = {1} /\ EditorPatches(msg.views)[1] = msg.views
  BY DEF EditorPatches
<1>3. \A q \in DOMAIN BrowserPatches(msg.views) :
        BrowserPatches(msg.views)[q] \subseteq msg.views
  BY DEF BrowserPatches
<1>4. QED
  BY <1>1, <1>2, <1>3 DEF Patches

LEMMA BareFits ==
    ASSUME NEW world \in NativeWorlds
    PROVE  Fits(ApplyNone(world), world)
<1> DEFINE s == ApplyNone(world)
<1>1. DOMAIN s = DOMAIN world /\ \A a \in DOMAIN world : s[a] = [w \in world[a] |-> {}]
  BY DEF ApplyNone
<1> HIDE DEF s
<1>2. \A a \in DOMAIN world : DOMAIN s[a] = world[a] /\ UNION Range(s[a]) = {}
  BY <1>1 DEF Range
<1>3. Cardinality(DOMAIN s \ DOMAIN world) = 0
  <2>1. DOMAIN s \ DOMAIN world = {}
    BY <1>1
  <2>2. QED
    BY <2>1, FS_EmptySet
<1>4. ViewsIn(s) = {}
  BY <1>1, <1>2 DEF ViewsIn
<1>5. QED
  BY <1>1, <1>2, <1>3, <1>4 DEF Fits, s

LEMMA ApplyFits ==
    ASSUME NEW world \in NativeWorlds, NEW order \in SetToSeqs(DOMAIN world), NEW patches,
           \A q \in DOMAIN patches : patches[q] \subseteq Views
    PROVE  Fits(Apply(world, order, patches), world)
<1> DEFINE s == Apply(world, order, patches)
           a == AppOf(order)
           D == IF a \in DOMAIN world THEN world[a] ELSE {}
           windows == [w \in D |-> {}]
<1>1. /\ DOMAIN s = DOMAIN world \cup {a}
      /\ \A b \in DOMAIN world \ {a} : s[b] = [w \in world[b] |-> {}]
      /\ s[a] = MergeWindows(windows, patches)
  <2>1. windows = IF a \in DOMAIN world
                  THEN [b \in DOMAIN world |-> [w \in world[b] |-> {}]][a] ELSE <<>>
    <3>1. CASE a \in DOMAIN world
      BY <3>1
    <3>2. CASE a \notin DOMAIN world
      <4>1. D = {}
        BY <3>2
      <4>2. windows = <<>>
        BY <4>1
      <4>3. QED
        BY <3>2, <4>2
    <3>3. QED
      BY <3>1, <3>2
  <2>2. QED
    BY <2>1 DEF Apply
<1>2. s[a] \in WindowsOver(D)
  <2>1. windows \in [D -> SUBSET Views]
    OBVIOUS
  <2>2. QED
    BY <1>1, <2>1, MergeKeepsWindows
<1> HIDE DEF s, a, D
<1>3. D \subseteq DOMAIN s[a] /\ UNION Range(s[a]) \subseteq Views
  <2>1. PICK W : s[a] \in [W -> SUBSET Views] /\ D \subseteq DOMAIN s[a]
    BY <1>2 DEF WindowsOver
  <2>2. QED
    BY <2>1 DEF Range
<1>4. \A b \in DOMAIN world \ {a} : DOMAIN s[b] = world[b] /\ UNION Range(s[b]) = {}
  BY <1>1 DEF Range
<1>5. Cardinality(DOMAIN s \ DOMAIN world) <= 1
  <2>1. DOMAIN s \ DOMAIN world \subseteq {a} /\ IsFiniteSet({a}) /\ Cardinality({a}) = 1
    BY <1>1, FS_Singleton
  <2>2. QED
    BY <2>1, FS_Subset
<1>6. \A b \in DOMAIN world : world[b] \subseteq DOMAIN s[b]
  BY <1>3, <1>4 DEF D
<1>7. ViewsIn(s) \subseteq Views
  <2>1. \A b \in DOMAIN s : UNION Range(s[b]) \subseteq Views
    BY <1>1, <1>3, <1>4
  <2>2. QED
    BY <2>1 DEF ViewsIn
<1>8. ASSUME NEW b \in DOMAIN world, UNION Range(s[b]) # {}
      PROVE  \/ b = ProviderApp
             \/ Identified(world, b) /\ \A c \in DOMAIN world \ {b} : ~Identified(world, c)
  <2>1. b = a
    BY <1>4, <1>8
  <2>2. QED
    BY <2>1, AppOfIsCertain DEF a
<1>9. QED
  BY <1>1, <1>5, <1>6, <1>7, <1>8 DEF Fits, s

-----------------------------------------------------------------------------
(***************************************************************************)
(* The protocol                                                            *)
(***************************************************************************)

\* Everything but the surface is typed.
ConnTypes ==
    /\ tabs \in [Hosts -> SUBSET Views] /\ revision \in [Hosts -> Nat]
    /\ timer \subseteq Hosts
    /\ socket \in [Hosts -> Conns \cup {NoConn}]
    /\ conns \in [Conns -> Connections \cup {Nothing}]
    /\ entry \in Entries \cup {Nothing}
    /\ send \in Sends \cup {Nothing}

\* A host writes to a connection of its own that the server handles; a command
\* under way has one to write to.
PeerInv ==
    /\ \A h \in Hosts : socket[h] # NoConn =>
          /\ conns[socket[h]] # Nothing
          /\ conns[socket[h]].open /\ conns[socket[h]].host = h
    /\ send # Nothing => conns[send.conn] # Nothing

\* The client is the connection that registered last, which is still handled.
ClientInv ==
    /\ ClientIsLatest
    /\ latest # NoConn => /\ latest \in Conns /\ conns[latest] # Nothing
                          /\ conns[latest].registered

Inv == ConnTypes /\ PeerInv /\ ClientInv

\* Connections are numbered from one.
LEMMA NoConnApart == NoConn \notin Conns
BY RichProvidersAssumption DEF NoConn, Conns

\* What a host sends is a message.
LEMMA MessageTyped ==
    ASSUME ConnTypes, NEW h \in Hosts
    PROVE  Message(h) \in Messages
<1>1. revision[h] + 1 \in Nat \ {0}
  BY DEF ConnTypes
<1>2. QED
  BY <1>1 DEF ConnTypes, Message, Messages

\* A connection of which only the two queues change remains what it is.
LEMMA QueuesChange ==
    ASSUME Inv, NEW c \in Conns, conns[c] # Nothing,
           NEW d \in Connections, d.host = conns[c].host, d.open = conns[c].open,
           conns[c].registered => d.registered,
           conns' = [conns EXCEPT ![c] = d], UNCHANGED socket
    PROVE  /\ conns' \in [Conns -> Connections \cup {Nothing}]
           /\ \A e \in Conns : conns[e] # Nothing => conns'[e] # Nothing
           /\ \A e \in Conns : conns[e] # Nothing /\ conns[e].registered =>
                conns'[e].registered
           /\ \A h \in Hosts : socket'[h] # NoConn =>
                /\ conns'[socket'[h]] # Nothing
                /\ conns'[socket'[h]].open /\ conns'[socket'[h]].host = h
BY NothingAssumption DEF Inv, ConnTypes, PeerInv

\* A command under way has a connection.
LEMMA SendHasConn ==
    ASSUME ConnTypes, send # Nothing
    PROVE  send \in Sends /\ send.conn \in Conns /\ send.view \in Views
BY DEF ConnTypes, Sends

LEMMA StepInv == Inv /\ [Next]_vars => Inv'
<1> SUFFICES ASSUME Inv, [Next]_vars PROVE Inv'
  OBVIOUS
<1> USE NoConnApart DEF host, daemon
<1>0. ConnTypes /\ PeerInv /\ ClientInv
  BY DEF Inv
<1>1. CASE UNCHANGED vars
  BY <1>0, <1>1 DEF vars, Inv, ConnTypes, PeerInv, ClientInv, ClientIsLatest
<1>2. ASSUME NEW h \in Hosts, TabsChange(h) PROVE Inv'
  BY <1>0, <1>2 DEF TabsChange, Inv, ConnTypes, PeerInv, ClientInv, ClientIsLatest
<1>3. ASSUME NEW h \in Hosts, PublishOnSocket(h) PROVE Inv'
  <2> DEFINE c == socket[h]
             d == [conns[c] EXCEPT !.inbox = Append(conns[c].inbox, Message(h))]
  <2>1. c \in Conns /\ conns[c] \in Connections /\ conns[c] # Nothing
    BY <1>0, <1>3 DEF PublishOnSocket, ConnTypes, PeerInv
  <2>2. conns' = [conns EXCEPT ![c] = d]
    BY <1>3 DEF PublishOnSocket
  <2>3. /\ d \in Connections /\ d.host = conns[c].host /\ d.open = conns[c].open
        /\ d.registered = conns[c].registered
    <3>1. Append(conns[c].inbox, Message(h)) \in Seq(Messages)
      BY <1>0, <2>1, MessageTyped DEF Connections
    <3>2. QED
      BY <2>1, <3>1 DEF Connections
  <2> HIDE DEF c, d
  <2>4. /\ conns' \in [Conns -> Connections \cup {Nothing}]
        /\ \A e \in Conns : conns[e] # Nothing => conns'[e] # Nothing
        /\ \A e \in Conns : conns[e] # Nothing /\ conns[e].registered => conns'[e].registered
        /\ \A g \in Hosts : socket'[g] # NoConn =>
             /\ conns'[socket'[g]] # Nothing
             /\ conns'[socket'[g]].open /\ conns'[socket'[g]].host = g
    <3>1. UNCHANGED socket
      BY <1>3 DEF PublishOnSocket
    <3>2. QED
      BY <2>1, <2>2, <2>3, <3>1, QueuesChange
  <2>5. revision' \in [Hosts -> Nat]
    BY <1>0, <1>3 DEF PublishOnSocket, ConnTypes
  <2>6. /\ timer' \subseteq timer
        /\ UNCHANGED <<tabs, socket, entry, send, client, latest>>
    BY <1>3 DEF PublishOnSocket
  <2>7. ConnTypes'
    BY <1>0, <2>4, <2>5, <2>6 DEF ConnTypes
  <2>8. PeerInv'
    BY <1>0, <2>4, <2>6, SendHasConn DEF PeerInv
  <2>9. ClientInv'
    BY <1>0, <2>4, <2>6 DEF ClientInv, ClientIsLatest
  <2>10. QED
    BY <2>7, <2>8, <2>9 DEF Inv
<1>4. ASSUME NEW h \in Hosts, NEW c \in Conns, PublishAndConnect(h, c) PROVE Inv'
  <2> DEFINE d == [host |-> h, inbox |-> <<Message(h)>>, commands |-> <<>>, open |-> TRUE,
                   registered |-> FALSE]
  <2>1. d \in Connections /\ d # Nothing /\ d.open /\ d.host = h
    <3> DEFINE q == <<Message(h)>>
               r == <<>>
    <3>1. q \in Seq(Messages)
      BY <1>0, MessageTyped
    <3>2. r \in Seq(Views)
      OBVIOUS
    <3> HIDE DEF q, r
    <3>3. [host |-> h, inbox |-> q, commands |-> r, open |-> TRUE, registered |-> FALSE]
             \in Connections
      BY <3>1, <3>2 DEF Connections
    <3>4. d \in Connections
      BY <3>3 DEF q, r
    <3>5. QED
      BY <3>4, NothingAssumption
  <2>2. conns' = [conns EXCEPT ![c] = d] /\ conns[c] = Nothing
        /\ socket' = [socket EXCEPT ![h] = c]
    BY <1>4 DEF PublishAndConnect
  <2> HIDE DEF d
  <2>3. revision' \in [Hosts -> Nat] /\ timer' \subseteq Hosts
    BY <1>0, <1>4 DEF PublishAndConnect, ConnTypes
  <2>4. UNCHANGED <<tabs, entry, send, client, latest>>
    BY <1>4 DEF PublishAndConnect
  <2>5. /\ conns' \in [Conns -> Connections \cup {Nothing}] /\ conns'[c] = d
        /\ \A e \in Conns : conns[e] # Nothing => e # c /\ conns'[e] = conns[e]
    BY <1>0, <2>1, <2>2 DEF ConnTypes
  <2>6. /\ socket' \in [Hosts -> Conns \cup {NoConn}] /\ socket'[h] = c
        /\ \A g \in Hosts : g # h => socket'[g] = socket[g]
    BY <1>0, <2>2 DEF ConnTypes
  <2>7. ConnTypes'
    BY <1>0, <2>3, <2>4, <2>5, <2>6 DEF ConnTypes
  <2>8. PeerInv'
    <3>1. ASSUME NEW g \in Hosts, socket'[g] # NoConn
          PROVE  /\ conns'[socket'[g]] # Nothing
                 /\ conns'[socket'[g]].open /\ conns'[socket'[g]].host = g
      <4>1. CASE g = h
        BY <4>1, <2>1, <2>5, <2>6
      <4>2. CASE g # h
        <5>1. socket'[g] = socket[g] /\ socket[g] \in Conns /\ conns[socket[g]] # Nothing
          BY <1>0, <3>1, <4>2, <2>6 DEF ConnTypes, PeerInv
        <5>2. QED
          BY <1>0, <3>1, <5>1, <2>5 DEF PeerInv
      <4>3. QED
        BY <4>1, <4>2
    <3>2. send' # Nothing => conns'[send'.conn] # Nothing
      BY <1>0, <2>4, <2>5, SendHasConn DEF PeerInv
    <3>3. QED
      BY <3>1, <3>2 DEF PeerInv
  <2>9. ClientInv'
    BY <1>0, <2>4, <2>5 DEF ClientInv, ClientIsLatest
  <2>10. QED
    BY <2>7, <2>8, <2>9 DEF Inv
<1>5. ASSUME NEW h \in Hosts, DialFails(h) PROVE Inv'
  BY <1>0, <1>5 DEF DialFails, Inv, ConnTypes, PeerInv, ClientInv, ClientIsLatest
<1>6. ASSUME NEW h \in Hosts, ConnectionDrops(h) PROVE Inv'
  <2> DEFINE c == socket[h]
             d == [conns[c] EXCEPT !.open = FALSE]
  <2>1. c \in Conns /\ conns[c] \in Connections /\ conns[c] # Nothing /\ conns[c].host = h
    BY <1>0, <1>6 DEF ConnectionDrops, ConnTypes, PeerInv
  <2>2. conns' = [conns EXCEPT ![c] = d] /\ socket' = [socket EXCEPT ![h] = NoConn]
    BY <1>6 DEF ConnectionDrops
  <2>3. d \in Connections /\ d # Nothing /\ d.registered = conns[c].registered
    BY <2>1, NothingAssumption DEF Connections
  <2>4. \A g \in Hosts \ {h} : socket[g] # NoConn => socket[g] # c
    BY <1>0, <2>1 DEF PeerInv
  <2> HIDE DEF c, d
  <2>5. UNCHANGED <<tabs, revision, entry, send, client, latest>> /\ timer' \subseteq Hosts
    BY <1>0, <1>6 DEF ConnectionDrops, Lost, ConnTypes
  <2>6. /\ conns' \in [Conns -> Connections \cup {Nothing}] /\ conns'[c] = d
        /\ \A e \in Conns : e # c => conns'[e] = conns[e]
    BY <1>0, <2>1, <2>2, <2>3 DEF ConnTypes
  <2>7. /\ socket' \in [Hosts -> Conns \cup {NoConn}]
        /\ \A g \in Hosts : socket'[g] = IF g = h THEN NoConn ELSE socket[g]
    BY <1>0, <2>2 DEF ConnTypes
  <2>8. ConnTypes'
    BY <1>0, <2>5, <2>6, <2>7 DEF ConnTypes
  <2>9. PeerInv'
    <3>1. ASSUME NEW g \in Hosts, socket'[g] # NoConn
          PROVE  /\ conns'[socket'[g]] # Nothing
                 /\ conns'[socket'[g]].open /\ conns'[socket'[g]].host = g
      <4>1. g # h /\ socket'[g] = socket[g] /\ socket[g] \in Conns
        BY <1>0, <2>7, <3>1 DEF ConnTypes
      <4>2. conns'[socket[g]] = conns[socket[g]]
        BY <2>4, <2>6, <3>1, <4>1
      <4>3. QED
        BY <1>0, <3>1, <4>1, <4>2 DEF PeerInv
    <3>2. send' # Nothing => conns'[send'.conn] # Nothing
      BY <1>0, <2>3, <2>5, <2>6, SendHasConn DEF PeerInv
    <3>3. QED
      BY <3>1, <3>2 DEF PeerInv
  <2>10. ClientInv'
    BY <1>0, <2>1, <2>3, <2>5, <2>6 DEF ClientInv, ClientIsLatest
  <2>11. QED
    BY <2>8, <2>9, <2>10 DEF Inv
<1>7. ASSUME NEW h \in Hosts, HostReloads(h) PROVE Inv'
  <2> DEFINE d(c) == [conns[c] EXCEPT !.open = FALSE, !.commands = <<>>]
  <2>1. ASSUME NEW c \in Conns, c = socket[h]
        PROVE  /\ conns[c] \in Connections /\ d(c) \in Connections /\ d(c) # Nothing
               /\ d(c).registered = conns[c].registered /\ conns[c].host = h
    <3>1. conns[c] \in Connections /\ conns[c].host = h
      BY <1>0, <1>7, <2>1 DEF HostReloads, ConnTypes, PeerInv
    <3> DEFINE r == <<>>
    <3>2. r \in Seq(Views)
      OBVIOUS
    <3> HIDE DEF r
    <3>3. /\ [conns[c] EXCEPT !.open = FALSE, !.commands = r] \in Connections
          /\ [conns[c] EXCEPT !.open = FALSE, !.commands = r].registered = conns[c].registered
      BY <3>1, <3>2 DEF Connections
    <3>4. QED
      BY <3>1, <3>3, NothingAssumption DEF r
  <2>2. /\ conns' = [c \in Conns |-> IF c = socket[h] THEN d(c) ELSE conns[c]]
        /\ socket' = [socket EXCEPT ![h] = NoConn]
    BY <1>7 DEF HostReloads
  <2>3. \A g \in Hosts \ {h} : socket[g] # NoConn => socket[g] # socket[h]
    BY <1>0 DEF PeerInv
  <2> HIDE DEF d
  <2>4. ConnTypes'
    <3>1. conns' \in [Conns -> Connections \cup {Nothing}]
      BY <1>0, <2>1, <2>2 DEF ConnTypes
    <3>2. revision' \in [Hosts -> Nat] /\ timer' \subseteq Hosts
      BY <1>0, <1>7 DEF HostReloads, ConnTypes
    <3>3. socket' \in [Hosts -> Conns \cup {NoConn}]
      BY <1>0, <2>2 DEF ConnTypes
    <3>4. QED
      BY <1>0, <1>7, <3>1, <3>2, <3>3 DEF HostReloads, ConnTypes
  <2>5. PeerInv'
    <3>1. ASSUME NEW g \in Hosts, socket'[g] # NoConn
          PROVE  /\ conns'[socket'[g]] # Nothing
                 /\ conns'[socket'[g]].open /\ conns'[socket'[g]].host = g
      <4>1. g # h /\ socket'[g] = socket[g] /\ socket[g] \in Conns
        BY <1>0, <2>2, <3>1 DEF ConnTypes
      <4>2. conns'[socket[g]] = conns[socket[g]]
        BY <2>2, <2>3, <3>1, <4>1
      <4>3. QED
        BY <1>0, <3>1, <4>1, <4>2 DEF PeerInv
    <3>2. send' # Nothing => conns'[send'.conn] # Nothing
      <4>1. UNCHANGED send
        BY <1>7 DEF HostReloads
      <4>2. QED
        BY <1>0, <2>1, <2>2, <4>1, SendHasConn DEF PeerInv
    <3>3. QED
      BY <3>1, <3>2 DEF PeerInv
  <2>6. ClientInv'
    <3>1. UNCHANGED <<client, latest>>
      BY <1>7 DEF HostReloads
    <3>2. QED
      BY <1>0, <2>1, <2>2, <3>1 DEF ClientInv, ClientIsLatest
  <2>7. QED
    BY <2>4, <2>5, <2>6 DEF Inv
<1>8. ASSUME NEW h \in Hosts, HostHandles(h) PROVE Inv'
  <2> DEFINE c == socket[h]
             d == [conns[c] EXCEPT !.commands = Tail(conns[c].commands)]
  <2>1. c \in Conns /\ conns[c] \in Connections /\ conns[c] # Nothing
    BY <1>0, <1>8 DEF HostHandles, ConnTypes, PeerInv
  <2>2. conns' = [conns EXCEPT ![c] = d]
    BY <1>8 DEF HostHandles
  <2>3. /\ d \in Connections /\ d.host = conns[c].host /\ d.open = conns[c].open
        /\ d.registered = conns[c].registered
    <3>1. Tail(conns[c].commands) \in Seq(Views)
      BY <1>8, <2>1 DEF HostHandles, Connections
    <3>2. QED
      BY <2>1, <3>1 DEF Connections
  <2> HIDE DEF c, d
  <2>4. /\ conns' \in [Conns -> Connections \cup {Nothing}]
        /\ \A e \in Conns : conns[e] # Nothing => conns'[e] # Nothing
        /\ \A e \in Conns : conns[e] # Nothing /\ conns[e].registered => conns'[e].registered
        /\ \A g \in Hosts : socket'[g] # NoConn =>
             /\ conns'[socket'[g]] # Nothing
             /\ conns'[socket'[g]].open /\ conns'[socket'[g]].host = g
    <3>1. UNCHANGED socket
      BY <1>8 DEF HostHandles
    <3>2. QED
      BY <2>1, <2>2, <2>3, <3>1, QueuesChange
  <2>5. tabs' \in [Hosts -> SUBSET Views] /\ timer' \subseteq Hosts
    BY <1>0, <1>8 DEF HostHandles, ConnTypes
  <2>6. UNCHANGED <<revision, socket, entry, send, client, latest>>
    BY <1>8 DEF HostHandles
  <2>7. ConnTypes'
    BY <1>0, <2>4, <2>5, <2>6 DEF ConnTypes
  <2>8. PeerInv'
    BY <1>0, <2>4, <2>6, SendHasConn DEF PeerInv
  <2>9. ClientInv'
    BY <1>0, <2>4, <2>6 DEF ClientInv, ClientIsLatest
  <2>10. QED
    BY <2>7, <2>8, <2>9 DEF Inv
<1>9. ASSUME NEW c \in Conns, Handle(c) PROVE Inv'
  <2> DEFINE msg == Head(conns[c].inbox)
             new == [msg |-> msg, fresh |-> TRUE]
             d   == [conns[c] EXCEPT !.inbox = Tail(conns[c].inbox)]
             e   == [d EXCEPT !.registered = TRUE]
  <2>1. conns[c] \in Connections /\ conns[c] # Nothing /\ conns[c].inbox # <<>>
    BY <1>0, <1>9 DEF Handle, ConnTypes
  <2>2. /\ d \in Connections /\ d.host = conns[c].host /\ d.open = conns[c].open
        /\ d.registered = conns[c].registered
        /\ e \in Connections /\ e.host = conns[c].host /\ e.open = conns[c].open
        /\ e.registered
    <3>1. Tail(conns[c].inbox) \in Seq(Messages)
      BY <2>1 DEF Connections
    <3>2. QED
      BY <2>1, <3>1 DEF Connections
  <2>3. new \in Entries
    <3>1. msg \in Messages
      BY <2>1 DEF Connections
    <3>2. QED
      BY <3>1 DEF Entries
  <2>4. CASE StaleRevision(msg)
    <3>1. conns' = [conns EXCEPT ![c] = d] /\ UNCHANGED <<entry, client, latest>>
      BY <1>9, <2>4 DEF Handle
    <3> HIDE DEF d, e, msg, new
    <3>2. /\ conns' \in [Conns -> Connections \cup {Nothing}]
          /\ \A b \in Conns : conns[b] # Nothing => conns'[b] # Nothing
          /\ \A b \in Conns : conns[b] # Nothing /\ conns[b].registered => conns'[b].registered
          /\ \A g \in Hosts : socket'[g] # NoConn =>
               /\ conns'[socket'[g]] # Nothing
               /\ conns'[socket'[g]].open /\ conns'[socket'[g]].host = g
      BY <1>9, <2>1, <2>2, <3>1, QueuesChange DEF Handle
    <3>3. QED
      BY <1>0, <1>9, <3>1, <3>2
         DEF Handle, Inv, ConnTypes, PeerInv, ClientInv, ClientIsLatest, Sends
  <2>5. CASE ~StaleRevision(msg)
    <3>1. /\ entry' = new /\ Register(c)
          /\ conns' = [conns EXCEPT ![c].inbox = Tail(@), ![c].registered = TRUE]
      BY <1>9, <2>5 DEF Handle
    <3>2. conns' = [conns EXCEPT ![c] = e]
      BY <1>0, <3>1 DEF ConnTypes
    <3> HIDE DEF d, e, msg, new
    <3>3. /\ conns' \in [Conns -> Connections \cup {Nothing}]
          /\ \A b \in Conns : conns[b] # Nothing => conns'[b] # Nothing
          /\ \A b \in Conns : conns[b] # Nothing /\ conns[b].registered => conns'[b].registered
          /\ \A g \in Hosts : socket'[g] # NoConn =>
               /\ conns'[socket'[g]] # Nothing
               /\ conns'[socket'[g]].open /\ conns'[socket'[g]].host = g
      BY <1>9, <2>1, <2>2, <3>2, QueuesChange DEF Handle
    <3>4. conns'[c].registered
      BY <1>0, <2>2, <3>2 DEF ConnTypes
    <3>5. ClientInv'
      BY <1>0, <2>1, <3>1, <3>3, <3>4 DEF Register, ClientInv, ClientIsLatest
    <3>6. QED
      BY <1>0, <1>9, <2>3, <3>1, <3>3, <3>5 DEF Handle, Inv, ConnTypes, PeerInv, Sends
  <2>6. QED
    BY <2>4, <2>5
<1>10. ASSUME NEW c \in Conns, HandleEnds(c) PROVE Inv'
  <2>1. \A g \in Hosts : socket[g] # NoConn => socket[g] # c
    BY <1>0, <1>10 DEF HandleEnds, PeerInv
  <2>2. ConnTypes'
    BY <1>0, <1>10 DEF HandleEnds, ConnTypes
  <2>3. PeerInv'
    BY <1>0, <1>10, <2>1 DEF HandleEnds, ConnTypes, PeerInv, Sends
  <2>4. ClientInv'
    BY <1>0, <1>10 DEF HandleEnds, Unregister, ConnTypes, ClientInv, ClientIsLatest
  <2>5. QED
    BY <2>2, <2>3, <2>4 DEF Inv
<1>11. CASE Expire
  <2>1. entry' \in Entries \cup {Nothing}
    BY <1>0, <1>11 DEF Expire, ConnTypes, Entries
  <2>2. QED
    BY <1>0, <1>11, <2>1 DEF Expire, Inv, ConnTypes, PeerInv, ClientInv, ClientIsLatest
<1>12. CASE Tick \/ NativeChange
  BY <1>0, <1>12 DEF Tick, NativeChange, Inv, ConnTypes, PeerInv, ClientInv, ClientIsLatest
<1>13. ASSUME NEW v \in Views, CloseView(v) PROVE Inv'
  <2>1. client \in Conns /\ conns[client] # Nothing
    BY <1>0, <1>13 DEF CloseView, ClientInv, ClientIsLatest
  <2>2. send' \in Sends /\ send'.conn = client
    BY <1>13, <2>1 DEF CloseView, Sends
  <2>3. QED
    BY <1>0, <1>13, <2>1, <2>2
       DEF CloseView, Inv, ConnTypes, PeerInv, ClientInv, ClientIsLatest
<1>14. CASE SendWrite
  <2> DEFINE c == send.conn
             d == [conns[c] EXCEPT !.commands =
                     IF conns[c].open THEN Append(conns[c].commands, send.view)
                     ELSE conns[c].commands]
  <2>1. c \in Conns /\ conns[c] \in Connections /\ conns[c] # Nothing /\ send.view \in Views
    BY <1>0, <1>14 DEF SendWrite, ConnTypes, PeerInv, Sends
  <2>2. conns' = [conns EXCEPT ![c] = d]
    BY <1>14 DEF SendWrite
  <2>3. /\ d \in Connections /\ d.host = conns[c].host /\ d.open = conns[c].open
        /\ d.registered = conns[c].registered
    <3>1. Append(conns[c].commands, send.view) \in Seq(Views) /\ conns[c].commands \in Seq(Views)
      BY <2>1 DEF Connections
    <3>2. QED
      BY <2>1, <3>1 DEF Connections
  <2> HIDE DEF c, d
  <2>4. /\ conns' \in [Conns -> Connections \cup {Nothing}]
        /\ \A e \in Conns : conns[e] # Nothing => conns'[e] # Nothing
        /\ \A e \in Conns : conns[e] # Nothing /\ conns[e].registered => conns'[e].registered
        /\ \A g \in Hosts : socket'[g] # NoConn =>
             /\ conns'[socket'[g]] # Nothing
             /\ conns'[socket'[g]].open /\ conns'[socket'[g]].host = g
    BY <1>14, <2>1, <2>2, <2>3, QueuesChange DEF SendWrite
  <2>5. QED
    BY <1>0, <1>14, <2>4 DEF SendWrite, Inv, ConnTypes, PeerInv, ClientInv, ClientIsLatest
<1>15. CASE DaemonRestart
  <2>1. ConnTypes'
    BY <1>0, <1>15 DEF DaemonRestart, Lost, ConnTypes
  <2>2. PeerInv' /\ ClientInv'
    BY <1>0, <1>15 DEF DaemonRestart, PeerInv, ClientInv, ClientIsLatest
  <2>3. QED
    BY <2>1, <2>2 DEF Inv
<1>16. QED
  BY <1>1, <1>2, <1>3, <1>4, <1>5, <1>6, <1>7, <1>8, <1>9, <1>10, <1>11, <1>12, <1>13, <1>14,
     <1>15 DEF Next, Progress

LEMMA InitInv == Init => Inv
<1> SUFFICES ASSUME Init PROVE Inv
  OBVIOUS
<1>1. hosts \subseteq Hosts
  BY RichProvidersAssumption DEF Init, Start
<1>2. QED
  BY <1>1, NoConnApart DEF Init, Inv, ConnTypes, PeerInv, ClientInv, ClientIsLatest

\* Actions.clients holds the connection that was registered last, until its handler
\* ends (server.register and the function it returns): whichever order handlers of
\* the same provider end in, none takes away the registration of another, and no
\* connection stays registered that nobody handles.
THEOREM ClientCorrect == Spec => []ClientIsLatest
<1>1. Inv => ClientIsLatest
  BY DEF Inv, ClientInv
<1>2. QED
  BY <1>1, InitInv, StepInv, PTL DEF Spec

-----------------------------------------------------------------------------
(***************************************************************************)
(* What the surface shows                                                  *)
(***************************************************************************)

\* The surface was computed from what the shell shows now.
SurfaceInv ==
    /\ hosts \subseteq Hosts /\ unheard \subseteq Hosts
    /\ native \in NativeWorlds /\ budget \in Budget
    /\ Fits(surface, native)

\* What a Refresh publishes fits the world it is computed from, whatever the registry
\* holds and in whatever order it walks the applications.
LEMMA RefreshFits ==
    ASSUME NEW e \in Entries \cup {Nothing}, NEW world \in NativeWorlds,
           NEW order \in SetToSeqs(DOMAIN world)
    PROVE  Fits(IF e # Nothing /\ e.fresh THEN Apply(world, order, Patches(e.msg))
                ELSE ApplyNone(world), world)
<1>1. CASE e # Nothing /\ e.fresh
  <2>1. e.msg \in Messages
    BY <1>1 DEF Entries
  <2>2. \A q \in DOMAIN Patches(e.msg) : Patches(e.msg)[q] \subseteq Views
    BY <2>1, PatchesShow
  <2>3. QED
    BY <1>1, <2>2, ApplyFits
<1>2. CASE ~(e # Nothing /\ e.fresh)
  BY <1>2, BareFits
<1>3. QED
  BY <1>1, <1>2

\* A budget that is spent remains one.
LEMMA SpendTyped ==
    ASSUME budget \in Budget, NEW x \in DOMAIN budget, Spend(x)
    PROVE  budget' \in Budget
<1>1. x \in {"changes", "commands", "natives", "expiries", "reloads", "drops", "dials"}
  BY DEF Budget
<1>2. budget[x] - 1 \in Nat /\ budget' = [budget EXCEPT ![x] = budget[x] - 1]
  BY <1>1 DEF Spend, Budget
<1>3. QED
  BY <1>1, <1>2 DEF Budget

LEMMA StepSurfaceInv == Inv /\ SurfaceInv /\ [Next]_vars => SurfaceInv'
<1> SUFFICES ASSUME Inv, SurfaceInv, [Next]_vars PROVE SurfaceInv'
  OBVIOUS
<1> USE DEF host, daemon
<1>0. /\ ConnTypes /\ PeerInv
      /\ DOMAIN budget = {"changes", "commands", "natives", "expiries", "reloads", "drops",
                          "dials"}
  BY DEF Inv, SurfaceInv, Budget
<1>1. CASE UNCHANGED vars
  BY <1>1 DEF vars, SurfaceInv, Fits, ViewsIn
<1>2. ASSUME NEW h \in Hosts, TabsChange(h) \/ DialFails(h) \/ ConnectionDrops(h)
                              \/ HostReloads(h)
      PROVE  SurfaceInv'
  <2>1. budget' \in Budget
    BY <1>0, <1>2, SpendTyped
       DEF SurfaceInv, TabsChange, DialFails, ConnectionDrops, HostReloads
  <2>2. UNCHANGED <<hosts, native, surface>> /\ unheard' \subseteq Hosts
    BY <1>2 DEF SurfaceInv, TabsChange, DialFails, ConnectionDrops, HostReloads, Lost
  <2>3. QED
    BY <2>1, <2>2 DEF SurfaceInv
<1>3. ASSUME NEW h \in Hosts, PublishOnSocket(h) \/ HostHandles(h) PROVE SurfaceInv'
  BY <1>3 DEF SurfaceInv, PublishOnSocket, HostHandles
<1>4. ASSUME NEW h \in Hosts, NEW c \in Conns, PublishAndConnect(h, c) PROVE SurfaceInv'
  BY <1>4 DEF SurfaceInv, PublishAndConnect
<1>5. ASSUME NEW c \in Conns, Handle(c) PROVE SurfaceInv'
  <2>1. UNCHANGED <<hosts, native, budget>> /\ unheard' \subseteq Hosts
    BY <1>5 DEF SurfaceInv, Handle
  <2> DEFINE msg == Head(conns[c].inbox)
             new == [msg |-> msg, fresh |-> TRUE]
  <2>2. CASE StaleRevision(msg)
    BY <1>5, <2>1, <2>2 DEF SurfaceInv, Handle
  <2>3. CASE ~StaleRevision(msg)
    <3>1. new \in Entries
      <4>1. conns[c] \in Connections /\ conns[c].inbox # <<>>
        BY <1>0, <1>5 DEF ConnTypes, Handle
      <4>2. msg \in Messages
        BY <4>1 DEF Connections
      <4>3. QED
        BY <4>2 DEF Entries
    <3>2. Refreshed(new, native)
      BY <1>5, <2>3 DEF Handle
    <3> HIDE DEF new
    <3>3. Fits(surface', native)
      BY <3>1, <3>2, RefreshFits DEF Refreshed, SurfaceInv
    <3>4. QED
      BY <2>1, <3>3 DEF SurfaceInv
  <2>4. QED
    BY <2>2, <2>3
<1>6. ASSUME NEW c \in Conns, HandleEnds(c) PROVE SurfaceInv'
  BY <1>6 DEF SurfaceInv, HandleEnds
<1>7. CASE Expire
  BY <1>0, <1>7, SpendTyped DEF SurfaceInv, Expire
<1>8. CASE Tick
  <2>1. UNCHANGED <<hosts, unheard, native, budget>>
    BY <1>8 DEF Tick
  <2>2. Fits(surface', native)
    BY <1>0, <1>8, RefreshFits DEF Tick, Refreshed, SurfaceInv, ConnTypes
  <2>3. QED
    BY <2>1, <2>2 DEF SurfaceInv
<1>9. CASE NativeChange
  <2>1. UNCHANGED <<hosts, unheard>> /\ native' \in NativeWorlds /\ budget' \in Budget
    BY <1>0, <1>9, SpendTyped DEF NativeChange, SurfaceInv
  <2>2. Fits(surface', native')
    BY <1>0, <1>9, <2>1, RefreshFits DEF NativeChange, Refreshed, ConnTypes
  <2>3. QED
    BY <2>1, <2>2 DEF SurfaceInv
<1>10. ASSUME NEW v \in Views, CloseView(v) PROVE SurfaceInv'
  BY <1>0, <1>10, SpendTyped DEF SurfaceInv, CloseView
<1>11. CASE SendWrite
  BY <1>11 DEF SurfaceInv, SendWrite
<1>12. CASE DaemonRestart
  <2>1. UNCHANGED <<hosts, native>> /\ budget' \in Budget /\ unheard' \subseteq Hosts
    BY <1>0, <1>12, SpendTyped DEF SurfaceInv, DaemonRestart, Lost
  <2>2. Fits(surface', native)
    BY <1>12, BareFits DEF SurfaceInv, DaemonRestart
  <2>3. QED
    BY <2>1, <2>2 DEF SurfaceInv
<1>13. QED
  BY <1>1, <1>2, <1>3, <1>4, <1>5, <1>6, <1>7, <1>8, <1>9, <1>10, <1>11, <1>12
     DEF Next, Progress

LEMMA InitSurfaceInv == Init => SurfaceInv
<1> SUFFICES ASSUME Init PROVE SurfaceInv
  OBVIOUS
<1>1. hosts \subseteq Hosts /\ native \in NativeWorlds /\ budget \in Budget
  BY RichProvidersAssumption DEF Init, Start
<1>2. Fits(surface, native)
  BY <1>1, BareFits DEF Init
<1>3. QED
  BY <1>1, <1>2 DEF Init, SurfaceInv

\* Whatever a provider publishes, loses or lets expire (Registry.Apply, RunMaintenance),
\* every application and window the shell shows stays on display, at most one
\* application is added, and the whole state is well typed: for any native worlds,
\* tabs, browser windows and hosts.
THEOREM NativeCorrect == Spec => []NativeRemains
<1>1. Inv /\ SurfaceInv => NativeRemains
  <2> SUFFICES ASSUME Inv, SurfaceInv PROVE NativeRemains
    OBVIOUS
  <2>1. {client, latest} \subseteq Conns \cup {NoConn}
    BY DEF Inv, ClientInv, ClientIsLatest
  <2>2. TypeOK
    BY <2>1 DEF Inv, ConnTypes, SurfaceInv, Fits, TypeOK
  <2>3. QED
    BY <2>2 DEF SurfaceInv, Fits, NativeRemains
<1>2. QED
  BY <1>1, InitInv, StepInv, InitSurfaceInv, StepSurfaceInv, PTL DEF Spec

\* The views of a provider are shown with an application of the shell only if the
\* provider claims its id, or a key of the provider is that application's alone and
\* no other application has such a key (buildNativeIdentityIndex,
\* resolveNativeIdentity): for any keys and applications, and in whatever order the
\* registry's map is walked.
THEOREM AttributionCorrect == Spec => []AttributionIsCertain
<1>1. SurfaceInv => AttributionIsCertain
  BY DEF SurfaceInv, Fits, AttributionIsCertain
<1>2. QED
  BY <1>1, InitInv, StepInv, InitSurfaceInv, StepSurfaceInv, PTL DEF Spec
=============================================================================
