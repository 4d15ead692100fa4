---------------------------- MODULE MergesProofs ----------------------------
(***************************************************************************)
(* Theorems of the three parts of MCMerges: of Merge, two admins at once   *)
(* on bare rows, and one request at a time with children and items; of     *)
(* RoundFolding, the partner's deals and the rounds of others.  For any    *)
(* rows, children, keys, admins and items, any deals, rounds and facts.    *)
(***************************************************************************)
EXTENDS MCMerges, Integers, Sequences, FiniteSetTheorems, WellFoundedInduction, TLAPS

\* A nonempty set of numbers has a least one.
LEMMA LeastOf ==
    ASSUME NEW T \in SUBSET Nat, T # {}
    PROVE  \E n \in T : \A k \in T : n <= k
<1>1. PICK n \in T : \A k \in T : ~ (<<k, n>> \in OpToRel(<, Nat))
  BY NatLessThanWellFounded, WFMin
<1>2. \A k \in T : n <= k
  <2> TAKE k \in T
  <2>1. ~ (k < n)
    BY <1>1 DEF OpToRel
  <2> QED BY <2>1
<1> QED BY <1>2

----------------------------------------------------------------------------
(* Rows folded into rows: m is mergedInto.  There is no round trip, so     *)
(* following it ends on a live row, the root.                              *)

Tree(m) == m \in [Row -> Row \cup {None}]
Acyclic(m) == \A S \in SUBSET Row : S # {} => \E x \in S : m[x] \notin S

\* f[n][x]: the row n hops from x.
Hops(f, m, N) ==
    f = [n \in 0 .. N |-> [x \in Row |-> IF n = 0 \/ m[x] = None THEN x ELSE f[n - 1][m[x]]]]

\* r leads every row to the one its chain ends on.
IsRoot(r, m) == r \in [Row -> Row] /\ \A x \in Row : r[x] = IF m[x] = None THEN x ELSE r[m[x]]
RootOf(m) == CHOOSE r : IsRoot(r, m)

\* There is such a function, for any number of hops.
LEMMA HopsExist ==
    ASSUME NEW m, NEW N \in Nat
    PROVE  \E f : Hops(f, m, N)
<1> DEFINE T == {k \in Nat : ~ \E f : Hops(f, m, k)}
<1>1. SUFFICES ASSUME T # {} PROVE FALSE
  OBVIOUS
<1>2. PICK n \in T : \A k \in T : n <= k
  <2>1. T \in SUBSET Nat
    OBVIOUS
  <2> HIDE DEF T
  <2> QED BY <1>1, <2>1, LeastOf
<1>3. n \in Nat /\ ~ \E f : Hops(f, m, n)
  OBVIOUS
<1>4. n # 0
  <2> DEFINE f == [i \in 0 .. 0 |-> [x \in Row |-> x]]
  <2>1. Hops(f, m, 0)
    BY DEF Hops
  <2> QED BY <1>3, <2>1
<1>5. n - 1 \in Nat /\ n - 1 \notin T
  BY <1>2, <1>3, <1>4
<1>6. PICK f : Hops(f, m, n - 1)
  BY <1>5
<1> HIDE DEF T
<1> DEFINE last == [x \in Row |-> IF m[x] = None THEN x ELSE f[n - 1][m[x]]]
           g == [i \in 0 .. n |-> IF i < n THEN f[i] ELSE last]
           step(i) == [x \in Row |-> IF i = 0 \/ m[x] = None THEN x ELSE g[i - 1][m[x]]]
<1>7. ASSUME NEW i \in 0 .. n PROVE g[i] = step(i)
  <2>1. CASE i = n
    <3>1. g[n - 1] = f[n - 1] /\ g[i] = last
      BY <1>3, <1>4, <2>1
    <3> HIDE DEF g
    <3> QED BY <1>4, <2>1, <3>1
  <2>2. CASE i < n
    <3>1. i \in 0 .. n - 1 /\ i - 1 < n
      BY <1>3, <2>2
    <3>2. f[i] = [x \in Row |-> IF i = 0 \/ m[x] = None THEN x ELSE f[i - 1][m[x]]]
      BY <1>6, <3>1 DEF Hops
    <3>3. g[i] = f[i] /\ (i # 0 => g[i - 1] = f[i - 1])
      BY <1>3, <2>2, <3>1
    <3> HIDE DEF g
    <3> QED BY <3>2, <3>3
  <2>3. i = n \/ i < n
    BY <1>3
  <2> QED BY <2>1, <2>2, <2>3
<1>8. g = [i \in 0 .. n |-> g[i]]
  OBVIOUS
<1> HIDE DEF g
<1>9. Hops(g, m, n)
  BY <1>7, <1>8 DEF Hops
<1> QED BY <1>3, <1>9

\* Induction up to a number.
LEMMA UpTo ==
    ASSUME NEW N \in Nat, NEW G,
           0 \in G, \A n \in 0 .. N : n \in G /\ n # N => n + 1 \in G
    PROVE  \A n \in 0 .. N : n \in G
<1> DEFINE T == {n \in 0 .. N : n \notin G}
<1>1. SUFFICES ASSUME T # {} PROVE FALSE
  OBVIOUS
<1>2. PICK n \in T : \A k \in T : n <= k
  <2>1. T \in SUBSET Nat
    OBVIOUS
  <2> HIDE DEF T
  <2> QED BY <1>1, <2>1, LeastOf
<1>3. n \in 0 .. N /\ n \notin G /\ n # 0
  OBVIOUS
<1>4. n - 1 \in 0 .. N /\ n - 1 \notin T /\ n - 1 # N
  BY <1>2, <1>3
<1>5. n - 1 \in G
  BY <1>4
<1>6. (n - 1) + 1 \in G
  BY <1>4, <1>5
<1>7. (n - 1) + 1 = n
  BY <1>3
<1> QED BY <1>3, <1>6, <1>7

\* Folding a row into a live one, and taking a row out, keep it acyclic.
LEMMA FoldedIsAcyclic ==
    ASSUME None \notin Row, NEW m, Tree(m), Acyclic(m),
           NEW s \in Row, NEW l \in Row, s # l, m[s] = None
    PROVE  Tree([m EXCEPT ![l] = s]) /\ Acyclic([m EXCEPT ![l] = s])
<1> DEFINE w == [m EXCEPT ![l] = s]
<1>1. Tree(w)
  BY DEF Tree
<1>2. \A x \in Row : w[x] = IF x = l THEN s ELSE m[x]
  BY DEF Tree
<1>3. ASSUME NEW S \in SUBSET Row, S # {} PROVE \E x \in S : w[x] \notin S
  <2>1. PICK x \in S : m[x] \notin S
    BY <1>3 DEF Acyclic
  <2>2. CASE s \in S
    BY <1>2, <2>2
  <2>3. CASE s \notin S
    BY <1>2, <2>1, <2>3
  <2> QED BY <2>2, <2>3
<1> QED BY <1>1, <1>3 DEF Acyclic

LEMMA UnfoldedIsAcyclic ==
    ASSUME None \notin Row, NEW m, Tree(m), Acyclic(m), NEW l \in Row
    PROVE  Tree([m EXCEPT ![l] = None]) /\ Acyclic([m EXCEPT ![l] = None])
<1> DEFINE w == [m EXCEPT ![l] = None]
<1>1. Tree(w)
  BY DEF Tree
<1>2. \A x \in Row : w[x] = IF x = l THEN None ELSE m[x]
  BY DEF Tree
<1>3. ASSUME NEW S \in SUBSET Row, S # {} PROVE \E x \in S : w[x] \notin S
  <2>1. PICK x \in S : m[x] \notin S
    BY <1>3 DEF Acyclic
  <2> QED BY <1>2, <2>1
<1> QED BY <1>1, <1>3 DEF Acyclic

\* As many hops as there are rows lead every row to a live one.
LEMMA HopsSettle ==
    ASSUME None \notin Row, IsFiniteSet(Row), NEW m, Tree(m), Acyclic(m),
           NEW N, N = Cardinality(Row), NEW f, Hops(f, m, N)
    PROVE  IsRoot(f[N], m) /\ \A x \in Row : f[N][x] \in Row /\ m[f[N][x]] = None
<1>1. N \in Nat
  BY FS_CardinalityType
<1>a. ASSUME NEW n \in 0 .. N
      PROVE  /\ f[n] = [x \in Row |-> f[n][x]]
             /\ \A x \in Row : f[n][x] = IF n = 0 \/ m[x] = None THEN x ELSE f[n - 1][m[x]]
  <2>1. f[n] = [x \in Row |-> IF n = 0 \/ m[x] = None THEN x ELSE f[n - 1][m[x]]]
    BY DEF Hops
  <2> QED BY <2>1
<1>2. \A n \in 0 .. N : f[n] = [x \in Row |-> f[n][x]]
  BY <1>a
<1>3. \A n \in 0 .. N, x \in Row :
        f[n][x] = IF n = 0 \/ m[x] = None THEN x ELSE f[n - 1][m[x]]
  BY <1>a
<1>4. \A x \in Row : m[x] # None => m[x] \in Row
  BY DEF Tree
<1>5. \A n \in 0 .. N : \A x \in Row : f[n][x] \in Row
  <2> DEFINE G == {n \in 0 .. N : \A x \in Row : f[n][x] \in Row}
  <2>1. 0 \in G
    BY <1>1, <1>3
  <2>2. ASSUME NEW n \in 0 .. N, n \in G, n # N PROVE n + 1 \in G
    <3>1. n + 1 \in 0 .. N /\ n + 1 # 0 /\ (n + 1) - 1 = n
      BY <1>1, <2>2
    <3>2. ASSUME NEW x \in Row PROVE f[n + 1][x] \in Row
      <4>1. f[n + 1][x] = IF m[x] = None THEN x ELSE f[n][m[x]]
        BY <1>3, <3>1
      <4> QED BY <1>4, <2>2, <4>1
    <3> QED BY <3>1, <3>2
  <2> HIDE DEF G
  <2>3. \A n \in 0 .. N : n \in G
    BY <1>1, <2>1, <2>2, UpTo
  <2> QED BY <2>3 DEF G
<1>6. \A n \in 0 .. N : n # N => \A x \in Row : m[f[n][x]] = None => f[n + 1][x] = f[n][x]
  <2> DEFINE G == {n \in 0 .. N : n # N => \A x \in Row : m[f[n][x]] = None => f[n + 1][x] = f[n][x]}
  <2>1. 0 \in G
    <3>1. ASSUME N # 0, NEW x \in Row, m[f[0][x]] = None PROVE f[0 + 1][x] = f[0][x]
      <4>1. f[0][x] = x
        BY <1>1, <1>3
      <4>2. 1 \in 0 .. N
        BY <1>1, <3>1
      <4> QED BY <1>3, <3>1, <4>1, <4>2
    <3> QED BY <1>1, <3>1
  <2>2. ASSUME NEW n \in 0 .. N, n \in G, n # N PROVE n + 1 \in G
    <3>1. n + 1 \in 0 .. N /\ n + 1 # 0 /\ (n + 1) - 1 = n
      BY <1>1, <2>2
    <3>2. ASSUME n + 1 # N, NEW x \in Row, m[f[n + 1][x]] = None
          PROVE  f[(n + 1) + 1][x] = f[n + 1][x]
      <4>1. (n + 1) + 1 \in 0 .. N /\ (n + 1) + 1 # 0 /\ ((n + 1) + 1) - 1 = n + 1
        BY <1>1, <3>1, <3>2
      <4>2. CASE m[x] = None
        BY <1>3, <3>1, <4>1, <4>2
      <4>3. CASE m[x] # None
        <5>1. f[n + 1][x] = f[n][m[x]] /\ f[(n + 1) + 1][x] = f[n + 1][m[x]]
          BY <1>3, <3>1, <4>1, <4>3
        <5>2. m[x] \in Row /\ m[f[n][m[x]]] = None
          BY <1>4, <3>2, <4>3, <5>1
        <5> QED BY <2>2, <5>1, <5>2
      <4> QED BY <4>2, <4>3
    <3> QED BY <3>1, <3>2
  <2> HIDE DEF G
  <2>3. \A n \in 0 .. N : n \in G
    BY <1>1, <2>1, <2>2, UpTo
  <2> QED BY <2>3 DEF G
<1> DEFINE Settled(n) == {x \in Row : m[f[n][x]] = None}
<1>7. \A n \in 0 .. N : Settled(n) = Row \/ n + 1 <= Cardinality(Settled(n))
  <2> DEFINE G == {n \in 0 .. N : Settled(n) = Row \/ n + 1 <= Cardinality(Settled(n))}
  <2>1. \A n \in 0 .. N : IsFiniteSet(Settled(n)) /\ Cardinality(Settled(n)) \in Nat
    <3> TAKE n \in 0 .. N
    <3>1. Settled(n) \subseteq Row
      OBVIOUS
    <3> HIDE DEF Settled
    <3>2. IsFiniteSet(Settled(n))
      BY <3>1, FS_Subset
    <3> QED BY <3>2, FS_CardinalityType
  \* A set of rows that is not settled loses one in the next hop.
  <2>2. ASSUME NEW n \in 0 .. N, n # N, Settled(n) # Row
        PROVE  Cardinality(Settled(n)) + 1 <= Cardinality(Settled(n + 1))
    <3>1. n + 1 \in 0 .. N /\ n + 1 # 0 /\ (n + 1) - 1 = n
      BY <1>1, <2>2
    <3>2. PICK x \in Row \ Settled(n) : m[x] \notin Row \ Settled(n)
      BY <2>2 DEF Acyclic
    <3>3. m[x] # None
      <4>1. CASE m[x] = None
        <5>1. f[n][x] = x
          BY <1>3, <4>1
        <5> QED BY <3>2, <4>1, <5>1
      <4> QED BY <4>1
    <3>4. m[x] \in Settled(n)
      BY <1>4, <3>2, <3>3
    <3>5. f[n + 1][x] = f[n][m[x]]
      BY <1>3, <3>1, <3>3
    <3>6. x \in Settled(n + 1)
      BY <3>4, <3>5
    <3>7. Settled(n) \subseteq Settled(n + 1)
      BY <1>6, <2>2
    <3>8. x \notin Settled(n)
      BY <3>2
    <3> HIDE DEF Settled
    <3>9. IsFiniteSet(Settled(n)) /\ IsFiniteSet(Settled(n + 1))
            /\ Cardinality(Settled(n)) \in Nat /\ Cardinality(Settled(n + 1)) \in Nat
      BY <2>1, <3>1
    <3>10. Cardinality(Settled(n) \cup {x}) = Cardinality(Settled(n)) + 1
      BY <3>8, <3>9, FS_AddElement
    <3>11. Settled(n) \cup {x} \subseteq Settled(n + 1)
      BY <3>6, <3>7
    <3>12. Cardinality(Settled(n) \cup {x}) <= Cardinality(Settled(n + 1))
      BY <3>9, <3>11, FS_Subset
    <3> QED BY <3>9, <3>10, <3>12
  <2>3. 0 \in G
    <3>1. CASE Row = {}
      BY <1>1, <3>1
    <3>2. CASE Row # {}
      <4>1. PICK x \in Row : m[x] \notin Row
        BY <3>2 DEF Acyclic
      <4>2. m[x] = None /\ f[0][x] = x
        BY <1>1, <1>3, <1>4, <4>1
      <4>3. x \in Settled(0)
        BY <4>2
      <4> HIDE DEF Settled
      <4>4. IsFiniteSet(Settled(0)) /\ Cardinality(Settled(0)) \in Nat
        BY <1>1, <2>1
      <4>5. Cardinality(Settled(0)) # 0
        BY <4>3, <4>4, FS_EmptySet
      <4>6. 0 + 1 <= Cardinality(Settled(0))
        BY <4>4, <4>5
      <4> QED BY <1>1, <4>6
    <3> QED BY <3>1, <3>2
  <2>4. ASSUME NEW n \in 0 .. N, n \in G, n # N PROVE n + 1 \in G
    <3>1. n + 1 \in 0 .. N
      BY <1>1, <2>4
    <3>2. CASE Settled(n) = Row
      <4>1. Settled(n) \subseteq Settled(n + 1)
        BY <1>6, <2>4
      <4>2. Settled(n + 1) \subseteq Row
        OBVIOUS
      <4> HIDE DEF Settled
      <4>3. Settled(n + 1) = Row
        BY <3>2, <4>1, <4>2
      <4> QED BY <3>1, <4>3
    <3>3. CASE Settled(n) # Row
      <4>1. Cardinality(Settled(n)) + 1 <= Cardinality(Settled(n + 1))
        BY <2>2, <2>4, <3>3
      <4> HIDE DEF Settled
      <4>2. Cardinality(Settled(n)) \in Nat /\ Cardinality(Settled(n + 1)) \in Nat
        BY <2>1, <3>1
      <4>3. n + 1 <= Cardinality(Settled(n))
        BY <2>4, <3>3
      <4>4. (n + 1) + 1 <= Cardinality(Settled(n + 1))
        BY <4>1, <4>2, <4>3
      <4> QED BY <3>1, <4>4
    <3> QED BY <3>2, <3>3
  <2> HIDE DEF G, Settled
  <2>5. \A n \in 0 .. N : n \in G
    BY <1>1, <2>3, <2>4, UpTo
  <2> QED BY <2>5 DEF G
<1>8. \A n \in 0 .. N : n + 1 = N => Settled(n) = Row
  <2> TAKE n \in 0 .. N
  <2> HAVE n + 1 = N
  <2>1. CASE n + 1 <= Cardinality(Settled(n))
    <3>1. Settled(n) \subseteq Row
      OBVIOUS
    <3> HIDE DEF Settled
    <3>2. Cardinality(Settled(n)) <= N /\ IsFiniteSet(Settled(n))
      BY <3>1, FS_Subset
    <3>3. Cardinality(Settled(n)) \in Nat
      BY <3>2, FS_CardinalityType
    <3>4. Cardinality(Settled(n)) = N
      BY <1>1, <2>1, <3>2, <3>3
    <3> QED BY <3>1, <3>4, FS_Subset
  <2> HIDE DEF Settled
  <2> QED BY <1>7, <2>1
<1>9. ASSUME NEW x \in Row PROVE m[f[N][x]] = None /\ N # 0
  <2>1. N # 0
    BY <1>9, FS_EmptySet
  <2>2. N - 1 \in 0 .. N /\ (N - 1) + 1 = N /\ N - 1 # N
    BY <1>1, <2>1
  <2>3. Settled(N - 1) = Row
    BY <1>8, <2>2
  <2>4. m[f[N - 1][x]] = None
    BY <2>3
  <2>5. f[N][x] = f[N - 1][x]
    BY <1>6, <2>2, <2>4
  <2> QED BY <2>1, <2>4, <2>5
<1>10. ASSUME NEW x \in Row, m[x] # None PROVE f[N][x] = f[N][m[x]]
  <2>1. N \in 0 .. N /\ N - 1 \in 0 .. N /\ (N - 1) + 1 = N /\ N - 1 # N /\ N # 0
    BY <1>1, <1>9
  <2>2. m[x] \in Row
    BY <1>4, <1>10
  <2>3. f[N][x] = f[N - 1][m[x]]
    BY <1>3, <1>10, <2>1
  <2>4. Settled(N - 1) = Row
    BY <1>8, <2>1
  <2>5. m[f[N - 1][m[x]]] = None
    BY <2>2, <2>4
  <2>6. f[N][m[x]] = f[N - 1][m[x]]
    BY <1>6, <2>1, <2>2, <2>5
  <2> QED BY <2>3, <2>6
<1>11. N \in 0 .. N
  BY <1>1
<1>12. \A x \in Row : m[x] = None => f[N][x] = x
  BY <1>3, <1>11
<1>13. f[N] \in [Row -> Row]
  BY <1>2, <1>5, <1>11
<1>14. IsRoot(f[N], m)
  BY <1>10, <1>12, <1>13 DEF IsRoot
<1> QED BY <1>5, <1>9, <1>11, <1>14

----------------------------------------------------------------------------
(* Two admins at once. *)

\* Merge's own names for what the lemmas on finite sets are about.
LEMMA OverlapSets ==
    ASSUME NEW S
    PROVE  (Overlap!IsFiniteSet(S) <=> IsFiniteSet(S)) /\ Overlap!Cardinality(S) = Cardinality(S)
<1>1. Overlap!IsFiniteSet(S) <=> IsFiniteSet(S)
  BY DEF Overlap!IsFiniteSet, IsFiniteSet
<1>2. Overlap!Cardinality(S) = Cardinality(S)
  BY DEF Overlap!Cardinality, Cardinality
<1> QED BY <1>1, <1>2

\* Rows that are folded without a round trip lead to live ones.
LEMMA OverlapRootsAreLive ==
    ASSUME Overlap!MergeAssumption, Tree(mergedInto), Acyclic(mergedInto)
    PROVE  Overlap!TombstonesReachALiveRow
<1>1. None \notin Row /\ IsFiniteSet(Row)
  BY OverlapSets DEF Overlap!MergeAssumption
<1>2. PICK N : N = Cardinality(Row)
  OBVIOUS
<1>3. N \in Nat /\ Overlap!Cardinality(Row) = N
  BY <1>1, <1>2, FS_CardinalityType, OverlapSets
<1>4. \E f : Hops(f, mergedInto, N)
  BY <1>3, HopsExist
<1>5. Overlap!Follow = CHOOSE f : Hops(f, mergedInto, N)
  BY <1>3 DEF Overlap!Follow, Overlap!Live, Hops
<1>6. Hops(Overlap!Follow, mergedInto, N)
  BY <1>4, <1>5
<1>7. \A x \in Row : mergedInto[Overlap!Follow[N][x]] = None
  BY <1>1, <1>2, <1>6, HopsSettle
<1> QED BY <1>3, <1>7 DEF Overlap!TombstonesReachALiveRow, Overlap!Root, Overlap!Live

\* A request names two rows; one that has read them holds both locks, so what
\* it read is still true.
OverlapRequests ==
    \A a \in AdminPair :
        /\ req[a].pc # "idle" => req[a].survivor \in Row /\ req[a].losing \in Row
        /\ req[a].pc # "idle" /\ req[a].op = "merge" => req[a].survivor # req[a].losing
        /\ req[a].pc # "idle" /\ req[a].op = "unmerge" =>
             /\ req[a].record \in DOMAIN records
             /\ records[req[a].record].survivor = req[a].survivor
             /\ records[req[a].record].losing = req[a].losing
        /\ req[a].pc = "ready" =>
             /\ rowLock[req[a].survivor] = a /\ rowLock[req[a].losing] = a
             /\ Overlap!Allowed(req[a])

OverlapInv ==
    /\ Overlap!TypeOK /\ items = {} /\ lastItem = 0
    /\ Acyclic(mergedInto)
    /\ OverlapRequests

LEMMA OverlapStarts ==
    ASSUME Overlap!MergeAssumption, Overlap!Init
    PROVE  OverlapInv
<1> USE DEF Overlap!Init
<1>0. None \notin Row /\ None \notin AdminPair
  BY DEF Overlap!MergeAssumption
<1>1. lastItem = 0 /\ items = {}
  <2>1. lastItem = 0
    BY FS_EmptySet, OverlapSets
  <2> QED BY <2>1
<1>2. Overlap!TypeOK
  BY <1>1 DEF Overlap!TypeOK, Overlap!Request, Overlap!IdleRequest
<1>3. Acyclic(mergedInto)
  BY <1>0 DEF Acyclic
<1>4. OverlapRequests
  BY DEF OverlapRequests, Overlap!IdleRequest
<1> QED BY <1>1, <1>2, <1>3, <1>4 DEF OverlapInv

\* What leaves the rows, records and locks alone and changes one request that
\* is idle or has read nothing.
LEMMA OverlapRequestStep ==
    ASSUME OverlapInv, NEW a \in AdminPair, NEW r \in Overlap!Request,
           req' = [req EXCEPT ![a] = r], r.pc # "ready",
           r.pc # "idle" => r.survivor \in Row /\ r.losing \in Row,
           r.pc # "idle" /\ r.op = "merge" => r.survivor # r.losing,
           r.pc # "idle" /\ r.op = "unmerge" =>
             /\ r.record \in DOMAIN records
             /\ records[r.record].survivor = r.survivor
             /\ records[r.record].losing = r.losing,
           candidates' \in [Overlap!Pair -> {"ABSENT", "PENDING", "MERGED", "REJECTED"}],
           UNCHANGED <<mergedInto, owner, items, lastItem, records, rowLock, home>>
    PROVE  OverlapInv'
<1>1. req \in [AdminPair -> Overlap!Request]
  BY DEF OverlapInv, Overlap!TypeOK
<1>2. req' \in [AdminPair -> Overlap!Request] /\ req'[a] = r
        /\ \A b \in AdminPair : b # a => req'[b] = req[b]
  BY <1>1
<1>3. Overlap!TypeOK'
  BY <1>2 DEF OverlapInv, Overlap!TypeOK
<1>4. OverlapRequests'
  <2> SUFFICES ASSUME NEW b \in AdminPair
               PROVE  /\ req'[b].pc # "idle" => req'[b].survivor \in Row /\ req'[b].losing \in Row
                      /\ req'[b].pc # "idle" /\ req'[b].op = "merge" => req'[b].survivor # req'[b].losing
                      /\ req'[b].pc # "idle" /\ req'[b].op = "unmerge" =>
                           /\ req'[b].record \in DOMAIN records
                           /\ records[req'[b].record].survivor = req'[b].survivor
                           /\ records[req'[b].record].losing = req'[b].losing
                      /\ req'[b].pc = "ready" =>
                           /\ rowLock[req'[b].survivor] = b /\ rowLock[req'[b].losing] = b
                           /\ Overlap!Allowed(req[b])' 
    BY DEF OverlapRequests, Overlap!Allowed, Overlap!Live
  <2>1. CASE b = a
    BY <1>2, <2>1
  <2>2. CASE b # a
    BY <1>2, <2>2 DEF OverlapInv, OverlapRequests, Overlap!Allowed, Overlap!Live
  <2> QED BY <2>1, <2>2
<1> QED BY <1>3, <1>4 DEF OverlapInv

LEMMA OverlapReads ==
    ASSUME OverlapInv, NEW a \in AdminPair,
           \/ \E p \in Overlap!Pair : Overlap!readCandidate(a, p)
           \/ Overlap!reject(a)
           \/ \E s, l \in Row : Overlap!mergeCandidate(a, s, l)
           \/ \E n \in DOMAIN records : Overlap!readRecord(a, n)
    PROVE  OverlapInv'
<1>0. /\ candidates \in [Overlap!Pair -> {"ABSENT", "PENDING", "MERGED", "REJECTED"}]
      /\ \A n \in DOMAIN records : n \in Nat /\ records[n] \in Overlap!Record
      /\ Overlap!IdleRequest \in Overlap!Request /\ Overlap!IdleRequest.pc = "idle"
  BY DEF OverlapInv, Overlap!TypeOK, Overlap!Request, Overlap!IdleRequest
<1>1. ASSUME NEW p \in Overlap!Pair, Overlap!readCandidate(a, p) PROVE OverlapInv'
  <2>1. PICK x \in Row, y \in Row : req' = [req EXCEPT ![a] =
          [Overlap!IdleRequest EXCEPT !.pc = "begun", !.op = "reject", !.survivor = x, !.losing = y]]
    BY <1>1 DEF Overlap!readCandidate
  <2> DEFINE r == [Overlap!IdleRequest EXCEPT !.pc = "begun", !.op = "reject", !.survivor = x, !.losing = y]
  <2>2. r \in Overlap!Request /\ r.pc = "begun" /\ r.op = "reject" /\ r.survivor = x /\ r.losing = y
    BY DEF Overlap!Request, Overlap!IdleRequest
  <2>3. req' = [req EXCEPT ![a] = r] /\ candidates' = candidates
          /\ UNCHANGED <<mergedInto, owner, items, lastItem, records, rowLock, home>>
    BY <1>1, <2>1 DEF Overlap!readCandidate
  <2> HIDE DEF r
  <2> QED BY <1>0, <2>2, <2>3, OverlapRequestStep
<1>2. CASE Overlap!reject(a)
  <2>1. candidates' \in [Overlap!Pair -> {"ABSENT", "PENDING", "MERGED", "REJECTED"}]
    BY <1>0, <1>2 DEF Overlap!reject
  <2>2. req' = [req EXCEPT ![a] = Overlap!IdleRequest]
          /\ UNCHANGED <<mergedInto, owner, items, lastItem, records, rowLock, home>>
    BY <1>2 DEF Overlap!reject
  <2> QED BY <1>0, <2>1, <2>2, OverlapRequestStep
<1>3. ASSUME NEW s \in Row, NEW l \in Row, Overlap!mergeCandidate(a, s, l) PROVE OverlapInv'
  <2> DEFINE r == [Overlap!IdleRequest EXCEPT !.pc = "begun", !.op = "merge", !.survivor = s, !.losing = l]
  <2>2. r \in Overlap!Request /\ r.pc = "begun" /\ r.op = "merge" /\ r.survivor = s /\ r.losing = l
    BY DEF Overlap!Request, Overlap!IdleRequest
  <2>3. req' = [req EXCEPT ![a] = r] /\ candidates' = candidates /\ s # l
          /\ UNCHANGED <<mergedInto, owner, items, lastItem, records, rowLock, home>>
    BY <1>3 DEF Overlap!mergeCandidate
  <2> HIDE DEF r
  <2> QED BY <1>0, <2>2, <2>3, OverlapRequestStep
<1>4. ASSUME NEW n \in DOMAIN records, Overlap!readRecord(a, n) PROVE OverlapInv'
  <2> DEFINE r == [Overlap!IdleRequest EXCEPT !.pc = "begun", !.op = "unmerge",
                     !.survivor = records[n].survivor, !.losing = records[n].losing, !.record = n]
  <2>1. records[n].survivor \in Row /\ records[n].losing \in Row /\ n \in Nat
    BY <1>0 DEF Overlap!Record
  <2>2. r \in Overlap!Request /\ r.pc = "begun" /\ r.op = "unmerge" /\ r.record = n
          /\ r.survivor = records[n].survivor /\ r.losing = records[n].losing
    BY <2>1 DEF Overlap!Request, Overlap!IdleRequest
  <2>3. req' = [req EXCEPT ![a] = r] /\ candidates' = candidates
          /\ UNCHANGED <<mergedInto, owner, items, lastItem, records, rowLock, home>>
    BY <1>4 DEF Overlap!readRecord
  <2> HIDE DEF r
  <2> QED BY <1>0, <2>1, <2>2, <2>3, OverlapRequestStep
<1> QED BY <1>1, <1>2, <1>3, <1>4

LEMMA OverlapReadsRows ==
    ASSUME Overlap!MergeAssumption, OverlapInv, NEW a \in AdminPair, Overlap!readRows(a)
    PROVE  OverlapInv'
<1>0. None \notin Row /\ None \notin AdminPair
  BY DEF Overlap!MergeAssumption
<1>1. /\ req \in [AdminPair -> Overlap!Request] /\ rowLock \in [Row -> AdminPair \cup {None}]
      /\ req[a] \in Overlap!Request /\ req[a].pc = "begun" /\ req[a].op # "reject"
      /\ req[a].survivor \in Row /\ req[a].losing \in Row
  BY DEF OverlapInv, OverlapRequests, Overlap!TypeOK, Overlap!readRows
<1>2. UNCHANGED <<mergedInto, owner, items, lastItem, candidates, records, home>>
  BY DEF Overlap!readRows
<1>3. CASE ~ Overlap!Allowed(req[a])
  <2>1. Overlap!IdleRequest \in Overlap!Request /\ Overlap!IdleRequest.pc = "idle"
    BY DEF Overlap!Request, Overlap!IdleRequest
  <2>2. req' = [req EXCEPT ![a] = Overlap!IdleRequest] /\ UNCHANGED rowLock
    BY <1>3 DEF Overlap!readRows
  <2>3. candidates' \in [Overlap!Pair -> {"ABSENT", "PENDING", "MERGED", "REJECTED"}]
    BY <1>2 DEF OverlapInv, Overlap!TypeOK
  <2> QED BY <1>2, <2>1, <2>2, <2>3, OverlapRequestStep
<1>4. CASE Overlap!Allowed(req[a])
  <2> DEFINE r == [req[a] EXCEPT !.pc = "ready"]
             both == {req[a].survivor, req[a].losing}
  <2>1. req' = [req EXCEPT ![a] = r]
    BY <1>4 DEF Overlap!readRows
  <2>2. r \in Overlap!Request /\ r.pc = "ready" /\ r.op = req[a].op /\ r.record = req[a].record
          /\ r.survivor = req[a].survivor /\ r.losing = req[a].losing
    BY <1>1 DEF Overlap!Request
  <2>3. (\A x \in both : rowLock[x] = None) /\ rowLock' = [x \in Row |-> IF x \in both THEN a ELSE rowLock[x]]
    BY <1>4 DEF Overlap!readRows, Overlap!LockCompanies
  <2>4. rowLock' \in [Row -> AdminPair \cup {None}] /\ rowLock'[req[a].survivor] = a /\ rowLock'[req[a].losing] = a
    BY <1>1, <2>3
  <2>5. \A x \in Row : rowLock[x] # None => rowLock'[x] = rowLock[x]
    BY <1>1, <2>3
  <2> HIDE DEF r
  <2>6. req' \in [AdminPair -> Overlap!Request] /\ req'[a] = r
          /\ \A b \in AdminPair : b # a => req'[b] = req[b]
    BY <1>1, <2>1, <2>2
  <2>7. Overlap!TypeOK'
    BY <1>2, <2>4, <2>6 DEF OverlapInv, Overlap!TypeOK
  <2>8. Overlap!Allowed(r)
    BY <1>4, <2>2 DEF Overlap!Allowed
  <2>9. ASSUME NEW b \in AdminPair
        PROVE  /\ req'[b].pc # "idle" => req'[b].survivor \in Row /\ req'[b].losing \in Row
               /\ req'[b].pc # "idle" /\ req'[b].op = "merge" => req'[b].survivor # req'[b].losing
               /\ req'[b].pc # "idle" /\ req'[b].op = "unmerge" =>
                    /\ req'[b].record \in DOMAIN records
                    /\ records[req'[b].record].survivor = req'[b].survivor
                    /\ records[req'[b].record].losing = req'[b].losing
               /\ req'[b].pc = "ready" =>
                    /\ rowLock'[req'[b].survivor] = b /\ rowLock'[req'[b].losing] = b
                    /\ Overlap!Allowed(req[b])'
    <3>1. CASE b = a
      <4>1. Overlap!Allowed(req[b])'
        BY <1>2, <2>6, <2>8, <3>1 DEF Overlap!Allowed, Overlap!Live
      <4>2. /\ req[a].op = "merge" => req[a].survivor # req[a].losing
            /\ req[a].op = "unmerge" =>
                 /\ req[a].record \in DOMAIN records
                 /\ records[req[a].record].survivor = req[a].survivor
                 /\ records[req[a].record].losing = req[a].losing
        BY <1>1 DEF OverlapInv, OverlapRequests
      <4> QED BY <1>1, <2>2, <2>4, <2>6, <3>1, <4>1, <4>2
    <3>2. CASE b # a
      <4>1. req'[b] = req[b]
        BY <2>6, <3>2
      <4>2. /\ req[b].pc # "idle" => req[b].survivor \in Row /\ req[b].losing \in Row
            /\ req[b].pc # "idle" /\ req[b].op = "merge" => req[b].survivor # req[b].losing
            /\ req[b].pc # "idle" /\ req[b].op = "unmerge" =>
                 /\ req[b].record \in DOMAIN records
                 /\ records[req[b].record].survivor = req[b].survivor
                 /\ records[req[b].record].losing = req[b].losing
            /\ req[b].pc = "ready" =>
                 /\ rowLock[req[b].survivor] = b /\ rowLock[req[b].losing] = b
                 /\ Overlap!Allowed(req[b])
        BY DEF OverlapInv, OverlapRequests
      <4>3. req[b].pc = "ready" => rowLock'[req[b].survivor] = b /\ rowLock'[req[b].losing] = b
        BY <1>0, <2>5, <4>2
      <4>4. req[b].pc = "ready" => Overlap!Allowed(req[b])'
        BY <1>2, <4>1, <4>2 DEF Overlap!Allowed, Overlap!Live
      <4> QED BY <4>1, <4>2, <4>3, <4>4
    <3> QED BY <3>1, <3>2
  <2>10. OverlapRequests'
    BY <1>2, <2>9 DEF OverlapRequests
  <2> QED BY <1>2, <2>7, <2>10 DEF OverlapInv
<1> QED BY <1>3, <1>4

\* What the others have read survives a write to rows they do not hold.
LEMMA OverlapRelease ==
    ASSUME Overlap!MergeAssumption, OverlapInv, NEW a \in AdminPair, req[a].pc = "ready", Overlap!Release(a),
           NEW v \in Row \cup {None}, mergedInto' = [mergedInto EXCEPT ![req[a].losing] = v],
           \A n \in DOMAIN records : n \in DOMAIN records' /\ records'[n].survivor = records[n].survivor
                                       /\ records'[n].losing = records[n].losing
    PROVE  /\ req' \in [AdminPair -> Overlap!Request] /\ rowLock' \in [Row -> AdminPair \cup {None}]
           /\ mergedInto' \in [Row -> Row \cup {None}]
           /\ OverlapRequests'
<1>0. None \notin Row /\ None \notin AdminPair
  BY DEF Overlap!MergeAssumption
<1>1. /\ req \in [AdminPair -> Overlap!Request] /\ rowLock \in [Row -> AdminPair \cup {None}]
      /\ mergedInto \in [Row -> Row \cup {None}]
      /\ req[a].survivor \in Row /\ req[a].losing \in Row
      /\ rowLock[req[a].losing] = a
  BY DEF OverlapInv, OverlapRequests, Overlap!TypeOK
<1>2. Overlap!IdleRequest \in Overlap!Request /\ Overlap!IdleRequest.pc = "idle"
  BY DEF Overlap!Request, Overlap!IdleRequest
<1>3. req' = [req EXCEPT ![a] = Overlap!IdleRequest]
        /\ rowLock' = [x \in Row |-> IF rowLock[x] = a THEN None ELSE rowLock[x]]
  BY DEF Overlap!Release
<1>4. req' \in [AdminPair -> Overlap!Request] /\ req'[a].pc = "idle"
        /\ \A b \in AdminPair : b # a => req'[b] = req[b]
  BY <1>1, <1>2, <1>3
<1>5. rowLock' \in [Row -> AdminPair \cup {None}] /\ \A x \in Row : rowLock[x] # a => rowLock'[x] = rowLock[x]
  BY <1>1, <1>3
<1>6. mergedInto' \in [Row -> Row \cup {None}]
        /\ \A x \in Row : x # req[a].losing => mergedInto'[x] = mergedInto[x]
  BY <1>1
<1>7. ASSUME NEW b \in AdminPair
      PROVE  /\ req'[b].pc # "idle" => req'[b].survivor \in Row /\ req'[b].losing \in Row
             /\ req'[b].pc # "idle" /\ req'[b].op = "merge" => req'[b].survivor # req'[b].losing
             /\ req'[b].pc # "idle" /\ req'[b].op = "unmerge" =>
                  /\ req'[b].record \in DOMAIN records'
                  /\ records'[req'[b].record].survivor = req'[b].survivor
                  /\ records'[req'[b].record].losing = req'[b].losing
             /\ req'[b].pc = "ready" =>
                  /\ rowLock'[req'[b].survivor] = b /\ rowLock'[req'[b].losing] = b
                  /\ Overlap!Allowed(req[b])'
  <2>1. CASE b = a
    BY <1>4, <2>1
  <2>2. CASE b # a
    <3>1. req'[b] = req[b]
      BY <1>4, <2>2
    <3>2. /\ req[b].pc # "idle" => req[b].survivor \in Row /\ req[b].losing \in Row
          /\ req[b].pc # "idle" /\ req[b].op = "merge" => req[b].survivor # req[b].losing
          /\ req[b].pc # "idle" /\ req[b].op = "unmerge" =>
               /\ req[b].record \in DOMAIN records
               /\ records[req[b].record].survivor = req[b].survivor
               /\ records[req[b].record].losing = req[b].losing
          /\ req[b].pc = "ready" =>
               /\ rowLock[req[b].survivor] = b /\ rowLock[req[b].losing] = b
               /\ Overlap!Allowed(req[b])
      BY DEF OverlapInv, OverlapRequests
    <3>3. ASSUME req[b].pc = "ready"
          PROVE  /\ rowLock'[req[b].survivor] = b /\ rowLock'[req[b].losing] = b
                 /\ Overlap!Allowed(req[b])'
      <4>1. rowLock[req[b].survivor] = b /\ rowLock[req[b].losing] = b
              /\ req[b].survivor \in Row /\ req[b].losing \in Row
        BY <3>2, <3>3
      <4>2. mergedInto'[req[b].survivor] = mergedInto[req[b].survivor]
              /\ mergedInto'[req[b].losing] = mergedInto[req[b].losing]
        BY <1>1, <1>6, <2>2, <4>1
      <4>3. Overlap!Allowed(req[b])'
        BY <3>1, <3>2, <3>3, <4>2 DEF Overlap!Allowed, Overlap!Live
      <4> QED BY <1>5, <2>2, <4>1, <4>3
    <3>4. req[b].pc # "idle" /\ req[b].op = "unmerge" =>
             /\ req[b].record \in DOMAIN records'
             /\ records'[req[b].record].survivor = req[b].survivor
             /\ records'[req[b].record].losing = req[b].losing
      BY <3>2
    <3> QED BY <3>1, <3>2, <3>3, <3>4
  <2> QED BY <2>1, <2>2
<1> QED BY <1>4, <1>5, <1>6, <1>7 DEF OverlapRequests

LEMMA OverlapMerges ==
    ASSUME Overlap!MergeAssumption, OverlapInv, NEW a \in AdminPair, Overlap!merge(a)
    PROVE  OverlapInv'
<1> DEFINE s == req[a].survivor
           l == req[a].losing
<1>0. None \notin Row
  BY DEF Overlap!MergeAssumption
<1>1. /\ req[a].pc = "ready" /\ req[a].op = "merge" /\ s \in Row /\ l \in Row /\ s # l
      /\ mergedInto[s] = None /\ Overlap!Release(a)
      /\ Tree(mergedInto) /\ Acyclic(mergedInto)
  BY DEF OverlapInv, OverlapRequests, Overlap!merge, Overlap!Allowed, Overlap!Live, Overlap!TypeOK, Tree
<1>2. mergedInto' = [mergedInto EXCEPT ![l] = s]
  BY DEF Overlap!merge
<1>3. Acyclic(mergedInto')
  BY <1>0, <1>1, <1>2, FoldedIsAcyclic
<1>4. items' = {} /\ lastItem' = 0
  BY DEF OverlapInv, Overlap!merge
<1> DEFINE rec == [survivor |-> s, losing |-> l, children |-> {c \in {} : owner[c] = l},
                   kept |-> {i.id : i \in {j \in items \ Overlap!Colliding(s, l) : j.at = l}},
                   deleted |-> Overlap!Deleted(Overlap!Colliding(s, l)), unmerged |-> FALSE]
<1>5. records' = Append(records, rec)
  BY DEF Overlap!merge
<1>6. rec \in Overlap!Record
  <2>1. {i.id : i \in {j \in items \ Overlap!Colliding(s, l) : j.at = l}} = {}
    BY DEF OverlapInv
  <2>2. Overlap!Deleted(Overlap!Colliding(s, l)) = {}
    BY DEF OverlapInv, Overlap!Colliding, Overlap!Deleted
  <2> QED BY <1>1, <2>1, <2>2 DEF Overlap!Record
<1> HIDE DEF rec
<1>7. records \in Seq(Overlap!Record)
  BY DEF OverlapInv, Overlap!TypeOK
<1>8. records' \in Seq(Overlap!Record) /\ \A n \in DOMAIN records : n \in DOMAIN records' /\ records'[n] = records[n]
  BY <1>5, <1>6, <1>7
<1>9. /\ req' \in [AdminPair -> Overlap!Request] /\ rowLock' \in [Row -> AdminPair \cup {None}]
      /\ mergedInto' \in [Row -> Row \cup {None}]
      /\ OverlapRequests'
  BY <1>1, <1>2, <1>8, OverlapRelease
<1>10. candidates' = [candidates EXCEPT ![{s, l}] = "MERGED"]
         /\ candidates \in [Overlap!Pair -> {"ABSENT", "PENDING", "MERGED", "REJECTED"}]
  BY DEF OverlapInv, Overlap!TypeOK, Overlap!merge
<1>11. candidates' \in [Overlap!Pair -> {"ABSENT", "PENDING", "MERGED", "REJECTED"}]
  <2> HIDE DEF s, l
  <2> QED BY <1>10
<1>12. owner' \in [{} -> Row \cup {None}] /\ home' \in [{} -> Row \cup {None}]
  BY DEF OverlapInv, Overlap!TypeOK, Overlap!merge
<1>13. Overlap!TypeOK'
  BY <1>4, <1>8, <1>9, <1>11, <1>12 DEF Overlap!TypeOK
<1> QED BY <1>3, <1>4, <1>9, <1>13 DEF OverlapInv

LEMMA OverlapUnmerges ==
    ASSUME Overlap!MergeAssumption, OverlapInv, NEW a \in AdminPair, Overlap!unmerge(a)
    PROVE  OverlapInv'
<1> DEFINE n == req[a].record
           r == records[n]
           l == req[a].losing
<1>0. None \notin Row
  BY DEF Overlap!MergeAssumption
<1>1. /\ req[a].pc = "ready" /\ l \in Row /\ Overlap!Release(a) /\ n \in DOMAIN records
      /\ Tree(mergedInto) /\ Acyclic(mergedInto)
  BY DEF OverlapInv, OverlapRequests, Overlap!unmerge, Overlap!TypeOK, Tree
<1>2. mergedInto' = [mergedInto EXCEPT ![l] = None]
  BY DEF Overlap!unmerge
<1>3. Acyclic(mergedInto')
  BY <1>0, <1>1, <1>2, UnfoldedIsAcyclic
<1>4. records \in Seq(Overlap!Record)
  BY DEF OverlapInv, Overlap!TypeOK
<1>5. r \in Overlap!Record /\ records' = [records EXCEPT ![n].unmerged = TRUE]
  BY <1>1, <1>4 DEF Overlap!unmerge
<1>6. items' = {} /\ lastItem' = 0
  <2>1. r.deleted \in SUBSET Key
    BY <1>5 DEF Overlap!Record
  <2>2. IsFiniteSet(Key)
    BY OverlapSets DEF Overlap!MergeAssumption
  <2>3. Cardinality(r.deleted) \in Nat
    BY <2>1, <2>2, FS_Subset, FS_CardinalityType
  <2>4. lastItem + Overlap!Cardinality(r.deleted) <= 0 /\ lastItem = 0 /\ items = {}
    BY DEF OverlapInv, Overlap!unmerge
  <2>5. Overlap!Cardinality(r.deleted) = 0
    BY <2>3, <2>4, OverlapSets
  <2>6. PICK new \in Overlap!Recreated(l, r.deleted) :
          items' = {IF i.id \in r.kept THEN [i EXCEPT !.at = l] ELSE i : i \in items} \cup new
    BY DEF Overlap!unmerge
  <2>7. new = {}
    <3>1. new \subseteq [id : 0 + 1 .. 0 + 0, key : r.deleted, at : {l}]
      BY <2>4, <2>5, <2>6 DEF Overlap!Recreated
    <3>2. \A i \in new : i.id \in 1 .. 0
      BY <3>1
    <3> QED BY <3>2
  <2>8. {IF i.id \in r.kept THEN [i EXCEPT !.at = l] ELSE i : i \in items} = {}
    BY <2>4
  <2>9. lastItem' = lastItem + Overlap!Cardinality(r.deleted)
    BY DEF Overlap!unmerge
  <2> QED BY <2>4, <2>5, <2>6, <2>7, <2>8, <2>9
<1>7. [r EXCEPT !.unmerged = TRUE] \in Overlap!Record
        /\ [r EXCEPT !.unmerged = TRUE].survivor = r.survivor /\ [r EXCEPT !.unmerged = TRUE].losing = r.losing
  BY <1>5 DEF Overlap!Record
<1>8. records' \in Seq(Overlap!Record)
  BY <1>1, <1>4, <1>5, <1>7
<1>9. \A k \in DOMAIN records : k \in DOMAIN records' /\ records'[k].survivor = records[k].survivor
                                  /\ records'[k].losing = records[k].losing
  BY <1>1, <1>4, <1>5, <1>7
<1>10. /\ req' \in [AdminPair -> Overlap!Request] /\ rowLock' \in [Row -> AdminPair \cup {None}]
       /\ mergedInto' \in [Row -> Row \cup {None}]
       /\ OverlapRequests'
  BY <1>1, <1>2, <1>9, OverlapRelease
<1>11. candidates' = [candidates EXCEPT ![{r.survivor, l}] = "PENDING"]
         /\ candidates \in [Overlap!Pair -> {"ABSENT", "PENDING", "MERGED", "REJECTED"}]
  BY DEF OverlapInv, Overlap!TypeOK, Overlap!unmerge
<1>12. candidates' \in [Overlap!Pair -> {"ABSENT", "PENDING", "MERGED", "REJECTED"}]
  <2> HIDE DEF r, l
  <2> QED BY <1>11
<1>13. owner' \in [{} -> Row \cup {None}] /\ home' \in [{} -> Row \cup {None}]
  BY DEF OverlapInv, Overlap!TypeOK, Overlap!unmerge
<1>14. Overlap!TypeOK'
  BY <1>6, <1>8, <1>10, <1>12, <1>13 DEF Overlap!TypeOK
<1> QED BY <1>3, <1>6, <1>10, <1>14 DEF OverlapInv

LEMMA OverlapStep ==
    ASSUME Overlap!MergeAssumption, OverlapInv, Overlap!Next
    PROVE  OverlapInv'
<1>1. ASSUME NEW p \in Overlap!Pair, Overlap!createCandidate(p) PROVE OverlapInv'
  <2>1. candidates' \in [Overlap!Pair -> {"ABSENT", "PENDING", "MERGED", "REJECTED"}]
    BY <1>1 DEF OverlapInv, Overlap!TypeOK, Overlap!createCandidate
  <2>2. UNCHANGED <<mergedInto, owner, items, lastItem, records, req, rowLock, home>>
    BY <1>1 DEF Overlap!createCandidate
  <2> QED BY <2>1, <2>2 DEF OverlapInv, Overlap!TypeOK, OverlapRequests, Overlap!Allowed, Overlap!Live
<1>2. CASE \E a \in AdminPair :
             \/ \E p \in Overlap!Pair : Overlap!readCandidate(a, p)
             \/ Overlap!reject(a)
             \/ \E s, l \in Row : Overlap!mergeCandidate(a, s, l)
             \/ \E n \in DOMAIN records : Overlap!readRecord(a, n)
  BY <1>2, OverlapReads
<1>3. CASE \E a \in AdminPair : Overlap!readRows(a) \/ Overlap!merge(a) \/ Overlap!unmerge(a)
  BY <1>3, OverlapReadsRows, OverlapMerges, OverlapUnmerges
<1> QED BY <1>1, <1>2, <1>3 DEF Overlap!Next

OverlapPart == part = "overlap" => OverlapInv

\* The inductive invariant of the merges that overlap.
LEMMA OverlapAlways == MCSpec => []OverlapPart
<1>0. Overlap!MergeAssumption
  BY PartsAssumption
<1>1. MCInit => OverlapPart
  BY <1>0, OverlapStarts DEF MCInit, OverlapPart
<1>2. OverlapPart /\ [MCNext]_allVars => OverlapPart'
  <2> SUFFICES ASSUME OverlapPart, [MCNext]_allVars, part' = "overlap" PROVE OverlapInv'
    BY DEF OverlapPart
  <2>1. part = "overlap" /\ OverlapInv
    BY DEF MCNext, allVars, OverlapPart
  <2>2. CASE Overlap!Next
    BY <1>0, <2>1, <2>2, OverlapStep
  <2>3. CASE UNCHANGED mergeVars
    BY <2>1, <2>3 DEF mergeVars, OverlapInv, Overlap!TypeOK, OverlapRequests, Overlap!Allowed, Overlap!Live
  <2> QED BY <2>1, <2>2, <2>3 DEF MCNext, allVars
<1> QED BY <1>1, <1>2, PTL DEF MCSpec

\* An admin pair's merges and unmerges, interleaved in any way under the row
\* locks, never close a circle: from every row that was merged away following
\* mergedInto ends on a live row (lockCompanies, and the checks under it).
THEOREM OverlappingMergesLeadToLiveRows == MCSpec => []TombstonesReachALiveRow
<1>1. Overlap!MergeAssumption
  BY PartsAssumption
<1>2. OverlapPart => TombstonesReachALiveRow
  BY <1>1, OverlapRootsAreLive DEF OverlapPart, OverlapInv, Overlap!TypeOK, Tree, TombstonesReachALiveRow
<1> QED BY <1>2, OverlapAlways, PTL

----------------------------------------------------------------------------
(* Where chains end, as rows are folded and taken out. *)

LEMMA OneRoot ==
    ASSUME NEW m, Tree(m), Acyclic(m), NEW r, IsRoot(r, m), NEW q, IsRoot(q, m)
    PROVE  r = q
<1> DEFINE S == {x \in Row : r[x] # q[x]}
<1>1. SUFFICES ASSUME S # {} PROVE FALSE
  BY DEF IsRoot
<1>2. PICK x \in S : m[x] \notin S
  BY <1>1 DEF Acyclic
<1>3. m[x] # None
  BY <1>2 DEF IsRoot
<1>4. r[x] = r[m[x]] /\ q[x] = q[m[x]]
  BY <1>2, <1>3 DEF IsRoot
<1>5. m[x] \in Row /\ m[x] \notin S
  BY <1>2, <1>3 DEF Tree
<1> QED BY <1>2, <1>4, <1>5

LEMMA RootExists ==
    ASSUME None \notin Row, IsFiniteSet(Row), NEW m, Tree(m), Acyclic(m)
    PROVE  /\ IsRoot(RootOf(m), m)
           /\ \A x \in Row : RootOf(m)[x] \in Row /\ m[RootOf(m)[x]] = None
<1>1. PICK N : N = Cardinality(Row)
  OBVIOUS
<1>2. N \in Nat
  BY <1>1, FS_CardinalityType
<1>3. PICK f : Hops(f, m, N)
  BY <1>2, HopsExist
<1>4. PICK r : r = f[N]
  OBVIOUS
<1>5. IsRoot(r, m) /\ \A x \in Row : r[x] \in Row /\ m[r[x]] = None
  BY <1>1, <1>3, <1>4, HopsSettle
<1>6. IsRoot(RootOf(m), m)
  BY <1>5 DEF RootOf
<1>7. RootOf(m) = r
  BY <1>5, <1>6, OneRoot
<1> QED BY <1>5, <1>6, <1>7

LEMMA RootOfLive ==
    ASSUME None \notin Row, IsFiniteSet(Row), NEW m, Tree(m), Acyclic(m), NEW x \in Row, m[x] = None
    PROVE  RootOf(m)[x] = x
BY RootExists DEF IsRoot

\* Folding l into s sends what ended on l to s.
LEMMA FoldedRoot ==
    ASSUME None \notin Row, IsFiniteSet(Row), NEW m, Tree(m), Acyclic(m),
           NEW s \in Row, NEW l \in Row, s # l, m[s] = None, m[l] = None
    PROVE  \A x \in Row : RootOf([m EXCEPT ![l] = s])[x] = IF RootOf(m)[x] = l THEN s ELSE RootOf(m)[x]
<1>1. PICK w : w = [m EXCEPT ![l] = s]
  OBVIOUS
<1>2. Tree(w) /\ Acyclic(w)
  BY <1>1, FoldedIsAcyclic
<1>3. \A x \in Row : w[x] = IF x = l THEN s ELSE m[x]
  BY <1>1 DEF Tree
<1>4. IsRoot(RootOf(w), w)
  BY <1>2, RootExists
<1>5. PICK r : r = RootOf(m)
  OBVIOUS
<1>6. IsRoot(r, m)
  BY <1>5, RootExists
<1> DEFINE q == [x \in Row |-> IF r[x] = l THEN s ELSE r[x]]
<1>7. IsRoot(q, w)
  <2>1. q \in [Row -> Row]
    BY <1>6 DEF IsRoot
  <2>2. ASSUME NEW x \in Row PROVE q[x] = IF w[x] = None THEN x ELSE q[w[x]]
    <3>1. CASE x = l
      <4>1. r[l] = l /\ r[s] = s
        BY <1>6 DEF IsRoot
      <4>2. w[x] = s /\ q[x] = s /\ q[s] = s
        BY <1>3, <3>1, <4>1
      <4> QED BY <4>2
    <3>2. CASE x # l /\ m[x] = None
      <4>1. r[x] = x /\ w[x] = None
        BY <1>3, <1>6, <3>2 DEF IsRoot
      <4> QED BY <3>2, <4>1
    <3>3. CASE x # l /\ m[x] # None
      <4>1. r[x] = r[m[x]] /\ w[x] = m[x] /\ m[x] \in Row
        BY <1>3, <1>6, <3>3 DEF IsRoot, Tree
      <4> QED BY <3>3, <4>1
    <3> QED BY <3>1, <3>2, <3>3
  <2> QED BY <2>1, <2>2 DEF IsRoot
<1>8. RootOf(w) = q
  BY <1>2, <1>4, <1>7, OneRoot
<1> QED BY <1>1, <1>5, <1>8

\* A row taken out: what ends on it, and the rest is as before.
LEMMA UnfoldedRoot ==
    ASSUME None \notin Row, IsFiniteSet(Row), NEW m, Tree(m), Acyclic(m),
           NEW s \in Row, NEW l \in Row, s # l, m[s] = None, m[l] = s
    PROVE  \A x \in Row : RootOf(m)[x] =
             IF RootOf([m EXCEPT ![l] = None])[x] = l THEN s ELSE RootOf([m EXCEPT ![l] = None])[x]
<1>1. PICK w : w = [m EXCEPT ![l] = None]
  OBVIOUS
<1>2. Tree(w) /\ Acyclic(w)
  BY <1>1, UnfoldedIsAcyclic
<1>3. w[s] = None /\ w[l] = None
  BY <1>1 DEF Tree
<1>4. \A x \in Row : RootOf([w EXCEPT ![l] = s])[x] = IF RootOf(w)[x] = l THEN s ELSE RootOf(w)[x]
  <2>1. None \notin Row /\ IsFiniteSet(Row) /\ s # l
    OBVIOUS
  <2> QED BY ONLY <1>2, <1>3, <2>1, FoldedRoot
<1>5. m = [w EXCEPT ![l] = s]
  BY <1>1 DEF Tree
<1> QED BY <1>1, <1>4, <1>5

----------------------------------------------------------------------------
(* One request at a time. *)

LEMMA SerialSets ==
    ASSUME NEW S
    PROVE  (Serial!IsFiniteSet(S) <=> IsFiniteSet(S)) /\ Serial!Cardinality(S) = Cardinality(S)
<1>1. Serial!IsFiniteSet(S) <=> IsFiniteSet(S)
  BY DEF Serial!IsFiniteSet, IsFiniteSet
<1>2. Serial!Cardinality(S) = Cardinality(S)
  BY DEF Serial!Cardinality, Cardinality
<1> QED BY <1>1, <1>2

LEMMA SerialRoot ==
    ASSUME Serial!MergeAssumption, Tree(mergedInto), Acyclic(mergedInto)
    PROVE  \A x \in Row : Serial!Root(x) = RootOf(mergedInto)[x]
<1>1. None \notin Row /\ IsFiniteSet(Row)
  BY SerialSets DEF Serial!MergeAssumption
<1>2. PICK N : N = Cardinality(Row)
  OBVIOUS
<1>3. N \in Nat /\ Serial!Cardinality(Row) = N
  BY <1>1, <1>2, FS_CardinalityType, SerialSets
<1>4. \E f : Hops(f, mergedInto, N)
  BY <1>3, HopsExist
<1>5. Serial!Follow = CHOOSE f : Hops(f, mergedInto, N)
  BY <1>3 DEF Serial!Follow, Serial!Live, Hops
<1>6. Hops(Serial!Follow, mergedInto, N)
  BY <1>4, <1>5
<1>7. PICK r : r = Serial!Follow[N]
  OBVIOUS
<1>8. IsRoot(r, mergedInto)
  BY <1>1, <1>2, <1>6, <1>7, HopsSettle
<1>9. IsRoot(RootOf(mergedInto), mergedInto)
  BY <1>1, RootExists
<1>10. r = RootOf(mergedInto)
  BY <1>8, <1>9, OneRoot
<1> QED BY <1>3, <1>7, <1>10 DEF Serial!Root

\* What a request has seen and no other has changed since.
RequestHolds(r, recs, cand, m) ==
    r.pc # "idle" =>
        /\ r.survivor \in Row /\ r.losing \in Row
        /\ r.op = "merge" => r.survivor # r.losing
        /\ r.op = "reject" => /\ {r.survivor, r.losing} \in Serial!Pair
                              /\ cand[{r.survivor, r.losing}] \in {"PENDING", "REJECTED"}
        /\ r.op = "unmerge" => /\ r.record \in DOMAIN recs /\ ~ recs[r.record].unmerged
                               /\ recs[r.record].survivor = r.survivor
                               /\ recs[r.record].losing = r.losing
        /\ r.pc = "ready" => /\ r.op # "reject"
                             /\ m[r.survivor] = None
                             /\ m[r.losing] = IF r.op = "merge" THEN None ELSE r.survivor

SerialRequests ==
    Serial!OneAtATime /\ \A a \in Admin : RequestHolds(req[a], records, candidates, mergedInto)

\* An open record is of a tombstone, the only one of it, and its children are
\* those that would end on the row it took out.
OpenRecordHolds(r, cand, m, homes) ==
    /\ m[r.losing] = r.survivor
    /\ cand[{r.survivor, r.losing}] = "MERGED"
    /\ r.children = {c \in Child : /\ homes[c] # None
                                   /\ RootOf([m EXCEPT ![r.losing] = None])[homes[c]] = r.losing}

Opened(recs) == {n \in DOMAIN recs : ~ recs[n].unmerged}

SerialRecords ==
    /\ \A n \in Opened(records) : OpenRecordHolds(records[n], candidates, mergedInto, home)
    /\ \A n, k \in Opened(records) : records[n].losing = records[k].losing => n = k
    /\ \A x \in Row : mergedInto[x] # None => \E n \in Opened(records) : records[n].losing = x

SerialChildren ==
    \A c \in Child : /\ home[c] # None => owner[c] = RootOf(mergedInto)[home[c]]
                     /\ home[c] = None /\ owner[c] # None => mergedInto[owner[c]] # None

\* The items a record would move back have keys of their own.
KeptHolds(r, held, last) ==
    /\ r.kept \subseteq 1 .. last
    /\ \A i \in held : i.id \in r.kept => i.key \notin r.deleted
    /\ \A i, j \in held : i.id \in r.kept /\ j.id \in r.kept /\ i.key = j.key => i = j

\* The ids of the items with a key, and the open records that deleted one.
IdsOf(k, held) == {i.id : i \in {j \in held : j.key = k}}
DeletedBy(k, recs) == {n \in DOMAIN recs : ~ recs[n].unmerged /\ k \in recs[n].deleted}

SerialItems ==
    /\ lastItem \in 0 .. MaxItems
    /\ \A i \in items : i.id \in 1 .. lastItem /\ mergedInto[i.at] = None
    /\ \A n \in Opened(records) : KeptHolds(records[n], items, lastItem)
    /\ \A k \in Key : Cardinality(IdsOf(k, items)) + Cardinality(DeletedBy(k, records))
                        = Cardinality({p \in HeldAtFirst : p[1] = k})

SerialInv ==
    /\ Serial!TypeOK /\ Acyclic(mergedInto)
    /\ SerialRequests /\ SerialRecords /\ SerialChildren /\ SerialItems

\* A step of the requests only.
LEMMA SerialRequestStep ==
    ASSUME SerialInv, NEW a \in Admin, NEW r \in Serial!Request,
           req' = [req EXCEPT ![a] = r], Serial!OneAtATime',
           RequestHolds(r, records, candidates, mergedInto),
           rowLock' \in [Row -> Admin \cup {None}],
           UNCHANGED <<mergedInto, owner, items, lastItem, candidates, records, home>>
    PROVE  SerialInv'
<1>1. req \in [Admin -> Serial!Request]
  BY DEF SerialInv, Serial!TypeOK
<1>2. req' \in [Admin -> Serial!Request] /\ req'[a] = r
        /\ \A b \in Admin : b # a => req'[b] = req[b]
  BY <1>1
<1>3. Serial!TypeOK'
  BY <1>2 DEF SerialInv, Serial!TypeOK
<1>4. SerialRequests'
  <2>1. ASSUME NEW b \in Admin PROVE RequestHolds(req'[b], records, candidates, mergedInto)
    <3>1. CASE b = a
      BY <1>2, <3>1
    <3>2. CASE b # a
      BY <1>2, <3>2 DEF SerialInv, SerialRequests
    <3> QED BY <3>1, <3>2
  <2> QED BY <2>1 DEF SerialRequests
<1>5. SerialRecords' /\ SerialChildren' /\ SerialItems' /\ Acyclic(mergedInto')
  BY DEF SerialInv, SerialRecords, SerialChildren, SerialItems
<1> QED BY <1>3, <1>4, <1>5 DEF SerialInv

LEMMA SerialReads ==
    ASSUME SerialInv, NEW a \in Admin, Serial!OneAtATime',
           \/ \E p \in Serial!Pair : Serial!readCandidate(a, p)
           \/ \E s, l \in Row : Serial!mergeCandidate(a, s, l)
           \/ \E n \in DOMAIN records : Serial!readRecord(a, n)
           \/ Serial!readRows(a)
    PROVE  SerialInv'
<1>0. /\ rowLock \in [Row -> Admin \cup {None}] /\ req \in [Admin -> Serial!Request]
      /\ \A n \in DOMAIN records : n \in Nat /\ records[n] \in Serial!Record
      /\ Serial!IdleRequest \in Serial!Request /\ Serial!IdleRequest.pc = "idle"
  BY DEF SerialInv, Serial!TypeOK, Serial!Request, Serial!IdleRequest
<1>1. ASSUME NEW p \in Serial!Pair, Serial!readCandidate(a, p) PROVE SerialInv'
  <2>1. PICK x \in Row, y \in Row : p = {x, y} /\ req' = [req EXCEPT ![a] =
          [Serial!IdleRequest EXCEPT !.pc = "begun", !.op = "reject", !.survivor = x, !.losing = y]]
    BY <1>1 DEF Serial!readCandidate
  <2> DEFINE r == [Serial!IdleRequest EXCEPT !.pc = "begun", !.op = "reject", !.survivor = x, !.losing = y]
  <2>2. r \in Serial!Request /\ r.pc = "begun" /\ r.op = "reject" /\ r.survivor = x /\ r.losing = y
    BY DEF Serial!Request, Serial!IdleRequest
  <2>3. req' = [req EXCEPT ![a] = r] /\ {x, y} \in Serial!Pair
          /\ candidates[{x, y}] \in {"PENDING", "REJECTED"}
          /\ UNCHANGED <<mergedInto, owner, items, lastItem, candidates, records, rowLock, home>>
    BY <1>1, <2>1 DEF Serial!readCandidate, Serial!Rejectable
  <2> HIDE DEF r
  <2>4. RequestHolds(r, records, candidates, mergedInto)
    BY <2>2, <2>3 DEF RequestHolds
  <2> QED BY <1>0, <2>2, <2>3, <2>4, SerialRequestStep
<1>2. ASSUME NEW s \in Row, NEW l \in Row, Serial!mergeCandidate(a, s, l) PROVE SerialInv'
  <2> DEFINE r == [Serial!IdleRequest EXCEPT !.pc = "begun", !.op = "merge", !.survivor = s, !.losing = l]
  <2>2. r \in Serial!Request /\ r.pc = "begun" /\ r.op = "merge" /\ r.survivor = s /\ r.losing = l
    BY DEF Serial!Request, Serial!IdleRequest
  <2>3. req' = [req EXCEPT ![a] = r] /\ s # l
          /\ UNCHANGED <<mergedInto, owner, items, lastItem, candidates, records, rowLock, home>>
    BY <1>2 DEF Serial!mergeCandidate
  <2> HIDE DEF r
  <2>4. RequestHolds(r, records, candidates, mergedInto)
    BY <2>2, <2>3 DEF RequestHolds
  <2> QED BY <1>0, <2>2, <2>3, <2>4, SerialRequestStep
<1>3. ASSUME NEW n \in DOMAIN records, Serial!readRecord(a, n) PROVE SerialInv'
  <2> DEFINE r == [Serial!IdleRequest EXCEPT !.pc = "begun", !.op = "unmerge",
                     !.survivor = records[n].survivor, !.losing = records[n].losing, !.record = n]
  <2>1. records[n].survivor \in Row /\ records[n].losing \in Row /\ n \in Nat
    BY <1>0 DEF Serial!Record
  <2>2. r \in Serial!Request /\ r.pc = "begun" /\ r.op = "unmerge" /\ r.record = n
          /\ r.survivor = records[n].survivor /\ r.losing = records[n].losing
    BY <2>1 DEF Serial!Request, Serial!IdleRequest
  <2>3. req' = [req EXCEPT ![a] = r] /\ ~ records[n].unmerged
          /\ UNCHANGED <<mergedInto, owner, items, lastItem, candidates, records, rowLock, home>>
    BY <1>3 DEF Serial!readRecord, Serial!Open
  <2> HIDE DEF r
  <2>4. RequestHolds(r, records, candidates, mergedInto)
    BY <2>1, <2>2, <2>3 DEF RequestHolds
  <2> QED BY <1>0, <2>2, <2>3, <2>4, SerialRequestStep
<1>4. CASE Serial!readRows(a)
  <2>1. /\ req[a] \in Serial!Request /\ req[a].pc = "begun" /\ req[a].op # "reject"
        /\ RequestHolds(req[a], records, candidates, mergedInto)
        /\ UNCHANGED <<mergedInto, owner, items, lastItem, candidates, records, home>>
    BY <1>0, <1>4 DEF SerialInv, SerialRequests, Serial!readRows
  <2>2. CASE ~ Serial!Allowed(req[a])
    <3>1. req' = [req EXCEPT ![a] = Serial!IdleRequest] /\ UNCHANGED rowLock
      BY <1>4, <2>2 DEF Serial!readRows
    <3>2. RequestHolds(Serial!IdleRequest, records, candidates, mergedInto)
      BY <1>0 DEF RequestHolds
    <3> QED BY <1>0, <2>1, <3>1, <3>2, SerialRequestStep
  <2>3. CASE Serial!Allowed(req[a])
    <3> DEFINE r == [req[a] EXCEPT !.pc = "ready"]
    <3>1. req' = [req EXCEPT ![a] = r]
      BY <1>4, <2>3 DEF Serial!readRows
    <3>2. r \in Serial!Request /\ r.pc = "ready" /\ r.op = req[a].op /\ r.record = req[a].record
            /\ r.survivor = req[a].survivor /\ r.losing = req[a].losing
      BY <2>1 DEF Serial!Request
    <3>3. rowLock' \in [Row -> Admin \cup {None}]
      BY <1>0, <1>4, <2>3 DEF Serial!readRows, Serial!LockCompanies
    <3>4. r.op \in {"merge", "unmerge"}
      BY <2>1, <3>2 DEF Serial!Request
    <3> HIDE DEF r
    <3>5. RequestHolds(r, records, candidates, mergedInto)
      BY <2>1, <2>3, <3>2, <3>4 DEF RequestHolds, Serial!Allowed, Serial!Live
    <3> QED BY <2>1, <3>1, <3>2, <3>3, <3>5, SerialRequestStep
  <2> QED BY <2>2, <2>3
<1> QED BY <1>1, <1>2, <1>3, <1>4

\* Two different rows are a pair.
LEMMA TwoRows ==
    ASSUME NEW s \in Row, NEW l \in Row, s # l
    PROVE  {s, l} \in Serial!Pair
<1>1. IsFiniteSet({s}) /\ Cardinality({s}) = 1
  BY FS_Singleton
<1>2. Cardinality({s} \cup {l}) = 1 + 1
  BY <1>1, FS_AddElement
<1>3. {s} \cup {l} = {s, l} /\ {s, l} \in SUBSET Row
  OBVIOUS
<1>4. Cardinality({s, l}) = 2
  BY <1>2, <1>3
<1> QED BY <1>3, <1>4, SerialSets DEF Serial!Pair

\* An open record is of two different rows.
LEMMA OpenRecordIsOfTwo ==
    ASSUME Serial!MergeAssumption, SerialInv, NEW n \in Opened(records)
    PROVE  /\ records[n] \in Serial!Record
           /\ records[n].survivor # records[n].losing
           /\ {records[n].survivor, records[n].losing} \in Serial!Pair
           /\ mergedInto[records[n].losing] = records[n].survivor
<1>1. /\ records[n] \in Serial!Record /\ Acyclic(mergedInto)
      /\ mergedInto[records[n].losing] = records[n].survivor
  <2>1. records \in Seq(Serial!Record) /\ Acyclic(mergedInto)
    BY DEF SerialInv, Serial!TypeOK
  <2>2. n \in DOMAIN records
    BY DEF Opened
  <2>3. OpenRecordHolds(records[n], candidates, mergedInto, home)
    BY DEF SerialInv, SerialRecords
  <2> QED BY <2>1, <2>2, <2>3 DEF OpenRecordHolds
<1>2. records[n].survivor \in Row /\ records[n].losing \in Row
  BY <1>1 DEF Serial!Record
<1>3. records[n].survivor # records[n].losing
  <2>1. {records[n].losing} \in SUBSET Row
    BY <1>2
  <2>2. \E x \in {records[n].losing} : mergedInto[x] \notin {records[n].losing}
    BY <1>1, <2>1 DEF Acyclic
  <2> QED BY <1>1, <2>2
<1> QED BY <1>1, <1>2, <1>3, TwoRows

\* A step of the candidates only, to a pair that is not merged.
LEMMA SerialCandidateStep ==
    ASSUME Serial!MergeAssumption, SerialInv, NEW p, NEW v \in {"PENDING", "REJECTED"},
           candidates' = [candidates EXCEPT ![p] = v], candidates[p] # "MERGED",
           req' = req \/ \E a \in Admin : req' = [req EXCEPT ![a] = Serial!IdleRequest],
           UNCHANGED <<mergedInto, owner, items, lastItem, records, rowLock, home>>
    PROVE  SerialInv'
<1>1. /\ req \in [Admin -> Serial!Request] /\ Serial!IdleRequest \in Serial!Request
      /\ Serial!IdleRequest.pc = "idle"
      /\ candidates \in [Serial!Pair -> {"ABSENT", "PENDING", "MERGED", "REJECTED"}]
  BY DEF SerialInv, Serial!TypeOK, Serial!Request, Serial!IdleRequest
<1>2. req' \in [Admin -> Serial!Request] /\ \A b \in Admin : req'[b] = req[b] \/ req'[b].pc = "idle"
  BY <1>1
<1>3. candidates' \in [Serial!Pair -> {"ABSENT", "PENDING", "MERGED", "REJECTED"}]
        /\ \A q \in Serial!Pair : q # p => candidates'[q] = candidates[q]
  BY <1>1
<1>4. Serial!TypeOK'
  BY <1>2, <1>3 DEF SerialInv, Serial!TypeOK
<1>5. Serial!OneAtATime'
  <2>1. Serial!OneAtATime
    BY DEF SerialInv, SerialRequests
  <2> QED BY <1>2, <2>1 DEF Serial!OneAtATime
<1>6. SerialRequests'
  <2>1. ASSUME NEW b \in Admin PROVE RequestHolds(req'[b], records, candidates', mergedInto)
    <3>1. CASE req'[b].pc = "idle"
      BY <3>1 DEF RequestHolds
    <3>2. CASE req'[b] = req[b] /\ req[b].pc # "idle"
      <4>1. RequestHolds(req[b], records, candidates, mergedInto)
        BY DEF SerialInv, SerialRequests
      <4> DEFINE q == {req[b].survivor, req[b].losing}
      <4>2. req[b].op = "reject" => candidates'[q] \in {"PENDING", "REJECTED"}
        <5>1. SUFFICES ASSUME req[b].op = "reject" PROVE candidates'[q] \in {"PENDING", "REJECTED"}
          OBVIOUS
        <5>2. candidates[q] \in {"PENDING", "REJECTED"} /\ q \in Serial!Pair
          BY <3>2, <4>1, <5>1 DEF RequestHolds
        <5> HIDE DEF q
        <5>3. CASE q = p
          BY <1>1, <5>2, <5>3
        <5>4. CASE q # p
          BY <1>3, <5>2, <5>4
        <5> QED BY <5>3, <5>4
      <4> QED BY <3>2, <4>1, <4>2 DEF RequestHolds
    <3> QED BY <1>2, <3>1, <3>2
  <2> QED BY <1>5, <2>1 DEF SerialRequests
<1>7. SerialRecords'
  <2>1. ASSUME NEW n \in Opened(records) PROVE OpenRecordHolds(records[n], candidates', mergedInto, home)
    <3>1. {records[n].survivor, records[n].losing} \in Serial!Pair
      BY OpenRecordIsOfTwo
    <3>2. OpenRecordHolds(records[n], candidates, mergedInto, home)
      BY DEF SerialInv, SerialRecords
    <3>3. candidates'[{records[n].survivor, records[n].losing}] = "MERGED"
      BY <1>3, <3>1, <3>2 DEF OpenRecordHolds
    <3> QED BY <3>2, <3>3 DEF OpenRecordHolds
  <2> QED BY <2>1 DEF SerialInv, SerialRecords
<1>8. SerialChildren' /\ SerialItems' /\ Acyclic(mergedInto')
  BY DEF SerialInv, SerialChildren, SerialItems
<1> QED BY <1>4, <1>6, <1>7, <1>8 DEF SerialInv

LEMMA SerialCandidates ==
    ASSUME Serial!MergeAssumption, SerialInv,
           \/ \E p \in Serial!Pair : Serial!createCandidate(p)
           \/ \E a \in Admin : Serial!reject(a)
    PROVE  SerialInv'
<1>1. ASSUME NEW p \in Serial!Pair, Serial!createCandidate(p) PROVE SerialInv'
  <2>1. candidates' = [candidates EXCEPT ![p] = "PENDING"] /\ candidates[p] # "MERGED"
          /\ UNCHANGED <<mergedInto, owner, items, lastItem, records, req, rowLock, home>>
    BY <1>1 DEF Serial!createCandidate
  <2> QED BY <2>1, SerialCandidateStep
<1>2. ASSUME NEW a \in Admin, Serial!reject(a) PROVE SerialInv'
  <2>1. PICK p : p = {req[a].survivor, req[a].losing}
    OBVIOUS
  <2>2. RequestHolds(req[a], records, candidates, mergedInto)
    BY DEF SerialInv, SerialRequests
  <2>3. candidates' = [candidates EXCEPT ![p] = "REJECTED"] /\ candidates[p] # "MERGED"
          /\ req' = [req EXCEPT ![a] = Serial!IdleRequest]
          /\ UNCHANGED <<mergedInto, owner, items, lastItem, records, rowLock, home>>
    BY <1>2, <2>1, <2>2 DEF Serial!reject, RequestHolds
  <2> QED BY <2>3, SerialCandidateStep
<1> QED BY <1>1, <1>2

\* A contribution lands on a live row, which no open record takes out, or on a
\* tombstone, where it stays.
LEMMA SerialContributes ==
    ASSUME Serial!MergeAssumption, SerialInv, NEW c \in Child, NEW x \in Row, Serial!contribute(c, x)
    PROVE  SerialInv'
<1>0. None \notin Row /\ IsFiniteSet(Row) /\ Tree(mergedInto) /\ Acyclic(mergedInto)
  BY SerialSets DEF Serial!MergeAssumption, SerialInv, Serial!TypeOK, Tree
<1>1. /\ owner[c] = None /\ owner' = [owner EXCEPT ![c] = x]
      /\ home' = IF mergedInto[x] = None THEN [home EXCEPT ![c] = x] ELSE home
      /\ UNCHANGED <<mergedInto, items, lastItem, candidates, records, req, rowLock>>
  BY DEF Serial!contribute, Serial!Live
<1>2. /\ owner \in [Child -> Row \cup {None}] /\ home \in [Child -> Row \cup {None}]
  BY DEF SerialInv, Serial!TypeOK
<1>3. owner' \in [Child -> Row \cup {None}] /\ home' \in [Child -> Row \cup {None}]
  BY <1>1, <1>2
<1>4. Serial!TypeOK'
  BY <1>1, <1>3 DEF SerialInv, Serial!TypeOK
<1>5. \A d \in Child :
        /\ owner'[d] = IF d = c THEN x ELSE owner[d]
        /\ home'[d] = IF d = c /\ mergedInto[x] = None THEN x ELSE home[d]
  BY <1>1, <1>2
<1>6. home[c] = None
  <2>1. home[c] # None => owner[c] = RootOf(mergedInto)[home[c]]
    BY DEF SerialInv, SerialChildren
  <2>2. home[c] # None => RootOf(mergedInto)[home[c]] \in Row
    BY <1>0, <1>2, RootExists
  <2> QED BY <1>0, <1>1, <2>1, <2>2
<1>7. SerialChildren'
  <2>1. mergedInto[x] = None => RootOf(mergedInto)[x] = x
    BY <1>0, RootOfLive
  <2>2. ASSUME NEW d \in Child
        PROVE  /\ home'[d] # None => owner'[d] = RootOf(mergedInto)[home'[d]]
               /\ home'[d] = None /\ owner'[d] # None => mergedInto[owner'[d]] # None
    <3>1. CASE d = c
      BY <1>5, <1>6, <2>1, <3>1
    <3>2. CASE d # c
      BY <1>5, <3>2 DEF SerialInv, SerialChildren
    <3> QED BY <3>1, <3>2
  <2> QED BY <1>1, <2>2 DEF SerialChildren
<1>8. SerialRecords'
  <2>1. ASSUME NEW n \in Opened(records) PROVE OpenRecordHolds(records[n], candidates, mergedInto, home')
    <3>1. PICK l : l = records[n].losing
      OBVIOUS
    <3>2. l \in Row /\ mergedInto[l] # None
      BY <1>0, <3>1, OpenRecordIsOfTwo DEF Serial!Record
    <3>3. PICK w : w = [mergedInto EXCEPT ![l] = None]
      OBVIOUS
    <3>4. Tree(w) /\ Acyclic(w)
      BY <1>0, <3>2, <3>3, UnfoldedIsAcyclic
    <3>5. mergedInto[x] = None => RootOf(w)[x] = x /\ x # l
      <4> SUFFICES ASSUME mergedInto[x] = None PROVE RootOf(w)[x] = x /\ x # l
        OBVIOUS
      <4>1. w[x] = None /\ x # l
        BY <1>0, <3>2, <3>3 DEF Tree
      <4> QED BY <1>0, <3>4, <4>1, RootOfLive
    <3>6. OpenRecordHolds(records[n], candidates, mergedInto, home)
      BY DEF SerialInv, SerialRecords
    <3>7. records[n].children = {d \in Child : home[d] # None /\ RootOf(w)[home[d]] = l}
      BY <3>1, <3>3, <3>6 DEF OpenRecordHolds
    <3>8. records[n].children = {d \in Child : home'[d] # None /\ RootOf(w)[home'[d]] = l}
      BY <1>5, <1>6, <3>5, <3>7
    <3> QED BY <3>1, <3>3, <3>6, <3>8 DEF OpenRecordHolds
  <2> QED BY <1>1, <2>1 DEF SerialInv, SerialRecords
<1>9. SerialRequests' /\ SerialItems' /\ Acyclic(mergedInto')
  <2>1. Serial!OneAtATime'
    BY <1>1 DEF SerialInv, SerialRequests, Serial!OneAtATime
  <2> QED BY <1>1, <2>1 DEF SerialInv, SerialRequests, SerialItems
<1> QED BY <1>4, <1>7, <1>8, <1>9 DEF SerialInv

----------------------------------------------------------------------------
(* Counting items. *)

\* A one-to-one function into a finite set; a set it covers is as large.
LEMMA Matched ==
    ASSUME NEW S, NEW T, IsFiniteSet(T), NEW f \in [S -> T],
           \A p, q \in S : f[p] = f[q] => p = q
    PROVE  /\ IsFiniteSet(S) /\ Cardinality(S) <= Cardinality(T)
           /\ Cardinality(S) = Cardinality(T) <=> \A t \in T : \E p \in S : f[p] = t
<1>1. f \in Injection(S, T)
  BY DEF Injection, IsInjective
<1>2. f \in Surjection(S, T) <=> \A t \in T : \E p \in S : f[p] = t
  BY DEF Surjection
<1>3. IsFiniteSet(S) /\ Cardinality(S) <= Cardinality(T)
        /\ (Cardinality(S) = Cardinality(T) <=> f \in Surjection(S, T))
  BY <1>1, FS_Injection
<1> QED BY <1>2, <1>3

LEMMA FiniteIds ==
    ASSUME NEW held, NEW last \in Nat, \A i \in held : i.id \in 1 .. last, NEW k
    PROVE  IsFiniteSet(IdsOf(k, held)) /\ Cardinality(IdsOf(k, held)) \in Nat
<1>1. IdsOf(k, held) \subseteq 1 .. last
  BY DEF IdsOf
<1>2. IsFiniteSet(1 .. last)
  BY FS_Interval
<1>3. IsFiniteSet(IdsOf(k, held))
  BY <1>1, <1>2, FS_Subset
<1> QED BY <1>3, FS_CardinalityType

LEMMA FiniteDeletes ==
    ASSUME NEW recs, NEW R, recs \in Seq(R), NEW k
    PROVE  IsFiniteSet(DeletedBy(k, recs)) /\ Cardinality(DeletedBy(k, recs)) \in Nat
<1>1. DeletedBy(k, recs) \subseteq 1 .. Len(recs) /\ Len(recs) \in Nat
  BY DEF DeletedBy
<1>2. IsFiniteSet(1 .. Len(recs))
  BY <1>1, FS_Interval
<1>3. IsFiniteSet(DeletedBy(k, recs))
  BY <1>1, <1>2, FS_Subset
<1> QED BY <1>3, FS_CardinalityType

\* With ids of their own there are as many items of a key as ids.
LEMMA CountedById ==
    ASSUME NEW held, \A i, j \in held : i.id = j.id => i = j,
           NEW last \in Nat, \A i \in held : i.id \in 1 .. last, NEW k
    PROVE  Cardinality({i \in held : i.key = k}) = Cardinality(IdsOf(k, held))
<1> DEFINE S == {i \in held : i.key = k}
           f == [i \in S |-> i.id]
<1>1. f \in [S -> IdsOf(k, held)] /\ \A p, q \in S : f[p] = f[q] => p = q
  BY DEF IdsOf
<1>2. \A t \in IdsOf(k, held) : \E p \in S : f[p] = t
  BY DEF IdsOf
<1>3. IsFiniteSet(IdsOf(k, held))
  BY FiniteIds
<1> HIDE DEF S, f
<1>4. Cardinality(S) = Cardinality(IdsOf(k, held))
  BY <1>1, <1>2, <1>3, Matched
<1> QED BY <1>4 DEF S

LEMMA SerialStarts ==
    ASSUME Serial!MergeAssumption, Serial!Init
    PROVE  SerialInv
<1>0. None \notin Row /\ HeldAtFirst \subseteq Key \X Row /\ IsFiniteSet(Row) /\ IsFiniteSet(Key)
        /\ MaxItems \in Nat /\ Cardinality(HeldAtFirst) <= MaxItems
  BY SerialSets DEF Serial!MergeAssumption
<1>1. /\ mergedInto = [x \in Row |-> None] /\ owner = [c \in Child |-> None] /\ home = owner
      /\ lastItem = Cardinality(HeldAtFirst) /\ records = <<>>
      /\ candidates = [p \in Serial!Pair |-> "ABSENT"]
      /\ req = [a \in Admin |-> Serial!IdleRequest] /\ rowLock = [x \in Row |-> None]
  BY SerialSets DEF Serial!Init
<1>2. PICK id \in [HeldAtFirst -> 1 .. lastItem] :
         /\ \A p, q \in HeldAtFirst : p # q => id[p] # id[q]
         /\ items = {[id |-> id[p], key |-> p[1], at |-> p[2]] : p \in HeldAtFirst}
  BY DEF Serial!Init
<1>3. IsFiniteSet(HeldAtFirst) /\ lastItem \in Nat
  <2>1. IsFiniteSet(Key \X Row)
    BY <1>0, FS_Product
  <2>2. IsFiniteSet(HeldAtFirst)
    BY <1>0, <2>1, FS_Subset
  <2> QED BY <1>1, <2>2, FS_CardinalityType
<1>4. lastItem \in 0 .. MaxItems
  BY <1>0, <1>1, <1>3
<1>5. \A p \in HeldAtFirst : p = <<p[1], p[2]>> /\ p[1] \in Key /\ p[2] \in Row /\ id[p] \in 1 .. lastItem
  BY <1>0
<1>6. \A i \in items : /\ i.id \in 1 .. lastItem /\ i.at \in Row /\ i.key \in Key
                       /\ i \in [id : 1 .. MaxItems, key : Key, at : Row]
  BY <1>0, <1>2, <1>3, <1>4, <1>5
<1>7. \A i, j \in items : (i.id = j.id \/ <<i.key, i.at>> = <<j.key, j.at>>) => i = j
  <2> SUFFICES ASSUME NEW p \in HeldAtFirst, NEW q \in HeldAtFirst,
                      id[p] = id[q] \/ (p[1] = q[1] /\ p[2] = q[2])
               PROVE  p = q
    BY <1>2
  <2> QED BY <1>2, <1>5
<1>8. Serial!TypeOK
  <2>1. items \subseteq Serial!Item
    BY <1>6 DEF Serial!Item, Serial!ItemId
  <2>2. records \in Seq(Serial!Record)
    BY <1>1
  <2>3. req \in [Admin -> Serial!Request]
    BY <1>1 DEF Serial!Request, Serial!IdleRequest
  <2> QED BY <1>1, <1>7, <2>1, <2>2, <2>3 DEF Serial!TypeOK
<1>9. Acyclic(mergedInto)
  BY <1>0, <1>1 DEF Acyclic
<1>10. SerialRequests
  BY <1>1 DEF SerialRequests, RequestHolds, Serial!OneAtATime, Serial!IdleRequest
<1>11. Opened(records) = {} /\ \A k : DeletedBy(k, records) = {}
  BY <1>1 DEF Opened, DeletedBy
<1>12. SerialRecords
  BY <1>1, <1>11 DEF SerialRecords
<1>13. SerialChildren
  BY <1>1 DEF SerialChildren
<1>14. ASSUME NEW k \in Key
       PROVE  Cardinality(IdsOf(k, items)) + Cardinality(DeletedBy(k, records))
                = Cardinality({p \in HeldAtFirst : p[1] = k})
  <2> DEFINE S == {p \in HeldAtFirst : p[1] = k}
             f == [p \in S |-> id[p]]
  <2>1. IdsOf(k, items) = {id[p] : p \in S}
    <3>1. ASSUME NEW t \in IdsOf(k, items) PROVE t \in {id[p] : p \in S}
      BY <1>2 DEF IdsOf
    <3>2. ASSUME NEW p \in S PROVE id[p] \in IdsOf(k, items)
      <4>1. [id |-> id[p], key |-> p[1], at |-> p[2]] \in items
        BY <1>2
      <4> QED BY <4>1 DEF IdsOf
    <3> QED BY <3>1, <3>2
  <2>2. f \in [S -> IdsOf(k, items)] /\ (\A p, q \in S : f[p] = f[q] => p = q)
          /\ \A t \in IdsOf(k, items) : \E p \in S : f[p] = t
    BY <1>2, <2>1
  <2>3. IsFiniteSet(IdsOf(k, items)) /\ Cardinality(IdsOf(k, items)) \in Nat
    BY <1>3, <1>6, FiniteIds
  <2> HIDE DEF S, f
  <2>4. Cardinality(S) = Cardinality(IdsOf(k, items))
    BY <2>2, <2>3, Matched
  <2>5. Cardinality(DeletedBy(k, records)) = 0
    BY <1>11, FS_EmptySet
  <2> QED BY <2>3, <2>4, <2>5 DEF S
<1>15. SerialItems
  <2>1. \A i \in items : mergedInto[i.at] = None
    BY <1>1, <1>6
  <2> QED BY <1>4, <1>6, <1>11, <1>14, <2>1 DEF SerialItems
<1> QED BY <1>8, <1>9, <1>10, <1>12, <1>13, <1>15 DEF SerialInv

----------------------------------------------------------------------------
(* A merge, one request at a time. *)

LEMMA SerialReleases ==
    ASSUME SerialInv, NEW a \in Admin, req[a].pc = "ready", Serial!Release(a)
    PROVE  /\ req' \in [Admin -> Serial!Request] /\ rowLock' \in [Row -> Admin \cup {None}]
           /\ SerialRequests'
<1>1. req \in [Admin -> Serial!Request] /\ rowLock \in [Row -> Admin \cup {None}] /\ Serial!OneAtATime
  BY DEF SerialInv, SerialRequests, Serial!TypeOK
<1>2. Serial!IdleRequest \in Serial!Request /\ Serial!IdleRequest.pc = "idle"
  BY DEF Serial!Request, Serial!IdleRequest
<1>3. req' = [req EXCEPT ![a] = Serial!IdleRequest]
        /\ rowLock' = [x \in Row |-> IF rowLock[x] = a THEN None ELSE rowLock[x]]
  BY DEF Serial!Release
<1>4. req' \in [Admin -> Serial!Request] /\ req'[a].pc = "idle"
        /\ \A b \in Admin : b # a => req'[b] = req[b]
  BY <1>1, <1>2, <1>3
<1>5. rowLock' \in [Row -> Admin \cup {None}]
  BY <1>1, <1>3
<1>6. \A b \in Admin : req'[b].pc = "idle"
  BY <1>1, <1>4 DEF Serial!OneAtATime
<1>7. SerialRequests'
  BY <1>6 DEF SerialRequests, RequestHolds, Serial!OneAtATime
<1> QED BY <1>4, <1>5, <1>7

\* What a merge that is ready knows, and what it writes to the rows.
LEMMA SerialMergeFolds ==
    ASSUME Serial!MergeAssumption, SerialInv, NEW a \in Admin, Serial!merge(a),
           NEW s, s = req[a].survivor, NEW l, l = req[a].losing
    PROVE  /\ None \notin Row /\ IsFiniteSet(Row)
           /\ s \in Row /\ l \in Row /\ s # l /\ mergedInto[s] = None /\ mergedInto[l] = None
           /\ Tree(mergedInto) /\ Acyclic(mergedInto)
           /\ mergedInto' = [mergedInto EXCEPT ![l] = s]
           /\ Tree(mergedInto') /\ Acyclic(mergedInto')
<1>1. None \notin Row /\ IsFiniteSet(Row)
  BY SerialSets DEF Serial!MergeAssumption
<1>2. Tree(mergedInto) /\ Acyclic(mergedInto)
  BY DEF SerialInv, Serial!TypeOK, Tree
<1>3. RequestHolds(req[a], records, candidates, mergedInto) /\ req[a].pc = "ready" /\ req[a].op = "merge"
  BY DEF SerialInv, SerialRequests, Serial!merge
<1>4. s \in Row /\ l \in Row /\ s # l /\ mergedInto[s] = None /\ mergedInto[l] = None
  BY <1>3 DEF RequestHolds
<1>5. mergedInto' = [mergedInto EXCEPT ![l] = s]
  BY DEF Serial!merge
<1>6. Tree(mergedInto') /\ Acyclic(mergedInto')
  BY <1>1, <1>2, <1>4, <1>5, FoldedIsAcyclic
<1> QED BY <1>1, <1>2, <1>4, <1>5, <1>6

LEMMA SerialMergesChildren ==
    ASSUME Serial!MergeAssumption, SerialInv, NEW a \in Admin, Serial!merge(a)
    PROVE  /\ SerialChildren'
           /\ owner' \in [Child -> Row \cup {None}] /\ home' \in [Child -> Row \cup {None}]
<1>1. PICK s : s = req[a].survivor
  OBVIOUS
<1>2. PICK l : l = req[a].losing
  OBVIOUS
<1>3. /\ None \notin Row /\ IsFiniteSet(Row)
      /\ s \in Row /\ l \in Row /\ s # l /\ mergedInto[s] = None /\ mergedInto[l] = None
      /\ Tree(mergedInto) /\ Acyclic(mergedInto)
      /\ mergedInto' = [mergedInto EXCEPT ![l] = s]
  BY <1>1, <1>2, SerialMergeFolds
<1>4. owner' = [c \in Child |-> IF owner[c] = l THEN s ELSE owner[c]] /\ home' = home
  BY <1>1, <1>2 DEF Serial!merge
<1>5. owner \in [Child -> Row \cup {None}] /\ home \in [Child -> Row \cup {None}] /\ SerialChildren
  BY DEF SerialInv, Serial!TypeOK
<1>6. \A x \in Row : RootOf(mergedInto')[x] = IF RootOf(mergedInto)[x] = l THEN s ELSE RootOf(mergedInto)[x]
  <2>1. PICK m : m = mergedInto
    OBVIOUS
  <2>2. s # l /\ m[s] = None /\ m[l] = None /\ Tree(m) /\ Acyclic(m)
    BY <1>3, <2>1
  <2>3. \A x \in Row : RootOf([m EXCEPT ![l] = s])[x] = IF RootOf(m)[x] = l THEN s ELSE RootOf(m)[x]
    BY <1>3, <2>2, FoldedRoot
  <2> QED BY <1>3, <2>1, <2>3
<1>7. SerialChildren'
  <2> SUFFICES ASSUME NEW c \in Child
               PROVE  /\ home[c] # None => owner'[c] = RootOf(mergedInto')[home[c]]
                      /\ home[c] = None /\ owner'[c] # None => mergedInto'[owner'[c]] # None
    BY <1>4 DEF SerialChildren
  <2>1. /\ home[c] # None => home[c] \in Row /\ owner[c] = RootOf(mergedInto)[home[c]]
        /\ home[c] = None /\ owner[c] # None => owner[c] \in Row /\ mergedInto[owner[c]] # None
    BY <1>5 DEF SerialChildren
  <2>2. owner'[c] = IF owner[c] = l THEN s ELSE owner[c]
    BY <1>4
  <2>3. home[c] # None => owner'[c] = RootOf(mergedInto')[home[c]]
    BY <1>6, <2>1, <2>2
  <2>4. ASSUME home[c] = None, owner'[c] # None PROVE mergedInto'[owner'[c]] # None
    <3>1. owner[c] # None /\ owner[c] # l
      BY <1>3, <2>1, <2>2, <2>4
    <3>2. mergedInto'[owner[c]] = mergedInto[owner[c]]
      BY <1>3, <2>1, <2>4, <3>1 DEF Tree
    <3> QED BY <2>1, <2>2, <2>4, <3>1, <3>2
  <2> QED BY <2>3, <2>4
<1> QED BY <1>3, <1>4, <1>5, <1>7

LEMMA SerialMergesRecords ==
    ASSUME Serial!MergeAssumption, SerialInv, NEW a \in Admin, Serial!merge(a),
           NEW rec \in Serial!Record, records' = Append(records, rec), ~ rec.unmerged,
           rec.survivor = req[a].survivor, rec.losing = req[a].losing,
           rec.children = {c \in Child : owner[c] = req[a].losing}
    PROVE  SerialRecords'
<1>1. PICK s : s = req[a].survivor
  OBVIOUS
<1>2. PICK l : l = req[a].losing
  OBVIOUS
<1>3. /\ None \notin Row /\ IsFiniteSet(Row)
      /\ s \in Row /\ l \in Row /\ s # l /\ mergedInto[s] = None /\ mergedInto[l] = None
      /\ Tree(mergedInto) /\ Acyclic(mergedInto)
      /\ mergedInto' = [mergedInto EXCEPT ![l] = s]
  BY <1>1, <1>2, SerialMergeFolds
<1>4. /\ records \in Seq(Serial!Record) /\ home \in [Child -> Row \cup {None}] /\ home' = home
      /\ candidates \in [Serial!Pair -> {"ABSENT", "PENDING", "MERGED", "REJECTED"}]
      /\ candidates' = [candidates EXCEPT ![{s, l}] = "MERGED"]
      /\ SerialRecords /\ SerialChildren
  BY <1>1, <1>2 DEF SerialInv, Serial!TypeOK, Serial!merge
<1>5. Len(records) \in Nat /\ records'[Len(records) + 1] = rec
        /\ (\A n \in DOMAIN records : n # Len(records) + 1 /\ records'[n] = records[n])
        /\ DOMAIN records' = DOMAIN records \cup {Len(records) + 1}
  BY <1>4
<1>6. Opened(records') = Opened(records) \cup {Len(records) + 1}
  BY <1>5 DEF Opened
<1>7. {s, l} \in Serial!Pair
  BY <1>3, TwoRows
<1>8. candidates'[{s, l}] = "MERGED" /\ \A q \in Serial!Pair : q # {s, l} => candidates'[q] = candidates[q]
  BY <1>4, <1>7
<1>9. \A x \in Row : mergedInto'[x] = IF x = l THEN s ELSE mergedInto[x]
  BY <1>3 DEF Tree
<1>10. ASSUME NEW n \in Opened(records)
       PROVE  /\ records'[n] = records[n] /\ records[n].losing # l
              /\ OpenRecordHolds(records'[n], candidates', mergedInto', home')
  <2>1. PICK k : k = records[n].losing
    OBVIOUS
  <2>2. /\ records[n] \in Serial!Record /\ {records[n].survivor, k} \in Serial!Pair
        /\ mergedInto[k] = records[n].survivor
    BY <2>1, OpenRecordIsOfTwo
  <2>3. k \in Row /\ k # l /\ k # s
    BY <1>3, <2>1, <2>2 DEF Serial!Record
  <2>4. records'[n] = records[n]
    BY <1>5 DEF Opened
  <2>5. OpenRecordHolds(records[n], candidates, mergedInto, home)
    BY <1>4 DEF SerialRecords
  <2>6. candidates'[{records[n].survivor, k}] = "MERGED"
    <3>1. {records[n].survivor, k} # {s, l}
      BY <2>3
    <3> QED BY <1>8, <2>1, <2>2, <2>5, <3>1 DEF OpenRecordHolds
  <2>7. PICK w : w = [mergedInto EXCEPT ![k] = None]
    OBVIOUS
  <2>8. Tree(w) /\ Acyclic(w)
    BY <1>3, <2>3, <2>7, UnfoldedIsAcyclic
  <2>9. w[s] = None /\ w[l] = None
    BY <1>3, <2>3, <2>7 DEF Tree
  <2>10. \A x \in Row : RootOf([w EXCEPT ![l] = s])[x] = IF RootOf(w)[x] = l THEN s ELSE RootOf(w)[x]
    BY <1>3, <2>8, <2>9, FoldedRoot
  <2>11. [mergedInto' EXCEPT ![k] = None] = [w EXCEPT ![l] = s]
    BY <1>3, <2>3, <2>7 DEF Tree
  <2>12. records[n].children = {c \in Child : home[c] # None /\ RootOf(w)[home[c]] = k}
    BY <2>1, <2>5, <2>7 DEF OpenRecordHolds
  <2>13. \A c \in Child : home[c] # None =>
           (RootOf(w)[home[c]] = k <=> RootOf([w EXCEPT ![l] = s])[home[c]] = k)
    BY <1>4, <2>3, <2>10
  <2>14. records[n].children = {c \in Child : home'[c] # None /\ RootOf([mergedInto' EXCEPT ![k] = None])[home'[c]] = k}
    BY <1>4, <2>11, <2>12, <2>13
  <2>15. mergedInto'[k] = records[n].survivor
    BY <1>9, <2>2, <2>3
  <2> QED BY <2>1, <2>3, <2>4, <2>6, <2>14, <2>15 DEF OpenRecordHolds
<1>11. OpenRecordHolds(rec, candidates', mergedInto', home')
  <2>1. [mergedInto' EXCEPT ![l] = None] = mergedInto
    BY <1>3 DEF Tree
  <2>2. \A c \in Child : owner[c] = l <=> home[c] # None /\ RootOf(mergedInto)[home[c]] = l
    BY <1>3, <1>4 DEF SerialChildren
  <2>3. rec.children = {c \in Child : home[c] # None /\ RootOf(mergedInto)[home[c]] = l}
    BY <1>2, <2>2
  <2>4. rec.children = {c \in Child : home'[c] # None /\ RootOf([mergedInto' EXCEPT ![l] = None])[home'[c]] = l}
    BY <1>4, <2>1, <2>3
  <2> QED BY <1>1, <1>2, <1>3, <1>8, <1>9, <2>4 DEF OpenRecordHolds
<1>12. \A n \in Opened(records') : OpenRecordHolds(records'[n], candidates', mergedInto', home')
  BY <1>5, <1>6, <1>10, <1>11
<1>13. \A n, k \in Opened(records') : records'[n].losing = records'[k].losing => n = k
  <2> SUFFICES ASSUME NEW n \in Opened(records'), NEW k \in Opened(records'),
                      records'[n].losing = records'[k].losing
               PROVE  n = k
    OBVIOUS
  <2>1. CASE n \in Opened(records) /\ k \in Opened(records)
    BY <1>4, <1>10, <2>1 DEF SerialRecords
  <2>2. CASE n = Len(records) + 1 /\ k \in Opened(records)
    BY <1>2, <1>5, <1>10, <2>2
  <2>3. CASE n \in Opened(records) /\ k = Len(records) + 1
    BY <1>2, <1>5, <1>10, <2>3
  <2> QED BY <1>6, <2>1, <2>2, <2>3
<1>14. ASSUME NEW x \in Row, mergedInto'[x] # None PROVE \E n \in Opened(records') : records'[n].losing = x
  <2>1. CASE x = l
    BY <1>2, <1>5, <1>6, <2>1
  <2>2. CASE x # l
    <3>1. PICK n \in Opened(records) : records[n].losing = x
      BY <1>4, <1>9, <1>14, <2>2 DEF SerialRecords
    <3> QED BY <1>6, <1>10, <3>1
  <2> QED BY <2>1, <2>2
<1> QED BY <1>12, <1>13, <1>14 DEF SerialRecords

\* Items that moved keep their ids and keys.
LEMMA MovedItem ==
    ASSUME NEW i \in Serial!Item, NEW x \in Row
    PROVE  /\ [i EXCEPT !.at = x] \in Serial!Item /\ [i EXCEPT !.at = x].at = x
           /\ [i EXCEPT !.at = x].id = i.id /\ [i EXCEPT !.at = x].key = i.key
BY DEF Serial!Item

LEMMA SerialMergesItems ==
    ASSUME Serial!MergeAssumption, SerialInv, NEW a \in Admin, Serial!merge(a),
           NEW rec \in Serial!Record, records' = Append(records, rec), ~ rec.unmerged,
           rec.kept = {i.id : i \in {j \in items \ Serial!Colliding(req[a].survivor, req[a].losing) :
                                       j.at = req[a].losing}},
           rec.deleted = Serial!Deleted(Serial!Colliding(req[a].survivor, req[a].losing))
    PROVE  /\ SerialItems' /\ items' \subseteq Serial!Item
           /\ \A i, j \in items' : (i.id = j.id \/ <<i.key, i.at>> = <<j.key, j.at>>) => i = j
<1>1. PICK s : s = req[a].survivor
  OBVIOUS
<1>2. PICK l : l = req[a].losing
  OBVIOUS
<1>3. /\ s \in Row /\ l \in Row /\ s # l /\ mergedInto[s] = None
      /\ Tree(mergedInto) /\ mergedInto' = [mergedInto EXCEPT ![l] = s]
  BY <1>1, <1>2, SerialMergeFolds
<1>4. /\ items \subseteq Serial!Item
      /\ \A i, j \in items : (i.id = j.id \/ <<i.key, i.at>> = <<j.key, j.at>>) => i = j
      /\ records \in Seq(Serial!Record) /\ SerialItems /\ lastItem' = lastItem
  BY DEF SerialInv, Serial!TypeOK, Serial!merge
<1> DEFINE moved(i) == IF i.at = l THEN [i EXCEPT !.at = s] ELSE i
<1>5. PICK gone \in SUBSET items :
        gone = {i \in items : i.at = l /\ \E j \in items : j.at = s /\ j.key = i.key}
  OBVIOUS
<1>6. Serial!Colliding(s, l) = gone
  BY <1>5 DEF Serial!Colliding
<1>7. items' = {moved(i) : i \in items \ gone}
  BY <1>1, <1>2, <1>6 DEF Serial!merge
<1>8. \A i \in items : /\ moved(i) \in Serial!Item /\ moved(i).id = i.id /\ moved(i).key = i.key
                       /\ moved(i).at = IF i.at = l THEN s ELSE i.at
  BY <1>3, <1>4, MovedItem
<1> HIDE DEF moved
<1>9. items' \subseteq Serial!Item
  BY <1>7, <1>8
<1>10. \A i \in items' : \E j \in items \ gone : i = moved(j)
  BY <1>7
<1>11. \A i, j \in items' : (i.id = j.id \/ <<i.key, i.at>> = <<j.key, j.at>>) => i = j
  <2> SUFFICES ASSUME NEW i \in items \ gone, NEW j \in items \ gone,
                      moved(i).id = moved(j).id \/ (moved(i).key = moved(j).key /\ moved(i).at = moved(j).at)
               PROVE  i = j
    BY <1>10
  <2>1. i \in items /\ j \in items /\ i \notin gone /\ j \notin gone
    OBVIOUS
  <2>2. CASE moved(i).id = moved(j).id
    BY <1>4, <1>8, <2>1, <2>2
  <2>3. CASE moved(i).key = moved(j).key /\ moved(i).at = moved(j).at
    <3>1. i.key = j.key
      BY <1>8, <2>1, <2>3
    <3>2. (i.at = l /\ j.at = s) => FALSE
      BY <1>5, <2>1, <3>1
    <3>3. (j.at = l /\ i.at = s) => FALSE
      BY <1>5, <2>1, <3>1
    <3>4. i.at = j.at
      BY <1>8, <2>1, <2>3, <3>2, <3>3
    <3> QED BY <1>4, <2>1, <3>1, <3>4
  <2> QED BY <2>2, <2>3
<1>12. lastItem' \in 0 .. MaxItems /\ \A i \in items' : i.id \in 1 .. lastItem' /\ mergedInto'[i.at] = None
  <2>1. lastItem' \in 0 .. MaxItems
    BY <1>4 DEF SerialItems
  <2>2. ASSUME NEW j \in items \ gone PROVE moved(j).id \in 1 .. lastItem' /\ mergedInto'[moved(j).at] = None
    <3>1. j.at \in Row /\ j.id \in 1 .. lastItem /\ mergedInto[j.at] = None
      BY <1>4 DEF SerialItems, Serial!Item
    <3> QED BY <1>3, <1>4, <1>8, <3>1 DEF Tree
  <2> QED BY <1>10, <2>1, <2>2
<1>13. Len(records) \in Nat /\ records'[Len(records) + 1] = rec
        /\ (\A n \in DOMAIN records : n # Len(records) + 1 /\ records'[n] = records[n])
        /\ DOMAIN records' = DOMAIN records \cup {Len(records) + 1}
  BY <1>4
<1>14. rec.kept = {i.id : i \in {j \in items \ gone : j.at = l}} /\ rec.deleted = {i.key : i \in gone}
  BY <1>1, <1>2, <1>6 DEF Serial!Deleted
<1>15. KeptHolds(rec, items', lastItem')
  <2>1. rec.kept \subseteq 1 .. lastItem'
    BY <1>4, <1>14 DEF SerialItems
  <2>2. ASSUME NEW j \in items \ gone, moved(j).id \in rec.kept PROVE j.at = l
    <3>1. PICK i \in items \ gone : i.at = l /\ i.id = moved(j).id
      BY <1>14, <2>2
    <3>2. i = j
      BY <1>4, <1>8, <3>1
    <3> QED BY <3>1, <3>2
  <2>3. \A i \in items' : i.id \in rec.kept => i.key \notin rec.deleted
    <3> SUFFICES ASSUME NEW j \in items \ gone, moved(j).id \in rec.kept, moved(j).key \in rec.deleted
                 PROVE  FALSE
      BY <1>10
    <3>1. PICK g \in gone : g.key = moved(j).key
      BY <1>14
    <3>2. g.at = l /\ j.at = l /\ g.key = j.key
      BY <1>5, <1>8, <2>2, <3>1
    <3> QED BY <1>4, <3>2
  <2>4. \A i, j \in items' : i.id \in rec.kept /\ j.id \in rec.kept /\ i.key = j.key => i = j
    <3> SUFFICES ASSUME NEW i \in items \ gone, NEW j \in items \ gone,
                        moved(i).id \in rec.kept, moved(j).id \in rec.kept, moved(i).key = moved(j).key
                 PROVE  i = j
      BY <1>10
    <3>1. i.at = l /\ j.at = l /\ i.key = j.key
      BY <1>8, <2>2
    <3> QED BY <1>4, <3>1
  <2> QED BY <2>1, <2>3, <2>4 DEF KeptHolds
<1>16. ASSUME NEW n \in Opened(records) PROVE KeptHolds(records'[n], items', lastItem')
  <2>1. PICK r : r = records[n]
    OBVIOUS
  <2>2. records'[n] = r
    BY <1>13, <2>1 DEF Opened
  <2>3. KeptHolds(r, items, lastItem)
    BY <1>4, <2>1 DEF SerialItems
  <2>4. \A i \in items' : i.id \in r.kept => i.key \notin r.deleted
    <3> SUFFICES ASSUME NEW j \in items \ gone, moved(j).id \in r.kept PROVE moved(j).key \notin r.deleted
      BY <1>10
    <3> QED BY <1>8, <2>3 DEF KeptHolds
  <2>5. \A i, j \in items' : i.id \in r.kept /\ j.id \in r.kept /\ i.key = j.key => i = j
    <3> SUFFICES ASSUME NEW i \in items \ gone, NEW j \in items \ gone,
                        moved(i).id \in r.kept, moved(j).id \in r.kept, moved(i).key = moved(j).key
                 PROVE  i = j
      BY <1>10
    <3> QED BY <1>8, <2>3 DEF KeptHolds
  <2> QED BY <1>4, <2>2, <2>3, <2>4, <2>5 DEF KeptHolds
<1>17. Opened(records') = Opened(records) \cup {Len(records) + 1}
  BY <1>13 DEF Opened
<1>18. \A n \in Opened(records') : KeptHolds(records'[n], items', lastItem')
  BY <1>13, <1>15, <1>16, <1>17
\* A key that is deleted goes with one item and comes with one record.
<1>19. ASSUME NEW k \in Key
       PROVE  Cardinality(IdsOf(k, items')) + Cardinality(DeletedBy(k, records'))
                = Cardinality({p \in HeldAtFirst : p[1] = k})
  <2>1. Cardinality(IdsOf(k, items)) + Cardinality(DeletedBy(k, records))
          = Cardinality({p \in HeldAtFirst : p[1] = k})
    BY <1>4 DEF SerialItems
  <2>2. lastItem \in Nat /\ \A i \in items : i.id \in 1 .. lastItem
    BY <1>4 DEF SerialItems
  <2>3. IsFiniteSet(IdsOf(k, items)) /\ Cardinality(IdsOf(k, items)) \in Nat
    BY <2>2, FiniteIds
  <2>4. IsFiniteSet(DeletedBy(k, records)) /\ Cardinality(DeletedBy(k, records)) \in Nat
    BY <1>4, FiniteDeletes
  <2>5. IdsOf(k, items') = {i.id : i \in {j \in items \ gone : j.key = k}}
    <3>1. ASSUME NEW t \in IdsOf(k, items') PROVE t \in {i.id : i \in {j \in items \ gone : j.key = k}}
      BY <1>8, <1>10 DEF IdsOf
    <3>2. ASSUME NEW j \in items \ gone, j.key = k PROVE j.id \in IdsOf(k, items')
      BY <1>7, <1>8, <3>2 DEF IdsOf
    <3> QED BY <3>1, <3>2
  <2>6. CASE k \in rec.deleted
    <3>1. PICK g \in gone : g.key = k
      BY <1>14, <2>6
    <3>2. \A i \in gone : i.key = k => i = g
      BY <1>4, <1>5, <3>1
    <3>3. IdsOf(k, items') = IdsOf(k, items) \ {g.id}
      <4>1. ASSUME NEW i \in items, i.key = k PROVE i.id \in IdsOf(k, items') <=> i.id # g.id
        <5>1. i.id # g.id <=> i \notin gone
          BY <1>4, <3>1, <3>2, <4>1
        <5>2. i.id \in IdsOf(k, items') <=> i \notin gone
          BY <1>4, <2>5, <4>1
        <5> QED BY <5>1, <5>2
      <4>2. IdsOf(k, items') \subseteq IdsOf(k, items)
        BY <2>5 DEF IdsOf
      <4>3. ASSUME NEW t \in IdsOf(k, items) PROVE t \in IdsOf(k, items') <=> t # g.id
        <5>1. PICK i \in items : i.key = k /\ i.id = t
          BY DEF IdsOf
        <5> QED BY <4>1, <5>1
      <4> QED BY <4>2, <4>3
    <3>4. g.id \in IdsOf(k, items)
      BY <3>1 DEF IdsOf
    <3>5. Cardinality(IdsOf(k, items')) = Cardinality(IdsOf(k, items)) - 1
      <4>1. PICK S : S = IdsOf(k, items)
        OBVIOUS
      <4>2. PICK t : t = g.id
        OBVIOUS
      <4>3. IsFiniteSet(S) /\ t \in S
        BY <2>3, <3>4, <4>1, <4>2
      <4>4. Cardinality(S \ {t}) = Cardinality(S) - 1
        BY <4>3, FS_RemoveElement
      <4> QED BY <3>3, <4>1, <4>2, <4>4
    <3>6. DeletedBy(k, records') = DeletedBy(k, records) \cup {Len(records) + 1}
      BY <1>13, <2>6 DEF DeletedBy
    <3>7. Len(records) + 1 \notin DeletedBy(k, records)
      BY <1>13 DEF DeletedBy
    <3>8. Cardinality(DeletedBy(k, records')) = Cardinality(DeletedBy(k, records)) + 1
      BY <2>4, <3>6, <3>7, FS_AddElement
    <3> QED BY <2>1, <2>3, <2>4, <3>5, <3>8
  <2>7. CASE k \notin rec.deleted
    <3>1. \A i \in gone : i.key # k
      BY <1>14, <2>7
    <3>2. IdsOf(k, items') = IdsOf(k, items)
      BY <2>5, <3>1 DEF IdsOf
    <3>3. DeletedBy(k, records') = DeletedBy(k, records)
      BY <1>13, <2>7 DEF DeletedBy
    <3> QED BY <2>1, <3>2, <3>3
  <2> QED BY <2>6, <2>7
<1>20. SerialItems'
  BY <1>12, <1>18, <1>19 DEF SerialItems
<1> QED BY <1>9, <1>11, <1>20

LEMMA SerialMerges ==
    ASSUME Serial!MergeAssumption, SerialInv, NEW a \in Admin, Serial!merge(a)
    PROVE  SerialInv'
<1> DEFINE s == req[a].survivor
           l == req[a].losing
           gone == Serial!Colliding(s, l)
           rec == [survivor |-> s, losing |-> l, children |-> {c \in Child : owner[c] = l},
                   kept |-> {i.id : i \in {j \in items \ gone : j.at = l}},
                   deleted |-> Serial!Deleted(gone), unmerged |-> FALSE]
<1>1. /\ s \in Row /\ l \in Row /\ Acyclic(mergedInto') /\ Tree(mergedInto')
  BY SerialMergeFolds
<1>2. /\ records \in Seq(Serial!Record) /\ items \subseteq Serial!Item
      /\ candidates \in [Serial!Pair -> {"ABSENT", "PENDING", "MERGED", "REJECTED"}]
  BY DEF SerialInv, Serial!TypeOK
<1>3. rec \in Serial!Record
  <2>1. {i.id : i \in {j \in items \ gone : j.at = l}} \subseteq Serial!ItemId
    BY <1>2 DEF Serial!Item
  <2>2. Serial!Deleted(gone) \subseteq Key
    BY <1>2 DEF Serial!Item, Serial!Deleted, Serial!Colliding
  <2> QED BY <1>1, <2>1, <2>2 DEF Serial!Record
<1>4. records' = Append(records, rec)
  BY DEF Serial!merge
<1>5. /\ ~ rec.unmerged /\ rec.survivor = req[a].survivor /\ rec.losing = req[a].losing
      /\ rec.children = {c \in Child : owner[c] = req[a].losing}
      /\ rec.kept = {i.id : i \in {j \in items \ Serial!Colliding(req[a].survivor, req[a].losing) :
                                     j.at = req[a].losing}}
      /\ rec.deleted = Serial!Deleted(Serial!Colliding(req[a].survivor, req[a].losing))
  OBVIOUS
<1> HIDE DEF rec
<1>6. SerialRecords'
  BY <1>3, <1>4, <1>5, SerialMergesRecords
<1>7. /\ SerialItems' /\ items' \subseteq Serial!Item
      /\ \A i, j \in items' : (i.id = j.id \/ <<i.key, i.at>> = <<j.key, j.at>>) => i = j
  BY <1>3, <1>4, <1>5, SerialMergesItems
<1>8. /\ SerialChildren'
      /\ owner' \in [Child -> Row \cup {None}] /\ home' \in [Child -> Row \cup {None}]
  BY SerialMergesChildren
<1>9. /\ req' \in [Admin -> Serial!Request] /\ rowLock' \in [Row -> Admin \cup {None}]
      /\ SerialRequests'
  BY SerialReleases DEF Serial!merge
<1>10. candidates' \in [Serial!Pair -> {"ABSENT", "PENDING", "MERGED", "REJECTED"}]
  <2>1. PICK p : p = {s, l}
    OBVIOUS
  <2>2. candidates' = [candidates EXCEPT ![p] = "MERGED"]
    BY <2>1 DEF Serial!merge
  <2> QED BY <1>2, <2>2
<1>11. records' \in Seq(Serial!Record)
  BY <1>2, <1>3, <1>4
<1>12. Serial!TypeOK'
  BY <1>1, <1>7, <1>8, <1>9, <1>10, <1>11 DEF Serial!TypeOK, Tree
<1> QED BY <1>1, <1>6, <1>7, <1>8, <1>9, <1>12 DEF SerialInv

----------------------------------------------------------------------------
(* An unmerge, one request at a time. *)

\* What an unmerge that is ready knows, and what it writes to the rows.
LEMMA SerialUnmergeUnfolds ==
    ASSUME Serial!MergeAssumption, SerialInv, NEW a \in Admin, Serial!unmerge(a),
           NEW n, n = req[a].record, NEW r, r = records[n], NEW s, s = r.survivor, NEW l, l = req[a].losing
    PROVE  /\ None \notin Row /\ IsFiniteSet(Row)
           /\ n \in Opened(records) /\ r \in Serial!Record /\ r.losing = l
           /\ s \in Row /\ l \in Row /\ s # l /\ mergedInto[s] = None /\ mergedInto[l] = s
           /\ Tree(mergedInto) /\ Acyclic(mergedInto)
           /\ mergedInto' = [mergedInto EXCEPT ![l] = None]
           /\ Tree(mergedInto') /\ Acyclic(mergedInto')
<1>1. None \notin Row /\ IsFiniteSet(Row)
  BY SerialSets DEF Serial!MergeAssumption
<1>2. Tree(mergedInto) /\ Acyclic(mergedInto)
  BY DEF SerialInv, Serial!TypeOK, Tree
<1>3. RequestHolds(req[a], records, candidates, mergedInto) /\ req[a].pc = "ready" /\ req[a].op = "unmerge"
  BY DEF SerialInv, SerialRequests, Serial!unmerge
<1>4. s \in Row /\ l \in Row /\ mergedInto[s] = None /\ mergedInto[l] = s /\ r.losing = l
        /\ n \in Opened(records)
  BY <1>3 DEF RequestHolds, Opened
<1>5. r \in Serial!Record /\ s # l
  BY <1>4, OpenRecordIsOfTwo
<1>6. mergedInto' = [mergedInto EXCEPT ![l] = None]
  BY DEF Serial!unmerge
<1>7. Tree(mergedInto') /\ Acyclic(mergedInto')
  BY <1>1, <1>2, <1>4, <1>6, UnfoldedIsAcyclic
<1> QED BY <1>1, <1>2, <1>4, <1>5, <1>6, <1>7

LEMMA SerialUnmergesChildren ==
    ASSUME Serial!MergeAssumption, SerialInv, NEW a \in Admin, Serial!unmerge(a)
    PROVE  /\ SerialChildren'
           /\ owner' \in [Child -> Row \cup {None}] /\ home' \in [Child -> Row \cup {None}]
<1>1. PICK n : n = req[a].record
  OBVIOUS
<1>2. PICK r : r = records[n]
  OBVIOUS
<1>3. PICK s : s = r.survivor
  OBVIOUS
<1>4. PICK l : l = req[a].losing
  OBVIOUS
<1>5. /\ None \notin Row /\ IsFiniteSet(Row)
      /\ n \in Opened(records) /\ r.losing = l
      /\ s \in Row /\ l \in Row /\ s # l /\ mergedInto[s] = None /\ mergedInto[l] = s
      /\ Tree(mergedInto) /\ Acyclic(mergedInto)
      /\ mergedInto' = [mergedInto EXCEPT ![l] = None]
  BY <1>1, <1>2, <1>3, <1>4, SerialUnmergeUnfolds
<1>6. /\ owner' = [c \in Child |-> IF c \in r.children THEN l ELSE owner[c]]
      /\ home' = [c \in Child |-> IF owner[c] = l THEN l ELSE home[c]]
  BY <1>1, <1>2, <1>4 DEF Serial!unmerge, Serial!Restored
<1>7. owner \in [Child -> Row \cup {None}] /\ home \in [Child -> Row \cup {None}] /\ SerialChildren
  BY DEF SerialInv, Serial!TypeOK
<1>8. PICK m : m = mergedInto
  OBVIOUS
<1>9. PICK w : w = [m EXCEPT ![l] = None]
  OBVIOUS
<1>10. \A x \in Row : RootOf(m)[x] = IF RootOf(w)[x] = l THEN s ELSE RootOf(w)[x]
  <2>1. s # l /\ m[s] = None /\ m[l] = s /\ Tree(m) /\ Acyclic(m)
    BY <1>5, <1>8
  <2>2. \A x \in Row : RootOf(m)[x] =
          IF RootOf([m EXCEPT ![l] = None])[x] = l THEN s ELSE RootOf([m EXCEPT ![l] = None])[x]
    BY <1>5, <2>1, UnfoldedRoot
  <2> QED BY <1>9, <2>2
<1>11. r.children = {c \in Child : home[c] # None /\ RootOf(w)[home[c]] = l}
  <2>1. OpenRecordHolds(records[n], candidates, mergedInto, home)
    BY <1>5 DEF SerialInv, SerialRecords
  <2> QED BY <1>2, <1>5, <1>8, <1>9, <2>1 DEF OpenRecordHolds
<1>12. ASSUME NEW c \in Child
       PROVE  /\ home'[c] # None => owner'[c] = RootOf(w)[home'[c]]
              /\ home'[c] = None /\ owner'[c] # None => w[owner'[c]] # None
  <2>1. /\ home[c] # None => home[c] \in Row /\ owner[c] = RootOf(m)[home[c]]
        /\ home[c] = None /\ owner[c] # None => owner[c] \in Row /\ m[owner[c]] # None
    BY <1>7, <1>8 DEF SerialChildren
  <2>2. /\ owner'[c] = IF c \in r.children THEN l ELSE owner[c]
        /\ home'[c] = IF owner[c] = l THEN l ELSE home[c]
    BY <1>6
  <2>3. CASE owner[c] = l
    <3>1. home[c] = None
      <4>1. \A x \in Row : m[RootOf(m)[x]] = None
        BY <1>5, <1>8, RootExists
      <4> QED BY <1>5, <1>8, <2>1, <2>3, <4>1
    <3>2. RootOf(w)[l] = l
      <4>1. Tree(w) /\ Acyclic(w)
        BY <1>5, <1>8, <1>9, UnfoldedIsAcyclic
      <4>2. w[l] = None
        BY <1>5, <1>8, <1>9 DEF Tree
      <4> QED BY <1>5, <4>1, <4>2, RootOfLive
    <3> QED BY <1>5, <2>2, <2>3, <3>1, <3>2
  <2>4. CASE owner[c] # l /\ home[c] # None
    BY <1>10, <1>11, <2>1, <2>2, <2>4
  <2>5. CASE owner[c] # l /\ home[c] = None
    <3>1. c \notin r.children /\ owner'[c] = owner[c] /\ home'[c] = None
      BY <1>11, <2>2, <2>5
    <3>2. owner[c] # None => w[owner[c]] = m[owner[c]]
      BY <1>5, <1>8, <1>9, <2>1, <2>5 DEF Tree
    <3> QED BY <2>1, <2>5, <3>1, <3>2
  <2> QED BY <2>3, <2>4, <2>5
<1>13. SerialChildren'
  BY <1>5, <1>8, <1>9, <1>12 DEF SerialChildren
<1>14. owner' \in [Child -> Row \cup {None}] /\ home' \in [Child -> Row \cup {None}]
  BY <1>5, <1>6, <1>7
<1> QED BY <1>13, <1>14

LEMMA SerialUnmergesRecords ==
    ASSUME Serial!MergeAssumption, SerialInv, NEW a \in Admin, Serial!unmerge(a)
    PROVE  SerialRecords' /\ records' \in Seq(Serial!Record)
<1>1. PICK n : n = req[a].record
  OBVIOUS
<1>2. PICK r : r = records[n]
  OBVIOUS
<1>3. PICK s : s = r.survivor
  OBVIOUS
<1>4. PICK l : l = req[a].losing
  OBVIOUS
<1>5. /\ None \notin Row /\ IsFiniteSet(Row)
      /\ n \in Opened(records) /\ r \in Serial!Record /\ r.losing = l
      /\ s \in Row /\ l \in Row /\ s # l /\ mergedInto[s] = None /\ mergedInto[l] = s
      /\ Tree(mergedInto) /\ Acyclic(mergedInto)
      /\ mergedInto' = [mergedInto EXCEPT ![l] = None]
  BY <1>1, <1>2, <1>3, <1>4, SerialUnmergeUnfolds
<1>6. /\ records \in Seq(Serial!Record) /\ home \in [Child -> Row \cup {None}]
      /\ home' = [c \in Child |-> IF owner[c] = l THEN l ELSE home[c]]
      /\ candidates \in [Serial!Pair -> {"ABSENT", "PENDING", "MERGED", "REJECTED"}]
      /\ candidates' = [candidates EXCEPT ![{s, l}] = "PENDING"]
      /\ SerialRecords /\ SerialChildren
  BY <1>1, <1>2, <1>3, <1>4 DEF SerialInv, Serial!TypeOK, Serial!unmerge
<1>18. \A c \in Child : owner[c] = l => home[c] = None
  <2>1. \A x \in Row : mergedInto[RootOf(mergedInto)[x]] = None
    BY <1>5, RootExists
  <2> QED BY <1>5, <1>6, <2>1 DEF SerialChildren
<1>7. records' = [records EXCEPT ![n].unmerged = TRUE]
  BY <1>1 DEF Serial!unmerge
<1>8. [r EXCEPT !.unmerged = TRUE] \in Serial!Record /\ [r EXCEPT !.unmerged = TRUE].unmerged
  BY <1>5 DEF Serial!Record
<1>9. /\ records' \in Seq(Serial!Record) /\ DOMAIN records' = DOMAIN records
      /\ records'[n].unmerged /\ \A k \in DOMAIN records : k # n => records'[k] = records[k]
  <2>1. n \in DOMAIN records
    BY <1>5 DEF Opened
  <2>2. PICK closed \in Serial!Record : closed = [r EXCEPT !.unmerged = TRUE]
    BY <1>8
  <2>3. records' = [records EXCEPT ![n] = closed]
    BY <1>2, <1>7, <2>2
  <2>4. records' \in Seq(Serial!Record)
    BY <1>6, <2>1, <2>3
  <2>5. DOMAIN records' = DOMAIN records /\ records'[n] = closed
          /\ \A k \in DOMAIN records : k # n => records'[k] = records[k]
    BY <2>1, <2>3
  <2>6. closed.unmerged
    BY <1>8, <2>2, Zenon
  <2> QED BY <2>4, <2>5, <2>6
<1>10. Opened(records') = Opened(records) \ {n}
  BY <1>9 DEF Opened
<1>11. \A q \in Serial!Pair : q # {s, l} => candidates'[q] = candidates[q]
  <2>1. PICK p : p = {s, l}
    OBVIOUS
  <2> QED BY <1>6, <2>1
<1>12. \A x \in Row : mergedInto'[x] = IF x = l THEN None ELSE mergedInto[x]
  BY <1>5 DEF Tree
<1>13. ASSUME NEW k \in Opened(records')
       PROVE  /\ records'[k] = records[k] /\ records[k].losing # l
              /\ OpenRecordHolds(records'[k], candidates', mergedInto', home')
  <2>1. PICK t : t = records[k].losing
    OBVIOUS
  <2>2. k \in Opened(records) /\ k # n
    BY <1>10
  <2>3. records'[k] = records[k]
    BY <1>9, <2>2 DEF Opened
  <2>4. /\ records[k] \in Serial!Record /\ {records[k].survivor, t} \in Serial!Pair
        /\ mergedInto[t] = records[k].survivor
    BY <2>1, <2>2, OpenRecordIsOfTwo
  <2>5. t # l
    BY <1>2, <1>5, <1>6, <2>1, <2>2 DEF SerialRecords
  <2>6. t \in Row /\ t # s
    BY <1>5, <2>1, <2>4 DEF Serial!Record
  <2>7. OpenRecordHolds(records[k], candidates, mergedInto, home)
    BY <1>6, <2>2 DEF SerialRecords
  <2>8. candidates'[{records[k].survivor, t}] = "MERGED"
    <3>1. {records[k].survivor, t} # {s, l}
      BY <2>5, <2>6
    <3> QED BY <1>11, <2>1, <2>4, <2>7, <3>1 DEF OpenRecordHolds
  <2>9. PICK w : w = [mergedInto EXCEPT ![t] = None]
    OBVIOUS
  <2>10. Tree(w) /\ Acyclic(w) /\ w[s] = None /\ w[l] = s
    <3>1. Tree(w) /\ Acyclic(w)
      BY <1>5, <2>6, <2>9, UnfoldedIsAcyclic
    <3>2. w[s] = None /\ w[l] = s
      BY <1>5, <2>5, <2>6, <2>9 DEF Tree
    <3> QED BY <3>1, <3>2
  <2>11. PICK v : v = [w EXCEPT ![l] = None]
    OBVIOUS
  <2>12. \A x \in Row : RootOf(w)[x] = IF RootOf(v)[x] = l THEN s ELSE RootOf(v)[x]
    <3>1. \A x \in Row : RootOf(w)[x] =
            IF RootOf([w EXCEPT ![l] = None])[x] = l THEN s ELSE RootOf([w EXCEPT ![l] = None])[x]
      BY <1>5, <2>10, UnfoldedRoot
    <3> QED BY <2>11, <3>1
  <2>13. [mergedInto' EXCEPT ![t] = None] = v
    BY <1>5, <2>5, <2>6, <2>9, <2>11 DEF Tree
  <2>14. records[k].children = {c \in Child : home[c] # None /\ RootOf(w)[home[c]] = t}
    BY <2>1, <2>7, <2>9 DEF OpenRecordHolds
  <2>15. \A c \in Child : home[c] # None => (RootOf(w)[home[c]] = t <=> RootOf(v)[home[c]] = t)
    BY <1>6, <2>5, <2>6, <2>12
  <2>16. records[k].children = {c \in Child : home'[c] # None /\ RootOf([mergedInto' EXCEPT ![t] = None])[home'[c]] = t}
    <3>1. RootOf(v)[l] = l
      <4>1. Tree(v) /\ Acyclic(v)
        BY <1>5, <2>10, <2>11, UnfoldedIsAcyclic
      <4>2. v[l] = None
        BY <1>5, <2>10, <2>11 DEF Tree
      <4> QED BY <1>5, <4>1, <4>2, RootOfLive
    <3>2. ASSUME NEW c \in Child
          PROVE  home'[c] # None /\ RootOf(v)[home'[c]] = t <=> home[c] # None /\ RootOf(w)[home[c]] = t
      <4>1. home'[c] = IF owner[c] = l THEN l ELSE home[c]
        BY <1>6
      <4> QED BY <1>18, <2>5, <2>15, <3>1, <4>1
    <3> QED BY <2>13, <2>14, <3>2
  <2>17. mergedInto'[t] = records[k].survivor
    BY <1>12, <2>4, <2>5, <2>6
  <2> QED BY <2>1, <2>3, <2>5, <2>8, <2>16, <2>17 DEF OpenRecordHolds
<1>14. \A j, k \in Opened(records') : records'[j].losing = records'[k].losing => j = k
  <2> SUFFICES ASSUME NEW j \in Opened(records'), NEW k \in Opened(records'),
                      records'[j].losing = records'[k].losing
               PROVE  j = k
    OBVIOUS
  <2>1. records[j].losing = records[k].losing /\ j \in Opened(records) /\ k \in Opened(records)
    BY <1>10, <1>13
  <2> QED BY <1>6, <2>1 DEF SerialRecords
<1>15. ASSUME NEW x \in Row, mergedInto'[x] # None PROVE \E k \in Opened(records') : records'[k].losing = x
  <2>1. x # l /\ mergedInto[x] # None
    BY <1>12, <1>15
  <2>2. PICK k \in Opened(records) : records[k].losing = x
    BY <1>6, <2>1 DEF SerialRecords
  <2>3. k # n
    BY <1>2, <1>5, <2>1, <2>2
  <2>4. k \in Opened(records')
    BY <1>10, <2>3
  <2> QED BY <1>13, <2>2, <2>4
<1>16. \A k \in Opened(records') : OpenRecordHolds(records'[k], candidates', mergedInto', home')
  BY <1>13
<1>17. SerialRecords'
  BY <1>14, <1>15, <1>16 DEF SerialRecords
<1> QED BY <1>9, <1>17

LEMMA SerialUnmergesItems ==
    ASSUME Serial!MergeAssumption, SerialInv, NEW a \in Admin, Serial!unmerge(a)
    PROVE  /\ SerialItems' /\ items' \subseteq Serial!Item
           /\ \A i, j \in items' : (i.id = j.id \/ <<i.key, i.at>> = <<j.key, j.at>>) => i = j
<1>1. PICK n : n = req[a].record
  OBVIOUS
<1>2. PICK r : r = records[n]
  OBVIOUS
<1>3. PICK s : s = r.survivor
  OBVIOUS
<1>4. PICK l : l = req[a].losing
  OBVIOUS
<1>5. /\ None \notin Row
      /\ n \in Opened(records) /\ r \in Serial!Record
      /\ s \in Row /\ l \in Row /\ mergedInto[l] = s
      /\ Tree(mergedInto) /\ mergedInto' = [mergedInto EXCEPT ![l] = None]
  BY <1>1, <1>2, <1>3, <1>4, SerialUnmergeUnfolds
<1>6. /\ items \subseteq Serial!Item
      /\ \A i, j \in items : (i.id = j.id \/ <<i.key, i.at>> = <<j.key, j.at>>) => i = j
      /\ records \in Seq(Serial!Record) /\ SerialItems
  BY DEF SerialInv, Serial!TypeOK
<1>7. KeptHolds(r, items, lastItem)
  BY <1>2, <1>5, <1>6 DEF SerialItems
<1>8. lastItem \in Nat /\ MaxItems \in Nat /\ \A i \in items : i.id \in 1 .. lastItem
  BY <1>6 DEF SerialItems, Serial!MergeAssumption
<1>9. r.deleted \in SUBSET Key /\ IsFiniteSet(r.deleted)
  <2>1. r.deleted \in SUBSET Key
    BY <1>5 DEF Serial!Record
  <2>2. IsFiniteSet(Key)
    BY SerialSets DEF Serial!MergeAssumption
  <2> QED BY <2>1, <2>2, FS_Subset
<1>10. PICK count \in Nat : count = Cardinality(r.deleted)
  BY <1>9, FS_CardinalityType
<1>11. lastItem + count <= MaxItems /\ lastItem' = lastItem + count
  BY <1>1, <1>2, <1>10, SerialSets DEF Serial!unmerge
<1> DEFINE back(i) == IF i.id \in r.kept THEN [i EXCEPT !.at = l] ELSE i
<1>12. PICK new \in Serial!Recreated(l, r.deleted) : items' = {back(i) : i \in items} \cup new
  BY <1>1, <1>2, <1>4 DEF Serial!unmerge
<1>13. /\ \A i \in new : i.id \in lastItem + 1 .. lastItem + count /\ i.key \in r.deleted /\ i.at = l
                         /\ i \in [id : lastItem + 1 .. lastItem + count, key : r.deleted, at : {l}]
       /\ Cardinality(new) = count
       /\ \A i, j \in new : (i.id = j.id \/ i.key = j.key) => i = j
  <2>1. Serial!Cardinality(r.deleted) = count /\ Serial!Cardinality(new) = Cardinality(new)
    BY <1>10, SerialSets
  <2>2. new \in SUBSET [id : lastItem + 1 .. lastItem + count, key : r.deleted, at : {l}]
    BY <1>12, <2>1 DEF Serial!Recreated
  <2>3. Cardinality(new) = count /\ \A i, j \in new : (i.id = j.id \/ i.key = j.key) => i = j
    BY <1>12, <2>1 DEF Serial!Recreated
  <2>4. \A i \in new : i \in [id : lastItem + 1 .. lastItem + count, key : r.deleted, at : {l}]
    BY <2>2
  <2>5. \A i \in new : i.id \in lastItem + 1 .. lastItem + count /\ i.key \in r.deleted /\ i.at = l
    BY <2>4
  <2> QED BY <2>3, <2>4, <2>5
<1>14. \A i \in items : /\ back(i) \in Serial!Item /\ back(i).id = i.id /\ back(i).key = i.key
                        /\ back(i).at = IF i.id \in r.kept THEN l ELSE i.at
  BY <1>5, <1>6, MovedItem
<1> HIDE DEF back
<1>15. \A i \in items' : i \in new \/ \E j \in items : i = back(j)
  BY <1>12
<1>16. \A i \in items : i.at # l
  <2> TAKE i \in items
  <2>1. mergedInto[i.at] = None
    BY <1>6 DEF SerialItems
  <2> QED BY <1>5, <2>1
<1>17. items' \subseteq Serial!Item
  <2>1. ASSUME NEW i \in new PROVE i \in Serial!Item
    <3>1. i.id \in 1 .. MaxItems /\ i.key \in Key /\ i.at \in Row
      BY <1>5, <1>8, <1>9, <1>11, <1>13
    <3> QED BY <1>13, <3>1 DEF Serial!Item, Serial!ItemId
  <2> QED BY <1>14, <1>15, <2>1
<1>18. \A i \in new : \A j \in items : i.id # back(j).id /\ (i.key # back(j).key \/ i.at # back(j).at)
  <2> SUFFICES ASSUME NEW i \in new, NEW j \in items
               PROVE  i.id # back(j).id /\ (i.key # back(j).key \/ i.at # back(j).at)
    OBVIOUS
  <2>1. i.id # back(j).id
    BY <1>8, <1>13, <1>14
  <2>2. back(j).at = l => j.id \in r.kept
    BY <1>14, <1>16
  <2>3. j.id \in r.kept => j.key \notin r.deleted
    BY <1>7 DEF KeptHolds
  <2> QED BY <1>13, <1>14, <2>1, <2>2, <2>3
<1>19. \A i, j \in items : (back(i).id = back(j).id \/ (back(i).key = back(j).key /\ back(i).at = back(j).at)) => i = j
  <2> SUFFICES ASSUME NEW i \in items, NEW j \in items,
                      back(i).id = back(j).id \/ (back(i).key = back(j).key /\ back(i).at = back(j).at)
               PROVE  i = j
    OBVIOUS
  <2>1. CASE back(i).id = back(j).id
    BY <1>6, <1>14, <2>1
  <2>2. CASE back(i).key = back(j).key /\ back(i).at = back(j).at
    <3>1. i.key = j.key
      BY <1>14, <2>2
    <3>2. CASE i.id \in r.kept /\ j.id \in r.kept
      BY <1>7, <3>1, <3>2 DEF KeptHolds
    <3>3. CASE i.id \notin r.kept /\ j.id \notin r.kept
      BY <1>6, <1>14, <2>2, <3>1, <3>3
    <3>4. CASE ~ (i.id \in r.kept <=> j.id \in r.kept)
      BY <1>14, <1>16, <2>2, <3>4
    <3> QED BY <3>2, <3>3, <3>4
  <2> QED BY <2>1, <2>2
<1>20. \A i, j \in items' : (i.id = j.id \/ <<i.key, i.at>> = <<j.key, j.at>>) => i = j
  <2> SUFFICES ASSUME NEW i \in items', NEW j \in items',
                      i.id = j.id \/ (i.key = j.key /\ i.at = j.at)
               PROVE  i = j
    OBVIOUS
  <2>1. CASE i \in new /\ j \in new
    BY <1>13, <2>1
  <2>2. CASE i \in new /\ j \notin new
    BY <1>15, <1>18, <2>2
  <2>3. CASE i \notin new /\ j \in new
    BY <1>15, <1>18, <2>3
  <2>4. CASE i \notin new /\ j \notin new
    BY <1>15, <1>19, <2>4
  <2> QED BY <2>1, <2>2, <2>3, <2>4
<1>21. lastItem' \in 0 .. MaxItems /\ \A i \in items' : i.id \in 1 .. lastItem' /\ mergedInto'[i.at] = None
  <2>1. lastItem' \in 0 .. MaxItems
    BY <1>8, <1>11
  <2>2. mergedInto'[l] = None /\ \A x \in Row : mergedInto[x] = None => mergedInto'[x] = None
    BY <1>5 DEF Tree
  <2>3. ASSUME NEW i \in new PROVE i.id \in 1 .. lastItem' /\ mergedInto'[i.at] = None
    BY <1>8, <1>11, <1>13, <2>2
  <2>4. ASSUME NEW j \in items PROVE back(j).id \in 1 .. lastItem' /\ mergedInto'[back(j).at] = None
    <3>1. j.at \in Row /\ mergedInto[j.at] = None
      BY <1>6 DEF SerialItems, Serial!Item
    <3> QED BY <1>8, <1>11, <1>14, <2>2, <3>1
  <2> QED BY <1>15, <2>1, <2>3, <2>4
<1>22. /\ DOMAIN records' = DOMAIN records
       /\ records'[n].unmerged /\ \A k \in DOMAIN records : k # n => records'[k] = records[k]
  <2>1. n \in DOMAIN records
    BY <1>5 DEF Opened
  <2>2. records' = [records EXCEPT ![n].unmerged = TRUE]
    BY <1>1 DEF Serial!unmerge
  <2>3. PICK closed \in Serial!Record : closed = [r EXCEPT !.unmerged = TRUE]
    BY <1>5 DEF Serial!Record
  <2>4. records' = [records EXCEPT ![n] = closed]
    BY <1>2, <2>2, <2>3
  <2>5. DOMAIN records' = DOMAIN records /\ records'[n] = closed
          /\ \A k \in DOMAIN records : k # n => records'[k] = records[k]
    BY <1>6, <2>1, <2>4
  <2>6. [r EXCEPT !.unmerged = TRUE].unmerged
    BY <1>5 DEF Serial!Record
  <2>7. closed.unmerged
    BY <2>3, <2>6, Zenon
  <2> QED BY <2>5, <2>7
<1>23. Opened(records') = Opened(records) \ {n}
  BY <1>22 DEF Opened
<1>24. ASSUME NEW k \in Opened(records') PROVE KeptHolds(records'[k], items', lastItem')
  <2>1. PICK q : q = records[k]
    OBVIOUS
  <2>2. records'[k] = q /\ k \in Opened(records)
    BY <1>22, <1>23, <2>1 DEF Opened
  <2>3. KeptHolds(q, items, lastItem)
    BY <1>6, <2>1, <2>2 DEF SerialItems
  <2>4. q.kept \subseteq 1 .. lastItem'
    BY <1>8, <1>11, <2>3 DEF KeptHolds
  <2>5. \A i \in new : i.id \notin q.kept
    BY <1>8, <1>13, <2>3 DEF KeptHolds
  <2>6. \A i \in items' : i.id \in q.kept => i.key \notin q.deleted
    <3> SUFFICES ASSUME NEW j \in items, back(j).id \in q.kept PROVE back(j).key \notin q.deleted
      BY <1>15, <2>5
    <3> QED BY <1>14, <2>3 DEF KeptHolds
  <2>7. \A i, j \in items' : i.id \in q.kept /\ j.id \in q.kept /\ i.key = j.key => i = j
    <3> SUFFICES ASSUME NEW i \in items, NEW j \in items,
                        back(i).id \in q.kept, back(j).id \in q.kept, back(i).key = back(j).key
                 PROVE  i = j
      BY <1>15, <2>5
    <3> QED BY <1>14, <2>3 DEF KeptHolds
  <2> QED BY <2>2, <2>4, <2>6, <2>7 DEF KeptHolds
\* A key that was deleted comes back with one item, and its record closes.
<1>25. ASSUME NEW k \in Key
       PROVE  Cardinality(IdsOf(k, items')) + Cardinality(DeletedBy(k, records'))
                = Cardinality({p \in HeldAtFirst : p[1] = k})
  <2>1. Cardinality(IdsOf(k, items)) + Cardinality(DeletedBy(k, records))
          = Cardinality({p \in HeldAtFirst : p[1] = k})
    BY <1>6 DEF SerialItems
  <2>2. PICK S : S = IdsOf(k, items)
    OBVIOUS
  <2>3. PICK D : D = DeletedBy(k, records)
    OBVIOUS
  <2>4. IsFiniteSet(S) /\ Cardinality(S) \in Nat
    BY <1>8, <2>2, FiniteIds
  <2>5. IsFiniteSet(D) /\ Cardinality(D) \in Nat
    BY <1>6, <2>3, FiniteDeletes
  <2>6. IdsOf(k, items') = S \cup {i.id : i \in {j \in new : j.key = k}}
    <3>1. ASSUME NEW t \in IdsOf(k, items') PROVE t \in S \cup {i.id : i \in {j \in new : j.key = k}}
      <4>1. PICK i \in items' : i.key = k /\ i.id = t
        BY DEF IdsOf
      <4>2. CASE i \in new
        BY <4>1, <4>2
      <4>3. ASSUME NEW j \in items, i = back(j) PROVE t \in S
        BY <1>14, <2>2, <4>1, <4>3 DEF IdsOf
      <4> QED BY <1>15, <4>2, <4>3
    <3>2. ASSUME NEW j \in items, j.key = k PROVE j.id \in IdsOf(k, items')
      BY <1>12, <1>14, <3>2 DEF IdsOf
    <3>3. ASSUME NEW j \in new, j.key = k PROVE j.id \in IdsOf(k, items')
      BY <1>12, <3>3 DEF IdsOf
    <3>4. S \subseteq IdsOf(k, items')
      BY <2>2, <3>2 DEF IdsOf
    <3> QED BY <3>1, <3>3, <3>4
  <2>7. CASE k \in r.deleted
    <3> DEFINE f == [i \in new |-> i.key]
    <3>1. f \in [new -> r.deleted] /\ \A i, j \in new : f[i] = f[j] => i = j
      BY <1>13
    <3>2. Cardinality(new) = Cardinality(r.deleted)
      BY <1>10, <1>13
    <3>3. \A t \in r.deleted : \E i \in new : f[i] = t
      <4> HIDE DEF f
      <4> QED BY <1>9, <3>1, <3>2, Matched
    <3>4. PICK g \in new : g.key = k
      BY <2>7, <3>3
    <3>5. PICK t : t = g.id
      OBVIOUS
    <3>6. {i.id : i \in {j \in new : j.key = k}} = {t}
      BY <1>13, <3>4, <3>5
    <3>7. t \notin S
      BY <1>8, <1>13, <2>2, <3>4, <3>5 DEF IdsOf
    <3>8. Cardinality(S \cup {t}) = Cardinality(S) + 1
      BY <2>4, <3>7, FS_AddElement
    <3>9. n \in D /\ DeletedBy(k, records') = D \ {n}
      <4>1. n \in D
        BY <1>2, <1>5, <2>3, <2>7 DEF DeletedBy, Opened
      <4>2. DeletedBy(k, records') = D \ {n}
        BY <1>22, <2>3 DEF DeletedBy
      <4> QED BY <4>1, <4>2
    <3>10. Cardinality(D \ {n}) = Cardinality(D) - 1
      BY <2>5, <3>9, FS_RemoveElement
    <3>11. Cardinality(IdsOf(k, items')) = Cardinality(S) + 1
      BY <2>6, <3>6, <3>8
    <3>12. Cardinality(DeletedBy(k, records')) = Cardinality(D) - 1
      BY <3>9, <3>10
    <3> QED BY <2>1, <2>2, <2>3, <2>4, <2>5, <3>11, <3>12
  <2>8. CASE k \notin r.deleted
    <3>1. {i.id : i \in {j \in new : j.key = k}} = {}
      BY <1>13, <2>8
    <3>2. DeletedBy(k, records') = D
      <4>1. n \notin D
        BY <1>2, <2>3, <2>8 DEF DeletedBy
      <4> QED BY <1>22, <2>3, <4>1 DEF DeletedBy
    <3> QED BY <2>1, <2>2, <2>3, <2>6, <3>1, <3>2
  <2> QED BY <2>7, <2>8
<1>26. SerialItems'
  BY <1>21, <1>24, <1>25 DEF SerialItems
<1> QED BY <1>17, <1>20, <1>26

LEMMA SerialUnmerges ==
    ASSUME Serial!MergeAssumption, SerialInv, NEW a \in Admin, Serial!unmerge(a)
    PROVE  SerialInv'
<1>1. Tree(mergedInto') /\ Acyclic(mergedInto')
  BY SerialUnmergeUnfolds
<1>2. SerialRecords' /\ records' \in Seq(Serial!Record)
  BY SerialUnmergesRecords
<1>3. /\ SerialItems' /\ items' \subseteq Serial!Item
      /\ \A i, j \in items' : (i.id = j.id \/ <<i.key, i.at>> = <<j.key, j.at>>) => i = j
  BY SerialUnmergesItems
<1>4. /\ SerialChildren'
      /\ owner' \in [Child -> Row \cup {None}] /\ home' \in [Child -> Row \cup {None}]
  BY SerialUnmergesChildren
<1>5. /\ req' \in [Admin -> Serial!Request] /\ rowLock' \in [Row -> Admin \cup {None}]
      /\ SerialRequests'
  BY SerialReleases DEF Serial!unmerge
<1>6. candidates' \in [Serial!Pair -> {"ABSENT", "PENDING", "MERGED", "REJECTED"}]
  <2>1. PICK p : p = {records[req[a].record].survivor, req[a].losing}
    OBVIOUS
  <2>2. candidates' = [candidates EXCEPT ![p] = "PENDING"]
    BY <2>1 DEF Serial!unmerge
  <2> QED BY <2>2 DEF SerialInv, Serial!TypeOK
<1>7. Serial!TypeOK'
  BY <1>1, <1>2, <1>3, <1>4, <1>5, <1>6 DEF Serial!TypeOK, Tree
<1> QED BY <1>1, <1>2, <1>3, <1>4, <1>5, <1>7 DEF SerialInv

LEMMA SerialStep ==
    ASSUME Serial!MergeAssumption, SerialInv, Serial!Next, Serial!OneAtATime'
    PROVE  SerialInv'
<1>1. CASE \E c \in Child, x \in Row : Serial!contribute(c, x)
  BY <1>1, SerialContributes
<1>2. CASE \/ \E p \in Serial!Pair : Serial!createCandidate(p)
           \/ \E a \in Admin : Serial!reject(a)
  BY <1>2, SerialCandidates
<1>3. CASE \E a \in Admin :
             \/ \E p \in Serial!Pair : Serial!readCandidate(a, p)
             \/ \E s, l \in Row : Serial!mergeCandidate(a, s, l)
             \/ \E n \in DOMAIN records : Serial!readRecord(a, n)
             \/ Serial!readRows(a)
  BY <1>3, SerialReads
<1>4. CASE \E a \in Admin : Serial!merge(a) \/ Serial!unmerge(a)
  BY <1>4, SerialMerges, SerialUnmerges
<1> QED BY <1>1, <1>2, <1>3, <1>4 DEF Serial!Next

SerialPart == part = "serial" => SerialInv

\* The inductive invariant of the merges that run one at a time.
LEMMA SerialAlways == MCSpec => []SerialPart
<1>0. Serial!MergeAssumption
  BY PartsAssumption
<1>1. MCInit => SerialPart
  BY <1>0, SerialStarts DEF MCInit, SerialPart
<1>2. SerialPart /\ [MCNext]_allVars => SerialPart'
  <2> SUFFICES ASSUME SerialPart, [MCNext]_allVars, part' = "serial" PROVE SerialInv'
    BY DEF SerialPart
  <2>1. part = "serial" /\ SerialInv
    BY DEF MCNext, allVars, SerialPart
  <2>2. CASE Serial!Next /\ Serial!OneAtATime'
    BY <1>0, <2>1, <2>2, SerialStep
  <2>3. CASE UNCHANGED mergeVars
    <3>1. UNCHANGED <<mergedInto, owner, items, lastItem, candidates, records, req, rowLock, home>>
      BY <2>3 DEF mergeVars
    <3>2. Serial!TypeOK' /\ SerialRequests'
      BY <2>1, <3>1 DEF SerialInv, Serial!TypeOK, SerialRequests, Serial!OneAtATime
    <3>3. SerialRecords' /\ SerialChildren' /\ SerialItems' /\ Acyclic(mergedInto')
      BY <2>1, <3>1 DEF SerialInv, SerialRecords, SerialChildren, SerialItems
    <3> QED BY <3>2, <3>3 DEF SerialInv
  <2> QED BY <2>1, <2>2, <2>3 DEF MCNext, allVars
<1> QED BY <1>1, <1>2, PTL DEF MCSpec

\* Through every sequence of merges, reversals and contributions a child hangs
\* off the row that the row it was contributed to now leads to: an unmerge
\* moves back "exactly these rows" (remapByCompany), and a merge leaves no
\* child or item on the tombstone.
THEOREM ChildrenAreWhereTheirRowsAre == MCSpec => []ChildrenFollow
<1>0. Serial!MergeAssumption
  BY PartsAssumption
<1>1. SerialPart => ChildrenFollow
  <2> SUFFICES ASSUME SerialInv PROVE Serial!ChildrenFollow /\ Serial!TombstoneHoldsNothing
    BY DEF SerialPart, ChildrenFollow
  <2>1. None \notin Row /\ IsFiniteSet(Row) /\ Tree(mergedInto) /\ Acyclic(mergedInto)
    BY <1>0, SerialSets DEF Serial!MergeAssumption, SerialInv, Serial!TypeOK, Tree
  <2>2. \A x \in Row : Serial!Root(x) = RootOf(mergedInto)[x]
    BY <1>0, <2>1, SerialRoot
  <2>3. home \in [Child -> Row \cup {None}] /\ SerialChildren /\ SerialItems
    BY DEF SerialInv, Serial!TypeOK
  <2>4. Serial!ChildrenFollow
    BY <2>2, <2>3 DEF SerialChildren, Serial!ChildrenFollow, Serial!Live
  <2>5. \A x \in Row : mergedInto[RootOf(mergedInto)[x]] = None
    BY <2>1, RootExists
  <2>6. \A c \in Child : home[c] # None => mergedInto[owner[c]] = None
    BY <2>3, <2>5 DEF SerialChildren
  <2>7. Serial!TombstoneHoldsNothing
    BY <2>1, <2>3, <2>6 DEF SerialItems, Serial!TombstoneHoldsNothing, Serial!Live
  <2> QED BY <2>4, <2>7
<1> QED BY <1>1, SerialAlways, PTL

\* Every tombstone has the one open record that can take it apart, the pair of
\* an open record reads MERGED, and for every key there are as many items and
\* open records that can recreate one as there were items: a merge loses
\* nothing it could not bring back (MovedRecord, "complete enough to reverse
\* it").
THEOREM MergesCanBeReversed == MCSpec => []TombstonesHaveRecords
<1>0. Serial!MergeAssumption
  BY PartsAssumption
<1>1. SerialPart => TombstonesHaveRecords
  <2> SUFFICES ASSUME SerialInv
               PROVE  Serial!TombstonesHaveRecords /\ Serial!MergedPairsReadMerged /\ Serial!NothingLost
    BY DEF SerialPart, TombstonesHaveRecords
  <2>1. \A n \in DOMAIN records : ~ records[n].unmerged =>
          /\ n \in Opened(records)
          /\ mergedInto[records[n].losing] = records[n].survivor
          /\ candidates[{records[n].survivor, records[n].losing}] = "MERGED"
    BY DEF SerialInv, SerialRecords, OpenRecordHolds, Opened
  <2>2. ASSUME NEW x \in Row, mergedInto[x] # None
        PROVE  Serial!Cardinality({n \in DOMAIN records : ~ records[n].unmerged /\ records[n].losing = x}) = 1
    <3> DEFINE S == {n \in DOMAIN records : ~ records[n].unmerged /\ records[n].losing = x}
    <3>1. PICK n \in Opened(records) : records[n].losing = x
      BY <2>2 DEF SerialInv, SerialRecords
    <3>2. \A k \in S : k = n
      BY <3>1 DEF SerialInv, SerialRecords, Opened
    <3>3. n \in S
      BY <3>1 DEF Opened
    <3>4. S = {n}
      BY <3>2, <3>3
    <3> HIDE DEF S
    <3>5. Cardinality(S) = 1
      BY <3>4, FS_Singleton
    <3> QED BY <3>5, SerialSets DEF S
  <2>3. Serial!TombstonesHaveRecords /\ Serial!MergedPairsReadMerged
    BY <2>1, <2>2 DEF Serial!TombstonesHaveRecords, Serial!MergedPairsReadMerged, Serial!Live
  <2>4. ASSUME NEW k \in Key
        PROVE  Serial!Cardinality({i \in items : i.key = k})
                 + Serial!Cardinality({n \in DOMAIN records : ~ records[n].unmerged /\ k \in records[n].deleted})
                 = Serial!Cardinality({p \in HeldAtFirst : p[1] = k})
    <3>1. /\ \A i, j \in items : i.id = j.id => i = j
          /\ lastItem \in Nat /\ \A i \in items : i.id \in 1 .. lastItem
      BY <1>0 DEF SerialInv, Serial!TypeOK, SerialItems
    <3>2. Cardinality({i \in items : i.key = k}) = Cardinality(IdsOf(k, items))
      BY <3>1, CountedById
    <3>3. Cardinality(IdsOf(k, items)) + Cardinality(DeletedBy(k, records))
            = Cardinality({p \in HeldAtFirst : p[1] = k})
      BY DEF SerialInv, SerialItems
    <3> QED BY <3>2, <3>3, SerialSets DEF DeletedBy
  <2>5. Serial!NothingLost
    BY <2>4 DEF Serial!NothingLost
  <2> QED BY <2>3, <2>5
<1> QED BY <1>1, SerialAlways, PTL

----------------------------------------------------------------------------
(* Rounds that are folded into rounds: the closest pair first. *)

\* A set of numbers each element has one of: one element has the least.
LEMMA LeastBy ==
    ASSUME NEW S, S # {}, NEW f, \A p \in S : f[p] \in Nat
    PROVE  \E p \in S : \A q \in S : f[p] <= f[q]
<1> DEFINE T == {f[p] : p \in S}
<1>1. T \in SUBSET Nat /\ T # {}
  OBVIOUS
<1>2. PICK n \in T : \A k \in T : n <= k
  <2> HIDE DEF T
  <2> QED BY <1>1, LeastOf
<1> QED BY <1>2

\* The facts of deals and rungs are numbers.
RoundsTyped ==
    /\ deal \in [Rounds!Deal -> [in : BOOLEAN, facts : Rounds!RoundFacts]]
    /\ rung \in [Rounds!Rung -> [exists : BOOLEAN, approved : BOOLEAN, name : {Rounds!NoName} \cup Rounds!Deal,
                                 facts : Rounds!RoundFacts, marks : SUBSET Rounds!Column]]
    /\ DealCount \in Nat /\ RungCount \in Nat

RoundPair == Rounds!Deal \X Rounds!Rung

LEMMA PairNumbers ==
    ASSUME RoundsTyped, NEW p \in RoundPair
    PROVE  Rounds!Days(p) \in Nat /\ Rounds!Gap(p) \in Nat /\ p[1] \in Nat /\ p[2] \in Nat
           /\ p = <<p[1], p[2]>>
<1>1. p[1] \in Rounds!Deal /\ p[2] \in Rounds!Rung /\ p = <<p[1], p[2]>>
  BY DEF RoundPair
<1>2. p[1] \in Nat /\ p[2] \in Nat
  BY <1>1 DEF Rounds!Deal, Rounds!Rung
<1>3. deal[p[1]].facts \in Rounds!RoundFacts /\ rung[p[2]].facts \in Rounds!RoundFacts
  BY <1>1 DEF RoundsTyped
<1>4. /\ deal[p[1]].facts.date \in Nat /\ rung[p[2]].facts.date \in Nat
      /\ deal[p[1]].facts.amount \in Nat /\ rung[p[2]].facts.amount \in Nat
  BY <1>3 DEF Rounds!RoundFacts
<1>5. \A a, b \in Nat : Rounds!Apart(a, b) \in Nat
  BY DEF Rounds!Apart
<1>6. Rounds!Days(p) \in Nat
  BY <1>4, <1>5 DEF Rounds!Days
<1>7. Rounds!Gap(p) \in Nat
  BY <1>4, <1>5 DEF Rounds!Gap
<1> QED BY <1>1, <1>2, <1>6, <1>7

\* Of different pairs one is closer; no pair is closer than one it is farther
\* than.
LEMMA CloserIsStrict ==
    ASSUME RoundsTyped, NEW p \in RoundPair, NEW q \in RoundPair, Rounds!Closer(p, q)
    PROVE  ~ Rounds!Closer(q, p) /\ p # q
BY PairNumbers DEF Rounds!Closer

\* There is a closest pair.
LEMMA ClosestIsClosest ==
    ASSUME RoundsTyped, NEW S \in SUBSET RoundPair, S # {}
    PROVE  /\ Rounds!Closest(S) \in S
           /\ \A q \in S \ {Rounds!Closest(S)} : Rounds!Closer(Rounds!Closest(S), q)
<1> DEFINE days == [p \in RoundPair |-> Rounds!Days(p)]
           gap == [p \in RoundPair |-> Rounds!Gap(p)]
           first == [p \in RoundPair |-> p[1]]
           second == [p \in RoundPair |-> p[2]]
<1>1. \A p \in RoundPair : days[p] \in Nat /\ gap[p] \in Nat /\ first[p] \in Nat /\ second[p] \in Nat
                           /\ p = <<first[p], second[p]>>
  BY PairNumbers
<1>2. \A p, q \in RoundPair : Rounds!Closer(p, q) <=>
        \/ days[p] < days[q]
        \/ days[p] = days[q] /\ gap[p] < gap[q]
        \/ days[p] = days[q] /\ gap[p] = gap[q] /\ first[p] < first[q]
        \/ days[p] = days[q] /\ gap[p] = gap[q] /\ first[p] = first[q] /\ second[p] < second[q]
  BY DEF Rounds!Closer
<1> HIDE DEF days, gap, first, second
<1>3. PICK a \in S : \A q \in S : days[a] <= days[q]
  BY <1>1, LeastBy
<1> DEFINE A == {p \in S : days[p] = days[a]}
<1>4. PICK b \in A : \A q \in A : gap[b] <= gap[q]
  <2>1. A # {} /\ \A p \in A : gap[p] \in Nat
    BY <1>1, <1>3
  <2> HIDE DEF A
  <2> QED BY <2>1, LeastBy
<1> DEFINE B == {p \in A : gap[p] = gap[b]}
<1>5. PICK c \in B : \A q \in B : first[c] <= first[q]
  <2>1. B # {} /\ \A p \in B : first[p] \in Nat
    BY <1>1, <1>4
  <2> HIDE DEF B
  <2> QED BY <2>1, LeastBy
<1> DEFINE C == {p \in B : first[p] = first[c]}
<1>6. PICK e \in C : \A q \in C : second[e] <= second[q]
  <2>1. C # {} /\ \A p \in C : second[p] \in Nat
    BY <1>1, <1>5
  <2> HIDE DEF C
  <2> QED BY <2>1, LeastBy
<1>7. e \in S /\ days[e] = days[a] /\ gap[e] = gap[b] /\ first[e] = first[c]
  BY <1>6
<1>8. ASSUME NEW q \in S, q # e PROVE Rounds!Closer(e, q)
  <2>1. days[a] \in Nat /\ days[q] \in Nat /\ gap[b] \in Nat /\ gap[q] \in Nat
          /\ first[c] \in Nat /\ first[q] \in Nat /\ second[e] \in Nat /\ second[q] \in Nat
    BY <1>1, <1>3, <1>4, <1>5, <1>7
  <2>2. CASE days[q] # days[a]
    BY <1>2, <1>3, <1>7, <2>1, <2>2
  <2>3. CASE days[q] = days[a] /\ gap[q] # gap[b]
    <3>1. q \in A
      BY <2>3
    <3> QED BY <1>2, <1>4, <1>7, <2>1, <2>3, <3>1
  <2>4. CASE days[q] = days[a] /\ gap[q] = gap[b] /\ first[q] # first[c]
    <3>1. q \in B
      BY <2>4
    <3> QED BY <1>2, <1>5, <1>7, <2>1, <2>4, <3>1
  <2>5. CASE days[q] = days[a] /\ gap[q] = gap[b] /\ first[q] = first[c]
    <3>1. q \in C
      BY <2>5
    <3>2. second[q] # second[e]
      BY <1>1, <1>7, <1>8, <2>5
    <3> QED BY <1>2, <1>6, <1>7, <2>1, <2>5, <3>1, <3>2
  <2> QED BY <2>2, <2>3, <2>4, <2>5
<1>9. \E p \in S : \A q \in S \ {p} : Rounds!Closer(p, q)
  BY <1>7, <1>8
<1> QED BY <1>9 DEF Rounds!Closest

\* What is left when the closest pair is taken.
Rest(left) ==
    {q \in left : q[1] # Rounds!Closest(left)[1] /\ q[2] # Rounds!Closest(left)[2]}

\* t takes pairs from each set of sets, the closest first.
Greedy(t, sets) ==
    t = [left \in sets |-> IF left = {} THEN {} ELSE {Rounds!Closest(left)} \cup t[Rest(left)]]

SmallSets(A, n) == {S \in SUBSET A : Cardinality(S) <= n}

LEMMA RestIsSmaller ==
    ASSUME RoundsTyped, NEW A \in SUBSET RoundPair, IsFiniteSet(A), NEW n \in Nat,
           NEW left \in SmallSets(A, n + 1), left # {}
    PROVE  Rest(left) \in SmallSets(A, n) /\ Rest(left) \subseteq left
<1>1. Rounds!Closest(left) \in left
  BY ClosestIsClosest DEF SmallSets
<1>2. PICK c \in left : c = Rounds!Closest(left)
  BY <1>1
<1>3. IsFiniteSet(left) /\ left \in SUBSET A /\ Cardinality(left) <= n + 1
  BY FS_Subset DEF SmallSets
<1>4. Rest(left) \subseteq left \ {c}
  BY <1>2 DEF Rest
<1>5. IsFiniteSet(left \ {c}) /\ Cardinality(left \ {c}) = Cardinality(left) - 1
  BY <1>2, <1>3, FS_RemoveElement
<1>6. IsFiniteSet(Rest(left)) /\ Cardinality(Rest(left)) <= Cardinality(left \ {c})
  BY <1>4, <1>5, FS_Subset
<1>7. Cardinality(left) \in Nat /\ Cardinality(Rest(left)) \in Nat
  BY <1>3, <1>6, FS_CardinalityType
<1>8. Cardinality(Rest(left)) <= n
  BY <1>3, <1>5, <1>6, <1>7
<1> QED BY <1>3, <1>4, <1>8 DEF SmallSets

LEMMA GreedyExists ==
    ASSUME RoundsTyped, NEW A \in SUBSET RoundPair, IsFiniteSet(A), NEW N \in Nat
    PROVE  \E t : Greedy(t, SmallSets(A, N))
<1> DEFINE G == {n \in 0 .. N : \E t : Greedy(t, SmallSets(A, n))}
<1>1. 0 \in G
  <2> DEFINE t == [left \in SmallSets(A, 0) |-> {}]
  <2>1. ASSUME NEW left \in SmallSets(A, 0) PROVE left = {}
    <3>1. IsFiniteSet(left) /\ Cardinality(left) <= 0
      BY FS_Subset DEF SmallSets
    <3>2. Cardinality(left) = 0
      BY <3>1, FS_CardinalityType
    <3> QED BY <3>1, <3>2, FS_EmptySet
  <2>2. Greedy(t, SmallSets(A, 0))
    BY <2>1 DEF Greedy
  <2> HIDE DEF t
  <2> QED BY <2>2
<1>2. ASSUME NEW n \in 0 .. N, n \in G, n # N PROVE n + 1 \in G
  <2>1. PICK t : Greedy(t, SmallSets(A, n))
    BY <1>2
  <2>2. PICK few : few = SmallSets(A, n)
    OBVIOUS
  <2>3. PICK more : more = SmallSets(A, n + 1)
    OBVIOUS
  <2>4. \A left \in more : left # {} => Rest(left) \in few
    BY <2>2, <2>3, RestIsSmaller
  <2>5. few \subseteq more
    <3> SUFFICES ASSUME NEW S \in SUBSET A, Cardinality(S) <= n PROVE Cardinality(S) <= n + 1
      BY <2>2, <2>3 DEF SmallSets
    <3>1. Cardinality(S) \in Nat
      BY FS_Subset, FS_CardinalityType
    <3> QED BY <3>1
  <2>6. \A left \in few : t[left] = IF left = {} THEN {} ELSE {Rounds!Closest(left)} \cup t[Rest(left)]
    BY <2>1, <2>2 DEF Greedy
  <2> DEFINE step(left) == {Rounds!Closest(left)} \cup t[Rest(left)]
             u == [left \in more |-> IF left = {} THEN {} ELSE step(left)]
  <2>7. \A left \in few : u[left] = t[left]
    BY <2>5, <2>6
  <2>8. \A left \in more : u[left] = IF left = {} THEN {} ELSE {Rounds!Closest(left)} \cup u[Rest(left)]
    BY <2>4, <2>7
  <2>9. u = [left \in more |-> u[left]]
    OBVIOUS
  <2> HIDE DEF u
  <2>10. Greedy(u, more)
    BY <2>8, <2>9 DEF Greedy
  <2>11. n + 1 \in 0 .. N
    BY <1>2
  <2> QED BY <2>3, <2>10, <2>11
<1> HIDE DEF G
<1>3. \A n \in 0 .. N : n \in G
  BY <1>1, <1>2, UpTo
<1>4. N \in G
  BY <1>3
<1> QED BY <1>4 DEF G

\* What is taken of a set: of the set, no end twice, and nothing left out that
\* is closer than what was taken at one of its ends.
Nearest(taken, S) ==
    /\ taken \subseteq S
    /\ \A p, q \in taken : p[1] = q[1] \/ p[2] = q[2] => p = q
    /\ \A p \in S : \E q \in taken : (q[1] = p[1] \/ q[2] = p[2]) /\ ~ Rounds!Closer(p, q)

LEMMA GreedyIsNearest ==
    ASSUME RoundsTyped, NEW A \in SUBSET RoundPair, IsFiniteSet(A), NEW N \in Nat,
           NEW t, Greedy(t, SmallSets(A, N))
    PROVE  \A S \in SmallSets(A, N) : Nearest(t[S], S)
<1> DEFINE G == {n \in 0 .. N : \A S \in SmallSets(A, n) : Nearest(t[S], S)}
<1>1. \A left \in SmallSets(A, N) :
        t[left] = IF left = {} THEN {} ELSE {Rounds!Closest(left)} \cup t[Rest(left)]
  BY DEF Greedy
<1>2. \A n \in 0 .. N : SmallSets(A, n) \subseteq SmallSets(A, N)
  <2> SUFFICES ASSUME NEW n \in 0 .. N, NEW S \in SUBSET A, Cardinality(S) <= n PROVE Cardinality(S) <= N
    BY DEF SmallSets
  <2>1. Cardinality(S) \in Nat
    BY FS_Subset, FS_CardinalityType
  <2> QED BY <2>1
<1>3. ASSUME NEW S \in SmallSets(A, N), S = {} PROVE Nearest(t[S], S)
  BY <1>1, <1>3 DEF Nearest
<1>4. 0 \in G
  <2>1. ASSUME NEW left \in SmallSets(A, 0) PROVE left = {}
    <3>1. IsFiniteSet(left) /\ Cardinality(left) <= 0
      BY FS_Subset DEF SmallSets
    <3>2. Cardinality(left) = 0
      BY <3>1, FS_CardinalityType
    <3> QED BY <3>1, <3>2, FS_EmptySet
  <2>2. 0 \in 0 .. N
    OBVIOUS
  <2> QED BY <1>2, <1>3, <2>1, <2>2
<1>5. ASSUME NEW n \in 0 .. N, n \in G, n # N PROVE n + 1 \in G
  <2>1. n + 1 \in 0 .. N /\ n \in Nat
    BY <1>5
  <2>2. ASSUME NEW S \in SmallSets(A, n + 1), S # {} PROVE Nearest(t[S], S)
    <3>1. S \in SUBSET RoundPair /\ S \in SmallSets(A, N)
      BY <1>2, <2>1 DEF SmallSets
    <3>2. PICK c : c = Rounds!Closest(S)
      OBVIOUS
    <3>3. c \in S /\ \A q \in S \ {c} : Rounds!Closer(c, q)
      BY <2>2, <3>1, <3>2, ClosestIsClosest
    <3>4. PICK left : left = Rest(S)
      OBVIOUS
    <3>5. left \in SmallSets(A, n) /\ left \subseteq S
      BY <2>1, <2>2, <3>4, RestIsSmaller
    <3>6. Nearest(t[left], left)
      BY <1>5, <3>5
    <3>7. t[S] = {c} \cup t[left]
      BY <1>1, <2>2, <3>1, <3>2, <3>4
    <3>8. left = {q \in S : q[1] # c[1] /\ q[2] # c[2]}
      BY <3>2, <3>4 DEF Rest
    <3>9. t[S] \subseteq S
      BY <3>3, <3>5, <3>6, <3>7 DEF Nearest
    <3>10. \A p, q \in t[S] : p[1] = q[1] \/ p[2] = q[2] => p = q
      <4>1. \A q \in t[left] : q[1] # c[1] /\ q[2] # c[2]
        BY <3>6, <3>8 DEF Nearest
      <4> QED BY <3>6, <3>7, <4>1 DEF Nearest
    <3>11. ASSUME NEW p \in S
           PROVE  \E q \in t[S] : (q[1] = p[1] \/ q[2] = p[2]) /\ ~ Rounds!Closer(p, q)
      <4>1. CASE p \in left
        BY <3>6, <3>7, <4>1 DEF Nearest
      <4>2. CASE p \notin left
        <5>1. c[1] = p[1] \/ c[2] = p[2]
          BY <3>8, <4>2
        <5>2. ~ Rounds!Closer(p, c)
          <6>1. p \in RoundPair /\ c \in RoundPair
            BY <3>1, <3>3
          <6>2. CASE p = c
            BY <6>1, <6>2, CloserIsStrict
          <6>3. CASE p # c
            <7>1. Rounds!Closer(c, p)
              BY <3>3, <6>3
            <7> QED BY <6>1, <7>1, CloserIsStrict
          <6> QED BY <6>2, <6>3
        <5> QED BY <3>7, <5>1, <5>2
      <4> QED BY <4>1, <4>2
    <3> QED BY <3>9, <3>10, <3>11 DEF Nearest
  <2>3. \A S \in SmallSets(A, n + 1) : Nearest(t[S], S)
    BY <1>2, <1>3, <2>1, <2>2
  <2> QED BY <2>1, <2>3
<1> HIDE DEF G
<1>6. \A n \in 0 .. N : n \in G
  BY <1>4, <1>5, UpTo
<1>7. N \in G
  BY <1>6
<1> QED BY <1>7 DEF G

\* The pairing of deals with rounds takes the nearest of those that can pair.
LEMMA PairsNearDuplicates ==
    ASSUME RoundsTyped, NEW deals \in SUBSET Rounds!Deal, NEW rungs \in SUBSET Rounds!Rung
    PROVE  Nearest(Rounds!pairNearDuplicates(deals, rungs),
                   {p \in deals \X rungs : Rounds!CanPair(p[1], p[2])})
<1>1. PICK A : A = {p \in deals \X rungs : Rounds!CanPair(p[1], p[2])}
  OBVIOUS
<1>2. A \in SUBSET RoundPair
  BY <1>1 DEF RoundPair
<1>3. IsFiniteSet(A)
  <2>1. IsFiniteSet(1 .. DealCount) /\ IsFiniteSet(1 .. RungCount)
    BY FS_Interval DEF RoundsTyped
  <2>2. IsFiniteSet((1 .. DealCount) \X (1 .. RungCount))
    BY <2>1, FS_Product
  <2> QED BY <1>2, <2>2, FS_Subset DEF RoundPair, Rounds!Deal, Rounds!Rung
<1>4. PICK N \in Nat : N = Cardinality(A)
  BY <1>3, FS_CardinalityType
<1>5. SmallSets(A, N) = SUBSET A
  BY <1>3, <1>4, FS_Subset DEF SmallSets
<1>6. \E t : Greedy(t, SUBSET A)
  <2>1. PICK t : Greedy(t, SmallSets(A, N))
    BY <1>2, <1>3, GreedyExists
  <2>2. Greedy(t, SUBSET A)
    BY <1>5, <2>1
  <2> QED BY <2>2
<1>7. Rounds!pairNearDuplicates(deals, rungs) = (CHOOSE t : Greedy(t, SUBSET A))[A]
  BY <1>1 DEF Rounds!pairNearDuplicates, Greedy, Rest
<1>8. PICK t : t = CHOOSE u : Greedy(u, SUBSET A)
  OBVIOUS
<1>9. Greedy(t, SmallSets(A, N))
  BY <1>5, <1>6, <1>8
<1>10. A \in SmallSets(A, N)
  BY <1>5
<1>11. Nearest(t[A], A)
  BY <1>2, <1>3, <1>9, <1>10, GreedyIsNearest
<1> QED BY <1>1, <1>7, <1>8, <1>11

----------------------------------------------------------------------------
(* Runs, publications and decisions. *)

\* No deal of a plan is a row of the partner's, and one bound to a rung is not
\* written as one.
PlanHolds ==
    run.pc # "idle" =>
        /\ \A p \in run.plan : p[1] \notin own
        /\ \A d \in run.todo : binding[d] \in Rounds!Rung => \E x \in Rounds!Rung : <<d, x>> \in run.plan

RoundsInv == Rounds!TypeOK /\ Rounds!CorrectionsAreMarked /\ Rounds!DealsShowOnce /\ PlanHolds

LEMMA RoundsAreTyped ==
    ASSUME Rounds!FoldingAssumption, Rounds!TypeOK
    PROVE  RoundsTyped
BY DEF RoundsTyped, Rounds!FoldingAssumption, Rounds!TypeOK

LEMMA RoundsStart ==
    ASSUME Rounds!FoldingAssumption, Rounds!Init
    PROVE  RoundsInv
<1>1. /\ deal \in [Rounds!Deal -> [in : BOOLEAN, facts : Facts]]
      /\ own = {} /\ filed \in [Rounds!Rung -> Facts]
      /\ binding = [d \in Rounds!Deal |-> Rounds!Unbound]
      /\ link \in {"strong", "own"} /\ run = Rounds!IdleRun /\ changes = 0
  BY DEF Rounds!Init
<1>2. PICK there \in SUBSET Rounds!Rung :
        rung = [x \in Rounds!Rung |-> [exists |-> x \in there, approved |-> x \in there \ Contributed,
                                name |-> Rounds!NoName, facts |-> filed[x], marks |-> {}]]
  BY DEF Rounds!Init
<1>3. Facts \subseteq Rounds!RoundFacts
  BY DEF Rounds!FoldingAssumption
<1>4. ASSUME NEW x \in Rounds!Rung
      PROVE  /\ rung[x] \in [exists : BOOLEAN, approved : BOOLEAN, name : {Rounds!NoName} \cup Rounds!Deal,
                             facts : Rounds!RoundFacts, marks : SUBSET Rounds!Column]
             /\ rung[x].facts = filed[x] /\ rung[x].name = Rounds!NoName /\ rung[x].marks = {}
  <2>1. PICK is \in BOOLEAN : is = (x \in there)
    <3>1. CASE x \in there
      <4>1. TRUE = (x \in there)
        BY <3>1
      <4> QED BY <4>1
    <3>2. CASE ~ (x \in there)
      <4>1. FALSE = (x \in there)
        BY <3>2
      <4> QED BY <4>1
    <3> QED BY <3>1, <3>2
  <2>2. PICK so \in BOOLEAN : so = (x \in there \ Contributed)
    <3>1. CASE x \in there \ Contributed
      <4>1. TRUE = (x \in there \ Contributed)
        BY <3>1
      <4> QED BY <4>1
    <3>2. CASE ~ (x \in there \ Contributed)
      <4>1. FALSE = (x \in there \ Contributed)
        BY <3>2
      <4> QED BY <4>1
    <3> QED BY <3>1, <3>2
  <2>3. PICK said \in Rounds!RoundFacts : said = filed[x]
    BY <1>1, <1>3
  <2>4. rung[x] = [exists |-> x \in there, approved |-> x \in there \ Contributed,
                   name |-> Rounds!NoName, facts |-> filed[x], marks |-> {}]
    BY <1>2
  <2>5. rung[x] = [exists |-> is, approved |-> so, name |-> Rounds!NoName, facts |-> said, marks |-> {}]
    <3> HIDE <1>2
    <3> QED BY ONLY <2>1, <2>2, <2>3, <2>4, Zenon
  <2>6. rung[x].facts = said /\ rung[x].name = Rounds!NoName /\ rung[x].marks = {}
    BY <2>5
  <2>7. rung[x] \in [exists : BOOLEAN, approved : BOOLEAN, name : {Rounds!NoName} \cup Rounds!Deal,
                     facts : Rounds!RoundFacts, marks : SUBSET Rounds!Column]
    BY <2>5
  <2> QED BY <2>3, <2>6, <2>7
<1>5. Rounds!TypeOK
  <2>1. rung \in [Rounds!Rung -> [exists : BOOLEAN, approved : BOOLEAN, name : {Rounds!NoName} \cup Rounds!Deal,
                                  facts : Rounds!RoundFacts, marks : SUBSET Rounds!Column]]
    BY <1>2, <1>4
  <2>2. run \in [pc : {"idle", "writing", "binding"}, todo : SUBSET Rounds!Deal,
                 plan : SUBSET (Rounds!Deal \X Rounds!Rung), strong : BOOLEAN]
    BY <1>1 DEF Rounds!IdleRun
  <2>3. changes \in 0 .. MaxChanges
    BY <1>1 DEF Rounds!FoldingAssumption
  <2> QED BY <1>1, <2>1, <2>2, <2>3 DEF Rounds!TypeOK
<1>6. Rounds!CorrectionsAreMarked
  BY <1>4 DEF Rounds!CorrectionsAreMarked
<1>7. Rounds!DealsShowOnce /\ PlanHolds
  BY <1>1 DEF Rounds!DealsShowOnce, PlanHolds, Rounds!IdleRun
<1> QED BY <1>5, <1>6, <1>7 DEF RoundsInv

\* A run makes its plan: of the deals not placed before, and of those folded
\* into rungs that are there.
LEMMA RunsPlan ==
    ASSUME Rounds!FoldingAssumption, RoundsInv, Rounds!upsert
    PROVE  RoundsInv'
<1> DEFINE pairs == Rounds!pairNearDuplicates(Rounds!fresh, Rounds!Others)
           plan == Rounds!BoundDup \cup pairs
           todo == Rounds!Reported \ Rounds!SkipDeal
<1>1. /\ run' = [pc |-> "writing", todo |-> todo, strong |-> link = "strong", plan |-> plan]
      /\ UNCHANGED <<deal, own, rung, filed, binding, link, changes>>
  BY DEF Rounds!upsert
<1>2. Rounds!fresh \subseteq Rounds!Deal /\ Rounds!Others \subseteq Rounds!Rung
        /\ Rounds!Reported \subseteq Rounds!Deal
  BY DEF Rounds!fresh, Rounds!Others, Rounds!Reported
<1>3. pairs \subseteq {p \in Rounds!fresh \X Rounds!Others : Rounds!CanPair(p[1], p[2])}
  <2>1. RoundsTyped
    BY RoundsAreTyped DEF RoundsInv
  <2>2. PICK deals \in SUBSET Rounds!Deal : deals = Rounds!fresh
    BY <1>2
  <2>3. PICK rungs \in SUBSET Rounds!Rung : rungs = Rounds!Others
    BY <1>2
  <2>4. Nearest(Rounds!pairNearDuplicates(deals, rungs),
                {p \in deals \X rungs : Rounds!CanPair(p[1], p[2])})
    BY <2>1, PairsNearDuplicates
  <2> QED BY <2>2, <2>3, <2>4 DEF Nearest
<1>4. Rounds!BoundDup \subseteq Rounds!Reported \X Rounds!Others
        /\ \A p \in Rounds!BoundDup : binding[p[1]] = p[2]
  BY DEF Rounds!BoundDup
<1>5. \A p \in plan : p[1] \in Rounds!Deal /\ p[2] \in Rounds!Rung /\ p = <<p[1], p[2]>>
                      /\ (p[1] \in Rounds!fresh \/ binding[p[1]] \in Rounds!Rung)
  BY <1>2, <1>3, <1>4
<1>6. \A p \in plan : p[1] \notin own
  BY <1>5 DEF RoundsInv, Rounds!DealsShowOnce, Rounds!fresh
<1>7. \A d \in todo : binding[d] \in Rounds!Rung => \E x \in Rounds!Rung : <<d, x>> \in plan
  <2> SUFFICES ASSUME NEW d \in todo, binding[d] \in Rounds!Rung PROVE <<d, binding[d]>> \in plan
    OBVIOUS
  <2>1. d \in Rounds!Reported /\ binding[d] \in Rounds!Others
    BY DEF Rounds!SkipDeal
  <2>2. <<d, binding[d]>> \in Rounds!BoundDup
    BY <2>1 DEF Rounds!BoundDup
  <2> QED BY <2>2
<1> HIDE DEF plan, todo
<1>8. PlanHolds'
  BY <1>1, <1>6, <1>7 DEF PlanHolds
<1>9. todo \in SUBSET Rounds!Deal /\ plan \in SUBSET (Rounds!Deal \X Rounds!Rung)
  BY <1>2, <1>5 DEF todo
<1>10. run' \in [pc : {"idle", "writing", "binding"}, todo : SUBSET Rounds!Deal,
                 plan : SUBSET (Rounds!Deal \X Rounds!Rung), strong : BOOLEAN]
  BY <1>1, <1>9
<1>11. Rounds!TypeOK'
  BY <1>1, <1>10 DEF RoundsInv, Rounds!TypeOK
<1> QED BY <1>1, <1>8, <1>11 DEF RoundsInv, Rounds!CorrectionsAreMarked, Rounds!DealsShowOnce

\* What a correction changes it marks.
LEMMA CorrectedIsMarked ==
    ASSUME Rounds!FoldingAssumption, RoundsInv, NEW d \in Rounds!Deal, NEW x \in Rounds!Rung,
           NEW row, row = rung[x]
    PROVE  /\ Rounds!Corrected(row, d) \in [exists : BOOLEAN, approved : BOOLEAN,
                 name : {Rounds!NoName} \cup Rounds!Deal, facts : Rounds!RoundFacts, marks : SUBSET Rounds!Column]
           /\ \A f \in {"date", "amount"} :
                Rounds!Corrected(row, d).facts[f] # filed[x][f] => f \in Rounds!Corrected(row, d).marks
           /\ Rounds!Corrected(row, d).name # Rounds!NoName => "name" \in Rounds!Corrected(row, d).marks
<1>1. /\ row \in [exists : BOOLEAN, approved : BOOLEAN, name : {Rounds!NoName} \cup Rounds!Deal,
                  facts : Rounds!RoundFacts, marks : SUBSET Rounds!Column]
      /\ deal[d].facts \in Rounds!RoundFacts
  BY DEF RoundsInv, Rounds!TypeOK, Rounds!FoldingAssumption
<1>2. /\ row.facts.date # filed[x].date => "date" \in row.marks
      /\ row.facts.amount # filed[x].amount => "amount" \in row.marks
      /\ row.name # Rounds!NoName => "name" \in row.marks
  BY DEF RoundsInv, Rounds!CorrectionsAreMarked
<1> DEFINE grant == row.facts.grant
           date == IF grant THEN row.facts.date ELSE deal[d].facts.date
           amount == IF row.facts.amount = 0 THEN deal[d].facts.amount ELSE row.facts.amount
           facts == [row.facts EXCEPT !.date = date, !.amount = amount]
           name == IF grant THEN row.name ELSE d
           marks == row.marks \cup (IF grant THEN {} ELSE {"name"})
                      \cup {f \in {"date", "amount"} : facts[f] # row.facts[f]}
<1>3. Rounds!Corrected(row, d) = [row EXCEPT !.name = name, !.facts = facts, !.marks = marks]
  BY DEF Rounds!Corrected
<1>4. row.facts \in Rounds!RoundFacts /\ date \in Nat /\ amount \in Nat
  BY <1>1 DEF Rounds!RoundFacts
<1>5. facts \in Rounds!RoundFacts /\ facts.date = date /\ facts.amount = amount
  <2> HIDE DEF date, amount
  <2> QED BY <1>4 DEF Rounds!RoundFacts
<1>6. name \in {Rounds!NoName} \cup Rounds!Deal /\ (name # row.name => "name" \in marks)
  BY <1>1
<1>7. /\ facts.date # row.facts.date => "date" \in marks
      /\ facts.amount # row.facts.amount => "amount" \in marks
      /\ row.marks \subseteq marks
  <2> HIDE DEF facts
  <2> QED OBVIOUS
<1>8. marks \in SUBSET Rounds!Column
  <2> HIDE DEF facts
  <2> QED BY <1>1 DEF Rounds!Column
<1> HIDE DEF facts, name, marks
<1>9. PICK new \in [exists : BOOLEAN, approved : BOOLEAN, name : {Rounds!NoName} \cup Rounds!Deal,
                    facts : Rounds!RoundFacts, marks : SUBSET Rounds!Column] :
        new = Rounds!Corrected(row, d) /\ new.name = name /\ new.facts = facts /\ new.marks = marks
  BY <1>1, <1>3, <1>5, <1>6, <1>8
<1>10. \A f \in {"date", "amount"} : new.facts[f] # filed[x][f] => f \in new.marks
  <2>1. facts["date"] # filed[x]["date"] => "date" \in marks
    BY <1>2, <1>7
  <2>2. facts["amount"] # filed[x]["amount"] => "amount" \in marks
    BY <1>2, <1>7
  <2> QED BY <1>9, <2>1, <2>2
<1>11. new.name # Rounds!NoName => "name" \in new.marks
  BY <1>2, <1>6, <1>7, <1>9
<1> QED BY <1>9, <1>10, <1>11

LEMMA RunsWrite ==
    ASSUME Rounds!FoldingAssumption, RoundsInv, Rounds!writeDeal
    PROVE  RoundsInv'
<1>1. PICK d \in run.todo :
          /\ run' = [run EXCEPT !.todo = @ \ {d}]
          /\ \/ \E x \in Rounds!Rung : <<d, x>> \in run.plan /\ Rounds!foldDeal(d, x)
             \/ (\A x \in Rounds!Rung : <<d, x>> \notin run.plan) /\ Rounds!writeOwn(d)
  BY DEF Rounds!writeDeal
<1>2. run.pc = "writing" /\ UNCHANGED <<deal, filed, binding, link, changes>>
  BY DEF Rounds!writeDeal
<1>3. /\ run \in [pc : {"idle", "writing", "binding"}, todo : SUBSET Rounds!Deal,
                  plan : SUBSET (Rounds!Deal \X Rounds!Rung), strong : BOOLEAN]
      /\ d \in Rounds!Deal
      /\ rung \in [Rounds!Rung -> [exists : BOOLEAN, approved : BOOLEAN, name : {Rounds!NoName} \cup Rounds!Deal,
                                   facts : Rounds!RoundFacts, marks : SUBSET Rounds!Column]]
      /\ own \in SUBSET Rounds!Deal
  BY DEF RoundsInv, Rounds!TypeOK
<1>4. /\ run' \in [pc : {"idle", "writing", "binding"}, todo : SUBSET Rounds!Deal,
                   plan : SUBSET (Rounds!Deal \X Rounds!Rung), strong : BOOLEAN]
      /\ run'.plan = run.plan /\ run'.todo = run.todo \ {d} /\ run'.pc = run.pc
  BY <1>1, <1>3
<1>5. ASSUME NEW x \in Rounds!Rung, <<d, x>> \in run.plan, Rounds!foldDeal(d, x) PROVE RoundsInv'
  <2>1. own' = own
    BY <1>5 DEF Rounds!foldDeal
  <2>2. PlanHolds' /\ Rounds!DealsShowOnce'
    BY <1>2, <1>4, <2>1 DEF RoundsInv, PlanHolds, Rounds!DealsShowOnce
  <2>3. CASE ~ Rounds!corrects(x)
    <3>1. rung' = rung
      BY <1>5, <2>3 DEF Rounds!foldDeal
    <3> QED BY <1>2, <1>4, <2>1, <2>2, <3>1 DEF RoundsInv, Rounds!TypeOK, Rounds!CorrectionsAreMarked
  <2>4. CASE Rounds!corrects(x)
    <3>1. PICK new : new = Rounds!Corrected(rung[x], d)
      OBVIOUS
    <3>2. rung' = [rung EXCEPT ![x] = new]
      BY <1>5, <2>4, <3>1 DEF Rounds!foldDeal
    <3>3. PICK row : row = rung[x]
      OBVIOUS
    <3>4. /\ Rounds!Corrected(row, d) \in [exists : BOOLEAN, approved : BOOLEAN,
                 name : {Rounds!NoName} \cup Rounds!Deal, facts : Rounds!RoundFacts, marks : SUBSET Rounds!Column]
          /\ \A f \in {"date", "amount"} :
                Rounds!Corrected(row, d).facts[f] # filed[x][f] => f \in Rounds!Corrected(row, d).marks
          /\ Rounds!Corrected(row, d).name # Rounds!NoName => "name" \in Rounds!Corrected(row, d).marks
      BY <1>3, <3>3, CorrectedIsMarked
    <3>5. /\ new \in [exists : BOOLEAN, approved : BOOLEAN,
                      name : {Rounds!NoName} \cup Rounds!Deal, facts : Rounds!RoundFacts, marks : SUBSET Rounds!Column]
          /\ \A f \in {"date", "amount"} : new.facts[f] # filed[x][f] => f \in new.marks
          /\ new.name # Rounds!NoName => "name" \in new.marks
      BY <3>1, <3>3, <3>4
    <3>6. x \notin Contributed
      BY <2>4 DEF Rounds!corrects
    <3>7. rung'[x] = new /\ \A y \in Rounds!Rung : y # x => rung'[y] = rung[y]
      BY <1>3, <3>2
    <3>8. rung' \in [Rounds!Rung -> [exists : BOOLEAN, approved : BOOLEAN, name : {Rounds!NoName} \cup Rounds!Deal,
                                     facts : Rounds!RoundFacts, marks : SUBSET Rounds!Column]]
      BY <1>3, <3>2, <3>5
    <3>9. Rounds!CorrectionsAreMarked'
      <4> SUFFICES ASSUME NEW y \in Rounds!Rung
                   PROVE  /\ \A f \in {"date", "amount"} : rung'[y].facts[f] # filed[y][f] => f \in rung'[y].marks
                          /\ rung'[y].name # Rounds!NoName => "name" \in rung'[y].marks
                          /\ y \in Contributed => rung'[y].marks = {}
        BY <1>2 DEF Rounds!CorrectionsAreMarked
      <4>1. CASE y = x
        BY <3>5, <3>6, <3>7, <4>1
      <4>2. CASE y # x
        BY <3>7, <4>2 DEF RoundsInv, Rounds!CorrectionsAreMarked
      <4> QED BY <4>1, <4>2
    <3>10. Rounds!TypeOK'
      BY <1>2, <1>4, <2>1, <3>8 DEF RoundsInv, Rounds!TypeOK
    <3> QED BY <2>2, <3>9, <3>10 DEF RoundsInv
  <2> QED BY <2>3, <2>4
<1>6. ASSUME \A x \in Rounds!Rung : <<d, x>> \notin run.plan, Rounds!writeOwn(d) PROVE RoundsInv'
  <2>1. own' = own \cup {d} /\ rung' = rung
    BY <1>6 DEF Rounds!writeOwn
  <2>2. binding[d] \notin Rounds!Rung
    BY <1>2, <1>6 DEF RoundsInv, PlanHolds
  <2>3. \A p \in run.plan : p[1] # d
    <3> SUFFICES ASSUME NEW p \in run.plan, p[1] = d PROVE FALSE
      OBVIOUS
    <3>1. p = <<d, p[2]>> /\ p[2] \in Rounds!Rung
      BY <1>3
    <3> QED BY <1>6, <3>1
  <2>4. PlanHolds' /\ Rounds!DealsShowOnce'
    BY <1>2, <1>4, <2>1, <2>2, <2>3 DEF RoundsInv, PlanHolds, Rounds!DealsShowOnce
  <2> QED BY <1>2, <1>3, <1>4, <2>1, <2>4 DEF RoundsInv, Rounds!TypeOK, Rounds!CorrectionsAreMarked
<1> QED BY <1>1, <1>5, <1>6

LEMMA RunsBind ==
    ASSUME Rounds!FoldingAssumption, RoundsInv, Rounds!writeRoundBindings
    PROVE  RoundsInv'
<1>1. /\ run.pc = "writing" /\ run.todo = {} /\ run' = [run EXCEPT !.pc = "binding"]
      /\ UNCHANGED <<deal, own, rung, filed, link, changes>>
  BY DEF Rounds!writeRoundBindings
<1>2. binding' = [d \in Rounds!Deal |->
                     IF d \notin Rounds!Reported \/ binding[d] # Rounds!Unbound THEN binding[d]
                     ELSE IF \E x \in Rounds!Rung : <<d, x>> \in run.plan
                          THEN CHOOSE x \in Rounds!Rung : <<d, x>> \in run.plan
                          ELSE Rounds!OwnRow]
  BY DEF Rounds!writeRoundBindings
<1>3. /\ run \in [pc : {"idle", "writing", "binding"}, todo : SUBSET Rounds!Deal,
                  plan : SUBSET (Rounds!Deal \X Rounds!Rung), strong : BOOLEAN]
      /\ binding \in [Rounds!Deal -> {Rounds!Unbound, Rounds!OwnRow} \cup Rounds!Rung]
  BY DEF RoundsInv, Rounds!TypeOK
<1>4. /\ run' \in [pc : {"idle", "writing", "binding"}, todo : SUBSET Rounds!Deal,
                   plan : SUBSET (Rounds!Deal \X Rounds!Rung), strong : BOOLEAN]
      /\ run'.plan = run.plan /\ run'.todo = {}
  BY <1>1, <1>3
<1>5. ASSUME NEW d \in Rounds!Deal
      PROVE  /\ binding'[d] \in {Rounds!Unbound, Rounds!OwnRow} \cup Rounds!Rung
             /\ binding'[d] \in Rounds!Rung => d \notin own
  <2>1. CASE d \notin Rounds!Reported \/ binding[d] # Rounds!Unbound
    BY <1>2, <1>3, <2>1 DEF RoundsInv, Rounds!DealsShowOnce
  <2>2. CASE d \in Rounds!Reported /\ binding[d] = Rounds!Unbound
    <3>1. CASE \E x \in Rounds!Rung : <<d, x>> \in run.plan
      <4>1. d \notin own
        BY <1>1, <3>1 DEF RoundsInv, PlanHolds
      <4>2. binding'[d] = CHOOSE x \in Rounds!Rung : <<d, x>> \in run.plan
        BY <1>2, <2>2, <3>1
      <4> QED BY <3>1, <4>1, <4>2
    <3>2. CASE ~ \E x \in Rounds!Rung : <<d, x>> \in run.plan
      <4>1. binding'[d] = Rounds!OwnRow
        BY <1>2, <2>2, <3>2
      <4>2. Rounds!OwnRow \notin Rounds!Rung
        BY DEF Rounds!OwnRow, Rounds!Rung, Rounds!FoldingAssumption
      <4> QED BY <4>1, <4>2
    <3> QED BY <3>1, <3>2
  <2> QED BY <2>1, <2>2
<1>6. binding' \in [Rounds!Deal -> {Rounds!Unbound, Rounds!OwnRow} \cup Rounds!Rung]
  <2>1. binding' = [d \in Rounds!Deal |-> binding'[d]]
    BY <1>2
  <2> QED BY <1>5, <2>1
<1>7. Rounds!TypeOK'
  BY <1>1, <1>4, <1>6 DEF RoundsInv, Rounds!TypeOK
<1>8. Rounds!DealsShowOnce'
  BY <1>1, <1>5 DEF Rounds!DealsShowOnce
<1>9. PlanHolds'
  BY <1>1, <1>4 DEF RoundsInv, PlanHolds
<1>10. Rounds!CorrectionsAreMarked'
  BY <1>1 DEF RoundsInv, Rounds!CorrectionsAreMarked
<1> QED BY <1>7, <1>8, <1>9, <1>10 DEF RoundsInv

LEMMA RunsEnd ==
    ASSUME Rounds!FoldingAssumption, RoundsInv, Rounds!writeBinding \/ Rounds!breakOff
    PROVE  RoundsInv'
<1>1. /\ link' = (IF run.strong THEN "binding" ELSE link) \/ link' = (IF run.strong THEN "held" ELSE link)
      /\ run' = Rounds!IdleRun /\ UNCHANGED <<deal, own, rung, filed, binding, changes>>
  BY DEF Rounds!writeBinding, Rounds!breakOff
<1>2. /\ run' \in [pc : {"idle", "writing", "binding"}, todo : SUBSET Rounds!Deal,
                   plan : SUBSET (Rounds!Deal \X Rounds!Rung), strong : BOOLEAN]
      /\ run'.pc = "idle"
  BY <1>1 DEF Rounds!IdleRun
<1>3. link' \in {"strong", "binding", "own", "held"}
  BY <1>1 DEF RoundsInv, Rounds!TypeOK
<1>4. Rounds!TypeOK'
  BY <1>1, <1>2, <1>3 DEF RoundsInv, Rounds!TypeOK
<1>5. PlanHolds'
  BY <1>2 DEF PlanHolds
<1> QED BY <1>1, <1>4, <1>5 DEF RoundsInv, Rounds!CorrectionsAreMarked, Rounds!DealsShowOnce

LEMMA RepairCertifies ==
    ASSUME Rounds!FoldingAssumption, RoundsInv, Rounds!certify
    PROVE  RoundsInv'
<1>1. link' = "binding" /\ UNCHANGED <<deal, own, rung, filed, binding, run, changes>>
  BY DEF Rounds!certify
<1>2. Rounds!TypeOK'
  BY <1>1 DEF RoundsInv, Rounds!TypeOK
<1> QED BY <1>1, <1>2 DEF RoundsInv, Rounds!CorrectionsAreMarked, Rounds!DealsShowOnce, PlanHolds

LEMMA PartnerReports ==
    ASSUME Rounds!FoldingAssumption, RoundsInv,
           NEW d \in Rounds!Deal, NEW said \in Facts, Rounds!report(d, said)
    PROVE  RoundsInv'
<1>1. /\ changes < MaxChanges /\ changes' = changes + 1
      /\ deal' = [deal EXCEPT ![d] = [in |-> TRUE, facts |-> said]]
      /\ UNCHANGED <<own, rung, filed, binding, link, run>>
  BY DEF Rounds!report, Rounds!Changing
<1>2. deal' \in [Rounds!Deal -> [in : BOOLEAN, facts : Facts]]
  BY <1>1 DEF RoundsInv, Rounds!TypeOK
<1>3. changes' \in 0 .. MaxChanges
  BY <1>1 DEF RoundsInv, Rounds!TypeOK, Rounds!FoldingAssumption
<1>4. Rounds!TypeOK'
  BY <1>1, <1>2, <1>3 DEF RoundsInv, Rounds!TypeOK
<1> QED BY <1>1, <1>4 DEF RoundsInv, Rounds!CorrectionsAreMarked, Rounds!DealsShowOnce, PlanHolds

\* Another source overwrites its own round, and unmarks what it wrote or dies
\* before it does.
LEMMA SourceFiles ==
    ASSUME Rounds!FoldingAssumption, RoundsInv,
           NEW x \in Rounds!Rung, NEW said \in Facts, Rounds!file(x, said)
    PROVE  RoundsInv'
<1>1. /\ changes < MaxChanges /\ changes' = changes + 1 /\ x \notin Contributed
      /\ filed' = [filed EXCEPT ![x] = said]
      /\ UNCHANGED <<deal, own, binding, link, run>>
  BY DEF Rounds!file, Rounds!Changing
<1>2. PICK unmarked \in {{}, {"date", "amount"}} :
        rung' = [rung EXCEPT ![x] = [rung[x] EXCEPT !.exists = TRUE, !.approved = TRUE,
                                                    !.facts = said, !.marks = rung[x].marks \ unmarked]]
  BY DEF Rounds!file
<1>3. PICK row \in [exists : BOOLEAN, approved : BOOLEAN, name : {Rounds!NoName} \cup Rounds!Deal,
                    facts : Rounds!RoundFacts, marks : SUBSET Rounds!Column] : row = rung[x]
  BY DEF RoundsInv, Rounds!TypeOK
<1> DEFINE new == [row EXCEPT !.exists = TRUE, !.approved = TRUE,
                              !.facts = said, !.marks = row.marks \ unmarked]
<1>4. said \in Rounds!RoundFacts
  BY DEF Rounds!FoldingAssumption
<1>5. /\ new \in [exists : BOOLEAN, approved : BOOLEAN, name : {Rounds!NoName} \cup Rounds!Deal,
                  facts : Rounds!RoundFacts, marks : SUBSET Rounds!Column]
      /\ new.facts = said /\ new.name = row.name /\ new.marks = row.marks \ unmarked
  BY <1>3, <1>4
<1>6. rung' = [rung EXCEPT ![x] = new]
  BY <1>2, <1>3
<1> HIDE DEF new
<1>7. /\ rung \in [Rounds!Rung -> [exists : BOOLEAN, approved : BOOLEAN, name : {Rounds!NoName} \cup Rounds!Deal,
                                   facts : Rounds!RoundFacts, marks : SUBSET Rounds!Column]]
      /\ filed \in [Rounds!Rung -> Facts]
  BY DEF RoundsInv, Rounds!TypeOK
<1>8. /\ rung' \in [Rounds!Rung -> [exists : BOOLEAN, approved : BOOLEAN, name : {Rounds!NoName} \cup Rounds!Deal,
                                    facts : Rounds!RoundFacts, marks : SUBSET Rounds!Column]]
      /\ rung'[x] = new /\ \A y \in Rounds!Rung : y # x => rung'[y] = rung[y]
  BY <1>5, <1>6, <1>7
<1>9. /\ filed' \in [Rounds!Rung -> Facts]
      /\ filed'[x] = said /\ \A y \in Rounds!Rung : y # x => filed'[y] = filed[y]
  BY <1>1, <1>7
<1>10. changes' \in 0 .. MaxChanges
  BY <1>1 DEF RoundsInv, Rounds!TypeOK, Rounds!FoldingAssumption
<1>11. Rounds!TypeOK'
  BY <1>1, <1>8, <1>9, <1>10 DEF RoundsInv, Rounds!TypeOK
<1>12. Rounds!CorrectionsAreMarked'
  <2> SUFFICES ASSUME NEW y \in Rounds!Rung
               PROVE  /\ \A f \in {"date", "amount"} : rung'[y].facts[f] # filed'[y][f] => f \in rung'[y].marks
                      /\ rung'[y].name # Rounds!NoName => "name" \in rung'[y].marks
                      /\ y \in Contributed => rung'[y].marks = {}
    BY DEF Rounds!CorrectionsAreMarked
  <2>1. CASE y = x
    <3>1. row.name # Rounds!NoName => "name" \in row.marks
      BY <1>3 DEF RoundsInv, Rounds!CorrectionsAreMarked
    <3>2. rung'[y].facts = said /\ filed'[y] = said
      BY <1>5, <1>8, <1>9, <2>1
    <3>3. rung'[y].name # Rounds!NoName => "name" \in rung'[y].marks
      BY <1>5, <1>8, <2>1, <3>1
    <3> QED BY <1>1, <2>1, <3>2, <3>3
  <2>2. CASE y # x
    BY <1>8, <1>9, <2>2 DEF RoundsInv, Rounds!CorrectionsAreMarked
  <2> QED BY <2>1, <2>2
<1> QED BY <1>1, <1>11, <1>12 DEF RoundsInv, Rounds!DealsShowOnce, PlanHolds

LEMMA ModeratorDecides ==
    ASSUME Rounds!FoldingAssumption, RoundsInv, NEW x \in Rounds!Rung, Rounds!moderate(x)
    PROVE  RoundsInv'
<1>1. /\ changes < MaxChanges /\ changes' = changes + 1
      /\ rung' = [rung EXCEPT ![x].approved = ~ rung[x].approved]
      /\ UNCHANGED <<deal, own, filed, binding, link, run>>
  BY DEF Rounds!moderate, Rounds!Changing
<1>2. rung \in [Rounds!Rung -> [exists : BOOLEAN, approved : BOOLEAN, name : {Rounds!NoName} \cup Rounds!Deal,
                                facts : Rounds!RoundFacts, marks : SUBSET Rounds!Column]]
  BY DEF RoundsInv, Rounds!TypeOK
<1>3. PICK so \in BOOLEAN : so = ~ rung[x].approved
  BY <1>2
<1>4. rung' = [rung EXCEPT ![x].approved = so]
  BY <1>1, <1>3
<1>5. /\ rung' \in [Rounds!Rung -> [exists : BOOLEAN, approved : BOOLEAN, name : {Rounds!NoName} \cup Rounds!Deal,
                                    facts : Rounds!RoundFacts, marks : SUBSET Rounds!Column]]
      /\ \A y \in Rounds!Rung : rung'[y].facts = rung[y].facts /\ rung'[y].name = rung[y].name
                                /\ rung'[y].marks = rung[y].marks
  BY <1>2, <1>4
<1>6. changes' \in 0 .. MaxChanges
  BY <1>1 DEF RoundsInv, Rounds!TypeOK, Rounds!FoldingAssumption
<1>7. Rounds!TypeOK'
  BY <1>1, <1>5, <1>6 DEF RoundsInv, Rounds!TypeOK
<1>8. Rounds!CorrectionsAreMarked'
  BY <1>1, <1>5 DEF RoundsInv, Rounds!CorrectionsAreMarked
<1> QED BY <1>1, <1>7, <1>8 DEF RoundsInv, Rounds!DealsShowOnce, PlanHolds

LEMMA RoundsStep ==
    ASSUME Rounds!FoldingAssumption, RoundsInv, Rounds!Next \/ UNCHANGED roundVars
    PROVE  RoundsInv'
<1>1. CASE UNCHANGED roundVars
  <2>1. UNCHANGED <<deal, own, rung, filed, binding, link, run, changes>>
    BY <1>1 DEF roundVars
  <2>2. Rounds!TypeOK'
    BY <2>1 DEF RoundsInv, Rounds!TypeOK
  <2> QED BY <2>1, <2>2 DEF RoundsInv, Rounds!CorrectionsAreMarked, Rounds!DealsShowOnce, PlanHolds
<1>2. CASE Rounds!upsert
  BY <1>2, RunsPlan
<1>3. CASE Rounds!writeDeal
  BY <1>3, RunsWrite
<1>4. CASE Rounds!writeRoundBindings
  BY <1>4, RunsBind
<1>5. CASE Rounds!writeBinding \/ Rounds!breakOff
  BY <1>5, RunsEnd
<1>6. CASE Rounds!certify
  BY <1>6, RepairCertifies
<1>7. ASSUME NEW d \in Rounds!Deal, NEW said \in Facts, Rounds!report(d, said) PROVE RoundsInv'
  BY <1>7, PartnerReports
<1>8. ASSUME NEW x \in Rounds!Rung, NEW said \in Facts, Rounds!file(x, said) PROVE RoundsInv'
  BY <1>8, SourceFiles
<1>9. ASSUME NEW x \in Rounds!Rung, Rounds!moderate(x) PROVE RoundsInv'
  BY <1>9, ModeratorDecides
<1> QED BY <1>1, <1>2, <1>3, <1>4, <1>5, <1>6, <1>7, <1>8, <1>9 DEF Rounds!Next

RoundsPart == part = "rounds" => RoundsInv

\* The inductive invariant of the rounds.
LEMMA RoundsAlways == MCSpec => []RoundsPart
<1>0. Rounds!FoldingAssumption
  BY PartsAssumption
<1>1. MCInit => RoundsPart
  BY <1>0, RoundsStart DEF MCInit, RoundsPart
<1>2. RoundsPart /\ [MCNext]_allVars => RoundsPart'
  <2> SUFFICES ASSUME RoundsPart, [MCNext]_allVars, part' = "rounds" PROVE RoundsInv'
    BY DEF RoundsPart
  <2>1. part = "rounds" /\ RoundsInv
    BY DEF MCNext, allVars, RoundsPart
  <2>2. Rounds!Next \/ UNCHANGED roundVars
    BY <2>1 DEF MCNext, allVars
  <2> QED BY <1>0, <2>1, <2>2, RoundsStep
<1> QED BY <1>1, <1>2, PTL DEF MCSpec

\* However runs, publications, corrections and failures follow each other: the
\* pairing a run would make now is one to one and leaves out no pair that is
\* closer ("Greedy on closeness across ALL pairs"), whatever a rung says that
\* its writer did not is marked as the partner's, a contribution is never
\* corrected, and no deal is both a row of the partner's and folded elsewhere.
THEOREM FoldingDealsIsSound == MCSpec => []FoldingIsSound
<1>1. RoundsPart => FoldingIsSound
  <2> SUFFICES ASSUME RoundsInv PROVE Rounds!FoldingIsSound
    BY DEF RoundsPart, FoldingIsSound
  <2>1. RoundsTyped
    BY PartsAssumption, RoundsAreTyped DEF RoundsInv
  <2>2. PICK deals \in SUBSET Rounds!Deal : deals = Rounds!fresh
    BY DEF Rounds!fresh, Rounds!Reported
  <2>3. PICK rungs \in SUBSET Rounds!Rung : rungs = Rounds!Others
    BY DEF Rounds!Others
  <2>4. Nearest(Rounds!pairNearDuplicates(deals, rungs),
                {p \in deals \X rungs : Rounds!CanPair(p[1], p[2])})
    BY <2>1, PairsNearDuplicates
  <2>5. Nearest(Rounds!pairNearDuplicates(Rounds!fresh, Rounds!Others),
                {p \in Rounds!fresh \X Rounds!Others : Rounds!CanPair(p[1], p[2])})
    BY <2>2, <2>3, <2>4
  <2>6. Rounds!PairsAreNearest
    BY <2>5 DEF Nearest, Rounds!PairsAreNearest
  <2> QED BY <2>6 DEF RoundsInv, Rounds!FoldingIsSound
<1> QED BY <1>1, RoundsAlways, PTL

\* Every part keeps its types; of merges, the ids of items are their own and a
\* row holds one item of a key (the unique indexes that moveRows works around).
THEOREM PartsKeepTypes == MCSpec => []TypesOK
<1>1. SerialPart /\ OverlapPart /\ RoundsPart => TypesOK
  BY DEF SerialPart, SerialInv, OverlapPart, OverlapInv, RoundsPart, RoundsInv, TypesOK
<1> QED BY <1>1, SerialAlways, OverlapAlways, RoundsAlways, PTL
=============================================================================
