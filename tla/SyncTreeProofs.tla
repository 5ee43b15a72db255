--------------------------- MODULE SyncTreeProofs ---------------------------
(***************************************************************************)
(* What the operators of SyncTree return, for any list of writes, and when *)
(* the tree of visible writes, which is updated write by write, is what    *)
(* layering the writes in order gives: whenever they are settled oldest    *)
(* first.                                                                  *)
(***************************************************************************)
EXTENDS SyncTree, SequenceTheorems, FiniteSetTheorems, TLAPS

-----------------------------------------------------------------------------
(* Sequences *)

\* Taking an element out of a sequence moves those behind it up.
LEMMA RemoveAtProperties ==
    ASSUME NEW S, NEW s \in Seq(S), NEW i \in 1 .. Len(s)
    PROVE  /\ RemoveAt(s, i) \in Seq(S)
           /\ Len(RemoveAt(s, i)) = Len(s) - 1
           /\ \A j \in 1 .. Len(s) - 1 :
                RemoveAt(s, i)[j] = IF j < i THEN s[j] ELSE s[j + 1]
<1> DEFINE front == SubSeq(s, 1, i - 1)
           back  == SubSeq(s, i + 1, Len(s))
<1>1. \A j \in 1 .. Len(s) : s[j] \in S
  BY ElementOfSeq
<1>2. /\ front \in Seq(S) /\ Len(front) = i - 1
      /\ \A j \in 1 .. i - 1 : front[j] = s[j]
  <2>1. \A j \in 1 .. i - 1 : s[j] \in S
    BY <1>1
  <2>2. 1 \in Int /\ i - 1 \in Int
    OBVIOUS
  <2>3. /\ front \in Seq(S)
        /\ Len(front) = IF 1 <= i - 1 THEN (i - 1) - 1 + 1 ELSE 0
        /\ \A j \in 1 .. (i - 1) - 1 + 1 : front[j] = s[1 + j - 1]
    BY <2>1, <2>2, SubSeqProperties
  <2> QED BY <2>3
<1>3. /\ back \in Seq(S) /\ Len(back) = Len(s) - i
      /\ \A j \in 1 .. Len(s) - i : back[j] = s[i + j]
  <2>1. \A j \in i + 1 .. Len(s) : s[j] \in S
    BY <1>1
  <2>2. i + 1 \in Int /\ Len(s) \in Int
    OBVIOUS
  <2>3. /\ back \in Seq(S)
        /\ Len(back) = IF i + 1 <= Len(s) THEN Len(s) - (i + 1) + 1 ELSE 0
        /\ \A j \in 1 .. Len(s) - (i + 1) + 1 : back[j] = s[(i + 1) + j - 1]
    BY <2>1, <2>2, SubSeqProperties
  <2> QED BY <2>3
<1>4. RemoveAt(s, i) = front \o back
  BY DEF RemoveAt
<1> HIDE DEF front, back
<1>5. RemoveAt(s, i) \in Seq(S) /\ Len(RemoveAt(s, i)) = Len(s) - 1
  BY <1>2, <1>3, <1>4
<1>6. ASSUME NEW j \in 1 .. Len(s) - 1
      PROVE  RemoveAt(s, i)[j] = IF j < i THEN s[j] ELSE s[j + 1]
  <2>1. CASE j < i
    BY <1>2, <1>3, <1>4, <2>1
  <2>2. CASE ~(j < i)
    <3>1. j - (i - 1) \in 1 .. Len(s) - i /\ i + (j - (i - 1)) = j + 1
      BY <2>2
    <3>2. (front \o back)[j] = back[j - (i - 1)]
      BY <1>2, <1>3, <2>2
    <3> QED BY <1>3, <1>4, <2>2, <3>1, <3>2
  <2> QED BY <2>1, <2>2
<1> QED BY <1>5, <1>6

\* A set of positions has a last one.
LEMMA LastPosition ==
    ASSUME NEW N \in Nat, NEW T \in SUBSET (1 .. N), T # {}
    PROVE  \E i \in T : \A j \in T : j <= i
<1> DEFINE Above(i) == {j \in T : j > i}
           F == {Above(i) : i \in T}
<1>1. IsWellFoundedOn(StrictSubsetOrdering(1 .. N), FiniteSubsetsOf(1 .. N))
  BY FS_StrictSubsetOrderingWellFounded
<1>2. F \subseteq FiniteSubsetsOf(1 .. N)
  <2>1. IsFiniteSet(1 .. N)
    BY FS_Interval
  <2>2. FiniteSubsetsOf(1 .. N) = SUBSET (1 .. N)
    BY <2>1, FS_FiniteSubsetsOfFinite
  <2> QED BY <2>2
<1>3. F # {}
  OBVIOUS
<1>4. \E x \in F : \A y \in F : <<y, x>> \notin StrictSubsetOrdering(1 .. N)
  <2> HIDE DEF F
  <2> QED BY <1>1, <1>2, <1>3, WFMin
<1>5. PICK i \in T : \A y \in F : <<y, Above(i)>> \notin StrictSubsetOrdering(1 .. N)
  BY <1>4
<1>6. ASSUME NEW j \in T, j > i PROVE FALSE
  <2>1. Above(j) \in F
    BY <1>6
  <2>2. /\ Above(j) \subseteq Above(i) /\ j \in Above(i) /\ j \notin Above(j)
        /\ Above(j) \in SUBSET (1 .. N) /\ Above(i) \in SUBSET (1 .. N)
    <3> HIDE DEF F
    <3>1. \A k \in T : k \in Int /\ k \in 1 .. N
      OBVIOUS
    <3>2. Above(j) \subseteq Above(i)
      <4> SUFFICES ASSUME NEW k \in T, k > j PROVE k > i
        BY <3>1
      <4>1. k \in Int /\ j \in Int /\ i \in Int
        BY <3>1
      <4> QED BY <1>6, <4>1
    <3>3. j \in Above(i) /\ j \notin Above(j)
      BY <1>6, <3>1
    <3> QED BY <3>1, <3>2, <3>3
  <2>3. <<Above(j), Above(i)>> \in StrictSubsetOrdering(1 .. N)
    <3> HIDE DEF Above
    <3> QED BY <2>2 DEF StrictSubsetOrdering
  <2> QED BY <1>5, <2>1, <2>3
<1> QED BY <1>6

-----------------------------------------------------------------------------
(* What the operators of SyncTree return *)

LEMMA NodeFacts ==
    /\ Leaf \in Node /\ {} \in Node /\ Leaf # {} /\ None \notin Node
    /\ \A n \in Node : Children(n) \in SUBSET Keys
    /\ \A S \in SUBSET Keys : S \in Node /\ S # Leaf /\ Children(S) = S
BY LeafAssumption, NoneAssumption DEF Node, Children

-----------------------------------------------------------------------------
(* LayerTree, without the choice of the last write of the whole list *)

PathsAfter(s, i) == {s[j].path : j \in {k \in DOMAIN s : k > i}}
NoTop(s) == \A j \in 1 .. Len(s) : s[j].path # Top
LastTop(s, i) ==
    s[i].path = Top /\ \A j \in 1 .. Len(s) : s[j].path = Top => j <= i

LEMMA LayersOf ==
    ASSUME NEW s \in Seq(Write)
    PROVE  /\ NoTop(s) => LayerTree(s) = [top |-> None, keys |-> PathsAfter(s, 0)]
           /\ \A i \in 1 .. Len(s) : LastTop(s, i) =>
                LayerTree(s) = [top  |-> IF PathsAfter(s, i) = {} THEN Leaf
                                         ELSE PathsAfter(s, i),
                                keys |-> {}]
           /\ NoTop(s) \/ \E i \in 1 .. Len(s) : LastTop(s, i)
<1> DEFINE tops == {i \in DOMAIN s : s[i].path = Top}
           last == CHOOSE i \in tops : \A j \in tops : j <= i
<1>1. DOMAIN s = 1 .. Len(s) /\ Len(s) \in Nat
  OBVIOUS
<1>2. ASSUME NoTop(s)
      PROVE  LayerTree(s) = [top |-> None, keys |-> PathsAfter(s, 0)]
  <2>1. tops = {}
    BY <1>1, <1>2 DEF NoTop
  <2> QED BY <2>1 DEF LayerTree, PathsAfter
<1>3. ASSUME NEW i \in 1 .. Len(s), LastTop(s, i)
      PROVE  LayerTree(s) = [top  |-> IF PathsAfter(s, i) = {} THEN Leaf
                                      ELSE PathsAfter(s, i),
                             keys |-> {}]
  <2>1. i \in tops /\ \A j \in tops : j <= i
    BY <1>1, <1>3 DEF LastTop
  <2>2. last \in tops /\ \A j \in tops : j <= last
    <3> HIDE DEF tops
    <3> QED BY <2>1
  <2>3. last = i
    <3>1. last <= i /\ i <= last /\ last \in Int
      BY <1>1, <2>1, <2>2
    <3> HIDE DEF last
    <3> QED BY <3>1
  <2>4. LayerTree(s) = [top  |-> IF PathsAfter(s, last) = {} THEN Leaf
                                 ELSE PathsAfter(s, last),
                        keys |-> {}]
    BY <2>1 DEF LayerTree, PathsAfter
  <2> HIDE DEF last
  <2> QED BY <2>3, <2>4
<1>4. ASSUME ~NoTop(s) PROVE \E i \in 1 .. Len(s) : LastTop(s, i)
  <2>1. tops \in SUBSET (1 .. Len(s)) /\ tops # {}
    BY <1>1, <1>4 DEF NoTop
  <2>2. \E i \in tops : \A j \in tops : j <= i
    <3> HIDE DEF tops
    <3> QED BY <1>1, <2>1, LastPosition
  <2> QED BY <1>1, <2>2 DEF LastTop
<1> QED BY <1>2, <1>3, <1>4

LEMMA WritePaths ==
    ASSUME NEW s \in Seq(Write), NEW i \in 0 .. Len(s),
           \A j \in 1 .. Len(s) : j > i => s[j].path # Top
    PROVE  PathsAfter(s, i) \in SUBSET Keys
<1>1. ASSUME NEW j \in 1 .. Len(s), j > i PROVE s[j].path \in Keys
  <2>1. s[j] \in Write
    BY ElementOfSeq
  <2> QED BY <1>1, <2>1 DEF Write, Paths
<1>2. DOMAIN s = 1 .. Len(s)
  OBVIOUS
<1> QED BY <1>1, <1>2 DEF PathsAfter

LEMMA LayerTreeTyped ==
    ASSUME NEW s \in Seq(Write)
    PROVE  LayerTree(s) \in CompoundWrite
<1>1. CASE NoTop(s)
  <2>1. PathsAfter(s, 0) \in SUBSET Keys
    <3>1. Len(s) \in Nat /\ 0 \in 0 .. Len(s)
      OBVIOUS
    <3> QED BY <1>1, <3>1, WritePaths DEF NoTop
  <2> QED BY <1>1, <2>1, LayersOf DEF CompoundWrite
<1>2. ASSUME NEW i \in 1 .. Len(s), LastTop(s, i)
      PROVE  LayerTree(s) \in CompoundWrite
  <2>1. PathsAfter(s, i) \in SUBSET Keys
    <3>1. i \in 0 .. Len(s) /\ \A j \in 1 .. Len(s) : j > i => s[j].path # Top
      BY <1>2 DEF LastTop
    <3> QED BY <3>1, WritePaths
  <2> QED BY <1>2, <2>1, LayersOf, NodeFacts DEF CompoundWrite
<1> QED BY <1>1, <1>2, LayersOf

LEMMA AddWriteIs ==
    ASSUME NEW vis \in CompoundWrite, NEW p \in Paths
    PROVE  /\ p = Top => AddWrite(vis, p) = [top |-> Leaf, keys |-> {}]
           /\ p # Top /\ vis.top # None =>
                AddWrite(vis, p) = [top  |-> UpdateChild(vis.top, p, Leaf),
                                    keys |-> vis.keys]
           /\ p # Top /\ vis.top = None =>
                AddWrite(vis, p) = [top |-> None, keys |-> vis.keys \cup {p}]
<1>1. vis = [top |-> vis.top, keys |-> vis.keys]
  BY DEF CompoundWrite
<1>2. ASSUME NEW v
      PROVE  /\ [vis EXCEPT !.top = v] = [top |-> v, keys |-> vis.keys]
             /\ [vis EXCEPT !.keys = v] = [top |-> vis.top, keys |-> v]
  BY <1>1 DEF CompoundWrite
<1>3. CASE p = Top
  BY <1>3, Zenon DEF AddWrite
<1>4. CASE p # Top /\ vis.top # None
  <2>1. AddWrite(vis, p) = [vis EXCEPT !.top = UpdateChild(vis.top, p, Leaf)]
    BY <1>4, Zenon DEF AddWrite
  <2> QED BY <1>2, <1>4, <2>1
<1>5. CASE p # Top /\ vis.top = None
  <2>1. AddWrite(vis, p) = [vis EXCEPT !.keys = vis.keys \cup {p}]
    BY <1>5, Zenon DEF AddWrite
  <2> QED BY <1>2, <1>5, <2>1
<1> QED BY <1>3, <1>4, <1>5

\* A new write is added to the tree as layering all of them would.
THEOREM AddWriteLayers ==
    ASSUME NEW s \in Seq(Write), NEW w \in Write
    PROVE  AddWrite(LayerTree(s), w.path) = LayerTree(Append(s, w))
<1> DEFINE t == Append(s, w)
           n == Len(s) + 1
<1>1. /\ t \in Seq(Write) /\ Len(t) = n /\ t[n] = w
      /\ \A j \in 1 .. Len(s) : t[j] = s[j]
      /\ Len(s) \in Nat
  BY AppendProperties
<1>d. DOMAIN s = 1 .. Len(s) /\ DOMAIN t = 1 .. n
  BY <1>1
<1> HIDE DEF t
<1>2. w.path \in Paths
  BY DEF Write
<1>3. ASSUME w.path = Top PROVE AddWrite(LayerTree(s), w.path) = LayerTree(t)
  <2>1. n \in 1 .. Len(t) /\ LastTop(t, n)
    BY <1>1, <1>3 DEF LastTop
  <2>2. PathsAfter(t, n) = {}
    BY <1>1, <1>d DEF PathsAfter
  <2>3. LayerTree(t) = [top |-> Leaf, keys |-> {}]
    BY <1>1, <2>1, <2>2, LayersOf
  <2> QED BY <1>2, <1>3, <2>3, AddWriteIs, LayerTreeTyped
<1>a. ASSUME NEW i \in 0 .. Len(s), w.path # Top
      PROVE  PathsAfter(t, i) = PathsAfter(s, i) \cup {w.path}
  <2>1. ASSUME NEW p \in PathsAfter(t, i) PROVE p \in PathsAfter(s, i) \cup {w.path}
    <3>1. PICK j \in 1 .. n : j > i /\ p = t[j].path
      BY <1>d DEF PathsAfter
    <3>2. CASE j = n
      BY <1>1, <3>1, <3>2
    <3>3. CASE j # n
      <4>1. j \in 1 .. Len(s) /\ t[j] = s[j]
        BY <1>1, <3>1, <3>3
      <4> QED BY <1>d, <3>1, <4>1 DEF PathsAfter
    <3> QED BY <3>2, <3>3
  <2>2. ASSUME NEW p \in PathsAfter(s, i) PROVE p \in PathsAfter(t, i)
    <3>1. PICK j \in 1 .. Len(s) : j > i /\ p = s[j].path
      BY <1>d DEF PathsAfter
    <3>2. j \in 1 .. n /\ t[j] = s[j]
      BY <1>1
    <3> QED BY <1>d, <3>1, <3>2 DEF PathsAfter
  <2>3. w.path \in PathsAfter(t, i)
    BY <1>1, <1>d DEF PathsAfter
  <2> QED BY <2>1, <2>2, <2>3
<1>4. ASSUME w.path # Top, NoTop(s)
      PROVE  AddWrite(LayerTree(s), w.path) = LayerTree(t)
  <2>1. NoTop(t)
    BY <1>1, <1>4 DEF NoTop
  <2>2. LayerTree(t) = [top |-> None, keys |-> PathsAfter(s, 0) \cup {w.path}]
    BY <1>1, <1>4, <1>a, <2>1, LayersOf
  <2>3. LayerTree(s) = [top |-> None, keys |-> PathsAfter(s, 0)]
    BY <1>4, LayersOf
  <2> QED BY <1>2, <1>4, <2>2, <2>3, AddWriteIs, LayerTreeTyped
<1>5. ASSUME w.path # Top, NEW i \in 1 .. Len(s), LastTop(s, i)
      PROVE  AddWrite(LayerTree(s), w.path) = LayerTree(t)
  <2> DEFINE S == PathsAfter(s, i)
  <2>1. i \in 1 .. Len(t) /\ LastTop(t, i)
    BY <1>1, <1>5 DEF LastTop
  <2>2. PathsAfter(t, i) = S \cup {w.path}
    BY <1>5, <1>a
  <2>3. LayerTree(t) = [top |-> S \cup {w.path}, keys |-> {}]
    BY <1>1, <2>1, <2>2, LayersOf
  <2>4. LayerTree(s) = [top |-> IF S = {} THEN Leaf ELSE S, keys |-> {}]
    BY <1>5, LayersOf
  <2>5. S \in SUBSET Keys
    <3>1. i \in 0 .. Len(s) /\ \A j \in 1 .. Len(s) : j > i => s[j].path # Top
      BY <1>5 DEF LastTop
    <3> QED BY <3>1, WritePaths
  <2> HIDE DEF S
  <2>6. LET top == IF S = {} THEN Leaf ELSE S
        IN  top # None /\ Children(top) = S
    BY <2>5, NodeFacts, NoneAssumption DEF Children
  <2> DEFINE top == IF S = {} THEN Leaf ELSE S
  <2>a. UpdateChild(top, w.path, Leaf) = S \cup {w.path}
    BY <1>5, <2>6, NodeFacts DEF UpdateChild
  <2>b. top # None /\ LayerTree(s) = [top |-> top, keys |-> {}]
    BY <2>4, <2>6
  <2> HIDE DEF top
  <2>7. AddWrite(LayerTree(s), w.path) = [top |-> S \cup {w.path}, keys |-> {}]
    BY <1>2, <1>5, <2>a, <2>b, AddWriteIs, LayerTreeTyped
  <2> QED BY <2>3, <2>7
<1> QED BY <1>2, <1>3, <1>4, <1>5, LayersOf DEF t

\* Taking the first write out leaves the others.
LEMMA FirstTakenOut ==
    ASSUME NEW s \in Seq(Write), s # <<>>
    PROVE  /\ RemoveAt(s, 1) = Tail(s)
           /\ Tail(s) \in Seq(Write) /\ Len(Tail(s)) = Len(s) - 1
           /\ Len(s) \in Nat \ {0}
           /\ \A j \in 1 .. Len(s) - 1 : Tail(s)[j] = s[j + 1]
<1> DEFINE t == Tail(s)
           r == RemoveAt(s, 1)
<1>1. /\ Len(s) \in Nat \ {0} /\ 1 \in 1 .. Len(s)
      /\ t \in Seq(Write) /\ Len(t) = Len(s) - 1
      /\ \A j \in 1 .. Len(s) - 1 : t[j] = s[j + 1]
  OBVIOUS
<1>2. /\ r \in Seq(Write) /\ Len(r) = Len(s) - 1
      /\ \A j \in 1 .. Len(s) - 1 : r[j] = s[IF j < 1 THEN j ELSE j + 1]
  BY <1>1, RemoveAtProperties
<1> HIDE DEF t, r
<1>3. ASSUME NEW j \in 1 .. Len(t) PROVE r[j] = t[j]
  <2>1. j \in 1 .. Len(s) - 1 /\ ~(j < 1)
    BY <1>1
  <2> QED BY <1>1, <1>2, <2>1
<1>4. r = t
  BY <1>1, <1>2, <1>3, SeqEqual
<1> QED BY <1>1, <1>4 DEF r, t

LEMMA TailLayers ==
    ASSUME NEW s \in Seq(Write), s # <<>>
    PROVE  /\ \A i \in 1 .. Len(s) : PathsAfter(Tail(s), i - 1) = PathsAfter(s, i)
           /\ NoTop(Tail(s)) => PathsAfter(s, 0) = PathsAfter(Tail(s), 0) \cup {s[1].path}
           /\ NoTop(s) => NoTop(Tail(s))
           /\ \A i \in 2 .. Len(s) : LastTop(s, i) => LastTop(Tail(s), i - 1)
           /\ LastTop(s, 1) => NoTop(Tail(s))
<1> DEFINE t == Tail(s)
<1>1. /\ t \in Seq(Write) /\ Len(t) = Len(s) - 1 /\ Len(s) \in Nat \ {0}
      /\ \A j \in 1 .. Len(s) - 1 : t[j] = s[j + 1]
  BY FirstTakenOut
<1>d. DOMAIN s = 1 .. Len(s) /\ DOMAIN t = 1 .. Len(s) - 1
  BY <1>1
<1> HIDE DEF t
<1>2. ASSUME NEW i \in 1 .. Len(s) PROVE PathsAfter(t, i - 1) = PathsAfter(s, i)
  <2>1. ASSUME NEW p \in PathsAfter(t, i - 1) PROVE p \in PathsAfter(s, i)
    <3>1. PICK j \in 1 .. Len(s) - 1 : j > i - 1 /\ p = t[j].path
      BY <1>d DEF PathsAfter
    <3>2. j + 1 \in 1 .. Len(s) /\ j + 1 > i /\ p = s[j + 1].path
      BY <1>1, <3>1
    <3> QED BY <1>d, <3>2 DEF PathsAfter
  <2>2. ASSUME NEW p \in PathsAfter(s, i) PROVE p \in PathsAfter(t, i - 1)
    <3>1. PICK j \in 1 .. Len(s) : j > i /\ p = s[j].path
      BY <1>d DEF PathsAfter
    <3>2. j - 1 \in 1 .. Len(s) - 1 /\ j - 1 > i - 1 /\ p = t[j - 1].path
      BY <1>1, <3>1
    <3> QED BY <1>d, <3>2 DEF PathsAfter
  <2> QED BY <2>1, <2>2
<1>3. PathsAfter(s, 0) = PathsAfter(t, 0) \cup {s[1].path}
  <2>1. PathsAfter(t, 0) = PathsAfter(s, 1)
    <3>1. 1 \in 1 .. Len(s) /\ 1 - 1 = 0
      BY <1>1
    <3> QED BY <1>2, <3>1
  <2>2. ASSUME NEW p \in PathsAfter(s, 0) PROVE p \in PathsAfter(s, 1) \cup {s[1].path}
    <3>1. PICK j \in 1 .. Len(s) : p = s[j].path
      BY <1>d DEF PathsAfter
    <3>2. j = 1 \/ j > 1
      OBVIOUS
    <3> QED BY <1>d, <3>1, <3>2 DEF PathsAfter
  <2>3. ASSUME NEW p \in PathsAfter(s, 1) \cup {s[1].path} PROVE p \in PathsAfter(s, 0)
    <3>1. 1 \in 1 .. Len(s)
      BY <1>1
    <3>2. \E j \in 1 .. Len(s) : p = s[j].path
      BY <1>d, <3>1 DEF PathsAfter
    <3> QED BY <1>d, <3>2 DEF PathsAfter
  <2> QED BY <2>1, <2>2, <2>3
<1>4. NoTop(s) => NoTop(t)
  BY <1>1 DEF NoTop
<1>5. ASSUME NEW i \in 2 .. Len(s), LastTop(s, i) PROVE LastTop(t, i - 1)
  <2>1. i - 1 \in 1 .. Len(s) - 1 /\ t[i - 1] = s[i]
    BY <1>1
  <2>2. ASSUME NEW j \in 1 .. Len(t), t[j].path = Top PROVE j <= i - 1
    <3>1. j + 1 \in 1 .. Len(s) /\ s[j + 1].path = Top
      BY <1>1, <2>2
    <3> QED BY <1>5, <3>1 DEF LastTop
  <2> QED BY <1>5, <2>1, <2>2 DEF LastTop
<1>6. ASSUME LastTop(s, 1) PROVE NoTop(t)
  <2> SUFFICES ASSUME NEW j \in 1 .. Len(t), t[j].path = Top PROVE FALSE
    BY DEF NoTop
  <2>1. j + 1 \in 1 .. Len(s) /\ s[j + 1].path = Top
    BY <1>1
  <2> QED BY <1>6, <2>1 DEF LastTop
<1> QED BY <1>2, <1>3, <1>4, <1>5, <1>6 DEF t

\* The heart of FWriteTree.removeWriteId: when the oldest write is settled, the
\* tree that is left alone, cut at one path or built again is in each case what
\* layering the remaining writes gives.
THEOREM OldestWriteLeaves ==
    ASSUME NEW s \in Seq(Write), s # <<>>
    PROVE  VisibleWithout(LayerTree(s), s, 1) = LayerTree(Tail(s))
<1> DEFINE t == Tail(s)
           p == s[1].path
<1>1. /\ t \in Seq(Write) /\ Len(t) = Len(s) - 1 /\ Len(s) \in Nat \ {0}
      /\ \A j \in 1 .. Len(s) - 1 : t[j] = s[j + 1]
      /\ RemoveAt(s, 1) = t
  BY FirstTakenOut
<1>d. DOMAIN s = 1 .. Len(s)
  BY <1>1
<1>p. p \in Paths
  <2>1. s[1] \in Write
    BY <1>1, ElementOfSeq
  <2> QED BY <2>1 DEF Write
<1>t. /\ \A i \in 1 .. Len(s) : PathsAfter(t, i - 1) = PathsAfter(s, i)
      /\ NoTop(t) => PathsAfter(s, 0) = PathsAfter(t, 0) \cup {p}
      /\ NoTop(s) => NoTop(t)
      /\ \A i \in 2 .. Len(s) : LastTop(s, i) => LastTop(t, i - 1)
      /\ LastTop(s, 1) => NoTop(t)
  BY TailLayers
<1>v. /\ LayerTree(s) \in CompoundWrite
      /\ NoTop(s) => LayerTree(s) = [top |-> None, keys |-> PathsAfter(s, 0)]
      /\ NoTop(t) => LayerTree(t) = [top |-> None, keys |-> PathsAfter(t, 0)]
      /\ NoTop(s) \/ \E i \in 1 .. Len(s) : LastTop(s, i)
  BY <1>1, LayersOf, LayerTreeTyped
<1> HIDE DEF t, p
<1>2. CASE Overlaps(s, 1) /\ ~Shadowed(s, 1)
  BY <1>1, <1>2 DEF VisibleWithout, t
\* A later write of the whole list hides the first one.
<1>3. ASSUME NEW i \in 2 .. Len(s), LastTop(s, i)
      PROVE  LayerTree(s) = LayerTree(t) /\ Shadowed(s, 1)
  <2>1. i \in 1 .. Len(s) /\ i - 1 \in 1 .. Len(t)
    BY <1>1
  <2>2. LayerTree(s) = LayerTree(t)
    <3> DEFINE layered == [top  |-> IF PathsAfter(s, i) = {} THEN Leaf
                                    ELSE PathsAfter(s, i),
                           keys |-> {}]
    <3>1. LayerTree(s) = layered
      BY <1>3, <2>1, LayersOf
    <3>2. LastTop(t, i - 1) /\ PathsAfter(t, i - 1) = PathsAfter(s, i)
      BY <1>3, <1>t, <2>1
    <3>3. LayerTree(t) = layered
      <4>1. LayerTree(t) = [top  |-> IF PathsAfter(t, i - 1) = {} THEN Leaf
                                     ELSE PathsAfter(t, i - 1),
                            keys |-> {}]
        BY <1>1, <2>1, <3>2, LayersOf
      <4> QED BY <3>2, <4>1
    <3> HIDE DEF layered
    <3> QED BY <3>1, <3>3
  <2>3. Shadowed(s, 1)
    BY <1>3, <1>d, <2>1 DEF Shadowed, Covers, LastTop
  <2> QED BY <2>2, <2>3
<1>4. CASE Shadowed(s, 1)
  <2>1. VisibleWithout(LayerTree(s), s, 1) = LayerTree(s)
    BY <1>4 DEF VisibleWithout
  <2>2. PICK j \in 2 .. Len(s) : s[j].path = Top \/ s[j].path = p
    BY <1>4, <1>d DEF Shadowed, Covers, p
  <2>3. CASE NoTop(s)
    <3>1. s[j].path = p /\ j - 1 \in 1 .. Len(t) /\ t[j - 1] = s[j]
      BY <1>1, <2>2, <2>3 DEF NoTop
    <3>2. p \in PathsAfter(t, 0)
      BY <1>1, <3>1 DEF PathsAfter
    <3> QED BY <1>t, <1>v, <2>1, <2>3, <3>2 DEF t
  <2>4. CASE LastTop(s, 1)
    <3>1. p = Top /\ s[j].path # Top
      BY <2>4 DEF LastTop, p
    <3> QED BY <2>2, <3>1
  <2>5. ASSUME NEW i \in 1 .. Len(s), LastTop(s, i), i # 1
        PROVE  VisibleWithout(LayerTree(s), s, 1) = LayerTree(t)
    <3>1. i \in 2 .. Len(s)
      BY <2>5
    <3> QED BY <1>3, <2>1, <2>5, <3>1
  <2> QED BY <1>v, <2>3, <2>4, <2>5 DEF t
<1>5. CASE ~Shadowed(s, 1) /\ ~Overlaps(s, 1)
  <2>1. VisibleWithout(LayerTree(s), s, 1) = RemoveWriteAtPath(LayerTree(s), p)
    BY <1>5 DEF VisibleWithout, p
  <2>2. NoTop(t)
    <3> SUFFICES ASSUME NEW j \in 1 .. Len(t), t[j].path = Top PROVE FALSE
      BY DEF NoTop
    <3>1. j + 1 \in DOMAIN s /\ j + 1 > 1 /\ s[j + 1].path = Top
      BY <1>1, <1>d
    <3> QED BY <1>5, <3>1 DEF Shadowed, Covers
  <2>3. CASE p = Top
    <3>1. Len(t) = 0
      <4> SUFFICES ASSUME Len(t) # 0 PROVE FALSE
        OBVIOUS
      <4>1. 2 \in DOMAIN s /\ Covers(s[1].path, s[2].path)
        BY <1>1, <1>d, <2>3 DEF Covers, p
      <4> QED BY <1>5, <4>1 DEF Overlaps
    <3>2. PathsAfter(t, 0) = {}
      BY <1>1, <3>1 DEF PathsAfter
    <3> QED
      BY <1>v, <2>1, <2>2, <2>3, <3>2 DEF RemoveWriteAtPath, EmptyWrite, t
  <2>4. CASE p # Top
    <3>1. NoTop(s)
      <4> SUFFICES ASSUME NEW j \in 1 .. Len(s), s[j].path = Top PROVE FALSE
        BY DEF NoTop
      <4>1. j # 1
        BY <2>4 DEF p
      <4>2. j - 1 \in 1 .. Len(t) /\ t[j - 1] = s[j]
        BY <1>1, <4>1
      <4> QED BY <2>2, <4>2 DEF NoTop
    <3>2. p \notin PathsAfter(t, 0)
      <4> SUFFICES ASSUME p \in PathsAfter(t, 0) PROVE FALSE
        OBVIOUS
      <4>1. PICK j \in 1 .. Len(t) : t[j].path = p
        BY <1>1 DEF PathsAfter
      <4>2. j + 1 \in DOMAIN s /\ j + 1 > 1 /\ s[j + 1].path = s[1].path
        BY <1>1, <1>d, <4>1 DEF p
      <4> QED BY <1>5, <4>2 DEF Shadowed, Covers
    <3>3. PathsAfter(s, 0) \ {p} = PathsAfter(t, 0)
      BY <1>t, <2>2, <3>2
    <3> DEFINE v == LayerTree(s)
    <3>4. v = [top |-> None, keys |-> PathsAfter(s, 0)]
      BY <1>v, <3>1
    <3> HIDE DEF v
    <3>5. RemoveWriteAtPath(v, p) = [top |-> None, keys |-> PathsAfter(s, 0) \ {p}]
      <4>1. RemoveWriteAtPath(v, p) = [v EXCEPT !.keys = v.keys \ {p}]
        BY <2>4, Zenon DEF RemoveWriteAtPath
      <4> QED BY <3>4, <4>1
    <3>6. LayerTree(t) = [top |-> None, keys |-> PathsAfter(t, 0)]
      BY <1>v, <2>2
    <3> QED BY <2>1, <3>3, <3>5, <3>6 DEF t, v
  <2> QED BY <2>3, <2>4
<1> QED BY <1>2, <1>4, <1>5

-----------------------------------------------------------------------------
(* Types of the trees and of the snaps *)

LEMMA NodeTyped ==
    ASSUME NEW n \in Node, NEW p \in Paths, NEW v \in Node
    PROVE  UpdateChild(n, p, v) \in Node /\ Child(n, p) \in {Leaf, {}}
<1>1. Children(n) \in SUBSET Keys
  BY NodeFacts
<1>2. n # Leaf => n \in SUBSET Keys
  BY DEF Node
<1>3. CASE p = Top
  BY <1>3 DEF UpdateChild, Child
<1>4. CASE p # Top /\ v # {}
  BY <1>1, <1>4, NodeFacts DEF UpdateChild, Child, Paths
<1>5. CASE p # Top /\ v = {}
  BY <1>2, <1>5, NodeFacts DEF UpdateChild, Child
<1> QED BY <1>3, <1>4, <1>5

LEMMA ApplyTyped ==
    ASSUME NEW vis \in CompoundWrite, NEW n \in Node
    PROVE  ApplyToNode(vis, n) \in Node
<1>1. Children(n) \cup vis.keys \in SUBSET Keys /\ (vis.top # None => vis.top \in Node)
  BY NodeFacts DEF CompoundWrite
<1> QED BY <1>1, NodeFacts DEF ApplyToNode

LEMMA TreesTyped ==
    /\ EmptyWrite \in CompoundWrite
    /\ \A vis \in CompoundWrite, p \in Paths : AddWrite(vis, p) \in CompoundWrite
    /\ \A vis \in CompoundWrite, s \in Seq(Write) : \A i \in 1 .. Len(s) :
         VisibleWithout(vis, s, i) \in CompoundWrite
<1>1. EmptyWrite \in CompoundWrite
  BY DEF EmptyWrite, CompoundWrite
<1>2. ASSUME NEW vis \in CompoundWrite, NEW p \in Paths
      PROVE  AddWrite(vis, p) \in CompoundWrite
  <2>1. vis.top # None => UpdateChild(vis.top, p, Leaf) \in Node
    BY NodeFacts, NodeTyped DEF CompoundWrite
  <2>2. p # Top => vis.keys \cup {p} \in SUBSET Keys
    BY DEF CompoundWrite, Paths
  <2>3. vis.keys \in SUBSET Keys
    BY DEF CompoundWrite
  <2> QED BY <2>1, <2>2, <2>3, AddWriteIs, NodeFacts DEF CompoundWrite
<1>3. ASSUME NEW vis \in CompoundWrite, NEW s \in Seq(Write), NEW i \in 1 .. Len(s)
      PROVE  VisibleWithout(vis, s, i) \in CompoundWrite
  <2>1. LayerTree(RemoveAt(s, i)) \in CompoundWrite
    BY RemoveAtProperties, LayerTreeTyped
  <2>2. RemoveWriteAtPath(vis, s[i].path) \in CompoundWrite
    <3>1. vis = [top |-> vis.top, keys |-> vis.keys] /\ vis.keys \in SUBSET Keys
      BY DEF CompoundWrite
    <3>a. ASSUME NEW v PROVE [vis EXCEPT !.keys = v] = [top |-> vis.top, keys |-> v]
      BY <3>1 DEF CompoundWrite
    <3>2. [vis EXCEPT !.keys = vis.keys \ {s[i].path}]
            = [top |-> vis.top, keys |-> vis.keys \ {s[i].path}]
      BY <3>a
    <3>3. [vis EXCEPT !.keys = vis.keys \ {s[i].path}] \in CompoundWrite
      BY <3>1, <3>2 DEF CompoundWrite
    <3> QED BY <1>1, <3>3, Zenon DEF RemoveWriteAtPath
  <2> QED BY <2>1, <2>2 DEF VisibleWithout
<1> QED BY <1>1, <1>2, <1>3

\* A snap in which the node is another one.
LEMMA CacheWith ==
    ASSUME NEW evt \in Cache, NEW n
    PROVE  /\ [evt EXCEPT !.node = n] = [node |-> n, complete |-> evt.complete]
           /\ [evt EXCEPT !.complete = TRUE] = [node |-> evt.node, complete |-> TRUE]
           /\ evt.node \in Node /\ evt.complete \in BOOLEAN
           /\ evt = [node |-> evt.node, complete |-> evt.complete]
<1>1. /\ evt.node \in Node /\ evt.complete \in BOOLEAN
      /\ evt = [node |-> evt.node, complete |-> evt.complete]
  BY DEF Cache
<1>2. [evt EXCEPT !.node = n] = [node |-> n, complete |-> evt.complete]
  BY <1>1 DEF Cache
<1>a. ASSUME NEW v PROVE [evt EXCEPT !.complete = v] = [node |-> evt.node, complete |-> v]
  BY <1>1 DEF Cache
<1>3. [evt EXCEPT !.complete = TRUE] = [node |-> evt.node, complete |-> TRUE]
  BY <1>a, Zenon
<1> QED BY <1>1, <1>2, <1>3

\* The branches of FViewProcessor, each with the snap it returns.
LEMMA AfterServerIs ==
    ASSUME NEW srv \in Cache, NEW evt \in Cache, NEW vis \in CompoundWrite,
           NEW path \in Paths
    PROVE  /\ CompleteNode(vis, path) # None => EventAfterServer(srv, evt, vis, path) = evt
           /\ CompleteNode(vis, path) = None /\ path = Top =>
                EventAfterServer(srv, evt, vis, path)
                  = [node |-> ApplyToNode(vis, srv.node), complete |-> TRUE]
           /\ CompleteNode(vis, path) = None /\ path # Top =>
                EventAfterServer(srv, evt, vis, path)
                  = [node |-> UpdateChild(evt.node, path, Child(srv.node, path)),
                     complete |-> evt.complete]
<1>1. CASE CompleteNode(vis, path) = None /\ path # Top
  <2>1. EventAfterServer(srv, evt, vis, path)
          = [evt EXCEPT !.node = UpdateChild(evt.node, path, Child(srv.node, path))]
    BY <1>1, Zenon DEF EventAfterServer
  <2> QED BY <1>1, <2>1, CacheWith
<1>2. CASE CompleteNode(vis, path) # None \/ path = Top
  BY <1>2, Zenon DEF EventAfterServer
<1> QED BY <1>1, <1>2

LEMMA AfterAckIs ==
    ASSUME NEW srv \in Cache, NEW evt \in Cache, NEW vis \in CompoundWrite,
           NEW path \in Paths
    PROVE  /\ CompleteNode(vis, path) # None => EventAfterAck(srv, evt, vis, path) = evt
           /\ CompleteNode(vis, path) = None /\ CompleteForPath(srv, path) =>
                EventAfterAck(srv, evt, vis, path) = EventAfterServer(srv, evt, vis, path)
           /\ CompleteNode(vis, path) = None /\ ~CompleteForPath(srv, path) =>
                EventAfterAck(srv, evt, vis, path)
                  \in {evt, [node |-> Children(evt.node) \cup (Children(srv.node) \ vis.keys),
                             complete |-> evt.complete]}
<1> DEFINE merged == Children(srv.node) \ vis.keys
<1>1. CASE CompleteNode(vis, path) = None /\ ~CompleteForPath(srv, path)
  <2>1. EventAfterAck(srv, evt, vis, path)
          \in {evt, [evt EXCEPT !.node = Children(evt.node) \cup merged]}
    BY <1>1, Zenon DEF EventAfterAck
  <2> HIDE DEF merged
  <2>2. [evt EXCEPT !.node = Children(evt.node) \cup merged]
          = [node |-> Children(evt.node) \cup merged, complete |-> evt.complete]
    BY CacheWith
  <2> QED BY <1>1, <2>1, <2>2 DEF merged
<1>2. CASE CompleteNode(vis, path) # None \/ CompleteForPath(srv, path)
  BY <1>2, Zenon DEF EventAfterAck
<1> QED BY <1>1, <1>2

\* What FViewProcessor returns are snaps.
LEMMA SnapsTyped ==
    ASSUME NEW srv \in Cache, NEW evt \in Cache, NEW vis \in CompoundWrite,
           NEW path \in Paths, NEW value \in Node
    PROVE  /\ NewServerSnap \in Cache /\ NewEventSnap(vis) \in Cache
           /\ UserOverwrite(evt, path) \in Cache
           /\ ServerSnapAfter(srv, path, value) \in Cache
           /\ [srv EXCEPT !.complete = TRUE] \in Cache
           /\ EventAfterServer(srv, evt, vis, path) \in Cache
           /\ EventAfterAck(srv, evt, vis, path) \in Cache
           /\ EventAfterRevert(srv, evt, vis, path) \in Cache
<1>1. /\ srv.node \in Node /\ evt.node \in Node
      /\ srv.complete \in BOOLEAN /\ evt.complete \in BOOLEAN
      /\ vis.keys \in SUBSET Keys /\ (vis.top # None => vis.top \in Node)
  BY DEF Cache, CompoundWrite
<1>2. /\ UpdateChild(evt.node, path, Leaf) \in Node
      /\ UpdateChild(srv.node, path, value) \in Node
      /\ UpdateChild(evt.node, path, Child(srv.node, path)) \in Node
  <2>1. Child(srv.node, path) \in Node
    BY <1>1, NodeFacts, NodeTyped
  <2> QED BY <1>1, <2>1, NodeFacts, NodeTyped
<1>3. /\ ApplyToNode(vis, srv.node) \in Node
      /\ Children(srv.node) \cup vis.keys \in Node
      /\ Children(evt.node) \cup (Children(srv.node) \ vis.keys) \in Node
  <2>1. /\ Children(srv.node) \in SUBSET Keys /\ Children(evt.node) \in SUBSET Keys
    BY <1>1, NodeFacts
  <2>2. /\ Children(srv.node) \cup vis.keys \in SUBSET Keys
        /\ Children(evt.node) \cup (Children(srv.node) \ vis.keys) \in SUBSET Keys
    BY <1>1, <2>1
  <2> QED BY <1>1, <2>2, ApplyTyped, NodeFacts
<1>4. NewServerSnap \in Cache /\ NewEventSnap(vis) \in Cache
  BY <1>1, NodeFacts DEF NewServerSnap, NewEventSnap, Cache
<1>5. UserOverwrite(evt, path) \in Cache /\ ServerSnapAfter(srv, path, value) \in Cache
  <2>1. (evt.complete \/ path = Top) \in BOOLEAN /\ (srv.complete \/ path = Top) \in BOOLEAN
    OBVIOUS
  <2> QED BY <1>2, <2>1 DEF UserOverwrite, ServerSnapAfter, Cache
<1>6. [srv EXCEPT !.complete = TRUE] \in Cache
  BY <1>1, CacheWith DEF Cache
<1>7. EventAfterServer(srv, evt, vis, path) \in Cache
  <2>1. /\ [node |-> ApplyToNode(vis, srv.node), complete |-> TRUE] \in Cache
        /\ [node |-> UpdateChild(evt.node, path, Child(srv.node, path)),
            complete |-> evt.complete] \in Cache
    BY <1>1, <1>2, <1>3 DEF Cache
  <2>2. EventAfterServer(srv, evt, vis, path)
          \in {evt, [node |-> ApplyToNode(vis, srv.node), complete |-> TRUE],
               [node |-> UpdateChild(evt.node, path, Child(srv.node, path)),
                complete |-> evt.complete]}
    BY AfterServerIs, Zenon
  <2> QED BY <2>1, <2>2, Zenon
<1>8. EventAfterAck(srv, evt, vis, path) \in Cache
  <2>1. [node |-> Children(evt.node) \cup (Children(srv.node) \ vis.keys),
         complete |-> evt.complete] \in Cache
    BY <1>1, <1>3 DEF Cache
  <2>2. EventAfterAck(srv, evt, vis, path)
          \in {evt, EventAfterServer(srv, evt, vis, path),
               [node |-> Children(evt.node) \cup (Children(srv.node) \ vis.keys),
                complete |-> evt.complete]}
    <3>1. CASE CompleteNode(vis, path) # None
      <4>1. EventAfterAck(srv, evt, vis, path) = evt
        BY <3>1, AfterAckIs, Zenon
      <4> QED BY <4>1, Zenon
    <3>2. CASE CompleteNode(vis, path) = None /\ CompleteForPath(srv, path)
      <4>1. EventAfterAck(srv, evt, vis, path) = EventAfterServer(srv, evt, vis, path)
        BY <3>2, AfterAckIs, Zenon
      <4> QED BY <4>1, Zenon
    <3>3. CASE CompleteNode(vis, path) = None /\ ~CompleteForPath(srv, path)
      <4>1. EventAfterAck(srv, evt, vis, path)
              \in {evt, [node |-> Children(evt.node) \cup (Children(srv.node) \ vis.keys),
                         complete |-> evt.complete]}
        BY <3>3, AfterAckIs, Zenon
      <4> QED BY <4>1, Zenon
    <3> QED BY <3>1, <3>2, <3>3, Zenon
  <2> QED BY <1>7, <2>1, <2>2, Zenon
<1>9. EventAfterRevert(srv, evt, vis, path) \in Cache
  <2>1. (srv.complete \/ vis.top # None) \in BOOLEAN
    OBVIOUS
  <2>2. \A n \in Node : [node |-> n, complete |-> (srv.complete \/ vis.top # None)] \in Cache
    BY <2>1 DEF Cache
  <2> DEFINE full  == IF srv.complete THEN ApplyToNode(vis, srv.node)
                      ELSE Children(srv.node) \cup vis.keys
             child == UpdateChild(evt.node, path, Child(srv.node, path))
             node  == IF path = Top THEN full
                      ELSE IF child = {} /\ srv.complete /\ full = Leaf
                           THEN Leaf ELSE child
  <2>3. full \in Node /\ child \in Node
    BY <1>2, <1>3
  <2>4. EventAfterRevert(srv, evt, vis, path)
          = IF CompleteNode(vis, path) # None THEN evt
            ELSE [node |-> node, complete |-> (srv.complete \/ vis.top # None)]
    BY Zenon DEF EventAfterRevert
  <2> HIDE DEF full, child
  <2>5. node \in Node
    BY <2>3, NodeFacts
  <2> HIDE DEF node
  <2> QED BY <2>2, <2>4, <2>5
<1> QED BY <1>4, <1>5, <1>6, <1>7, <1>8, <1>9

-----------------------------------------------------------------------------
(* FViewProcessor's steps against computing the event snap again *)

\* The event snap that the server snap and the visible writes give.
Derived(srv, vis) ==
    [node |-> IF vis.top # None THEN vis.top
              ELSE IF srv.complete THEN ApplyToNode(vis, srv.node)
              ELSE Children(srv.node) \cup vis.keys,
     complete |-> srv.complete \/ vis.top # None]

\* Nodes as sets of children, and the leaf.
LEMMA ChildFacts ==
    ASSUME NEW n \in Node, NEW k \in Keys
    PROVE  /\ k # Top
           /\ UpdateChild(n, k, Leaf) = Children(n) \cup {k}
           /\ n # Leaf => UpdateChild(n, k, {}) = Children(n) \ {k} /\ Children(n) = n
           /\ UpdateChild(Leaf, k, {}) = Leaf /\ Children(Leaf) = {}
           /\ k \in Children(n) => Child(n, k) = Leaf
           /\ k \notin Children(n) => Child(n, k) = {}
           /\ Child(n, k) # None
BY TopAssumption, NodeFacts DEF UpdateChild, Children, Child

LEMMA DerivedParts ==
    ASSUME NEW srv, NEW vis
    PROVE  /\ vis.top # None => Derived(srv, vis) = [node |-> vis.top, complete |-> TRUE]
           /\ vis.top = None /\ srv.complete =>
                Derived(srv, vis) = [node |-> ApplyToNode(vis, srv.node), complete |-> TRUE]
           /\ vis.top = None /\ ~srv.complete =>
                Derived(srv, vis) = [node |-> Children(srv.node) \cup vis.keys,
                                     complete |-> FALSE]
BY DEF Derived

\* A write of this device is put over the event snap.
LEMMA OverwriteDerives ==
    ASSUME NEW srv \in Cache, NEW vis \in CompoundWrite, NEW path \in Paths
    PROVE  UserOverwrite(Derived(srv, vis), path) = Derived(srv, AddWrite(vis, path))
<1> DEFINE e == Derived(srv, vis)
<1>t. /\ srv.node \in Node /\ srv.complete \in BOOLEAN /\ vis.keys \in SUBSET Keys
      /\ (vis.top # None => vis.top \in Node) /\ Leaf # None
      /\ Children(srv.node) \in SUBSET Keys
  BY NodeFacts DEF Cache, CompoundWrite
<1>1. CASE path = Top
  <2>1. AddWrite(vis, path) = [top |-> Leaf, keys |-> {}]
    BY <1>1, AddWriteIs
  <2>2. UserOverwrite(e, path) = [node |-> Leaf, complete |-> TRUE]
    BY <1>1 DEF UserOverwrite, UpdateChild
  <2> DEFINE v == AddWrite(vis, path)
  <2>3. v.top = Leaf
    BY <2>1
  <2> HIDE DEF v
  <2>4. Derived(srv, v) = [node |-> Leaf, complete |-> TRUE]
    BY <1>t, <2>3, DerivedParts
  <2> QED BY <2>2, <2>4 DEF v
<1>2. CASE path # Top /\ vis.top # None
  <2>1. AddWrite(vis, path) = [top |-> UpdateChild(vis.top, path, Leaf), keys |-> vis.keys]
    BY <1>2, AddWriteIs
  <2>2. UpdateChild(vis.top, path, Leaf) # None
    BY <1>t, NodeTyped, NodeFacts, <1>2
  <2>3. e = [node |-> vis.top, complete |-> TRUE]
    BY <1>2, DerivedParts
  <2> HIDE DEF e
  <2>4. UserOverwrite(e, path)
          = [node |-> UpdateChild(vis.top, path, Leaf), complete |-> TRUE]
    BY <2>3 DEF UserOverwrite
  <2>5. Derived(srv, AddWrite(vis, path))
          = [node |-> UpdateChild(vis.top, path, Leaf), complete |-> TRUE]
    <3> DEFINE v == AddWrite(vis, path)
    <3>1. v.top = UpdateChild(vis.top, path, Leaf)
      BY <2>1
    <3> HIDE DEF v
    <3>2. Derived(srv, v) = [node |-> UpdateChild(vis.top, path, Leaf), complete |-> TRUE]
      BY <2>2, <3>1, DerivedParts
    <3> QED BY <3>2 DEF v
  <2> QED BY <2>4, <2>5 DEF e
<1>3. CASE path # Top /\ vis.top = None
  <2> DEFINE v == AddWrite(vis, path)
             C == Children(srv.node) \cup vis.keys
  <2>1. path \in Keys /\ v = [top |-> None, keys |-> vis.keys \cup {path}]
    BY <1>3, AddWriteIs DEF Paths
  <2>2. C \in SUBSET Keys /\ C \in Node /\ Children(C) = C
    BY <1>t, NodeFacts
  <2>3. /\ e.complete = srv.complete /\ e.node \in Node /\ Children(e.node) = C
    <3>1. CASE srv.complete
      <4>1. e = [node |-> ApplyToNode(vis, srv.node), complete |-> TRUE]
        BY <1>3, <3>1, DerivedParts
      <4>2. ApplyToNode(vis, srv.node) = IF vis.keys = {} THEN srv.node ELSE C
        BY <1>3 DEF ApplyToNode
      <4>3. vis.keys = {} => Children(srv.node) = C
        OBVIOUS
      <4> HIDE DEF e, C
      <4> QED BY <1>t, <2>2, <3>1, <4>1, <4>2, <4>3
    <3>2. CASE ~srv.complete
      <4>1. e = [node |-> C, complete |-> FALSE]
        BY <1>3, <3>2, DerivedParts
      <4> HIDE DEF e, C
      <4> QED BY <1>t, <2>2, <3>2, <4>1
    <3> QED BY <1>t, <3>1, <3>2
  <2>4. UserOverwrite(e, path) = [node |-> C \cup {path}, complete |-> srv.complete]
    <3>1. UpdateChild(e.node, path, Leaf) = C \cup {path}
      BY <2>1, <2>3, ChildFacts
    <3>2. (e.complete \/ path = Top) = srv.complete
      BY <1>3, <1>t, <2>3
    <3> HIDE DEF e
    <3> QED BY <3>1, <3>2 DEF UserOverwrite
  <2>5. Derived(srv, v) = [node |-> C \cup {path}, complete |-> srv.complete]
    <3>1. v.top = None /\ v.keys = vis.keys \cup {path} /\ v.keys # {}
      BY <2>1
    <3>2. Children(srv.node) \cup v.keys = C \cup {path}
      BY <3>1
    <3>3. ApplyToNode(v, srv.node) = C \cup {path}
      BY <3>1, <3>2 DEF ApplyToNode
    <3> HIDE DEF v, C
    <3>4. CASE srv.complete
      BY <3>1, <3>3, <3>4, DerivedParts
    <3>5. CASE ~srv.complete
      <4>1. Derived(srv, v) = [node |-> C \cup {path}, complete |-> FALSE]
        BY <3>1, <3>2, <3>5, DerivedParts
      <4>2. srv.complete = FALSE
        BY <1>t, <3>5
      <4> QED BY <4>1, <4>2
    <3> QED BY <3>4, <3>5
  <2> QED BY <2>4, <2>5
<1> QED BY <1>1, <1>2, <1>3

\* Without a write of the whole list the snap has the children of the server
\* snap and of the writes, or is the server's leaf.
LEMMA DerivedPlain ==
    ASSUME NEW srv \in Cache, NEW vis \in CompoundWrite, vis.top = None
    PROVE  Derived(srv, vis)
             = [node |-> IF srv.complete /\ vis.keys = {} /\ srv.node = Leaf THEN Leaf
                         ELSE Children(srv.node) \cup vis.keys,
                complete |-> srv.complete]
<1>t. /\ srv.node \in Node /\ srv.complete \in BOOLEAN /\ vis.keys \in SUBSET Keys
      /\ srv.node # Leaf => Children(srv.node) = srv.node
  BY DEF Cache, CompoundWrite, Children
<1>1. CASE srv.complete
  <2>1. Derived(srv, vis) = [node |-> ApplyToNode(vis, srv.node), complete |-> TRUE]
    BY <1>1, DerivedParts
  <2>2. ApplyToNode(vis, srv.node)
          = IF vis.keys = {} THEN srv.node ELSE Children(srv.node) \cup vis.keys
    BY DEF ApplyToNode
  <2>3. srv.complete = TRUE
    BY <1>1, <1>t
  <2>4. vis.keys = {} => Children(srv.node) \cup vis.keys = Children(srv.node)
    OBVIOUS
  <2> QED BY <1>t, <2>1, <2>2, <2>3, <2>4
<1>2. CASE ~srv.complete
  <2>1. Derived(srv, vis) = [node |-> Children(srv.node) \cup vis.keys, complete |-> FALSE]
    BY <1>2, DerivedParts
  <2>2. srv.complete = FALSE
    BY <1>2, <1>t
  <2> QED BY <2>1, <2>2
<1> QED BY <1>1, <1>2

\* A change the server tells of is taken over where no write is.
THEOREM ServerDerives ==
    ASSUME NEW srv \in Cache, NEW vis \in CompoundWrite, NEW path \in Paths,
           NEW value \in Node
    PROVE  LET n == ServerSnapAfter(srv, path, value)
           IN  EventAfterServer(n, Derived(srv, vis), vis, path) = Derived(n, vis)
<1> DEFINE n == ServerSnapAfter(srv, path, value)
           e == Derived(srv, vis)
           S == Children(srv.node)
<1>t. /\ srv.node \in Node /\ srv.complete \in BOOLEAN /\ vis.keys \in SUBSET Keys
      /\ (vis.top # None => vis.top \in Node) /\ S \in SUBSET Keys
      /\ e \in Cache /\ n \in Cache
  <2>1. (vis.top # None => vis.top \in Node) /\ vis.keys \in SUBSET Keys
    BY DEF CompoundWrite
  <2>2. srv.node \in Node /\ srv.complete \in BOOLEAN /\ S \in SUBSET Keys
    BY NodeFacts DEF Cache
  <2>3. n \in Cache
    BY SnapsTyped
  <2>4. e \in Cache
    <3>1. S \cup vis.keys \in Node
      BY <2>1, <2>2, NodeFacts
    <3>2. CASE vis.top # None
      <4>1. e = [node |-> vis.top, complete |-> TRUE]
        BY <3>2, DerivedParts
      <4> QED BY <2>1, <3>2, <4>1 DEF Cache
    <3>3. CASE vis.top = None
      <4>1. e = [node |-> IF srv.complete /\ vis.keys = {} /\ srv.node = Leaf THEN Leaf
                          ELSE S \cup vis.keys,
                 complete |-> srv.complete]
        BY <3>3, DerivedPlain
      <4> QED BY <2>2, <3>1, <4>1, NodeFacts DEF Cache
    <3> QED BY <3>2, <3>3
  <2> QED BY <2>1, <2>2, <2>3, <2>4
<1>1. CASE vis.top # None
  <2>1. CompleteNode(vis, path) # None
    <3>1. path # Top => Child(vis.top, path) # None
      BY <1>1, <1>t, ChildFacts DEF Paths
    <3> QED BY <1>1, <3>1 DEF CompleteNode
  <2>2. EventAfterServer(n, e, vis, path) = e
    BY <1>t, <2>1, AfterServerIs
  <2> QED BY <1>1, <2>2, DerivedParts
<1>2. CASE vis.top = None /\ path = Top
  <2>1. CompleteNode(vis, path) = None
    BY <1>2 DEF CompleteNode
  <2>2. n.complete
    BY <1>2 DEF ServerSnapAfter
  <2> HIDE DEF n, e
  <2>3. EventAfterServer(n, e, vis, path)
          = [node |-> ApplyToNode(vis, n.node), complete |-> TRUE]
    BY <1>2, <1>t, <2>1, AfterServerIs
  <2>4. Derived(n, vis) = [node |-> ApplyToNode(vis, n.node), complete |-> TRUE]
    BY <1>2, <2>2, DerivedParts
  <2> QED BY <2>3, <2>4 DEF n, e
<1>3. CASE vis.top = None /\ path # Top
  <2>k. path \in Keys /\ path # Top
    BY <1>3 DEF Paths
  <2>1. e = [node |-> IF srv.complete /\ vis.keys = {} /\ srv.node = Leaf THEN Leaf
                      ELSE S \cup vis.keys,
             complete |-> srv.complete]
    BY <1>3, DerivedPlain
  <2>2. /\ n.complete = srv.complete
        /\ value # {} => n.node = S \cup {path}
        /\ value = {} => n.node = IF srv.node = Leaf THEN Leaf ELSE S \ {path}
    <3>1. n.complete = srv.complete
      BY <1>t, <2>k DEF ServerSnapAfter
    <3>2. n.node = UpdateChild(srv.node, path, value)
      BY DEF ServerSnapAfter
    <3>3. value # {} => UpdateChild(srv.node, path, value) = S \cup {path}
      BY <2>k DEF UpdateChild
    <3>4. value = {} => UpdateChild(srv.node, path, value)
                          = IF srv.node = Leaf THEN Leaf ELSE S \ {path}
      BY <2>k DEF UpdateChild, Children
    <3> QED BY <3>1, <3>2, <3>3, <3>4
  <2>3. Derived(n, vis)
          = [node |-> IF n.complete /\ vis.keys = {} /\ n.node = Leaf THEN Leaf
                      ELSE Children(n.node) \cup vis.keys,
             complete |-> n.complete]
    BY <1>3, <1>t, DerivedPlain
  <2>l. srv.node = Leaf => S = {}
    BY DEF Children
  <2>m. \A T \in SUBSET Keys : T # Leaf /\ Children(T) = T
    BY NodeFacts
  <2>n. Children(Leaf) = {}
    BY DEF Children
  <2> HIDE DEF n, S
  <2>4. CASE path \in vis.keys
    <3>1. CompleteNode(vis, path) # None
      BY <1>3, <2>4, NodeFacts DEF CompleteNode
    <3>2. EventAfterServer(n, e, vis, path) = e
      BY <1>t, <3>1, AfterServerIs
    <3>3. Children(n.node) \cup vis.keys = S \cup vis.keys
      <4>1. CASE value # {}
        <5>1. S \cup {path} \in SUBSET Keys
          BY <1>t, <2>k
        <5> QED BY <2>2, <2>4, <2>m, <4>1, <5>1
      <4>2. CASE value = {} /\ srv.node = Leaf
        BY <2>2, <2>l, <2>n, <4>2
      <4>3. CASE value = {} /\ srv.node # Leaf
        <5>1. S \ {path} \in SUBSET Keys
          BY <1>t
        <5> QED BY <2>2, <2>4, <2>m, <4>3, <5>1
      <4> QED BY <4>1, <4>2, <4>3
    <3>4. vis.keys # {}
      BY <2>4
    <3> HIDE DEF e
    <3>5. e = [node |-> S \cup vis.keys, complete |-> srv.complete]
      BY <2>1, <3>4
    <3>6. Derived(n, vis) = [node |-> S \cup vis.keys, complete |-> srv.complete]
      BY <2>2, <2>3, <3>3, <3>4
    <3> QED BY <3>2, <3>5, <3>6 DEF n, e
  <2>5. CASE path \notin vis.keys
    <3>1. CompleteNode(vis, path) = None
      BY <1>3, <2>5 DEF CompleteNode
    <3>2. EventAfterServer(n, e, vis, path)
            = [node |-> UpdateChild(e.node, path, Child(n.node, path)),
               complete |-> e.complete]
      BY <1>3, <1>t, <3>1, AfterServerIs
    <3> HIDE DEF e
    <3>3. /\ e.complete = srv.complete /\ e.node \in Node
          /\ Children(e.node) = S \cup vis.keys
      <4>1. e.complete = srv.complete /\ e.node \in Node
        BY <1>t, <2>1 DEF Cache
      <4>2. S \cup vis.keys \in SUBSET Keys
        BY <1>t
      <4>3. CASE srv.complete /\ vis.keys = {} /\ srv.node = Leaf
        BY <2>1, <2>l, <2>n, <4>1, <4>3
      <4>4. CASE ~(srv.complete /\ vis.keys = {} /\ srv.node = Leaf)
        BY <2>1, <2>m, <4>1, <4>2, <4>4
      <4> QED BY <4>1, <4>3, <4>4
    <3>4. CASE value # {}
      <4>1. n.node = S \cup {path} /\ n.node \in SUBSET Keys
        BY <1>t, <2>2, <2>k, <3>4
      <4>2. Children(n.node) = S \cup {path} /\ n.node # Leaf
        BY <2>m, <4>1
      <4>3. Child(n.node, path) = Leaf
        BY <2>k, <4>2 DEF Child
      <4>4. UpdateChild(e.node, path, Leaf) = S \cup vis.keys \cup {path}
        BY <2>k, <3>3, ChildFacts
      <4>5. Derived(n, vis) = [node |-> S \cup {path} \cup vis.keys,
                               complete |-> srv.complete]
        BY <2>2, <2>3, <4>2
      <4>6. EventAfterServer(n, e, vis, path)
              = [node |-> S \cup vis.keys \cup {path}, complete |-> srv.complete]
        BY <3>2, <3>3, <4>3, <4>4
      <4>7. S \cup vis.keys \cup {path} = S \cup {path} \cup vis.keys
        OBVIOUS
      <4> QED BY <4>5, <4>6, <4>7 DEF n, e
    <3>5. CASE value = {}
      <4>1. /\ Children(n.node) = S \ {path} /\ (n.node = Leaf <=> srv.node = Leaf)
        <5>1. S \ {path} \in SUBSET Keys
          BY <1>t
        <5> QED BY <2>2, <2>l, <2>m, <2>n, <3>5, <5>1
      <4>2. Child(n.node, path) = {}
        BY <2>k, <4>1 DEF Child
      <4>3. CASE srv.complete /\ vis.keys = {} /\ srv.node = Leaf
        <5>1. e.node = Leaf
          BY <2>1, <4>3
        <5>2. UpdateChild(e.node, path, {}) = Leaf
          BY <2>k, <5>1, NodeFacts, ChildFacts
        <5>3. EventAfterServer(n, e, vis, path) = [node |-> Leaf, complete |-> srv.complete]
          BY <3>2, <3>3, <4>2, <5>2
        <5>4. Derived(n, vis) = [node |-> Leaf, complete |-> srv.complete]
          BY <2>2, <2>3, <4>1, <4>3
        <5> QED BY <5>3, <5>4 DEF n, e
      <4>4. CASE ~(srv.complete /\ vis.keys = {} /\ srv.node = Leaf)
        <5>1. e.node = S \cup vis.keys /\ e.node # Leaf
          <6>1. S \cup vis.keys \in SUBSET Keys
            BY <1>t
          <6>2. e.node = S \cup vis.keys
            BY <2>1, <4>4
          <6> QED BY <2>m, <6>1, <6>2
        <5>2. UpdateChild(e.node, path, {}) = (S \cup vis.keys) \ {path}
          BY <2>k, <3>3, <5>1, ChildFacts
        <5>3. EventAfterServer(n, e, vis, path)
                = [node |-> (S \cup vis.keys) \ {path}, complete |-> srv.complete]
          BY <3>2, <3>3, <4>2, <5>2
        <5>4. Derived(n, vis) = [node |-> (S \ {path}) \cup vis.keys,
                                 complete |-> srv.complete]
          BY <2>2, <2>3, <4>1, <4>4
        <5>5. (S \cup vis.keys) \ {path} = (S \ {path}) \cup vis.keys
          BY <2>5
        <5> QED BY <5>3, <5>4, <5>5 DEF n, e
      <4> QED BY <4>3, <4>4
    <3> QED BY <3>4, <3>5
  <2> QED BY <2>4, <2>5
<1> QED BY <1>1, <1>2, <1>3

LEMMA DerivedTyped ==
    ASSUME NEW srv \in Cache, NEW vis \in CompoundWrite
    PROVE  Derived(srv, vis) \in Cache
<1>1. /\ (vis.top # None => vis.top \in Node) /\ vis.keys \in SUBSET Keys
      /\ srv.node \in Node /\ srv.complete \in BOOLEAN
      /\ Children(srv.node) \in SUBSET Keys
  BY NodeFacts DEF CompoundWrite, Cache
<1>2. Children(srv.node) \cup vis.keys \in Node /\ Leaf \in Node
  BY <1>1, NodeFacts
<1>3. CASE vis.top # None
  <2>1. Derived(srv, vis) = [node |-> vis.top, complete |-> TRUE]
    BY <1>3, DerivedParts
  <2> QED BY <1>1, <1>3, <2>1 DEF Cache
<1>4. CASE vis.top = None
  <2>1. Derived(srv, vis)
          = [node |-> IF srv.complete /\ vis.keys = {} /\ srv.node = Leaf THEN Leaf
                      ELSE Children(srv.node) \cup vis.keys,
             complete |-> srv.complete]
    BY <1>4, DerivedPlain
  <2> QED BY <1>1, <1>2, <2>1 DEF Cache
<1> QED BY <1>3, <1>4

\* The answer to the listen makes the server snap complete.
LEMMA ListenDerives ==
    ASSUME NEW srv \in Cache, NEW vis \in CompoundWrite
    PROVE  LET n == [srv EXCEPT !.complete = TRUE]
           IN  EventAfterServer(n, Derived(srv, vis), vis, Top) = Derived(n, vis)
<1> DEFINE n == [srv EXCEPT !.complete = TRUE]
           e == Derived(srv, vis)
<1>1. e \in Cache /\ n \in Cache /\ Top \in Paths
  BY DerivedTyped, SnapsTyped, NodeFacts DEF Paths
<1>2. n.complete /\ n.node = srv.node
  <2>1. n = [node |-> srv.node, complete |-> TRUE]
    BY CacheWith
  <2> HIDE DEF n
  <2> QED BY <2>1
<1>3. CASE vis.top # None
  <2>1. CompleteNode(vis, Top) # None
    BY <1>3 DEF CompleteNode
  <2>2. EventAfterServer(n, e, vis, Top) = e
    BY <1>1, <2>1, AfterServerIs
  <2>3. e = [node |-> vis.top, complete |-> TRUE]
    BY <1>3, DerivedParts
  <2>4. Derived(n, vis) = [node |-> vis.top, complete |-> TRUE]
    BY <1>3, DerivedParts
  <2> QED BY <2>2, <2>3, <2>4
<1>4. CASE vis.top = None
  <2>1. CompleteNode(vis, Top) = None
    BY <1>4 DEF CompleteNode
  <2> HIDE DEF n, e
  <2>2. EventAfterServer(n, e, vis, Top)
          = [node |-> ApplyToNode(vis, n.node), complete |-> TRUE]
    BY <1>1, <2>1, AfterServerIs
  <2>3. Derived(n, vis) = [node |-> ApplyToNode(vis, n.node), complete |-> TRUE]
    BY <1>2, <1>4, DerivedParts
  <2> QED BY <2>2, <2>3 DEF n, e
<1> QED BY <1>3, <1>4

\* A view that is new has only the writes.
LEMMA NewDerives ==
    ASSUME NEW vis \in CompoundWrite
    PROVE  NewEventSnap(vis) = Derived(NewServerSnap, vis)
<1>1. CASE vis.top # None
  <2>1. Derived(NewServerSnap, vis) = [node |-> vis.top, complete |-> TRUE]
    BY <1>1, DerivedParts
  <2> QED BY <1>1, <2>1 DEF NewEventSnap
<1>2. CASE vis.top = None
  <2>1. NewServerSnap.complete = FALSE /\ NewServerSnap.node = {}
    BY DEF NewServerSnap
  <2>2. Derived(NewServerSnap, vis)
          = [node |-> Children(NewServerSnap.node) \cup vis.keys, complete |-> FALSE]
    BY <1>2, <2>1, DerivedParts
  <2>3. Children(NewServerSnap.node) \cup vis.keys = vis.keys
    BY <2>1, NodeFacts
  <2> QED BY <1>2, <2>2, <2>3 DEF NewEventSnap
<1> QED BY <1>1, <1>2

\* What the oldest write is to the tree, when no later one covers it.
Uncovers(vis, rest, path) ==
    /\ rest.top = None
    /\ path # Top => path \notin rest.keys /\ vis = [top |-> None, keys |-> rest.keys \cup {path}]

\* The server's snap, complete, is applied where the accepted write was; only
\* for a leaf of which nothing else is left the child is taken out instead.
THEOREM AckDerives ==
    ASSUME NEW srv \in Cache, srv.complete,
           NEW vis \in CompoundWrite, NEW rest \in CompoundWrite, NEW path \in Paths,
           Uncovers(vis, rest, path),
           path = Top \/ srv.node # Leaf \/ rest.keys # {}
    PROVE  EventAfterAck(srv, Derived(srv, vis), rest, path) = Derived(srv, rest)
<1> DEFINE e == Derived(srv, vis)
           S == Children(srv.node)
<1>t. /\ srv.node \in Node /\ srv.complete = TRUE /\ S \in SUBSET Keys
      /\ rest.keys \in SUBSET Keys /\ rest.top = None /\ e \in Cache
  BY NodeFacts, DerivedTyped DEF Cache, CompoundWrite, Uncovers
<1>1. CompleteNode(rest, path) = None
  BY DEF CompleteNode, Uncovers
<1>2. EventAfterAck(srv, e, rest, path) = EventAfterServer(srv, e, rest, path)
  <2>1. CompleteForPath(srv, path)
    BY DEF CompleteForPath
  <2> HIDE DEF e
  <2> QED BY <1>1, <1>t, <2>1, AfterAckIs
<1>3. CASE path = Top
  <2> HIDE DEF e
  <2>1. EventAfterServer(srv, e, rest, path)
          = [node |-> ApplyToNode(rest, srv.node), complete |-> TRUE]
    BY <1>1, <1>3, <1>t, AfterServerIs
  <2>2. Derived(srv, rest) = [node |-> ApplyToNode(rest, srv.node), complete |-> TRUE]
    BY <1>t, DerivedParts
  <2> QED BY <1>2, <2>1, <2>2 DEF e
<1>4. CASE path # Top
  <2> DEFINE c == Child(srv.node, path)
             E == S \cup rest.keys \cup {path}
  <2>k. path \in Keys /\ path \notin rest.keys
    BY <1>4 DEF Paths, Uncovers
  <2>1. vis.top = None /\ vis.keys = rest.keys \cup {path} /\ vis.keys # {}
    BY <1>4 DEF Uncovers
  <2>2. e = [node |-> E, complete |-> TRUE]
    <3>1. e = [node |-> S \cup vis.keys, complete |-> srv.complete]
      BY <2>1, DerivedPlain
    <3>2. S \cup vis.keys = E
      BY <2>1
    <3> QED BY <1>t, <3>1, <3>2
  <2>3. Derived(srv, rest) = [node |-> S \cup rest.keys, complete |-> TRUE]
    <3>1. Derived(srv, rest)
            = [node |-> IF srv.complete /\ rest.keys = {} /\ srv.node = Leaf THEN Leaf
                        ELSE S \cup rest.keys,
               complete |-> srv.complete]
      BY <1>t, DerivedPlain
    <3> QED BY <1>4, <1>t, <3>1
  <2> HIDE DEF e
  <2>4. EventAfterServer(srv, e, rest, path)
          = [node |-> UpdateChild(e.node, path, c), complete |-> e.complete]
    BY <1>1, <1>4, <1>t, AfterServerIs
  <2>5. E \in SUBSET Keys
    BY <1>t, <2>k
  <2>6. E \in Node /\ E # Leaf /\ Children(E) = E
    BY <2>5, NodeFacts
  <2>7. UpdateChild(E, path, c) = S \cup rest.keys
    <3>1. CASE path \in S
      <4>1. c = Leaf /\ UpdateChild(E, path, Leaf) = E \cup {path}
        BY <1>t, <2>6, <2>k, <3>1, ChildFacts
      <4> QED BY <3>1, <4>1
    <3>2. CASE path \notin S
      <4>1. c = {} /\ UpdateChild(E, path, {}) = E \ {path}
        BY <1>t, <2>6, <2>k, <3>2, ChildFacts
      <4> QED BY <2>k, <3>2, <4>1
    <3> QED BY <3>1, <3>2
  <2>8. e.node = E /\ e.complete = TRUE
    <3> HIDE DEF E
    <3> QED BY <2>2
  <2>9. EventAfterServer(srv, e, rest, path)
          = [node |-> S \cup rest.keys, complete |-> TRUE]
    <3> HIDE DEF E, c, S
    <3> QED BY <2>4, <2>7, <2>8
  <2> QED BY <1>2, <2>3, <2>9 DEF e
<1> QED BY <1>3, <1>4

\* A refused write is taken out, and an old leaf comes back.
THEOREM RevertDerives ==
    ASSUME NEW srv \in Cache,
           NEW vis \in CompoundWrite, NEW rest \in CompoundWrite, NEW path \in Paths,
           Uncovers(vis, rest, path)
    PROVE  EventAfterRevert(srv, Derived(srv, vis), rest, path) = Derived(srv, rest)
<1> DEFINE e == Derived(srv, vis)
           S == Children(srv.node)
           plain == IF srv.complete /\ rest.keys = {} /\ srv.node = Leaf THEN Leaf
                    ELSE S \cup rest.keys
           full  == IF srv.complete THEN ApplyToNode(rest, srv.node)
                    ELSE Children(srv.node) \cup rest.keys
           child == UpdateChild(e.node, path, Child(srv.node, path))
           node  == IF path = Top THEN full
                    ELSE IF child = {} /\ srv.complete /\ full = Leaf
                         THEN Leaf ELSE child
<1>t. /\ srv.node \in Node /\ srv.complete \in BOOLEAN /\ S \in SUBSET Keys
      /\ rest.keys \in SUBSET Keys /\ rest.top = None
  BY NodeFacts DEF Cache, CompoundWrite, Uncovers
<1>1. Derived(srv, rest) = [node |-> plain, complete |-> srv.complete]
  BY <1>t, DerivedPlain
<1>2. full = plain
  <2>1. ApplyToNode(rest, srv.node) = IF rest.keys = {} THEN srv.node ELSE S \cup rest.keys
    BY <1>t DEF ApplyToNode
  <2>2. srv.node # Leaf => S = srv.node
    BY DEF Children
  <2>3. rest.keys = {} => S \cup rest.keys = S
    OBVIOUS
  <2> QED BY <2>1, <2>2, <2>3
<1>3. EventAfterRevert(srv, e, rest, path) = [node |-> node, complete |-> srv.complete]
  <2>1. CompleteNode(rest, path) = None
    BY DEF CompleteNode, Uncovers
  <2>2. EventAfterRevert(srv, e, rest, path)
          = IF CompleteNode(rest, path) # None THEN e
            ELSE [node |-> node, complete |-> (srv.complete \/ rest.top # None)]
    BY Zenon DEF EventAfterRevert
  <2>3. (srv.complete \/ rest.top # None) = srv.complete
    BY <1>t
  <2> HIDE DEF node, e
  <2> QED BY <2>1, <2>2, <2>3
<1>4. node = plain
  <2>1. CASE path = Top
    BY <1>2, <2>1
  <2>2. CASE path # Top
    <3> DEFINE E == S \cup rest.keys \cup {path}
               c == Child(srv.node, path)
    <3>k. path \in Keys /\ path \notin rest.keys
      BY <2>2 DEF Paths, Uncovers
    <3>1. vis.top = None /\ vis.keys = rest.keys \cup {path} /\ vis.keys # {}
      BY <2>2 DEF Uncovers
    <3>2. e.node = E
      <4>1. e = [node |-> S \cup vis.keys, complete |-> srv.complete]
        BY <3>1, DerivedPlain
      <4>2. S \cup vis.keys = E
        BY <3>1
      <4> HIDE DEF e
      <4> QED BY <4>1, <4>2
    <3>3. E \in SUBSET Keys
      BY <1>t, <3>k
    <3>4. E \in Node /\ E # Leaf /\ Children(E) = E
      BY <3>3, NodeFacts
    <3>5. UpdateChild(E, path, c) = S \cup rest.keys
      <4>1. CASE path \in S
        <5>1. c = Leaf /\ UpdateChild(E, path, Leaf) = E \cup {path}
          BY <1>t, <3>4, <3>k, <4>1, ChildFacts
        <5> QED BY <4>1, <5>1
      <4>2. CASE path \notin S
        <5>1. c = {} /\ UpdateChild(E, path, {}) = E \ {path}
          BY <1>t, <3>4, <3>k, <4>2, ChildFacts
        <5> QED BY <3>k, <4>2, <5>1
      <4> QED BY <4>1, <4>2
    <3>6. child = S \cup rest.keys
      BY <3>2, <3>5
    <3>7. S \cup rest.keys \in SUBSET Keys
      BY <1>t
    <3>8. S \cup rest.keys # Leaf /\ Leaf # {} /\ (srv.node = Leaf => S = {})
      BY <3>7, NodeFacts DEF Children
    <3> HIDE DEF child, full, e, E, S
    <3> QED BY <1>2, <2>2, <3>6, <3>8
  <2> QED BY <2>1, <2>2
<1> HIDE DEF node, plain
<1> QED BY <1>1, <1>3, <1>4

\* The oldest write is either covered by a later one, and the tree is the same
\* without it, or it is uncovered, and then the other ones are comments.
LEMMA FirstLeaves ==
    ASSUME NEW s \in Seq(Write), s # <<>>
    PROVE  /\ Shadowed(s, 1) => LayerTree(Tail(s)) = LayerTree(s)
           /\ ~Shadowed(s, 1) =>
                /\ Uncovers(LayerTree(s), LayerTree(Tail(s)), s[1].path)
                /\ Len(s) > 1 => LayerTree(Tail(s)).keys # {}
<1> DEFINE t == Tail(s)
           p == s[1].path
<1>1. /\ t \in Seq(Write) /\ Len(t) = Len(s) - 1 /\ Len(s) \in Nat \ {0}
      /\ \A j \in 1 .. Len(s) - 1 : t[j] = s[j + 1]
  BY FirstTakenOut
<1>d. DOMAIN s = 1 .. Len(s) /\ DOMAIN t = 1 .. Len(t)
  BY <1>1
<1>2. CASE Shadowed(s, 1)
  BY <1>2, OldestWriteLeaves DEF VisibleWithout
<1>3. CASE ~Shadowed(s, 1)
  <2> HIDE DEF t
  <2>1. ASSUME NEW j \in 1 .. Len(t) PROVE t[j].path # Top /\ t[j].path # p
    <3>1. j + 1 \in DOMAIN s /\ j + 1 > 1 /\ t[j] = s[j + 1]
      BY <1>1, <1>d
    <3> QED BY <1>3, <3>1 DEF Shadowed, Covers
  <2>2. NoTop(t)
    BY <2>1 DEF NoTop
  <2>3. LayerTree(t) = [top |-> None, keys |-> PathsAfter(t, 0)]
    BY <1>1, <2>2, LayersOf
  <2>4. p \notin PathsAfter(t, 0)
    BY <1>d, <2>1 DEF PathsAfter
  <2>5. ASSUME p # Top
        PROVE  LayerTree(s) = [top |-> None, keys |-> PathsAfter(t, 0) \cup {p}]
    <3>1. NoTop(s)
      <4> SUFFICES ASSUME NEW j \in 1 .. Len(s) PROVE s[j].path # Top
        BY DEF NoTop
      <4>1. CASE j = 1
        BY <2>5, <4>1
      <4>2. CASE j # 1
        <5>1. j - 1 \in 1 .. Len(t) /\ t[j - 1] = s[j]
          BY <1>1, <4>2
        <5> QED BY <2>1, <5>1
      <4> QED BY <4>1, <4>2
    <3>2. PathsAfter(s, 0) = PathsAfter(t, 0) \cup {p}
      BY <2>2, TailLayers DEF t
    <3> QED BY <3>1, <3>2, LayersOf
  <2>6. Len(s) > 1 => PathsAfter(t, 0) # {}
    <3>1. Len(s) > 1 => 1 \in DOMAIN t /\ t[1].path \in PathsAfter(t, 0)
      BY <1>1, <1>d DEF PathsAfter
    <3> QED BY <3>1
  <2> HIDE DEF p
  <2>7. Uncovers(LayerTree(s), LayerTree(t), p)
    BY <2>3, <2>4, <2>5 DEF Uncovers
  <2> QED BY <1>3, <2>3, <2>6, <2>7 DEF t, p
<1> QED BY <1>2, <1>3
=============================================================================
