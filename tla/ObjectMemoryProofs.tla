------------------------- MODULE ObjectMemoryProofs -------------------------
(***************************************************************************)
(* For any objects, roots and sizes of the spaces: the memory of addresses,*)
(* spaces and collections implements the graph of ObjectGraph.             *)
(*                                                                         *)
(* A heap is taken apart from the state, so that the same facts serve the  *)
(* space in use, the one a collection has filled and the one after an      *)
(* allocation.                                                             *)
(***************************************************************************)
EXTENDS ObjectMemory, FiniteRecursion

\* The words that may occur in a heap h
Words(h) == Plain \cup {Junk} \cup DOMAIN h

IsObject(o, V) ==
  /\ o = [size |-> o.size, bin |-> o.bin, class |-> o.class, data |-> o.data]
  /\ o.size \in Nat /\ o.bin \in BOOLEAN /\ o.class \in V
  /\ o.data \in [IF o.bin THEN {} ELSE 0..(o.size - 1) -> V]

\* Objects at addresses, and up to n identities for them
IsHeap(h, ids, n) ==
  /\ h = [a \in DOMAIN h |-> h[a]]
  /\ DOMAIN h \subseteq Int
  /\ \A a \in DOMAIN h : IsObject(h[a], Words(h))
  /\ ids \in [DOMAIN h -> 1..n]
  /\ \A a, b \in DOMAIN h : ids[a] = ids[b] => a = b

EndIn(h, a) == a + Extent(h[a].size, h[a].bin)
Fills(h, pointer, top) ==
  Fill([a \in DOMAIN h |-> a], [a \in DOMAIN h |-> EndIn(h, a)], DOMAIN h, pointer, top)

NameIn(h, ids, w) == IF w \in DOMAIN h THEN ids[w] ELSE w
NamedIn(h, ids, o) ==
  [size |-> o.size, bin |-> o.bin, class |-> NameIn(h, ids, o.class),
   data |-> [k \in DOMAIN o.data |-> NameIn(h, ids, o.data[k])]]
Ids(h, ids) == {ids[a] : a \in DOMAIN h}
GraphOf(h, ids) ==
  [i \in Ids(h, ids) |-> NamedIn(h, ids, h[CHOOSE a \in DOMAIN h : ids[a] = i])]

IInv ==
  /\ inSpaceOne \in BOOLEAN /\ stopped \in BOOLEAN /\ born \in Nat
  /\ memoryPointer \in memoryBase..memoryTop
  /\ IsHeap(heap, id, born)
  /\ Fills(heap, memoryPointer, memoryTop)
  /\ rootStack \in Seq(Words(heap))
  /\ staticRoots \in Seq(Global) /\ Len(staticRoots) <= STATICROOTLIMIT
  /\ \A i, j \in DOMAIN staticRoots : staticRoots[i] = staticRoots[j] => i = j
  /\ DOMAIN global = Global
  /\ \A g \in Registered : global[g] \in Words(heap)
  /\ fresh \in Words(heap) \cup {None}

-----------------------------------------------------------------------------
\* A size in bytes is rounded up to a natural number of words.
LEMMA DivNat ==
  ASSUME NEW x \in Nat, NEW y \in Nat \ {0}
  PROVE  (x + y - 1) \div y \in Nat
  OBVIOUS

\* Every object takes its two words of header and class, or more.
LEMMA ExtentType ==
  ASSUME NEW size \in Nat, NEW bin
  PROVE  Extent(size, bin) \in Nat /\ Extent(size, bin) >= 2
  <1>1. TO_WORDS(size) \in Nat
    BY DivNat, MemoryAssumption DEF TO_WORDS
  <1> QED BY <1>1 DEF Extent

LEMMA EndType ==
  ASSUME NEW h, NEW ids, NEW n, IsHeap(h, ids, n), NEW a \in DOMAIN h
  PROVE  a \in Int /\ EndIn(h, a) \in Int /\ a + 2 <= EndIn(h, a)
  <1>1. a \in Int /\ h[a].size \in Nat
    BY DEF IsHeap, IsObject
  <1> QED BY <1>1, ExtentType DEF EndIn

\* What Fills says, object by object
LEMMA FillsDef ==
  ASSUME NEW h, NEW pointer, NEW top
  PROVE  Fills(h, pointer, top) <=>
           /\ \A a \in DOMAIN h : pointer <= a /\ EndIn(h, a) <= top
           /\ \A a, b \in DOMAIN h : a # b => EndIn(h, a) <= b \/ EndIn(h, b) <= a
           /\ \A a \in DOMAIN h : EndIn(h, a) = top \/ \E b \in DOMAIN h : EndIn(h, a) = b
           /\ pointer = top \/ \E a \in DOMAIN h : pointer = a
           /\ \A S \in SUBSET DOMAIN h :
                S = DOMAIN h \/ \E a \in DOMAIN h \ S :
                                  a = pointer \/ \E b \in S : EndIn(h, b) = a
  <1> DEFINE start == [a \in DOMAIN h |-> a]
             end == [a \in DOMAIN h |-> EndIn(h, a)]
  <1>1. \A a \in DOMAIN h : start[a] = a /\ end[a] = EndIn(h, a)
    OBVIOUS
  <1>2. Fills(h, pointer, top) <=> Fill(start, end, DOMAIN h, pointer, top)
    BY DEF Fills
  <1> HIDE DEF start, end
  <1> QED BY <1>1, <1>2 DEF Fill

-----------------------------------------------------------------------------
(***************************************************************************)
(* The graph that a heap is.                                               *)
(***************************************************************************)
LEMMA GraphAt ==
  ASSUME NEW h, NEW ids, NEW n, IsHeap(h, ids, n), NEW a \in DOMAIN h
  PROVE  /\ ids[a] \in DOMAIN GraphOf(h, ids)
         /\ (CHOOSE b \in DOMAIN h : ids[b] = ids[a]) = a
         /\ GraphOf(h, ids)[ids[a]] = NamedIn(h, ids, h[a])
  <1>1. ids[a] \in Ids(h, ids)
    BY DEF Ids
  <1>2. (CHOOSE b \in DOMAIN h : ids[b] = ids[a]) = a
    BY DEF IsHeap
  <1> QED BY <1>1, <1>2 DEF GraphOf

LEMMA GraphDomain ==
  ASSUME NEW h, NEW ids
  PROVE  DOMAIN GraphOf(h, ids) = {ids[a] : a \in DOMAIN h}
  BY DEF GraphOf, Ids

\* A graph is determined by its objects.
LEMMA GraphIs ==
  ASSUME NEW h, NEW ids, NEW n, IsHeap(h, ids, n), NEW G,
         G = [i \in DOMAIN G |-> G[i]],
         DOMAIN G = {ids[a] : a \in DOMAIN h},
         \A a \in DOMAIN h : G[ids[a]] = NamedIn(h, ids, h[a])
  PROVE  G = GraphOf(h, ids)
  <1>1. DOMAIN G = DOMAIN GraphOf(h, ids)
    BY GraphDomain
  <1>2. ASSUME NEW i \in DOMAIN G PROVE G[i] = GraphOf(h, ids)[i]
    <2>1. PICK a \in DOMAIN h : i = ids[a]
      OBVIOUS
    <2> QED BY <2>1, GraphAt
  <1>3. GraphOf(h, ids) = [i \in DOMAIN GraphOf(h, ids) |-> GraphOf(h, ids)[i]]
    BY DEF GraphOf
  <1> QED BY <1>1, <1>2, <1>3

\* A name that is an identity names an object.
LEMMA Names ==
  ASSUME NEW h, NEW ids, NEW n \in Nat, IsHeap(h, ids, n), NEW w \in Words(h)
  PROVE  /\ w \in DOMAIN h <=> NameIn(h, ids, w) \in Ids(h, ids)
         /\ w \in DOMAIN h <=> NameIn(h, ids, w) \in Int
         /\ w \notin DOMAIN h => NameIn(h, ids, w) = w /\ w \in Plain \cup {Junk}
         /\ w = Junk <=> NameIn(h, ids, w) = Junk
         /\ NameIn(h, ids, w) # None
  <1>1. \A a \in DOMAIN h : ids[a] \in Int /\ a \in Int
    BY DEF IsHeap
  <1>2. Ids(h, ids) \subseteq Int
    BY <1>1 DEF Ids
  <1> QED BY <1>1, <1>2, MemoryAssumption DEF Words, NameIn, Ids

LEMMA NamesApart ==
  ASSUME NEW h, NEW ids, NEW n \in Nat, IsHeap(h, ids, n),
         NEW v \in Words(h), NEW w \in Words(h), NameIn(h, ids, v) = NameIn(h, ids, w)
  PROVE  v = w
  <1>1. CASE v \in DOMAIN h
    <2>1. w \in DOMAIN h
      BY <1>1, Names
    <2> QED BY <1>1, <2>1 DEF NameIn, IsHeap
  <1>2. CASE v \notin DOMAIN h
    <2>1. w \notin DOMAIN h
      BY <1>2, Names
    <2> QED BY <1>2, <2>1 DEF NameIn
  <1> QED BY <1>1, <1>2

LEMMA OtherWords ==
  ASSUME NEW o, NEW class, NEW data,
         o = [size |-> o.size, bin |-> o.bin, class |-> o.class, data |-> o.data]
  PROVE  [o EXCEPT !.class = class, !.data = data]
           = [size |-> o.size, bin |-> o.bin, class |-> class, data |-> data]
  <1>1. PICK size, bin, c, d : o = [size |-> size, bin |-> bin, class |-> c, data |-> d]
    OBVIOUS
  <1>2. [o EXCEPT !.class = class, !.data = data]
          = [[o EXCEPT !.class = class] EXCEPT !.data = data]
    OBVIOUS
  <1>3. [o EXCEPT !.class = class] = [size |-> size, bin |-> bin, class |-> class, data |-> d]
    BY <1>1
  <1>4. o.size = size /\ o.bin = bin
    BY <1>1
  <1>5. [[size |-> size, bin |-> bin, class |-> class, data |-> d] EXCEPT !.data = data]
          = [size |-> size, bin |-> bin, class |-> class, data |-> data]
    OBVIOUS
  <1> QED BY <1>2, <1>3, <1>4, <1>5

\* The graph that ObjectMemory!Implements is about
LEMMA NamedObjectIs ==
  ASSUME NEW o, IsObject(o, Words(heap))
  PROVE  NamedObject(o) = NamedIn(heap, id, o)
  <1>1. o = [size |-> o.size, bin |-> o.bin, class |-> o.class, data |-> o.data]
    BY DEF IsObject
  <1>2. \A w : Name(w) = NameIn(heap, id, w)
    BY DEF Name, NameIn
  <1>3. PICK data : data = [k \in DOMAIN o.data |-> Name(o.data[k])]
    OBVIOUS
  <1>4. NamedObject(o) = [o EXCEPT !.class = Name(@), !.data = data]
    BY <1>1, <1>3 DEF NamedObject
  <1>5. [o EXCEPT !.class = Name(@), !.data = data]
          = [size |-> o.size, bin |-> o.bin, class |-> Name(o.class), data |-> data]
    BY <1>1, OtherWords
  <1> QED BY <1>2, <1>3, <1>4, <1>5 DEF NamedIn

LEMMA NamedObjectsAre == IInv => NamedObjects = GraphOf(heap, id)
  <1> SUFFICES ASSUME IInv PROVE NamedObjects = GraphOf(heap, id)
    OBVIOUS
  <1>1. IsHeap(heap, id, born)
    BY DEF IInv
  <1>2. NamedObjects = [i \in {id[a] : a \in DOMAIN heap} |-> NamedObject(heap[AddressOf(i)])]
    BY DEF NamedObjects
  <1>3. ASSUME NEW a \in DOMAIN heap PROVE NamedObjects[id[a]] = NamedIn(heap, id, heap[a])
    <2>1. AddressOf(id[a]) = a
      BY <1>1, GraphAt DEF AddressOf
    <2>2. NamedObject(heap[a]) = NamedIn(heap, id, heap[a])
      BY <1>1, NamedObjectIs DEF IsHeap
    <2> QED BY <1>2, <2>1, <2>2
  <1>4. /\ NamedObjects = [i \in DOMAIN NamedObjects |-> NamedObjects[i]]
        /\ DOMAIN NamedObjects = {id[a] : a \in DOMAIN heap}
    BY <1>2
  <1> QED BY <1>1, <1>3, <1>4, GraphIs

-----------------------------------------------------------------------------
(***************************************************************************)
(* An allocation below the objects of a heap.                              *)
(***************************************************************************)
Extended(h, ids, n, size, bin, class, a, h2, ids2) ==
  /\ class \in DOMAIN h \cup {a}
  /\ h2 = [b \in DOMAIN h \cup {a} |-> IF b = a THEN Unset(size, bin, class) ELSE h[b]]
  /\ ids2 = [b \in DOMAIN h \cup {a} |-> IF b = a THEN n + 1 ELSE ids[b]]

LEMMA UnsetIsObject ==
  ASSUME NEW size \in Nat, NEW bin \in BOOLEAN, NEW V, Junk \in V, NEW class \in V
  PROVE  IsObject(Unset(size, bin, class), V)
  BY DEF IsObject, Unset

LEMMA ExtendedIsHeap ==
  ASSUME NEW h, NEW ids, NEW n \in Nat, IsHeap(h, ids, n), NEW pointer \in Int, NEW top \in Int,
         Fills(h, pointer, top), NEW size \in Nat, NEW bin \in BOOLEAN, NEW class, NEW a,
         a = pointer - Extent(size, bin), NEW h2, NEW ids2,
         Extended(h, ids, n, size, bin, class, a, h2, ids2)
  PROVE  /\ a \in Int /\ a \notin DOMAIN h
         /\ IsHeap(h2, ids2, n + 1)
         /\ Fills(h2, a, top)
         /\ Words(h) \subseteq Words(h2) /\ a \in DOMAIN h2
         /\ \A w \in Words(h) : NameIn(h2, ids2, w) = NameIn(h, ids, w)
  <1>1. /\ a \in Int /\ a + 2 <= pointer
        /\ Extent(size, bin) \in Nat
    BY ExtentType
  <1>2. /\ \A b \in DOMAIN h : pointer <= b /\ EndIn(h, b) <= top
        /\ \A b, c \in DOMAIN h : b # c => EndIn(h, b) <= c \/ EndIn(h, c) <= b
        /\ \A b \in DOMAIN h : EndIn(h, b) = top \/ \E c \in DOMAIN h : EndIn(h, b) = c
        /\ pointer = top \/ \E b \in DOMAIN h : pointer = b
        /\ \A S \in SUBSET DOMAIN h :
             S = DOMAIN h \/ \E b \in DOMAIN h \ S :
                               b = pointer \/ \E c \in S : EndIn(h, c) = b
    BY FillsDef
  <1>3. \A b \in DOMAIN h : b \in Int /\ EndIn(h, b) \in Int /\ b + 2 <= EndIn(h, b)
    BY EndType
  <1>4. a \notin DOMAIN h
    BY <1>1, <1>2, <1>3
  <1>5. /\ DOMAIN h2 = DOMAIN h \cup {a} /\ DOMAIN ids2 = DOMAIN h \cup {a}
        /\ h2[a] = Unset(size, bin, class) /\ ids2[a] = n + 1
        /\ \A b \in DOMAIN h : h2[b] = h[b] /\ ids2[b] = ids[b]
        /\ h2 = [b \in DOMAIN h2 |-> h2[b]]
    BY <1>4 DEF Extended
  <1>6. Words(h) \subseteq Words(h2) /\ a \in DOMAIN h2
    BY <1>5 DEF Words
  <1>7. \A w \in Words(h) : NameIn(h2, ids2, w) = NameIn(h, ids, w)
    <2>1. ASSUME NEW w \in Words(h), w \notin DOMAIN h PROVE w # a
      BY <1>1, <2>1, MemoryAssumption DEF Words
    <2> QED BY <1>5, <2>1 DEF NameIn
  <1>8. IsHeap(h2, ids2, n + 1)
    <2>1. \A b \in DOMAIN h2 : IsObject(h2[b], Words(h2))
      <3>1. IsObject(h2[a], Words(h2))
        <4>1. Junk \in Words(h2) /\ class \in Words(h2)
          BY <1>5 DEF Words, Extended
        <4> QED BY <1>5, <4>1, UnsetIsObject
      <3>2. ASSUME NEW b \in DOMAIN h PROVE IsObject(h2[b], Words(h2))
        <4>1. IsObject(h[b], Words(h))
          BY DEF IsHeap
        <4>2. \A f, D : f \in [D -> Words(h)] => f \in [D -> Words(h2)]
          BY <1>6
        <4> QED BY <1>5, <1>6, <4>1, <4>2 DEF IsObject
      <3> QED BY <1>5, <3>1, <3>2
    <2>2. ids2 \in [DOMAIN h2 -> 1..(n + 1)]
      <3>1. ids \in [DOMAIN h -> 1..n]
        BY DEF IsHeap
      <3>2. \A b \in DOMAIN h : ids[b] \in 1..(n + 1)
        BY <3>1
      <3> QED BY <1>5, <3>2 DEF Extended
    <2>3. \A b, c \in DOMAIN h2 : ids2[b] = ids2[c] => b = c
      <3>1. \A b \in DOMAIN h : ids[b] \in 1..n
        BY DEF IsHeap
      <3>2. \A b \in DOMAIN h : ids2[b] # n + 1
        BY <1>5, <3>1
      <3> QED BY <1>5, <3>2 DEF IsHeap
    <2>4. DOMAIN h2 \subseteq Int
      BY <1>1, <1>3, <1>5
    <2> QED BY <1>5, <2>1, <2>2, <2>3, <2>4 DEF IsHeap
  <1>9. Fills(h2, a, top)
    <2>1. EndIn(h2, a) = pointer
      BY <1>1, <1>5 DEF EndIn, Unset
    <2>2. \A b \in DOMAIN h : EndIn(h2, b) = EndIn(h, b)
      BY <1>5 DEF EndIn
    <2>3. pointer <= top
      BY <1>2, <1>3
    <2>4. \A b \in DOMAIN h2 : a <= b /\ EndIn(h2, b) <= top
      BY <1>1, <1>2, <1>3, <1>5, <2>1, <2>2, <2>3
    <2>5. \A b, c \in DOMAIN h2 : b # c => EndIn(h2, b) <= c \/ EndIn(h2, c) <= b
      BY <1>2, <1>5, <2>1, <2>2
    <2>6. \A b \in DOMAIN h2 : EndIn(h2, b) = top \/ \E c \in DOMAIN h2 : EndIn(h2, b) = c
      BY <1>2, <1>5, <2>1, <2>2
    <2>7. a = top \/ \E b \in DOMAIN h2 : a = b
      BY <1>5
    <2>8. ASSUME NEW S \in SUBSET DOMAIN h2, S # DOMAIN h2
          PROVE  \E b \in DOMAIN h2 \ S : b = a \/ \E c \in S : EndIn(h2, c) = b
      <3>1. CASE a \notin S
        BY <1>5, <3>1
      <3>2. CASE a \in S
        <4> DEFINE T == S \ {a}
        <4>1. T \in SUBSET DOMAIN h /\ T # DOMAIN h
          BY <1>5, <2>8, <3>2
        <4>2. PICK b \in DOMAIN h \ T : b = pointer \/ \E c \in T : EndIn(h, c) = b
          BY <1>2, <4>1
        <4>3. b \in DOMAIN h2 \ S
          BY <1>4, <1>5, <4>2
        <4>4. b = pointer => EndIn(h2, a) = b
          BY <2>1
        <4>5. \A c \in T : c \in S /\ EndIn(h2, c) = EndIn(h, c)
          BY <2>2, <4>1
        <4> QED BY <3>2, <4>2, <4>3, <4>4, <4>5
      <3> QED BY <3>1, <3>2
    <2> QED BY <2>4, <2>5, <2>6, <2>7, <2>8, FillsDef
  <1> QED BY <1>1, <1>4, <1>6, <1>7, <1>8, <1>9

\* A graph of which the objects kept stay, with a new one
WithNew(G, kept, n, size, bin, class) ==
  [i \in kept \cup {n} |-> IF i = n THEN Unset(size, bin, class) ELSE G[i]]

LEMMA ExtendedGraph ==
  ASSUME NEW h, NEW ids, NEW n \in Nat, IsHeap(h, ids, n), NEW pointer \in Int, NEW top \in Int,
         Fills(h, pointer, top), NEW size \in Nat, NEW bin \in BOOLEAN, NEW class, NEW a,
         a = pointer - Extent(size, bin), NEW h2, NEW ids2,
         Extended(h, ids, n, size, bin, class, a, h2, ids2)
  PROVE  /\ n + 1 \notin Ids(h, ids)
         /\ GraphOf(h2, ids2) =
              WithNew(GraphOf(h, ids), Ids(h, ids), n + 1, size, bin, NameIn(h2, ids2, class))
  <1>1. /\ a \in Int /\ a \notin DOMAIN h
        /\ IsHeap(h2, ids2, n + 1)
        /\ Words(h) \subseteq Words(h2) /\ a \in DOMAIN h2
        /\ \A w \in Words(h) : NameIn(h2, ids2, w) = NameIn(h, ids, w)
    BY ExtendedIsHeap
  <1>2. /\ DOMAIN h2 = DOMAIN h \cup {a}
        /\ h2[a] = Unset(size, bin, class) /\ ids2[a] = n + 1
        /\ \A b \in DOMAIN h : h2[b] = h[b] /\ ids2[b] = ids[b]
    BY <1>1 DEF Extended
  <1>3. n + 1 \notin Ids(h, ids)
    BY DEF Ids, IsHeap
  <1> DEFINE G == [i \in Ids(h, ids) \cup {n + 1} |->
                     IF i = n + 1 THEN Unset(size, bin, NameIn(h2, ids2, class))
                     ELSE GraphOf(h, ids)[i]]
  <1>4. DOMAIN G = {ids2[b] : b \in DOMAIN h2}
    BY <1>2 DEF Ids
  <1>5. ASSUME NEW b \in DOMAIN h2 PROVE G[ids2[b]] = NamedIn(h2, ids2, h2[b])
    <2>1. CASE b = a
      <3>1. NameIn(h2, ids2, Junk) = Junk
        BY <1>1, Names DEF Words
      <3>2. NamedIn(h2, ids2, Unset(size, bin, class)) = Unset(size, bin, NameIn(h2, ids2, class))
        BY <3>1 DEF NamedIn, Unset
      <3> QED BY <1>2, <2>1, <3>2
    <2>2. CASE b \in DOMAIN h
      <3>1. G[ids[b]] = GraphOf(h, ids)[ids[b]]
        BY <1>3, <2>2 DEF Ids
      <3>2. GraphOf(h, ids)[ids[b]] = NamedIn(h, ids, h[b])
        BY <2>2, GraphAt
      <3>3. IsObject(h[b], Words(h))
        BY <2>2 DEF IsHeap
      <3>4. NamedIn(h, ids, h[b]) = NamedIn(h2, ids2, h[b])
        BY <1>1, <3>3 DEF NamedIn, IsObject
      <3> QED BY <1>2, <2>2, <3>1, <3>2, <3>4
    <2> QED BY <1>2, <2>1, <2>2
  <1>6. G = GraphOf(h2, ids2)
    <2>1. G = [i \in DOMAIN G |-> G[i]]
      OBVIOUS
    <2> HIDE DEF G
    <2> QED BY <1>1, <1>4, <1>5, <2>1, GraphIs
  <1> QED BY <1>3, <1>6 DEF WithNew

-----------------------------------------------------------------------------
(***************************************************************************)
(* A collection.                                                           *)
(***************************************************************************)
LEMMA LiveIs ==
  /\ Live \subseteq DOMAIN heap
  /\ Roots \cap DOMAIN heap \subseteq Live
  /\ \A a \in Live : References(heap[a]) \cap DOMAIN heap \subseteq Live
  BY DEF Live, Closed

LEMMA SpaceIs ==
  ASSUME IInv
  PROVE  /\ memoryTop \in Int /\ memoryBase \in Int /\ memoryPointer \in Int
         /\ memoryBase <= memoryPointer /\ memoryPointer <= memoryTop
         /\ memoryTop = memoryBase + spaceSize
         /\ BaseOf(~inSpaceOne) \in Int /\ spaceSize \in Nat
  <1>1. spaceOne \in Int /\ spaceTwo \in Int /\ spaceSize \in Nat
    BY MemoryAssumption DEF spaceOne, spaceTwo
  <1>2. memoryBase \in Int /\ BaseOf(~inSpaceOne) \in Int
    BY <1>1 DEF memoryBase, BaseOf
  <1>3. memoryTop \in Int /\ memoryTop = memoryBase + spaceSize
    BY <1>1, <1>2 DEF memoryTop
  <1> QED BY <1>1, <1>2, <1>3 DEF IInv

\* There are finitely many objects, each of an extent.
LEMMA Finite ==
  ASSUME IInv
  PROVE  /\ IsFiniteSet(DOMAIN heap) /\ IsFiniteSet(Live)
         /\ \A a \in DOMAIN heap : Extents[a] \in Nat /\ Extents[a] >= 2
                                   /\ EndIn(heap, a) = a + Extents[a]
  <1>1. \A a \in DOMAIN heap : a \in Int /\ EndIn(heap, a) \in Int /\ a + 2 <= EndIn(heap, a)
    BY EndType DEF IInv
  <1>2. \A a \in DOMAIN heap : memoryPointer <= a /\ EndIn(heap, a) <= memoryTop
    BY FillsDef DEF IInv
  <1>3. DOMAIN heap \in SUBSET (memoryPointer..memoryTop)
    BY <1>1, <1>2, SpaceIs
  <1>4. IsFiniteSet(DOMAIN heap)
    BY <1>3, SpaceIs, FS_Interval, FS_Subset
  <1>5. IsFiniteSet(Live)
    BY <1>4, LiveIs, FS_Subset
  <1>6. \A a \in DOMAIN heap : Extents[a] = Extent(heap[a].size, heap[a].bin)
                              /\ heap[a].size \in Nat
    BY DEF Extents, IInv, IsHeap, IsObject
  <1> QED BY <1>4, <1>5, <1>6, ExtentType DEF EndIn

LEMMA Placement ==
  ASSUME IInv, NEW top \in Int, NEW moved \in Placements(top)
  PROVE  /\ moved \in [Live -> Int]
         /\ \A a \in Live : moved[a] >= top - spaceSize
         /\ Fill(moved, [a \in Live |-> moved[a] + Extents[a]], Live,
                 Min({moved[a] : a \in Live} \cup {top}), top)
         /\ \A a \in Live :
              top - moved[a] <= SumFunctionOnSet(Extents, Live)
         /\ SumFunctionOnSet(Extents, Live) \in Nat
  <1>1. PICK rank :
          moved = [a \in Live |-> top - SumFunctionOnSet(Extents, {b \in Live : rank[b] <= rank[a]})]
    BY DEF Placements
  <1>2. /\ \A a \in Live : moved[a] >= top - spaceSize
        /\ Fill(moved, [a \in Live |-> moved[a] + Extents[a]], Live,
                Min({moved[a] : a \in Live} \cup {top}), top)
    BY DEF Placements
  <1>3. IsFiniteSet(Live) /\ \A a \in Live : Extents[a] \in Nat
    BY Finite, LiveIs
  <1>4. SumFunctionOnSet(Extents, Live) \in Nat
    BY <1>3, SumOver
  <1>5. ASSUME NEW a \in Live
        PROVE  /\ SumFunctionOnSet(Extents, {b \in Live : rank[b] <= rank[a]}) \in Nat
               /\ SumFunctionOnSet(Extents, {b \in Live : rank[b] <= rank[a]})
                    <= SumFunctionOnSet(Extents, Live)
    <2> DEFINE T == {b \in Live : rank[b] <= rank[a]}
    <2>1. T \in SUBSET Live
      OBVIOUS
    <2> HIDE DEF T
    <2>2. IsFiniteSet(T) /\ \A b \in T : Extents[b] \in Nat
      BY <1>3, <2>1, FS_Subset
    <2>3. SumFunctionOnSet(Extents, T) \in Nat
      BY <2>2, SumOver
    <2>4. SumFunctionOnSet(Extents, T) <= SumFunctionOnSet(Extents, Live)
      BY <1>3, <2>1, SumOfPart
    <2> QED BY <2>3, <2>4 DEF T
  <1>6. \A a \in Live : moved[a] \in Int /\ top - moved[a] <= SumFunctionOnSet(Extents, Live)
    <2>1. ASSUME NEW a \in Live
          PROVE  moved[a] \in Int /\ top - moved[a] <= SumFunctionOnSet(Extents, Live)
      <3>1. PICK sum : sum = SumFunctionOnSet(Extents, {b \in Live : rank[b] <= rank[a]})
        OBVIOUS
      <3>2. moved[a] = top - sum
        BY <1>1, <3>1
      <3> QED BY <1>4, <1>5, <3>1, <3>2
    <2> QED BY <2>1
  <1>7. moved \in [Live -> Int]
    BY <1>1, <1>6
  <1> QED BY <1>2, <1>4, <1>6, <1>7

\* The copies, each where moved says
IsCopy(moved, h, ids) ==
  /\ h = [n \in DOMAIN h |-> h[n]] /\ ids = [n \in DOMAIN ids |-> ids[n]]
  /\ DOMAIN h = {moved[a] : a \in Live} /\ DOMAIN ids = DOMAIN h
  /\ \A a, b \in Live : moved[a] = moved[b] => a = b
  /\ \A a \in Live :
       /\ ids[moved[a]] = id[a]
       /\ h[moved[a]] = [size |-> heap[a].size, bin |-> heap[a].bin,
                         class |-> Moved(heap[a].class, moved),
                         data |-> [k \in DOMAIN heap[a].data |-> Moved(heap[a].data[k], moved)]]

LEMMA CopiedIs ==
  ASSUME IInv, NEW top \in Int, NEW moved \in Placements(top)
  PROVE  IsCopy(moved, Copied(moved).objects, Copied(moved).ids)
  <1>1. \A a, b \in Live : moved[a] = moved[b] => a = b
    <2> DEFINE end == [a \in Live |-> moved[a] + Extents[a]]
    <2>1. \A a, b \in Live : a # b => end[a] <= moved[b] \/ end[b] <= moved[a]
      BY Placement DEF Fill
    <2>2. \A a \in Live : moved[a] \in Int /\ Extents[a] \in Nat /\ Extents[a] >= 2
                          /\ end[a] = moved[a] + Extents[a]
      BY Placement, Finite, LiveIs
    <2> HIDE DEF end
    <2> QED BY <2>1, <2>2
  <1> DEFINE old == [n \in {moved[a] : a \in Live} |-> CHOOSE a \in Live : moved[a] = n]
             Copy(n) == [heap[old[n]] EXCEPT !.class = Moved(@, moved),
                                !.data = [k \in DOMAIN @ |-> Moved(@[k], moved)]]
             h == [n \in DOMAIN old |-> Copy(n)]
             ids == [n \in DOMAIN old |-> id[old[n]]]
  <1>2. Copied(moved).objects = h /\ Copied(moved).ids = ids
    BY DEF Copied
  <1>3. DOMAIN old = {moved[a] : a \in Live}
    OBVIOUS
  <1>4. ASSUME NEW a \in Live PROVE moved[a] \in DOMAIN old /\ old[moved[a]] = a
    BY <1>1, <1>3
  <1>5. ASSUME NEW a \in Live
        PROVE  Copy(moved[a])
                 = [size |-> heap[a].size, bin |-> heap[a].bin,
                    class |-> Moved(heap[a].class, moved),
                    data |-> [k \in DOMAIN heap[a].data |-> Moved(heap[a].data[k], moved)]]
    <2>1. heap[a] = [size |-> heap[a].size, bin |-> heap[a].bin,
                     class |-> heap[a].class, data |-> heap[a].data]
      BY LiveIs DEF IInv, IsHeap, IsObject
    <2>2. PICK data : data = [k \in DOMAIN heap[a].data |-> Moved(heap[a].data[k], moved)]
      OBVIOUS
    <2>3. Copy(moved[a]) = [heap[a] EXCEPT !.class = Moved(@, moved), !.data = data]
      BY <1>4, <2>1, <2>2
    <2>4. PICK class : class = Moved(heap[a].class, moved)
      OBVIOUS
    <2>5. [heap[a] EXCEPT !.class = Moved(@, moved), !.data = data]
            = [heap[a] EXCEPT !.class = class, !.data = data]
      BY <2>1, <2>4
    <2>6. PICK o : o = heap[a]
      OBVIOUS
    <2>7. o = [size |-> o.size, bin |-> o.bin, class |-> o.class, data |-> o.data]
      BY <2>1, <2>6
    <2>8. [o EXCEPT !.class = class, !.data = data]
            = [size |-> o.size, bin |-> o.bin, class |-> class, data |-> data]
      BY <2>7, OtherWords
    <2> HIDE DEF Copy
    <2> QED BY <2>2, <2>3, <2>4, <2>5, <2>6, <2>8
  <1>6. /\ h = [n \in DOMAIN h |-> h[n]] /\ ids = [n \in DOMAIN ids |-> ids[n]]
        /\ DOMAIN h = DOMAIN old /\ DOMAIN ids = DOMAIN old
        /\ \A n \in DOMAIN old : h[n] = Copy(n) /\ ids[n] = id[old[n]]
    OBVIOUS
  <1> HIDE DEF old, Copy, h, ids
  <1>7. IsCopy(moved, h, ids)
    BY <1>1, <1>3, <1>4, <1>5, <1>6 DEF IsCopy
  <1> QED BY <1>2, <1>7

\* A word that names no object that went keeps its name.
LEMMA MovedNames ==
  ASSUME IInv, NEW moved \in [Live -> Int], NEW h, NEW ids, IsCopy(moved, h, ids),
         NEW w \in Words(heap), w \in DOMAIN heap => w \in Live
  PROVE  Moved(w, moved) \in Words(h) /\ NameIn(h, ids, Moved(w, moved)) = NameIn(heap, id, w)
  <1>1. CASE w \in Live
    <2>1. Moved(w, moved) = moved[w] /\ moved[w] \in DOMAIN h /\ ids[moved[w]] = id[w]
      BY <1>1 DEF Moved, IsCopy
    <2> QED BY <1>1, <2>1, LiveIs DEF NameIn, Words
  <1>2. CASE w \notin Live
    <2>1. Moved(w, moved) = w /\ w \in Plain \cup {Junk} /\ w \notin DOMAIN heap
      BY <1>2 DEF Moved, Words
    <2>2. DOMAIN h \subseteq Int
      BY DEF IsCopy
    <2> QED BY <2>1, <2>2, MemoryAssumption DEF NameIn, Words
  <1> QED BY <1>1, <1>2

LEMMA LiveWords ==
  ASSUME IInv, NEW a \in Live
  PROVE  /\ IsObject(heap[a], Words(heap))
         /\ heap[a].class \in Words(heap)
         /\ heap[a].class \in DOMAIN heap => heap[a].class \in Live
         /\ \A k \in DOMAIN heap[a].data :
              /\ heap[a].data[k] \in Words(heap)
              /\ heap[a].data[k] \in DOMAIN heap => heap[a].data[k] \in Live
  <1>1. IsObject(heap[a], Words(heap))
    BY LiveIs DEF IInv, IsHeap
  <1>2. References(heap[a]) \cap DOMAIN heap \subseteq Live
    BY LiveIs
  <1> QED BY <1>1, <1>2 DEF References, IsObject

LEMMA CollectedIsHeap ==
  ASSUME IInv, NEW moved \in [Live -> Int], NEW h, NEW ids, IsCopy(moved, h, ids)
  PROVE  IsHeap(h, ids, born)
  <1>1. DOMAIN h \subseteq Int
    BY DEF IsCopy
  <1>2. ASSUME NEW a \in Live PROVE IsObject(h[moved[a]], Words(h))
    <2>1. h[moved[a]] = [size |-> heap[a].size, bin |-> heap[a].bin,
                         class |-> Moved(heap[a].class, moved),
                         data |-> [k \in DOMAIN heap[a].data |-> Moved(heap[a].data[k], moved)]]
      BY DEF IsCopy
    <2>2. heap[a].size \in Nat /\ heap[a].bin \in BOOLEAN
          /\ DOMAIN heap[a].data = IF heap[a].bin THEN {} ELSE 0..(heap[a].size - 1)
      BY LiveWords DEF IsObject
    <2>3. Moved(heap[a].class, moved) \in Words(h)
      BY LiveWords, MovedNames
    <2>4. \A k \in DOMAIN heap[a].data : Moved(heap[a].data[k], moved) \in Words(h)
      BY LiveWords, MovedNames
    <2> QED BY <2>1, <2>2, <2>3, <2>4 DEF IsObject
  <1>3. ids \in [DOMAIN h -> 1..born]
    <2>1. id \in [DOMAIN heap -> 1..born]
      BY DEF IInv, IsHeap
    <2>2. /\ DOMAIN h = {moved[a] : a \in Live} /\ \A a \in Live : ids[moved[a]] = id[a]
          /\ ids = [n \in DOMAIN h |-> ids[n]]
      BY DEF IsCopy
    <2>3. \A n \in DOMAIN h : ids[n] \in 1..born
      BY <2>1, <2>2, LiveIs
    <2> QED BY <2>2, <2>3
  <1>4. \A m, n \in DOMAIN h : ids[m] = ids[n] => m = n
    <2>1. \A a, b \in Live : id[a] = id[b] => a = b
      BY LiveIs DEF IInv, IsHeap
    <2>2. DOMAIN h = {moved[a] : a \in Live} /\ \A a \in Live : ids[moved[a]] = id[a]
      BY DEF IsCopy
    <2> QED BY <2>1, <2>2
  <1> QED BY <1>1, <1>2, <1>3, <1>4 DEF IsCopy, IsHeap

\* The graph after a collection is that of the objects that were reachable.
LEMMA CollectedGraph ==
  ASSUME IInv, NEW moved \in [Live -> Int], NEW h, NEW ids, IsCopy(moved, h, ids)
  PROVE  /\ Ids(h, ids) = {id[a] : a \in Live}
         /\ Ids(h, ids) \subseteq Ids(heap, id)
         /\ \A i \in Ids(h, ids) : GraphOf(h, ids)[i] = GraphOf(heap, id)[i]
  <1>1. Ids(h, ids) = {id[a] : a \in Live}
    <2>1. DOMAIN h = {moved[a] : a \in Live} /\ \A a \in Live : ids[moved[a]] = id[a]
      BY DEF IsCopy
    <2> QED BY <2>1 DEF Ids
  <1>2. Ids(h, ids) \subseteq Ids(heap, id)
    BY <1>1, LiveIs DEF Ids
  <1>3. ASSUME NEW a \in Live PROVE GraphOf(h, ids)[id[a]] = GraphOf(heap, id)[id[a]]
    <2>1. GraphOf(heap, id)[id[a]] = NamedIn(heap, id, heap[a])
      BY LiveIs, GraphAt DEF IInv
    <2>2. GraphOf(h, ids)[ids[moved[a]]] = NamedIn(h, ids, h[moved[a]])
      <3>1. IsHeap(h, ids, born) /\ moved[a] \in DOMAIN h
        BY CollectedIsHeap DEF IsCopy
      <3> QED BY <3>1, GraphAt
    <2>3. /\ ids[moved[a]] = id[a]
          /\ h[moved[a]] = [size |-> heap[a].size, bin |-> heap[a].bin,
                            class |-> Moved(heap[a].class, moved),
                            data |-> [k \in DOMAIN heap[a].data |-> Moved(heap[a].data[k], moved)]]
      BY DEF IsCopy
    <2>4. /\ NameIn(h, ids, Moved(heap[a].class, moved)) = NameIn(heap, id, heap[a].class)
          /\ \A k \in DOMAIN heap[a].data :
               NameIn(h, ids, Moved(heap[a].data[k], moved)) = NameIn(heap, id, heap[a].data[k])
      BY LiveWords, MovedNames
    <2>5. NamedIn(h, ids, h[moved[a]]) = NamedIn(heap, id, heap[a])
      BY <2>3, <2>4 DEF NamedIn
    <2> QED BY <2>1, <2>2, <2>3, <2>5
  <1> QED BY <1>1, <1>2, <1>3

LEMMA CollectedFills ==
  ASSUME IInv, NEW top \in Int, NEW moved \in Placements(top), NEW h, NEW ids,
         IsCopy(moved, h, ids), NEW pointer, pointer = Min(DOMAIN h \cup {top})
  PROVE  /\ Fills(h, pointer, top)
         /\ pointer \in Int /\ top - spaceSize <= pointer /\ pointer <= top
         /\ top - pointer <= SumFunctionOnSet(Extents, Live)
  <1> DEFINE end == [a \in Live |-> moved[a] + Extents[a]]
             least == Min({moved[a] : a \in Live} \cup {top})
  <1>1. Fill(moved, end, Live, least, top)
    BY Placement
  <1>2. DOMAIN h = {moved[a] : a \in Live}
    BY DEF IsCopy
  <1>3. pointer = least
    BY <1>2
  <1>4. \A a \in Live : /\ moved[a] \in Int /\ Extents[a] \in Nat /\ end[a] = moved[a] + Extents[a]
                        /\ moved[a] >= top - spaceSize
                        /\ top - moved[a] <= SumFunctionOnSet(Extents, Live)
    BY Placement, Finite, LiveIs
  <1>5. ASSUME NEW a \in Live PROVE end[a] = EndIn(h, moved[a])
    <2>1. h[moved[a]].size = heap[a].size /\ h[moved[a]].bin = heap[a].bin
      <3>1. h[moved[a]] = [size |-> heap[a].size, bin |-> heap[a].bin,
                           class |-> Moved(heap[a].class, moved),
                           data |-> [k \in DOMAIN heap[a].data |-> Moved(heap[a].data[k], moved)]]
        BY DEF IsCopy
      <3> QED BY <3>1
    <2>2. Extents[a] = Extent(heap[a].size, heap[a].bin)
      BY LiveIs DEF Extents
    <2> QED BY <1>4, <2>1, <2>2 DEF EndIn
  <1> HIDE DEF end, least
  <1>6. /\ \A a \in Live : pointer <= moved[a] /\ end[a] <= top
        /\ \A a, b \in Live : a # b => end[a] <= moved[b] \/ end[b] <= moved[a]
        /\ \A a \in Live : end[a] = top \/ \E b \in Live : end[a] = moved[b]
        /\ pointer = top \/ \E a \in Live : pointer = moved[a]
        /\ \A S \in SUBSET Live :
             S = Live \/ \E a \in Live \ S :
                          moved[a] = pointer \/ \E b \in S : end[b] = moved[a]
    BY <1>1, <1>3 DEF Fill
  <1>7. Fills(h, pointer, top)
    <2>1. \A m \in DOMAIN h : pointer <= m /\ EndIn(h, m) <= top
      BY <1>2, <1>5, <1>6
    <2>2. \A m, n \in DOMAIN h : m # n => EndIn(h, m) <= n \/ EndIn(h, n) <= m
      BY <1>2, <1>5, <1>6
    <2>3. \A m \in DOMAIN h : EndIn(h, m) = top \/ \E n \in DOMAIN h : EndIn(h, m) = n
      BY <1>2, <1>5, <1>6
    <2>4. pointer = top \/ \E m \in DOMAIN h : pointer = m
      BY <1>2, <1>6
    <2>5. ASSUME NEW S \in SUBSET DOMAIN h, S # DOMAIN h
          PROVE  \E m \in DOMAIN h \ S : m = pointer \/ \E n \in S : EndIn(h, n) = m
      <3> DEFINE T == {a \in Live : moved[a] \in S}
      <3>1. T \in SUBSET Live /\ T # Live
        BY <1>2, <2>5
      <3>2. PICK a \in Live \ T : moved[a] = pointer \/ \E b \in T : end[b] = moved[a]
        BY <1>6, <3>1
      <3>3. moved[a] \in DOMAIN h \ S
        BY <1>2, <3>2
      <3>4. \A b \in T : moved[b] \in S /\ EndIn(h, moved[b]) = end[b]
        BY <1>5
      <3> QED BY <3>2, <3>3, <3>4
    <2> QED BY <2>1, <2>2, <2>3, <2>4, <2>5, FillsDef
  <1>8. /\ pointer \in Int /\ top - spaceSize <= pointer /\ pointer <= top
        /\ top - pointer <= SumFunctionOnSet(Extents, Live)
    <2>1. SumFunctionOnSet(Extents, Live) \in Nat /\ spaceSize \in Nat
      BY Placement, MemoryAssumption
    <2>2. CASE pointer = top
      BY <2>1, <2>2
    <2>3. CASE \E a \in Live : pointer = moved[a]
      <3>1. PICK a \in Live : pointer = moved[a]
        BY <2>3
      <3>2. end[a] <= top /\ end[a] = moved[a] + Extents[a]
        BY <1>4, <1>6
      <3> QED BY <1>4, <3>1, <3>2
    <2> QED BY <1>6, <2>2, <2>3
  <1> QED BY <1>7, <1>8

-----------------------------------------------------------------------------
(***************************************************************************)
(* Allocations, in the space in use or in the one just collected into.     *)
(***************************************************************************)
LEMMA AllocatedIs ==
  ASSUME NEW h, NEW ids, born \in Nat, IsHeap(h, ids, born),
         NEW pointer \in Int, NEW top \in Int, Fills(h, pointer, top),
         NEW size \in Nat, NEW bin \in BOOLEAN, NEW words \in SUBSET Words(h),
         Allocated(h, ids, words, pointer, size, bin)
  PROVE  /\ memoryPointer' = pointer - Extent(size, bin)
         /\ born' = born + 1 /\ fresh' \in DOMAIN heap' /\ id'[fresh'] = born'
         /\ IsHeap(heap', id', born') /\ Fills(heap', memoryPointer', top)
         /\ Words(h) \subseteq Words(heap')
         /\ \A w \in Words(h) : NameIn(heap', id', w) = NameIn(h, ids, w)
         /\ born' \notin Ids(h, ids)
         /\ \E class \in {NameIn(h, ids, w) : w \in words} \cup {born'} :
              GraphOf(heap', id') = WithNew(GraphOf(h, ids), Ids(h, ids), born', size, bin, class)
  <1> DEFINE a == pointer - Extent(size, bin)
  <1>1. /\ memoryPointer' = a /\ fresh' = a /\ born' = born + 1
        /\ id' = [b \in DOMAIN ids \cup {a} |-> IF b = a THEN born + 1 ELSE ids[b]]
    BY DEF Allocated
  <1>2. PICK class \in (words \cap DOMAIN h) \cup {a} :
          heap' = [b \in DOMAIN h \cup {a} |->
                     IF b = a THEN Unset(size, bin, class) ELSE h[b]]
    BY DEF Allocated
  <1>3. DOMAIN ids = DOMAIN h
    BY DEF IsHeap
  <1> HIDE DEF a
  <1>4. a = pointer - Extent(size, bin)
    BY DEF a
  <1>5. Extended(h, ids, born, size, bin, class, a, heap', id')
    BY <1>1, <1>2, <1>3 DEF Extended
  <1>6. /\ a \in Int /\ a \notin DOMAIN h
        /\ IsHeap(heap', id', born + 1)
        /\ Fills(heap', a, top)
        /\ Words(h) \subseteq Words(heap') /\ a \in DOMAIN heap'
        /\ \A w \in Words(h) : NameIn(heap', id', w) = NameIn(h, ids, w)
    BY <1>4, <1>5, ExtendedIsHeap
  <1>7. /\ born + 1 \notin Ids(h, ids)
        /\ GraphOf(heap', id') =
             WithNew(GraphOf(h, ids), Ids(h, ids), born + 1, size, bin, NameIn(heap', id', class))
    BY <1>4, <1>5, ExtendedGraph
  <1>8. id'[a] = born + 1
    BY <1>1
  <1>9. NameIn(heap', id', class) \in {NameIn(h, ids, w) : w \in words} \cup {born + 1}
    <2>1. CASE class \in words
      BY <1>6, <2>1
    <2>2. CASE class = a
      BY <1>6, <1>8, <2>2 DEF NameIn
    <2> QED BY <2>1, <2>2
  <1> QED BY <1>1, <1>4, <1>6, <1>7, <1>8, <1>9

\* The words of the roots
LEMMA RootWords ==
  ASSUME IInv
  PROVE  /\ Roots \subseteq Words(heap)
         /\ \A w \in Roots : w \in DOMAIN heap => w \in Live
         /\ Registered \subseteq Global
  <1>1. Registered \subseteq Global
    BY DEF IInv, Registered
  <1>2. \A i \in DOMAIN rootStack : rootStack[i] \in Words(heap)
    BY DEF IInv
  <1>3. Roots \subseteq Words(heap)
    BY <1>2 DEF IInv, Roots
  <1> QED BY <1>1, <1>3, LiveIs

\* Of the graph an allocation keeps what can be reached, and the roots keep
\* their names.
KeepsNames ==
  /\ staticRoots' = staticRoots
  /\ DOMAIN rootStack' = DOMAIN rootStack
  /\ \A i \in DOMAIN rootStack :
       NameIn(heap', id', rootStack'[i]) = NameIn(heap, id, rootStack[i])
  /\ \A g \in Registered :
       NameIn(heap', id', global'[g]) = NameIn(heap, id, global[g])

Grown(size, bin) ==
  /\ stopped' = stopped /\ born' = born + 1
  /\ fresh' \in DOMAIN heap' /\ id'[fresh'] = born'
  /\ KeepsNames
  /\ \E kept \in SUBSET Ids(heap, id),
        class \in {NameIn(heap, id, w) : w \in Roots} \cup {born'} :
       /\ {id[a] : a \in Live} \subseteq kept
       /\ GraphOf(heap', id') = WithNew(GraphOf(heap, id), kept, born', size, bin, class)

LEMMA gcallocStep ==
  ASSUME IInv, NEW size \in Nat, NEW bin \in BOOLEAN, gcalloc(size, bin)
  PROVE  IInv' /\ Grown(size, bin)
  <1>1. /\ born \in Nat /\ IsHeap(heap, id, born) /\ Fills(heap, memoryPointer, memoryTop)
        /\ memoryPointer \in Int /\ memoryTop \in Int /\ memoryBase \in Int
        /\ memoryPointer <= memoryTop
    BY SpaceIs DEF IInv
  <1>2. /\ HasRoom(memoryPointer, size, bin, memoryBase)
        /\ Allocated(heap, id, Roots, memoryPointer, size, bin)
        /\ inSpaceOne' = inSpaceOne /\ stopped' = stopped /\ staticRoots' = staticRoots
        /\ rootStack' = rootStack /\ global' = global
    BY DEF gcalloc, roots
  <1>3. /\ memoryPointer' = memoryPointer - Extent(size, bin)
        /\ born' = born + 1 /\ fresh' \in DOMAIN heap' /\ id'[fresh'] = born'
        /\ IsHeap(heap', id', born') /\ Fills(heap', memoryPointer', memoryTop)
        /\ Words(heap) \subseteq Words(heap')
        /\ \A w \in Words(heap) : NameIn(heap', id', w) = NameIn(heap, id, w)
        /\ \E class \in {NameIn(heap, id, w) : w \in Roots} \cup {born'} :
             GraphOf(heap', id')
               = WithNew(GraphOf(heap, id), Ids(heap, id), born', size, bin, class)
    BY <1>1, <1>2, RootWords, AllocatedIs
  <1>4. memoryBase' = memoryBase /\ memoryTop' = memoryTop
    BY <1>2 DEF memoryBase, memoryTop
  <1>5. memoryPointer' \in memoryBase'..memoryTop'
    BY <1>1, <1>2, <1>3, <1>4, ExtentType DEF HasRoom
  <1>6. \A i \in DOMAIN rootStack : rootStack[i] \in Words(heap)
    BY DEF IInv
  <1>7. rootStack' \in Seq(Words(heap'))
    BY <1>2, <1>3, <1>6 DEF IInv
  <1>8. \A g \in Registered : global[g] \in Words(heap)
    BY DEF IInv
  <1>9. Registered' = Registered
    BY <1>2 DEF Registered
  <1>10. IInv'
    <2>1. fresh' \in Words(heap')
      BY <1>3 DEF Words
    <2>2. \A g \in Registered' : global'[g] \in Words(heap')
      BY <1>2, <1>3, <1>8, <1>9
    <2> QED BY <1>2, <1>3, <1>4, <1>5, <1>7, <2>1, <2>2 DEF IInv
  <1>11. KeepsNames
    BY <1>2, <1>3, <1>6, <1>8 DEF KeepsNames
  <1>12. {id[a] : a \in Live} \subseteq Ids(heap, id)
    BY LiveIs DEF Ids
  <1> QED BY <1>2, <1>3, <1>10, <1>11, <1>12 DEF Grown

\* A collection that ends the program leaves no room for the request next to
\* the objects in use; any other one keeps those.
LEMMA gcollectStep ==
  ASSUME IInv, NEW size \in Nat, NEW bin \in BOOLEAN, gcollect(size, bin), ~stopped
  PROVE  \/ /\ stopped' /\ UNCHANGED <<roots, space, heap, fresh>>
            /\ Extent(size, bin) + SumFunctionOnSet(Extents, Live) > spaceSize
         \/ IInv' /\ Grown(size, bin)
  <1> DEFINE base == BaseOf(~inSpaceOne)
             top == base + spaceSize
  <1>1. base \in Int /\ top \in Int /\ spaceSize \in Nat
    BY SpaceIs
  <1>2. PICK moved \in Placements(top) :
          LET new == Copied(moved)
              pointer == Min(DOMAIN new.objects \cup {top})
          IN IF ~HasRoom(pointer, size, bin, base)
             THEN /\ stopped' = TRUE
                  /\ UNCHANGED <<roots, space, heap, fresh>>
             ELSE /\ inSpaceOne' = ~inSpaceOne
                  /\ Allocated(new.objects, new.ids, new.roots, pointer, size, bin)
                  /\ rootStack' = new.rootStack
                  /\ global' = new.global
                  /\ UNCHANGED <<staticRoots, stopped>>
    BY DEF gcollect
  <1>3. PICK h, ids : h = Copied(moved).objects /\ ids = Copied(moved).ids
    OBVIOUS
  <1>4. PICK pointer : pointer = Min(DOMAIN h \cup {top})
    OBVIOUS
  <1>5. \/ /\ ~HasRoom(pointer, size, bin, base)
           /\ stopped' /\ UNCHANGED <<roots, space, heap, fresh>>
        \/ /\ HasRoom(pointer, size, bin, base)
           /\ inSpaceOne' = ~inSpaceOne
           /\ Allocated(h, ids, Copied(moved).roots, pointer, size, bin)
           /\ rootStack' = Copied(moved).rootStack
           /\ global' = Copied(moved).global
           /\ staticRoots' = staticRoots /\ stopped' = stopped
    BY <1>2, <1>3, <1>4
  <1> HIDE DEF top
  <1>6. /\ moved \in [Live -> Int] /\ IsCopy(moved, h, ids)
        /\ SumFunctionOnSet(Extents, Live) \in Nat
    BY <1>1, <1>3, Placement, CopiedIs
  <1>7. IsHeap(h, ids, born)
    BY <1>6, CollectedIsHeap
  <1>8. /\ Fills(h, pointer, top)
        /\ pointer \in Int /\ top - spaceSize <= pointer /\ pointer <= top
        /\ top - pointer <= SumFunctionOnSet(Extents, Live)
    BY <1>1, <1>4, <1>6, CollectedFills
  <1>9. top = base + spaceSize
    BY DEF top
  <1> HIDE DEF base
  <1>10. Extent(size, bin) \in Nat
    BY ExtentType
  <1>11. CASE ~HasRoom(pointer, size, bin, base)
    <2>1. Extent(size, bin) + SumFunctionOnSet(Extents, Live) > spaceSize
      BY <1>1, <1>6, <1>8, <1>9, <1>10, <1>11 DEF HasRoom
    <2> QED BY <1>5, <1>11, <2>1
  <1>12. CASE HasRoom(pointer, size, bin, base)
    <2>1. /\ inSpaceOne' = ~inSpaceOne
          /\ Allocated(h, ids, Copied(moved).roots, pointer, size, bin)
          /\ staticRoots' = staticRoots /\ stopped' = stopped
          /\ rootStack' = [i \in DOMAIN rootStack |-> Moved(rootStack[i], moved)]
          /\ global' = MovedGlobals(moved)
      BY <1>5, <1>12 DEF Copied
    <2>2. Copied(moved).roots = {Moved(w, moved) : w \in Roots}
      BY DEF Copied
    <2>3. ASSUME NEW w \in Roots
          PROVE  /\ Moved(w, moved) \in Words(h)
                 /\ NameIn(h, ids, Moved(w, moved)) = NameIn(heap, id, w)
      BY <1>6, RootWords, MovedNames
    <2>4. Copied(moved).roots \in SUBSET Words(h)
      BY <2>2, <2>3
    <2>5. /\ memoryPointer' = pointer - Extent(size, bin)
          /\ born' = born + 1 /\ fresh' \in DOMAIN heap' /\ id'[fresh'] = born'
          /\ IsHeap(heap', id', born') /\ Fills(heap', memoryPointer', top)
          /\ Words(h) \subseteq Words(heap')
          /\ \A w \in Words(h) : NameIn(heap', id', w) = NameIn(h, ids, w)
          /\ born' \notin Ids(h, ids)
          /\ \E class \in {NameIn(h, ids, w) : w \in Copied(moved).roots} \cup {born'} :
               GraphOf(heap', id') = WithNew(GraphOf(h, ids), Ids(h, ids), born', size, bin, class)
      <3>1. born \in Nat
        BY DEF IInv
      <3> QED BY <1>1, <1>7, <1>8, <1>9, <2>1, <2>4, <3>1, AllocatedIs
    <2>6. memoryBase' = base /\ memoryTop' = top
      BY <1>9, <2>1 DEF memoryBase, memoryTop, base
    <2>7. memoryPointer' \in memoryBase'..memoryTop'
      BY <1>1, <1>8, <1>9, <1>10, <1>12, <2>5, <2>6 DEF HasRoom
    <2>8. ASSUME NEW w \in Roots
          PROVE  /\ Moved(w, moved) \in Words(heap')
                 /\ NameIn(heap', id', Moved(w, moved)) = NameIn(heap, id, w)
      BY <2>3, <2>5
    <2>9. /\ \A i \in DOMAIN rootStack : rootStack[i] \in Roots
          /\ \A g \in Registered : global[g] \in Roots
      BY DEF Roots
    <2>10. /\ DOMAIN rootStack' = DOMAIN rootStack
           /\ \A i \in DOMAIN rootStack : rootStack'[i] = Moved(rootStack[i], moved)
           /\ DOMAIN global' = Global
           /\ \A g \in Registered : global'[g] = Moved(global[g], moved)
      BY <2>1, RootWords DEF MovedGlobals
    <2>11. rootStack' \in Seq(Words(heap'))
      <3>1. Len(rootStack) \in Nat /\ DOMAIN rootStack = 1..Len(rootStack)
        BY DEF IInv
      <3>2. \A i \in DOMAIN rootStack : rootStack'[i] \in Words(heap')
        BY <2>8, <2>9, <2>10
      <3>3. rootStack' = [i \in 1..Len(rootStack) |-> rootStack'[i]]
        BY <2>1, <3>1
      <3> QED BY <2>10, <3>1, <3>2, <3>3
    <2>12. Registered' = Registered
      BY <2>1 DEF Registered
    <2>13. IInv'
      <3>1. fresh' \in Words(heap')
        BY <2>5 DEF Words
      <3>2. \A g \in Registered' : global'[g] \in Words(heap')
        BY <2>8, <2>9, <2>10, <2>12
      <3>3. born' \in Nat /\ inSpaceOne' \in BOOLEAN /\ stopped' \in BOOLEAN
        BY <2>1, <2>5 DEF IInv
      <3>4. /\ staticRoots' \in Seq(Global) /\ Len(staticRoots') <= STATICROOTLIMIT
            /\ \A i, j \in DOMAIN staticRoots' : staticRoots'[i] = staticRoots'[j] => i = j
        BY <2>1 DEF IInv
      <3> QED BY <2>5, <2>6, <2>7, <2>10, <2>11, <3>1, <3>2, <3>3, <3>4 DEF IInv
    <2>14. KeepsNames
      BY <2>1, <2>8, <2>9, <2>10 DEF KeepsNames
    <2>15. /\ Ids(h, ids) = {id[a] : a \in Live}
           /\ Ids(h, ids) \subseteq Ids(heap, id)
           /\ \A i \in Ids(h, ids) : GraphOf(h, ids)[i] = GraphOf(heap, id)[i]
      BY <1>6, CollectedGraph
    <2>16. PICK class \in {NameIn(h, ids, w) : w \in Copied(moved).roots} \cup {born'} :
             GraphOf(heap', id') = WithNew(GraphOf(h, ids), Ids(h, ids), born', size, bin, class)
      BY <2>5
    <2>17. class \in {NameIn(heap, id, w) : w \in Roots} \cup {born'}
      BY <2>2, <2>3, <2>16
    <2>18. GraphOf(heap', id') = WithNew(GraphOf(heap, id), Ids(h, ids), born', size, bin, class)
      BY <2>5, <2>15, <2>16 DEF WithNew
    <2> QED BY <2>1, <2>5, <2>13, <2>14, <2>15, <2>17, <2>18 DEF Grown
  <1> QED BY <1>11, <1>12

-----------------------------------------------------------------------------
(***************************************************************************)
(* Steps that leave the objects where they are.                            *)
(***************************************************************************)
LEMMA FillsAsBefore ==
  ASSUME NEW h, NEW h2, NEW pointer, NEW top, Fills(h, pointer, top), DOMAIN h2 = DOMAIN h,
         \A a \in DOMAIN h : h2[a].size = h[a].size /\ h2[a].bin = h[a].bin
  PROVE  Fills(h2, pointer, top)
  <1>1. \A a \in DOMAIN h : EndIn(h2, a) = EndIn(h, a)
    BY DEF EndIn
  <1> QED BY <1>1, FillsDef

LEMMA FieldOf ==
  ASSUME NEW o, NEW k, NEW w,
         o = [size |-> o.size, bin |-> o.bin, class |-> o.class, data |-> o.data]
  PROVE  [o EXCEPT !.data[k] = w]
           = [size |-> o.size, bin |-> o.bin, class |-> o.class, data |-> [o.data EXCEPT ![k] = w]]
  <1>1. PICK size, bin, c, d : o = [size |-> size, bin |-> bin, class |-> c, data |-> d]
    OBVIOUS
  <1>2. o.size = size /\ o.bin = bin /\ o.class = c /\ o.data = d
    BY <1>1
  <1>3. PICK data : data = [d EXCEPT ![k] = w]
    OBVIOUS
  <1>4. [o EXCEPT !.data[k] = w] = [o EXCEPT !.data = data]
    BY <1>2, <1>3
  <1>5. [[size |-> size, bin |-> bin, class |-> c, data |-> d] EXCEPT !.data = data]
          = [size |-> size, bin |-> bin, class |-> c, data |-> data]
    OBVIOUS
  <1> QED BY <1>1, <1>2, <1>3, <1>4, <1>5

LEMMA NamedIs == Named \subseteq DOMAIN heap
  BY LiveIs DEF Named

LEMMA SetFieldStep ==
  ASSUME IInv, NEW a \in Named, NEW k \in DOMAIN heap[a].data, NEW w \in Plain \cup Named,
         SetField(a, k, w)
  PROVE  /\ IInv'
         /\ DOMAIN heap' = DOMAIN heap
         /\ GraphOf(heap', id')
              = [GraphOf(heap, id) EXCEPT ![id[a]].data[k] = NameIn(heap, id, w)]
  <1>1. /\ heap' = [heap EXCEPT ![a].data[k] = w]
        /\ rootStack' = rootStack /\ staticRoots' = staticRoots /\ global' = global
        /\ inSpaceOne' = inSpaceOne /\ memoryPointer' = memoryPointer
        /\ id' = id /\ born' = born /\ fresh' = fresh /\ stopped' = stopped
    BY DEF SetField, roots, space
  <1>2. a \in DOMAIN heap /\ w \in Words(heap)
    BY NamedIs DEF Words
  <1>3. /\ IsHeap(heap, id, born)
        /\ \A b \in DOMAIN heap : IsObject(heap[b], Words(heap))
    BY DEF IInv, IsHeap
  <1>4. PICK o : o = [size |-> heap[a].size, bin |-> heap[a].bin, class |-> heap[a].class,
                      data |-> [heap[a].data EXCEPT ![k] = w]]
    OBVIOUS
  <1>5. /\ DOMAIN heap' = DOMAIN heap /\ heap' = [b \in DOMAIN heap |-> heap'[b]]
        /\ heap'[a] = o
        /\ \A b \in DOMAIN heap : b # a => heap'[b] = heap[b]
    <2>1. heap = [b \in DOMAIN heap |-> heap[b]]
      BY <1>3 DEF IsHeap
    <2>2. o = [heap[a] EXCEPT !.data[k] = w]
      <3>1. PICK p : p = heap[a]
        OBVIOUS
      <3>2. p = [size |-> p.size, bin |-> p.bin, class |-> p.class, data |-> p.data]
        BY <1>2, <1>3, <3>1 DEF IsObject
      <3>3. [p EXCEPT !.data[k] = w]
              = [size |-> p.size, bin |-> p.bin, class |-> p.class, data |-> [p.data EXCEPT ![k] = w]]
        BY <3>2, FieldOf
      <3> QED BY <1>4, <3>1, <3>3
    <2>3. heap' = [heap EXCEPT ![a] = o]
      BY <1>1, <2>1, <2>2
    <2> QED BY <1>2, <2>1, <2>3
  <1>6. Words(heap') = Words(heap)
    BY <1>5 DEF Words
  <1>7. IsObject(o, Words(heap))
    <2>1. heap[a].data \in [IF heap[a].bin THEN {} ELSE 0..(heap[a].size - 1) -> Words(heap)]
      BY <1>2, <1>3 DEF IsObject
    <2>2. [heap[a].data EXCEPT ![k] = w]
            \in [IF heap[a].bin THEN {} ELSE 0..(heap[a].size - 1) -> Words(heap)]
      BY <1>2, <2>1
    <2> QED BY <1>2, <1>3, <1>4, <2>2 DEF IsObject
  <1>8. IsHeap(heap', id', born')
    <2>1. \A b \in DOMAIN heap' : IsObject(heap'[b], Words(heap'))
      BY <1>3, <1>5, <1>6, <1>7
    <2> QED BY <1>1, <1>3, <1>5, <2>1 DEF IsHeap
  <1>9. Fills(heap', memoryPointer', memoryTop')
    <2>1. \A b \in DOMAIN heap : heap'[b].size = heap[b].size /\ heap'[b].bin = heap[b].bin
      BY <1>4, <1>5
    <2>2. memoryTop' = memoryTop /\ Fills(heap, memoryPointer, memoryTop)
      BY <1>1 DEF IInv, memoryTop, memoryBase
    <2> QED BY <1>1, <1>5, <2>1, <2>2, FillsAsBefore
  <1>10. IInv'
    <2>1. Registered' = Registered
      BY <1>1 DEF Registered
    <2>2. memoryBase' = memoryBase /\ memoryTop' = memoryTop
      BY <1>1 DEF memoryTop, memoryBase
    <2> QED BY <1>1, <1>6, <1>8, <1>9, <2>1, <2>2 DEF IInv
  <1> DEFINE G == [GraphOf(heap, id) EXCEPT ![id[a]].data[k] = NameIn(heap, id, w)]
  <1>11. GraphOf(heap', id') = G
    <2>1. /\ DOMAIN GraphOf(heap, id) = {id[b] : b \in DOMAIN heap}
          /\ GraphOf(heap, id) = [i \in DOMAIN GraphOf(heap, id) |-> GraphOf(heap, id)[i]]
      BY GraphDomain DEF GraphOf
    <2>2. /\ DOMAIN G = {id[b] : b \in DOMAIN heap}
          /\ G = [i \in DOMAIN G |-> G[i]]
      BY <2>1
    <2>3. \A v : NameIn(heap', id', v) = NameIn(heap, id, v)
      BY <1>1, <1>5 DEF NameIn
    <2>4. ASSUME NEW b \in DOMAIN heap PROVE G[id[b]] = NamedIn(heap', id', heap'[b])
      <3>1. GraphOf(heap, id)[id[b]] = NamedIn(heap, id, heap[b])
        BY <1>3, GraphAt
      <3>2. CASE b # a
        <4>1. id[b] # id[a]
          BY <1>2, <1>3, <3>2 DEF IsHeap
        <4>2. G[id[b]] = GraphOf(heap, id)[id[b]]
          BY <2>1, <4>1
        <4>3. NamedIn(heap', id', heap[b]) = NamedIn(heap, id, heap[b])
          BY <2>3 DEF NamedIn
        <4> QED BY <1>5, <3>1, <3>2, <4>2, <4>3
      <3>3. CASE b = a
        <4>1. PICK n : n = NamedIn(heap, id, heap[a])
          OBVIOUS
        <4>2. G[id[a]] = [n EXCEPT !.data[k] = NameIn(heap, id, w)]
          BY <1>2, <2>1, <3>1, <3>3, <4>1
        <4>3. /\ n = [size |-> n.size, bin |-> n.bin, class |-> n.class, data |-> n.data]
              /\ n.size = heap[a].size /\ n.bin = heap[a].bin
              /\ n.class = NameIn(heap, id, heap[a].class)
              /\ n.data = [j \in DOMAIN heap[a].data |-> NameIn(heap, id, heap[a].data[j])]
          BY <4>1 DEF NamedIn
        <4>4. [n.data EXCEPT ![k] = NameIn(heap, id, w)]
                = [j \in DOMAIN o.data |-> NameIn(heap', id', o.data[j])]
          BY <1>4, <2>3, <4>3
        <4>5. G[id[a]] = [size |-> n.size, bin |-> n.bin, class |-> n.class,
                          data |-> [n.data EXCEPT ![k] = NameIn(heap, id, w)]]
          BY <4>2, <4>3, FieldOf
        <4>6. NamedIn(heap', id', o)
                = [size |-> n.size, bin |-> n.bin, class |-> n.class,
                   data |-> [j \in DOMAIN o.data |-> NameIn(heap', id', o.data[j])]]
          BY <1>4, <2>3, <4>3 DEF NamedIn
        <4> QED BY <1>5, <3>3, <4>4, <4>5, <4>6
      <3> QED BY <3>2, <3>3
    <2>5. DOMAIN G = {id'[b] : b \in DOMAIN heap'}
      BY <1>1, <1>5, <2>2
    <2>6. \A b \in DOMAIN heap' : G[id'[b]] = NamedIn(heap', id', heap'[b])
      BY <1>1, <1>5, <2>4
    <2> HIDE DEF G
    <2> QED BY <1>8, <2>2, <2>5, <2>6, GraphIs
  <1> QED BY <1>5, <1>10, <1>11

LEMMA PushStep ==
  ASSUME IInv, NEW w \in Named, PUSH_ROOT(w)
  PROVE  IInv'
  <1>1. /\ rootStack' = Append(rootStack, w)
        /\ heap' = heap /\ staticRoots' = staticRoots /\ global' = global
        /\ inSpaceOne' = inSpaceOne /\ memoryPointer' = memoryPointer
        /\ id' = id /\ born' = born /\ fresh' = fresh /\ stopped' = stopped
    BY DEF PUSH_ROOT, space
  <1>2. w \in Words(heap)
    BY NamedIs DEF Words
  <1>3. rootStack' \in Seq(Words(heap))
    BY <1>1, <1>2 DEF IInv
  <1>4. Registered' = Registered /\ memoryBase' = memoryBase /\ memoryTop' = memoryTop
    BY <1>1 DEF Registered, memoryTop, memoryBase
  <1> QED BY <1>1, <1>3, <1>4 DEF IInv

LEMMA PopStep ==
  ASSUME IInv, POP_ROOT
  PROVE  IInv'
  <1>1. /\ rootStack # <<>>
        /\ fresh' = rootStack[Len(rootStack)]
        /\ rootStack' = SubSeq(rootStack, 1, Len(rootStack) - 1)
        /\ heap' = heap /\ staticRoots' = staticRoots /\ global' = global
        /\ inSpaceOne' = inSpaceOne /\ memoryPointer' = memoryPointer
        /\ id' = id /\ born' = born /\ stopped' = stopped
    BY DEF POP_ROOT, space
  <1>2. rootStack \in Seq(Words(heap))
    BY DEF IInv
  <1>3. fresh' \in Words(heap) /\ rootStack' \in Seq(Words(heap))
    BY <1>1, <1>2
  <1>4. Registered' = Registered /\ memoryBase' = memoryBase /\ memoryTop' = memoryTop
    BY <1>1 DEF Registered, memoryTop, memoryBase
  <1> QED BY <1>1, <1>3, <1>4 DEF IInv

\* A table that is full holds every one of its roots once.
LEMMA RegisteredCount ==
  ASSUME IInv
  PROVE  Cardinality(Registered) = Len(staticRoots)
  <1>1. Len(staticRoots) \in Nat /\ DOMAIN staticRoots = 1..Len(staticRoots)
    BY DEF IInv
  <1>2. \A i, j \in 1..Len(staticRoots) : staticRoots[i] = staticRoots[j] => i = j
    BY <1>1 DEF IInv
  <1> DEFINE f == [i \in 1..Len(staticRoots) |-> staticRoots[i]]
  <1>3. f \in Bijection(1..Len(staticRoots), Registered)
    <2>1. \A g \in Registered : \E i \in 1..Len(staticRoots) : f[i] = g
      BY <1>1 DEF Registered
    <2>2. f \in [1..Len(staticRoots) -> Registered]
      BY <1>1 DEF Registered
    <2>3. \A i, j \in 1..Len(staticRoots) : f[i] = f[j] => i = j
      BY <1>2
    <2> HIDE DEF f
    <2>4. DOMAIN f = 1..Len(staticRoots)
      BY <2>2
    <2> QED BY <2>1, <2>2, <2>3, <2>4 DEF Bijection, Injection, Surjection, IsInjective
  <1>4. ExistsBijection(1..Len(staticRoots), Registered)
    BY <1>3 DEF ExistsBijection
  <1> QED BY <1>1, <1>4, FS_CountingElements

\* The table is full and g is not in it; or g is in it afterwards.
LEMMA addStaticRootStep ==
  ASSUME IInv, ~stopped, NEW g \in Global, NEW w \in Named, addStaticRoot(g, w)
  PROVE  /\ heap' = heap /\ rootStack' = rootStack /\ id' = id /\ born' = born /\ fresh' = fresh
         /\ IInv'
         /\ \/ /\ stopped' /\ staticRoots' = staticRoots /\ global' = global
               /\ Cardinality(Registered) = STATICROOTLIMIT /\ Registered # Global
            \/ /\ stopped' = stopped
               /\ Registered' = Registered \cup {g}
               /\ global' = [global EXCEPT ![g] = w]
  <1>1. /\ heap' = heap /\ rootStack' = rootStack
        /\ inSpaceOne' = inSpaceOne /\ memoryPointer' = memoryPointer
        /\ id' = id /\ born' = born /\ fresh' = fresh
        /\ memoryBase' = memoryBase /\ memoryTop' = memoryTop
    BY DEF addStaticRoot, space, memoryBase, memoryTop
  <1>2. /\ staticRoots \in Seq(Global) /\ Len(staticRoots) <= STATICROOTLIMIT
        /\ \A i, j \in DOMAIN staticRoots : staticRoots[i] = staticRoots[j] => i = j
        /\ DOMAIN global = Global /\ stopped \in BOOLEAN
        /\ \A h \in Registered : global[h] \in Words(heap)
    BY DEF IInv
  <1>3. w \in Words(heap)
    BY NamedIs DEF Words
  <1>4. CASE g \in Registered
    <2>1. staticRoots' = staticRoots /\ stopped' = stopped /\ global' = [global EXCEPT ![g] = w]
      BY <1>4 DEF addStaticRoot
    <2>2. Registered' = Registered
      BY <2>1 DEF Registered
    <2>3. \A h \in Registered' : global'[h] \in Words(heap')
      BY <1>1, <1>2, <1>3, <2>1, <2>2, RootWords
    <2>4. IInv'
      BY <1>1, <1>2, <2>1, <2>3 DEF IInv
    <2> QED BY <1>1, <1>4, <2>1, <2>2, <2>4
  <1>5. CASE g \notin Registered /\ Len(staticRoots) >= STATICROOTLIMIT
    <2>1. stopped' /\ staticRoots' = staticRoots /\ global' = global
      BY <1>5 DEF addStaticRoot
    <2>2. Registered' = Registered
      BY <2>1 DEF Registered
    <2>3. Cardinality(Registered) = STATICROOTLIMIT
      BY <1>2, <1>5, RegisteredCount, MemoryAssumption
    <2>4. stopped' \in BOOLEAN
      BY <1>5 DEF addStaticRoot
    <2>5. IInv'
      BY <1>1, <1>2, <2>1, <2>2, <2>4 DEF IInv
    <2> QED BY <1>1, <1>5, <2>1, <2>3, <2>5
  <1>6. CASE g \notin Registered /\ ~(Len(staticRoots) >= STATICROOTLIMIT)
    <2>1. /\ staticRoots' = Append(staticRoots, g) /\ stopped' = stopped
          /\ global' = [global EXCEPT ![g] = w]
      BY <1>6 DEF addStaticRoot
    <2>2. /\ Len(staticRoots') = Len(staticRoots) + 1 /\ staticRoots' \in Seq(Global)
          /\ DOMAIN staticRoots' = DOMAIN staticRoots \cup {Len(staticRoots) + 1}
          /\ \A i \in DOMAIN staticRoots : staticRoots'[i] = staticRoots[i]
          /\ staticRoots'[Len(staticRoots) + 1] = g
      BY <1>2, <2>1
    <2>3. Registered' = Registered \cup {g}
      BY <2>2 DEF Registered
    <2>4. \A i, j \in DOMAIN staticRoots' : staticRoots'[i] = staticRoots'[j] => i = j
      <3>1. \A i \in DOMAIN staticRoots : staticRoots[i] # g
        BY <1>6 DEF Registered
      <3> QED BY <1>2, <2>2, <3>1
    <2>5. Len(staticRoots') <= STATICROOTLIMIT
      BY <1>2, <1>6, <2>2, MemoryAssumption
    <2>6. \A h \in Registered' : global'[h] \in Words(heap')
      BY <1>1, <1>2, <1>3, <2>1, <2>3, RootWords
    <2>7. DOMAIN global' = Global
      BY <1>2, <2>1
    <2>8. IInv'
      <3>1. stopped' \in BOOLEAN
        BY <1>2, <2>1
      <3> QED BY <1>1, <2>2, <2>4, <2>5, <2>6, <2>7, <3>1 DEF IInv
    <2> QED BY <1>1, <2>1, <2>3, <2>8
  <1> QED BY <1>4, <1>5, <1>6

-----------------------------------------------------------------------------
(***************************************************************************)
(* The exchange of identities.                                             *)
(***************************************************************************)
\* In a space that is packed the walk comes to every object.
LEMMA AllWalked == ASSUME IInv PROVE Walked = DOMAIN heap
  <1>1. \A a \in DOMAIN heap : EndIn(heap, a) = EndOf(a)
    BY DEF EndIn, EndOf, Extents
  <1>2. \A S \in SUBSET DOMAIN heap :
          S = DOMAIN heap \/ \E a \in DOMAIN heap \ S :
                               a = memoryPointer \/ \E b \in S : EndIn(heap, b) = a
    BY FillsDef DEF IInv
  <1>3. ASSUME NEW S \in SUBSET DOMAIN heap,
               ({EndOf(a) : a \in S} \cup {memoryPointer}) \cap DOMAIN heap \subseteq S
        PROVE  S = DOMAIN heap
    BY <1>1, <1>2, <1>3
  <1> QED BY <1>3 DEF Walked

LEMMA MapIs ==
  ASSUME IInv, NEW array1 \in DOMAIN heap, NEW array2 \in DOMAIN heap,
         Exchangeable(array1, array2), NEW w
  PROVE  LET A == heap[array1].data
             B == heap[array2].data
         IN /\ DOMAIN A = DOMAIN B
            /\ \A k \in DOMAIN A : A[k] \in DOMAIN heap /\ B[k] \in DOMAIN heap
            /\ \A j, k \in DOMAIN A : A[j] = A[k] \/ B[j] = B[k] => j = k
            /\ \A k \in DOMAIN A : A[k] = w => map(w, array1, array2) = B[k]
            /\ \A k \in DOMAIN A : B[k] = w => map(w, array1, array2) = A[k]
            /\ (\A k \in DOMAIN A : A[k] # w /\ B[k] # w) => map(w, array1, array2) = w
  <1> DEFINE A == heap[array1].data
             B == heap[array2].data
             found == {x \in DOMAIN A : A[x] = w \/ B[x] = w}
  <1>1. /\ DOMAIN A = DOMAIN B
        /\ \A k \in DOMAIN A : A[k] \in DOMAIN heap /\ B[k] \in DOMAIN heap
        /\ \A j, k \in DOMAIN A : A[j] = A[k] \/ A[j] = B[k] \/ B[j] = B[k] => j = k
    BY DEF Exchangeable
  <1>2. \A j, k \in found : j = k
    BY <1>1
  <1>3. DOMAIN A \subseteq Int
    <2>1. IsObject(heap[array1], Words(heap))
      BY DEF IInv, IsHeap
    <2> QED BY <2>1 DEF IsObject
  <1>4. map(w, array1, array2)
          = IF found = {} THEN w
            ELSE IF A[Min(found)] = w THEN B[Min(found)] ELSE A[Min(found)]
    BY DEF map
  <1>5. ASSUME NEW k \in found PROVE Min(found) = k
    <2>1. found = {k} /\ k \in Int
      BY <1>2, <1>3
    <2> HIDE DEF found
    <2> QED BY <2>1 DEF Min
  <1> QED BY <1>1, <1>4, <1>5

LEMMA MapWords ==
  ASSUME IInv, NEW array1 \in DOMAIN heap, NEW array2 \in DOMAIN heap,
         Exchangeable(array1, array2), NEW w \in Words(heap)
  PROVE  map(w, array1, array2) \in Words(heap)
  BY MapIs DEF Words

\* What an exchange makes of a reference in the graph
PartnerIn(G, i, j, w) ==
  IF \E k \in DOMAIN G[i].data : G[i].data[k] = w
  THEN G[j].data[CHOOSE k \in DOMAIN G[i].data : G[i].data[k] = w]
  ELSE IF \E k \in DOMAIN G[j].data : G[j].data[k] = w
  THEN G[i].data[CHOOSE k \in DOMAIN G[j].data : G[j].data[k] = w]
  ELSE w

LEMMA PartnerIs ==
  ASSUME IInv, NEW array1 \in DOMAIN heap, NEW array2 \in DOMAIN heap,
         Exchangeable(array1, array2), NEW w \in Words(heap)
  PROVE  PartnerIn(GraphOf(heap, id), id[array1], id[array2], NameIn(heap, id, w))
           = NameIn(heap, id, map(w, array1, array2))
  <1> DEFINE A == heap[array1].data
             B == heap[array2].data
             NA == GraphOf(heap, id)[id[array1]].data
             NB == GraphOf(heap, id)[id[array2]].data
             v == NameIn(heap, id, w)
  <1>1. /\ DOMAIN A = DOMAIN B
        /\ \A k \in DOMAIN A : A[k] \in DOMAIN heap /\ B[k] \in DOMAIN heap
        /\ \A j, k \in DOMAIN A : A[j] = A[k] \/ B[j] = B[k] => j = k
        /\ \A k \in DOMAIN A : A[k] = w => map(w, array1, array2) = B[k]
        /\ \A k \in DOMAIN A : B[k] = w => map(w, array1, array2) = A[k]
        /\ (\A k \in DOMAIN A : A[k] # w /\ B[k] # w) => map(w, array1, array2) = w
    BY MapIs
  <1>2. /\ NA = [k \in DOMAIN A |-> NameIn(heap, id, A[k])]
        /\ NB = [k \in DOMAIN B |-> NameIn(heap, id, B[k])]
    <2>1. /\ GraphOf(heap, id)[id[array1]] = NamedIn(heap, id, heap[array1])
          /\ GraphOf(heap, id)[id[array2]] = NamedIn(heap, id, heap[array2])
      BY GraphAt DEF IInv
    <2> QED BY <2>1 DEF NamedIn
  <1>3. \A k \in DOMAIN A : (NA[k] = v <=> A[k] = w) /\ (NB[k] = v <=> B[k] = w)
    <2>1. \A k \in DOMAIN A : A[k] \in Words(heap) /\ B[k] \in Words(heap)
      BY <1>1 DEF Words
    <2>2. \A x \in Words(heap) : NameIn(heap, id, x) = NameIn(heap, id, w) => x = w
      <3>1. born \in Nat /\ IsHeap(heap, id, born)
        BY DEF IInv
      <3> QED BY <3>1, NamesApart
    <2> QED BY <1>1, <1>2, <2>1, <2>2
  <1>4. DOMAIN NA = DOMAIN A /\ DOMAIN NB = DOMAIN A
    BY <1>1, <1>2
  <1>5. PartnerIn(GraphOf(heap, id), id[array1], id[array2], v)
          = IF \E k \in DOMAIN NA : NA[k] = v THEN NB[CHOOSE k \in DOMAIN NA : NA[k] = v]
            ELSE IF \E k \in DOMAIN NB : NB[k] = v THEN NA[CHOOSE k \in DOMAIN NB : NB[k] = v]
            ELSE v
    BY DEF PartnerIn
  <1> HIDE DEF NA, NB, v
  <1>6. CASE \E k \in DOMAIN A : A[k] = w
    <2>1. PICK k \in DOMAIN A : A[k] = w
      BY <1>6
    <2>2. NA[k] = v /\ \A j \in DOMAIN A : NA[j] = v => j = k
      BY <1>1, <1>3, <2>1
    <2>3. (CHOOSE j \in DOMAIN NA : NA[j] = v) = k
      BY <1>4, <2>2
    <2>4. NB[k] = NameIn(heap, id, B[k])
      BY <1>1, <1>2
    <2> QED BY <1>1, <1>4, <1>5, <2>1, <2>2, <2>3, <2>4 DEF v
  <1>7. CASE ~(\E k \in DOMAIN A : A[k] = w) /\ \E k \in DOMAIN A : B[k] = w
    <2>1. PICK k \in DOMAIN A : B[k] = w
      BY <1>7
    <2>2. NB[k] = v /\ (\A j \in DOMAIN A : NB[j] = v => j = k) /\ \A j \in DOMAIN A : NA[j] # v
      BY <1>1, <1>3, <1>7, <2>1
    <2>3. (CHOOSE j \in DOMAIN NB : NB[j] = v) = k
      BY <1>4, <2>2
    <2>4. NA[k] = NameIn(heap, id, A[k])
      BY <1>2
    <2> QED BY <1>1, <1>4, <1>5, <2>1, <2>2, <2>3, <2>4 DEF v
  <1>8. CASE \A k \in DOMAIN A : A[k] # w /\ B[k] # w
    BY <1>1, <1>3, <1>4, <1>5, <1>8 DEF v
  <1> QED BY <1>6, <1>7, <1>8

Exchanged(G, i, j) ==
  [m \in DOMAIN G |->
     [size |-> G[m].size, bin |-> G[m].bin, class |-> PartnerIn(G, i, j, G[m].class),
      data |-> IF m \in {i, j} THEN G[m].data
               ELSE [k \in DOMAIN G[m].data |-> PartnerIn(G, i, j, G[m].data[k])]]]

LEMMA ExchangeStep ==
  ASSUME IInv, NEW array1 \in Named, NEW array2 \in Named,
         Exchangeable(array1, array2), exchangeObjects(array1, array2)
  PROVE  /\ IInv'
         /\ DOMAIN heap' = DOMAIN heap
         /\ id' = id
         /\ GraphOf(heap', id') = Exchanged(GraphOf(heap, id), id[array1], id[array2])
  <1> DEFINE P(w) == map(w, array1, array2)
             G == GraphOf(heap, id)
             Partner(w) == PartnerIn(G, id[array1], id[array2], w)
             Of(a) == [size |-> heap[a].size, bin |-> heap[a].bin, class |-> P(heap[a].class),
                       data |-> IF a \in {array1, array2} THEN heap[a].data
                                ELSE [k \in DOMAIN heap[a].data |-> P(heap[a].data[k])]]
  <1>1. /\ heap' = [a \in DOMAIN heap |->
                      IF a \in Walked THEN walk(a, array1, array2) ELSE heap[a]]
        /\ rootStack' = [i \in DOMAIN rootStack |-> P(rootStack[i])]
        /\ global' = [g \in Global |-> IF g \in Registered THEN P(global[g]) ELSE global[g]]
        /\ fresh' = None
        /\ staticRoots' = staticRoots /\ stopped' = stopped
        /\ inSpaceOne' = inSpaceOne /\ memoryPointer' = memoryPointer
        /\ id' = id /\ born' = born
    BY DEF exchangeObjects, space
  <1>2. array1 \in DOMAIN heap /\ array2 \in DOMAIN heap
    BY NamedIs
  <1>3. /\ IsHeap(heap, id, born) /\ born \in Nat
        /\ \A a \in DOMAIN heap : IsObject(heap[a], Words(heap))
    BY DEF IInv, IsHeap
  <1>4. \A w \in Words(heap) : P(w) \in Words(heap) /\ Partner(NameIn(heap, id, w)) = NameIn(heap, id, P(w))
    BY <1>2, MapWords, PartnerIs
  <1>5. ASSUME NEW a \in DOMAIN heap PROVE walk(a, array1, array2) = Of(a)
    <2>1. PICK o : o = heap[a]
      OBVIOUS
    <2>2. o = [size |-> o.size, bin |-> o.bin, class |-> o.class, data |-> o.data]
      BY <1>3, <2>1 DEF IsObject
    <2>3. PICK data : data = IF a \in {array1, array2} THEN o.data
                             ELSE [k \in DOMAIN o.data |-> P(o.data[k])]
      OBVIOUS
    <2>4. PICK class : class = P(o.class)
      OBVIOUS
    <2> HIDE DEF P
    <2>5. walk(a, array1, array2) = [o EXCEPT !.class = class, !.data = data]
      BY <2>1, <2>2, <2>3, <2>4 DEF walk, P
    <2>6. [o EXCEPT !.class = class, !.data = data]
            = [size |-> o.size, bin |-> o.bin, class |-> class, data |-> data]
      BY <2>2, OtherWords
    <2> QED BY <2>1, <2>3, <2>4, <2>5, <2>6
  <1> HIDE DEF P, Partner
  <1>6. /\ heap' = [a \in DOMAIN heap' |-> heap'[a]] /\ DOMAIN heap' = DOMAIN heap
        /\ \A a \in DOMAIN heap : heap'[a] = Of(a)
    BY <1>1, <1>5, AllWalked
  <1>7. Words(heap') = Words(heap)
    BY <1>6 DEF Words
  <1>8. ASSUME NEW a \in DOMAIN heap
        PROVE  /\ heap[a].size \in Nat /\ heap[a].bin \in BOOLEAN /\ heap[a].class \in Words(heap)
               /\ heap[a].data
                    = [k \in IF heap[a].bin THEN {} ELSE 0..(heap[a].size - 1) |-> heap[a].data[k]]
               /\ \A k \in DOMAIN heap[a].data : heap[a].data[k] \in Words(heap)
    BY <1>3 DEF IsObject
  <1>9. ASSUME NEW a \in DOMAIN heap PROVE IsObject(Of(a), Words(heap))
    <2>1. CASE a \in {array1, array2}
      BY <1>3, <1>4, <1>8, <2>1 DEF IsObject
    <2>2. CASE a \notin {array1, array2}
      <3>1. \A k \in DOMAIN heap[a].data : P(heap[a].data[k]) \in Words(heap)
        BY <1>4, <1>8
      <3> QED BY <1>4, <1>8, <2>2, <3>1 DEF IsObject
    <2> QED BY <2>1, <2>2
  <1>10. IsHeap(heap', id', born')
    <2>1. \A a \in DOMAIN heap' : IsObject(heap'[a], Words(heap'))
      BY <1>6, <1>7, <1>9
    <2> QED BY <1>1, <1>3, <1>6, <2>1 DEF IsHeap
  <1>11. Fills(heap', memoryPointer', memoryTop')
    <2>1. \A a \in DOMAIN heap : heap'[a].size = heap[a].size /\ heap'[a].bin = heap[a].bin
      BY <1>6
    <2>2. memoryTop' = memoryTop /\ Fills(heap, memoryPointer, memoryTop)
      BY <1>1 DEF IInv, memoryTop, memoryBase
    <2> QED BY <1>1, <1>6, <2>1, <2>2, FillsAsBefore
  <1>12. IInv'
    <2>1. Registered' = Registered /\ memoryBase' = memoryBase /\ memoryTop' = memoryTop
      BY <1>1 DEF Registered, memoryTop, memoryBase
    <2>2. rootStack' \in Seq(Words(heap'))
      <3>1. /\ Len(rootStack) \in Nat /\ DOMAIN rootStack = 1..Len(rootStack)
            /\ \A i \in 1..Len(rootStack) : rootStack[i] \in Words(heap)
        BY DEF IInv
      <3>2. \A i \in 1..Len(rootStack) : P(rootStack[i]) \in Words(heap')
        BY <1>4, <1>7, <3>1
      <3> QED BY <1>1, <3>1, <3>2
    <2>3. /\ DOMAIN global' = Global
          /\ \A g \in Registered : global[g] \in Words(heap) /\ global'[g] = P(global[g])
      BY <1>1, RootWords DEF IInv
    <2>4. \A g \in Registered' : global'[g] \in Words(heap')
      BY <1>4, <1>7, <2>1, <2>3
    <2> QED BY <1>1, <1>7, <1>10, <1>11, <2>1, <2>2, <2>3, <2>4 DEF IInv
  <1> DEFINE X == Exchanged(G, id[array1], id[array2])
  <1>13. GraphOf(heap', id') = X
    <2>1. DOMAIN G = {id[a] : a \in DOMAIN heap}
      BY GraphDomain
    <2>2. DOMAIN X = {id'[a] : a \in DOMAIN heap'} /\ X = [i \in DOMAIN X |-> X[i]]
      BY <1>1, <1>6, <2>1 DEF Exchanged
    <2>3. \A w : NameIn(heap', id', w) = NameIn(heap, id, w)
      BY <1>1, <1>6 DEF NameIn
    <2>4. ASSUME NEW a \in DOMAIN heap PROVE X[id[a]] = NamedIn(heap', id', heap'[a])
      <3>1. G[id[a]] = NamedIn(heap, id, heap[a]) /\ id[a] \in DOMAIN G
        BY <1>3, GraphAt
      <3>2. id[a] \in {id[array1], id[array2]} <=> a \in {array1, array2}
        BY <1>2, <1>3 DEF IsHeap
      <3>3. X[id[a]] = [size |-> heap[a].size, bin |-> heap[a].bin,
                        class |-> Partner(NameIn(heap, id, heap[a].class)),
                        data |-> IF a \in {array1, array2} THEN G[id[a]].data
                                 ELSE [k \in DOMAIN G[id[a]].data |-> Partner(G[id[a]].data[k])]]
        BY <3>1, <3>2 DEF Exchanged, NamedIn, Partner
      <3>4. G[id[a]].data = [k \in DOMAIN heap[a].data |-> NameIn(heap, id, heap[a].data[k])]
        BY <3>1 DEF NamedIn
      <3>5. Partner(NameIn(heap, id, heap[a].class)) = NameIn(heap, id, P(heap[a].class))
        BY <1>4, <1>8
      <3>6. [k \in DOMAIN G[id[a]].data |-> Partner(G[id[a]].data[k])]
              = [k \in DOMAIN heap[a].data |-> NameIn(heap, id, P(heap[a].data[k]))]
        BY <1>4, <1>8, <3>4
      <3>7. NamedIn(heap', id', Of(a))
              = [size |-> heap[a].size, bin |-> heap[a].bin,
                 class |-> NameIn(heap, id, P(heap[a].class)),
                 data |-> IF a \in {array1, array2}
                          THEN [k \in DOMAIN heap[a].data |-> NameIn(heap, id, heap[a].data[k])]
                          ELSE [k \in DOMAIN heap[a].data |-> NameIn(heap, id, P(heap[a].data[k]))]]
        <4>1. CASE a \in {array1, array2}
          BY <2>3, <4>1 DEF NamedIn
        <4>2. CASE a \notin {array1, array2}
          BY <2>3, <4>2 DEF NamedIn
        <4> QED BY <4>1, <4>2
      <3> HIDE DEF X, G, Of
      <3> QED BY <1>6, <3>3, <3>4, <3>5, <3>6, <3>7
    <2>5. \A a \in DOMAIN heap' : X[id'[a]] = NamedIn(heap', id', heap'[a])
      BY <1>1, <1>6, <2>4
    <2> HIDE DEF X
    <2> QED BY <1>10, <2>2, <2>5, GraphIs
  <1> QED BY <1>1, <1>6, <1>12, <1>13

-----------------------------------------------------------------------------
(***************************************************************************)
(* Every state.                                                            *)
(***************************************************************************)
\* Next, by its disjuncts
Allocation(size, bin) ==
  /\ born < MaxObjects /\ <<size, bin>> \in Shapes[born + 1]
  /\ Allocate(size, bin)

LEMMA Steps ==
  ASSUME IInv, Next
  PROVE  /\ ~stopped
         /\ \/ \E size \in Nat, bin \in BOOLEAN : Allocation(size, bin)
            \/ \E a \in Named, w \in Plain \cup Named :
                 \E k \in DOMAIN heap[a].data : SetField(a, k, w)
            \/ \E a \in Named : PUSH_ROOT(a)
            \/ \E a \in Named, g \in Global : addStaticRoot(g, a)
            \/ POP_ROOT
            \/ \E array1, array2 \in Named :
                 Exchangeable(array1, array2) /\ exchangeObjects(array1, array2)
  <1>1. ASSUME born < MaxObjects, NEW shape \in Shapes[born + 1], Allocate(shape[1], shape[2])
        PROVE  \E size \in Nat, bin \in BOOLEAN : Allocation(size, bin)
    <2>1. born + 1 \in 1..MaxObjects
      BY <1>1, MemoryAssumption DEF IInv
    <2>2. shape \in Nat \X BOOLEAN
      BY <2>1, MemoryAssumption
    <2>3. shape[1] \in Nat /\ shape[2] \in BOOLEAN /\ shape = <<shape[1], shape[2]>>
      BY <2>2
    <2> QED BY <1>1, <2>3 DEF Allocation
  <1> QED BY <1>1 DEF Next

LEMMA InitInv == Init => IInv
  <1> SUFFICES ASSUME Init PROVE IInv
    OBVIOUS
  <1>1. /\ inSpaceOne = TRUE /\ memoryPointer = spaceOne + spaceSize
        /\ heap = <<>> /\ rootStack = <<>> /\ staticRoots = <<>>
        /\ global = [g \in Global |-> Junk] /\ fresh = None /\ stopped = FALSE
        /\ id = <<>> /\ born = 0
    BY DEF Init
  <1>2. DOMAIN heap = {} /\ heap = [a \in {} |-> heap[a]] /\ DOMAIN id = {} /\ id \in [{} -> 1..0]
    BY <1>1
  <1>3. IsHeap(heap, id, born)
    BY <1>1, <1>2 DEF IsHeap
  <1>4. /\ memoryBase \in Int /\ memoryPointer = memoryTop /\ memoryPointer \in memoryBase..memoryTop
    BY <1>1, MemoryAssumption DEF memoryBase, memoryTop, BaseOf, spaceOne
  <1>5. Fills(heap, memoryPointer, memoryTop)
    BY <1>2, <1>4, FillsDef
  <1>6. /\ staticRoots \in Seq(Global) /\ Len(staticRoots) <= STATICROOTLIMIT
        /\ DOMAIN staticRoots = {} /\ Registered = {}
    BY <1>1, MemoryAssumption DEF Registered
  <1>7. rootStack \in Seq(Words(heap)) /\ DOMAIN global = Global
    BY <1>1
  <1>8. inSpaceOne \in BOOLEAN /\ stopped \in BOOLEAN /\ born \in Nat /\ fresh = None
    BY <1>1
  <1> QED BY <1>3, <1>4, <1>5, <1>6, <1>7, <1>8 DEF IInv

LEMMA NextInv == IInv /\ [Next]_vars => IInv'
  <1> SUFFICES ASSUME IInv, [Next]_vars PROVE IInv'
    OBVIOUS
  <1>1. CASE UNCHANGED vars
    BY <1>1 DEF vars, roots, space, IInv, Registered, memoryBase, memoryTop
  <1>2. CASE Next
    <2>1. ~stopped
      BY <1>2, Steps
    <2>2. ASSUME NEW size \in Nat, NEW bin \in BOOLEAN, Allocation(size, bin) PROVE IInv'
      <3>1. CASE gcalloc(size, bin)
        BY <3>1, gcallocStep
      <3>2. CASE gcollect(size, bin)
        <4>1. CASE stopped' /\ UNCHANGED <<roots, space, heap, fresh>>
          <5>1. stopped' \in BOOLEAN
            BY <4>1, <3>2, <2>1 DEF gcollect, IInv, Copied
          <5> QED BY <4>1, <5>1 DEF roots, space, IInv, Registered, memoryBase, memoryTop
        <4> QED BY <2>1, <3>2, <4>1, gcollectStep
      <3> QED BY <2>2, <3>1, <3>2 DEF Allocation, Allocate
    <2>3. ASSUME NEW a \in Named, NEW w \in Plain \cup Named, NEW k \in DOMAIN heap[a].data,
                 SetField(a, k, w)
          PROVE  IInv'
      BY <2>3, SetFieldStep
    <2>4. ASSUME NEW a \in Named, PUSH_ROOT(a) PROVE IInv'
      BY <2>4, PushStep
    <2>5. ASSUME NEW a \in Named, NEW g \in Global, addStaticRoot(g, a) PROVE IInv'
      BY <2>1, <2>5, addStaticRootStep
    <2>6. ASSUME POP_ROOT PROVE IInv'
      BY <2>6, PopStep
    <2>7. ASSUME NEW array1 \in Named, NEW array2 \in Named,
                 Exchangeable(array1, array2), exchangeObjects(array1, array2)
          PROVE  IInv'
      BY <2>7, ExchangeStep
    <2> QED BY <1>2, <2>2, <2>3, <2>4, <2>5, <2>6, <2>7, Steps
  <1> QED BY <1>1, <1>2

\* Whatever the shapes of the objects and the sizes of the spaces are, the heap
\* is always well-formed and packed, and every root names an object or none.
THEOREM Invariant == Spec => []IInv
  BY InitInv, NextInv, PTL DEF Spec

\* Nothing dangles (memory.c's do_gc() and exchangeObjects()).
THEOREM TypeCorrectness == Spec => []TypeOK
  <1>1. IInv => TypeOK
    <2> SUFFICES ASSUME IInv PROVE TypeOK
      OBVIOUS
    <2>1. Words(heap) = Value
      BY DEF Words, Value
    <2>2. \A a \in DOMAIN heap : a \in Int /\ memoryPointer <= a /\ EndIn(heap, a) <= memoryTop
                                /\ EndIn(heap, a) \in Int /\ a + 2 <= EndIn(heap, a)
      BY FillsDef, EndType DEF IInv
    <2>3. DOMAIN heap \subseteq memoryBase..memoryTop
      BY <2>2, SpaceIs
    <2>4. ASSUME NEW a \in DOMAIN heap
          PROVE  /\ heap[a].size \in Nat /\ heap[a].bin \in BOOLEAN
                 /\ References(heap[a]) \subseteq Value
      <3>1. IsObject(heap[a], Words(heap))
        BY DEF IInv, IsHeap
      <3> QED BY <2>1, <3>1 DEF IsObject, References
    <2>5. \A i \in DOMAIN rootStack : rootStack[i] \in Value
      BY <2>1 DEF IInv
    <2> QED BY <2>1, <2>3, <2>4, <2>5 DEF IInv, IsHeap, TypeOK
  <1> QED BY <1>1, Invariant, PTL

\* walk() always comes to every object and to nothing else.
THEOREM SpacePacked == Spec => []Packed
  <1>1. IInv => Packed
    <2> SUFFICES ASSUME IInv PROVE Packed
      OBVIOUS
    <2>1. \A a \in DOMAIN heap : EndIn(heap, a) = EndOf(a)
      BY DEF EndIn, EndOf, Extents
    <2>2. [a \in DOMAIN heap |-> EndIn(heap, a)] = [a \in DOMAIN heap |-> EndOf(a)]
      BY <2>1
    <2>3. Fills(heap, memoryPointer, memoryTop)
      BY DEF IInv
    <2> QED BY <2>2, <2>3 DEF Fills, Packed
  <1> QED BY <1>1, Invariant, PTL

\* error("insufficient memory") and error("static root table full") come only
\* when there is no way on: the objects that can be reached and the one asked
\* for do not fit a space, or STATICROOTLIMIT other variables are registered.
THEOREM StopsForCause == Spec => []StoppedForCause
  <1>1. Init => StoppedForCause
    BY DEF Init, StoppedForCause
  <1>2. IInv /\ StoppedForCause /\ [Next]_vars => StoppedForCause'
    <2> SUFFICES ASSUME IInv, StoppedForCause, [Next]_vars, stopped' PROVE StoppedForCause'
      BY DEF StoppedForCause
    <2>1. CASE UNCHANGED vars
      <3>1. Live' = Live /\ Extents' = Extents /\ Registered' = Registered
        BY <2>1 DEF vars, roots, Live, Closed, Roots, Extents, Registered
      <3> QED BY <2>1, <3>1 DEF vars, space, StoppedForCause
    <2>2. CASE Next
      <3>1. ~stopped
        BY <2>2, Steps
      <3>2. ASSUME NEW size \in Nat, NEW bin \in BOOLEAN, Allocation(size, bin)
            PROVE  StoppedForCause'
        <4>1. gcollect(size, bin)
          BY <3>1, <3>2 DEF Allocation, Allocate, gcalloc
        <4>2. /\ UNCHANGED <<roots, space, heap, fresh>>
              /\ Extent(size, bin) + SumFunctionOnSet(Extents, Live) > spaceSize
          BY <3>1, <4>1, gcollectStep DEF Grown
        <4>3. Live' = Live /\ Extents' = Extents
          BY <4>2 DEF roots, Live, Closed, Roots, Extents, Registered
        <4>4. born' = born /\ born < MaxObjects /\ <<size, bin>> \in Shapes[born + 1]
          BY <3>2, <4>2 DEF Allocation, space
        <4>5. \E shape \in Shapes[born' + 1] :
                Extent(shape[1], shape[2]) + SumFunctionOnSet(Extents', Live') > spaceSize
          <5>1. PICK shape : shape = <<size, bin>>
            OBVIOUS
          <5>2. shape \in Shapes[born' + 1] /\ shape[1] = size /\ shape[2] = bin
            BY <4>4, <5>1
          <5> QED BY <4>2, <4>3, <5>2
        <4> QED BY <4>4, <4>5 DEF StoppedForCause
      <3>3. ASSUME NEW a \in Named, NEW g \in Global, addStaticRoot(g, a)
            PROVE  StoppedForCause'
        <4>1. /\ staticRoots' = staticRoots
              /\ Cardinality(Registered) = STATICROOTLIMIT /\ Registered # Global
          BY <3>1, <3>3, addStaticRootStep
        <4>2. Registered' = Registered
          BY <4>1 DEF Registered
        <4> QED BY <4>1, <4>2 DEF StoppedForCause
      <3>4. ASSUME stopped' = stopped PROVE FALSE
        BY <3>1, <3>4
      <3> QED BY <2>2, <3>2, <3>3, <3>4, Steps
              DEF SetField, PUSH_ROOT, POP_ROOT, exchangeObjects
    <2> QED BY <2>1, <2>2
  <1> QED BY <1>1, <1>2, Invariant, PTL DEF Spec

-----------------------------------------------------------------------------
(***************************************************************************)
(* The refinement of ObjectGraph.                                          *)
(***************************************************************************)
LEMMA NamedObjectsNext == (IInv => NamedObjects = GraphOf(heap, id))'
  BY NamedObjectsAre, PTL

LEMMA NameIs == \A w : Name(w) = NameIn(heap, id, w)
  BY DEF Name, NameIn

LEMMA InitImplements == Init => Graph!Init
  <1> SUFFICES ASSUME Init PROVE Graph!Init
    OBVIOUS
  <1>1. /\ heap = <<>> /\ rootStack = <<>> /\ staticRoots = <<>> /\ fresh = None /\ born = 0
    BY DEF Init
  <1>2. DOMAIN heap = {} /\ DOMAIN rootStack = {} /\ Registered = {}
    BY <1>1 DEF Registered
  <1>3. NamedObjects = <<>>
    BY <1>2 DEF NamedObjects
  <1>4. [i \in DOMAIN rootStack |-> Name(rootStack[i])] = <<>>
    BY <1>2
  <1>5. [g \in Registered |-> Name(global[g])] = <<>>
    BY <1>2
  <1>6. Name(fresh) = None
    BY <1>1, <1>2 DEF Name
  <1> QED BY <1>1, <1>3, <1>4, <1>5, <1>6 DEF Graph!Init

\* What can be reached in the graph is what can be reached in the heap.
LEMMA ReachableIs ==
  ASSUME IInv
  PROVE  /\ Graph!Roots = {NameIn(heap, id, w) : w \in Roots}
         /\ Graph!Reachable \subseteq {id[a] : a \in Live}
         /\ Settled => \A i \in Graph!Reachable : Junk \notin Graph!References(NamedObjects[i])
  <1> DEFINE G == GraphOf(heap, id)
             S == {id[a] : a \in Live}
  <1>1. /\ NamedObjects = G /\ DOMAIN G = Ids(heap, id) /\ IsHeap(heap, id, born) /\ born \in Nat
    BY NamedObjectsAre, GraphDomain DEF IInv, Ids
  <1>2. Graph!Roots = {NameIn(heap, id, w) : w \in Roots}
    <2>1. /\ \A i \in DOMAIN rootStack :
               [j \in DOMAIN rootStack |-> Name(rootStack[j])][i] = NameIn(heap, id, rootStack[i])
          /\ \A g \in Registered :
               [h \in Registered |-> Name(global[h])][g] = NameIn(heap, id, global[g])
      BY NameIs
    <2> QED BY <2>1 DEF Graph!Roots, Roots
  <1>3. \A w \in Words(heap) : w \in DOMAIN heap <=> NameIn(heap, id, w) \in Ids(heap, id)
    BY <1>1, Names
  <1>4. ASSUME NEW a \in Live
        PROVE  /\ id[a] \in Ids(heap, id)
               /\ G[id[a]].class = NameIn(heap, id, heap[a].class)
               /\ DOMAIN G[id[a]].data = DOMAIN heap[a].data
               /\ \A k \in DOMAIN heap[a].data :
                    G[id[a]].data[k] = NameIn(heap, id, heap[a].data[k])
    <2>1. G[id[a]] = NamedIn(heap, id, heap[a]) /\ id[a] \in DOMAIN G
      BY <1>1, GraphAt, LiveIs
    <2> QED BY <1>1, <2>1 DEF NamedIn
  <1>5. S \in SUBSET DOMAIN G
    BY <1>1, <1>4
  <1>6. Graph!Closed(S)
    <2>1. Graph!Roots \cap DOMAIN NamedObjects \subseteq S
      <3>1. ASSUME NEW w \in Roots, NameIn(heap, id, w) \in Ids(heap, id)
            PROVE  NameIn(heap, id, w) \in S
        <4>1. w \in DOMAIN heap /\ w \in Live
          BY <1>3, <3>1, RootWords
        <4> QED BY <4>1 DEF NameIn
      <3> QED BY <1>1, <1>2, <3>1
    <2>2. ASSUME NEW a \in Live
          PROVE  Graph!References(NamedObjects[id[a]]) \cap DOMAIN NamedObjects \subseteq S
      <3>1. ASSUME NEW w \in Words(heap), w \in DOMAIN heap => w \in Live,
                   NameIn(heap, id, w) \in Ids(heap, id)
            PROVE  NameIn(heap, id, w) \in S
        <4>1. w \in Live
          BY <1>3, <3>1
        <4> QED BY <4>1, LiveIs DEF NameIn
      <3>2. ASSUME NEW x \in Graph!References(NamedObjects[id[a]]), x \in Ids(heap, id)
            PROVE  x \in S
        <4>1. \/ x = NameIn(heap, id, heap[a].class)
              \/ \E k \in DOMAIN heap[a].data : x = NameIn(heap, id, heap[a].data[k])
          BY <1>1, <1>4 DEF Graph!References
        <4> QED BY <3>1, <3>2, <4>1, LiveWords
      <3> HIDE DEF S, G
      <3> QED BY <1>1, <3>2
    <2> HIDE DEF G
    <2> QED BY <2>1, <2>2 DEF Graph!Closed
  <1>7. Graph!Reachable \subseteq S
    <2> HIDE DEF S, G
    <2> QED BY <1>1, <1>5, <1>6 DEF Graph!Reachable
  <1>8. ASSUME Settled, NEW i \in Graph!Reachable
        PROVE  Junk \notin Graph!References(NamedObjects[i])
    <2>1. PICK a \in Live : i = id[a]
      BY <1>7
    <2>2. Junk \notin References(heap[a])
      BY <1>8 DEF Settled
    <2>3. ASSUME NEW w \in Words(heap), w # Junk PROVE NameIn(heap, id, w) # Junk
      BY <1>1, <2>3, Names
    <2>4. ASSUME NEW x \in Graph!References(NamedObjects[i]) PROVE x # Junk
      <3>1. \/ x = NameIn(heap, id, heap[a].class)
            \/ \E k \in DOMAIN heap[a].data : x = NameIn(heap, id, heap[a].data[k])
        BY <1>1, <1>4, <2>1 DEF Graph!References
      <3> QED BY <2>2, <2>3, <3>1, LiveWords DEF References
    <2> QED BY <2>4
  <1> QED BY <1>2, <1>7, <1>8

LEMMA NewStep ==
  ASSUME IInv, IInv', NEW size \in Nat, NEW bin \in BOOLEAN, Settled, Grown(size, bin)
  PROVE  Graph!New(size, bin)
  <1>1. PICK kept \in SUBSET Ids(heap, id),
             class \in {NameIn(heap, id, w) : w \in Roots} \cup {born'} :
          /\ {id[a] : a \in Live} \subseteq kept
          /\ GraphOf(heap', id') = WithNew(GraphOf(heap, id), kept, born', size, bin, class)
    BY DEF Grown
  <1>2. /\ born' = born + 1 /\ fresh' \in DOMAIN heap' /\ id'[fresh'] = born'
        /\ staticRoots' = staticRoots
        /\ DOMAIN rootStack' = DOMAIN rootStack
        /\ \A i \in DOMAIN rootStack :
             NameIn(heap', id', rootStack'[i]) = NameIn(heap, id, rootStack[i])
        /\ \A g \in Registered :
             NameIn(heap', id', global'[g]) = NameIn(heap, id, global[g])
    BY DEF Grown, KeepsNames
  <1>3. \A w : Name(w) = NameIn(heap, id, w) /\ Name(w)' = NameIn(heap', id', w')
    BY DEF Name, NameIn
  <1>4. Name(fresh)' = born'
    BY <1>2 DEF Name
  <1>5. [i \in DOMAIN rootStack |-> Name(rootStack[i])]' = [i \in DOMAIN rootStack |-> Name(rootStack[i])]
    BY <1>2 DEF Name, NameIn
  <1>6. [g \in Registered |-> Name(global[g])]' = [g \in Registered |-> Name(global[g])]
    <2>1. Registered' = Registered
      BY <1>2 DEF Registered
    <2> QED BY <1>2, <2>1 DEF Name, NameIn
  <1>7. NamedObjects = GraphOf(heap, id) /\ DOMAIN NamedObjects = Ids(heap, id)
    BY NamedObjectsAre, GraphDomain DEF Ids
  <1>8. NamedObjects' = GraphOf(heap', id')
    BY NamedObjectsNext
  <1>9. /\ Graph!Roots = {NameIn(heap, id, w) : w \in Roots}
        /\ Graph!Reachable \subseteq kept
        /\ \A i \in Graph!Reachable : Junk \notin Graph!References(NamedObjects[i])
    BY <1>1, ReachableIs
  <1>10. NamedObjects' = [i \in kept \cup {born'} |->
                           IF i = born' THEN Graph!Unset(size, bin, class) ELSE NamedObjects[i]]
    BY <1>1, <1>7, <1>8 DEF WithNew, Unset, Graph!Unset
  <1>11. kept \in SUBSET DOMAIN NamedObjects /\ class \in Graph!Roots \cup {born'}
    BY <1>1, <1>7, <1>9
  <1> QED BY <1>2, <1>4, <1>5, <1>6, <1>9, <1>10, <1>11 DEF Graph!New

\* What a step that lets objects where they are leaves as it is
LEMMA SameNames ==
  ASSUME IInv, IInv', DOMAIN heap' = DOMAIN heap, id' = id
  PROVE  /\ NamedObjects = GraphOf(heap, id) /\ NamedObjects' = GraphOf(heap', id')
         /\ DOMAIN NamedObjects = Ids(heap, id)
         /\ \A w : NameIn(heap', id', w) = Name(w)
         /\ \A w : NameIn(heap, id, w) = Name(w)
         /\ \A a \in DOMAIN heap : id[a] \in Ids(heap, id) /\ Name(a) = id[a]
  <1>1. NamedObjects = GraphOf(heap, id) /\ NamedObjects' = GraphOf(heap', id')
    BY NamedObjectsAre, NamedObjectsNext
  <1> QED BY <1>1, GraphDomain DEF Name, NameIn, Ids

LEMMA SetFieldImplements ==
  ASSUME IInv, NEW a \in Named, NEW k \in DOMAIN heap[a].data, NEW w \in Plain \cup Named,
         SetField(a, k, w)
  PROVE  \E i \in DOMAIN NamedObjects, v \in Plain \cup DOMAIN NamedObjects :
           \E j \in DOMAIN NamedObjects[i].data : Graph!SetField(i, j, v)
  <1>1. /\ IInv' /\ DOMAIN heap' = DOMAIN heap
        /\ GraphOf(heap', id')
             = [GraphOf(heap, id) EXCEPT ![id[a]].data[k] = NameIn(heap, id, w)]
    BY SetFieldStep
  <1>2. /\ rootStack' = rootStack /\ staticRoots' = staticRoots /\ global' = global
        /\ id' = id /\ born' = born /\ fresh' = fresh
    BY DEF SetField, roots, space
  <1>3. /\ NamedObjects = GraphOf(heap, id) /\ NamedObjects' = GraphOf(heap', id')
        /\ DOMAIN NamedObjects = Ids(heap, id)
        /\ \A x : NameIn(heap', id', x) = Name(x)
        /\ \A x : NameIn(heap, id, x) = Name(x)
        /\ \A b \in DOMAIN heap : id[b] \in Ids(heap, id) /\ Name(b) = id[b]
    BY <1>1, <1>2, SameNames
  <1>4. a \in DOMAIN heap /\ (w \in DOMAIN heap \/ w \in Plain)
    BY NamedIs
  <1>5. Name(w) \in Plain \cup DOMAIN NamedObjects
    BY <1>3, <1>4 DEF Name
  <1>6. k \in DOMAIN NamedObjects[id[a]].data
    <2>1. NamedObjects[id[a]] = NamedIn(heap, id, heap[a])
      BY <1>3, <1>4, GraphAt DEF IInv
    <2> QED BY <2>1 DEF NamedIn
  <1>7. Graph!SetField(id[a], k, Name(w))
    <2>1. /\ [i \in DOMAIN rootStack |-> Name(rootStack[i])]'
               = [i \in DOMAIN rootStack |-> Name(rootStack[i])]
          /\ [g \in Registered |-> Name(global[g])]' = [g \in Registered |-> Name(global[g])]
          /\ Name(fresh)' = Name(fresh)
      BY <1>1, <1>2 DEF Name, Registered
    <2>2. NamedObjects' = [NamedObjects EXCEPT ![id[a]].data[k] = Name(w)]
      BY <1>1, <1>3
    <2> QED BY <1>2, <2>1, <2>2 DEF Graph!SetField
  <1> QED BY <1>3, <1>4, <1>5, <1>6, <1>7

LEMMA PushImplements ==
  ASSUME IInv, NEW a \in Named, PUSH_ROOT(a)
  PROVE  \E i \in DOMAIN NamedObjects : Graph!PushRoot(i)
  <1>1. /\ rootStack' = Append(rootStack, a)
        /\ staticRoots' = staticRoots /\ global' = global
        /\ heap' = heap /\ id' = id /\ born' = born /\ fresh' = fresh
    BY DEF PUSH_ROOT, space
  <1>2. rootStack \in Seq(Words(heap)) /\ a \in DOMAIN heap
    BY NamedIs DEF IInv
  <1>3. NamedObjects' = NamedObjects /\ Name(fresh)' = Name(fresh)
    BY <1>1 DEF NamedObjects, NamedObject, AddressOf, Name
  <1>4. [g \in Registered |-> Name(global[g])]' = [g \in Registered |-> Name(global[g])]
    BY <1>1 DEF Name, Registered
  <1>5. [i \in DOMAIN rootStack |-> Name(rootStack[i])]'
          = Append([i \in DOMAIN rootStack |-> Name(rootStack[i])], Name(a))
    <2> DEFINE old == [i \in DOMAIN rootStack |-> Name(rootStack[i])]
               new == [i \in DOMAIN rootStack |-> Name(rootStack[i])]'
    <2>1. \A w : Name(w)' = Name(w')
      BY <1>1 DEF Name
    <2>2. PICK n \in Nat : n = Len(rootStack) /\ DOMAIN rootStack = 1..n
      BY <1>2
    <2>3. /\ DOMAIN rootStack' = 1..(n + 1) /\ rootStack'[n + 1] = a
          /\ \A i \in 1..n : rootStack'[i] = rootStack[i]
      BY <1>1, <1>2, <2>2
    <2>4. DOMAIN new = 1..(n + 1) /\ new[n + 1] = Name(a) /\ \A i \in 1..n : new[i] = Name(rootStack[i])
      BY <1>1, <2>3 DEF Name
    <2>5. old = [i \in 1..n |-> Name(rootStack[i])]
      BY <2>2
    <2>6. PICK V : V = {Name(rootStack[i]) : i \in 1..n} \cup {Name(a)}
      OBVIOUS
    <2>7. old \in Seq(V) /\ Len(old) = n
      BY <2>5, <2>6
    <2>8. new \in Seq(V) /\ Len(new) = n + 1
      <3>1. new = [i \in 1..(n + 1) |-> new[i]]
        BY <2>4
      <3> HIDE DEF new
      <3>2. \A i \in 1..(n + 1) : new[i] \in V
        <4>1. \A i \in 1..n : Name(rootStack[i]) \in V
          BY <2>6
        <4>2. Name(a) \in V
          BY <2>6
        <4> QED BY <2>2, <2>4, <4>1, <4>2
      <3> QED BY <3>1, <3>2, <2>2
    <2> HIDE DEF old, new
    <2>9. \A i \in 1..(n + 1) : new[i] = Append(old, Name(a))[i]
      BY <2>4, <2>5, <2>6, <2>7
    <2>10. Append(old, Name(a)) \in Seq(V) /\ Len(Append(old, Name(a))) = n + 1
      BY <2>6, <2>7
    <2>11. new = Append(old, Name(a))
      BY <2>8, <2>9, <2>10
    <2> QED BY <2>11 DEF old, new
  <1>6. Name(a) = id[a] /\ id[a] \in DOMAIN NamedObjects
    BY <1>2 DEF Name, NamedObjects
  <1>7. Graph!PushRoot(id[a])
    BY <1>1, <1>3, <1>4, <1>5, <1>6 DEF Graph!PushRoot
  <1> QED BY <1>6, <1>7

LEMMA PopImplements ==
  ASSUME IInv, POP_ROOT
  PROVE  Graph!PopRoot
  <1>1. /\ rootStack # <<>>
        /\ fresh' = rootStack[Len(rootStack)]
        /\ rootStack' = SubSeq(rootStack, 1, Len(rootStack) - 1)
        /\ staticRoots' = staticRoots /\ global' = global
        /\ heap' = heap /\ id' = id /\ born' = born
    BY DEF POP_ROOT, space
  <1>2. NamedObjects' = NamedObjects
    BY <1>1 DEF NamedObjects, NamedObject, AddressOf, Name
  <1>3. [g \in Registered |-> Name(global[g])]' = [g \in Registered |-> Name(global[g])]
    BY <1>1 DEF Name, Registered
  <1> DEFINE old == [i \in DOMAIN rootStack |-> Name(rootStack[i])]
             new == [i \in DOMAIN rootStack |-> Name(rootStack[i])]'
  <1>4. PICK n \in Nat : n = Len(rootStack) /\ DOMAIN rootStack = 1..n /\ n # 0
    BY <1>1 DEF IInv
  <1>5. /\ DOMAIN rootStack' = 1..(n - 1)
        /\ \A i \in 1..(n - 1) : rootStack'[i] = rootStack[i]
    BY <1>1, <1>4 DEF IInv
  <1>6. old = [i \in 1..n |-> Name(rootStack[i])]
    BY <1>4
  <1>7. new = [i \in 1..(n - 1) |-> Name(rootStack[i])]
    BY <1>1, <1>5 DEF Name
  <1>8. PICK V : V = {Name(rootStack[i]) : i \in 1..n}
    OBVIOUS
  <1>9. old \in Seq(V) /\ Len(old) = n
    BY <1>6, <1>8
  <1>10. new \in Seq(V) /\ Len(new) = n - 1
    <2>1. n - 1 \in Nat
      BY <1>4
    <2>2. \A i \in 1..(n - 1) : Name(rootStack[i]) \in V
      BY <1>8
    <2> QED BY <1>7, <2>1, <2>2
  <1>11. Name(fresh)' = Name(rootStack[n])
    BY <1>1, <1>4 DEF Name
  <1> HIDE DEF old, new
  <1>12. old # <<>> /\ Name(fresh)' = old[Len(old)]
    BY <1>4, <1>6, <1>9, <1>11
  <1>13. new = SubSeq(old, 1, Len(old) - 1)
    <2>1. /\ SubSeq(old, 1, n - 1) \in Seq(V) /\ Len(SubSeq(old, 1, n - 1)) = n - 1
          /\ \A i \in 1..(n - 1) : SubSeq(old, 1, n - 1)[i] = old[i]
      BY <1>4, <1>9
    <2>2. PICK sub : sub = SubSeq(old, 1, n - 1)
      OBVIOUS
    <2>3. \A i \in 1..(n - 1) : sub[i] = new[i]
      BY <1>6, <1>7, <2>1, <2>2
    <2>4. PICK m \in Nat : m = n - 1
      BY <1>4
    <2>5. /\ sub \in Seq(V) /\ Len(sub) = m /\ new \in Seq(V) /\ Len(new) = m
          /\ \A i \in 1..m : sub[i] = new[i]
      BY <1>10, <2>1, <2>2, <2>3, <2>4
    <2>6. sub = new
      BY <2>5
    <2> QED BY <1>9, <2>2, <2>6
  <1> QED BY <1>1, <1>2, <1>3, <1>12, <1>13 DEF Graph!PopRoot, old, new

\* Registration in a full table ends the program and leaves the graph.
LEMMA RegisterImplements ==
  ASSUME IInv, ~stopped, NEW g \in Global, NEW a \in Named, addStaticRoot(g, a)
  PROVE  UNCHANGED Graph!vars \/ \E i \in DOMAIN NamedObjects : Graph!Register(g, i)
  <1>1. /\ heap' = heap /\ rootStack' = rootStack /\ id' = id /\ born' = born /\ fresh' = fresh
        /\ \/ staticRoots' = staticRoots /\ global' = global
           \/ Registered' = Registered \cup {g} /\ global' = [global EXCEPT ![g] = a]
    BY addStaticRootStep
  <1>2. /\ NamedObjects' = NamedObjects /\ Name(fresh)' = Name(fresh)
        /\ [i \in DOMAIN rootStack |-> Name(rootStack[i])]'
             = [i \in DOMAIN rootStack |-> Name(rootStack[i])]
    BY <1>1 DEF NamedObjects, NamedObject, AddressOf, Name
  <1>3. CASE staticRoots' = staticRoots /\ global' = global
    <2>1. [h \in Registered |-> Name(global[h])]' = [h \in Registered |-> Name(global[h])]
      BY <1>1, <1>3 DEF Name, Registered
    <2> QED BY <1>1, <1>2, <2>1 DEF Graph!vars
  <1>4. CASE Registered' = Registered \cup {g} /\ global' = [global EXCEPT ![g] = a]
    <2>1. a \in DOMAIN heap /\ DOMAIN global = Global /\ Registered \subseteq Global
      BY NamedIs, RootWords DEF IInv
    <2>2. Name(a) = id[a] /\ id[a] \in DOMAIN NamedObjects
      BY <2>1 DEF Name, NamedObjects
    <2>3. [h \in Registered |-> Name(global[h])]'
            = [h \in Registered \cup {g} |-> IF h = g THEN Name(a) ELSE Name(global[h])]
      <3>1. \A h \in Registered \cup {g} : global'[h] = IF h = g THEN a ELSE global[h]
        BY <1>4, <2>1
      <3>2. \A h \in Registered \cup {g} :
              Name(global[h])' = IF h = g THEN Name(a) ELSE Name(global[h])
        BY <1>1, <3>1 DEF Name
      <3> QED BY <1>4, <3>2
    <2>4. [h \in Registered |-> Name(global[h])]'
            = [h \in DOMAIN [f \in Registered |-> Name(global[f])] \cup {g} |->
                 IF h = g THEN id[a] ELSE [f \in Registered |-> Name(global[f])][h]]
      BY <2>2, <2>3
    <2>5. Graph!Register(g, id[a])
      BY <1>1, <1>2, <2>4 DEF Graph!Register
    <2> QED BY <2>2, <2>5
  <1> QED BY <1>1, <1>3, <1>4

LEMMA ExchangeableImplements ==
  ASSUME IInv, NEW array1 \in DOMAIN heap, NEW array2 \in DOMAIN heap,
         Exchangeable(array1, array2)
  PROVE  Graph!Exchangeable(id[array1], id[array2])
  <1> DEFINE A == heap[array1].data
             B == heap[array2].data
  <1>1. /\ ~heap[array1].bin /\ ~heap[array2].bin /\ DOMAIN A = DOMAIN B
        /\ \A k \in DOMAIN A : A[k] \in DOMAIN heap /\ B[k] \in DOMAIN heap
        /\ \A j, k \in DOMAIN A : A[j] = A[k] \/ A[j] = B[k] \/ B[j] = B[k] => j = k
    BY DEF Exchangeable
  <1>2. /\ NamedObjects = GraphOf(heap, id) /\ DOMAIN NamedObjects = Ids(heap, id)
        /\ IsHeap(heap, id, born)
    BY NamedObjectsAre, GraphDomain DEF IInv, Ids
  <1>3. /\ NamedObjects[id[array1]] = NamedIn(heap, id, heap[array1])
        /\ NamedObjects[id[array2]] = NamedIn(heap, id, heap[array2])
    BY <1>2, GraphAt
  <1>4. /\ ~NamedObjects[id[array1]].bin /\ ~NamedObjects[id[array2]].bin
        /\ NamedObjects[id[array1]].data = [k \in DOMAIN A |-> id[A[k]]]
        /\ NamedObjects[id[array2]].data = [k \in DOMAIN B |-> id[B[k]]]
    <2>1. \A k \in DOMAIN A : NameIn(heap, id, A[k]) = id[A[k]] /\ NameIn(heap, id, B[k]) = id[B[k]]
      BY <1>1 DEF NameIn
    <2> QED BY <1>1, <1>3, <2>1 DEF NamedIn
  <1>5. \A x, y \in DOMAIN heap : id[x] \in Ids(heap, id) /\ (id[x] = id[y] => x = y)
    BY <1>2 DEF IsHeap, Ids
  <1>6. DOMAIN [k \in DOMAIN A |-> id[A[k]]] = DOMAIN [k \in DOMAIN B |-> id[B[k]]]
    BY <1>1
  <1>7. \A j, k \in DOMAIN A :
          /\ {id[A[k]], id[B[k]]} \subseteq DOMAIN NamedObjects
          /\ id[A[j]] = id[A[k]] \/ id[A[j]] = id[B[k]] \/ id[B[j]] = id[B[k]] => j = k
    BY <1>1, <1>2, <1>5
  <1> HIDE DEF A, B
  <1> QED BY <1>1, <1>4, <1>6, <1>7 DEF Graph!Exchangeable

LEMMA ExchangeImplements ==
  ASSUME IInv, NEW array1 \in Named, NEW array2 \in Named,
         Exchangeable(array1, array2), exchangeObjects(array1, array2)
  PROVE  \E i, j \in DOMAIN NamedObjects : Graph!Exchange(i, j)
  <1> DEFINE i == id[array1]
             j == id[array2]
             P(w) == map(w, array1, array2)
             Partner(w) == Graph!Partner(w, i, j)
  <1>1. /\ IInv' /\ DOMAIN heap' = DOMAIN heap /\ id' = id
        /\ GraphOf(heap', id') = Exchanged(GraphOf(heap, id), i, j)
    BY ExchangeStep
  <1>2. /\ rootStack' = [k \in DOMAIN rootStack |-> P(rootStack[k])]
        /\ global' = [g \in Global |-> IF g \in Registered THEN P(global[g]) ELSE global[g]]
        /\ fresh' = None /\ born' = born /\ staticRoots' = staticRoots
    BY DEF exchangeObjects, space
  <1>3. array1 \in DOMAIN heap /\ array2 \in DOMAIN heap
    BY NamedIs
  <1>4. /\ NamedObjects = GraphOf(heap, id) /\ NamedObjects' = GraphOf(heap', id')
        /\ DOMAIN NamedObjects = Ids(heap, id)
        /\ \A w : NameIn(heap', id', w) = Name(w)
        /\ \A w : NameIn(heap, id, w) = Name(w)
        /\ \A a \in DOMAIN heap : id[a] \in Ids(heap, id) /\ Name(a) = id[a]
    BY <1>1, SameNames
  <1>5. \A w : Partner(w) = PartnerIn(GraphOf(heap, id), i, j, w)
    BY <1>4 DEF Graph!Partner, PartnerIn
  <1>6. \A w \in Words(heap) : Name(P(w)) = Partner(Name(w))
    BY <1>3, <1>4, <1>5, PartnerIs
  <1> HIDE DEF P, Partner
  <1>7. Name(fresh)' = None
    <2>1. None \notin DOMAIN heap
      BY MemoryAssumption DEF IInv, IsHeap
    <2> QED BY <1>1, <1>2, <2>1 DEF Name
  <1>8. [k \in DOMAIN rootStack |-> Name(rootStack[k])]'
          = [k \in DOMAIN rootStack |-> Partner(Name(rootStack[k]))]
    <2>1. \A k \in DOMAIN rootStack : rootStack[k] \in Words(heap)
      BY DEF IInv
    <2>2. DOMAIN rootStack' = DOMAIN rootStack
      BY <1>2
    <2>3. \A k \in DOMAIN rootStack : Name(rootStack[k])' = Partner(Name(rootStack[k]))
      <3>1. ASSUME NEW k \in DOMAIN rootStack PROVE Name(rootStack[k])' = Partner(Name(rootStack[k]))
        <4>1. Name(rootStack[k])' = Name(P(rootStack[k]))
          BY <1>1, <1>2 DEF Name
        <4> QED BY <1>6, <2>1, <4>1
      <3> QED BY <3>1
    <2> QED BY <2>2, <2>3
  <1>9. [g \in Registered |-> Name(global[g])]'
          = [g \in Registered |-> Partner(Name(global[g]))]
    <2>1. \A g \in Registered : global[g] \in Words(heap) /\ g \in Global
      BY RootWords DEF IInv
    <2>2. Registered' = Registered
      BY <1>2 DEF Registered
    <2>3. ASSUME NEW g \in Registered PROVE Name(global[g])' = Partner(Name(global[g]))
      <3>1. Name(global[g])' = Name(P(global[g]))
        BY <1>1, <1>2, <2>1 DEF Name
      <3> QED BY <1>6, <2>1, <3>1
    <2> QED BY <2>2, <2>3
  <1>10. NamedObjects' = [m \in DOMAIN NamedObjects |->
           [NamedObjects[m] EXCEPT
              !.class = Partner(@),
              !.data = IF m \in {i, j} THEN @ ELSE [k \in DOMAIN @ |-> Partner(@[k])]]]
    <2>1. ASSUME NEW m \in DOMAIN NamedObjects
          PROVE  [NamedObjects[m] EXCEPT
                    !.class = Partner(@),
                    !.data = IF m \in {i, j} THEN @ ELSE [k \in DOMAIN @ |-> Partner(@[k])]]
                   = [size |-> NamedObjects[m].size, bin |-> NamedObjects[m].bin,
                      class |-> Partner(NamedObjects[m].class),
                      data |-> IF m \in {i, j} THEN NamedObjects[m].data
                               ELSE [k \in DOMAIN NamedObjects[m].data |->
                                       Partner(NamedObjects[m].data[k])]]
      <3>1. PICK o : o = NamedObjects[m]
        OBVIOUS
      <3>2. o = [size |-> o.size, bin |-> o.bin, class |-> o.class, data |-> o.data]
        BY <1>4, <3>1 DEF GraphOf, NamedIn
      <3>3. PICK data : data = IF m \in {i, j} THEN o.data
                               ELSE [k \in DOMAIN o.data |-> Partner(o.data[k])]
        OBVIOUS
      <3>4. PICK class : class = Partner(o.class)
        OBVIOUS
      <3>5. [o EXCEPT !.class = Partner(@),
                      !.data = IF m \in {i, j} THEN @ ELSE [k \in DOMAIN @ |-> Partner(@[k])]]
              = [o EXCEPT !.class = class, !.data = data]
        BY <3>2, <3>3, <3>4
      <3>6. [o EXCEPT !.class = class, !.data = data]
              = [size |-> o.size, bin |-> o.bin, class |-> class, data |-> data]
        BY <3>2, OtherWords
      <3> QED BY <3>1, <3>3, <3>4, <3>5, <3>6
    <2>2. NamedObjects' = [m \in DOMAIN NamedObjects |->
            [size |-> NamedObjects[m].size, bin |-> NamedObjects[m].bin,
             class |-> Partner(NamedObjects[m].class),
             data |-> IF m \in {i, j} THEN NamedObjects[m].data
                      ELSE [k \in DOMAIN NamedObjects[m].data |->
                              Partner(NamedObjects[m].data[k])]]]
      BY <1>1, <1>4, <1>5 DEF Exchanged
    <2> QED BY <2>1, <2>2
  <1>11. Graph!Exchangeable(i, j)
    BY <1>3, ExchangeableImplements
  <1>12. /\ \A k \in DOMAIN rootStack :
              [n \in DOMAIN rootStack |-> Name(rootStack[n])][k] = Name(rootStack[k])
         /\ \A g \in Registered : [h \in Registered |-> Name(global[h])][g] = Name(global[g])
    OBVIOUS
  <1>13. Graph!Exchange(i, j)
    BY <1>2, <1>7, <1>8, <1>9, <1>10, <1>11, <1>12 DEF Graph!Exchange, Partner
  <1> QED BY <1>3, <1>4, <1>13

LEMMA Stutters ==
  ASSUME UNCHANGED <<rootStack, staticRoots, global, heap, fresh, id, born>>
  PROVE  UNCHANGED Graph!vars
  BY DEF Graph!vars, NamedObjects, NamedObject, AddressOf, Name, Registered

LEMMA AllocationImplements ==
  ASSUME IInv, ~stopped, NEW size \in Nat, NEW bin \in BOOLEAN, Allocation(size, bin)
  PROVE  Graph!Next \/ UNCHANGED Graph!vars
  <1>1. /\ born < MaxObjects /\ <<size, bin>> \in Shapes[born + 1] /\ Settled
        /\ gcalloc(size, bin) \/ gcollect(size, bin)
    BY DEF Allocation, Allocate
  <1>2. CASE IInv' /\ Grown(size, bin)
    <2>1. Graph!New(size, bin)
      BY <1>1, <1>2, NewStep
    <2>2. PICK shape : shape = <<size, bin>>
      OBVIOUS
    <2>3. shape \in Shapes[born + 1] /\ shape[1] = size /\ shape[2] = bin
      BY <1>1, <2>2
    <2>4. Graph!New(shape[1], shape[2])
      BY <2>1, <2>3
    <2> QED BY <1>1, <2>3, <2>4 DEF Graph!Next
  <1>3. CASE UNCHANGED <<roots, space, heap, fresh>>
    BY <1>3, Stutters DEF roots, space
  <1> QED BY <1>1, <1>2, <1>3, gcallocStep, gcollectStep

LEMMA NextImplements == IInv /\ [Next]_vars => [Graph!Next]_(Graph!vars)
  <1> SUFFICES ASSUME IInv, [Next]_vars PROVE Graph!Next \/ UNCHANGED Graph!vars
    OBVIOUS
  <1>1. CASE UNCHANGED vars
    BY <1>1, Stutters DEF vars, roots, space
  <1>2. CASE Next
    <2>1. ~stopped
      BY <1>2, Steps
    <2>2. ASSUME NEW a \in Named, NEW w \in Plain \cup Named, NEW k \in DOMAIN heap[a].data,
                 SetField(a, k, w)
          PROVE  Graph!Next
      BY <2>2, SetFieldImplements DEF Graph!Next
    <2>3. ASSUME NEW a \in Named, PUSH_ROOT(a) PROVE Graph!Next
      BY <2>3, PushImplements DEF Graph!Next
    <2>4. ASSUME NEW a \in Named, NEW g \in Global, addStaticRoot(g, a)
          PROVE  Graph!Next \/ UNCHANGED Graph!vars
      BY <2>1, <2>4, RegisterImplements DEF Graph!Next
    <2>5. ASSUME POP_ROOT PROVE Graph!Next
      BY <2>5, PopImplements DEF Graph!Next
    <2>6. ASSUME NEW array1 \in Named, NEW array2 \in Named,
                 Exchangeable(array1, array2), exchangeObjects(array1, array2)
          PROVE  Graph!Next
      BY <2>6, ExchangeImplements DEF Graph!Next
    <2> QED BY <1>2, <2>1, <2>2, <2>3, <2>4, <2>5, <2>6, Steps, AllocationImplements
  <1> QED BY <1>1, <1>2

\* For those who use it the memory is the graph of ObjectGraph: collections and
\* exchanges neither lose nor change what can be reached.
THEOREM MemoryImplementsGraph == Spec => Implements
  <1>1. Spec => Graph!Init /\ [][Graph!Next]_(Graph!vars)
    BY InitImplements, NextImplements, Invariant, PTL DEF Spec
  <1> QED BY <1>1 DEF Implements, Graph!Spec
=============================================================================
