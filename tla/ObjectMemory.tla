---------------------------- MODULE ObjectMemory ----------------------------
(***************************************************************************)
(* src/vm/memory.c as its callers see it: two spaces, of which one is in   *)
(* use, filled downwards from its top; a collection whenever an allocation *)
(* finds no room; static roots; and the exchange of identities, which      *)
(* walks the space object by object.                                       *)
(*                                                                         *)
(* A collection is one step here: gc_move() itself is module GcMove.  The  *)
(* copies lie side by side below the top of the other space, in some order *)
(* (GcMove!GraphPreserved, ExactlyLive, NoOverlap and CopiesFit).          *)
(*                                                                         *)
(* The C code that uses the memory is any code that keeps its side: it     *)
(* sets the fields of an object that can be reached before it allocates    *)
(* again, and holds no object in a C variable across that but in a         *)
(* registered one.                                                         *)
(***************************************************************************)
EXTENDS Integers, Sequences, FiniteSetsExt

CONSTANTS
  Plain,         \* words that name no object: SmallInts and the null pointer
  Junk,          \* what a word holds that has not been set since its allocation
  None,          \* no object
  Global,        \* C variables that may be registered as static roots
  Shapes,        \* <<size, bin>>: the nth object allocated is one of Shapes[n],
                 \* if bin with a size in bytes
  MaxRoots,      \* bound on rootStack
  MaxObjects,    \* bound on the number of allocations
  BytesPerWord,
  spaceSize,     \* words in a space
  STATICROOTLIMIT

ASSUME MemoryAssumption ==
  /\ BytesPerWord \in Nat \ {0} /\ spaceSize \in Nat /\ STATICROOTLIMIT \in Nat
  /\ MaxRoots \in Nat /\ MaxObjects \in Nat
  /\ Shapes \in [1..MaxObjects -> SUBSET (Nat \X BOOLEAN)]
  /\ Plain \cap Int = {} /\ None \notin Int \cup Plain
  /\ Junk \notin Int \cup Plain \cup {None}

VARIABLES
  inSpaceOne,
  memoryPointer,
  heap,          \* address -> [size, bin, class, data]; data of ordinary objects
  rootStack,
  staticRoots,   \* the registered variables, in the order of the table
  global,        \* all those variables
  fresh,         \* the object the C code has just allocated or popped, or None
  stopped,       \* error() has ended the program
  id,            \* history: address -> identity
  born           \* history: number of allocations

roots == <<rootStack, staticRoots, global>>
space == <<inSpaceOne, memoryPointer, id, born>>
vars == <<roots, space, heap, fresh, stopped>>

spaceOne == 0
spaceTwo == spaceSize + 1
BaseOf(one) == IF one THEN spaceOne ELSE spaceTwo
memoryBase == BaseOf(inSpaceOne)
memoryTop == memoryBase + spaceSize

TO_WORDS(isz) == (isz + BytesPerWord - 1) \div BytesPerWord
Extent(size, bin) == (IF bin THEN TO_WORDS(size) ELSE size) + 2
Extents == [a \in DOMAIN heap |-> Extent(heap[a].size, heap[a].bin)]
\* The end of an object: the header, the class and the words
EndOf(a) == a + Extents[a]

References(o) == {o.class} \cup {o.data[k] : k \in DOMAIN o.data}
Registered == {staticRoots[i] : i \in DOMAIN staticRoots}
Roots == {rootStack[i] : i \in DOMAIN rootStack}
         \cup {global[g] : g \in Registered}

Closed(S) ==
  /\ Roots \cap DOMAIN heap \subseteq S
  /\ \A a \in S : References(heap[a]) \cap DOMAIN heap \subseteq S
Live == LET closed == {S \in SUBSET DOMAIN heap : Closed(S)} IN
          {a \in DOMAIN heap : \A S \in closed : a \in S}

Named == Live \cup ({fresh} \cap DOMAIN heap)

\* gcinit()
Init ==
  /\ inSpaceOne = TRUE
  /\ memoryPointer = spaceOne + spaceSize
  /\ heap = <<>>
  /\ rootStack = <<>>
  /\ staticRoots = <<>>
  /\ global = [g \in Global |-> Junk]
  /\ fresh = None
  /\ stopped = FALSE
  /\ id = <<>>
  /\ born = 0

-----------------------------------------------------------------------------
(***************************************************************************)
(* Allocation.                                                             *)
(***************************************************************************)
\* Mutant: SET_BINOBJ is forgotten.
UnsetOrdinary(size, bin, class) ==
  [size |-> size, bin |-> FALSE, class |-> class,
   data |-> [k \in IF bin THEN {} ELSE 0..(size - 1) |-> Junk]]

Unset(size, bin, class) ==
  [size |-> size, bin |-> bin, class |-> class,
   data |-> [k \in IF bin THEN {} ELSE 0..(size - 1) |-> Junk]]

\* memoryPointer -= sz + 2, in a space that holds the objects h, and the
\* caller's x->class = ..., which it finds in a root
Allocated(h, ids, words, pointer, size, bin) ==
  LET a == pointer - Extent(size, bin) IN
    /\ memoryPointer' = a
    /\ \E class \in (words \cap DOMAIN h) \cup {a} :
         heap' = [b \in DOMAIN h \cup {a} |->
                    IF b = a THEN Unset(size, bin, class) ELSE h[b]]
    /\ id' = [b \in DOMAIN ids \cup {a} |-> IF b = a THEN born + 1 ELSE ids[b]]
    /\ born' = born + 1
    /\ fresh' = a

\* Objects fill a space from pointer to top: none overlaps another, each ends
\* where another begins or at the top, and going from one to where it ends one
\* comes to all of them.
Fill(start, end, objs, pointer, top) ==
  /\ \A a \in objs : pointer <= start[a] /\ end[a] <= top
  /\ \A a, b \in objs : a # b => end[a] <= start[b] \/ end[b] <= start[a]
  /\ \A a \in objs : end[a] = top \/ \E b \in objs : end[a] = start[b]
  /\ pointer = top \/ \E a \in objs : pointer = start[a]
  /\ \A S \in SUBSET objs :
       S = objs \/ \E a \in objs \ S :
                    start[a] = pointer \/ \E b \in S : end[b] = start[a]

\* Where the copies of the objects in Live may be: they fill the space, in any
\* order.  (That is GcMove!NoOverlap and CopiesFit.)
Placements(top) ==
  LET InOrder(rank) ==
        [a \in Live |-> top - SumFunctionOnSet(Extents, {b \in Live : rank[b] <= rank[a]})]
      Orders == {rank \in [Live -> 1..Cardinality(Live)] :
                   \A a, b \in Live : rank[a] = rank[b] => a = b}
  IN {moved \in {InOrder(rank) : rank \in Orders} :
        /\ \A a \in Live : moved[a] >= top - spaceSize
        /\ Fill(moved, [a \in Live |-> moved[a] + Extents[a]], Live,
                Min({moved[a] : a \in Live} \cup {top}), top)}

\* w after a collection that makes the copy of a at moved[a]
Moved(w, moved) == IF w \in Live THEN moved[w] ELSE w

\* Mutant: the static roots are left as they are.
MovedGlobalsNot(moved) == global
MovedGlobals(moved) ==
  [g \in Global |-> IF g \in Registered THEN Moved(global[g], moved) ELSE global[g]]

\* do_gc()
Copied(moved) ==
  LET old == [n \in {moved[a] : a \in Live} |-> CHOOSE a \in Live : moved[a] = n]
  IN [objects |-> [n \in DOMAIN old |->
        [heap[old[n]] EXCEPT !.class = Moved(@, moved),
                             !.data = [k \in DOMAIN @ |-> Moved(@[k], moved)]]],
      ids |-> [n \in DOMAIN old |-> id[old[n]]],
      roots |-> {Moved(w, moved) : w \in Roots},
      rootStack |-> [i \in DOMAIN rootStack |-> Moved(rootStack[i], moved)],
      global |-> MovedGlobals(moved)]

\* Mutant: a space that the request fills to the last word is taken for full.
RoomSpared(pointer, size, bin, base) == pointer - Extent(size, bin) > base
HasRoom(pointer, size, bin, base) == pointer - Extent(size, bin) >= base

\* The caller's side: see above.
Settled == \A a \in Live : Junk \notin References(heap[a])

\* gcalloc(), and gcialloc() where bin
gcalloc(size, bin) ==
  /\ HasRoom(memoryPointer, size, bin, memoryBase)
  /\ Allocated(heap, id, Roots, memoryPointer, size, bin)
  /\ UNCHANGED <<inSpaceOne, roots, stopped>>

gcollect(size, bin) ==
  /\ ~HasRoom(memoryPointer, size, bin, memoryBase)
  /\ LET base == BaseOf(~inSpaceOne)
         top == base + spaceSize
     IN \E moved \in Placements(top) :
          LET new == Copied(moved)
              pointer == Min(DOMAIN new.objects \cup {top})
          IN IF ~HasRoom(pointer, size, bin, base)
             THEN /\ stopped' = TRUE
                  /\ UNCHANGED <<roots, space, heap, fresh>>
             ELSE /\ inSpaceOne' = ~inSpaceOne
                  /\ Allocated(new.objects, new.ids, new.roots, pointer, size, bin)
                  /\ rootStack' = new.rootStack
                  /\ global' = new.global
                  /\ UNCHANGED <<staticRoots, stopped>>

Allocate(size, bin) ==
  /\ Settled
  /\ gcalloc(size, bin) \/ gcollect(size, bin)

-----------------------------------------------------------------------------
(***************************************************************************)
(* What the callers do with objects and roots.                             *)
(***************************************************************************)
SetField(a, k, w) ==
  /\ heap' = [heap EXCEPT ![a].data[k] = w]
  /\ UNCHANGED <<roots, space, fresh, stopped>>

PUSH_ROOT(w) ==
  /\ Len(rootStack) < MaxRoots
  /\ rootStack' = Append(rootStack, w)
  /\ UNCHANGED <<space, heap, staticRoots, global, fresh, stopped>>

\* x = rootStack[--rootTop]
POP_ROOT ==
  /\ rootStack # <<>>
  /\ fresh' = rootStack[Len(rootStack)]
  /\ rootStack' = SubSeq(rootStack, 1, Len(rootStack) - 1)
  /\ UNCHANGED <<space, heap, staticRoots, global, stopped>>

\* g = w; addStaticRoot(&g).  A variable is in the table once.
addStaticRoot(g, w) ==
  /\ IF g \in Registered
     THEN UNCHANGED <<staticRoots, stopped>> /\ global' = [global EXCEPT ![g] = w]
     ELSE IF Len(staticRoots) >= STATICROOTLIMIT
     THEN stopped' = TRUE /\ UNCHANGED <<staticRoots, global>>
     ELSE /\ staticRoots' = Append(staticRoots, g)
          /\ global' = [global EXCEPT ![g] = w]
          /\ UNCHANGED stopped
  /\ UNCHANGED <<space, heap, rootStack, fresh>>

-----------------------------------------------------------------------------
(***************************************************************************)
(* exchangeObjects() of two arrays, which primitive 35 found to be arrays  *)
(* of the same size.  No local of the caller is exchanged.                 *)
(***************************************************************************)
\* The objects walk() comes to: that at memoryPointer, then the next one
Walked ==
  LET Next(S) == {EndOf(a) : a \in S} \cup {memoryPointer} IN
    {a \in DOMAIN heap : \A S \in SUBSET DOMAIN heap :
       Next(S) \cap DOMAIN heap \subseteq S => a \in S}

\* map(), which takes the first match
map(w, array1, array2) ==
  LET A == heap[array1].data
      B == heap[array2].data
      found == {x \in DOMAIN A : A[x] = w \/ B[x] = w}
      first == Min(found)
  IN IF found = {} THEN w ELSE IF A[first] = w THEN B[first] ELSE A[first]

\* Mutant: an object found to be an argument is not remapped at all.
walkSkipped(op, array1, array2) ==
  IF op \in {array1, array2} THEN heap[op]
  ELSE [heap[op] EXCEPT !.class = map(@, array1, array2),
          !.data = [k \in DOMAIN @ |-> map(@[k], array1, array2)]]

\* What walk() makes of an object
walk(op, array1, array2) ==
  [heap[op] EXCEPT
     !.class = map(@, array1, array2),
     !.data = IF op \in {array1, array2} THEN @
              ELSE [k \in DOMAIN @ |-> map(@[k], array1, array2)]]

\* Two arrays of the same size, as primitive 35 checks, whose elements are
\* objects and are there once, as nothing checks
Exchangeable(array1, array2) ==
  LET A == heap[array1].data
      B == heap[array2].data
  IN /\ ~heap[array1].bin /\ ~heap[array2].bin
     /\ DOMAIN A = DOMAIN B
     /\ \A j, k \in DOMAIN A :
          /\ {A[k], B[k]} \subseteq DOMAIN heap
          /\ A[j] = A[k] \/ A[j] = B[k] \/ B[j] = B[k] => j = k

exchangeObjects(array1, array2) ==
  /\ heap' = [a \in DOMAIN heap |->
                IF a \in Walked THEN walk(a, array1, array2) ELSE heap[a]]
  /\ rootStack' = [i \in DOMAIN rootStack |-> map(rootStack[i], array1, array2)]
  /\ global' = [g \in Global |-> IF g \in Registered
                                 THEN map(global[g], array1, array2) ELSE global[g]]
  /\ fresh' = None
  /\ UNCHANGED <<space, staticRoots, stopped>>

-----------------------------------------------------------------------------
Next ==
  /\ ~stopped
  /\ LET named == Named IN
     \/ /\ born < MaxObjects
        /\ \E shape \in Shapes[born + 1] : Allocate(shape[1], shape[2])
     \/ \E a \in named, w \in Plain \cup named :
          \E k \in DOMAIN heap[a].data : SetField(a, k, w)
     \/ \E a \in named : PUSH_ROOT(a) \/ \E g \in Global : addStaticRoot(g, a)
     \/ POP_ROOT
     \/ \E array1, array2 \in named :
          Exchangeable(array1, array2) /\ exchangeObjects(array1, array2)

Spec == Init /\ [][Next]_vars

-----------------------------------------------------------------------------
(***************************************************************************)
(* Properties.                                                             *)
(***************************************************************************)
Value == Plain \cup {Junk} \cup DOMAIN heap

\* In particular every word of the heap and of the roots names an object of
\* the space in use, or none: nothing dangles after a collection.
TypeOK ==
  /\ inSpaceOne \in BOOLEAN /\ stopped \in BOOLEAN
  /\ memoryPointer \in memoryBase..memoryTop
  /\ DOMAIN heap \subseteq memoryBase..memoryTop
  /\ \A a \in DOMAIN heap :
       /\ heap[a].size \in Nat /\ heap[a].bin \in BOOLEAN
       /\ References(heap[a]) \subseteq Value
  /\ \A i \in DOMAIN rootStack : rootStack[i] \in Value
  /\ \A g \in Registered : global[g] \in Value
  /\ fresh \in Value \cup {None}
  /\ born \in Nat
  /\ DOMAIN id = DOMAIN heap

\* From memoryPointer to memoryTop the space is filled with objects, so that
\* walk(), which trusts the sizes it finds, neither misses one nor takes
\* anything else for one.  (gcalloc() only leaves room that it gives out, and
\* a binary object is followed by as many words as its size in bytes takes.)
Packed ==
  Fill([a \in DOMAIN heap |-> a], [a \in DOMAIN heap |-> EndOf(a)],
       DOMAIN heap, memoryPointer, memoryTop)

\* The program only ends for want of memory when the objects that can be
\* reached and the one requested do not fit one space together, and only ends
\* for want of static roots when all of them are in use.
StoppedForCause ==
  stopped =>
    \/ Cardinality(Registered) = STATICROOTLIMIT /\ Registered # Global
    \/ /\ born < MaxObjects
       /\ \E shape \in Shapes[born + 1] :
            Extent(shape[1], shape[2]) + SumFunctionOnSet(Extents, Live) > spaceSize

Name(w) == IF w \in DOMAIN heap THEN id[w] ELSE w
AddressOf(i) == CHOOSE a \in DOMAIN heap : id[a] = i

NamedObject(o) ==
  [o EXCEPT !.class = Name(@), !.data = [k \in DOMAIN @ |-> Name(@[k])]]
NamedObjects ==
  [i \in {id[a] : a \in DOMAIN heap} |-> NamedObject(heap[AddressOf(i)])]

Graph == INSTANCE ObjectGraph WITH
  objects <- NamedObjects,
  rootStack <- [i \in DOMAIN rootStack |-> Name(rootStack[i])],
  globals <- [g \in Registered |-> Name(global[g])],
  fresh <- Name(fresh)

\* Through collections, however objects are moved by them, and exchanges the
\* callers see the graph that they made: the two spaces, the order of the
\* copies and the walk through the space do not show.
Implements == Graph!Spec
=============================================================================
