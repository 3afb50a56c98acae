------------------------------- MODULE GcMove -------------------------------
(***************************************************************************)
(* One garbage collection of the Little Smalltalk VM, src/vm/memory.c:     *)
(* gcollect() calls do_gc(), which makes the spare space the current one   *)
(* and calls gc_move() on every root; gc_move() copies the object graph    *)
(* depth first into the new space.  It keeps no stack: the path from the   *)
(* object being copied back to the root is threaded through the words the  *)
(* copies have not filled in yet, and every object of the old space, once  *)
(* copied, holds the address of its copy in the word its (counted down)    *)
(* size designates.  The model has one action per turn of the two inner    *)
(* loops of gc_move().                                                     *)
(*                                                                         *)
(* Memory is modelled object by object.  As in struct mobject, word 0 of   *)
(* an object is its class and words 1..n are its fields or its bytes.      *)
(* Addresses of the old space are the members of OldObj; the new space is  *)
(* the words 0..SpaceWords, filled downwards from the top, and the address *)
(* of a copy is the integer that memoryPointer has when it is allocated.   *)
(***************************************************************************)
EXTENDS Integers, Sequences, FiniteSetsExt

CONSTANTS
  OldObj,        \* the addresses of the objects in the old space
  Outside,       \* addresses in neither space
  SmallInt,      \* tagged integers: words whose low bit is set
  Null,          \* the null pointer
  Junk,          \* what a word of the new space holds before it is written
  Stale,         \* new-space addresses that leaked into the old graph
  BytesPerWord,
  SpaceWords,    \* words in a space
  RootCount,     \* rootTop + staticRootTop
  Request,       \* the size gcollect() is asked for
  InitHeaps,     \* the old spaces a collection may start from
  InitRoots      \* the roots a collection may start from

(***************************************************************************)
(* What a word of the old space can hold when the collection starts.       *)
(***************************************************************************)
Value == OldObj \cup Outside \cup SmallInt \cup {Null} \cup Stale

\* TO_WORDS of memory.h
TO_WORDS(isz) == (isz + BytesPerWord - 1) \div BytesPerWord

\* The number of words after the class word; a binary size is in bytes.
Words(size, bin) == IF bin THEN TO_WORDS(size) ELSE size

IsHeap(h) ==
  /\ DOMAIN h = OldObj
  /\ \A a \in OldObj :
       /\ h[a].size \in Nat
       /\ h[a].bin \in BOOLEAN
       /\ h[a].data \in [0..Words(h[a].size, h[a].bin) -> Value]

\* The objects lie side by side in a space, each with two header words.
Extents(h) == [a \in OldObj |-> Words(h[a].size, h[a].bin) + 2]
FitsSpace(h) == SumFunctionOnSet(Extents(h), OldObj) <= SpaceWords

ASSUME WordAssumption ==
  /\ BytesPerWord \in Nat \ {0}
  /\ SpaceWords \in Nat
  /\ RootCount \in Nat
  /\ Request \in Nat

ASSUME AddressAssumption ==
  /\ IsFiniteSet(OldObj)
  /\ Stale \subseteq 0..SpaceWords
  /\ \A x \in OldObj \cup Outside \cup SmallInt \cup {Null, Junk} :
       x \notin Int
  /\ OldObj \cap (Outside \cup SmallInt \cup {Null}) = {}
  /\ SmallInt \cap (Outside \cup {Null}) = {}
  /\ Null \notin Outside
  /\ Junk \notin OldObj \cup Outside \cup SmallInt \cup {Null}

ASSUME InitAssumption ==
  /\ \A h \in InitHeaps : IsHeap(h) /\ FitsSpace(h)
  /\ InitRoots \subseteq [1..RootCount -> Value]

VARIABLES
  pc,              \* where do_gc() and gc_move() are
  roots,           \* rootStack followed by the words staticRoots point to
  root,            \* i, the root being moved
  oldSize,         \* SIZE of the header of every object of the old space
  gcdone,          \* the objects of the old space with FLAG_GCDONE
  oldData,         \* the words of the old space, class first
  newHdr,          \* header of every object of the new space
  newData,         \* the words of the new space, class first
  memoryPointer,   \* lowest word of the new space in use
  oldAddress, previousObject, replacement,      \* locals of gc_move()
  cache,           \* old objects that the method cache names
  heap0, roots0,   \* history: the graph as it was when do_gc() was called
  path             \* history: the objects whose copies are incomplete

locals == <<oldAddress, previousObject, replacement>>
old == <<oldSize, gcdone, oldData>>
new == <<newHdr, newData, memoryPointer>>
vars == <<pc, roots, root, old, new, locals, cache, heap0, roots0, path>>

IS_BINOBJ(a) == heap0[a].bin
IN_NEWSPACE(v) == v \in 0..SpaceWords
IN_OLDSPACE(v) == v \in OldObj
IS_GCDONE(a) == a \in gcdone

\* The word of a moved old object that holds the address of its copy.
Cursor(a) == IF IS_BINOBJ(a) THEN 0 ELSE oldSize[a]
Forward(a) == oldData[a][Cursor(a)]

TopWord == SpaceWords

Init ==
  /\ heap0 \in InitHeaps
  /\ roots0 \in InitRoots
  /\ pc = "root"
  /\ roots = roots0
  /\ root = 1
  /\ oldSize = [a \in OldObj |-> heap0[a].size]
  /\ gcdone = {}
  /\ oldData = [a \in OldObj |-> heap0[a].data]
  /\ newHdr = <<>>
  /\ newData = <<>>
  /\ memoryPointer = TopWord
  /\ oldAddress = Null
  /\ previousObject = Null
  /\ replacement = Null
  /\ cache \in SUBSET OldObj
  /\ path = <<>>

\* for (i = 0; i < rootTop; i++) ... gc_move(rootStack[i]), then staticRoots
StartMove ==
  /\ pc = "root"
  /\ root <= RootCount
  /\ pc' = "down"
  /\ oldAddress' = roots[root]
  /\ previousObject' = Null
  /\ replacement' = Null
  /\ UNCHANGED <<roots, root, old, new, cache, heap0, roots0, path>>

-----------------------------------------------------------------------------
(***************************************************************************)
(* Part 1: walking down the tree.                                          *)
(***************************************************************************)

\* The word needs no copy: carry it back up as it is.
Leave(v) ==
  /\ replacement' = v
  /\ oldAddress' = previousObject
  /\ pc' = "up"
  /\ UNCHANGED <<previousObject, roots, root, old, new, cache, heap0, roots0,
                 path>>

\* Mutant: no check for a pointer into the new space.
DownLeafUnchecked ==
  /\ pc = "down"
  /\ ~IN_OLDSPACE(oldAddress)
  /\ Leave(oldAddress)

\* A SmallInt, or a pointer to neither space (NULL included).
DownLeaf ==
  /\ pc = "down"
  /\ ~IN_NEWSPACE(oldAddress)
  /\ ~IN_OLDSPACE(oldAddress)
  /\ Leave(oldAddress)

\* error("gc_move(): GC invariant failure -- ..."): the VM exits
DownStale ==
  /\ pc = "down"
  /\ IN_NEWSPACE(oldAddress)
  /\ pc' = "error"
  /\ UNCHANGED <<roots, root, old, new, locals, cache, heap0, roots0, path>>

DownForwarded ==
  /\ pc = "down"
  /\ IN_OLDSPACE(oldAddress)
  /\ IS_GCDONE(oldAddress)
  /\ Leave(Forward(oldAddress))

\* Mutant: SET_GCDONE is missing.
CopyUnmarked(a, n, size, bin, words, w) ==
  /\ memoryPointer' = n
  /\ newHdr' = [m \in DOMAIN newHdr \cup {n} |->
                  IF m = n THEN [size |-> size, bin |-> bin] ELSE newHdr[m]]
  /\ newData' = [m \in DOMAIN newData \cup {n} |->
                  IF m = n THEN [words EXCEPT ![w] = previousObject]
                  ELSE newData[m]]
  /\ gcdone' = gcdone
  /\ previousObject' = a
  /\ oldAddress' = oldData[a][w]
  /\ oldData' = [oldData EXCEPT ![a][w] = n]
  /\ path' = Append(path, a)
  /\ UNCHANGED <<pc, replacement, roots, root, oldSize, cache, heap0, roots0>>

\* Allocate the copy of a at address n, its word w linking back to the
\* object that was being copied, and go chase down what a holds in word w.
Copy(a, n, size, bin, words, w) ==
  /\ memoryPointer' = n
  /\ newHdr' = [m \in DOMAIN newHdr \cup {n} |->
                  IF m = n THEN [size |-> size, bin |-> bin] ELSE newHdr[m]]
  /\ newData' = [m \in DOMAIN newData \cup {n} |->
                  IF m = n THEN [words EXCEPT ![w] = previousObject]
                  ELSE newData[m]]
  /\ gcdone' = gcdone \cup {a}
  /\ previousObject' = a
  /\ oldAddress' = oldData[a][w]
  /\ oldData' = [oldData EXCEPT ![a][w] = n]
  /\ path' = Append(path, a)
  /\ UNCHANGED <<pc, replacement, roots, root, oldSize, cache, heap0, roots0>>

\* A binary object: its bytes are copied at once, its class comes next.
DownBinary ==
  /\ pc = "down"
  /\ IN_OLDSPACE(oldAddress) /\ ~IS_GCDONE(oldAddress)
  /\ IS_BINOBJ(oldAddress)
  /\ LET isz == oldSize[oldAddress]
         sz  == TO_WORDS(isz)
     IN Copy(oldAddress, memoryPointer - (sz + 2), isz, TRUE,
             [k \in 0..sz |-> IF k = 0 THEN Junk ELSE oldData[oldAddress][k]],
             0)

\* Mutant: the class word is not allowed for.
DownOrdinaryShort ==
  /\ pc = "down"
  /\ IN_OLDSPACE(oldAddress) /\ ~IS_GCDONE(oldAddress)
  /\ ~IS_BINOBJ(oldAddress)
  /\ LET sz == oldSize[oldAddress]
     IN Copy(oldAddress, memoryPointer - (sz + 1), sz, FALSE,
             [k \in 0..sz |-> Junk], sz)

\* An ordinary object: its last field comes next.
DownOrdinary ==
  /\ pc = "down"
  /\ IN_OLDSPACE(oldAddress) /\ ~IS_GCDONE(oldAddress)
  /\ ~IS_BINOBJ(oldAddress)
  /\ LET sz == oldSize[oldAddress]
     IN Copy(oldAddress, memoryPointer - (sz + 2), sz, FALSE,
             [k \in 0..sz |-> Junk], sz)

-----------------------------------------------------------------------------
(***************************************************************************)
(* Part 2: fix up pointers, moving back up the tree.  oldAddress is the    *)
(* object whose copy receives the replacement.                             *)
(***************************************************************************)

\* Backed out entirely: gc_move() returns the root's new value.
UpReturn ==
  /\ pc = "up"
  /\ oldAddress = Null
  /\ roots' = [roots EXCEPT ![root] = replacement]
  /\ root' = root + 1
  /\ pc' = "root"
  /\ UNCHANGED <<old, new, locals, cache, heap0, roots0, path>>

\* Mutant: the parent is given the old address.
UpClassOldAddress ==
  /\ pc = "up"
  /\ oldAddress # Null
  /\ IS_BINOBJ(oldAddress) \/ oldSize[oldAddress] = 0
  /\ LET n == oldData[oldAddress][0] IN
       /\ previousObject' = newData[n][0]
       /\ oldAddress' = newData[n][0]
       /\ newData' = [newData EXCEPT ![n][0] = replacement]
       /\ replacement' = oldAddress
  /\ path' = SubSeq(path, 1, Len(path) - 1)
  /\ UNCHANGED <<pc, roots, root, old, newHdr, memoryPointer, cache, heap0,
                 roots0>>

\* Mutant: does not go on to the parent.
UpClassStays ==
  /\ pc = "up"
  /\ oldAddress # Null
  /\ IS_BINOBJ(oldAddress) \/ oldSize[oldAddress] = 0
  /\ LET n == oldData[oldAddress][0] IN
       /\ previousObject' = newData[n][0]
       /\ oldAddress' = oldAddress
       /\ newData' = [newData EXCEPT ![n][0] = replacement]
       /\ replacement' = n
  /\ path' = SubSeq(path, 1, Len(path) - 1)
  /\ UNCHANGED <<pc, roots, root, old, newHdr, memoryPointer, cache, heap0,
                 roots0>>

\* Case 1: the class word.  The copy is complete; go on with its parent.
UpClass ==
  /\ pc = "up"
  /\ oldAddress # Null
  /\ IS_BINOBJ(oldAddress) \/ oldSize[oldAddress] = 0
  /\ LET n == oldData[oldAddress][0] IN
       /\ previousObject' = newData[n][0]
       /\ oldAddress' = newData[n][0]
       /\ newData' = [newData EXCEPT ![n][0] = replacement]
       /\ replacement' = n
  /\ path' = SubSeq(path, 1, Len(path) - 1)
  /\ UNCHANGED <<pc, roots, root, old, newHdr, memoryPointer, cache, heap0,
                 roots0>>

\* Mutant: the null fields of the copy are left unwritten.
UpFieldUnwritten ==
  /\ pc = "up"
  /\ oldAddress # Null
  /\ ~IS_BINOBJ(oldAddress) /\ oldSize[oldAddress] # 0
  /\ LET a  == oldAddress
         sz == oldSize[a]
         n  == oldData[a][sz]
     IN \E j \in 0..(sz - 1) :
          /\ \A k \in (j + 1)..(sz - 1) : oldData[a][k] = Null
          /\ j = 0 \/ oldData[a][j] # Null
          /\ newData' = [newData EXCEPT ![n] =
                [k \in DOMAIN newData[n] |->
                   IF k = sz THEN replacement
                   ELSE IF k = j THEN newData[n][sz]
                   ELSE newData[n][k]]]
          /\ oldSize' = [oldSize EXCEPT ![a] = j]
          /\ oldAddress' = oldData[a][j]
          /\ oldData' = [oldData EXCEPT ![a][j] = n]
          /\ previousObject' = a
  /\ pc' = "down"
  /\ UNCHANGED <<replacement, roots, root, gcdone, newHdr, memoryPointer,
                 cache, heap0, roots0, path>>

\* Mutant: the forwarding address does not follow the size.
UpFieldUnforwarded ==
  /\ pc = "up"
  /\ oldAddress # Null
  /\ ~IS_BINOBJ(oldAddress) /\ oldSize[oldAddress] # 0
  /\ LET a  == oldAddress
         sz == oldSize[a]
         n  == oldData[a][sz]
     IN \E j \in 0..(sz - 1) :
          /\ \A k \in (j + 1)..(sz - 1) : oldData[a][k] = Null
          /\ j = 0 \/ oldData[a][j] # Null
          /\ newData' = [newData EXCEPT ![n] =
                [k \in DOMAIN newData[n] |->
                   IF k = sz THEN replacement
                   ELSE IF k = j THEN newData[n][sz]
                   ELSE IF k \in (j + 1)..(sz - 1) THEN Null
                   ELSE newData[n][k]]]
          /\ oldSize' = [oldSize EXCEPT ![a] = j]
          /\ oldAddress' = oldData[a][j]
          /\ oldData' = oldData
          /\ previousObject' = a
  /\ pc' = "down"
  /\ UNCHANGED <<replacement, roots, root, gcdone, newHdr, memoryPointer,
                 cache, heap0, roots0, path>>

\* Case 2: a field.  Null fields below it are recovered on the spot; word j
\* is the next one to go and track down.
UpField ==
  /\ pc = "up"
  /\ oldAddress # Null
  /\ ~IS_BINOBJ(oldAddress) /\ oldSize[oldAddress] # 0
  /\ LET a  == oldAddress
         sz == oldSize[a]
         n  == oldData[a][sz]
     IN \E j \in 0..(sz - 1) :
          /\ \A k \in (j + 1)..(sz - 1) : oldData[a][k] = Null
          /\ j = 0 \/ oldData[a][j] # Null
          /\ newData' = [newData EXCEPT ![n] =
                [k \in DOMAIN newData[n] |->
                   IF k = sz THEN replacement
                   ELSE IF k = j THEN newData[n][sz]
                   ELSE IF k \in (j + 1)..(sz - 1) THEN Null
                   ELSE newData[n][k]]]
          /\ oldSize' = [oldSize EXCEPT ![a] = j]
          /\ oldAddress' = oldData[a][j]
          /\ oldData' = [oldData EXCEPT ![a][j] = n]
          /\ previousObject' = a
  /\ pc' = "down"
  /\ UNCHANGED <<replacement, roots, root, gcdone, newHdr, memoryPointer,
                 cache, heap0, roots0, path>>

-----------------------------------------------------------------------------
\* Mutant: the method cache survives the collection.
FlushCacheNot ==
  /\ pc = "root"
  /\ root > RootCount
  /\ cache' = cache
  /\ pc' = "alloc"
  /\ UNCHANGED <<roots, root, old, new, locals, heap0, roots0, path>>

\* Mutant: the last root is not moved.
FlushCacheEarly ==
  /\ pc = "root"
  /\ root >= RootCount
  /\ cache' = {}
  /\ pc' = "alloc"
  /\ UNCHANGED <<roots, root, old, new, locals, heap0, roots0, path>>

\* do_gc() has moved every root: flushCache()
FlushCache ==
  /\ pc = "root"
  /\ root > RootCount
  /\ cache' = {}
  /\ pc' = "alloc"
  /\ UNCHANGED <<roots, root, old, new, locals, heap0, roots0, path>>

\* gcollect() allocates what was asked for, or the VM exits for want of memory
Allocate ==
  /\ pc = "alloc"
  /\ memoryPointer' = memoryPointer - (Request + 2)
  /\ IF memoryPointer' < 0
     THEN pc' = "oom" /\ UNCHANGED <<newHdr, newData>>
     ELSE /\ pc' = "done"
          /\ newHdr' = [m \in DOMAIN newHdr \cup {memoryPointer'} |->
                          IF m = memoryPointer'
                          THEN [size |-> Request, bin |-> FALSE]
                          ELSE newHdr[m]]
          /\ newData' = [m \in DOMAIN newData \cup {memoryPointer'} |->
                          IF m = memoryPointer'
                          THEN [k \in 0..Request |-> Junk]
                          ELSE newData[m]]
  /\ UNCHANGED <<roots, root, old, locals, cache, heap0, roots0, path>>

Next ==
  \/ StartMove
  \/ DownLeaf \/ DownStale \/ DownForwarded \/ DownBinary \/ DownOrdinary
  \/ UpReturn \/ UpClass \/ UpField
  \/ FlushCache \/ Allocate

Spec == Init /\ [][Next]_vars

\* The collector runs to completion inside one call of gcollect(): nothing
\* can suspend the VM's single thread between two steps.
FairSpec == Spec /\ WF_vars(Next)

-----------------------------------------------------------------------------
(***************************************************************************)
(* Properties.                                                             *)
(***************************************************************************)

\* do_gc() has returned, with or without room for the request
Collected == pc \in {"alloc", "done", "oom"}

\* The words of an object that hold pointers: every word of an ordinary
\* object, only the class of a binary one.
Traced(a) == IF heap0[a].bin THEN {0} ELSE 0..heap0[a].size

\* What the old word v must become in the new space.
Map(v) == IF v \in OldObj THEN Forward(v) ELSE v

\* S holds the objects the roots name and is closed under following pointers.
Closed(S) ==
  /\ \A r \in 1..RootCount : roots0[r] \in OldObj => roots0[r] \in S
  /\ \A a \in S : \A k \in Traced(a) :
       heap0[a].data[k] \in OldObj => heap0[a].data[k] \in S

Live == {a \in OldObj : \A S \in SUBSET OldObj : Closed(S) => a \in S}

\* A live object, or a root, names an address of the new space.
LiveStale ==
  \/ \E r \in 1..RootCount : roots0[r] \in Stale
  \/ \E a \in Live : \E k \in Traced(a) : heap0[a].data[k] \in Stale

\* The registers and both spaces hold what gc_move() takes them to hold: in
\* particular, it only backs up through old objects (or has reached the root)
\* and never carries an old address back up as a replacement.
TypeOK ==
  /\ pc \in {"root", "down", "up", "alloc", "done", "oom", "error"}
  /\ roots \in [1..RootCount -> Value \cup Int]
  /\ root \in 1..(RootCount + 1)
  /\ oldSize \in [OldObj -> Nat]
  /\ gcdone \subseteq OldObj
  /\ DOMAIN oldData = OldObj
  /\ \A a \in OldObj : oldData[a] \in
       [0..Words(heap0[a].size, heap0[a].bin) -> Value \cup Int]
  /\ DOMAIN newHdr \subseteq Int
  /\ DOMAIN newData = DOMAIN newHdr
  /\ \A n \in DOMAIN newHdr :
       /\ newHdr[n] \in [size : Nat, bin : BOOLEAN]
       /\ newData[n] \in [0..Words(newHdr[n].size, newHdr[n].bin) ->
                            Value \cup Int \cup {Junk}]
  /\ memoryPointer \in Int
  /\ oldAddress \in Value
  /\ pc = "up" => /\ oldAddress \in OldObj \cup {Null}
                  /\ replacement \in (Value \ OldObj) \cup DOMAIN newData
  /\ previousObject \in OldObj \cup {Null}
  /\ cache \subseteq OldObj
  /\ path \in Seq(OldObj)

\* A collection changes no object but its address: every root and every word
\* of a copy is the image of what it was, no two objects became one, and the
\* bytes of a binary object are what they were.  (gc_move(), and the promise
\* of its comment: it "moves it, and everything it points to".)
GraphPreserved ==
  Collected =>
    /\ \A r \in 1..RootCount : roots[r] = Map(roots0[r])
    /\ \A a, b \in gcdone : Forward(a) = Forward(b) => a = b
    /\ \A a \in gcdone :
         LET n == Forward(a) IN
           /\ n \in DOMAIN newHdr
           /\ newHdr[n] = [size |-> heap0[a].size, bin |-> heap0[a].bin]
           /\ DOMAIN newData[n] = DOMAIN heap0[a].data
           /\ \A k \in DOMAIN heap0[a].data :
                newData[n][k] = IF k \in Traced(a) THEN Map(heap0[a].data[k])
                                ELSE heap0[a].data[k]

\* All that is reachable is copied and nothing else is: the collector neither
\* loses a live object nor keeps a dead one, cycles included.
ExactlyLive == Collected => gcdone = Live

\* No word of the VM that survives do_gc() still names the old space: not a
\* root, not a word of a copy that will be followed, not the method cache.
NoOldPointer ==
  Collected =>
    /\ \A r \in 1..RootCount : roots[r] \notin OldObj
    /\ \A n \in DOMAIN newData : \A k \in DOMAIN newData[n] :
         ~newHdr[n].bin \/ k = 0 => newData[n][k] \notin OldObj
    /\ cache = {}

\* Copies do not overlap and lie above memoryPointer, so that the next
\* allocation overwrites none of them.
NoOverlap ==
  /\ \A n \in DOMAIN newHdr : memoryPointer <= n
  /\ \A m, n \in DOMAIN newHdr : m < n =>
       m + Words(newHdr[m].size, newHdr[m].bin) + 2 <= n

\* gc_move() never checks memoryPointer against memoryBase: it need not,
\* since what it copies fitted in a space of the same size.
CopiesFit == pc # "oom" => memoryPointer >= 0

\* The "GC invariant failure" stops the VM exactly when a live word names the
\* new space: no collection completes with one and none stops without one.
StaleCaught ==
  /\ Collected => ~LiveStale
  /\ pc = "error" => LiveStale

\* The forwarding address of a moved object never changes, though the word
\* that holds it does each time gc_move() comes back to the object.
ForwardingStable ==
  [][\A a \in gcdone : a \in gcdone' /\ Forward(a)' = Forward(a)]_vars

\* gc_move() terminates on every graph, cyclic ones included.
Terminates == <>(pc \in {"done", "oom", "error"})

=============================================================================
