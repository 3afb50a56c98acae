---------------------------- MODULE GcMoveProofs ----------------------------
(***************************************************************************)
(* The collector is correct for every heap, whatever its size and shape,   *)
(* and every set of roots that the assumptions of GcMove allow.            *)
(*                                                                         *)
(* The properties speak of the state in which do_gc() has returned. The    *)
(* invariant IInv says what gc_move() has achieved in between: of every    *)
(* object it has moved, the words above the forwarding address are final   *)
(* (InvCopy) and the word that will receive the next replacement links the *)
(* copy to the object above it on the path (InvPath), while nothing has    *)
(* been moved that a closed set of objects could leave out (InvLive).      *)
(*                                                                         *)
(* On it rest that the copies take no more than the objects did, which     *)
(* fitted in the old space (Room), and that a word the collection has      *)
(* finished with is no old address (Origin).                               *)
(***************************************************************************)
EXTENDS GcMove, FiniteRecursion

\* v has been dealt with: it needs no copy, or its copy is forwarded to.
Settled(v) == v \notin Stale /\ (v \in OldObj => v \in gcdone)

\* The words of an object after its class word.
W(a) == Words(heap0[a].size, heap0[a].bin)

\* The objects that have been moved and not completed yet.
OnPath == {path[i] : i \in 1..Len(path)}

\* The object that is being completed.
Top == IF path = <<>> THEN Null ELSE path[Len(path)]

\* The old word that gc_move() is busy with.
Pending == IF path = <<>> THEN roots0[root]
           ELSE heap0[path[Len(path)]].data[Cursor(path[Len(path)])]

\* The old space: an object that has not been moved is as it was; in one that
\* has, the words below the forwarding address are as they were.
InvOld ==
  /\ DOMAIN oldSize = OldObj /\ DOMAIN oldData = OldObj
  /\ gcdone \subseteq OldObj
  /\ \A a \in OldObj :
       IF a \notin gcdone
       THEN oldSize[a] = heap0[a].size /\ oldData[a] = heap0[a].data
       ELSE /\ oldSize[a] \in 0..heap0[a].size
            /\ heap0[a].bin => oldSize[a] = heap0[a].size
            /\ DOMAIN oldData[a] = 0..W(a)
            /\ \A k \in 0..W(a) : k < Cursor(a) =>
                 oldData[a][k] = heap0[a].data[k]

\* The new space: every copy lies at or above memoryPointer.
InvNew ==
  /\ memoryPointer \in Int
  /\ DOMAIN newHdr \subseteq Int
  /\ DOMAIN newData = DOMAIN newHdr
  /\ \A n \in DOMAIN newHdr : memoryPointer <= n

\* The copies: each has the size and kind of its object, and its words above
\* the cursor are final; they are all final once the object is off the path.
InvCopy ==
  /\ \A a \in gcdone :
       /\ Forward(a) \in DOMAIN newHdr
       /\ newHdr[Forward(a)] = [size |-> heap0[a].size, bin |-> heap0[a].bin]
       /\ DOMAIN newData[Forward(a)] = 0..W(a)
  /\ \A a \in gcdone : \A k \in 0..W(a) : k > Cursor(a) =>
       newData[Forward(a)][k] = IF heap0[a].bin THEN heap0[a].data[k]
                                ELSE Map(heap0[a].data[k])
  /\ \A a \in gcdone : \A k \in 0..W(a) : k > Cursor(a) /\ ~heap0[a].bin =>
       Settled(heap0[a].data[k])
  /\ \A a, b \in gcdone : Forward(a) = Forward(b) => a = b
  /\ \A a \in gcdone \ OnPath :
       /\ Cursor(a) = 0
       /\ newData[Forward(a)][0] = Map(heap0[a].data[0])
       /\ Settled(heap0[a].data[0])

\* The path: it starts at the root being moved, each object on it is named by
\* the pending word of the one before, and each copy links back to that one.
InvPath ==
  /\ path \in Seq(OldObj)
  /\ OnPath \subseteq gcdone
  /\ \A i, j \in 1..Len(path) : path[i] = path[j] => i = j
  /\ \A i \in 1..Len(path) :
       newData[Forward(path[i])][Cursor(path[i])]
         = IF i = 1 THEN Null ELSE path[i-1]
  /\ path # <<>> => root <= RootCount /\ path[1] = roots0[root]
  /\ \A i \in 1..Len(path) : i > 1 =>
       heap0[path[i-1]].data[Cursor(path[i-1])] = path[i]

\* The locals of gc_move() are about the top of the path and its pending word.
InvReg ==
  /\ pc = "down" => /\ root <= RootCount
                    /\ oldAddress = Pending
                    /\ previousObject = Top
  /\ pc = "up" => /\ root <= RootCount
                  /\ oldAddress = Top
                  /\ Settled(Pending)
                  /\ replacement = Map(Pending)
  /\ pc = "error" => root <= RootCount /\ Pending \in Stale
  /\ pc \notin {"down", "up", "error"} => path = <<>>
  /\ Collected => root = RootCount + 1

\* The roots before root have been moved, the others are as they were.
InvRoots ==
  /\ root \in 1..(RootCount + 1)
  /\ DOMAIN roots = 1..RootCount
  /\ \A r \in 1..RootCount :
       IF r < root THEN Settled(roots0[r]) /\ roots[r] = Map(roots0[r])
       ELSE roots[r] = roots0[r]

\* Whatever has been moved is in every closed set: it is reachable.
InvLive ==
  \A S \in SUBSET OldObj : Closed(S) => gcdone \subseteq S

\* The history variables keep the initial graph.
InvHist == heap0 \in InitHeaps /\ roots0 \in InitRoots

\* The inductive invariant.
IInv == /\ InvHist /\ InvOld /\ InvNew /\ InvCopy /\ InvPath /\ InvReg
        /\ InvRoots /\ InvLive

\* Rounding a natural number up to a multiple of y and dividing by y gives a
\* natural number.
LEMMA DivNat ==
  ASSUME NEW x \in Nat, NEW y \in Nat \ {0}
  PROVE  (x + y - 1) \div y \in Nat
  OBVIOUS

\* The number of words of an object is a natural number (TO_WORDS).
LEMMA WordsNat ==
  ASSUME NEW size \in Nat, NEW bin
  PROVE  Words(size, bin) \in Nat
  <1>1. TO_WORDS(size) \in Nat
    BY DivNat, WordAssumption DEF TO_WORDS
  <1> QED BY <1>1 DEF Words

\* What the assumptions say of the graph a collection starts from.
LEMMA HeapFacts ==
  ASSUME InvHist
  PROVE  /\ DOMAIN heap0 = OldObj
         /\ \A a \in OldObj :
              /\ heap0[a].size \in Nat
              /\ heap0[a].bin \in BOOLEAN
              /\ W(a) \in Nat
              /\ ~heap0[a].bin => W(a) = heap0[a].size
              /\ heap0[a].data \in [0..W(a) -> Value]
         /\ roots0 \in [1..RootCount -> Value]
  BY InitAssumption, WordsNat DEF InvHist, IsHeap, W, Words

\* The invariant holds when do_gc() starts: nothing has been moved.
LEMMA InitInv == Init => IInv
  <1> SUFFICES ASSUME Init PROVE IInv
    OBVIOUS
  <1>1. InvHist
    BY DEF Init, InvHist
  <1>2. /\ path = <<>> /\ gcdone = {} /\ pc = "root"
        /\ DOMAIN newHdr = {} /\ DOMAIN newData = {}
    BY DEF Init
  <1>3. InvOld
    BY <1>2 DEF Init, InvOld
  <1>4. InvNew
    BY <1>2, WordAssumption DEF Init, InvNew, TopWord
  <1>5. InvCopy
    BY <1>2 DEF InvCopy
  <1>6. InvPath
    BY <1>2 DEF InvPath, OnPath
  <1>7. InvReg
    BY <1>2 DEF InvReg, Collected
  <1>8. InvRoots
    BY <1>1, HeapFacts, WordAssumption DEF Init, InvRoots
  <1>9. InvLive
    BY <1>2 DEF InvLive
  <1> QED BY <1>1, <1>3, <1>4, <1>5, <1>6, <1>7, <1>8, <1>9 DEF IInv

\* Steps that write neither space keep what the invariant says of them.
LEMMA QuietStep ==
  ASSUME IInv, UNCHANGED <<old, new, heap0, roots0, path>>,
         path # <<>> => root' = root
  PROVE  /\ InvHist' /\ InvOld' /\ InvNew' /\ InvCopy' /\ InvPath' /\ InvLive'
         /\ \A v : Settled(v)' = Settled(v) /\ Map(v)' = Map(v)
         /\ \A a : Cursor(a)' = Cursor(a)
  <1> USE DEF IInv, old, new
  <1>1. \A a : Cursor(a)' = Cursor(a) /\ Forward(a)' = Forward(a) /\ W(a)' = W(a)
    BY DEF Cursor, Forward, IS_BINOBJ, W
  <1>2. \A v : Settled(v)' = Settled(v) /\ Map(v)' = Map(v)
    BY <1>1 DEF Settled, Map
  <1>3. OnPath' = OnPath
    BY DEF OnPath
  <1>4. InvHist'
    BY DEF InvHist
  <1>5. InvOld'
    BY <1>1 DEF InvOld
  <1>6. InvNew'
    BY DEF InvNew
  <1>7. InvCopy'
    BY <1>1, <1>2, <1>3 DEF InvCopy
  <1>8. InvPath'
    BY <1>1, <1>3 DEF InvPath
  <1>9. InvLive'
    BY DEF InvLive, Closed, Traced
  <1> QED BY <1>1, <1>2, <1>4, <1>5, <1>6, <1>7, <1>8, <1>9

\* The addresses of the two spaces, the other words and Null are distinct.
LEMMA Distinct ==
  /\ Null \notin OldObj /\ Null \notin Stale
  /\ \A a \in OldObj : a \notin Stale /\ a \notin Int /\ a # Null
  <1>1. \A x \in OldObj \cup {Null} : x \notin Int
    BY AddressAssumption
  <1>2. Stale \subseteq Int
    BY AddressAssumption, WordAssumption
  <1>3. Null \notin OldObj
    BY AddressAssumption
  <1> QED BY <1>1, <1>2, <1>3

\* Where the object at the top of the path keeps its forwarding address, and
\* that the word it designates is one the collector follows.
LEMMA CursorFacts ==
  ASSUME IInv, NEW a \in OldObj
  PROVE  /\ Cursor(a) \in 0..W(a) /\ Cursor(a) \in Traced(a)
         /\ heap0[a].data[Cursor(a)] \in Value
  BY HeapFacts DEF IInv, InvOld, Cursor, IS_BINOBJ, Traced

\* The top of a path that is not empty.
LEMMA TopFacts ==
  ASSUME IInv, path # <<>>
  PROVE  /\ Len(path) \in 1..Len(path) /\ Top = path[Len(path)]
         /\ Len(path) \in Nat /\ Len(path) > 0
         /\ Top \in gcdone /\ Top \in OldObj /\ Top \in OnPath
         /\ Pending = heap0[Top].data[Cursor(Top)]
         /\ newData[Forward(Top)][Cursor(Top)] =
              IF Len(path) = 1 THEN Null ELSE path[Len(path) - 1]
  <1>1. /\ Len(path) \in 1..Len(path) /\ path[Len(path)] \in OldObj
        /\ Len(path) \in Nat /\ Len(path) > 0
    BY DEF IInv, InvPath
  <1>2. Top \in OnPath
    BY <1>1 DEF Top, OnPath
  <1> QED BY <1>1, <1>2 DEF Top, Pending, IInv, InvPath

\* The word being chased is one that every closed set accounts for.
LEMMA PendingLive ==
  ASSUME IInv, root \in 1..RootCount, Pending \in OldObj,
         NEW S \in SUBSET OldObj, Closed(S)
  PROVE  Pending \in S
  <1>1. CASE path = <<>>
    BY <1>1 DEF Pending, Closed
  <1>2. CASE path # <<>>
    <2>1. Top \in S /\ Cursor(Top) \in Traced(Top)
      BY <1>2, TopFacts, CursorFacts DEF IInv, InvLive
    <2> QED BY <1>2, <2>1, TopFacts DEF Closed
  <1> QED BY <1>1, <1>2

\* Taking up the next root keeps the invariant: the path is still empty.
LEMMA StartMoveInv == IInv /\ StartMove => IInv'
  <1> SUFFICES ASSUME IInv, StartMove PROVE IInv'
    OBVIOUS
  <1>1. /\ UNCHANGED <<old, new, heap0, roots0, path>> /\ root' = root
        /\ path = <<>>
    BY DEF StartMove, IInv, InvReg
  <1>2. InvReg'
    BY <1>1 DEF StartMove, IInv, InvReg, InvRoots, Pending, Top, Collected
  <1>3. InvRoots'
    BY <1>1, QuietStep DEF StartMove, IInv, InvRoots
  <1> QED BY <1>1, <1>2, <1>3, QuietStep DEF IInv

\* The two steps that turn back with a value that needs no copying.
LEMMA LeaveInv ==
  ASSUME IInv, NEW v, Leave(v), pc = "down",
         Settled(oldAddress), v = Map(oldAddress)
  PROVE  IInv'
  <1>1. UNCHANGED <<old, new, heap0, roots0, path>> /\ root' = root
    BY DEF Leave
  <1>2. Top' = Top /\ Pending' = Pending
    BY <1>1, QuietStep DEF Top, Pending
  <1>3. InvReg'
    BY <1>1, <1>2, QuietStep DEF Leave, IInv, InvReg, Collected
  <1>4. InvRoots'
    BY <1>1, QuietStep DEF Leave, IInv, InvRoots
  <1> QED BY <1>1, <1>3, <1>4, QuietStep DEF IInv

\* A word that names no object of either space is settled as it is.
LEMMA DownLeafInv == IInv /\ DownLeaf => IInv'
  <1> SUFFICES ASSUME IInv, DownLeaf PROVE IInv'
    OBVIOUS
  <1>1. Settled(oldAddress) /\ Map(oldAddress) = oldAddress
    BY AddressAssumption, WordAssumption
    DEF DownLeaf, IN_NEWSPACE, IN_OLDSPACE, Settled, Map
  <1> QED BY <1>1, LeaveInv DEF DownLeaf

\* A word that names a moved object is settled by its forwarding address.
LEMMA DownForwardedInv == IInv /\ DownForwarded => IInv'
  <1> SUFFICES ASSUME IInv, DownForwarded PROVE IInv'
    OBVIOUS
  <1>1. Settled(oldAddress) /\ Map(oldAddress) = Forward(oldAddress)
    BY Distinct DEF DownForwarded, IN_OLDSPACE, IS_GCDONE, Settled, Map
  <1> QED BY <1>1, LeaveInv DEF DownForwarded

\* Stopping on a stale word keeps the invariant: the word is pending.
LEMMA DownStaleInv == IInv /\ DownStale => IInv'
  <1> SUFFICES ASSUME IInv, DownStale PROVE IInv'
    OBVIOUS
  <1>1. /\ UNCHANGED <<old, new, heap0, roots0, path>> /\ root' = root
        /\ roots' = roots
    BY DEF DownStale
  <1>2. InvReg'
    <2>1. Pending = oldAddress /\ root \in 1..RootCount
      BY DEF DownStale, IInv, InvReg, InvRoots
    <2>2. Pending \in Value
      <3>1. CASE path = <<>>
        BY <3>1, <2>1, HeapFacts DEF Pending, IInv
      <3>2. CASE path # <<>>
        BY <3>2, TopFacts, CursorFacts
      <3> QED BY <3>1, <3>2
    <2>3. Pending \in Int
      BY <2>1, WordAssumption DEF DownStale, IN_NEWSPACE
    <2>4. Pending \in Stale
      BY <2>2, <2>3, AddressAssumption DEF Value
    <2>5. Pending' = Pending
      BY <1>1, QuietStep DEF Pending
    <2> QED BY <1>1, <2>1, <2>4, <2>5 DEF DownStale, InvReg, Collected
  <1>3. InvRoots'
    BY <1>1, QuietStep DEF IInv, InvRoots
  <1> QED BY <1>1, <1>2, <1>3, QuietStep DEF IInv

\* Storing the root's replacement extends what the invariant says of the roots.
LEMMA UpReturnInv == IInv /\ UpReturn => IInv'
  <1> SUFFICES ASSUME IInv, UpReturn PROVE IInv'
    OBVIOUS
  <1>1. UNCHANGED <<old, new, heap0, roots0, path>>
    BY DEF UpReturn
  <1>2. path = <<>>
    <2>1. Top = Null
      BY DEF UpReturn, IInv, InvReg
    <2>2. ASSUME path # <<>> PROVE path[Len(path)] \in OldObj
      BY <2>2 DEF IInv, InvPath
    <2> QED BY <2>1, <2>2, Distinct DEF Top
  <1>3. InvReg'
    BY <1>1, <1>2 DEF UpReturn, IInv, InvReg, Collected
  <1>4. InvRoots'
    <2>1. /\ root \in 1..RootCount /\ root' = root + 1
          /\ roots' = [roots EXCEPT ![root] = replacement]
          /\ Settled(roots0[root]) /\ replacement = Map(roots0[root])
      BY <1>2 DEF UpReturn, IInv, InvReg, InvRoots, Pending
    <2>2. \A v : Settled(v)' = Settled(v) /\ Map(v)' = Map(v)
      BY <1>1, <1>2, QuietStep
    <2>3. roots0' = roots0
      BY <1>1
    <2> QED BY <2>1, <2>2, <2>3, WordAssumption DEF IInv, InvRoots
  <1> QED BY <1>1, <1>2, <1>3, <1>4, QuietStep DEF IInv

\* Flushing the method cache touches neither space.
LEMMA FlushCacheInv == IInv /\ FlushCache => IInv'
  <1> SUFFICES ASSUME IInv, FlushCache PROVE IInv'
    OBVIOUS
  <1>1. /\ UNCHANGED <<old, new, heap0, roots0, path>> /\ root' = root
        /\ roots' = roots
    BY DEF FlushCache
  <1>2. InvReg'
    BY <1>1, WordAssumption DEF FlushCache, IInv, InvReg, InvRoots, Collected
  <1>3. InvRoots'
    BY <1>1, QuietStep DEF IInv, InvRoots
  <1> QED BY <1>1, <1>2, <1>3, QuietStep DEF IInv

\* Copying an object: DownBinary and DownOrdinary.
LEMMA CopyInv ==
  ASSUME IInv, pc = "down", NEW a \in OldObj \ gcdone, a = oldAddress,
         NEW n, n = memoryPointer - (W(a) + 2),
         NEW w, w = Cursor(a),
         NEW words, DOMAIN words = 0..W(a),
         heap0[a].bin => \A k \in 1..W(a) : words[k] = heap0[a].data[k],
         Copy(a, n, heap0[a].size, heap0[a].bin, words, w)
  PROVE  IInv'
  <1>1. /\ W(a) \in Nat /\ w \in 0..W(a) /\ a \in OldObj /\ a \notin gcdone
        /\ heap0[a].data \in [0..W(a) -> Value]
        /\ heap0[a].bin \in BOOLEAN /\ heap0[a].size \in Nat
        /\ oldSize[a] = heap0[a].size /\ oldData[a] = heap0[a].data
        /\ DOMAIN oldData[a] = 0..W(a)
    BY HeapFacts, CursorFacts DEF IInv, InvOld
  <1>2. /\ n \in Int /\ n < memoryPointer /\ n \notin DOMAIN newHdr
        /\ n \notin DOMAIN newData
    BY <1>1 DEF IInv, InvNew
  <1>3. /\ DOMAIN newHdr' = DOMAIN newHdr \cup {n}
        /\ DOMAIN newData' = DOMAIN newData \cup {n}
        /\ newHdr'[n] = [size |-> heap0[a].size, bin |-> heap0[a].bin]
        /\ newData'[n] = [words EXCEPT ![w] = previousObject]
        /\ memoryPointer' = n
    BY DEF Copy
  <1>4. \A m \in DOMAIN newHdr : newHdr'[m] = newHdr[m] /\ newData'[m] = newData[m]
    BY <1>2, <1>3 DEF Copy, IInv, InvNew
  <1>5. /\ UNCHANGED <<pc, roots, root, oldSize, heap0, roots0>>
        /\ gcdone' = gcdone \cup {a} /\ path' = Append(path, a)
        /\ previousObject' = a /\ oldAddress' = oldData[a][w]
        /\ oldData' = [oldData EXCEPT ![a][w] = n]
    BY DEF Copy
  <1>6. \A b : Cursor(b)' = Cursor(b) /\ W(b)' = W(b)
    BY <1>5 DEF Cursor, IS_BINOBJ, W
  <1>7. /\ DOMAIN oldData = DOMAIN oldData'
        /\ \A b \in OldObj : b # a => oldData'[b] = oldData[b]
        /\ oldData'[a] = [heap0[a].data EXCEPT ![w] = n]
    BY <1>1, <1>5 DEF IInv, InvOld
  <1>8. Forward(a)' = n /\ \A b \in gcdone : Forward(b)' = Forward(b) /\ b # a
    BY <1>1, <1>6, <1>7 DEF Forward, IInv, InvOld
  <1>9. \A v : Settled(v) => Settled(v)' /\ Map(v)' = Map(v)
    BY <1>5, <1>8 DEF Settled, Map
  <1>10. /\ path \in Seq(OldObj) /\ Len(path') = Len(path) + 1
         /\ path' \in Seq(OldObj) /\ path'[Len(path) + 1] = a
         /\ \A i \in 1..Len(path) : path'[i] = path[i]
         /\ \A i \in 1..Len(path) : path[i] \in gcdone
         /\ Len(path) \in Nat
    BY <1>1, <1>5 DEF IInv, InvPath, OnPath
  <1>11. OnPath' = OnPath \cup {a}
    BY <1>10 DEF OnPath
  <1>12. a = Pending /\ previousObject = Top /\ root \in 1..RootCount
    BY DEF IInv, InvReg, InvRoots
  <1>13. InvHist'
    BY <1>5 DEF IInv, InvHist
  <1>14. InvOld'
    BY <1>1, <1>5, <1>6, <1>7 DEF IInv, InvOld
  <1>15. InvNew'
    BY <1>1, <1>2, <1>3 DEF IInv, InvNew
  <1>16. InvCopy'
    <2>1. \A b \in gcdone' :
            /\ Forward(b)' \in DOMAIN newHdr'
            /\ newHdr'[Forward(b)'] = [size |-> heap0[b].size, bin |-> heap0[b].bin]
            /\ DOMAIN newData'[Forward(b)'] = 0..W(b)
      <3>1. ASSUME NEW b \in gcdone
            PROVE  /\ Forward(b) \in DOMAIN newHdr /\ b # a
                   /\ newHdr[Forward(b)] = [size |-> heap0[b].size, bin |-> heap0[b].bin]
                   /\ DOMAIN newData[Forward(b)] = 0..W(b)
                   /\ Forward(b)' = Forward(b)
        BY <1>8 DEF IInv, InvCopy
      <3>2. DOMAIN newData'[n] = 0..W(a)
        BY <1>3
      <3> TAKE b \in gcdone'
      <3>3. CASE b = a
        BY <3>2, <3>3, <1>3, <1>8
      <3>4. CASE b \in gcdone
        BY <3>1, <3>4, <1>3, <1>4
      <3> QED BY <3>3, <3>4, <1>5
    <2>2. \A b \in gcdone : \A k \in 0..W(b) :
            newData'[Forward(b)'][k] = newData[Forward(b)][k]
      BY <1>4, <1>8 DEF IInv, InvCopy
    <2>3. \A b \in gcdone : \A k \in 0..W(b) : k > Cursor(b) =>
            newData'[Forward(b)'][k] =
              IF heap0[b].bin THEN heap0[b].data[k] ELSE Map(heap0[b].data[k])'
      BY <2>2, <1>5, <1>9 DEF IInv, InvCopy
    <2>4. \A k \in 0..W(a) : k > w =>
            heap0[a].bin /\ newData'[n][k] = heap0[a].data[k]
      BY <1>1, <1>3 DEF Cursor, IS_BINOBJ, W, Words
    <2>5. \A b \in gcdone' : \A k \in 0..W(b) : k > Cursor(b) =>
            newData'[Forward(b)'][k] =
              IF heap0[b].bin THEN heap0[b].data[k] ELSE Map(heap0[b].data[k])'
      BY <2>3, <2>4, <1>5, <1>8
    <2>6. \A b \in gcdone' : \A k \in 0..W(b) : k > Cursor(b) /\ ~heap0[b].bin =>
            Settled(heap0[b].data[k])'
      BY <2>4, <1>5, <1>9 DEF IInv, InvCopy
    <2>7. \A b, c \in gcdone' : Forward(b)' = Forward(c)' => b = c
      <3>1. \A b \in gcdone : Forward(b)' \in DOMAIN newHdr /\ Forward(b)' # n
        BY <1>2, <1>8 DEF IInv, InvCopy
      <3>2. \A b, c \in gcdone : Forward(b)' = Forward(c)' => b = c
        BY <1>8 DEF IInv, InvCopy
      <3> QED BY <3>1, <3>2, <1>5, <1>8
    <2>8. \A b \in gcdone' \ OnPath' :
            /\ Cursor(b) = 0
            /\ newData'[Forward(b)'][0] = Map(heap0[b].data[0])'
            /\ Settled(heap0[b].data[0])'
      <3> TAKE b \in gcdone' \ OnPath'
      <3>1. b \in gcdone \ OnPath /\ b \in OldObj
        BY <1>5, <1>11 DEF IInv, InvOld
      <3>2. W(b) \in Nat
        BY <3>1, HeapFacts DEF IInv
      <3>3. /\ Cursor(b) = 0 /\ Settled(heap0[b].data[0])
            /\ newData[Forward(b)][0] = Map(heap0[b].data[0])
        BY <3>1 DEF IInv, InvCopy
      <3>4. newData'[Forward(b)'][0] = newData[Forward(b)][0]
        BY <3>1, <3>2, <2>2
      <3>5. /\ Map(heap0[b].data[0])' = Map(heap0[b].data[0])
            /\ Settled(heap0[b].data[0])'
        <4>1. PICK v : v = heap0[b].data[0]
          OBVIOUS
        <4>2. Settled(v)' /\ Map(v)' = Map(v) /\ v = heap0'[b].data[0]
          BY <3>3, <4>1, <1>5, <1>9
        <4> QED BY <4>1, <4>2 DEF Settled, Map
      <3> QED BY <3>3, <3>4, <3>5
    <2> QED BY <2>1, <2>5, <2>6, <2>7, <2>8, <1>5, <1>6 DEF InvCopy
  <1>17. InvPath'
    <2>l. PICK L : L = Len(path)
      OBVIOUS
    <2>0. /\ L \in Nat /\ 1..Len(path') = 1..L \cup {L + 1}
          /\ path'[L + 1] = a /\ \A i \in 1..L : path'[i] = path[i] /\ path[i] \in gcdone
          /\ Len(path') = L + 1
      BY <2>l, <1>10
    <2>1. OnPath' \subseteq gcdone'
      BY <1>5, <1>11 DEF IInv, InvPath
    <2>a. \A i, j \in 1..L : path[i] = path[j] => i = j
      BY <2>l DEF IInv, InvPath
    <2>b. \A i \in 1..L : newData[Forward(path[i])][Cursor(path[i])]
                             = IF i = 1 THEN Null ELSE path[i-1]
      BY <2>l DEF IInv, InvPath
    <2>c. \A i \in 1..L : i > 1 =>
            heap0[path[i-1]].data[Cursor(path[i-1])] = path[i]
      BY <2>l DEF IInv, InvPath
    <2>2. \A i, j \in 1..Len(path') : path'[i] = path'[j] => i = j
      BY <2>0, <2>a, <1>1
    <2>3. newData'[n][w] = IF L = 0 THEN Null ELSE path[L]
      BY <2>l, <1>1, <1>3, <1>10, <1>12 DEF Top
    <2>4. \A b \in gcdone : /\ newData'[Forward(b)'] = newData[Forward(b)]
                            /\ Cursor(b)' = Cursor(b)
      BY <1>4, <1>6, <1>8 DEF IInv, InvCopy
    <2>5. \A i \in 1..Len(path') :
            newData'[Forward(path[i])'][Cursor(path[i])'] =
              IF i = 1 THEN Null ELSE path'[i-1]
      <3>1. ASSUME NEW i \in 1..L
            PROVE  newData'[Forward(path[i])'][Cursor(path[i])'] =
                     IF i = 1 THEN Null ELSE path'[i-1]
        <4>1. PICK b : b = path[i]
          OBVIOUS
        <4>2. b \in gcdone /\ path'[i] = b
          BY <4>1, <2>0
        <4>3. newData'[Forward(b)'][Cursor(b)'] = IF i = 1 THEN Null ELSE path[i-1]
          BY <4>1, <4>2, <2>4, <2>b
        <4>4. i # 1 => path'[i-1] = path[i-1]
          BY <2>0
        <4>5. Forward(path[i])' = Forward(b)' /\ Cursor(path[i])' = Cursor(b)'
          BY <4>2 DEF Forward, Cursor, IS_BINOBJ
        <4> QED BY <4>3, <4>4, <4>5
      <3>2. newData'[Forward(path[L+1])'][Cursor(path[L+1])'] =
              IF L + 1 = 1 THEN Null ELSE path'[L]
        <4>1. path[L+1]' = a
          BY <2>0
        <4>2. Forward(path[L+1])' = n /\ Cursor(path[L+1])' = w
          <5>1. Forward(a)' = n /\ Cursor(a)' = w
            BY <1>6, <1>8
          <5> QED BY <4>1, <5>1 DEF Forward, Cursor, IS_BINOBJ
        <4> QED BY <4>2, <2>0, <2>3
      <3> TAKE i \in 1..Len(path')
      <3>3. i \in 1..L \/ i = L + 1
        BY <2>0
      <3>4. CASE i \in 1..L
        BY <3>1, <3>4
      <3>5. CASE i = L + 1
        <4>1. (L + 1) - 1 = L
          BY <2>0
        <4> QED BY <3>2, <3>5, <4>1
      <3> QED BY <3>3, <3>4, <3>5
    <2>6. root <= RootCount /\ path'[1] = roots0[root]
      <3>1. CASE path = <<>>
        BY <3>1, <1>10, <1>12, WordAssumption DEF Pending
      <3>2. CASE path # <<>>
        BY <3>2, <1>10 DEF IInv, InvPath
      <3> QED BY <3>1, <3>2
    <2>7. \A i \in 1..Len(path') : i > 1 =>
            heap0[path'[i-1]].data[Cursor(path'[i-1])] = path'[i]
      <3>1. ASSUME NEW i \in 1..L, i > 1
            PROVE  heap0[path'[i-1]].data[Cursor(path'[i-1])] = path'[i]
        <4>1. i - 1 \in 1..L
          BY <3>1, <2>0
        <4> QED BY <3>1, <4>1, <2>0, <2>c
      <3>2. ASSUME L + 1 > 1
            PROVE  heap0[path'[L]].data[Cursor(path'[L])] = path'[L + 1]
        <4>1. path # <<>> /\ path'[L] = path[L]
          BY <2>l, <3>2, <2>0
        <4> QED BY <4>1, <2>0, <2>l, <1>12 DEF Pending
      <3> SUFFICES ASSUME NEW i \in 1..Len(path'), i > 1
                   PROVE  heap0[path'[i-1]].data[Cursor(path'[i-1])] = path'[i]
        OBVIOUS
      <3>3. i \in 1..L \/ i = L + 1
        BY <2>0
      <3>4. CASE i \in 1..L
        BY <3>1, <3>4
      <3>5. CASE i = L + 1
        <4>1. (L + 1) - 1 = L /\ L + 1 > 1
          BY <2>0, <3>5
        <4> QED BY <3>2, <3>5, <4>1
      <3> QED BY <3>3, <3>4, <3>5
    <2> QED
      <3>1. \A b : Cursor(b)' = Cursor(b)
        BY <1>6
      <3>2. \A i \in 1..Len(path') : i > 1 =>
              heap0'[path'[i-1]].data[Cursor(path[i-1])'] = path'[i]
        BY <2>7, <3>1, <1>5
      <3> QED BY <2>1, <2>2, <2>5, <2>6, <3>2, <1>5, <1>10 DEF InvPath
  <1>18. InvReg'
    <2>1. path' # <<>> /\ Top' = a /\ Pending' = heap0[a].data[w]
      BY <1>5, <1>6, <1>10 DEF Top, Pending
    <2> QED BY <2>1, <1>1, <1>5, <1>12 DEF InvReg, Collected
  <1>19. InvRoots'
    BY <1>5, <1>9 DEF IInv, InvRoots
  <1>20. InvLive'
    <2> SUFFICES ASSUME NEW S \in SUBSET OldObj, Closed(S)
                 PROVE  gcdone' \subseteq S
      BY <1>5 DEF InvLive, Closed, Traced
    <2> QED BY <1>1, <1>5, <1>12, PendingLive DEF IInv, InvLive
  <1> QED BY <1>13, <1>14, <1>15, <1>16, <1>17, <1>18, <1>19, <1>20 DEF IInv

\* Copying a binary object keeps the invariant: its bytes are final at once.
LEMMA DownBinaryInv == IInv /\ DownBinary => IInv'
  <1> SUFFICES ASSUME IInv, DownBinary PROVE IInv'
    OBVIOUS
  <1>1. PICK a : a = oldAddress
    OBVIOUS
  <1>2. a \in OldObj \ gcdone /\ pc = "down" /\ heap0[a].bin
    BY <1>1 DEF DownBinary, IN_OLDSPACE, IS_GCDONE, IS_BINOBJ
  <1>3. /\ oldSize[a] = heap0[a].size /\ oldData[a] = heap0[a].data
        /\ TO_WORDS(oldSize[a]) = W(a) /\ W(a) \in Nat
        /\ Cursor(a) = 0
    BY <1>2, HeapFacts DEF IInv, InvOld, W, Words, Cursor, IS_BINOBJ
  <1>4. PICK words :
          words = [k \in 0..W(a) |-> IF k = 0 THEN Junk ELSE oldData[a][k]]
    OBVIOUS
  <1>5. PICK n : n = memoryPointer - (W(a) + 2)
    OBVIOUS
  <1>6. Copy(a, n, heap0[a].size, heap0[a].bin, words, 0)
    <2>1. Copy(a, n, heap0[a].size, TRUE, words, 0)
      BY <1>1, <1>3, <1>4, <1>5 DEF DownBinary
    <2>2. heap0[a].bin = TRUE
      BY <1>2, HeapFacts DEF IInv
    <2> QED BY <2>1, <2>2
  <1>7. /\ DOMAIN words = 0..W(a) /\ 0 = Cursor(a)
        /\ heap0[a].bin => \A k \in 1..W(a) : words[k] = heap0[a].data[k]
    BY <1>3, <1>4
  <1> QED BY <1>1, <1>2, <1>5, <1>6, <1>7, CopyInv

\* Copying an ordinary object keeps the invariant: no word is final yet.
LEMMA DownOrdinaryInv == IInv /\ DownOrdinary => IInv'
  <1> SUFFICES ASSUME IInv, DownOrdinary PROVE IInv'
    OBVIOUS
  <1>1. PICK a : a = oldAddress
    OBVIOUS
  <1>2. a \in OldObj \ gcdone /\ pc = "down" /\ ~heap0[a].bin
    BY <1>1 DEF DownOrdinary, IN_OLDSPACE, IS_GCDONE, IS_BINOBJ
  <1>3. /\ oldSize[a] = heap0[a].size /\ oldSize[a] = W(a) /\ W(a) \in Nat
        /\ Cursor(a) = W(a)
    BY <1>2, HeapFacts DEF IInv, InvOld, Cursor, IS_BINOBJ
  <1>4. PICK words : words = [k \in 0..W(a) |-> Junk]
    OBVIOUS
  <1>5. PICK n : n = memoryPointer - (W(a) + 2)
    OBVIOUS
  <1>6. PICK w : w = W(a)
    OBVIOUS
  <1>7. Copy(a, n, heap0[a].size, heap0[a].bin, words, w)
    <2>1. Copy(a, n, heap0[a].size, FALSE, words, w)
      BY <1>1, <1>3, <1>4, <1>5, <1>6 DEF DownOrdinary
    <2>2. heap0[a].bin = FALSE
      BY <1>2, HeapFacts DEF IInv
    <2> QED BY <2>1, <2>2
  <1>8. /\ DOMAIN words = 0..W(a) /\ w = Cursor(a)
        /\ heap0[a].bin => \A k \in 1..W(a) : words[k] = heap0[a].data[k]
    BY <1>2, <1>3, <1>4, <1>6
  <1> QED BY <1>1, <1>2, <1>5, <1>7, <1>8, CopyInv

\* Filling in the class completes the copy and takes it off the path.
LEMMA UpClassInv == IInv /\ UpClass => IInv'
  <1> SUFFICES ASSUME IInv, UpClass PROVE IInv'
    OBVIOUS
  <1>1. PICK a : a = oldAddress
    OBVIOUS
  <1>2. a = Top /\ a # Null /\ path # <<>>
    BY <1>1 DEF UpClass, IInv, InvReg, Top
  <1>3. /\ Len(path) \in 1..Len(path) /\ Len(path) \in Nat
        /\ a = path[Len(path)] /\ a \in gcdone /\ a \in OldObj /\ a \in OnPath
        /\ Cursor(a) = 0 /\ Pending = heap0[a].data[0]
    <2>1. Cursor(a) = 0
      BY <1>1 DEF UpClass, Cursor, IS_BINOBJ
    <2> QED BY <2>1, <1>2, TopFacts DEF IInv, InvPath
  <1>4. PICK n : n = Forward(a)
    OBVIOUS
  <1>5. PICK l : l = Len(path)
    OBVIOUS
  <1>6. /\ UNCHANGED <<pc, roots, root, oldSize, gcdone, oldData, newHdr,
                       memoryPointer, heap0, roots0>>
        /\ oldAddress' = newData[n][0] /\ previousObject' = newData[n][0]
        /\ newData' = [newData EXCEPT ![n][0] = replacement]
        /\ replacement' = n /\ path' = SubSeq(path, 1, l - 1)
    BY <1>1, <1>3, <1>4, <1>5 DEF UpClass, Forward, old
  <1>7. \A b : /\ Cursor(b)' = Cursor(b) /\ Forward(b)' = Forward(b)
               /\ W(b)' = W(b)
    BY <1>6 DEF Cursor, Forward, IS_BINOBJ, W
  <1>8. \A v : Settled(v)' = Settled(v) /\ Map(v)' = Map(v)
    BY <1>6, <1>7 DEF Settled, Map
  <1>9. /\ path' \in Seq(OldObj) /\ Len(path') = l - 1
        /\ l \in Nat /\ l > 0 /\ \A i \in 1..(l-1) : path'[i] = path[i]
        /\ a = path[l]
    BY <1>3, <1>5, <1>6 DEF IInv, InvPath
  <1>10. /\ n \in DOMAIN newHdr /\ n \in DOMAIN newData /\ W(a) \in Nat
         /\ DOMAIN newData[n] = 0..W(a)
    BY <1>3, <1>4, HeapFacts DEF IInv, InvCopy, InvNew
  <1>11. /\ DOMAIN newData' = DOMAIN newData
         /\ newData'[n] = [newData[n] EXCEPT ![0] = replacement]
         /\ \A m \in DOMAIN newData : m # n => newData'[m] = newData[m]
    BY <1>6, <1>10
  <1>12. \A b \in gcdone : b # a => Forward(b) # n
    BY <1>3, <1>4 DEF IInv, InvCopy
  <1>13. \A b \in gcdone : /\ DOMAIN newData'[Forward(b)] = DOMAIN newData[Forward(b)]
                           /\ b # a => newData'[Forward(b)] = newData[Forward(b)]
    BY <1>4, <1>11, <1>12 DEF IInv, InvCopy, InvNew
  <1>14. /\ newData'[n][0] = Map(heap0[a].data[0])
         /\ Settled(heap0[a].data[0])
         /\ \A k \in 0..W(a) : k > 0 => newData'[n][k] = newData[n][k]
    <2>1. replacement = Map(Pending) /\ Settled(Pending)
      BY DEF UpClass, IInv, InvReg
    <2> QED BY <2>1, <1>3, <1>10, <1>11
  <1>15. \A i \in 1..l : path[i] \in gcdone /\ (path[i] = a => i = l)
    BY <1>3, <1>5 DEF IInv, InvPath, OnPath
  <1>16. OnPath' = OnPath \ {a}
    BY <1>5, <1>9, <1>15 DEF OnPath
  <1>17. InvHist'
    BY <1>6 DEF IInv, InvHist
  <1>18. InvOld'
    BY <1>6, <1>7 DEF IInv, InvOld
  <1>19. InvNew'
    BY <1>6, <1>11 DEF IInv, InvNew
  <1>20. InvCopy'
    <2>1. \A b \in gcdone :
            /\ Forward(b) \in DOMAIN newHdr'
            /\ newHdr'[Forward(b)] = [size |-> heap0[b].size, bin |-> heap0[b].bin]
            /\ DOMAIN newData'[Forward(b)] = 0..W(b)
      BY <1>6, <1>13 DEF IInv, InvCopy
    <2>2. \A b \in gcdone : \A k \in 0..W(b) : k > Cursor(b) =>
            newData'[Forward(b)][k] = newData[Forward(b)][k]
      BY <1>3, <1>4, <1>13, <1>14
    <2>3. \A b \in gcdone : \A k \in 0..W(b) : k > Cursor(b) =>
            newData'[Forward(b)][k] =
              IF heap0[b].bin THEN heap0[b].data[k] ELSE Map(heap0[b].data[k])
      BY <2>2 DEF IInv, InvCopy
    <2>4. \A b \in gcdone : \A k \in 0..W(b) : k > Cursor(b) /\ ~heap0[b].bin =>
            Settled(heap0[b].data[k])
      BY DEF IInv, InvCopy
    <2>5. \A b, c \in gcdone : Forward(b) = Forward(c) => b = c
      BY DEF IInv, InvCopy
    <2>6. \A b \in gcdone \ OnPath' :
            /\ Cursor(b) = 0
            /\ newData'[Forward(b)][0] = Map(heap0[b].data[0])
            /\ Settled(heap0[b].data[0])
      <3> TAKE b \in gcdone \ OnPath'
      <3>1. CASE b = a
        BY <3>1, <1>3, <1>4, <1>14
      <3>2. CASE b # a
        <4>1. b \in gcdone \ OnPath
          BY <3>2, <1>16
        <4> QED BY <3>2, <4>1, <1>13 DEF IInv, InvCopy
      <3> QED BY <3>1, <3>2
    <2> QED BY <2>1, <2>3, <2>4, <2>5, <2>6, <1>6, <1>7, <1>8 DEF InvCopy
  <1>21. InvPath'
    <2>1. OnPath' \subseteq gcdone
      BY <1>16 DEF IInv, InvPath
    <2>2. \A i, j \in 1..(l-1) : path'[i] = path'[j] => i = j
      BY <1>5, <1>9 DEF IInv, InvPath
    <2>3. \A i \in 1..(l-1) : newData'[Forward(path[i])'][Cursor(path[i])'] =
              IF i = 1 THEN Null ELSE path'[i-1]
      <3> TAKE i \in 1..(l-1)
      <3>1. PICK b : b = path[i]
        OBVIOUS
      <3>2. b \in gcdone /\ b # a /\ path'[i] = b
        BY <3>1, <1>9, <1>15
      <3>3. newData[Forward(b)][Cursor(b)] = IF i = 1 THEN Null ELSE path[i-1]
        BY <3>1, <1>5, <1>9 DEF IInv, InvPath
      <3>4. i # 1 => path'[i-1] = path[i-1]
        BY <1>9
      <3>5. Forward(path[i])' = Forward(b)' /\ Cursor(path[i])' = Cursor(b)'
        BY <3>2 DEF Forward, Cursor, IS_BINOBJ
      <3> QED BY <3>2, <3>3, <3>4, <3>5, <1>7, <1>13
    <2>4. path' # <<>> => root <= RootCount /\ path'[1] = roots0[root]
      <3>1. path[1] = roots0[root] /\ root <= RootCount
        BY <1>2 DEF IInv, InvPath
      <3>2. path' # <<>> => l - 1 > 0
        BY <1>9
      <3> QED BY <3>1, <3>2, <1>9
    <2>5. \A i \in 1..(l-1) : i > 1 =>
            heap0'[path'[i-1]].data[Cursor(path[i-1])'] = path'[i]
      <3> SUFFICES ASSUME NEW i \in 1..(l-1), i > 1
                   PROVE  heap0'[path'[i-1]].data[Cursor(path[i-1])'] = path'[i]
        OBVIOUS
      <3>1. PICK b : b = path[i-1]
        OBVIOUS
      <3>2. path'[i-1] = b /\ path'[i] = path[i]
        BY <3>1, <1>9
      <3>3. heap0[b].data[Cursor(b)] = path[i]
        BY <3>1, <1>5, <1>9 DEF IInv, InvPath
      <3>4. Cursor(path[i-1])' = Cursor(b)'
        BY <3>2 DEF Cursor, IS_BINOBJ
      <3> QED BY <3>2, <3>3, <3>4, <1>6, <1>7
    <2> QED BY <2>1, <2>2, <2>3, <2>4, <2>5, <1>6, <1>9 DEF InvPath
  <1>22. InvReg'
    <2>1. newData[n][0] = IF l = 1 THEN Null ELSE path[l - 1]
      BY <1>2, <1>3, <1>4, <1>5, TopFacts
    <2>2. Top' = newData[n][0]
      <3>1. CASE l = 1
        BY <3>1, <2>1, <1>9 DEF Top
      <3>2. CASE l # 1
        <4>1. path' # <<>> /\ path'[Len(path')] = path[l - 1]
          BY <3>2, <1>9
        <4> QED BY <3>2, <4>1, <2>1 DEF Top
      <3> QED BY <3>1, <3>2
    <2>3. Pending' = a
      <3>1. CASE l = 1
        <4>1. path' = <<>> /\ roots0[root] = path[1]
          BY <3>1, <1>2, <1>9 DEF IInv, InvPath
        <4> QED BY <3>1, <4>1, <1>6, <1>9 DEF Pending
      <3>2. CASE l # 1
        <4>1. PICK b : b = path[l - 1]
          OBVIOUS
        <4>2. path' # <<>> /\ path'[Len(path')] = b
          BY <3>2, <4>1, <1>9
        <4>3. heap0[b].data[Cursor(b)] = a
          BY <3>2, <4>1, <1>5, <1>9 DEF IInv, InvPath
        <4>4. Pending' = heap0'[b].data[Cursor(b)']
          BY <4>2 DEF Pending, Cursor, IS_BINOBJ
        <4> QED BY <4>3, <4>4, <1>6, <1>7
      <3> QED BY <3>1, <3>2
    <2>4. Settled(a) /\ Map(a) = n
      BY <1>3, <1>4, Distinct DEF Settled, Map
    <2>5. Settled(Pending)' /\ Map(Pending)' = n
      <3>1. Settled(a)' /\ Map(a)' = n
        BY <2>4, <1>8
      <3> QED BY <3>1, <2>3 DEF Settled, Map
    <2>6. pc = "up" /\ root <= RootCount
      BY DEF UpClass, IInv, InvReg
    <2> QED BY <2>2, <2>5, <2>6, <1>6 DEF InvReg, Collected
  <1>23. InvRoots'
    BY <1>6, <1>8 DEF IInv, InvRoots
  <1>24. InvLive'
    BY <1>6 DEF IInv, InvLive, Closed, Traced
  <1> QED BY <1>17, <1>18, <1>19, <1>20, <1>21, <1>22, <1>23, <1>24 DEF IInv

\* What UpField does, in terms of the object a at the top of the path, its
\* copy n, and the words sz and j it leaves and goes on with.
UpFieldEffect(a, n, sz, j) ==
  /\ a \in gcdone /\ a \in OldObj /\ a = Top /\ path # <<>>
  /\ n = Forward(a) /\ sz = oldSize[a]
  /\ ~heap0[a].bin /\ Cursor(a) = sz /\ W(a) = heap0[a].size
  /\ W(a) \in Nat /\ sz \in 1..W(a) /\ oldData[a][sz] = n
  /\ heap0[a].data \in [0..W(a) -> Value]
  /\ DOMAIN oldData[a] = 0..W(a)
  /\ Pending = heap0[a].data[sz]
  /\ \A k \in (j + 1)..(sz - 1) : oldData[a][k] = Null
  /\ newData' = [newData EXCEPT ![n] =
        [k \in DOMAIN newData[n] |->
           IF k = sz THEN replacement
           ELSE IF k = j THEN newData[n][sz]
           ELSE IF k \in (j + 1)..(sz - 1) THEN Null
           ELSE newData[n][k]]]
  /\ oldSize' = [oldSize EXCEPT ![a] = j]
  /\ oldAddress' = oldData[a][j]
  /\ oldData' = [oldData EXCEPT ![a][j] = n]
  /\ previousObject' = a

\* UpField goes on to a word j below the one it fills, over null words only.
LEMMA UpFieldFacts ==
  ASSUME IInv, UpField
  PROVE  \E a, n, sz : \E j \in 0..(sz - 1) : UpFieldEffect(a, n, sz, j)
  <1>1. PICK a : a = oldAddress
    OBVIOUS
  <1>2. a = Top /\ a # Null /\ path # <<>>
    BY <1>1 DEF UpField, IInv, InvReg, Top
  <1>3. PICK sz : sz = oldSize[a]
    OBVIOUS
  <1>4. PICK n : n = Forward(a)
    OBVIOUS
  <1>5. PICK l : l = Len(path)
    OBVIOUS
  <1>6. /\ l \in Nat /\ l > 0 /\ a = path[l] /\ a \in gcdone /\ a \in OldObj
        /\ ~heap0[a].bin /\ Cursor(a) = sz /\ W(a) = heap0[a].size
        /\ W(a) \in Nat /\ sz \in 1..W(a) /\ oldData[a][sz] = n
        /\ heap0[a].data \in [0..W(a) -> Value]
        /\ DOMAIN oldData[a] = 0..W(a) /\ heap0[a].size \in Nat
        /\ Pending = heap0[a].data[sz]
    <2>1. a \in gcdone /\ a \in OldObj /\ a = path[l] /\ l \in Nat /\ l > 0
      BY <1>2, <1>5, TopFacts
    <2>2. ~heap0[a].bin /\ Cursor(a) = sz /\ sz # 0
      BY <1>1, <1>3 DEF UpField, Cursor, IS_BINOBJ
    <2>3. oldData[a][sz] = n
      BY <2>2, <1>4 DEF Forward
    <2> QED BY <2>1, <2>2, <2>3, <1>2, <1>3, HeapFacts, TopFacts
            DEF IInv, InvOld
  <1>7. PICK j \in 0..(sz - 1) :
          /\ \A k \in (j + 1)..(sz - 1) : oldData[a][k] = Null
          /\ newData' = [newData EXCEPT ![n] =
                [k \in DOMAIN newData[n] |->
                   IF k = sz THEN replacement
                   ELSE IF k = j THEN newData[n][sz]
                   ELSE IF k \in (j + 1)..(sz - 1) THEN Null
                   ELSE newData[n][k]]]
          /\ oldSize' = [oldSize EXCEPT ![a] = j]
          /\ oldAddress' = oldData[a][j]
          /\ oldData' = [oldData EXCEPT ![a][j] = n]
          /\ previousObject' = a
    <2>1. oldData[a][sz] = n
      BY <1>6
    <2>2. oldAddress = a /\ oldSize[oldAddress] = sz
          /\ oldData[oldAddress][oldSize[oldAddress]] = n
      BY <1>1, <1>3, <2>1
    <2>3. PICK j \in 0..(oldSize[oldAddress] - 1) :
          /\ \A k \in (j + 1)..(oldSize[oldAddress] - 1) : oldData[oldAddress][k] = Null
          /\ newData' = [newData EXCEPT ![oldData[oldAddress][oldSize[oldAddress]]] =
                [k \in DOMAIN newData[oldData[oldAddress][oldSize[oldAddress]]] |->
                   IF k = oldSize[oldAddress] THEN replacement
                   ELSE IF k = j THEN newData[oldData[oldAddress][oldSize[oldAddress]]][oldSize[oldAddress]]
                   ELSE IF k \in (j + 1)..(oldSize[oldAddress] - 1) THEN Null
                   ELSE newData[oldData[oldAddress][oldSize[oldAddress]]][k]]]
          /\ oldSize' = [oldSize EXCEPT ![oldAddress] = j]
          /\ oldAddress' = oldData[oldAddress][j]
          /\ oldData' = [oldData EXCEPT ![oldAddress][j] = oldData[oldAddress][oldSize[oldAddress]]]
          /\ previousObject' = oldAddress
      BY Zenon DEF UpField
    <2> QED BY <2>2, <2>3
  <1> QED BY <1>2, <1>3, <1>4, <1>6, <1>7 DEF UpFieldEffect

\* Filling in a field makes it final and the null words below it.
LEMMA UpFieldInv == IInv /\ UpField => IInv'
  <1> SUFFICES ASSUME IInv, UpField PROVE IInv'
    OBVIOUS
  <1>1. PICK a, n, sz : \E j \in 0..(sz - 1) : UpFieldEffect(a, n, sz, j)
    BY UpFieldFacts
  <1>3. PICK j \in 0..(sz - 1) : UpFieldEffect(a, n, sz, j)
    BY <1>1
  <1>7.
          /\ a \in gcdone /\ a \in OldObj /\ a = Top /\ path # <<>>
          /\ n = Forward(a) /\ sz = oldSize[a]
          /\ ~heap0[a].bin /\ Cursor(a) = sz /\ W(a) = heap0[a].size
          /\ W(a) \in Nat /\ sz \in 1..W(a) /\ oldData[a][sz] = n
          /\ heap0[a].data \in [0..W(a) -> Value]
          /\ DOMAIN oldData[a] = 0..W(a)
          /\ Pending = heap0[a].data[sz]
          /\ \A k \in (j + 1)..(sz - 1) : oldData[a][k] = Null
          /\ newData' = [newData EXCEPT ![n] =
                [k \in DOMAIN newData[n] |->
                   IF k = sz THEN replacement
                   ELSE IF k = j THEN newData[n][sz]
                   ELSE IF k \in (j + 1)..(sz - 1) THEN Null
                   ELSE newData[n][k]]]
          /\ oldSize' = [oldSize EXCEPT ![a] = j]
          /\ oldAddress' = oldData[a][j]
          /\ oldData' = [oldData EXCEPT ![a][j] = n]
          /\ previousObject' = a
    BY <1>3 DEF UpFieldEffect
  <1>2. a = Top /\ a # Null /\ path # <<>>
    BY <1>7, Distinct
  <1>4. n = Forward(a)
    BY <1>7
  <1>5. PICK l : l = Len(path)
    OBVIOUS
  <1>6. /\ l \in Nat /\ l > 0 /\ a = path[l] /\ a \in gcdone /\ a \in OldObj
        /\ ~heap0[a].bin /\ Cursor(a) = sz /\ W(a) = heap0[a].size
        /\ W(a) \in Nat /\ sz \in 1..W(a) /\ oldData[a][sz] = n
        /\ heap0[a].data \in [0..W(a) -> Value]
        /\ DOMAIN oldData[a] = 0..W(a) /\ heap0[a].size \in Nat
        /\ Pending = heap0[a].data[sz]
    BY <1>5, <1>7, TopFacts
  <1>8. /\ UNCHANGED <<roots, root, gcdone, newHdr, memoryPointer, heap0, roots0,
                       path>>
        /\ pc' = "down"
    BY DEF UpField
  <1>9. /\ j \in 0..W(a) /\ j < sz /\ j \in Nat /\ sz \in Nat
        /\ oldSize'[a] = j /\ DOMAIN oldSize' = OldObj
        /\ DOMAIN oldData' = OldObj
        /\ oldData'[a] = [oldData[a] EXCEPT ![j] = n]
        /\ \A b \in OldObj : b # a => oldSize'[b] = oldSize[b] /\ oldData'[b] = oldData[b]
    BY <1>6, <1>7 DEF IInv, InvOld
  <1>10. /\ Cursor(a)' = j /\ Forward(a)' = n
         /\ \A b \in OldObj : b # a => Cursor(b)' = Cursor(b)
         /\ \A b \in OldObj : Forward(b)' = Forward(b)
         /\ \A b : W(b)' = W(b)
    <2>1. Cursor(a)' = j
      BY <1>6, <1>8, <1>9 DEF Cursor, IS_BINOBJ
    <2>2. Forward(a)' = n
      BY <2>1, <1>6, <1>9 DEF Forward
    <2>3. \A b \in OldObj : b # a => Cursor(b)' = Cursor(b)
      BY <1>8, <1>9 DEF Cursor, IS_BINOBJ
    <2>4. \A b \in OldObj : b # a => Forward(b)' = Forward(b)
      BY <2>3, <1>9 DEF Forward
    <2>5. \A b : W(b)' = W(b)
      BY <1>8 DEF W
    <2> QED BY <2>1, <2>2, <2>3, <2>4, <2>5, <1>4
  <1>11. \A v : Settled(v)' = Settled(v) /\ Map(v)' = Map(v)
    BY <1>8, <1>10 DEF Settled, Map
  <1>12. /\ n \in DOMAIN newHdr /\ n \in DOMAIN newData
         /\ DOMAIN newData[n] = 0..W(a)
    BY <1>4, <1>6 DEF IInv, InvCopy, InvNew
  <1>13. /\ DOMAIN newData' = DOMAIN newData
         /\ DOMAIN newData'[n] = 0..W(a)
         /\ newData'[n][sz] = replacement /\ newData'[n][j] = newData[n][sz]
         /\ \A k \in (j + 1)..(sz - 1) : newData'[n][k] = Null
         /\ \A k \in 0..W(a) : k > sz => newData'[n][k] = newData[n][k]
         /\ \A m \in DOMAIN newData : m # n => newData'[m] = newData[m]
    BY <1>6, <1>7, <1>9, <1>12
  <1>14. \A b \in gcdone : b # a => /\ Forward(b) # n
                                    /\ newData'[Forward(b)] = newData[Forward(b)]
    <2>1. \A b \in gcdone : b # a => Forward(b) # n /\ Forward(b) \in DOMAIN newHdr
      BY <1>4, <1>6 DEF IInv, InvCopy
    <2>2. DOMAIN newHdr = DOMAIN newData
      BY DEF IInv, InvNew
    <2> QED BY <2>1, <2>2, <1>13
  <1>15. OnPath' = OnPath
    BY <1>8 DEF OnPath
  <1>16. \A k \in (j + 1)..sz :
           /\ newData'[n][k] = Map(heap0[a].data[k])
           /\ Settled(heap0[a].data[k])
    <2>1. replacement = Map(heap0[a].data[sz]) /\ Settled(heap0[a].data[sz])
      BY <1>6 DEF UpField, IInv, InvReg
    <2>2. ASSUME NEW k \in (j + 1)..(sz - 1)
          PROVE  heap0[a].data[k] = Null
      <3>1. k \in 0..W(a) /\ k < sz
        BY <1>6, <1>9
      <3> QED BY <3>1, <1>6, <1>7 DEF IInv, InvOld
    <2>3. Map(Null) = Null /\ Settled(Null)
      BY Distinct DEF Map, Settled
    <2> TAKE k \in (j + 1)..sz
    <2>4. k = sz \/ k \in (j + 1)..(sz - 1)
      BY <1>9
    <2> QED BY <2>1, <2>2, <2>3, <2>4, <1>13
  <1>17. InvHist'
    BY <1>8 DEF IInv, InvHist
  <1>18. InvOld'
    <2>1. ASSUME NEW b \in OldObj
          PROVE  IF b \notin gcdone
                 THEN oldSize'[b] = heap0[b].size /\ oldData'[b] = heap0[b].data
                 ELSE /\ oldSize'[b] \in 0..heap0[b].size
                      /\ heap0[b].bin => oldSize'[b] = heap0[b].size
                      /\ DOMAIN oldData'[b] = 0..W(b)
                      /\ \A k \in 0..W(b) : k < Cursor(b)' =>
                           oldData'[b][k] = heap0[b].data[k]
      <3>1. CASE b = a
        <4>1. \A k \in 0..W(a) : k < j => oldData'[a][k] = heap0[a].data[k]
          BY <1>6, <1>9 DEF IInv, InvOld
        <4> QED BY <3>1, <4>1, <1>6, <1>9, <1>10
      <3>2. CASE b # a
        BY <3>2, <1>9, <1>10 DEF IInv, InvOld
      <3> QED BY <3>1, <3>2
    <2> QED BY <2>1, <1>8, <1>9, <1>10 DEF IInv, InvOld
  <1>19. InvNew'
    BY <1>8, <1>13 DEF IInv, InvNew
  <1>20. InvCopy'
    <2>0. gcdone \subseteq OldObj
      BY DEF IInv, InvOld
    <2>1. \A b \in gcdone :
            /\ Forward(b)' \in DOMAIN newHdr
            /\ newHdr[Forward(b)'] = [size |-> heap0[b].size, bin |-> heap0[b].bin]
            /\ DOMAIN newData'[Forward(b)'] = 0..W(b)
      <3> TAKE b \in gcdone
      <3>1. /\ Forward(b)' = Forward(b) /\ Forward(b) \in DOMAIN newHdr
            /\ newHdr[Forward(b)] = [size |-> heap0[b].size, bin |-> heap0[b].bin]
            /\ DOMAIN newData[Forward(b)] = 0..W(b)
        BY <2>0, <1>10 DEF IInv, InvCopy
      <3>2. CASE b = a
        BY <3>1, <3>2, <1>4, <1>13
      <3>3. CASE b # a
        BY <3>1, <3>3, <1>14
      <3> QED BY <3>2, <3>3
    <2>2. \A b \in gcdone : \A k \in 0..W(b) : k > Cursor(b)' =>
            /\ newData'[Forward(b)'][k] =
                 IF heap0[b].bin THEN heap0[b].data[k] ELSE Map(heap0[b].data[k])
            /\ ~heap0[b].bin => Settled(heap0[b].data[k])
      <3> SUFFICES ASSUME NEW b \in gcdone, NEW k \in 0..W(b), k > Cursor(b)'
                   PROVE  /\ newData'[Forward(b)'][k] =
                               IF heap0[b].bin THEN heap0[b].data[k]
                               ELSE Map(heap0[b].data[k])
                          /\ ~heap0[b].bin => Settled(heap0[b].data[k])
        OBVIOUS
      <3>1. CASE b # a
        BY <3>1, <2>0, <1>10, <1>14 DEF IInv, InvCopy
      <3>2. CASE b = a /\ k <= sz
        <4>1. k \in (j + 1)..sz
          BY <3>2, <1>6, <1>9, <1>10
        <4> QED BY <3>2, <4>1, <1>6, <1>10, <1>16
      <3>3. CASE b = a /\ k > sz
        <4>1. newData[n][k] = Map(heap0[a].data[k]) /\ Settled(heap0[a].data[k])
          BY <3>3, <1>4, <1>6 DEF IInv, InvCopy
        <4> QED BY <3>3, <4>1, <1>6, <1>10, <1>13
      <3>4. k \in Nat
        BY <2>0, HeapFacts DEF IInv
      <3> QED BY <3>1, <3>2, <3>3, <3>4, <1>9
    <2>3. \A b, c \in gcdone : Forward(b)' = Forward(c)' => b = c
      BY <2>0, <1>10 DEF IInv, InvCopy
    <2>4. \A b \in gcdone \ OnPath :
            /\ Cursor(b)' = 0
            /\ newData'[Forward(b)'][0] = Map(heap0[b].data[0])
            /\ Settled(heap0[b].data[0])
      <3> TAKE b \in gcdone \ OnPath
      <3>1. a \in OnPath
        BY <1>2, TopFacts
      <3>2. Cursor(b)' = Cursor(b) /\ Forward(b)' = Forward(b) /\ b # a
        BY <3>1, <2>0, <1>10
      <3> QED BY <3>2, <1>14 DEF IInv, InvCopy
    <2> QED BY <2>1, <2>2, <2>3, <2>4, <1>8, <1>10, <1>11, <1>15 DEF InvCopy
  <1>21. InvPath'
    <2>1. \A i \in 1..l : path[i] \in gcdone /\ path[i] \in OldObj
                          /\ (path[i] = a => i = l)
      BY <1>5, <1>6 DEF IInv, InvPath, OnPath
    <2>2. newData'[n][j] = IF l = 1 THEN Null ELSE path[l - 1]
      BY <1>2, <1>4, <1>5, <1>6, <1>13, TopFacts
    <2>3. \A i \in 1..l : newData'[Forward(path[i])'][Cursor(path[i])'] =
              IF i = 1 THEN Null ELSE path[i-1]
      <3> TAKE i \in 1..l
      <3>1. PICK b : b = path[i]
        OBVIOUS
      <3>2. Forward(path[i])' = Forward(b)' /\ Cursor(path[i])' = Cursor(b)'
        BY <3>1, <1>8 DEF Forward, Cursor, IS_BINOBJ
      <3>3. CASE b = a
        BY <3>1, <3>2, <3>3, <2>1, <2>2, <1>10
      <3>4. CASE b # a
        <4>1. newData[Forward(b)][Cursor(b)] = IF i = 1 THEN Null ELSE path[i-1]
          BY <3>1, <1>5 DEF IInv, InvPath
        <4> QED BY <3>1, <3>2, <3>4, <4>1, <2>1, <1>10, <1>14
      <3> QED BY <3>3, <3>4
    <2>4. \A i \in 1..l : i > 1 =>
            heap0[path[i-1]].data[Cursor(path[i-1])'] = path[i]
      <3> SUFFICES ASSUME NEW i \in 1..l, i > 1
                   PROVE  heap0[path[i-1]].data[Cursor(path[i-1])'] = path[i]
        OBVIOUS
      <3>1. PICK b : b = path[i-1]
        OBVIOUS
      <3>2. Cursor(path[i-1])' = Cursor(b)'
        BY <3>1, <1>8 DEF Cursor, IS_BINOBJ
      <3>3. b \in OldObj /\ b # a
        BY <3>1, <2>1, <1>6
      <3>4. heap0[b].data[Cursor(b)] = path[i]
        BY <3>1, <1>5, <1>6 DEF IInv, InvPath
      <3> QED BY <3>1, <3>2, <3>3, <3>4, <1>10
    <2> QED BY <2>3, <2>4, <1>5, <1>8, <1>15 DEF IInv, InvPath
  <1>22. InvReg'
    <2>1. Top' = a
      BY <1>2, <1>8 DEF Top
    <2>2. Pending' = heap0[a].data[j]
      <3>1. Pending' = heap0[a].data[Cursor(a)']
        BY <1>2, <1>5, <1>6, <1>8 DEF Pending, Cursor, IS_BINOBJ
      <3> QED BY <3>1, <1>10
    <2>3. oldData[a][j] = heap0[a].data[j]
      BY <1>6, <1>9 DEF IInv, InvOld
    <2>4. root <= RootCount
      BY DEF UpField, IInv, InvReg
    <2> QED BY <2>1, <2>2, <2>3, <2>4, <1>7, <1>8 DEF InvReg, Collected
  <1>23. InvRoots'
    BY <1>8, <1>11 DEF IInv, InvRoots
  <1>24. InvLive'
    BY <1>8 DEF IInv, InvLive, Closed, Traced
  <1> QED BY <1>17, <1>18, <1>19, <1>20, <1>21, <1>22, <1>23, <1>24 DEF IInv

\* Allocating what was asked for touches no copy.
LEMMA AllocateInv == IInv /\ Allocate => IInv'
  <1> SUFFICES ASSUME IInv, Allocate PROVE IInv'
    OBVIOUS
  <1>1. /\ UNCHANGED <<roots, root, oldSize, gcdone, oldData, heap0, roots0, path>>
        /\ pc' \in {"oom", "done"} /\ path = <<>> /\ root = RootCount + 1
    BY DEF Allocate, IInv, InvReg, Collected, old
  <1>2. /\ memoryPointer' \in Int /\ memoryPointer' < memoryPointer
        /\ memoryPointer' \notin DOMAIN newHdr
    BY WordAssumption DEF Allocate, IInv, InvNew
  <1>3. /\ DOMAIN newHdr' \subseteq DOMAIN newHdr \cup {memoryPointer'}
        /\ DOMAIN newHdr \subseteq DOMAIN newHdr'
        /\ DOMAIN newData' = DOMAIN newHdr'
        /\ \A m \in DOMAIN newHdr :
             newHdr'[m] = newHdr[m] /\ newData'[m] = newData[m]
    <2>1. CASE memoryPointer' < 0
      BY <2>1 DEF Allocate, IInv, InvNew
    <2>2. CASE ~(memoryPointer' < 0)
      <3>1. PICK p : p = memoryPointer'
        OBVIOUS
      <3>2. /\ newHdr' = [m \in DOMAIN newHdr \cup {p} |->
                            IF m = p THEN [size |-> Request, bin |-> FALSE]
                            ELSE newHdr[m]]
            /\ newData' = [m \in DOMAIN newData \cup {p} |->
                            IF m = p THEN [k \in 0..Request |-> Junk]
                            ELSE newData[m]]
        BY <2>2, <3>1 DEF Allocate
      <3>3. DOMAIN newHdr = DOMAIN newData
        BY DEF IInv, InvNew
      <3> QED BY <3>1, <3>2, <3>3, <1>2
    <2> QED BY <2>1, <2>2
  <1>4. \A b : Cursor(b)' = Cursor(b) /\ Forward(b)' = Forward(b) /\ W(b)' = W(b)
    BY <1>1 DEF Cursor, Forward, IS_BINOBJ, W
  <1>5. \A v : Settled(v)' = Settled(v) /\ Map(v)' = Map(v)
    BY <1>1, <1>4 DEF Settled, Map
  <1>6. InvHist' /\ InvOld' /\ InvLive'
    BY <1>1, <1>4 DEF IInv, InvHist, InvOld, InvLive, Closed, Traced
  <1>7. InvNew'
    BY <1>2, <1>3 DEF IInv, InvNew
  <1>8. InvCopy'
    <2>1. \A b \in gcdone :
            /\ Forward(b) \in DOMAIN newHdr'
            /\ newHdr'[Forward(b)] = newHdr[Forward(b)]
            /\ newData'[Forward(b)] = newData[Forward(b)]
      BY <1>3 DEF IInv, InvCopy
    <2>2. OnPath' = OnPath
      BY <1>1 DEF OnPath
    <2> QED BY <2>1, <2>2, <1>1, <1>4, <1>5 DEF IInv, InvCopy
  <1>9. InvPath'
    BY <1>1 DEF IInv, InvPath, OnPath
  <1>10. InvReg'
    BY <1>1 DEF InvReg, Collected
  <1>11. InvRoots'
    BY <1>1, <1>5 DEF IInv, InvRoots
  <1> QED BY <1>6, <1>7, <1>8, <1>9, <1>10, <1>11 DEF IInv

\* A step that changes nothing keeps the invariant.
LEMMA StutterInv == IInv /\ UNCHANGED vars => IInv'
  <1> SUFFICES ASSUME IInv, UNCHANGED vars PROVE IInv'
    OBVIOUS
  <1>1. /\ UNCHANGED <<old, new, heap0, roots0, path, root, roots, pc>>
        /\ oldAddress' = oldAddress /\ previousObject' = previousObject
        /\ replacement' = replacement
    BY DEF vars, locals
  <1>2. Top' = Top /\ Pending' = Pending
    BY <1>1, QuietStep DEF Top, Pending
  <1>3. Settled(Pending)' = Settled(Pending) /\ Map(Pending)' = Map(Pending)
    <2>1. PICK v : v = Pending
      OBVIOUS
    <2>2. Settled(v)' = Settled(v) /\ Map(v)' = Map(v)
      BY <1>1, QuietStep
    <2> QED BY <2>1, <2>2, <1>2 DEF Settled, Map
  <1>4. InvReg'
    BY <1>1, <1>2, <1>3 DEF IInv, InvReg, Collected
  <1>5. InvRoots'
    BY <1>1, QuietStep DEF IInv, InvRoots
  <1> QED BY <1>1, <1>4, <1>5, QuietStep DEF IInv

\* The collector's inductive invariant holds throughout every collection.
THEOREM Invariance == Spec => []IInv
  <1>1. IInv /\ [Next]_vars => IInv'
    BY StartMoveInv, DownLeafInv, DownStaleInv, DownForwardedInv,
       DownBinaryInv, DownOrdinaryInv, UpReturnInv, UpClassInv, UpFieldInv,
       FlushCacheInv, AllocateInv, StutterInv
    DEF Next
  <1> QED BY <1>1, InitInv, PTL DEF Spec

\* Whatever the graph, the collection gives back the same graph at new
\* addresses.
THEOREM GraphPreservation == Spec => []GraphPreserved
  <1>1. IInv => GraphPreserved
    <2> SUFFICES ASSUME IInv, Collected PROVE GraphPreserved
      BY DEF GraphPreserved
    <2>1. path = <<>> /\ root = RootCount + 1 /\ OnPath = {}
      BY DEF IInv, InvReg, Collected, OnPath
    <2>2. \A r \in 1..RootCount : roots[r] = Map(roots0[r])
      BY <2>1, WordAssumption DEF IInv, InvRoots
    <2>3. ASSUME NEW a \in gcdone
          PROVE  LET n == Forward(a) IN
                   /\ n \in DOMAIN newHdr
                   /\ newHdr[n] = [size |-> heap0[a].size, bin |-> heap0[a].bin]
                   /\ DOMAIN newData[n] = DOMAIN heap0[a].data
                   /\ \A k \in DOMAIN heap0[a].data :
                        newData[n][k] = IF k \in Traced(a)
                                        THEN Map(heap0[a].data[k])
                                        ELSE heap0[a].data[k]
      <3>1. a \in OldObj
        BY DEF IInv, InvOld
      <3>2. DOMAIN heap0[a].data = 0..W(a) /\ W(a) \in Nat
            /\ heap0[a].bin \in BOOLEAN
            /\ (~heap0[a].bin => W(a) = heap0[a].size)
        BY <3>1, HeapFacts DEF IInv
      <3>3. /\ Cursor(a) = 0 /\ newData[Forward(a)][0] = Map(heap0[a].data[0])
            /\ Forward(a) \in DOMAIN newHdr
            /\ newHdr[Forward(a)] = [size |-> heap0[a].size, bin |-> heap0[a].bin]
            /\ DOMAIN newData[Forward(a)] = 0..W(a)
        BY <2>1 DEF IInv, InvCopy
      <3>4. \A k \in 0..W(a) : k > 0 =>
              newData[Forward(a)][k] = IF heap0[a].bin THEN heap0[a].data[k]
                                       ELSE Map(heap0[a].data[k])
        BY <3>3 DEF IInv, InvCopy
      <3>5. \A k \in 0..W(a) : k \in Traced(a) <=> (k = 0 \/ ~heap0[a].bin)
        BY <3>2 DEF Traced
      <3> QED BY <3>2, <3>3, <3>4, <3>5
    <2>4. \A a, b \in gcdone : Forward(a) = Forward(b) => a = b
      BY DEF IInv, InvCopy
    <2> QED BY <2>2, <2>3, <2>4 DEF GraphPreserved
  <1> QED BY <1>1, Invariance, PTL

\* When the collection is over, the objects moved form a closed set none of
\* whose words is stale.
LEMMA DoneClosed ==
  ASSUME IInv, Collected
  PROVE  /\ Closed(gcdone) /\ gcdone \in SUBSET OldObj
         /\ \A r \in 1..RootCount : roots0[r] \notin Stale
         /\ \A a \in gcdone : \A k \in Traced(a) : heap0[a].data[k] \notin Stale
  <1>1. path = <<>> /\ root = RootCount + 1 /\ OnPath = {}
    BY DEF IInv, InvReg, Collected, OnPath
  <1>2. \A r \in 1..RootCount : Settled(roots0[r])
    BY <1>1, WordAssumption DEF IInv, InvRoots
  <1>3. gcdone \subseteq OldObj
    BY DEF IInv, InvOld
  <1>4. ASSUME NEW a \in gcdone, NEW k \in Traced(a)
        PROVE  Settled(heap0[a].data[k])
    <2>1. /\ k \in 0..W(a) /\ W(a) \in Nat /\ (k > 0 => ~heap0[a].bin)
      BY <1>3, HeapFacts DEF IInv, Traced
    <2>2. Cursor(a) = 0 /\ Settled(heap0[a].data[0])
      BY <1>1 DEF IInv, InvCopy
    <2>3. CASE k = 0
      BY <2>2, <2>3
    <2>4. CASE k > 0
      BY <2>1, <2>2, <2>4 DEF IInv, InvCopy
    <2> QED BY <2>1, <2>3, <2>4
  <1> QED BY <1>2, <1>3, <1>4 DEF Closed, Settled

\* No closed set, and so no set of reachable objects, is smaller than what the
\* collector has moved; in the end what it has moved is closed.
THEOREM Exactness == Spec => []ExactlyLive
  <1>1. IInv => ExactlyLive
    <2> SUFFICES ASSUME IInv, Collected PROVE gcdone = Live
      BY DEF ExactlyLive
    <2>1. gcdone \subseteq Live
      BY DEF IInv, InvLive, InvOld, Live
    <2>2. Live \subseteq gcdone
      BY DoneClosed DEF Live
    <2> QED BY <2>1, <2>2
  <1> QED BY <1>1, Invariance, PTL

\* The check for stale words has neither false alarms nor misses.
THEOREM StaleDetection == Spec => []StaleCaught
  <1>1. IInv => StaleCaught
    <2> SUFFICES ASSUME IInv PROVE StaleCaught
      OBVIOUS
    <2>1. gcdone \subseteq Live
      BY DEF IInv, InvLive, InvOld, Live
    <2>2. ASSUME Collected PROVE ~LiveStale
      <3>1. Live \subseteq gcdone
        BY <2>2, DoneClosed DEF Live
      <3> QED BY <2>2, <3>1, DoneClosed DEF LiveStale
    <2>3. ASSUME pc = "error" PROVE LiveStale
      <3>1. root \in 1..RootCount /\ Pending \in Stale
        BY <2>3 DEF IInv, InvReg, InvRoots
      <3>2. CASE path = <<>>
        BY <3>1, <3>2 DEF Pending, LiveStale
      <3>3. CASE path # <<>>
        BY <3>1, <3>3, <2>1, TopFacts, CursorFacts DEF LiveStale
      <3> QED BY <3>2, <3>3
    <2> QED BY <2>2, <2>3 DEF StaleCaught
  <1> QED BY <1>1, Invariance, PTL

-----------------------------------------------------------------------------
\* The types of the words of the two spaces.
TypeOld ==
  /\ oldSize \in [OldObj -> Nat]
  /\ DOMAIN oldData = OldObj
  /\ \A a \in OldObj : oldData[a] \in [0..W(a) -> Value \cup Int]

TypeNew ==
  /\ memoryPointer \in Int
  /\ DOMAIN newHdr \subseteq Int
  /\ DOMAIN newData = DOMAIN newHdr
  /\ \A n \in DOMAIN newHdr :
       /\ newHdr[n] \in [size : Nat, bin : BOOLEAN]
       /\ newData[n] \in [0..Words(newHdr[n].size, newHdr[n].bin) ->
                            Value \cup Int \cup {Junk}]

TypeReg ==
  /\ pc \in {"root", "down", "up", "alloc", "done", "oom", "error"}
  /\ roots \in [1..RootCount -> Value \cup Int]
  /\ oldAddress \in Value
  /\ pc = "up" => replacement \in Value \cup Int
  /\ previousObject \in OldObj \cup {Null}
  /\ cache \subseteq OldObj

\* A copy in word n of the new space: what Copy writes is well typed.
LEMMA CopyType ==
  ASSUME IInv, TypeOld, TypeNew, NEW a \in OldObj, NEW n \in Int,
         NEW size \in Nat, NEW bin \in BOOLEAN,
         NEW words \in [0..Words(size, bin) -> Value \cup Int \cup {Junk}],
         NEW w, w \in 0..W(a), previousObject \in OldObj \cup {Null},
         Copy(a, n, size, bin, words, w)
  PROVE  TypeOld' /\ TypeNew'
  <1>1. heap0' = heap0 /\ oldSize' = oldSize
        /\ oldData' = [oldData EXCEPT ![a][w] = n]
    BY DEF Copy
  <1>2. \A b : W(b)' = W(b)
    BY <1>1 DEF W
  <1>3. TypeOld'
    BY <1>1, <1>2 DEF TypeOld
  <1>4. [words EXCEPT ![w] = previousObject] \in
          [0..Words(size, bin) -> Value \cup Int \cup {Junk}]
    BY DEF Value
  <1>5. /\ DOMAIN newHdr' = DOMAIN newHdr \cup {n}
        /\ DOMAIN newData' = DOMAIN newData \cup {n}
        /\ memoryPointer' = n
        /\ newHdr'[n] = [size |-> size, bin |-> bin]
        /\ newData'[n] = [words EXCEPT ![w] = previousObject]
        /\ \A m \in DOMAIN newHdr : m # n => newHdr'[m] = newHdr[m]
        /\ \A m \in DOMAIN newData : m # n => newData'[m] = newData[m]
    BY DEF Copy
  <1>6. TypeNew'
    <2> SUFFICES ASSUME NEW m \in DOMAIN newHdr'
                 PROVE  /\ newHdr'[m] \in [size : Nat, bin : BOOLEAN]
                        /\ newData'[m] \in
                             [0..Words(newHdr'[m].size, newHdr'[m].bin) ->
                                Value \cup Int \cup {Junk}]
      BY <1>5 DEF TypeNew
    <2>1. CASE m = n
      BY <2>1, <1>4, <1>5
    <2>2. CASE m # n
      BY <2>2, <1>5 DEF TypeNew
    <2> QED BY <2>1, <2>2
  <1> QED BY <1>3, <1>6

\* The pending word is a word of the old space.
LEMMA PendingValue ==
  ASSUME IInv, root \in 1..RootCount
  PROVE  Pending \in Value /\ (Settled(Pending) => Map(Pending) \in Value \cup Int)
  <1>1. Pending \in Value
    <2>1. CASE path = <<>>
      BY <2>1, HeapFacts DEF Pending, IInv
    <2>2. CASE path # <<>>
      BY <2>2, TopFacts, CursorFacts
    <2> QED BY <2>1, <2>2
  <1>2. ASSUME Settled(Pending), Pending \in OldObj PROVE Forward(Pending) \in Int
    BY <1>2 DEF Settled, IInv, InvCopy, InvNew
  <1> QED BY <1>1, <1>2 DEF Map

\* TypeOK, the parts that the invariant does not give.
TypeInv == TypeOld /\ TypeNew /\ TypeReg

\* A step that writes neither space keeps the types of both.
LEMMA QuietType ==
  ASSUME TypeInv, UNCHANGED <<old, new, heap0>>
  PROVE  TypeOld' /\ TypeNew'
  BY DEF TypeInv, TypeOld, TypeNew, old, new, W

\* Turning back leaves the types of the registers.
LEMMA LeaveType ==
  ASSUME TypeInv, NEW v, Leave(v), v \in Value \cup Int
  PROVE  TypeInv'
  <1>1. TypeOld' /\ TypeNew'
    BY QuietType DEF Leave
  <1>2. TypeReg'
    BY DEF Leave, TypeInv, TypeReg, Value
  <1> QED BY <1>1, <1>2 DEF TypeInv

\* Copying leaves well-typed registers: the next word is one of the object's.
LEMMA CopyTypeReg ==
  ASSUME IInv, TypeInv, pc = "down", NEW a \in OldObj \ gcdone, NEW n, NEW size,
         NEW bin, NEW words, NEW w, w = Cursor(a), Copy(a, n, size, bin, words, w)
  PROVE  TypeReg'
  <1>1. oldData[a][w] \in Value
    BY CursorFacts DEF IInv, InvOld
  <1> QED BY <1>1 DEF Copy, TypeInv, TypeReg

\* Every step keeps the types.
LEMMA TypeStep == IInv /\ TypeInv /\ [Next]_vars => TypeInv'
  <1> SUFFICES ASSUME IInv, TypeInv PROVE [Next]_vars => TypeInv'
    OBVIOUS
  <1>1. CASE StartMove
    <2>1. roots[root] \in Value
      BY <1>1, HeapFacts, WordAssumption DEF StartMove, IInv, InvRoots
    <2>2. TypeReg'
      BY <1>1, <2>1 DEF StartMove, TypeInv, TypeReg
    <2> QED BY <1>1, <2>2, QuietType DEF StartMove, TypeInv
  <1>2. CASE DownLeaf
    BY <1>2, LeaveType DEF DownLeaf, TypeInv, TypeReg
  <1>3. CASE DownStale
    <2>1. TypeReg'
      BY <1>3 DEF DownStale, TypeInv, TypeReg, locals
    <2> QED BY <1>3, <2>1, QuietType DEF DownStale, TypeInv
  <1>4. CASE DownForwarded
    <2>1. Forward(oldAddress) \in Int
      BY <1>4 DEF DownForwarded, IS_GCDONE, IInv, InvCopy, InvNew
    <2>2. PICK v : v = Forward(oldAddress)
      OBVIOUS
    <2> QED BY <1>4, <2>1, <2>2, LeaveType DEF DownForwarded
  <1>5. CASE DownBinary
    <2>1. PICK a : a = oldAddress
      OBVIOUS
    <2>2. /\ a \in OldObj \ gcdone /\ heap0[a].bin /\ pc = "down"
          /\ oldSize[a] = heap0[a].size /\ Cursor(a) = 0
          /\ W(a) \in Nat /\ TO_WORDS(oldSize[a]) = W(a) /\ heap0[a].size \in Nat
          /\ Words(heap0[a].size, TRUE) = W(a)
          /\ oldData[a] \in [0..W(a) -> Value \cup Int]
      BY <1>5, <2>1, HeapFacts
      DEF DownBinary, IN_OLDSPACE, IS_GCDONE, IS_BINOBJ, IInv, InvOld, W, Words,
          Cursor, TypeInv, TypeOld
    <2>3. PICK n : n = memoryPointer - (W(a) + 2)
      OBVIOUS
    <2>4. PICK words :
            words = [k \in 0..W(a) |-> IF k = 0 THEN Junk ELSE oldData[a][k]]
      OBVIOUS
    <2>5. PICK size : size = heap0[a].size
      OBVIOUS
    <2>6. Copy(a, n, size, TRUE, words, 0)
      BY <1>5, <2>1, <2>2, <2>3, <2>4, <2>5 DEF DownBinary
    <2>7. /\ words \in [0..Words(size, TRUE) -> Value \cup Int \cup {Junk}]
          /\ n \in Int /\ 0 \in 0..W(a) /\ size \in Nat
      <3>1. memoryPointer \in Int /\ W(a) \in Nat
        BY <2>2 DEF IInv, InvNew
      <3>2. Words(size, TRUE) = W(a) /\ size \in Nat
        BY <2>2, <2>5
      <3>3. words \in [0..W(a) -> Value \cup Int \cup {Junk}]
        BY <2>2, <2>4
      <3>4. n \in Int /\ 0 \in 0..W(a)
        BY <3>1, <2>3
      <3> QED BY <3>2, <3>3, <3>4, Zenon
    <2>8. TypeOld' /\ TypeNew'
      BY <2>2, <2>6, <2>7, CopyType DEF TypeInv, TypeReg
    <2>9. TypeReg'
      BY <2>2, <2>6, CopyTypeReg
    <2> QED BY <2>8, <2>9 DEF TypeInv
  <1>6. CASE DownOrdinary
    <2>1. PICK a : a = oldAddress
      OBVIOUS
    <2>2. /\ a \in OldObj \ gcdone /\ ~heap0[a].bin /\ pc = "down"
          /\ oldSize[a] = heap0[a].size /\ Cursor(a) = W(a)
          /\ W(a) \in Nat /\ heap0[a].size = W(a)
          /\ Words(W(a), FALSE) = W(a)
      BY <1>6, <2>1, HeapFacts
      DEF DownOrdinary, IN_OLDSPACE, IS_GCDONE, IS_BINOBJ, IInv, InvOld, Words,
          Cursor
    <2>3. PICK n : n = memoryPointer - (W(a) + 2)
      OBVIOUS
    <2>4. PICK words : words = [k \in 0..W(a) |-> Junk]
      OBVIOUS
    <2>5. PICK w : w = W(a)
      OBVIOUS
    <2>6. Copy(a, n, w, FALSE, words, w)
      BY <1>6, <2>1, <2>2, <2>3, <2>4, <2>5 DEF DownOrdinary
    <2>7. /\ words \in [0..Words(w, FALSE) -> Value \cup Int \cup {Junk}]
          /\ n \in Int /\ w \in 0..W(a) /\ w \in Nat
      <3>1. memoryPointer \in Int /\ W(a) \in Nat
        BY <2>2 DEF IInv, InvNew
      <3>2. Words(w, FALSE) = W(a)
        BY <2>2, <2>5
      <3>3. words \in [0..W(a) -> Value \cup Int \cup {Junk}]
        BY <2>4
      <3>4. n \in Int /\ w \in 0..W(a) /\ w \in Nat
        BY <3>1, <2>3, <2>5
      <3> QED BY <3>2, <3>3, <3>4, Zenon
    <2>8. TypeOld' /\ TypeNew'
      BY <2>2, <2>6, <2>7, CopyType DEF TypeInv, TypeReg
    <2>9. TypeReg'
      BY <2>2, <2>5, <2>6, CopyTypeReg
    <2> QED BY <2>8, <2>9 DEF TypeInv
  <1>7. CASE UpReturn
    <2>1. replacement \in Value \cup Int
      BY <1>7 DEF UpReturn, TypeInv, TypeReg
    <2>2. TypeReg'
      BY <1>7, <2>1 DEF UpReturn, TypeInv, TypeReg, locals
    <2> QED BY <1>7, <2>2, QuietType DEF UpReturn, TypeInv
  <1>8. CASE UpClass
    <2>1. PICK a : a = oldAddress
      OBVIOUS
    <2>2. path # <<>> /\ a = Top /\ Cursor(a) = 0 /\ pc = "up"
      BY <1>8, <2>1 DEF UpClass, IInv, InvReg, Top, Cursor, IS_BINOBJ
    <2>3. a \in OldObj /\ a \in gcdone
      BY <2>2, TopFacts
    <2>4. PICK n : n = Forward(a)
      OBVIOUS
    <2>5. /\ newData[n][0] \in OldObj \cup {Null}
          /\ n \in DOMAIN newHdr /\ n \in Int
      <3>1. newData[n][0] = IF Len(path) = 1 THEN Null ELSE path[Len(path) - 1]
        BY <2>2, <2>4, TopFacts
      <3>2. Len(path) \in Nat /\ Len(path) > 0
        BY <2>2, TopFacts
      <3>3. Len(path) # 1 => path[Len(path) - 1] \in OldObj
        <4>1. ASSUME NEW l \in Nat, l > 0 PROVE l # 1 => l - 1 \in 1..l
          BY <4>1
        <4>2. \A i \in 1..Len(path) : path[i] \in OldObj
          BY DEF IInv, InvPath
        <4> QED BY <4>1, <4>2, <3>2
      <3> QED BY <3>1, <3>3, <2>3, <2>4 DEF IInv, InvCopy, InvNew
    <2>6. /\ UNCHANGED <<pc, roots, oldSize, oldData, gcdone, newHdr,
                         memoryPointer, cache, heap0>>
          /\ oldAddress' = newData[n][0] /\ previousObject' = newData[n][0]
          /\ newData' = [newData EXCEPT ![n][0] = replacement]
          /\ replacement' = n
      BY <1>8, <2>1, <2>2, <2>4 DEF UpClass, Forward, old
    <2>7. replacement \in Value \cup Int
      BY <2>2 DEF TypeInv, TypeReg
    <2>8. TypeNew'
      <3>1. \A m \in DOMAIN newHdr : newData'[m] \in
              [0..Words(newHdr[m].size, newHdr[m].bin) -> Value \cup Int \cup {Junk}]
        BY <2>5, <2>6, <2>7 DEF TypeInv, TypeNew
      <3> QED BY <3>1, <2>6 DEF TypeInv, TypeNew
    <2>9. TypeOld' /\ TypeReg'
      BY <2>5, <2>6 DEF TypeInv, TypeOld, TypeReg, W, Value
    <2> QED BY <2>8, <2>9 DEF TypeInv
  <1>9. CASE UpField
    <2>1. PICK a, n, sz : \E j \in 0..(sz - 1) : UpFieldEffect(a, n, sz, j)
      BY <1>9, UpFieldFacts
    <2>2. PICK j \in 0..(sz - 1) : UpFieldEffect(a, n, sz, j)
      BY <2>1
    <2>3. /\ a \in OldObj /\ a \in gcdone /\ W(a) \in Nat /\ sz \in 1..W(a)
          /\ n = Forward(a) /\ j \in 0..W(a) /\ j < Cursor(a)
      BY <2>2 DEF UpFieldEffect
    <2>4. oldData[a][j] \in Value
      <3>1. heap0[a].data \in [0..W(a) -> Value] /\ oldData[a][j] = heap0[a].data[j]
        BY <2>3, HeapFacts DEF IInv, InvOld
      <3> QED BY <3>1, <2>3
    <2>5. n \in DOMAIN newHdr /\ n \in DOMAIN newData /\ n \in Int
      BY <2>3 DEF IInv, InvCopy, InvNew
    <2>6. /\ UNCHANGED <<roots, newHdr, memoryPointer, cache, heap0, replacement>>
          /\ pc' = "down" /\ replacement \in Value \cup Int
      BY <1>9 DEF UpField, TypeInv, TypeReg
    <2>7. TypeReg'
      BY <2>2, <2>3, <2>4, <2>6 DEF UpFieldEffect, TypeInv, TypeReg
    <2>8. TypeOld'
      <3>1. \A b : W(b)' = W(b)
        BY <2>6 DEF W
      <3>2. oldSize' = [oldSize EXCEPT ![a] = j] /\ oldData' = [oldData EXCEPT ![a][j] = n]
        BY <2>2 DEF UpFieldEffect
      <3> QED BY <3>1, <3>2, <2>3, <2>5 DEF TypeInv, TypeOld
    <2>9. TypeNew'
      <3>1. newData[n] \in [0..W(a) -> Value \cup Int \cup {Junk}]
            /\ Words(newHdr[n].size, newHdr[n].bin) = W(a)
        <4>1. newHdr[n] = [size |-> heap0[a].size, bin |-> heap0[a].bin]
          BY <2>3 DEF IInv, InvCopy
        <4>2. Words(newHdr[n].size, newHdr[n].bin) = W(a)
          BY <4>1 DEF W
        <4> QED BY <4>2, <2>5 DEF TypeInv, TypeNew
      <3>2. newData'[n] \in [0..W(a) -> Value \cup Int \cup {Junk}]
        BY <2>2, <2>3, <2>5, <2>6, <3>1 DEF UpFieldEffect, Value
      <3>3. /\ DOMAIN newData' = DOMAIN newData
            /\ \A m \in DOMAIN newData : m # n => newData'[m] = newData[m]
        BY <2>2, <2>5 DEF UpFieldEffect
      <3> QED BY <3>1, <3>2, <3>3, <2>6 DEF TypeInv, TypeNew
    <2> QED BY <2>7, <2>8, <2>9 DEF TypeInv
  <1>10. CASE FlushCache
    <2>1. TypeReg'
      BY <1>10 DEF FlushCache, TypeInv, TypeReg, locals
    <2> QED BY <1>10, <2>1, QuietType DEF FlushCache, TypeInv
  <1>11. CASE Allocate
    <2>1. PICK p : p = memoryPointer'
      OBVIOUS
    <2>2. TypeReg' /\ TypeOld' /\ p \in Int
      BY <1>11, <2>1, WordAssumption
      DEF Allocate, TypeInv, TypeReg, TypeOld, IInv, InvNew, old, W, locals
    <2>3. TypeNew'
      <3>1. CASE p < 0
        BY <1>11, <2>1, <2>2, <3>1 DEF Allocate, TypeInv, TypeNew
      <3>2. CASE ~(p < 0)
        <4>1. /\ newHdr' = [m \in DOMAIN newHdr \cup {p} |->
                            IF m = p THEN [size |-> Request, bin |-> FALSE]
                            ELSE newHdr[m]]
              /\ newData' = [m \in DOMAIN newData \cup {p} |->
                            IF m = p THEN [k \in 0..Request |-> Junk]
                            ELSE newData[m]]
          BY <1>11, <2>1, <3>2 DEF Allocate
        <4>2. Words(Request, FALSE) = Request
          BY DEF Words
        <4> QED BY <4>1, <4>2, <2>1, <2>2, WordAssumption DEF TypeInv, TypeNew
      <3> QED BY <3>1, <3>2
    <2> QED BY <2>2, <2>3 DEF TypeInv
  <1>12. CASE UNCHANGED vars
    <2>1. TypeReg'
      BY <1>12 DEF vars, TypeInv, TypeReg, locals
    <2> QED BY <1>12, <2>1, QuietType DEF vars, TypeInv
  <1> QED BY <1>1, <1>2, <1>3, <1>4, <1>5, <1>6, <1>7, <1>8, <1>9, <1>10, <1>11,
             <1>12 DEF Next

\* Types hold in the initial state and after every step.
LEMMA TypesKept == Spec => []TypeInv
  <1>1. Init => TypeInv
    <2> SUFFICES ASSUME Init PROVE TypeInv
      OBVIOUS
    <2>1. InvHist
      BY DEF Init, InvHist
    <2>2. TypeOld
      BY <2>1, HeapFacts DEF Init, TypeOld
    <2>3. TypeNew
      BY WordAssumption DEF Init, TypeNew, TopWord
    <2>4. TypeReg
      BY <2>1, HeapFacts DEF Init, TypeReg, Value
    <2> QED BY <2>2, <2>3, <2>4 DEF TypeInv
  <1> QED BY <1>1, TypeStep, Invariance, PTL DEF Spec

\* The types of gc_move()'s registers and of both spaces.
THEOREM TypeCorrectness == Spec => []TypeOK
  <1>1. IInv /\ TypeInv => TypeOK
    <2> SUFFICES ASSUME IInv, TypeInv PROVE TypeOK
      OBVIOUS
    <2>1. ASSUME pc = "up"
          PROVE  /\ oldAddress \in OldObj \cup {Null}
                 /\ replacement \in (Value \ OldObj) \cup DOMAIN newData
      <3>1. oldAddress = Top /\ Settled(Pending) /\ replacement = Map(Pending)
            /\ root \in 1..RootCount
        BY <2>1 DEF IInv, InvReg, InvRoots
      <3>2. oldAddress \in OldObj \cup {Null}
        <4>1. CASE path = <<>>
          BY <3>1, <4>1 DEF Top
        <4>2. CASE path # <<>>
          BY <3>1, <4>2, TopFacts
        <4> QED BY <4>1, <4>2
      <3>3. ASSUME Pending \in OldObj PROVE replacement \in DOMAIN newData
        BY <3>1, <3>3 DEF Map, Settled, IInv, InvCopy, InvNew
      <3>4. ASSUME Pending \notin OldObj PROVE replacement \in Value \ OldObj
        BY <3>1, <3>4, PendingValue DEF Map
      <3> QED BY <3>2, <3>3, <3>4
    <2>2. root \in 1..(RootCount + 1) /\ gcdone \subseteq OldObj /\ path \in Seq(OldObj)
      BY DEF IInv, InvRoots, InvOld, InvPath
    <2> QED BY <2>1, <2>2 DEF TypeOK, TypeInv, TypeOld, TypeNew, TypeReg, W
  <1> QED BY <1>1, TypesKept, Invariance, PTL

-----------------------------------------------------------------------------
\* An object allocated just below memoryPointer, with room for its two header
\* words, overlaps none that is there.
LEMMA ApartBelow ==
  ASSUME IInv, TypeInv, NoOverlap, NEW size \in Nat, NEW bin \in BOOLEAN,
         NEW n, n = memoryPointer - (Words(size, bin) + 2), memoryPointer' = n,
         newHdr' = [m \in DOMAIN newHdr \cup {n} |->
                      IF m = n THEN [size |-> size, bin |-> bin] ELSE newHdr[m]]
  PROVE  NoOverlap'
  <1>1. PICK w : w = Words(size, bin)
    OBVIOUS
  <1>2. w \in Nat /\ memoryPointer \in Int /\ n = memoryPointer - (w + 2)
    BY <1>1, WordsNat DEF TypeInv, TypeNew
  <1>3. \A m \in DOMAIN newHdr : m \in Int /\ memoryPointer <= m /\ m # n
    BY <1>2 DEF TypeInv, TypeNew, NoOverlap
  <1>4. \A m \in DOMAIN newHdr' : n <= m
    BY <1>2, <1>3
  <1>5. ASSUME NEW m \in DOMAIN newHdr', NEW k \in DOMAIN newHdr', m < k
        PROVE  m + Words(newHdr'[m].size, newHdr'[m].bin) + 2 <= k
    <2>1. k \in DOMAIN newHdr
      BY <1>2, <1>3, <1>5
    <2>2. CASE m = n
      <3>1. Words(newHdr'[m].size, newHdr'[m].bin) = w
        BY <1>1, <2>2
      <3>2. m + w + 2 = memoryPointer /\ memoryPointer <= k /\ k \in Int
        BY <1>2, <1>3, <2>1, <2>2
      <3> QED BY <3>1, <3>2
    <2>3. CASE m # n
      BY <1>5, <2>1, <2>3 DEF NoOverlap
    <2> QED BY <2>2, <2>3
  <1> QED BY <1>4, <1>5 DEF NoOverlap

\* Whatever is copied, and whatever is allocated when the copying is done, the
\* objects of the new space lie side by side.
THEOREM CopiesApart == Spec => []NoOverlap
  <1>1. Init => NoOverlap
    BY DEF Init, NoOverlap
  <1>2. IInv /\ TypeInv /\ NoOverlap /\ [Next]_vars => NoOverlap'
    <2> SUFFICES ASSUME IInv, TypeInv, NoOverlap PROVE [Next]_vars => NoOverlap'
      OBVIOUS
    <2>1. ASSUME UNCHANGED <<newHdr, memoryPointer>> PROVE NoOverlap'
      BY <2>1 DEF NoOverlap
    <2>2. CASE StartMove \/ DownStale \/ FlushCache \/ UpReturn \/ UpClass
               \/ UNCHANGED vars
      BY <2>1, <2>2 DEF StartMove, DownStale, FlushCache, UpReturn, UpClass, new,
         vars
    <2>3. CASE UpField
      <3>1. UNCHANGED <<newHdr, memoryPointer>>
        BY <2>3 DEF UpField
      <3> QED BY <3>1, <2>1
    <2>4. CASE DownLeaf \/ DownForwarded
      BY <2>1, <2>4 DEF DownLeaf, DownForwarded, Leave, new
    <2>5. CASE DownBinary
      <3>1. PICK a : a = oldAddress
        OBVIOUS
      <3>2. PICK size : size = oldSize[a]
        OBVIOUS
      <3>3. PICK n : n = memoryPointer - (Words(size, TRUE) + 2)
        OBVIOUS
      <3>4. size \in Nat
        BY <2>5, <3>1, <3>2 DEF DownBinary, IN_OLDSPACE, TypeInv, TypeOld
      <3>5. /\ memoryPointer' = n
            /\ newHdr' = [m \in DOMAIN newHdr \cup {n} |->
                 IF m = n THEN [size |-> size, bin |-> TRUE] ELSE newHdr[m]]
        BY <2>5, <3>1, <3>2, <3>3 DEF DownBinary, Copy, Words
      <3> QED BY <3>3, <3>4, <3>5, ApartBelow
    <2>6. CASE DownOrdinary
      <3>1. PICK a : a = oldAddress
        OBVIOUS
      <3>2. PICK size : size = oldSize[a]
        OBVIOUS
      <3>3. PICK n : n = memoryPointer - (Words(size, FALSE) + 2)
        OBVIOUS
      <3>4. size \in Nat
        BY <2>6, <3>1, <3>2 DEF DownOrdinary, IN_OLDSPACE, TypeInv, TypeOld
      <3>5. /\ memoryPointer' = n
            /\ newHdr' = [m \in DOMAIN newHdr \cup {n} |->
                 IF m = n THEN [size |-> size, bin |-> FALSE] ELSE newHdr[m]]
        BY <2>6, <3>1, <3>2, <3>3 DEF DownOrdinary, Copy, Words
      <3> QED BY <3>3, <3>4, <3>5, ApartBelow
    <2>7. CASE Allocate
      <3>1. PICK n : n = memoryPointer - (Request + 2)
        OBVIOUS
      <3>2. memoryPointer' = n /\ n \in Int /\ Words(Request, FALSE) = Request
        BY <2>7, <3>1, WordAssumption DEF Allocate, Words, TypeInv, TypeNew
      <3>3. CASE n < 0
        <4>1. newHdr' = newHdr
          BY <2>7, <3>2, <3>3 DEF Allocate
        <4>2. n <= memoryPointer
          BY <3>1, WordAssumption DEF TypeInv, TypeNew
        <4> QED BY <3>2, <4>1, <4>2 DEF NoOverlap, TypeInv, TypeNew
      <3>4. CASE ~(n < 0)
        <4>1. newHdr' = [m \in DOMAIN newHdr \cup {n} |->
                IF m = n THEN [size |-> Request, bin |-> FALSE] ELSE newHdr[m]]
          BY <2>7, <3>2, <3>4 DEF Allocate
        <4> QED BY <3>1, <3>2, <4>1, ApartBelow, WordAssumption
      <3> QED BY <3>3, <3>4
    <2> QED BY <2>2, <2>3, <2>4, <2>5, <2>6, <2>7 DEF Next
  <1> QED BY <1>1, <1>2, Invariance, TypesKept, PTL DEF Spec

-----------------------------------------------------------------------------
\* What a step that copies an object does to the forwarding addresses and to
\* the new space (DownBinary and DownOrdinary).
CopyEffect(a, n) ==
  /\ a \in OldObj \ gcdone /\ gcdone' = gcdone \cup {a}
  /\ n = memoryPointer - (W(a) + 2) /\ memoryPointer' = n
  /\ DOMAIN newHdr' = DOMAIN newHdr \cup {n}
  /\ oldSize' = oldSize /\ heap0' = heap0 /\ pc = "down" /\ pc' = pc
  /\ oldData' = [oldData EXCEPT ![a][Cursor(a)] = n]
  /\ cache' = cache

LEMMA CopyFacts ==
  ASSUME IInv, DownBinary \/ DownOrdinary
  PROVE  \E a, n : CopyEffect(a, n)
  <1>1. PICK a : a = oldAddress
    OBVIOUS
  <1>2. a \in OldObj \ gcdone /\ pc = "down"
    BY <1>1 DEF DownBinary, DownOrdinary, IN_OLDSPACE, IS_GCDONE
  <1>3. oldSize[a] = heap0[a].size /\ heap0[a].bin \in BOOLEAN
    BY <1>2, HeapFacts DEF IInv, InvOld
  <1>4. PICK n : n = memoryPointer - (W(a) + 2)
    OBVIOUS
  <1>5. \E size, bin, words : Copy(a, n, size, bin, words, Cursor(a))
    <2>1. CASE DownBinary
      <3>1. Cursor(a) = 0 /\ W(a) = TO_WORDS(oldSize[a])
        BY <1>1, <1>3, <2>1 DEF DownBinary, Cursor, IS_BINOBJ, W, Words
      <3>2. \E words : Copy(a, memoryPointer - (TO_WORDS(oldSize[a]) + 2), oldSize[a], TRUE, words, 0)
        BY <1>1, <2>1 DEF DownBinary
      <3> QED BY <1>4, <3>1, <3>2
    <2>2. CASE DownOrdinary
      <3>1. Cursor(a) = oldSize[a] /\ W(a) = oldSize[a]
        BY <1>1, <1>3, <2>2 DEF DownOrdinary, Cursor, IS_BINOBJ, W, Words
      <3>2. \E words : Copy(a, memoryPointer - (oldSize[a] + 2), oldSize[a], FALSE, words, oldSize[a])
        BY <1>1, <2>2 DEF DownOrdinary
      <3> QED BY <1>4, <3>1, <3>2
    <2> QED BY <2>1, <2>2
  <1>6. CopyEffect(a, n)
    BY <1>2, <1>4, <1>5 DEF Copy, CopyEffect
  <1> QED BY <1>6

\* The forwarding addresses of the objects that have been moved
Kept == gcdone \subseteq gcdone' /\ \A a \in gcdone : Forward(a)' = Forward(a)

LEMMA ForwardsKept ==
  ASSUME IInv, [Next]_vars
  PROVE  Kept
  <1>1. ASSUME oldSize' = oldSize, oldData' = oldData, heap0' = heap0, gcdone' = gcdone
        PROVE  Kept
    BY <1>1 DEF Kept, Forward, Cursor, IS_BINOBJ
  <1>2. CASE DownBinary \/ DownOrdinary
    <2>1. PICK a, n : CopyEffect(a, n)
      BY <1>2, CopyFacts
    <2>2. \A b \in gcdone : b # a /\ b \in OldObj /\ oldData'[b] = oldData[b]
      BY <2>1 DEF CopyEffect, IInv, InvOld
    <2> QED BY <2>1, <2>2 DEF Kept, CopyEffect, Forward, Cursor, IS_BINOBJ
  <1>3. CASE UpField
    <2>1. PICK a, n, sz : \E j \in 0..(sz - 1) : UpFieldEffect(a, n, sz, j)
      BY <1>3, UpFieldFacts
    <2>2. PICK j \in 0..(sz - 1) : UpFieldEffect(a, n, sz, j)
      BY <2>1
    <2>3. /\ a \in OldObj /\ n = Forward(a) /\ ~heap0[a].bin
          /\ W(a) \in Nat /\ sz \in 1..W(a) /\ DOMAIN oldData[a] = 0..W(a)
          /\ oldSize' = [oldSize EXCEPT ![a] = j]
          /\ oldData' = [oldData EXCEPT ![a][j] = n]
      BY <2>2 DEF UpFieldEffect
    <2>4. heap0' = heap0 /\ gcdone' = gcdone
      BY <1>3 DEF UpField
    <2>5. /\ oldSize'[a] = j /\ oldData'[a][j] = n
          /\ \A b \in OldObj : b # a => oldSize'[b] = oldSize[b] /\ oldData'[b] = oldData[b]
      BY <2>3 DEF IInv, InvOld
    <2>6. Forward(a)' = n
      BY <2>3, <2>4, <2>5 DEF Forward, Cursor, IS_BINOBJ
    <2>7. \A b \in gcdone : b \in OldObj
      BY DEF IInv, InvOld
    <2>8. \A b \in gcdone : b # a => Forward(b)' = Forward(b)
      BY <2>4, <2>5, <2>7 DEF Forward, Cursor, IS_BINOBJ
    <2>9. \A b \in gcdone : Forward(b)' = Forward(b)
      <3> TAKE b \in gcdone
      <3>1. CASE b = a
        BY <2>3, <2>6, <3>1 DEF Forward, Cursor, IS_BINOBJ
      <3> QED BY <2>8, <3>1
    <2> QED BY <2>4, <2>9 DEF Kept
  <1>4. CASE StartMove \/ DownLeaf \/ DownStale \/ DownForwarded \/ UpReturn \/ UpClass
             \/ FlushCache \/ Allocate \/ UNCHANGED vars
    BY <1>1, <1>4 DEF StartMove, DownLeaf, DownStale, DownForwarded, Leave, UpReturn, UpClass,
                      FlushCache, Allocate, old, vars
  <1> QED BY <1>2, <1>3, <1>4 DEF Next

\* The word that holds it moves down through the object with each field that
\* is done; what it holds does not change.
THEOREM ForwardingKept == Spec => ForwardingStable
  <1>1. IInv /\ [Next]_vars => [\A a \in gcdone : a \in gcdone' /\ Forward(a)' = Forward(a)]_vars
    BY ForwardsKept DEF Kept
  <1> QED BY <1>1, Invariance, PTL DEF Spec, ForwardingStable

-----------------------------------------------------------------------------
\* The room that has been used is that of the objects that have been moved.
Room ==
  /\ pc \notin {"done", "oom"} =>
       SpaceWords - memoryPointer = SumFunctionOnSet(Extents(heap0), gcdone)
  /\ pc = "done" => memoryPointer >= 0

LEMMA ExtentsOf ==
  ASSUME InvHist
  PROVE  \A a \in OldObj : Extents(heap0)[a] = W(a) + 2 /\ Extents(heap0)[a] \in Nat
  BY HeapFacts DEF Extents, W

LEMMA RoomKept ==
  ASSUME IInv, Room, [Next]_vars
  PROVE  Room'
  <1>1. CASE DownBinary \/ DownOrdinary
    <2>1. PICK a, n : CopyEffect(a, n)
      BY <1>1, CopyFacts
    <2>2. /\ a \in OldObj /\ a \notin gcdone /\ gcdone' = gcdone \cup {a} /\ gcdone \subseteq OldObj
          /\ memoryPointer' = memoryPointer - (W(a) + 2) /\ heap0' = heap0
          /\ memoryPointer \in Int /\ pc = "down" /\ pc' = pc
      BY <2>1 DEF CopyEffect, IInv, InvNew, InvOld
    <2>3. IsFiniteSet(gcdone')
      BY <2>2, AddressAssumption, FS_Subset
    <2>4. \A b \in gcdone' : Extents(heap0)[b] \in Nat
      BY <2>2, ExtentsOf DEF IInv
    <2>5. PICK f : f = Extents(heap0)
      OBVIOUS
    <2>6. gcdone' \ {a} = gcdone /\ a \in gcdone'
      BY <2>2
    <2>7. PICK S : S = gcdone'
      OBVIOUS
    <2>8. SumFunctionOnSet(f, S) = f[a] + SumFunctionOnSet(f, S \ {a})
      BY <2>3, <2>4, <2>5, <2>6, <2>7, SumOver
    <2>9. /\ f[a] = W(a) + 2 /\ f[a] \in Nat
          /\ SumFunctionOnSet(f, gcdone) \in Nat
      <3>1. f[a] = W(a) + 2 /\ f[a] \in Nat
        BY <2>2, <2>5, ExtentsOf DEF IInv
      <3>2. IsFiniteSet(gcdone) /\ \A b \in gcdone : f[b] \in Nat
        BY <2>2, <2>4, <2>5, AddressAssumption, FS_Subset
      <3> QED BY <3>1, <3>2, SumOver
    <2>10. SumFunctionOnSet(f, gcdone') = W(a) + 2 + SumFunctionOnSet(f, gcdone)
      BY <2>6, <2>7, <2>8, <2>9
    <2>11. SpaceWords - memoryPointer = SumFunctionOnSet(f, gcdone)
      BY <2>2, <2>5 DEF Room
    <2>12. Extents(heap0)' = f
      BY <2>2, <2>5 DEF Extents
    <2>13. W(a) \in Nat
      BY <2>2, HeapFacts DEF IInv
    <2>14. SpaceWords - memoryPointer' = SumFunctionOnSet(f, gcdone')
      BY <2>2, <2>9, <2>10, <2>11, <2>13, WordAssumption
    <2> QED BY <2>2, <2>12, <2>14 DEF Room
  <1>2. CASE Allocate
    BY <1>2, WordAssumption DEF Allocate, Room, IInv, InvNew
  <1>3. ASSUME memoryPointer' = memoryPointer, gcdone' = gcdone, heap0' = heap0,
               pc \notin {"done", "oom"} \/ pc' = pc, pc' \notin {"done", "oom"} \/ pc' = pc
        PROVE  Room'
    BY <1>3 DEF Room, Extents
  <1>4. CASE StartMove \/ DownLeaf \/ DownStale \/ DownForwarded \/ UpReturn \/ UpClass
             \/ FlushCache \/ UNCHANGED vars
    BY <1>3, <1>4 DEF StartMove, DownLeaf, DownStale, DownForwarded, Leave, UpReturn, UpClass,
                      FlushCache, old, new, vars
  <1>5. CASE UpField
    <2>1. /\ memoryPointer' = memoryPointer /\ gcdone' = gcdone /\ heap0' = heap0
          /\ pc = "up" /\ pc' = "down"
      BY <1>5 DEF UpField
    <2> QED BY <1>3, <2>1
  <1> QED BY <1>1, <1>2, <1>4, <1>5 DEF Next

\* A copy is never as low as memoryBase: what is copied fitted into the space
\* that it comes from, which is as large.
THEOREM CopiesInSpace == Spec => []CopiesFit
  <1>1. Init => Room
    <2> SUFFICES ASSUME Init PROVE Room
      OBVIOUS
    <2>1. SumFunctionOnSet(Extents(heap0), {}) = 0
      <3>1. PICK f : f = Extents(heap0)
        OBVIOUS
      <3> QED BY <3>1, SumOfNone
    <2> QED BY <2>1, WordAssumption DEF Init, Room, TopWord
  <1>2. IInv /\ Room => CopiesFit
    <2> SUFFICES ASSUME IInv, Room, pc # "oom" PROVE memoryPointer >= 0
      BY DEF CopiesFit
    <2>1. CASE pc = "done"
      BY <2>1 DEF Room
    <2>2. CASE pc # "done"
      <3>1. PICK f : f = Extents(heap0)
        OBVIOUS
      <3>2. gcdone \in SUBSET OldObj /\ memoryPointer \in Int
        BY DEF IInv, InvOld, InvNew
      <3>3. \A a \in OldObj : f[a] \in Nat
        BY <3>1, ExtentsOf DEF IInv
      <3>4. SumFunctionOnSet(f, gcdone) <= SumFunctionOnSet(f, OldObj)
        BY <3>2, <3>3, AddressAssumption, SumOfPart
      <3>5. SumFunctionOnSet(f, OldObj) <= SpaceWords
        BY <3>1, InitAssumption DEF IInv, InvHist, FitsSpace
      <3>6. SpaceWords - memoryPointer = SumFunctionOnSet(f, gcdone)
        BY <2>2, <3>1 DEF Room
      <3>7. SumFunctionOnSet(f, gcdone) \in Nat /\ SumFunctionOnSet(f, OldObj) \in Nat
        <4>1. IsFiniteSet(gcdone) /\ IsFiniteSet(OldObj) /\ \A a \in gcdone : f[a] \in Nat
          BY <3>2, <3>3, AddressAssumption, FS_Subset
        <4> QED BY <3>3, <4>1, SumOver
      <3> QED BY <3>2, <3>4, <3>5, <3>6, <3>7, WordAssumption
    <2> QED BY <2>1, <2>2
  <1>3. IInv /\ Room /\ [Next]_vars => Room'
    BY RoomKept
  <1> QED BY <1>1, <1>2, <1>3, Invariance, PTL DEF Spec

-----------------------------------------------------------------------------
\* Every object of the new space is the copy of one that has been moved, or
\* the one gcollect() was called for.
Origin ==
  /\ \A n \in DOMAIN newData :
       \/ \E a \in gcdone : n = Forward(a)
       \/ \A k \in DOMAIN newData[n] : newData[n][k] = Junk
  /\ pc = "done" \/ \A n \in DOMAIN newData : \E a \in gcdone : n = Forward(a)
  /\ Collected => cache = {}

LEMMA OriginKept ==
  ASSUME IInv, Origin, [Next]_vars
  PROVE  Origin'
  <1>1. Kept
    BY ForwardsKept
  <1>2. ASSUME NEW n, \E a \in gcdone : n = Forward(a)
        PROVE  \E a \in gcdone' : n = Forward(a)'
    <2>1. PICK a \in gcdone : n = Forward(a)
      BY <1>2
    <2>2. a \in gcdone' /\ Forward(a)' = n
      BY <1>1, <2>1 DEF Kept
    <2> QED BY <2>2
  <1>3. ASSUME DOMAIN newData' = DOMAIN newData, pc \notin {"alloc", "done", "oom"},
               pc' \notin {"alloc", "done", "oom"}
        PROVE  Origin'
    BY <1>2, <1>3 DEF Origin, Collected
  <1>4. CASE DownBinary \/ DownOrdinary
    <2>1. PICK a, n : CopyEffect(a, n)
      BY <1>4, CopyFacts
    <2>2. /\ DOMAIN newData' = DOMAIN newData \cup {n}
          /\ a \in gcdone' /\ pc = "down" /\ pc' = "down" /\ a \in OldObj
      <3>1. IInv'
        BY <1>4, DownBinaryInv, DownOrdinaryInv
      <3>2. DOMAIN newData' = DOMAIN newHdr' /\ DOMAIN newData = DOMAIN newHdr
        BY <3>1 DEF IInv, InvNew
      <3> QED BY <2>1, <3>2 DEF CopyEffect
    <2>3. Forward(a)' = n
      <3>1. Cursor(a) \in 0..W(a) /\ DOMAIN oldData[a] = 0..W(a) /\ DOMAIN oldData = OldObj
        <4>1. a \notin gcdone /\ heap0[a].data \in [0..W(a) -> Value]
          BY <2>1, <2>2, HeapFacts DEF CopyEffect, IInv
        <4> QED BY <2>2, <4>1, CursorFacts DEF IInv, InvOld
      <3>2. Cursor(a)' = Cursor(a) /\ oldData'[a][Cursor(a)] = n
        BY <2>1, <2>2, <3>1 DEF CopyEffect, Cursor, IS_BINOBJ
      <3> QED BY <3>2 DEF Forward
    <2>4. \A m \in DOMAIN newData' : \E b \in gcdone' : m = Forward(b)'
      <3> TAKE m \in DOMAIN newData'
      <3>1. CASE m = n
        <4>1. n = Forward(a)'
          BY <2>3
        <4> QED BY <2>2, <3>1, <4>1
      <3>2. CASE m \in DOMAIN newData
        BY <1>2, <2>2, <3>2 DEF Origin
      <3> QED BY <2>2, <3>1, <3>2
    <2> QED BY <2>2, <2>4 DEF Origin, Collected
  <1>5. CASE Allocate
    <2>1. /\ pc = "alloc" /\ cache' = cache /\ cache = {} /\ pc' \in {"done", "oom"}
          /\ \A n \in DOMAIN newData : \E a \in gcdone : n = Forward(a)
      BY <1>5 DEF Allocate, Origin, Collected
    <2>2. CASE newData' = newData
      BY <1>2, <2>1, <2>2 DEF Origin
    <2>3. CASE newData' # newData
      <3>1. pc' = "done"
        BY <1>5, <2>3 DEF Allocate
      <3>2. PICK p : p = memoryPointer'
        OBVIOUS
      <3>3. newData' = [m \in DOMAIN newData \cup {p} |->
                          IF m = p THEN [k \in 0..Request |-> Junk] ELSE newData[m]]
        BY <1>5, <2>3, <3>2 DEF Allocate
      <3>4. \A n \in DOMAIN newData' :
              \/ \E a \in gcdone' : n = Forward(a)'
              \/ \A k \in DOMAIN newData'[n] : newData'[n][k] = Junk
        <4> TAKE n \in DOMAIN newData'
        <4>1. CASE n = p
          BY <3>3, <4>1
        <4>2. CASE n # p
          BY <1>2, <2>1, <3>3, <4>2
        <4> QED BY <4>1, <4>2
      <3> QED BY <2>1, <3>1, <3>4 DEF Origin
    <2> QED BY <2>2, <2>3
  <1>6. CASE FlushCache
    <2>1. newData' = newData /\ pc = "root" /\ cache' = {}
      BY <1>6 DEF FlushCache, new
    <2> QED BY <1>2, <2>1 DEF Origin
  <1>7. CASE UNCHANGED vars
    <2>1. newData' = newData /\ pc' = pc /\ cache' = cache
      BY <1>7 DEF vars, new
    <2> QED BY <1>2, <2>1 DEF Origin, Collected
  <1>8. CASE StartMove \/ DownLeaf \/ DownStale \/ DownForwarded \/ UpReturn
    BY <1>3, <1>8 DEF StartMove, DownLeaf, DownStale, DownForwarded, Leave, UpReturn, new
  <1>9. CASE UpClass
    <2>1. DOMAIN newData' = DOMAIN newData /\ pc = "up" /\ pc' = "up"
      BY <1>9 DEF UpClass
    <2> QED BY <1>3, <2>1
  <1>10. CASE UpField
    <2>1. DOMAIN newData' = DOMAIN newData /\ pc = "up" /\ pc' = "down"
      <3>1. PICK a, n, sz : \E j \in 0..(sz - 1) : UpFieldEffect(a, n, sz, j)
        BY <1>10, UpFieldFacts
      <3>2. DOMAIN newData' = DOMAIN newData
        BY <3>1 DEF UpFieldEffect
      <3> QED BY <1>10, <3>2 DEF UpField
    <2> QED BY <1>3, <2>1
  <1> QED BY <1>4, <1>5, <1>6, <1>7, <1>8, <1>9, <1>10 DEF Next

\* When do_gc() is done nothing names the old space any more: not the roots,
\* not the copies, not the method cache.
THEOREM NothingOld == Spec => []NoOldPointer
  <1>1. Init => Origin
    BY DEF Init, Origin, Collected
  <1>2. IInv /\ Origin /\ [Next]_vars => Origin'
    BY OriginKept
  <1>3. IInv /\ Origin => NoOldPointer
    <2> SUFFICES ASSUME IInv, Origin, Collected PROVE NoOldPointer
      BY DEF NoOldPointer
    <2>1. path = <<>> /\ root = RootCount + 1 /\ OnPath = {} /\ gcdone \subseteq OldObj
      BY DEF IInv, InvReg, InvOld, Collected, OnPath
    <2>2. ASSUME NEW v, Settled(v) PROVE Map(v) \notin OldObj
      <3>1. CASE v \in OldObj
        <4>1. Map(v) \in Int
          BY <2>2, <3>1 DEF Settled, Map, IInv, InvCopy, InvNew
        <4> QED BY <4>1, Distinct
      <3>2. CASE v \notin OldObj
        BY <3>2 DEF Map
      <3> QED BY <3>1, <3>2
    <2>3. ASSUME NEW r \in 1..RootCount PROVE roots[r] \notin OldObj
      <3>1. Settled(roots0[r]) /\ roots[r] = Map(roots0[r])
        BY <2>1, WordAssumption DEF IInv, InvRoots
      <3> QED BY <2>2, <3>1
    <2>4. ASSUME NEW n \in DOMAIN newData, NEW k \in DOMAIN newData[n], ~newHdr[n].bin \/ k = 0
          PROVE  newData[n][k] \notin OldObj
      <3>1. CASE \A j \in DOMAIN newData[n] : newData[n][j] = Junk
        BY <3>1, AddressAssumption
      <3>2. CASE \E a \in gcdone : n = Forward(a)
        <4>1. PICK a \in gcdone : n = Forward(a)
          BY <3>2
        <4>2. /\ newHdr[n] = [size |-> heap0[a].size, bin |-> heap0[a].bin]
              /\ DOMAIN newData[n] = 0..W(a)
              /\ Cursor(a) = 0 /\ newData[n][0] = Map(heap0[a].data[0])
              /\ Settled(heap0[a].data[0])
          BY <2>1, <4>1 DEF IInv, InvCopy
        <4>3. CASE k = 0
          BY <2>2, <4>2, <4>3
        <4>4. CASE k # 0
          <5>1. ~heap0[a].bin /\ k \in 0..W(a) /\ k > Cursor(a)
            <6>1. W(a) \in Nat
              BY <2>1, HeapFacts DEF IInv
            <6> QED BY <2>4, <4>2, <4>4, <6>1
          <5>2. newData[n][k] = Map(heap0[a].data[k]) /\ Settled(heap0[a].data[k])
            BY <4>1, <5>1 DEF IInv, InvCopy
          <5> QED BY <2>2, <5>2
        <4> QED BY <4>3, <4>4
      <3> QED BY <3>1, <3>2 DEF Origin
    <2> QED BY <2>3, <2>4 DEF NoOldPointer, Origin
  <1> QED BY <1>1, <1>2, <1>3, Invariance, PTL DEF Spec
=============================================================================
