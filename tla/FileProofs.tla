----------------------------- MODULE FileProofs -----------------------------
(***************************************************************************)
(* Proofs about the files of the VM: the table of open files (FileTable)   *)
(* and the image file (ImageFile).                                         *)
(*                                                                         *)
(* FileTable: until the image is started again, every File works on the    *)
(* stream it opened itself, whatever the number of Files, the size of the  *)
(* table and the number of streams.  OwnStream alone is not inductive.  A  *)
(* File may lose its stream to another's close unless no two share an      *)
(* entry, and an entry may be given away twice unless it is taken as long  *)
(* as a File refers to it.                                                 *)
(*                                                                         *)
(* ImageFile: whatever the heap and wherever the file is cut, an image     *)
(* that loads is the graph that was written.  The reader is at every       *)
(* moment where the writer was at an earlier one: as many objects, as many *)
(* values to come, the same place in the file.  The invariant holds the    *)
(* log of the writer's steps, one record for each value written, and says  *)
(* that the reader agrees with one of its records.                         *)
(* An image that stops on its way does so for a cause: whatever is still   *)
(* to be written and cannot be comes from an object that was reached.      *)
(***************************************************************************)
EXTENDS FileTable, ImageFile, FiniteSetTheorems, SequenceTheorems, TLAPS

\* The streams are numbered without gaps, so that a new one is new.
Numbered == streams = 1..Cardinality(streams)

\* What a File that refers to an entry finds there, and that it is alone.
Holds(f) ==
  fileID[f] \in Indices =>
    /\ filePointers[fileID[f]] = own[f]
    /\ own[f] \in streams \ closed
Alone(f, g) ==
  (fileID[f] \in Indices /\ fileID[g] \in Indices /\ f # g) =>
    /\ fileID[f] # fileID[g]
    /\ own[f] # own[g]

IInv ==
  /\ TypeOK
  /\ Numbered
  /\ starts = 0 => /\ \A f \in Files : Holds(f)
                   /\ \A f, g \in Files : Alone(f, g)

-----------------------------------------------------------------------------
(***************************************************************************)
(* Streams stay numbered without gaps, and the next one is below the bound *)
(* that guards its opening (fopen() in primitive 100).                     *)
(***************************************************************************)
LEMMA NextStream ==
  ASSUME Numbered, Cardinality(streams) < MaxStreams, streams \subseteq Stream
  PROVE  LET fp == Cardinality(streams) + 1 IN
           /\ fp \in Stream \ streams
           /\ streams \cup {fp} = 1..Cardinality(streams \cup {fp})
<1> USE FileAssumption DEF Stream
<1>1. IsFiniteSet(streams)
  BY FS_Interval, FS_Subset, MaxStreams \in Int
<1>2. Cardinality(streams) \in Nat
  BY <1>1, FS_CardinalityType
<1> DEFINE fp == Cardinality(streams) + 1
<1>3. fp \notin streams
  <2> PICK n : n = Cardinality(streams) OBVIOUS
  <2> QED BY <1>2 DEF Numbered
<1>4. Cardinality(streams \cup {fp}) = fp
  BY <1>1, <1>3, FS_AddElement
<1>5. streams \cup {fp} = 1..fp
  <2> PICK n : n = Cardinality(streams) OBVIOUS
  <2> QED BY <1>2 DEF Numbered
<1> QED BY <1>2, <1>3, <1>4, <1>5

(***************************************************************************)
(* A table without streams and an image without open Files satisfy the     *)
(* invariant (filePointers at the start of the process).                   *)
(***************************************************************************)
LEMMA Initially == Init => IInv
<1> SUFFICES ASSUME Init PROVE IInv
  OBVIOUS
<1>1. TypeOK
  BY FileAssumption DEF Init, TypeOK
<1>2. Numbered
  BY FS_EmptySet DEF Init, Numbered
<1>3. \A f \in Files : fileID[f] \notin Indices
  BY FileAssumption DEF Init, Indices
<1> QED BY <1>1, <1>2, <1>3 DEF IInv, Holds, Alone

(***************************************************************************)
(* Primitive 100 takes an entry that no File refers to, for a stream that  *)
(* no File has opened.                                                     *)
(***************************************************************************)
LEMMA OpenKeeps == ASSUME IInv, NEW f \in Files, Open(f) PROVE IInv'
<1> USE FileAssumption DEF IInv
<1> DEFINE fp == Cardinality(streams) + 1
<1>1. fp \in Stream \ streams /\ streams \cup {fp} = 1..Cardinality(streams \cup {fp})
  BY NextStream DEF Open, TypeOK
<1>2. streams' = streams \cup {fp} /\ UNCHANGED <<closed, position, image, starts>>
  BY DEF Open
<1>3. Numbered'
  BY <1>1, <1>2 DEF Numbered
<1>4. CASE Free = {} /\ running' = FALSE /\ UNCHANGED <<filePointers, fileID, own>>
  <2>1. TypeOK'
    BY <1>1, <1>2, <1>4 DEF TypeOK
  <2> QED BY <1>2, <1>3, <1>4, <2>1 DEF Holds, Alone
<1>5. ASSUME NEW i \in Free,
             filePointers' = [filePointers EXCEPT ![i] = fp],
             fileID' = [fileID EXCEPT ![f] = i],
             own' = [own EXCEPT ![f] = fp],
             UNCHANGED running
      PROVE  IInv'
  <2>1. i \in Indices /\ filePointers[i] = NULL
    BY DEF Free
  <2>2. TypeOK'
    BY <1>1, <1>2, <1>5, <2>1 DEF TypeOK
  <2>3. ASSUME starts' = 0, NEW g \in Files
        PROVE  Holds(g)'
    <3>1. CASE g = f
      BY <1>1, <1>2, <1>5, <2>1, <3>1 DEF TypeOK, Holds
    <3>2. CASE g # f
      BY <1>1, <1>2, <1>5, <2>1, <2>3, <3>2 DEF TypeOK, Holds, Stream
    <3> QED BY <3>1, <3>2
  <2>4. ASSUME starts' = 0, NEW g \in Files, NEW h \in Files
        PROVE  Alone(g, h)'
    <3>1. ASSUME NEW k \in Files, k # f, fileID[k] \in Indices
          PROVE  fileID[k] # i /\ own[k] # fp
      BY <1>1, <1>2, <2>1, <2>4, <3>1 DEF TypeOK, Holds, Stream
    <3> QED BY <1>2, <1>5, <2>4, <3>1 DEF TypeOK, Alone
  <2> QED BY <1>3, <2>2, <2>3, <2>4
<1> QED BY <1>4, <1>5 DEF Open

(***************************************************************************)
(* Primitive 103 releases a stream that the other Files do not work on,    *)
(* and File>>close forgets the index.                                      *)
(***************************************************************************)
LEMMA CloseKeeps == ASSUME IInv, NEW f \in Files, Close(f) PROVE IInv'
<1> USE FileAssumption DEF IInv
<1>1. /\ closed' = IF Found(f) THEN closed \cup {Pointer(f)} ELSE closed
      /\ fileID' = [fileID EXCEPT ![f] = nil]
      /\ UNCHANGED <<filePointers, streams, running, position, image, starts, own>>
  BY DEF Close
<1>2. Found(f) => Pointer(f) \in streams
  BY DEF TypeOK, Found, Pointer
<1>3. TypeOK'
  BY <1>1, <1>2 DEF TypeOK
<1>4. Numbered'
  BY <1>1 DEF Numbered
<1>5. nil \notin Indices
  BY DEF Indices
<1>6. ASSUME starts' = 0, NEW g \in Files PROVE Holds(g)'
  <2>1. CASE g = f
    BY <1>1, <1>5, <2>1 DEF Holds, TypeOK
  <2>2. CASE g # f
    <3> SUFFICES ASSUME fileID[g] \in Indices
                 PROVE  filePointers[fileID[g]] = own[g] /\ own[g] \in streams \ closed'
      BY <1>1, <2>2 DEF Holds, TypeOK
    <3>1. filePointers[fileID[g]] = own[g] /\ own[g] \in streams \ closed
      BY <1>1, <1>6 DEF Holds
    <3>2. Found(f) => Pointer(f) # own[g]
      BY <1>1, <1>6, <2>2 DEF Found, Pointer, Holds, Alone
    <3> QED BY <1>1, <3>1, <3>2
  <2> QED BY <2>1, <2>2
<1>7. ASSUME starts' = 0, NEW g \in Files, NEW h \in Files PROVE Alone(g, h)'
  BY <1>1, <1>5, <1>7 DEF Alone, TypeOK
<1> QED BY <1>3, <1>4, <1>6, <1>7

(***************************************************************************)
(* The steps that leave the table as it is, and the start of a new process *)
(* (after which nothing is claimed of the Files).                          *)
(***************************************************************************)
LEMMA OthersKeep ==
  ASSUME IInv,
         \/ Start
         \/ \E f \in Files : \/ OpenFails(f) \/ WriteImage(f)
                             \/ \E n \in 1..FileSize : Transfer(f, n)
                             \/ \E i \in 0..FileSize : Seek(f, i)
  PROVE  IInv'
<1> USE FileAssumption DEF IInv
<1>1. ASSUME NEW f \in Files, OpenFails(f) PROVE IInv'
  <2>1. /\ fileID' = [fileID EXCEPT ![f] = Object] /\ own' = [own EXCEPT ![f] = NULL]
        /\ UNCHANGED <<filePointers, streams, closed, running, position, image, starts>>
    BY <1>1 DEF OpenFails, table
  <2>2. Object \notin Indices
    BY DEF Indices
  <2>3. TypeOK' /\ Numbered'
    BY <2>1 DEF TypeOK, Numbered
  <2>4. ASSUME starts' = 0, NEW g \in Files PROVE Holds(g)'
    BY <2>1, <2>2, <2>4 DEF Holds, TypeOK
  <2>5. ASSUME starts' = 0, NEW g \in Files, NEW h \in Files PROVE Alone(g, h)'
    BY <2>1, <2>2, <2>5 DEF Alone, TypeOK
  <2> QED BY <2>3, <2>4, <2>5
<1>2. CASE Start
  <2>1. starts' # 0
    BY <1>2 DEF Start, TypeOK
  <2>2. TypeOK'
    BY <1>2 DEF Start, TypeOK
  <2>3. Numbered'
    BY <1>2, FS_EmptySet DEF Start, Numbered
  <2> QED BY <2>1, <2>2, <2>3
<1>3. ASSUME UNCHANGED <<table, fileID, starts, own>>, TypeOK' PROVE IInv'
  BY <1>3 DEF Numbered, Holds, Alone, table
<1>4. ASSUME NEW f \in Files, WriteImage(f) PROVE IInv'
  BY <1>3, <1>4 DEF WriteImage, TypeOK, table
<1>5. ASSUME NEW f \in Files, NEW n \in 1..FileSize, Transfer(f, n) PROVE IInv'
  <2>1. position' \in [Stream -> 0..FileSize]
    <3>1. Pointer(f) \in Stream /\ position[Pointer(f)] + n \in 0..FileSize
      BY <1>5 DEF Transfer, Found, Pointer, TypeOK
    <3> QED BY <1>5, <3>1 DEF Transfer, TypeOK
  <2> QED BY <1>3, <1>5, <2>1 DEF Transfer, TypeOK, table
<1>6. ASSUME NEW f \in Files, NEW i \in 0..FileSize, Seek(f, i) PROVE IInv'
  BY <1>3, <1>6 DEF Seek, TypeOK, table
<1> QED BY <1>1, <1>2, <1>4, <1>5, <1>6

(***************************************************************************)
(* The invariant holds in every state of the open files of the VM          *)
(* (primitives 100 to 108 and the class File).                             *)
(***************************************************************************)
THEOREM FilesInvariance == Spec => []IInv
<1>1. IInv /\ [Next]_vars => IInv'
  <2> SUFFICES ASSUME IInv, [Next]_vars PROVE IInv'
    OBVIOUS
  <2>1. CASE Next
    <3>1. ASSUME NEW f \in Files, Open(f) PROVE IInv'
      BY <3>1, OpenKeeps
    <3>2. ASSUME NEW f \in Files, Close(f) PROVE IInv'
      BY <3>2, CloseKeeps
    <3> QED BY <2>1, <3>1, <3>2, OthersKeep DEF Next
  <2>2. CASE UNCHANGED vars
    BY <2>2 DEF vars, IInv, TypeOK, Numbered, Holds, Alone
  <2> QED BY <2>1, <2>2
<1> QED BY <1>1, Initially, PTL DEF Spec

(***************************************************************************)
(* The table, the Files and an image that was written hold what the        *)
(* primitives take them to hold, starts included (filePointers, fileID).   *)
(***************************************************************************)
THEOREM FilesTypeCorrectness == Spec => []TypeOK
<1>1. IInv => TypeOK
  BY DEF IInv
<1> QED BY <1>1, FilesInvariance, PTL

(***************************************************************************)
(* Until the image is started again, no File reads, writes or seeks a      *)
(* stream that it did not open or that has been released (primitives 101,  *)
(* 102 and 104 to 108).                                                    *)
(***************************************************************************)
THEOREM OwnStreams == Spec => []OwnStreamAtFirst
<1>1. IInv => OwnStreamAtFirst
  BY DEF IInv, OwnStreamAtFirst, OwnStream, Holds, Found, Pointer
<1> QED BY <1>1, FilesInvariance, PTL

-----------------------------------------------------------------------------
(***************************************************************************)
(* Tags of the image file                                                  *)
(***************************************************************************)
\* The ints that are not negative
Int31 == {n \in Nat : n < 128 * 256 * 256 * 256}

\* A number is its last byte and 256 times the rest.
LEMMA LastByte ==
  ASSUME NEW n \in Nat
  PROVE  \E q \in Nat, b \in 0..255 : n = 256 * q + b /\ n \div 256 = q /\ n % 256 = b
OBVIOUS

\* Division as the solver needs it: the quotient is the one with a small rest.
LEMMA Quotient ==
  ASSUME NEW n \in Nat, NEW d \in Nat \ {0}, NEW q \in Nat, NEW r \in Nat,
         r < d, n = d * q + r
  PROVE  n \div d = q
OBVIOUS

\* The four bytes of an int make it up again.
LEMMA FourBytes ==
  ASSUME NEW val \in Int31
  PROVE  val = (val % 256) + ((val \div 256) % 256) * 256
               + ((val \div (256 * 256)) % 256) * (256 * 256)
               + ((val \div (256 * 256 * 256)) % 256) * (256 * 256 * 256)
<1>0. val \in Nat /\ val < 128 * 256 * 256 * 256
  BY DEF Int31
<1> PICK p \in Nat, b1 \in 0..255 :
      val = 256 * p + b1 /\ val \div 256 = p /\ val % 256 = b1
  BY <1>0, LastByte
<1> PICK q \in Nat, b2 \in 0..255 : p = 256 * q + b2 /\ p \div 256 = q /\ p % 256 = b2
  BY LastByte
<1> PICK r \in Nat, b3 \in 0..255 : q = 256 * r + b3 /\ q \div 256 = r /\ q % 256 = b3
  BY LastByte
<1>1. val \div (256 * 256) = q
  BY SMT
<1>2. val \div (256 * 256 * 256) = r
  BY SMT
<1>3. r \in 0..127
  BY SMT, <1>0
<1>4. r % 256 = r
  BY SMT, <1>3
<1> QED BY SMT, <1>1, <1>2, <1>4

\* getIntSize() leaves room for the value.
LEMMA Sizes ==
  ASSUME NEW val \in Int31
  PROVE  /\ getIntSize(val) \in 0..4
         /\ getIntSize(val) = 0 => val < 16
         /\ getIntSize(val) = 1 => val < 256
         /\ getIntSize(val) = 2 => val < 256 * 256
         /\ getIntSize(val) = 3 => val < 256 * 256 * 256
BY SMT DEF getIntSize, LST_SMALL_TAG_LIMIT, Int31

\* Three bits of type and five of size or value come apart again.
LEMMA TagByte ==
  ASSUME NEW type \in 1..6, NEW r \in 0..31
  PROVE  (type * 32 + r) % 32 = r /\ (type * 32 + r) \div 32 = type
OBVIOUS

Bytes == 0..255
Types == LST_OBJ_TYPE..LST_NIL_TYPE

\* What writeTag() puts after a tag are bytes.
LEMMA ByteOf ==
  ASSUME NEW val \in Nat, NEW k \in 1..4
  PROVE  (val \div Weight[k]) % 256 \in Bytes
<1>1. ASSUME NEW d \in Nat \ {0} PROVE (val \div d) % 256 \in Bytes
  <2>1. val \div d \in Int
    OBVIOUS
  <2> QED BY <2>1 DEF Bytes
<1>2. Weight[k] \in Nat \ {0}
  BY DEF Weight
<1> QED BY <1>1, <1>2

\* The bytes of a tag
LEMMA TagShape ==
  ASSUME NEW type \in Types, NEW val \in Int31
  PROVE  LET size == getIntSize(val) IN
           /\ Tag(type, val) \in Seq(Bytes)
           /\ Len(Tag(type, val)) = 1 + size
           /\ Tag(type, val)[1] = type * 32 + (IF size = 0 THEN val ELSE 16 + size)
           /\ \A k \in 1..size : Tag(type, val)[k + 1] = (val \div Weight[k]) % 256
<1> DEFINE size == getIntSize(val)
<1>1. size \in 0..4 /\ (size = 0 => val < 16) /\ val \in Nat
  BY Sizes DEF Int31
<1>2. type \in 1..6
  BY DEF Types, LST_OBJ_TYPE, LST_NIL_TYPE
<1>3. CASE size = 0
  <2>1. Tag(type, val) = <<type * 32 + val>>
    BY <1>3 DEF Tag
  <2>2. type * 32 + val \in Bytes
    BY <1>1, <1>2, <1>3 DEF Bytes
  <2> HIDE DEF size
  <2> QED BY <1>3, <2>1, <2>2 DEF size
<1>4. CASE size # 0
  <2> DEFINE head == type * 32 + 16 + size
             tail == [i \in 1..size |-> (val \div Weight[i]) % 256]
  <2>1. Tag(type, val) = <<head>> \o tail
    BY <1>4 DEF Tag
  <2>2. head \in Bytes
    BY <1>1, <1>2 DEF Bytes
  <2>3. tail \in Seq(Bytes) /\ Len(tail) = size
    <3>1. \A i \in 1..size : tail[i] \in Bytes
      BY <1>1, ByteOf
    <3> HIDE DEF size
    <3> QED BY <1>1, <3>1
  <2>4. <<head>> \in Seq(Bytes) /\ Len(<<head>>) = 1 /\ <<head>>[1] = head
    BY <2>2
  <2> PICK first, rest : first = <<head>> /\ rest = tail
    OBVIOUS
  <2>5. /\ first \o rest \in Seq(Bytes)
        /\ Len(first \o rest) = 1 + size
        /\ (first \o rest)[1] = head
        /\ \A k \in 1..size : (first \o rest)[k + 1] = rest[k]
    <3> HIDE DEF size, head, tail
    <3> QED BY <1>1, <2>3, <2>4, ConcatProperties
  <2>6. \A k \in 1..size : rest[k] = (val \div Weight[k]) % 256
    OBVIOUS
  <2>7. head = type * 32 + (16 + size)
    BY <1>1, <1>2
  <2> HIDE DEF size, head, tail
  <2>8. Tag(type, val) = first \o rest
    BY <2>1
  <2>9. Tag(type, val)[1] = type * 32 + (IF size = 0 THEN val ELSE 16 + size)
    BY <1>4, <2>5, <2>7, <2>8
  <2>10. \A k \in 1..size : Tag(type, val)[k + 1] = (val \div Weight[k]) % 256
    BY <2>5, <2>6, <2>8
  <2> QED BY <2>5, <2>8, <2>9, <2>10 DEF size
<1> QED BY <1>3, <1>4

(***************************************************************************)
(* Bytes that the file holds from a place on, as far as it goes            *)
(***************************************************************************)
Carries(i, bytes) ==
  \A k \in 1..Len(bytes) : i + k <= Len(file) => file[i + k] = bytes[k]

\* The file is bytes, and has some that are looked for.
FileOfBytes == file \in Seq(Bytes)
Within(i, bytes) == i + Len(bytes) <= Len(file)

\* The bytes after a tag are its value.
LEMMA ValueRead ==
  ASSUME NEW type \in Types, NEW val \in Int31, NEW i \in Nat,
         FileOfBytes, Carries(i, Tag(type, val)),
         Within(i, Tag(type, val)), getIntSize(val) # 0
  PROVE  ValueAt(i, getIntSize(val)) = val
<1> PICK size : size = getIntSize(val)
  OBVIOUS
<1>1. size \in 1..4 /\ val \in Nat
  BY Sizes DEF Int31
<1>2. \A k \in 1..size : Byte(i + k) = (val \div Weight[k]) % 256
  <2> SUFFICES ASSUME NEW k \in 1..size PROVE Byte(i + k) = (val \div Weight[k]) % 256
    OBVIOUS
  <2> PICK tag : tag = Tag(type, val)
    OBVIOUS
  <2>1. Len(tag) = 1 + size /\ tag[k + 1] = (val \div Weight[k]) % 256
    BY TagShape
  <2>2. i + (k + 1) <= Len(file) /\ k + 1 \in 1..Len(tag)
    BY <1>1, <2>1 DEF Within, FileOfBytes
  <2>3. file[i + (k + 1)] = tag[k + 1]
    BY <2>2 DEF Carries
  <2>4. (i + k) + 1 = i + (k + 1)
    BY <1>1
  <2> QED BY <2>1, <2>3, <2>4 DEF Byte
<1>3. /\ Weight[1] = 1 /\ Weight[2] = 256 /\ Weight[3] = 256 * 256
      /\ Weight[4] = 256 * 256 * 256
  BY DEF Weight
<1> DEFINE b(k) == (val \div Weight[k]) % 256
<1>4. \A k \in 1..4 : b(k) \in 0..255
  BY <1>1, ByteOf DEF Bytes
<1>5. val = b(1) + b(2) * 256 + b(3) * (256 * 256) + b(4) * (256 * 256 * 256)
  <2>1. val \div 1 = val
    BY <1>1
  <2> QED BY FourBytes, <1>3, <2>1
<1>6. \A k \in 1..size : Byte(i + k) = b(k)
  BY <1>2
<1> HIDE DEF b
<1>0. PICK b1 \in 0..255, b2 \in 0..255, b3 \in 0..255, b4 \in 0..255 :
      b1 = b(1) /\ b2 = b(2) /\ b3 = b(3) /\ b4 = b(4)
  <2>1. b(1) \in 0..255 /\ b(2) \in 0..255 /\ b(3) \in 0..255 /\ b(4) \in 0..255
    BY <1>4
  <2> QED BY <2>1
<1>7. val = b1 + b2 * 256 + b3 * (256 * 256) + b4 * (256 * 256 * 256)
  BY <1>0, <1>5
<1>8. /\ size = 1 => val < 256
      /\ size = 2 => val < 256 * 256
      /\ size = 3 => val < 256 * 256 * 256
  BY Sizes
<1>9. /\ Byte(i + 1) = b1
      /\ size >= 2 => Byte(i + 2) = b2
      /\ size >= 3 => Byte(i + 3) = b3
      /\ size >= 4 => Byte(i + 4) = b4
  BY <1>0, <1>1, <1>6
<1>10. ValueAt(i, size) =
         (IF 1 > size THEN 0 ELSE Byte(i + 1) * 1)
         + (IF 2 > size THEN 0 ELSE Byte(i + 2) * 256)
         + (IF 3 > size THEN 0 ELSE Byte(i + 3) * (256 * 256))
         + (IF 4 > size THEN 0 ELSE Byte(i + 4) * (256 * 256 * 256))
  BY <1>3 DEF ValueAt
<1>15. /\ val < 256 => val = b1
       /\ val < 256 * 256 => val = b1 + b2 * 256
       /\ val < 256 * 256 * 256 => val = b1 + b2 * 256 + b3 * (256 * 256)
  BY <1>1, <1>7
<1>11. CASE size = 1
  <2>1. ValueAt(i, size) = b1
    BY <1>9, <1>10, <1>11
  <2> QED BY <1>15, <1>8, <1>11, <2>1
<1>12. CASE size = 2
  <2>1. ValueAt(i, size) = b1 + b2 * 256
    BY <1>9, <1>10, <1>12
  <2> QED BY <1>15, <1>8, <1>12, <2>1
<1>13. CASE size = 3
  <2>1. ValueAt(i, size) = b1 + b2 * 256 + b3 * (256 * 256)
    BY <1>9, <1>10, <1>13
  <2> QED BY <1>15, <1>8, <1>13, <2>1
<1>14. CASE size = 4
  <2>1. ValueAt(i, size) = b1 + b2 * 256 + b3 * (256 * 256) + b4 * (256 * 256 * 256)
    BY <1>9, <1>10, <1>14
  <2> QED BY <1>1, <1>7, <2>1
<1> QED BY <1>1, <1>11, <1>12, <1>13, <1>14

(***************************************************************************)
(* readTag() finds what writeTag() wrote, or the end of the file.          *)
(***************************************************************************)
THEOREM TagRead ==
  ASSUME NEW type \in Types, NEW val \in Int31, NEW i \in Nat,
         FileOfBytes, Carries(i, Tag(type, val))
  PROVE  TagAt(i) = IF Within(i, Tag(type, val))
                    THEN [type |-> type, val |-> val,
                          next |-> i + Len(Tag(type, val))]
                    ELSE NoTag
<1> PICK size, tag : size = getIntSize(val) /\ tag = Tag(type, val)
  OBVIOUS
<1>1. /\ size \in 0..4 /\ val \in Nat
      /\ (size = 0 => val < 16) /\ type \in 1..6
  BY Sizes DEF Int31, Types, LST_OBJ_TYPE, LST_NIL_TYPE
<1>2. /\ Len(tag) = 1 + size
      /\ tag[1] = type * 32 + (IF size = 0 THEN val ELSE 16 + size)
  BY TagShape
<1>3. Within(i, tag) <=> ~Ends(i + size)
  <2> PICK length \in Nat : length = Len(file)
    BY DEF FileOfBytes
  <2>1. i + (1 + size) <= length <=> ~(i + size >= length)
    BY <1>1
  <2> QED BY <1>2, <2>1 DEF Within, Ends
<1>4. CASE Ends(i)
  <2>1. TagAt(i) = NoTag
    BY <1>4 DEF TagAt
  <2>2. Ends(i + size)
    BY <1>1, <1>4 DEF Ends, FileOfBytes
  <2> QED BY <1>3, <2>1, <2>2
<1>5. CASE ~Ends(i)
  <2> PICK byte : byte = Byte(i)
    OBVIOUS
  <2>1. byte = type * 32 + (IF size = 0 THEN val ELSE 16 + size)
    <3>1. i + 1 <= Len(file) /\ 1 \in 1..Len(tag)
      BY <1>1, <1>2, <1>5 DEF Ends, FileOfBytes
    <3> QED BY <1>2, <3>1 DEF Carries, Byte
  <2> DEFINE Parsed(low, high) ==
               IF low < 16 THEN [type |-> high, val |-> low, next |-> i + 1]
               ELSE IF Ends(i + (low - 16)) THEN NoTag
               ELSE [type |-> high, val |-> ValueAt(i, low - 16),
                     next |-> i + (low - 16) + 1]
  <2>2. TagAt(i) = Parsed(byte % 32, byte \div 32)
    BY <1>5 DEF TagAt
  <2> HIDE DEF Parsed
  <2>3. CASE size = 0
    <3>1. byte % 32 = val /\ byte \div 32 = type /\ val < 16
      <4>1. byte = type * 32 + val /\ val \in 0..31 /\ val < 16
        BY <1>1, <2>1, <2>3
      <4> QED BY <1>1, <4>1, TagByte
    <3>2. TagAt(i) = [type |-> type, val |-> val, next |-> i + 1]
      BY <2>2, <3>1 DEF Parsed
    <3>3. Len(tag) = 1 /\ i + size = i
      BY <1>2, <2>3
    <3> QED BY <1>3, <1>5, <3>2, <3>3
  <2>4. CASE size # 0
    <3>1. PICK low \in 0..31 : low = 16 + size
      BY <1>1
    <3>2. byte % 32 = low /\ byte \div 32 = type
      <4>1. byte = type * 32 + low
        BY <2>1, <2>4, <3>1
      <4> QED BY <1>1, <4>1, TagByte
    <3>6. ~(low < 16) /\ low - 16 = size /\ i + size + 1 = i + (1 + size)
      BY <1>1, <3>1
    <3>5. TagAt(i) = IF Ends(i + size) THEN NoTag
                     ELSE [type |-> type, val |-> ValueAt(i, size),
                           next |-> i + (1 + size)]
      <4>1. TagAt(i) = Parsed(low, type)
        BY <2>2, <3>2
      <4>2. Parsed(low, type) = IF Ends(i + (low - 16)) THEN NoTag
                                ELSE [type |-> type, val |-> ValueAt(i, low - 16),
                                      next |-> i + (low - 16) + 1]
        BY <3>6 DEF Parsed
      <4>3. PICK rest : rest = low - 16
        OBVIOUS
      <4>4. Parsed(low, type) = IF Ends(i + rest) THEN NoTag
                                ELSE [type |-> type, val |-> ValueAt(i, rest),
                                      next |-> i + rest + 1]
        BY <4>2, <4>3
      <4> QED BY <3>6, <4>1, <4>3, <4>4
    <3>3. CASE Ends(i + size)
      BY <1>3, <3>3, <3>5
    <3>4. CASE ~Ends(i + size)
      <4>1. ValueAt(i, size) = val
        BY <1>3, <2>4, <3>4, ValueRead
      <4>2. TagAt(i) = [type |-> type, val |-> val, next |-> i + (1 + size)]
        BY <3>4, <3>5, <4>1
      <4> QED BY <1>2, <1>3, <3>4, <4>2
    <3> QED BY <3>3, <3>4
  <2> QED BY <2>3, <2>4
<1> QED BY <1>4, <1>5

-----------------------------------------------------------------------------
(***************************************************************************)
(* The types of the image file's variables                                 *)
(***************************************************************************)
Values == Objects \cup {NullWord} \cup (IntMin..IntMax)

\* What a place of a copy may hold: 0 while it waits, a byte, or a value read
Copied == Int \cup [object : Nat] \cup [int : Int]
Copies == [binary : BOOLEAN, class : Copied, data : Seq(Copied)]
ReadIsTyped == read \in Seq(Copies)
SlotsAreTyped == slots \in Seq(Nat \X Nat)

ObjectOf(m) == heap[written[m]]

\* A field of an object, number 0 being its class, and of a copy
Fields(m) == IF ObjectOf(m).binary THEN {Class} ELSE 0..Len(ObjectOf(m).data)
Part(m, f) == IF f = Class THEN ObjectOf(m).class ELSE ObjectOf(m).data[f]
Value(objects, m, f) ==
  IF f = Class THEN objects[m].class ELSE objects[m].data[f]

(***************************************************************************)
(* A value goes to the first place that waits, and nowhere else.           *)
(***************************************************************************)
LEMMA StoredAt ==
  ASSUME NEW objects \in Seq(Copies), NEW value \in Copied,
         \/ Head(slots) = Root
         \/ \E m \in 1..Len(objects) : \E f \in 0..Len(objects[m].data) :
              Head(slots) = <<m, f>>
  PROVE  LET new == Stored(objects, value) IN
           /\ new \in Seq(Copies)
           /\ Len(new) = Len(objects)
           /\ \A m \in 1..Len(objects) :
                /\ new[m].binary = objects[m].binary
                /\ Len(new[m].data) = Len(objects[m].data)
                /\ \A f \in 0..Len(objects[m].data) :
                     Value(new, m, f) = IF Head(slots) = <<m, f>> THEN value
                                        ELSE Value(objects, m, f)
<1> DEFINE new == Stored(objects, value)
<1>1. CASE Head(slots) = Root
  <2>1. new = objects
    BY <1>1 DEF Stored
  <2>2. \A m \in 1..Len(objects) : \A f : Head(slots) # <<m, f>>
    BY <1>1 DEF Root, Class
  <2> QED BY <2>1, <2>2
<1>2. ASSUME NEW o \in 1..Len(objects), NEW g \in 0..Len(objects[o].data),
             Head(slots) = <<o, g>>
      PROVE  /\ new \in Seq(Copies)
             /\ Len(new) = Len(objects)
             /\ \A m \in 1..Len(objects) :
                  /\ new[m].binary = objects[m].binary
                  /\ Len(new[m].data) = Len(objects[m].data)
                  /\ \A f \in 0..Len(objects[m].data) :
                       Value(new, m, f) = IF m = o /\ f = g THEN value
                                          ELSE Value(objects, m, f)
  <2>1. objects[o] \in Copies
    BY ElementOfSeq
  <2>2. Head(slots)[1] = o /\ Head(slots)[2] = g /\ Head(slots) # Root
    BY <1>2 DEF Root, Class
  <2>3. PICK copy : copy = IF g = Class
                           THEN [objects[o] EXCEPT !.class = value]
                           ELSE [objects[o] EXCEPT !.data = [@ EXCEPT ![g] = value]]
    OBVIOUS
  <2>4. new = [objects EXCEPT ![o] = copy]
    BY <2>2, <2>3 DEF Stored
  <2>5. /\ copy \in Copies
        /\ copy.binary = objects[o].binary
        /\ Len(copy.data) = Len(objects[o].data)
        /\ copy.class = IF g = Class THEN value ELSE objects[o].class
        /\ \A f \in 1..Len(objects[o].data) :
             copy.data[f] = IF f = g THEN value ELSE objects[o].data[f]
    <3>1. PICK data : data = objects[o].data
      OBVIOUS
    <3>2. data \in Seq(Copied)
      BY <2>1, <3>1 DEF Copies
    <3>3. CASE g = Class
      <4>1. copy = [objects[o] EXCEPT !.class = value]
        BY <2>3, <3>3
      <4>2. copy \in Copies /\ copy.class = value /\ copy.binary = objects[o].binary
            /\ copy.data = objects[o].data
        BY <2>1, <4>1 DEF Copies
      <4> QED BY <3>3, <4>2 DEF Class
    <3>4. CASE g # Class
      <4>1. g \in 1..Len(data)
        BY <3>1, <3>2, <3>4 DEF Class
      <4>2. copy = [objects[o] EXCEPT !.data = [data EXCEPT ![g] = value]]
        BY <2>3, <3>1, <3>4
      <4>3. PICK changed : changed = [data EXCEPT ![g] = value]
        OBVIOUS
      <4>4. /\ changed \in Seq(Copied) /\ Len(changed) = Len(data)
            /\ \A f \in 1..Len(data) : changed[f] = IF f = g THEN value ELSE data[f]
        BY <3>2, <4>1, <4>3, ExceptSeq
      <4>5. copy = [objects[o] EXCEPT !.data = changed]
        BY <4>2, <4>3
      <4>6. copy \in Copies /\ copy.class = objects[o].class
            /\ copy.binary = objects[o].binary /\ copy.data = changed
        BY <2>1, <4>4, <4>5 DEF Copies
      <4> QED BY <3>1, <3>4, <4>4, <4>6
    <3> QED BY <3>3, <3>4
  <2>6. /\ new \in Seq(Copies) /\ Len(new) = Len(objects)
        /\ \A m \in 1..Len(objects) : new[m] = IF m = o THEN copy ELSE objects[m]
    <3> HIDE DEF new
    <3> QED BY <2>4, <2>5, ExceptSeq
  <2>7. ASSUME NEW m \in 1..Len(objects)
        PROVE  /\ new[m].binary = objects[m].binary
               /\ Len(new[m].data) = Len(objects[m].data)
               /\ \A f \in 0..Len(objects[m].data) :
                    Value(new, m, f) = IF m = o /\ f = g THEN value
                                       ELSE Value(objects, m, f)
    <3> HIDE DEF new
    <3>1. objects[m] \in Copies
      BY ElementOfSeq
    <3>2. Len(objects[m].data) \in Nat
      BY <3>1 DEF Copies
    <3>3. CASE m = o
      <4>1. new[m] = copy
        BY <2>6, <3>3
      <4>2. ASSUME NEW f \in 0..Len(objects[m].data)
            PROVE  Value(new, m, f) = IF f = g THEN value ELSE Value(objects, m, f)
        <5>1. CASE f = Class
          BY <2>5, <3>3, <4>1, <5>1 DEF Value
        <5>2. CASE f # Class
          <6>1. f \in 1..Len(objects[m].data)
            BY <3>2, <5>2 DEF Class
          <6>2. copy.data[f] = IF f = g THEN value ELSE objects[o].data[f]
            BY <2>5, <3>3, <6>1
          <6> QED BY <3>3, <4>1, <5>2, <6>2 DEF Value
        <5> QED BY <5>1, <5>2
      <4> QED BY <2>5, <3>3, <4>1, <4>2
    <3>4. CASE m # o
      <4>1. new[m] = objects[m]
        BY <2>6, <3>4
      <4> QED BY <3>4, <4>1 DEF Value
    <3> QED BY <3>3, <3>4
  <2> QED BY <2>6, <2>7
<1>3. ASSUME NEW o \in 1..Len(objects), NEW g \in 0..Len(objects[o].data),
             Head(slots) = <<o, g>>
      PROVE  /\ new \in Seq(Copies)
             /\ Len(new) = Len(objects)
             /\ \A m \in 1..Len(objects) :
                  /\ new[m].binary = objects[m].binary
                  /\ Len(new[m].data) = Len(objects[m].data)
                  /\ \A f \in 0..Len(objects[m].data) :
                       Value(new, m, f) = IF Head(slots) = <<m, f>> THEN value
                                          ELSE Value(objects, m, f)
  <2>1. \A m, f : Head(slots) = <<m, f>> <=> (m = o /\ f = g)
    BY <1>3
  <2> HIDE DEF new
  <2> QED BY <1>2, <1>3, <2>1
<1> HIDE DEF new
<1> QED BY <1>1, <1>3 DEF new

-----------------------------------------------------------------------------
(***************************************************************************)
(* The reader where the writer was                                         *)
(***************************************************************************)
\* What the writer has still to write, how many objects it has written, and
\* where the next byte goes: the writer at one moment
Records == [todo : Seq(Values), count : Nat, at : Nat]

\* A place waits for the value that the writer had for it.
PlaceOf(slot, value) ==
  \/ slot = Root
  \/ \E m \in 1..Len(read) : \E f \in Fields(m) :
       slot = <<m, f>> /\ value = Part(m, f)
PlacesAgree(todos) ==
  \A i \in 1..Len(slots) : PlaceOf(slots[i], todos[i])

\* An object is read but for the fields that wait, and but for bytes beyond the
\* end of the file.
Waiting(m, f) == \E i \in 1..Len(slots) : slots[i] = <<m, f>>
Filled(m, f) == Waiting(m, f) \/ Same(Part(m, f), Value(read, m, f))
BytesRead(m) ==
  \A f \in 1..Len(ObjectOf(m).data) : read[m].data[f] = ObjectOf(m).data[f]
CopySoFar(m) ==
  /\ read[m].binary = ObjectOf(m).binary
  /\ Len(read[m].data) = Len(ObjectOf(m).data)
  /\ \A f \in Fields(m) : Filled(m, f)
  /\ ObjectOf(m).binary => at > Len(file) \/ BytesRead(m)
CopiesSoFar == \A m \in 1..Len(read) : CopySoFar(m)

InStep(s) ==
  /\ at = s.at
  /\ Len(read) = s.count
  /\ Len(slots) = Len(s.todo)
  /\ PlacesAgree(s.todo)
  /\ CopiesSoFar
  /\ at > Len(file) => slots # <<>>

\* What is read is read from what was written, which stays as it is.
Kept == UNCHANGED <<heap, file, written>>

\* The writer numbers the objects that the reader has.
Numbering ==
  /\ Len(read) <= Len(written)
  /\ written \in Seq(Objects)
  /\ heap \in Heaps

\* The objects that the reader has are objects of the heap.
LEMMA ObjectsTyped ==
  ASSUME Numbering, NEW m \in 1..Len(read)
  PROVE  /\ written[m] \in Objects
         /\ ObjectOf(m).binary \in BOOLEAN
         /\ ObjectOf(m).class \in Objects
         /\ Len(ObjectOf(m).data) \in Nat
         /\ Fields(m) \subseteq 0..Len(ObjectOf(m).data)
<1>1. written[m] \in Objects
  <2>1. Len(written) \in Nat /\ Len(read) <= Len(written)
    BY DEF Numbering
  <2>2. m \in 1..Len(written)
    BY <2>1
  <2> QED BY <2>2, ElementOfSeq DEF Numbering
<1> PICK obj : obj = ObjectOf(m)
  OBVIOUS
<1>2. /\ obj.binary \in BOOLEAN /\ obj.class \in Objects
      /\ obj.data \in Seq(IF obj.binary THEN 0..255
                       ELSE Objects \cup {NullWord} \cup Int)
  BY <1>1, ImageAssumption DEF ObjectOf, Numbering
<1>3. Len(obj.data) \in Nat
  BY <1>2
<1>4. Fields(m) \subseteq 0..Len(obj.data)
  BY <1>3 DEF Fields, Class
<1> QED BY <1>1, <1>2, <1>3, <1>4

(***************************************************************************)
(* The place that is filled next is one of a copy, and its value goes to   *)
(* that place only.                                                        *)
(***************************************************************************)
LEMMA HeadFilled ==
  ASSUME Numbering, ReadIsTyped, SlotsAreTyped, slots # <<>>, CopiesSoFar,
         NEW todos, PlacesAgree(todos), NEW value \in Copied
  PROVE  /\ Stored(read, value) \in Seq(Copies)
         /\ Len(Stored(read, value)) = Len(read)
         /\ \A m \in 1..Len(read) :
              /\ Stored(read, value)[m].binary = read[m].binary
              /\ Len(Stored(read, value)[m].data) = Len(read[m].data)
              /\ \A f \in 0..Len(read[m].data) :
                   Value(Stored(read, value), m, f) =
                     IF Head(slots) = <<m, f>> THEN value ELSE Value(read, m, f)
<1>1. Head(slots) = slots[1] /\ 1 \in 1..Len(slots)
  BY HeadTailProperties DEF SlotsAreTyped
<1>2. \/ Head(slots) = Root
      \/ \E m \in 1..Len(read) : \E f \in 0..Len(read[m].data) : Head(slots) = <<m, f>>
  <2>1. PlaceOf(Head(slots), todos[1])
    BY <1>1 DEF PlacesAgree
  <2>2. ASSUME NEW m \in 1..Len(read), NEW f \in Fields(m), Head(slots) = <<m, f>>
        PROVE  f \in 0..Len(read[m].data)
    BY ObjectsTyped DEF CopiesSoFar, CopySoFar
  <2> QED BY <2>1, <2>2 DEF PlaceOf
<1>3. read \in Seq(Copies)
  BY DEF ReadIsTyped
<1> QED BY <1>2, <1>3, StoredAt

(***************************************************************************)
(* What is known of the objects read holds after a value is stored and     *)
(* others take the place of its place in the list.                         *)
(***************************************************************************)
LEMMA CopiesKept ==
  ASSUME Numbering, ReadIsTyped, SlotsAreTyped, slots # <<>>, CopiesSoFar, Kept,
         NEW todos, PlacesAgree(todos), NEW value \in Copied,
         Same(todos[1], value), ~(at > Len(file)),
         \A m \in 1..Len(read) : read'[m] = Stored(read, value)[m],
         \A i \in 2..Len(slots) : \E k \in 1..Len(slots') : slots'[k] = slots[i]
  PROVE  \A m \in 1..Len(read) : CopySoFar(m)'
<1> SUFFICES ASSUME NEW m \in 1..Len(read)
             PROVE  CopySoFar(m)'
  OBVIOUS
<1> PICK new : new = Stored(read, value)
  OBVIOUS
<1>1. /\ read'[m].binary = read[m].binary
      /\ Len(read'[m].data) = Len(read[m].data)
      /\ \A f \in 0..Len(read[m].data) :
           Value(read', m, f) =
             IF Head(slots) = <<m, f>> THEN value ELSE Value(read, m, f)
  <2>1. read'[m] = new[m]
    OBVIOUS
  <2>2. \A f : Value(read', m, f) = Value(new, m, f)
    BY <2>1 DEF Value
  <2>3. /\ new[m].binary = read[m].binary
        /\ Len(new[m].data) = Len(read[m].data)
        /\ \A f \in 0..Len(read[m].data) :
             Value(new, m, f) =
               IF Head(slots) = <<m, f>> THEN value ELSE Value(read, m, f)
    BY HeadFilled
  <2> QED BY <2>1, <2>2, <2>3
<1>2. CopySoFar(m)
  BY DEF CopiesSoFar
<1>3. /\ ObjectOf(m)' = ObjectOf(m) /\ Fields(m)' = Fields(m)
      /\ \A f : Part(m, f)' = Part(m, f)
      /\ \A v, c : Same(v, c)' = Same(v, c)
  BY DEF Kept, ObjectOf, Fields, Part, Same
<1>4. /\ Len(read[m].data) = Len(ObjectOf(m).data)
      /\ Len(ObjectOf(m).data) \in Nat
      /\ Fields(m) \subseteq 0..Len(read[m].data)
  BY <1>2, ObjectsTyped DEF CopySoFar
<1>5. Head(slots) = slots[1] /\ 1 \in 1..Len(slots) /\ Len(slots) \in Nat
  BY HeadTailProperties DEF SlotsAreTyped
<1>6. ASSUME NEW f \in Fields(m)
      PROVE  Filled(m, f)'
  <2>1. CASE Head(slots) = <<m, f>>
    <3>1. PlaceOf(<<m, f>>, todos[1])
      BY <1>5, <2>1 DEF PlacesAgree
    <3>2. <<m, f>> # Root
      BY DEF Root, Class
    <3>3. todos[1] = Part(m, f)
      BY <3>1, <3>2 DEF PlaceOf
    <3>4. Value(read', m, f) = value
      BY <1>1, <1>4, <2>1
    <3>5. Same(Part(m, f), value)'
      BY <1>3, <3>3
    <3> QED BY <1>3, <3>4, <3>5 DEF Filled, Value
  <2>2. CASE Head(slots) # <<m, f>> /\ Waiting(m, f)
    <3>1. PICK i \in 1..Len(slots) : slots[i] = <<m, f>>
      BY <2>2 DEF Waiting
    <3>2. i \in 2..Len(slots)
      BY <1>5, <2>2, <3>1
    <3>3. PICK k \in 1..Len(slots') : slots'[k] = <<m, f>>
      BY <3>1, <3>2
    <3> QED BY <3>3 DEF Filled, Waiting
  <2>3. CASE Head(slots) # <<m, f>> /\ ~Waiting(m, f)
    <3>1. Same(Part(m, f), Value(read, m, f))
      BY <1>2, <2>3 DEF CopySoFar, Filled
    <3>2. Value(read', m, f) = Value(read, m, f)
      BY <1>1, <1>4, <2>3
    <3>3. Same(Part(m, f), Value(read, m, f))'
      BY <1>3, <3>1, <3>2 DEF Value
    <3> QED BY <3>3 DEF Filled
  <2> QED BY <2>1, <2>2, <2>3
<1>7. ASSUME ObjectOf(m).binary
      PROVE  BytesRead(m)'
  <2>1. BytesRead(m)
    BY <1>2, <1>7 DEF CopySoFar
  <2>2. ASSUME NEW f \in 1..Len(ObjectOf(m).data)
        PROVE  read'[m].data[f] = ObjectOf(m).data[f]
    <3>1. f \in 0..Len(read[m].data) /\ f # Class
      BY <1>4 DEF Class
    <3>2. Head(slots) # <<m, f>>
      <4> SUFFICES ASSUME Head(slots) = <<m, f>> PROVE FALSE
        OBVIOUS
      <4>1. PlaceOf(<<m, f>>, todos[1])
        BY <1>5 DEF PlacesAgree
      <4>2. <<m, f>> # Root
        BY DEF Root, Class
      <4>3. f \in Fields(m)
        BY <4>1, <4>2 DEF PlaceOf
      <4> QED BY <1>7, <3>1, <4>3 DEF Fields
    <3>3. Value(read', m, f) = Value(read, m, f)
      BY <1>1, <3>1, <3>2
    <3> QED BY <2>1, <3>1, <3>3 DEF Value, BytesRead
  <2> QED BY <1>3, <2>2 DEF BytesRead
<1>8. read'[m].binary = ObjectOf(m).binary /\ Len(read'[m].data) = Len(ObjectOf(m).data)
  BY <1>1, <1>2 DEF CopySoFar
<1> QED BY <1>3, <1>6, <1>7, <1>8 DEF CopySoFar

\* A place goes on to wait for the value it waited for.
LEMMA PlaceKept ==
  ASSUME Kept, ReadIsTyped, ReadIsTyped', Len(read) <= Len(read'),
         NEW slot, NEW value, PlaceOf(slot, value)
  PROVE  PlaceOf(slot, value)'
<1>1. \A m : Fields(m)' = Fields(m) /\ (\A f : Part(m, f)' = Part(m, f))
  BY DEF Kept, Fields, Part, ObjectOf
<1>2. 1..Len(read) \subseteq 1..Len(read')
  BY DEF ReadIsTyped
<1> QED BY <1>1, <1>2 DEF PlaceOf

\* A list in which others have come before the rest of an earlier one
IsSplice(S, p, q, r) ==
  /\ r \in Seq(S)
  /\ Len(r) = Len(p) + (Len(q) - 1) /\ Len(r) >= Len(p)
  /\ \A i \in 1..Len(p) : r[i] = p[i] /\ i \in 1..Len(r)
  /\ \A i \in 2..Len(q) :
       r[Len(p) + (i - 1)] = q[i] /\ Len(p) + (i - 1) \in 1..Len(r)
  /\ \A i \in 1..Len(r) :
       i \in 1..Len(p) \/ \E k \in 2..Len(q) : i = Len(p) + (k - 1)

\* Where the elements of such a list come from
LEMMA Spliced ==
  ASSUME NEW S, NEW p \in Seq(S), NEW q \in Seq(S), q # <<>>, NEW r, r = p \o Tail(q)
  PROVE  IsSplice(S, p, q, r)
<1>1. PICK t : t = Tail(q)
  OBVIOUS
<1>2. /\ t \in Seq(S) /\ Len(t) = Len(q) - 1 /\ Len(q) \in Nat \ {0} /\ Len(p) \in Nat
      /\ \A i \in 1..Len(t) : t[i] = q[i + 1]
  BY <1>1, HeadTailProperties, EmptySeq, LenProperties
<1>3. /\ r \in Seq(S) /\ Len(r) = Len(p) + Len(t)
      /\ \A i \in 1..(Len(p) + Len(t)) :
           r[i] = IF i <= Len(p) THEN p[i] ELSE t[i - Len(p)]
  BY <1>1, <1>2, ConcatProperties
<1>4. PICK a \in Nat, b \in Nat : a = Len(p) /\ b = Len(q) - 1
  BY <1>2
<1>5. \A i \in 1..a : r[i] = p[i] /\ i \in 1..(a + b)
  BY <1>2, <1>3, <1>4
<1>6. ASSUME NEW i \in 2..(b + 1)
      PROVE  r[a + (i - 1)] = q[i] /\ a + (i - 1) \in 1..(a + b)
  <2>1. a + (i - 1) \in 1..(a + b) /\ ~(a + (i - 1) <= a) /\ a + (i - 1) - a = i - 1
    OBVIOUS
  <2>2. r[a + (i - 1)] = t[i - 1]
    BY <1>2, <1>3, <1>4, <2>1
  <2>3. i - 1 \in 1..b /\ (i - 1) + 1 = i
    OBVIOUS
  <2>4. t[i - 1] = q[(i - 1) + 1]
    BY <1>2, <1>4, <2>3
  <2> QED BY <2>1, <2>2, <2>3, <2>4
<1>7. ASSUME NEW i \in 1..(a + b), i \notin 1..a
      PROVE  \E k \in 2..(b + 1) : i = a + (k - 1)
  <2>1. i - a + 1 \in 2..(b + 1) /\ i = a + (i - a + 1 - 1)
    BY <1>7
  <2> QED BY <2>1
<1>8. Len(q) = b + 1 /\ Len(r) = a + b /\ a + b = a + (b + 1 - 1) /\ a + b >= a
  BY <1>2, <1>3, <1>4
<1> QED BY <1>3, <1>4, <1>5, <1>6, <1>7, <1>8 DEF IsSplice

(***************************************************************************)
(* The first place leaves the list and others come before the rest, in     *)
(* which the reader follows the writer.                                    *)
(***************************************************************************)
LEMMA SlotsRead ==
  ASSUME SlotsAreTyped, slots # <<>>, NEW s \in Records, NEW u \in Records,
         Len(slots) = Len(s.todo), PlacesAgree(s.todo),
         NEW P \in Seq(Nat \X Nat), NEW R \in Seq(Values), Len(P) = Len(R),
         slots' = P \o Tail(slots), u.todo = R \o Tail(s.todo),
         Kept, ReadIsTyped, ReadIsTyped', Len(read) <= Len(read'),
         \A i \in 1..Len(P) : PlaceOf(P[i], R[i])'
  PROVE  /\ SlotsAreTyped'
         /\ Len(slots') = Len(u.todo)
         /\ Len(slots') >= Len(P)
         /\ PlacesAgree(u.todo)'
         /\ \A i \in 2..Len(slots) : \E k \in 1..Len(slots') : slots'[k] = slots[i]
         /\ \A i \in 1..Len(P) : slots'[i] = P[i] /\ i \in 1..Len(slots')
<1>1. PICK st \in Seq(Values) : st = s.todo
  BY DEF Records
<1>2. slots \in Seq(Nat \X Nat) /\ st # <<>> /\ Len(st) = Len(slots)
  BY <1>1, EmptySeq DEF SlotsAreTyped
<1>3. IsSplice(Nat \X Nat, P, slots, slots')
  <2>1. PICK S, old, new : S = Nat \X Nat /\ old = slots /\ new = slots'
    OBVIOUS
  <2>2. old \in Seq(S) /\ old # <<>> /\ new = P \o Tail(old) /\ P \in Seq(S)
    BY <1>2, <2>1
  <2>3. IsSplice(S, P, old, new)
    BY <2>2, Spliced
  <2> QED BY <2>1, <2>3
<1>4. IsSplice(Values, R, st, u.todo)
  BY <1>1, <1>2, Spliced
<1>5. ASSUME NEW i \in 1..Len(slots')
       PROVE  PlaceOf(slots[i], u.todo[i])'
  <2>1. CASE i \in 1..Len(P)
    <3>1. slots'[i] = P[i] /\ u.todo[i] = R[i]
      BY <1>3, <1>4, <2>1 DEF IsSplice
    <3> QED BY <2>1, <3>1 DEF PlaceOf
  <2>2. ASSUME NEW k \in 2..Len(slots), i = Len(P) + (k - 1)
        PROVE  PlaceOf(slots[i], u.todo[i])'
    <3>1. slots'[i] = slots[k] /\ u.todo[i] = st[k]
      BY <1>2, <1>3, <1>4, <2>2 DEF IsSplice
    <3>2. k \in 1..Len(slots)
      BY <1>2
    <3>3. PICK slot, value : slot = slots[k] /\ value = st[k]
      OBVIOUS
    <3>4. PlaceOf(slot, value)
      BY <1>1, <3>2, <3>3 DEF PlacesAgree
    <3>5. PlaceOf(slot, value)'
      BY <3>4, PlaceKept
    <3> QED BY <3>1, <3>3, <3>5 DEF PlaceOf
  <2>3. i \in 1..Len(P) \/ \E k \in 2..Len(slots) : i = Len(P) + (k - 1)
    BY <1>3 DEF IsSplice
  <2> QED BY <2>1, <2>2, <2>3
<1>6. /\ slots' \in Seq(Nat \X Nat)
      /\ Len(slots') = Len(u.todo)
      /\ Len(slots') >= Len(P)
      /\ \A i \in 1..Len(P) : slots'[i] = P[i] /\ i \in 1..Len(slots')
  BY <1>2, <1>3, <1>4 DEF IsSplice
<1>7. ASSUME NEW i \in 2..Len(slots)
      PROVE  \E k \in 1..Len(slots') : slots'[k] = slots[i]
  BY <1>3 DEF IsSplice
<1> QED BY <1>5, <1>6, <1>7 DEF SlotsAreTyped, PlacesAgree

-----------------------------------------------------------------------------
(***************************************************************************)
(* One value read: objectRead() of an integer or of an object that has a   *)
(* number fills one place, that of a new object makes places of its own.   *)
(***************************************************************************)
\* The reader before a step, at the writer's record s
ReaderAt(s) ==
  /\ Numbering
  /\ ReadIsTyped
  /\ SlotsAreTyped
  /\ slots # <<>>
  /\ ~(at > Len(file))
  /\ InStep(s)

\* What the reader and the writer agree on
LEMMA ReaderFacts ==
  ASSUME NEW s \in Records, ReaderAt(s)
  PROVE  /\ s.todo \in Seq(Values) /\ s.todo # <<>> /\ Head(s.todo) = s.todo[1]
         /\ Tail(s.todo) \in Seq(Values)
         /\ Head(s.todo) \in Values
         /\ Len(read) \in Nat /\ Len(read) = s.count
<1>1. s.todo \in Seq(Values) /\ Len(s.todo) = Len(slots) /\ Len(read) = s.count
  BY DEF Records, ReaderAt, InStep
<1>2. Len(slots) \in Nat \ {0}
  BY EmptySeq DEF ReaderAt, SlotsAreTyped
<1>3. s.todo # <<>>
  BY <1>1, <1>2
<1>4. PICK st : st = s.todo
  OBVIOUS
<1>5. Head(st) = st[1] /\ Tail(st) \in Seq(Values) /\ Head(st) \in Values
  BY <1>1, <1>3, <1>4, HeadTailProperties
<1>6. Len(read) \in Nat
  BY DEF ReaderAt, ReadIsTyped
<1> QED BY <1>1, <1>3, <1>4, <1>5, <1>6

\* An integer or an object that has a number fills the place that is first.
LEMMA FieldRead ==
  ASSUME NEW s \in Records, NEW u \in Records, ReaderAt(s), Kept,
         NEW value \in Copied, Same(Head(s.todo), value),
         read' = Stored(read, value), slots' = Tail(slots), at' = u.at,
         ~(at' > Len(file)),
         u.todo = Tail(s.todo), u.count = s.count
  PROVE  ReadIsTyped' /\ SlotsAreTyped' /\ InStep(u)'
<1> USE DEF ReaderAt
<1>1. Same(s.todo[1], value) /\ Tail(s.todo) \in Seq(Values) /\ Len(read) = s.count
  BY ReaderFacts
<1>2. read' \in Seq(Copies) /\ Len(read') = Len(read)
  BY HeadFilled DEF InStep
<1>3. <<>> \in Seq(Nat \X Nat) /\ <<>> \in Seq(Values) /\ Len(<<>>) = 0
  OBVIOUS
<1>4. PICK none : none = <<>>
  OBVIOUS
<1>5. slots' = none \o Tail(slots) /\ u.todo = none \o Tail(s.todo)
  <2>1. Tail(slots) \in Seq(Nat \X Nat)
    BY HeadTailProperties DEF SlotsAreTyped
  <2> QED BY <1>1, <1>4, <2>1, ConcatEmptySeq
<1>6. Len(read) \in Nat /\ Len(read) <= Len(read') /\ ReadIsTyped'
  BY <1>2, ReaderFacts DEF ReadIsTyped
<1>7. /\ SlotsAreTyped'
      /\ Len(slots') = Len(u.todo)
      /\ PlacesAgree(u.todo)'
      /\ \A i \in 2..Len(slots) : \E k \in 1..Len(slots') : slots'[k] = slots[i]
  <2>1. none \in Seq(Nat \X Nat) /\ none \in Seq(Values)
    BY <1>3, <1>4
  <2>2. \A i \in 1..Len(none) : PlaceOf(none[i], none[i])'
    BY <1>3, <1>4
  <2> QED BY <1>5, <1>6, <2>1, <2>2, SlotsRead DEF InStep
<1>8. \A m \in 1..Len(read) : CopySoFar(m)'
  BY <1>1, <1>7, CopiesKept DEF InStep
<1>9. CopiesSoFar'
  BY <1>2, <1>8 DEF CopiesSoFar
<1>10. ~(at > Len(file))'
  BY DEF Kept
<1>11. at' = u.at /\ Len(read') = u.count
  BY <1>1, <1>2
<1> QED BY <1>6, <1>7, <1>9, <1>10, <1>11 DEF InStep

\* What a new object needs: places for its fields, in the order of their values
FitsObject(m, copy, places, rest) ==
  /\ copy.binary = ObjectOf(m).binary
  /\ Len(copy.data) = Len(ObjectOf(m).data)
  /\ Len(places) = Len(rest) /\ places # <<>>
  /\ \A i \in 1..Len(places) :
       \E f \in Fields(m) : places[i] = <<m, f>> /\ rest[i] = Part(m, f)
  /\ \A f \in Fields(m) : \E i \in 1..Len(places) : places[i] = <<m, f>>

\* A new object takes the next number and its fields wait.
LEMMA NewRead ==
  ASSUME NEW s \in Records, NEW u \in Records, ReaderAt(s), Kept,
         NEW m \in 1..Len(written), m = Len(read) + 1, written[m] = Head(s.todo),
         NEW copy \in Copies,
         NEW places \in Seq(Nat \X Nat), NEW rest \in Seq(Values),
         FitsObject(m, copy, places, rest),
         read' = Append(Stored(read, Reference(m)), copy),
         slots' = places \o Tail(slots), at' = u.at,
         u.todo = rest \o Tail(s.todo), u.count = m,
         ObjectOf(m).binary =>
           \/ at' > Len(file)
           \/ \A f \in 1..Len(ObjectOf(m).data) : copy.data[f] = ObjectOf(m).data[f]
  PROVE  ReadIsTyped' /\ SlotsAreTyped' /\ InStep(u)'
<1> USE DEF ReaderAt
<1> DEFINE value == Reference(m)
<1>0. value \in Copied /\ value.object = m /\ "object" \in DOMAIN value
  BY DEF Reference, Copied
<1>1. Same(s.todo[1], value) /\ Len(read) = s.count /\ Len(read) \in Nat
  <2>1. Head(s.todo) \in Objects
    BY ElementOfSeq DEF Numbering
  <2>2. Head(s.todo) \notin Int
    BY <2>1, ImageAssumption
  <2>3. m \in DOMAIN written
    BY DEF Numbering
  <2>4. Same(Head(s.todo), value)
    BY <1>0, <2>2, <2>3 DEF Same, IS_SMALLINT
  <2> QED BY <2>4, ReaderFacts
<1> HIDE DEF value
<1>2. PICK filled : filled = Stored(read, value)
  OBVIOUS
<1>3. filled \in Seq(Copies) /\ Len(filled) = Len(read)
  BY <1>0, <1>2, HeadFilled DEF InStep
<1>4. /\ read' \in Seq(Copies) /\ Len(read') = m /\ read'[m] = copy
      /\ \A k \in 1..Len(read) : read'[k] = filled[k]
  <2>1. read' = Append(filled, copy)
    BY <1>2 DEF value
  <2>2. PICK new : new = read'
    OBVIOUS
  <2>3. /\ new \in Seq(Copies) /\ Len(new) = Len(filled) + 1
        /\ new[Len(filled) + 1] = copy
        /\ \A k \in 1..Len(filled) : new[k] = filled[k]
    BY <1>3, <2>1, <2>2, AppendProperties
  <2> QED BY <1>3, <2>2, <2>3
<1>5. Len(read) <= Len(read') /\ ReadIsTyped'
  BY <1>1, <1>4 DEF ReadIsTyped
<1>6. \A k : Fields(k)' = Fields(k) /\ ObjectOf(k)' = ObjectOf(k)
             /\ (\A f : Part(k, f)' = Part(k, f))
  BY DEF Kept, Fields, Part, ObjectOf
<1>7. /\ SlotsAreTyped'
      /\ Len(slots') = Len(u.todo)
      /\ Len(slots') >= Len(places)
      /\ PlacesAgree(u.todo)'
      /\ \A i \in 2..Len(slots) : \E k \in 1..Len(slots') : slots'[k] = slots[i]
      /\ \A i \in 1..Len(places) : slots'[i] = places[i] /\ i \in 1..Len(slots')
  <2>1. \A i \in 1..Len(places) : PlaceOf(places[i], rest[i])'
    <3> SUFFICES ASSUME NEW i \in 1..Len(places) PROVE PlaceOf(places[i], rest[i])'
      OBVIOUS
    <3>1. PICK f \in Fields(m) : places[i] = <<m, f>> /\ rest[i] = Part(m, f)
      BY DEF FitsObject
    <3>2. m \in 1..Len(read') /\ f \in Fields(m)' /\ rest[i] = Part(m, f)'
      <4>1. m \in 1..Len(read')
        BY <1>4
      <4> QED BY <1>6, <3>1, <4>1
    <3> QED BY <3>1, <3>2 DEF PlaceOf
  <2>2. Len(places) = Len(rest)
    BY DEF FitsObject
  <2> QED BY <1>5, <2>1, <2>2, SlotsRead DEF InStep
<1>8. \A k \in 1..Len(read) : CopySoFar(k)'
  BY <1>0, <1>1, <1>2, <1>4, <1>7, CopiesKept DEF InStep
<1>9. CopySoFar(m)'
  <2>1. \A f \in Fields(m) : Filled(m, f)'
    <3> SUFFICES ASSUME NEW f \in Fields(m) PROVE Filled(m, f)'
      OBVIOUS
    <3>1. PICK i \in 1..Len(places) : places[i] = <<m, f>>
      BY DEF FitsObject
    <3>2. slots'[i] = <<m, f>> /\ i \in 1..Len(slots')
      BY <1>7, <3>1
    <3> QED BY <3>2 DEF Filled, Waiting
  <2>2. ObjectOf(m).binary => (at > Len(file))' \/ BytesRead(m)'
    BY <1>4, <1>6 DEF BytesRead, Kept
  <2>3. read'[m].binary = ObjectOf(m).binary /\ Len(read'[m].data) = Len(ObjectOf(m).data)
    BY <1>4 DEF FitsObject
  <2> QED BY <1>6, <2>1, <2>2, <2>3 DEF CopySoFar
<1>10. CopiesSoFar'
  <2>1. \A k \in 1..Len(read') : k \in 1..Len(read) \/ k = m
    BY <1>1, <1>4
  <2> QED BY <1>8, <1>9, <2>1 DEF CopiesSoFar
<1>11. slots' # <<>>
  <2>1. Len(places) \in Nat \ {0} /\ Len(slots') \in Nat
    BY <1>7, EmptySeq DEF FitsObject, SlotsAreTyped
  <2> QED BY <1>7, <2>1
<1>12. at' = u.at /\ Len(read') = u.count
  BY <1>4
<1> QED BY <1>5, <1>7, <1>10, <1>11, <1>12 DEF InStep

-----------------------------------------------------------------------------
(***************************************************************************)
(* The writer's steps, by what they leave in the file                      *)
(***************************************************************************)
Leaves(s, u, bytes, rest) ==
  /\ bytes \in Seq(Bytes)
  /\ u.todo = rest \o Tail(s.todo)
  /\ u.at = s.at + Len(bytes)
  /\ Carries(s.at, bytes)

\* objectWrite() of a SmallInt
PutInteger(s, u) ==
  LET v == Head(s.todo) IN
    /\ v \in IntMin..IntMax
    /\ v # IntMin
    /\ u.count = s.count
    /\ Leaves(s, u, IF v >= 0 THEN Tag(LST_PINT_TYPE, v) ELSE Tag(LST_NINT_TYPE, -v),
              <<>>)

\* objectWrite() of object number m, which is written already
PutPrevious(s, u, m) ==
  /\ m \in 1..s.count
  /\ written[m] = Head(s.todo)
  /\ u.count = s.count
  /\ Leaves(s, u, IF m = 1 THEN Tag(LST_NIL_TYPE, 0) ELSE Tag(LST_POBJ_TYPE, m - 1),
            <<>>)

\* objectWrite() of the next object
BytesOf(obj) ==
  IF obj.binary THEN Tag(LST_BARRAY_TYPE, Len(obj.data)) \o obj.data
  ELSE Tag(LST_OBJ_TYPE, Len(obj.data))
RestOf(obj) == IF obj.binary THEN <<obj.class>> ELSE <<obj.class>> \o obj.data
PutNew(s, u) ==
  /\ u.count = s.count + 1
  /\ u.count \in 1..Len(written)
  /\ written[u.count] = Head(s.todo)
  /\ Leaves(s, u, BytesOf(heap[Head(s.todo)]), RestOf(heap[Head(s.todo)]))

Put(s, u) ==
  /\ s.todo # <<>>
  /\ PutInteger(s, u) \/ (\E m \in Nat : PutPrevious(s, u, m)) \/ PutNew(s, u)

\* What the writer writes from
Written ==
  /\ heap \in Heaps
  /\ written \in Seq(Objects)
  /\ Len(written) <= MaxObjects + 1

(***************************************************************************)
(* An int that is not negative fits a tag.                                 *)
(***************************************************************************)
LEMMA IntsFit ==
  ASSUME NEW n \in Nat, n <= IntMax
  PROVE  n \in Int31
BY SMT, ImageAssumption DEF IntMax, Int31

\* A negative int but the least has an opposite, which fits a tag.
LEMMA Negation ==
  ASSUME NEW v \in IntMin..IntMax, v # IntMin, ~(v >= 0)
  PROVE  -v \in Int31
<1>1. IntMin \in Int /\ v \in Int /\ IntMax = -(IntMin + 1)
  BY ImageAssumption DEF IntMax
<1>2. -v \in Nat /\ -v <= IntMax
  BY <1>1
<1> QED BY <1>2, IntsFit

\* A heap's objects
LEMMA HeapTyped ==
  ASSUME heap \in Heaps, NEW o \in Objects
  PROVE  /\ heap[o].binary \in BOOLEAN
         /\ heap[o].class \in Objects
         /\ heap[o].data \in Seq(IF heap[o].binary THEN Bytes ELSE Values)
         /\ Len(heap[o].data) \in Nat
         /\ Len(heap[o].data) \in Int31
<1> PICK obj : obj = heap[o]
  OBVIOUS
<1>1. /\ obj.binary \in BOOLEAN /\ obj.class \in Objects
      /\ obj.data \in Seq(IF obj.binary THEN 0..255
                        ELSE Objects \cup {NullWord} \cup Int)
      /\ \A f \in DOMAIN obj.data :
           \/ obj.data[f] \in Objects \cup {NullWord}
           \/ obj.data[f] \in IntMin..IntMax
      /\ Len(obj.data) <= IntMax
  BY ImageAssumption
<1>2. Len(obj.data) \in Nat /\ DOMAIN obj.data = 1..Len(obj.data)
  BY <1>1
<1>3. CASE obj.binary
  BY <1>1, <1>2, <1>3, IntsFit DEF Bytes
<1>4. CASE ~obj.binary
  <2>1. PICK data : data = obj.data
    OBVIOUS
  <2>2. /\ data \in Seq(Objects \cup {NullWord} \cup Int)
        /\ \A f \in 1..Len(data) : data[f] \in Values
    BY <1>1, <1>2, <1>4, <2>1 DEF Values
  <2>3. data \in Seq(Values)
    BY <2>2
  <2> QED BY <1>1, <1>2, <1>4, <2>1, <2>3, IntsFit
<1> QED BY <1>1, <1>3, <1>4

\* The bytes that a tag begins with a list of bytes are in the file as far as it goes.
LEMMA TagOfStep ==
  ASSUME NEW type \in Types, NEW val \in Int31, NEW i \in Nat, NEW after,
         FileOfBytes, Carries(i, Tag(type, val)), after = i + Len(Tag(type, val))
  PROVE  TagAt(i) = IF after <= Len(file)
                    THEN [type |-> type, val |-> val, next |-> after]
                    ELSE NoTag
BY TagRead DEF Within

\* What readTag() finds where the writer put a SmallInt
LEMMA IntegerTag ==
  ASSUME NEW s \in Records, NEW u \in Records, FileOfBytes, PutInteger(s, u)
  PROVE  LET v == Head(s.todo) IN
           /\ v \in Int
           /\ TagAt(s.at) =
                IF u.at <= Len(file)
                THEN IF v >= 0 THEN [type |-> LST_PINT_TYPE, val |-> v, next |-> u.at]
                     ELSE [type |-> LST_NINT_TYPE, val |-> -v, next |-> u.at]
                ELSE NoTag
           /\ u.todo = <<>> \o Tail(s.todo) /\ u.count = s.count
<1> PICK v : v = Head(s.todo)
  OBVIOUS
<1>1. v \in IntMin..IntMax /\ v # IntMin /\ v \in Int /\ s.at \in Nat
  BY ImageAssumption DEF PutInteger, IntMax, Records
<1>2. u.todo = <<>> \o Tail(s.todo) /\ u.count = s.count
  BY DEF PutInteger, Leaves
<1>3. CASE v >= 0
  <2>1. Carries(s.at, Tag(LST_PINT_TYPE, v)) /\ u.at = s.at + Len(Tag(LST_PINT_TYPE, v))
    BY <1>3 DEF PutInteger, Leaves
  <2>2. v \in Int31 /\ LST_PINT_TYPE \in Types
    BY <1>1, <1>3, IntsFit, ImageAssumption
       DEF Types, LST_PINT_TYPE, LST_OBJ_TYPE, LST_NIL_TYPE, IntMax
  <2>3. TagAt(s.at) = IF u.at <= Len(file)
                      THEN [type |-> LST_PINT_TYPE, val |-> v, next |-> u.at] ELSE NoTag
    BY <1>1, <2>1, <2>2, TagOfStep
  <2> QED BY <1>1, <1>2, <1>3, <2>3
<1>4. CASE ~(v >= 0)
  <2>1. Carries(s.at, Tag(LST_NINT_TYPE, -v)) /\ u.at = s.at + Len(Tag(LST_NINT_TYPE, -v))
    BY <1>4 DEF PutInteger, Leaves
  <2>2. -v \in Int31 /\ LST_NINT_TYPE \in Types
    BY <1>1, <1>4, Negation DEF Types, LST_NINT_TYPE, LST_OBJ_TYPE, LST_NIL_TYPE
  <2>3. TagAt(s.at) = IF u.at <= Len(file)
                      THEN [type |-> LST_NINT_TYPE, val |-> -v, next |-> u.at] ELSE NoTag
    BY <1>1, <2>1, <2>2, TagOfStep
  <2> QED BY <1>1, <1>2, <1>4, <2>3
<1> QED BY <1>3, <1>4

\* What readTag() finds where the writer put the number of an object
LEMMA PreviousTag ==
  ASSUME NEW s \in Records, NEW u \in Records, NEW m \in Nat, FileOfBytes, Written,
         s.count <= Len(written), PutPrevious(s, u, m)
  PROVE  /\ m \in 1..s.count
         /\ written[m] = Head(s.todo)
         /\ TagAt(s.at) =
              IF u.at <= Len(file)
              THEN IF m = 1 THEN [type |-> LST_NIL_TYPE, val |-> 0, next |-> u.at]
                   ELSE [type |-> LST_POBJ_TYPE, val |-> m - 1, next |-> u.at]
              ELSE NoTag
         /\ u.todo = <<>> \o Tail(s.todo) /\ u.count = s.count
<1>1. m \in 1..s.count /\ s.at \in Nat /\ s.count \in Nat
  BY DEF PutPrevious, Records
<1>2. /\ u.todo = <<>> \o Tail(s.todo) /\ u.count = s.count
      /\ written[m] = Head(s.todo)
  BY DEF PutPrevious, Leaves
<1>3. CASE m = 1
  <2>1. Carries(s.at, Tag(LST_NIL_TYPE, 0)) /\ u.at = s.at + Len(Tag(LST_NIL_TYPE, 0))
    BY <1>3 DEF PutPrevious, Leaves
  <2>2. 0 \in Int31 /\ LST_NIL_TYPE \in Types
    BY SMT DEF Int31, Types, LST_OBJ_TYPE, LST_NIL_TYPE
  <2>3. TagAt(s.at) = IF u.at <= Len(file)
                      THEN [type |-> LST_NIL_TYPE, val |-> 0, next |-> u.at] ELSE NoTag
    BY <1>1, <2>1, <2>2, TagOfStep
  <2> QED BY <1>1, <1>2, <1>3, <2>3
<1>4. CASE m # 1
  <2>1. /\ Carries(s.at, Tag(LST_POBJ_TYPE, m - 1))
        /\ u.at = s.at + Len(Tag(LST_POBJ_TYPE, m - 1))
    BY <1>4 DEF PutPrevious, Leaves
  <2>2. LST_POBJ_TYPE \in Types
    BY DEF Types, LST_POBJ_TYPE, LST_OBJ_TYPE, LST_NIL_TYPE
  <2>3. m - 1 \in Int31
    <3>1. PICK n \in Nat : n = Len(written)
      BY DEF Written
    <3>2. n <= MaxObjects + 1 /\ s.count <= n
      BY <3>1 DEF Written
    <3>3. MaxObjects \in Nat /\ MaxObjects <= IntMax /\ IntMax \in Int
      BY ImageAssumption DEF IntMax
    <3>4. m - 1 \in Nat /\ m - 1 <= IntMax
      BY <1>1, <3>2, <3>3
    <3> QED BY <3>4, IntsFit
  <2>4. TagAt(s.at) = IF u.at <= Len(file)
                      THEN [type |-> LST_POBJ_TYPE, val |-> m - 1, next |-> u.at]
                      ELSE NoTag
    BY <1>1, <2>1, <2>2, <2>3, TagOfStep
  <2> QED BY <1>1, <1>2, <1>4, <2>4
<1> QED BY <1>3, <1>4

\* What readTag() finds where the writer put a new object with fields
LEMMA ObjectTag ==
  ASSUME NEW s \in Records, NEW u \in Records, FileOfBytes, Written, PutNew(s, u),
         ~heap[Head(s.todo)].binary
  PROVE  LET obj == heap[Head(s.todo)] IN
           /\ TagAt(s.at) =
                IF u.at <= Len(file)
                THEN [type |-> LST_OBJ_TYPE, val |-> Len(obj.data), next |-> u.at]
                ELSE NoTag
           /\ u.todo = (<<obj.class>> \o obj.data) \o Tail(s.todo)
<1> PICK obj : obj = heap[Head(s.todo)]
  OBVIOUS
<1>1. Head(s.todo) \in Objects
  BY ElementOfSeq DEF PutNew, Written
<1>2. Len(obj.data) \in Int31 /\ s.at \in Nat
  BY <1>1, HeapTyped DEF Written, Records
<1>3. /\ Carries(s.at, Tag(LST_OBJ_TYPE, Len(obj.data)))
      /\ u.at = s.at + Len(Tag(LST_OBJ_TYPE, Len(obj.data)))
      /\ u.todo = (<<obj.class>> \o obj.data) \o Tail(s.todo)
  <2>1. ~obj.binary /\ Leaves(s, u, BytesOf(obj), RestOf(obj))
    BY DEF PutNew
  <2> QED BY <2>1 DEF Leaves, BytesOf, RestOf
<1>4. LST_OBJ_TYPE \in Types
  BY DEF Types, LST_OBJ_TYPE, LST_NIL_TYPE
<1> QED BY <1>2, <1>3, <1>4, TagOfStep

(***************************************************************************)
(* What is carried in two parts is carried part by part.                   *)
(***************************************************************************)
LEMMA CarriesParts ==
  ASSUME NEW p \in Seq(Bytes), NEW q \in Seq(Bytes), NEW i \in Nat, FileOfBytes,
         Carries(i, p \o q)
  PROVE  Carries(i, p) /\ Carries(i + Len(p), q)
<1>0. PICK all : all = p \o q
  OBVIOUS
<1>1. /\ Len(all) = Len(p) + Len(q) /\ Len(p) \in Nat /\ Len(q) \in Nat
      /\ \A k \in 1..(Len(p) + Len(q)) :
           all[k] = IF k <= Len(p) THEN p[k] ELSE q[k - Len(p)]
  BY <1>0, ConcatProperties
<1>2. PICK a \in Nat, b \in Nat, n \in Nat :
        a = Len(p) /\ b = Len(q) /\ n = Len(file)
  BY <1>1 DEF FileOfBytes
<1>3. \A k \in 1..(a + b) :
        i + k <= n => file[i + k] = IF k <= a THEN p[k] ELSE q[k - a]
  <2>1. \A k \in 1..(a + b) : i + k <= n => file[i + k] = all[k]
    BY <1>0, <1>1, <1>2 DEF Carries
  <2> QED BY <1>1, <1>2, <2>1
<1>4. ASSUME NEW k \in 1..a, i + k <= n
      PROVE  file[i + k] = p[k]
  <2>1. k \in 1..(a + b) /\ k <= a
    BY <1>2
  <2> QED BY <1>3, <1>4, <2>1
<1>5. ASSUME NEW k \in 1..b, (i + a) + k <= n
      PROVE  file[(i + a) + k] = q[k]
  <2>1. /\ a + k \in 1..(a + b) /\ ~(a + k <= a)
        /\ (a + k) - a = k /\ i + (a + k) = (i + a) + k
    BY <1>2
  <2>2. file[i + (a + k)] = q[(a + k) - a]
    BY <1>3, <1>5, <2>1
  <2> QED BY <2>1, <2>2
<1>6. Carries(i, p)
  BY <1>2, <1>4 DEF Carries
<1>7. Carries(i + Len(p), q)
  BY <1>2, <1>5 DEF Carries
<1> QED BY <1>6, <1>7

\* What readTag() finds where the writer put bytes, and the bytes after it
LEMMA BinaryTag ==
  ASSUME NEW s \in Records, NEW u \in Records, FileOfBytes, Written, PutNew(s, u),
         heap[Head(s.todo)].binary
  PROVE  LET obj == heap[Head(s.todo)]
             next == s.at + Len(Tag(LST_BARRAY_TYPE, Len(obj.data)))
         IN  /\ TagAt(s.at) =
                  IF next <= Len(file)
                  THEN [type |-> LST_BARRAY_TYPE, val |-> Len(obj.data), next |-> next]
                  ELSE NoTag
             /\ next \in Nat
             /\ u.at = next + Len(obj.data)
             /\ u.todo = <<obj.class>> \o Tail(s.todo)
             /\ Carries(next, obj.data)
<1>0. PICK obj, tag, data :
        /\ obj = heap[Head(s.todo)]
        /\ tag = Tag(LST_BARRAY_TYPE, Len(obj.data)) /\ data = obj.data
  OBVIOUS
<1>1. Head(s.todo) \in Objects
  BY ElementOfSeq DEF PutNew, Written
<1>2. data \in Seq(Bytes) /\ Len(data) \in Int31 /\ Len(data) \in Nat /\ s.at \in Nat
  BY <1>0, <1>1, HeapTyped DEF Written, Records
<1>3. /\ Carries(s.at, tag \o data)
      /\ u.at = s.at + Len(tag \o data)
      /\ u.todo = <<obj.class>> \o Tail(s.todo)
  <2>1. obj.binary /\ Leaves(s, u, BytesOf(obj), RestOf(obj))
    BY <1>0 DEF PutNew
  <2> QED BY <1>0, <2>1 DEF Leaves, BytesOf, RestOf
<1>4. LST_BARRAY_TYPE \in Types
  BY DEF Types, LST_BARRAY_TYPE, LST_OBJ_TYPE, LST_NIL_TYPE
<1>5. tag \in Seq(Bytes) /\ Len(tag) \in Nat
  BY <1>0, <1>2, <1>4, TagShape
<1>6. Carries(s.at, tag) /\ Carries(s.at + Len(tag), data)
  BY <1>2, <1>3, <1>5, CarriesParts
<1>7. u.at = (s.at + Len(tag)) + Len(data)
  <2>1. Len(tag \o data) = Len(tag) + Len(data)
    BY <1>2, <1>5, ConcatProperties
  <2> QED BY <1>2, <1>3, <1>5, <2>1
<1>8. PICK next \in Nat : next = s.at + Len(tag)
  BY <1>2, <1>5
<1>9. TagAt(s.at) = IF next <= Len(file)
                    THEN [type |-> LST_BARRAY_TYPE, val |-> Len(data), next |-> next]
                    ELSE NoTag
  BY <1>0, <1>2, <1>4, <1>6, <1>8, TagOfStep
<1> QED BY <1>0, <1>3, <1>6, <1>7, <1>8, <1>9

-----------------------------------------------------------------------------
(***************************************************************************)
(* objectRead() repeats what objectWrite() did.                            *)
(***************************************************************************)
\* The reader where the writer was at s, before its step to u
Follows(s, u) ==
  /\ FileOfBytes /\ Written /\ ReadIsTyped /\ SlotsAreTyped
  /\ InStep(s)
  /\ s.count <= Len(written)
  /\ Put(s, u)

\* The tag that is read next tells which step the writer took, or the file ends.
LEMMA TypeOfTag ==
  ASSUME NEW s \in Records, NEW u \in Records, Follows(s, u)
  PROVE  /\ PutInteger(s, u) =>
              IF u.at <= Len(file) THEN NextTag.type \in {2, 3} ELSE NextTag = NoTag
         /\ \A m \in Nat : PutPrevious(s, u, m) =>
              IF u.at <= Len(file) THEN NextTag.type \in {5, 6} ELSE NextTag = NoTag
         /\ PutNew(s, u) /\ ~heap[Head(s.todo)].binary =>
              IF u.at <= Len(file) THEN NextTag.type = 1 ELSE NextTag = NoTag
         /\ PutNew(s, u) /\ heap[Head(s.todo)].binary =>
              NextTag.type = 4 \/ (NextTag = NoTag /\ u.at > Len(file))
<1> USE DEF Follows
<1>1. NextTag = TagAt(s.at)
  BY DEF NextTag, InStep
<1>2. ASSUME PutInteger(s, u)
      PROVE  IF u.at <= Len(file) THEN NextTag.type \in {2, 3} ELSE NextTag = NoTag
  <2>0. PICK v : v = Head(s.todo)
    OBVIOUS
  <2>1. TagAt(s.at) =
          IF u.at <= Len(file)
          THEN IF v >= 0 THEN [type |-> LST_PINT_TYPE, val |-> v, next |-> u.at]
               ELSE [type |-> LST_NINT_TYPE, val |-> -v, next |-> u.at]
          ELSE NoTag
    BY <1>2, <2>0, IntegerTag
  <2>2. CASE u.at <= Len(file)
    BY <1>1, <2>1, <2>2 DEF LST_PINT_TYPE, LST_NINT_TYPE
  <2> QED BY <1>1, <2>1, <2>2
<1>3. ASSUME NEW m \in Nat, PutPrevious(s, u, m)
      PROVE  IF u.at <= Len(file) THEN NextTag.type \in {5, 6} ELSE NextTag = NoTag
  <2>1. TagAt(s.at) =
          IF u.at <= Len(file)
          THEN IF m = 1 THEN [type |-> LST_NIL_TYPE, val |-> 0, next |-> u.at]
               ELSE [type |-> LST_POBJ_TYPE, val |-> m - 1, next |-> u.at]
          ELSE NoTag
    BY <1>3, PreviousTag
  <2>2. CASE u.at <= Len(file)
    BY <1>1, <2>1, <2>2 DEF LST_POBJ_TYPE, LST_NIL_TYPE
  <2> QED BY <1>1, <2>1, <2>2
<1>4. ASSUME PutNew(s, u), ~heap[Head(s.todo)].binary
      PROVE  IF u.at <= Len(file) THEN NextTag.type = 1 ELSE NextTag = NoTag
  <2>0. PICK size : size = Len(heap[Head(s.todo)].data)
    OBVIOUS
  <2>1. TagAt(s.at) = IF u.at <= Len(file)
                      THEN [type |-> LST_OBJ_TYPE, val |-> size, next |-> u.at]
                      ELSE NoTag
    BY <1>4, <2>0, ObjectTag
  <2>2. CASE u.at <= Len(file)
    BY <1>1, <2>1, <2>2 DEF LST_OBJ_TYPE
  <2> QED BY <1>1, <2>1, <2>2
<1>5. ASSUME PutNew(s, u), heap[Head(s.todo)].binary
      PROVE  NextTag.type = 4 \/ (NextTag = NoTag /\ u.at > Len(file))
  <2>0. PICK obj, next :
          /\ obj = heap[Head(s.todo)]
          /\ next = s.at + Len(Tag(LST_BARRAY_TYPE, Len(obj.data)))
    OBVIOUS
  <2>1. /\ TagAt(s.at) = IF next <= Len(file)
             THEN [type |-> LST_BARRAY_TYPE, val |-> Len(obj.data), next |-> next]
             ELSE NoTag
        /\ next \in Nat /\ u.at = next + Len(obj.data)
    BY <1>5, <2>0, BinaryTag
  <2>2. Head(s.todo) \in Objects
    BY <1>5, ElementOfSeq DEF PutNew, Written
  <2>3. Len(obj.data) \in Nat
    BY <2>0, <2>2, HeapTyped DEF Written
  <2>4. CASE next <= Len(file)
    BY <1>1, <2>1, <2>4 DEF LST_BARRAY_TYPE
  <2>5. CASE ~(next <= Len(file))
    <3>0. Len(file) \in Nat
      BY DEF FileOfBytes
    <3>1. u.at > Len(file)
      BY <2>1, <2>3, <2>5, <3>0
    <3> QED BY <1>1, <2>1, <2>5, <3>1
  <2> QED BY <2>4, <2>5
<1> QED BY <1>2, <1>3, <1>4, <1>5

\* So objectRead() takes the branch that objectWrite() took.
LEMMA TagTells ==
  ASSUME NEW s \in Records, NEW u \in Records, Follows(s, u)
  PROVE  /\ NextTag.type \in {2, 3} => PutInteger(s, u) /\ u.at <= Len(file)
         /\ NextTag.type \in {5, 6} =>
              (\E m \in Nat : PutPrevious(s, u, m)) /\ u.at <= Len(file)
         /\ NextTag.type = 1 =>
              PutNew(s, u) /\ ~heap[Head(s.todo)].binary /\ u.at <= Len(file)
         /\ NextTag.type = 4 => PutNew(s, u) /\ heap[Head(s.todo)].binary
         /\ NextTag.type \notin 1..6 => u.at > Len(file)
<1>1. NoTag.type = -1
  BY DEF NoTag, EOF
<1>2. PutInteger(s, u) \/ (\E m \in Nat : PutPrevious(s, u, m)) \/ PutNew(s, u)
  BY DEF Follows, Put
<1>3. u.at \in Nat /\ Len(file) \in Nat
  BY DEF Follows, Records, FileOfBytes
<1>4. CASE PutInteger(s, u)
  <2>1. IF u.at <= Len(file) THEN NextTag.type \in {2, 3} ELSE NextTag = NoTag
    BY <1>4, TypeOfTag
  <2> QED BY <1>1, <1>3, <1>4, <2>1
<1>5. ASSUME NEW m \in Nat, PutPrevious(s, u, m)
      PROVE  \/ NextTag.type \in {5, 6} /\ u.at <= Len(file)
             \/ NextTag.type = -1 /\ u.at > Len(file)
  <2>1. IF u.at <= Len(file) THEN NextTag.type \in {5, 6} ELSE NextTag = NoTag
    BY <1>5, TypeOfTag
  <2>2. CASE u.at <= Len(file)
    BY <2>1, <2>2
  <2>3. CASE ~(u.at <= Len(file))
    BY <1>1, <1>3, <2>1, <2>3
  <2> QED BY <2>2, <2>3
<1>6. CASE PutNew(s, u) /\ ~heap[Head(s.todo)].binary
  <2>1. IF u.at <= Len(file) THEN NextTag.type = 1 ELSE NextTag = NoTag
    BY <1>6, TypeOfTag
  <2> QED BY <1>1, <1>3, <1>6, <2>1
<1>7. CASE PutNew(s, u) /\ heap[Head(s.todo)].binary
  <2>1. NextTag.type = 4 \/ (NextTag = NoTag /\ u.at > Len(file))
    BY <1>7, TypeOfTag
  <2> QED BY <1>1, <1>7, <2>1
<1> QED BY <1>2, <1>4, <1>5, <1>6, <1>7

\* A tag that is read is read within the file.
LEMMA NotEnded ==
  ASSUME NEW s \in Records, NEW u \in Records, Follows(s, u), slots # <<>>,
         NextTag.type \in 1..6
  PROVE  ReaderAt(s)
<1>1. at \in Nat /\ Len(file) \in Nat
  BY DEF Follows, InStep, Records, FileOfBytes
<1>2. ~Ends(at)
  BY DEF NextTag, TagAt, NoTag, EOF
<1>3. ~(at > Len(file))
  BY <1>1, <1>2 DEF Ends
<1>4. Numbering
  BY DEF Follows, InStep, Numbering, Written
<1> QED BY <1>3, <1>4 DEF ReaderAt, Follows

\* Reading a SmallInt keeps in step with the writer.
LEMMA IntegerRead ==
  ASSUME NEW s \in Records, NEW u \in Records, Follows(s, u), ReadInteger
  PROVE  ReadIsTyped' /\ SlotsAreTyped' /\ InStep(u)'
<1>1. NextTag.type \in {2, 3} /\ slots # <<>>
  BY DEF ReadInteger, Reading, LST_PINT_TYPE, LST_NINT_TYPE
<1>2. PutInteger(s, u) /\ u.at <= Len(file) /\ ReaderAt(s)
  BY <1>1, TagTells, NotEnded
<1>0. PICK v : v = Head(s.todo)
  OBVIOUS
<1>3. /\ v \in Int
      /\ NextTag = IF v >= 0 THEN [type |-> LST_PINT_TYPE, val |-> v, next |-> u.at]
                   ELSE [type |-> LST_NINT_TYPE, val |-> -v, next |-> u.at]
      /\ u.todo = <<>> \o Tail(s.todo) /\ u.count = s.count
  BY <1>0, <1>2, IntegerTag DEF Follows, NextTag, InStep
<1>4. (IF NextTag.type = LST_NINT_TYPE THEN -NextTag.val ELSE NextTag.val) = v
      /\ NextTag.next = u.at
  BY <1>3 DEF LST_NINT_TYPE, LST_PINT_TYPE
<1>5. read' = Stored(read, Integer(v)) /\ slots' = Tail(slots) /\ at' = u.at /\ Kept
  BY <1>4 DEF ReadInteger, Kept
<1>6. Integer(v) \in Copied /\ Same(v, Integer(v))
  BY <1>3 DEF Integer, Copied, Same, IS_SMALLINT
<1>7. u.todo = Tail(s.todo)
  <2>1. Tail(s.todo) \in Seq(Values)
    BY <1>2, ReaderFacts
  <2> QED BY <1>3, <2>1, ConcatEmptySeq
<1>8. ~(at' > Len(file))
  BY <1>2, <1>5 DEF Follows, FileOfBytes, Records
<1> QED BY <1>0, <1>2, <1>3, <1>5, <1>6, <1>7, <1>8, FieldRead

\* So does reading the number of an object, which is never too large.
LEMMA PreviousRead ==
  ASSUME NEW s \in Records, NEW u \in Records, Follows(s, u), ReadPrevious
  PROVE  ReadIsTyped' /\ SlotsAreTyped' /\ InStep(u)' /\ phase' = phase
<1>1. NextTag.type \in {5, 6} /\ slots # <<>>
  BY DEF ReadPrevious, Reading, LST_POBJ_TYPE, LST_NIL_TYPE
<1>2. (\E m \in Nat : PutPrevious(s, u, m)) /\ u.at <= Len(file) /\ ReaderAt(s)
  BY <1>1, TagTells, NotEnded
<1>0. PICK m \in Nat : PutPrevious(s, u, m)
  BY <1>2
<1>3. /\ m \in 1..s.count
      /\ written[m] = Head(s.todo)
      /\ NextTag = IF m = 1 THEN [type |-> LST_NIL_TYPE, val |-> 0, next |-> u.at]
                   ELSE [type |-> LST_POBJ_TYPE, val |-> m - 1, next |-> u.at]
      /\ u.todo = <<>> \o Tail(s.todo) /\ u.count = s.count
  BY <1>0, <1>2, PreviousTag DEF Follows, NextTag, InStep
<1>4. /\ (IF NextTag.type = LST_NIL_TYPE THEN 1 ELSE NextTag.val + 1) = m
      /\ NextTag.next = u.at
      /\ ~(NextTag.type = LST_POBJ_TYPE /\ NextTag.val > Len(read))
  <2>1. Len(read) = s.count /\ Len(read) \in Nat
    BY <1>2, ReaderFacts
  <2>2. (m - 1) + 1 = m /\ ~(m - 1 > Len(read))
    BY <1>3, <2>1
  <2>3. CASE m = 1
    BY <1>3, <2>3 DEF LST_NIL_TYPE, LST_POBJ_TYPE
  <2>4. CASE m # 1
    BY <1>3, <2>2, <2>4 DEF LST_NIL_TYPE, LST_POBJ_TYPE
  <2> QED BY <2>3, <2>4
<1>5. /\ read' = Stored(read, Reference(m)) /\ slots' = Tail(slots) /\ at' = u.at
      /\ Kept /\ phase' = phase
  BY <1>4 DEF ReadPrevious, Kept
<1>6. Reference(m) \in Copied /\ Same(Head(s.todo), Reference(m))
  <2>1. m \in DOMAIN written /\ written[m] \in Objects
    <3>1. Len(written) \in Nat /\ s.count \in Nat /\ s.count <= Len(written)
      BY DEF Follows, Written, Records
    <3>2. m \in 1..Len(written)
      BY <1>3, <3>1
    <3> QED BY <3>2, ElementOfSeq DEF Follows, Written
  <2>2. Head(s.todo) \notin Int
    BY <1>3, <2>1, ImageAssumption
  <2>3. /\ "object" \in DOMAIN Reference(m) /\ Reference(m).object = m
        /\ Reference(m) \in Copied
    BY DEF Reference, Copied
  <2> QED BY <1>3, <2>1, <2>2, <2>3 DEF Same, IS_SMALLINT
<1>7. u.todo = Tail(s.todo)
  <2>1. Tail(s.todo) \in Seq(Values)
    BY <1>2, ReaderFacts
  <2> QED BY <1>3, <2>1, ConcatEmptySeq
<1>8. ~(at' > Len(file))
  BY <1>2, <1>5 DEF Follows, FileOfBytes, Records
<1> QED BY <1>2, <1>3, <1>5, <1>6, <1>7, <1>8, FieldRead

\* The object that the writer takes next is the one that the reader makes next.
LEMMA NewObject ==
  ASSUME NEW s \in Records, NEW u \in Records, Follows(s, u), ReaderAt(s), PutNew(s, u)
  PROVE  /\ u.count = Len(read) + 1 /\ NewNumber = u.count
         /\ u.count \in 1..Len(written)
         /\ written[u.count] = Head(s.todo)
         /\ ObjectOf(u.count) = heap[Head(s.todo)]
         /\ Head(s.todo) \in Objects
<1>1. Len(read) = s.count /\ Len(read) \in Nat
  BY ReaderFacts
<1>2. /\ u.count = s.count + 1 /\ u.count \in 1..Len(written)
      /\ written[u.count] = Head(s.todo)
  BY DEF PutNew
<1>3. Head(s.todo) \in Objects
  BY <1>2, ElementOfSeq DEF Follows, Written
<1> QED BY <1>1, <1>2, <1>3 DEF NewNumber, ObjectOf

\* The bytes that ReadBinary takes are those of the object, as far as the file goes.
LEMMA BytesTaken ==
  ASSUME FileOfBytes, NEW next \in Nat, NEW data \in Seq(Bytes), Carries(next, data),
         NEW bytes,
         bytes = [i \in 1..Len(data) |-> IF Ends(next + i - 1) THEN 255
                                         ELSE Byte(next + i - 1)]
  PROVE  /\ bytes \in Seq(Copied) /\ Len(bytes) = Len(data)
         /\ \/ next + Len(data) > Len(file)
            \/ \A f \in 1..Len(data) : bytes[f] = data[f]
<1>0. PICK n \in Nat, b \in Nat : n = Len(file) /\ b = Len(data)
  BY DEF FileOfBytes
<1>1. ASSUME NEW i \in 1..b, ~Ends(next + i - 1)
      PROVE  Byte(next + i - 1) = file[next + i] /\ next + i \in 1..n
             /\ file[next + i] \in Bytes
  <2>1. ~(next + i - 1 >= n) /\ (next + i - 1) + 1 = next + i
    BY <1>0, <1>1 DEF Ends
  <2>2. next + i \in 1..n
    BY <2>1
  <2>3. file[next + i] \in Bytes
    BY <1>0, <2>2, ElementOfSeq DEF FileOfBytes
  <2> QED BY <2>1, <2>2, <2>3 DEF Byte
<1>2. bytes = [i \in 1..b |-> IF Ends(next + i - 1) THEN 255 ELSE Byte(next + i - 1)]
  BY <1>0
<1>3. ASSUME NEW i \in 1..b PROVE bytes[i] \in Copied
  <2>1. bytes[i] = IF Ends(next + i - 1) THEN 255 ELSE Byte(next + i - 1)
    BY <1>2
  <2>2. bytes[i] \in Int
    <3>1. CASE Ends(next + i - 1)
      BY <2>1, <3>1
    <3>2. CASE ~Ends(next + i - 1)
      <4>1. bytes[i] \in Bytes
        BY <1>1, <2>1, <3>2
      <4>2. \A c \in Bytes : c \in Int
        BY DEF Bytes
      <4> QED BY <4>1, <4>2, Zenon
    <3> QED BY <3>1, <3>2
  <2> QED BY <2>2 DEF Copied
<1>4. DOMAIN bytes = 1..b
  BY <1>2
<1>5. bytes \in Seq(Copied) /\ Len(bytes) = b
  <2>1. bytes \in [1..b -> Copied]
    BY <1>2, <1>3, <1>4
  <2> QED BY <1>0, <1>4, <2>1
<1>6. ASSUME ~(next + b > n), NEW f \in 1..b
      PROVE  bytes[f] = data[f]
  <2>1. ~Ends(next + f - 1) /\ next + f <= n
    BY <1>0, <1>6 DEF Ends
  <2>2. bytes[f] = file[next + f]
    BY <1>1, <1>2, <2>1
  <2>3. file[next + f] = data[f]
    BY <1>0, <2>1 DEF Carries
  <2> QED BY <2>2, <2>3
<1> QED BY <1>0, <1>5, <1>6

\* So does reading bytes, also bytes beyond the end of the file.
LEMMA BinaryRead ==
  ASSUME NEW s \in Records, NEW u \in Records, Follows(s, u), ReadBinary
  PROVE  ReadIsTyped' /\ SlotsAreTyped' /\ InStep(u)'
<1>1. NextTag.type = 4 /\ slots # <<>>
  BY DEF ReadBinary, Reading, LST_BARRAY_TYPE
<1>2. PutNew(s, u) /\ heap[Head(s.todo)].binary /\ ReaderAt(s)
  BY <1>1, TagTells, NotEnded
<1>0. PICK obj, data, next, m :
        /\ obj = heap[Head(s.todo)] /\ data = obj.data /\ m = u.count
        /\ next = s.at + Len(Tag(LST_BARRAY_TYPE, Len(obj.data)))
  OBVIOUS
<1>3. /\ m = Len(read) + 1 /\ NewNumber = m
      /\ m \in 1..Len(written)
      /\ written[m] = Head(s.todo)
      /\ ObjectOf(m) = obj
      /\ Head(s.todo) \in Objects
  BY <1>0, <1>2, NewObject
<1>4. /\ NextTag = IF next <= Len(file)
             THEN [type |-> LST_BARRAY_TYPE, val |-> Len(data), next |-> next]
             ELSE NoTag
      /\ next \in Nat
      /\ u.at = next + Len(data)
      /\ u.todo = <<obj.class>> \o Tail(s.todo)
      /\ Carries(next, data)
  BY <1>0, <1>2, BinaryTag DEF Follows, NextTag, InStep
<1>5. NextTag.next = next /\ NextTag.val = Len(data)
  <2>1. NoTag.type = -1
    BY DEF NoTag, EOF
  <2>2. next <= Len(file)
    BY <1>1, <1>4, <2>1
  <2> QED BY <1>4, <2>2
<1>6. obj.binary /\ obj.class \in Objects /\ data \in Seq(Bytes) /\ Len(data) \in Nat
  BY <1>0, <1>2, <1>3, HeapTyped DEF Follows, Written
<1>7. PICK bytes :
        bytes = [i \in 1..Len(data) |-> IF Ends(next + i - 1) THEN 255
                                        ELSE Byte(next + i - 1)]
  OBVIOUS
<1>8. /\ bytes \in Seq(Copied) /\ Len(bytes) = Len(data)
      /\ \/ next + Len(data) > Len(file)
         \/ \A f \in 1..Len(data) : bytes[f] = data[f]
  <2>1. FileOfBytes
    BY DEF Follows
  <2> QED BY <1>4, <1>6, <1>7, <2>1, BytesTaken
<1>9. PICK copy, places, rest :
        /\ copy = [binary |-> TRUE, class |-> 0, data |-> bytes]
        /\ places = <<<<m, Class>>>> /\ rest = <<obj.class>>
  OBVIOUS
<1>10. copy \in Copies
  BY <1>8, <1>9 DEF Copies, Copied
<1>11. /\ places \in Seq(Nat \X Nat) /\ rest \in Seq(Values)
       /\ Len(places) = 1 /\ Len(rest) = 1
       /\ places[1] = <<m, Class>> /\ rest[1] = obj.class
  BY <1>3, <1>6, <1>9 DEF Class, Values
<1>12. FitsObject(m, copy, places, rest)
  <2>1. Fields(m) = {Class} /\ Part(m, Class) = obj.class
    BY <1>3, <1>6 DEF Fields, Part
  <2>2. copy.binary = ObjectOf(m).binary /\ Len(copy.data) = Len(ObjectOf(m).data)
    BY <1>0, <1>2, <1>3, <1>8, <1>9
  <2>3. places # <<>>
    BY <1>9
  <2> QED BY <1>11, <2>1, <2>2, <2>3 DEF FitsObject
<1>13. /\ read' = Append(Stored(read, Reference(m)), copy)
       /\ slots' = places \o Tail(slots) /\ at' = u.at /\ Kept
  <2>1. at' = next + Len(data) /\ Kept
    BY <1>5 DEF ReadBinary, Kept
  <2>2. slots' = places \o Tail(slots)
    BY <1>3, <1>9 DEF ReadBinary
  <2>3. read' = Append(Stored(read, Reference(m)), copy)
    <3>1. read' = Append(Stored(read, Reference(NewNumber)),
                         [binary |-> TRUE, class |-> 0,
                          data |-> [i \in 1..NextTag.val |->
                                      IF Ends(NextTag.next + i - 1) THEN 255
                                      ELSE Byte(NextTag.next + i - 1)]])
      BY DEF ReadBinary
    <3> QED BY <1>3, <1>5, <1>7, <1>9, <3>1
  <2> QED BY <1>4, <2>1, <2>2, <2>3
<1>14. ObjectOf(m).binary =>
         \/ at' > Len(file)
         \/ \A f \in 1..Len(ObjectOf(m).data) : copy.data[f] = ObjectOf(m).data[f]
  BY <1>0, <1>3, <1>4, <1>8, <1>9, <1>13
<1>15. u.todo = rest \o Tail(s.todo) /\ u.count = m
  BY <1>0, <1>4, <1>9
<1> QED BY <1>2, <1>3, <1>10, <1>11, <1>12, <1>13, <1>14, <1>15, NewRead

\* So does reading an object with fields.
LEMMA PlainRead ==
  ASSUME NEW s \in Records, NEW u \in Records, Follows(s, u), ReadObject
  PROVE  ReadIsTyped' /\ SlotsAreTyped' /\ InStep(u)'
<1>1. NextTag.type = 1 /\ slots # <<>>
  BY DEF ReadObject, Reading, LST_OBJ_TYPE
<1>2. PutNew(s, u) /\ ~heap[Head(s.todo)].binary /\ u.at <= Len(file) /\ ReaderAt(s)
  BY <1>1, TagTells, NotEnded
<1>0. PICK obj, data, m : obj = heap[Head(s.todo)] /\ data = obj.data /\ m = u.count
  OBVIOUS
<1>3. /\ m = Len(read) + 1 /\ NewNumber = m
      /\ m \in 1..Len(written)
      /\ written[m] = Head(s.todo)
      /\ ObjectOf(m) = obj
      /\ Head(s.todo) \in Objects
  BY <1>0, <1>2, NewObject
<1>4. /\ NextTag = [type |-> LST_OBJ_TYPE, val |-> Len(data), next |-> u.at]
      /\ u.todo = (<<obj.class>> \o data) \o Tail(s.todo)
  BY <1>0, <1>2, ObjectTag DEF Follows, NextTag, InStep
<1>6. /\ obj.binary = FALSE /\ obj.class \in Objects
      /\ data \in Seq(Values) /\ Len(data) \in Nat
  BY <1>0, <1>2, <1>3, HeapTyped DEF Follows, Written
<1>7. PICK size \in Nat : size = Len(data)
  BY <1>6
<1>8. PICK fields, copy, places, rest :
        /\ fields = [i \in 1..size |-> 0]
        /\ copy = [binary |-> FALSE, class |-> 0, data |-> fields]
        /\ places = Places(m, size) /\ rest = <<obj.class>> \o data
  OBVIOUS
<1>9. fields \in Seq(Copied) /\ Len(fields) = size
  <2>1. 0 \in Copied
    BY DEF Copied
  <2> QED BY <1>8, <2>1
<1>10. copy \in Copies
  BY <1>8, <1>9 DEF Copies, Copied
<1>11. /\ places \in Seq(Nat \X Nat) /\ Len(places) = size + 1
       /\ \A i \in 1..(size + 1) : places[i] = <<m, i - 1>>
  <2>1. places = [i \in 1..(size + 1) |-> IF i = 1 THEN <<m, Class>> ELSE <<m, i - 1>>]
    BY <1>8 DEF Places
  <2>2. \A i \in 1..(size + 1) : places[i] = <<m, i - 1>>
    BY <2>1 DEF Class
  <2>3. m \in Nat
    BY <1>3
  <2>4. places \in [1..(size + 1) -> Nat \X Nat]
    BY <2>1, <2>2, <2>3
  <2> QED BY <2>2, <2>4
<1>12. /\ rest \in Seq(Values) /\ Len(rest) = size + 1 /\ rest[1] = obj.class
       /\ \A i \in 2..(size + 1) : rest[i] = data[i - 1]
  <2>0. PICK one : one = <<obj.class>>
    OBVIOUS
  <2>1. one \in Seq(Values) /\ Len(one) = 1 /\ one[1] = obj.class
    BY <1>6, <2>0 DEF Values
  <2>2. /\ rest \in Seq(Values) /\ Len(rest) = 1 + size
        /\ \A i \in 1..(1 + size) : rest[i] = IF i <= 1 THEN one[i] ELSE data[i - 1]
    BY <1>6, <1>7, <1>8, <2>0, <2>1, ConcatProperties
  <2> QED BY <1>7, <2>1, <2>2
<1>13. FitsObject(m, copy, places, rest)
  <2>1. Fields(m) = 0..size
    BY <1>0, <1>3, <1>6, <1>7 DEF Fields
  <2>2. copy.binary = ObjectOf(m).binary /\ Len(copy.data) = Len(ObjectOf(m).data)
    BY <1>0, <1>2, <1>3, <1>6, <1>7, <1>8, <1>9
  <2>3. ASSUME NEW i \in 1..(size + 1) PROVE rest[i] = Part(m, i - 1)
    <3>1. CASE i = 1
      BY <1>3, <1>12, <3>1 DEF Part, Class
    <3>2. CASE i # 1
      BY <1>0, <1>3, <1>12, <3>2 DEF Part, Class
    <3> QED BY <3>1, <3>2
  <2>4. \A i \in 1..(size + 1) : i - 1 \in 0..size
    OBVIOUS
  <2>5. \A f \in 0..size : f + 1 \in 1..(size + 1) /\ places[f + 1] = <<m, f>>
    BY <1>11
  <2>6. places # <<>>
    BY <1>11, EmptySeq
  <2> QED BY <1>11, <1>12, <2>1, <2>2, <2>3, <2>4, <2>5, <2>6 DEF FitsObject
<1>14. /\ read' = Append(Stored(read, Reference(m)), copy)
       /\ slots' = places \o Tail(slots) /\ at' = u.at /\ Kept
  <2>1. at' = u.at /\ Kept
    BY <1>4 DEF ReadObject, Kept
  <2>2. slots' = Places(NewNumber, NextTag.val) \o Tail(slots)
    BY DEF ReadObject
  <2>3. read' = Append(Stored(read, Reference(NewNumber)),
                       [binary |-> FALSE, class |-> 0,
                        data |-> [i \in 1..NextTag.val |-> 0]])
    BY DEF ReadObject
  <2>4. NextTag.val = size
    BY <1>4, <1>7
  <2> QED BY <1>3, <1>8, <2>1, <2>2, <2>3, <2>4
<1>15. ~ObjectOf(m).binary
  BY <1>3, <1>6
<1>16. u.todo = rest \o Tail(s.todo) /\ u.count = m
  BY <1>0, <1>4, <1>8
<1> QED BY <1>2, <1>3, <1>10, <1>11, <1>12, <1>13, <1>14, <1>15, <1>16, NewRead

-----------------------------------------------------------------------------
(***************************************************************************)
(* The log of the writer: its records, one for each of its steps           *)
(***************************************************************************)
LogStart == [todo |-> <<globalsObject>>, count |-> 0, at |-> Len(Header)]

IsLog(t, n) ==
  /\ n \in Nat
  /\ t \in [0..n -> Records]
  /\ t[0] = LogStart
  /\ \A i \in 0..n : t[i].count <= Len(written) /\ t[i].at <= t[n].at
  /\ \A i \in 0..(n - 1) : Put(t[i], t[i + 1])

\* The log ends where the writer is, with the bytes that the file has lost.
LogIsCurrent(t, n) ==
  /\ t[n].todo = todo
  /\ t[n].count = Len(written)
  /\ Len(file) <= t[n].at /\ t[n].at <= Len(file) + lost

\* What the log speaks of stays when the file grows or is cut short.
FilesAgree == \A k \in 1..Len(file) : k <= Len(file') => file'[k] = file[k]
WrittenGrows ==
  /\ Len(written) \in Nat /\ Len(written') \in Nat /\ Len(written) <= Len(written')
  /\ \A k \in 1..Len(written) : written'[k] = written[k]

\* What a step left in the file stays there.
LEMMA LeavesKept ==
  ASSUME NEW s \in Records, NEW u \in Records, NEW bytes, NEW rest,
         Leaves(s, u, bytes, rest), FileOfBytes, FileOfBytes', FilesAgree,
         u.at <= Len(file) \/ Len(file') <= Len(file)
  PROVE  Leaves(s, u, bytes, rest)'
<1>1. PICK a \in Nat, b \in Nat, n \in Nat, m \in Nat :
        a = s.at /\ b = Len(bytes) /\ n = Len(file) /\ m = Len(file')
  BY DEF Leaves, Records, FileOfBytes
<1>2. a + b <= n \/ m <= n
  BY <1>1 DEF Leaves
<1>3. ASSUME NEW k \in 1..b, a + k <= m
      PROVE  file'[a + k] = bytes[k]
  <2>1. a + k <= n /\ a + k \in 1..n
    BY <1>2, <1>3
  <2>2. file'[a + k] = file[a + k]
    BY <1>1, <1>3, <2>1 DEF FilesAgree
  <2>3. file[a + k] = bytes[k]
    BY <1>1, <2>1 DEF Leaves, Carries
  <2> QED BY <2>2, <2>3
<1>4. Carries(s.at, bytes)'
  BY <1>1, <1>3 DEF Carries
<1> QED BY <1>4 DEF Leaves

\* A step of the writer is a step of the log from then on.
LEMMA PutKept ==
  ASSUME NEW s \in Records, NEW u \in Records, Put(s, u), s.count <= Len(written),
         heap' = heap, WrittenGrows, FileOfBytes, FileOfBytes', FilesAgree,
         u.at <= Len(file) \/ Len(file') <= Len(file)
  PROVE  Put(s, u)'
<1>1. \A bytes, rest : Leaves(s, u, bytes, rest) => Leaves(s, u, bytes, rest)'
  BY LeavesKept
<1>2. s.count \in Nat /\ u.count \in Nat
  BY DEF Records
<1>3. CASE PutInteger(s, u)
  BY <1>1, <1>3 DEF Put, PutInteger
<1>4. ASSUME NEW m \in Nat, PutPrevious(s, u, m)
      PROVE  PutPrevious(s, u, m)'
  <2>1. m \in 1..Len(written)
    BY <1>2, <1>4 DEF PutPrevious, WrittenGrows
  <2>2. written'[m] = written[m]
    BY <2>1 DEF WrittenGrows
  <2> QED BY <1>1, <1>4, <2>2 DEF PutPrevious
<1>5. CASE PutNew(s, u)
  <2>1. u.count \in 1..Len(written') /\ written'[u.count] = written[u.count]
    BY <1>2, <1>5 DEF PutNew, WrittenGrows
  <2>2. PICK obj : obj = heap[Head(s.todo)]
    OBVIOUS
  <2>3. Leaves(s, u, BytesOf(obj), RestOf(obj))
    BY <1>5, <2>2 DEF PutNew
  <2>4. Leaves(s, u, BytesOf(obj), RestOf(obj))'
    BY <1>1, <2>3
  <2>5. u.count = s.count + 1 /\ written[u.count] = Head(s.todo)
    BY <1>5 DEF PutNew
  <2>6. heap'[Head(s.todo)] = obj
    BY <2>2
  <2>7. PICK bytes, rest : bytes = BytesOf(obj) /\ rest = RestOf(obj)
    OBVIOUS
  <2>8. BytesOf(heap[Head(s.todo)])' = bytes /\ RestOf(heap[Head(s.todo)])' = rest
    BY <2>6, <2>7
  <2>9. Leaves(s, u, BytesOf(heap[Head(s.todo)]), RestOf(heap[Head(s.todo)]))'
    <3>1. Leaves(s, u, bytes, rest)'
      BY <2>4, <2>7
    <3> QED BY <2>8, <3>1 DEF Leaves, Carries
  <2> QED BY <2>1, <2>5, <2>9 DEF PutNew, Put
<1> QED BY <1>3, <1>4, <1>5 DEF Put

(***************************************************************************)
(* A step of the writer adds a record to the log.                          *)
(***************************************************************************)
LEMMA LogGrows ==
  ASSUME NEW t, NEW n, IsLog(t, n), LogIsCurrent(t, n), lost = 0, lost' = 0,
         heap' = heap, WrittenGrows, FileOfBytes, FileOfBytes', FilesAgree,
         Len(file) <= Len(file'),
         NEW u \in Records,
         u.todo = todo', u.count = Len(written'), u.at = Len(file'),
         Put(t[n], u)'
  PROVE  \E r : (IsLog(r, n + 1) /\ LogIsCurrent(r, n + 1))'
<1>1. n \in Nat /\ n + 1 \in Nat /\ n \in 0..n
  BY DEF IsLog
<1>2. PICK r : r = [i \in 0..(n + 1) |-> IF i = n + 1 THEN u ELSE t[i]]
  OBVIOUS
<1>3. /\ r \in [0..(n + 1) -> Records]
      /\ r[n + 1] = u
      /\ \A i \in 0..n : r[i] = t[i] /\ i \in 0..(n + 1) /\ t[i] \in Records
  <2>1. \A i \in 0..(n + 1) : i # n + 1 => i \in 0..n
    BY <1>1
  <2>2. \A i \in 0..n : t[i] \in Records /\ i # n + 1 /\ i \in 0..(n + 1)
    BY <1>1 DEF IsLog
  <2>3. \A i \in 0..(n + 1) : (IF i = n + 1 THEN u ELSE t[i]) \in Records
    BY <2>1, <2>2
  <2> QED BY <1>1, <1>2, <2>2, <2>3
<1>4. /\ \A i \in 0..n : t[i].at <= t[n].at /\ t[i].at \in Nat
      /\ t[n].at = Len(file) /\ Len(file) \in Nat /\ Len(file') \in Nat
  <2>1. \A i \in 0..n : t[i].at \in Nat /\ t[i].at <= t[n].at
    BY <1>3 DEF Records, IsLog
  <2>2. Len(file) \in Nat /\ Len(file') \in Nat
    BY DEF FileOfBytes
  <2>3. t[n].at = Len(file)
    BY <1>1, <2>1, <2>2 DEF LogIsCurrent
  <2> QED BY <2>1, <2>2, <2>3
<1>5. \A i \in 0..(n + 1) : r[i].count <= Len(written') /\ r[i].at <= u.at
  <2>1. \A i \in 0..n : t[i].count <= Len(written) /\ t[i].count \in Nat
    BY <1>3 DEF IsLog, Records
  <2>2. \A i \in 0..n : t[i].count <= Len(written')
    BY <2>1 DEF WrittenGrows
  <2>3. \A i \in 0..n : t[i].at <= Len(file')
    BY <1>4
  <2>4. \A i \in 0..(n + 1) : i \in 0..n \/ i = n + 1
    BY <1>1
  <2>5. u.count <= Len(written') /\ u.at <= u.at
    BY <1>4 DEF WrittenGrows
  <2> QED BY <1>3, <2>2, <2>3, <2>4, <2>5
<1>6. ASSUME NEW i \in 0..n PROVE Put(r[i], r[i + 1])'
  <2>1. CASE i = n
    <3>1. r[i] = t[n] /\ r[i + 1] = u
      BY <1>3, <2>1
    <3> QED BY <3>1
  <2>2. CASE i # n
    <3>1. i \in 0..(n - 1) /\ i + 1 \in 0..n
      BY <1>1, <2>2
    <3>0. PICK s, v : s = t[i] /\ v = t[i + 1]
      OBVIOUS
    <3>2. /\ s \in Records /\ v \in Records
          /\ Put(s, v) /\ s.count <= Len(written) /\ v.at <= Len(file)
      BY <1>3, <1>4, <3>0, <3>1 DEF IsLog
    <3>3. Put(s, v)'
      BY <3>2, PutKept
    <3>4. r[i] = s /\ r[i + 1] = v
      BY <1>3, <3>0, <3>1
    <3> QED BY <3>3, <3>4
  <2> QED BY <2>1, <2>2
<1>7. n + 1 - 1 = n /\ 0 \in 0..n
  BY <1>1
<1>8. r[0] = LogStart
  BY <1>3, <1>7 DEF IsLog
<1>9. IsLog(r, n + 1)'
  BY <1>1, <1>3, <1>5, <1>6, <1>7, <1>8 DEF IsLog
<1>10. LogIsCurrent(r, n + 1)'
  BY <1>3, <1>4 DEF LogIsCurrent
<1> QED BY <1>9, <1>10

\* The log is kept when the file is cut short.
LEMMA LogCut ==
  ASSUME NEW t, NEW n, IsLog(t, n), LogIsCurrent(t, n), lost = 0, lost' \in Nat,
         heap' = heap, written' = written, todo' = todo,
         Len(written) \in Nat, FileOfBytes, FileOfBytes', FilesAgree,
         Len(file') <= Len(file), Len(file) <= Len(file') + lost'
  PROVE  (IsLog(t, n) /\ LogIsCurrent(t, n))'
<1>1. n \in Nat /\ \A i \in 0..n : t[i] \in Records
  BY DEF IsLog
<1>2. WrittenGrows
  BY DEF WrittenGrows
<1>3. ASSUME NEW i \in 0..(n - 1) PROVE Put(t[i], t[i + 1])'
  <2>1. i \in 0..n /\ i + 1 \in 0..n
    BY <1>1
  <2>0. PICK s, v : s = t[i] /\ v = t[i + 1]
    OBVIOUS
  <2>2. s \in Records /\ v \in Records /\ Put(s, v) /\ s.count <= Len(written)
    BY <1>1, <2>0, <2>1 DEF IsLog
  <2>3. Put(s, v)'
    BY <1>2, <2>2, PutKept
  <2> QED BY <2>0, <2>3
<1>4. IsLog(t, n)'
  BY <1>3 DEF IsLog
<1>5. LogIsCurrent(t, n)'
  <2>1. t[n].at \in Nat
    BY <1>1 DEF Records
  <2>2. Len(file) \in Nat /\ Len(file') \in Nat
    BY DEF FileOfBytes
  <2> QED BY <2>1, <2>2 DEF LogIsCurrent
<1> QED BY <1>4, <1>5

-----------------------------------------------------------------------------
(***************************************************************************)
(* The steps of objectWrite() are those of the log.                        *)
(***************************************************************************)
Writer == FileOfBytes /\ Written /\ todo \in Seq(Values)

\* From the writer before a step to the writer after it
Between(s, u) ==
  /\ s.todo = todo /\ s.count = Len(written) /\ s.at = Len(file)
  /\ u.todo = todo' /\ u.count = Len(written') /\ u.at = Len(file')

WriterStep ==
  /\ Writer'
  /\ heap' = heap /\ WrittenGrows /\ FilesAgree /\ Len(file) <= Len(file')
  /\ \A s, u \in Records : Between(s, u) => Put(s, u)'

\* Bytes written are in the file after what was there.
LEMMA FileGrown ==
  ASSUME FileOfBytes, NEW bytes \in Seq(Bytes), NEW rest, Wrote(bytes, rest)
  PROVE  /\ FileOfBytes' /\ FilesAgree /\ Len(file) <= Len(file')
         /\ \A s, u \in Records : Between(s, u) => Leaves(s, u, bytes, rest)'
<1>0. PICK old, new : old = file /\ new = file'
  OBVIOUS
<1>1. old \in Seq(Bytes) /\ new = old \o bytes /\ todo' = rest \o Tail(todo)
  BY <1>0 DEF FileOfBytes, Wrote
<1>2. /\ new \in Seq(Bytes) /\ Len(new) = Len(old) + Len(bytes)
      /\ Len(old) \in Nat /\ Len(bytes) \in Nat
      /\ \A k \in 1..(Len(old) + Len(bytes)) :
           new[k] = IF k <= Len(old) THEN old[k] ELSE bytes[k - Len(old)]
  BY <1>1, ConcatProperties
<1>3. PICK a \in Nat, b \in Nat : a = Len(old) /\ b = Len(bytes)
  BY <1>2
<1>4. \A k \in 1..a : new[k] = old[k]
  BY <1>2, <1>3
<1>5. \A k \in 1..b : new[a + k] = bytes[k]
  <2> SUFFICES ASSUME NEW k \in 1..b PROVE new[a + k] = bytes[k]
    OBVIOUS
  <2>1. a + k \in 1..(a + b) /\ ~(a + k <= a) /\ (a + k) - a = k
    BY <1>3
  <2>2. new[a + k] = bytes[(a + k) - a]
    BY <1>2, <1>3, <2>1
  <2> QED BY <2>1, <2>2
<1>6. Len(new) = a + b
  BY <1>2, <1>3
<1>7. FileOfBytes' /\ FilesAgree /\ Len(file) <= Len(file')
  BY <1>0, <1>2, <1>3, <1>4, <1>6 DEF FileOfBytes, FilesAgree
<1>8. ASSUME NEW s \in Records, NEW u \in Records, Between(s, u)
      PROVE  Leaves(s, u, bytes, rest)'
  <2>1. s.at = a /\ u.at = a + b /\ u.todo = rest \o Tail(s.todo)
    BY <1>0, <1>1, <1>3, <1>6, <1>8 DEF Between
  <2>2. Carries(s.at, bytes)'
    BY <1>0, <1>3, <1>5, <2>1 DEF Carries
  <2> QED BY <1>3, <2>1, <2>2 DEF Leaves
<1> QED BY <1>7, <1>8

\* The values still to be written are values.
LEMMA RestTyped ==
  ASSUME Writer, todo # <<>>, NEW rest \in Seq(Values)
  PROVE  /\ Head(todo) \in Values /\ Tail(todo) \in Seq(Values)
         /\ (rest \o Tail(todo)) \in Seq(Values)
<1>0. PICK old : old = todo
  OBVIOUS
<1>1. Head(old) \in Values /\ Tail(old) \in Seq(Values)
  BY <1>0, HeadTailProperties DEF Writer
<1>2. PICK t \in Seq(Values) : t = Tail(old)
  BY <1>1
<1>3. (rest \o t) \in Seq(Values)
  BY ConcatProperties
<1> QED BY <1>0, <1>1, <1>2, <1>3

\* A value is a SmallInt, an object or NULL.
LEMMA ValueTypes ==
  ASSUME NEW v \in Values
  PROVE  IF IS_SMALLINT(v) THEN v \in IntMin..IntMax ELSE v \in Objects \cup {NullWord}
<1>1. v \in Objects \cup {NullWord} \/ v \in IntMin..IntMax
  BY DEF Values
<1>2. CASE v \in Objects \cup {NullWord}
  BY <1>2, ImageAssumption DEF IS_SMALLINT
<1>3. CASE v \in IntMin..IntMax
  BY <1>3 DEF IS_SMALLINT
<1> QED BY <1>1, <1>2, <1>3

\* objectWrite() of a SmallInt is a step of the log.
LEMMA IntegerWritten ==
  ASSUME Writer, WriteInteger, phase' # "error"
  PROVE  WriterStep /\ UNCHANGED <<phase, lost, written, at, slots, read>>
<1>0. PICK v : v = Head(todo)
  OBVIOUS
<1>1. IS_SMALLINT(v) /\ todo # <<>>
  BY <1>0 DEF WriteInteger, Writing
<1>2. PICK none : none = <<>>
  OBVIOUS
<1>3. none \in Seq(Values)
  BY <1>2
<1>4. v \in IntMin..IntMax /\ (none \o Tail(todo)) \in Seq(Values)
  BY <1>0, <1>1, <1>3, RestTyped, ValueTypes
<1>5. IntMin \in Int /\ IntMin < 0 /\ v \in Int
  BY <1>4, ImageAssumption
<1>6. PICK bytes :
        bytes = IF v >= 0 THEN Tag(LST_PINT_TYPE, v) ELSE Tag(LST_NINT_TYPE, -v)
  OBVIOUS
<1>7. /\ v # IntMin
      /\ Wrote(bytes, none) /\ UNCHANGED written
      /\ bytes \in Seq(Bytes)
  <2>1. CASE v >= 0
    <3>1. Wrote(bytes, none) /\ UNCHANGED written
      BY <1>0, <1>2, <1>6, <2>1 DEF WriteInteger
    <3>2. v \in Int31 /\ LST_PINT_TYPE \in Types
      BY <1>4, <1>5, <2>1, IntsFit DEF Types, LST_PINT_TYPE, LST_OBJ_TYPE, LST_NIL_TYPE, IntMax
    <3>3. bytes \in Seq(Bytes)
      BY <1>6, <2>1, <3>2, TagShape
    <3> QED BY <1>5, <2>1, <3>1, <3>3
  <2>2. CASE ~(v >= 0)
    <3>1. ~(Negated(v) < 0)
      BY <1>0, <2>2 DEF WriteInteger, WriteStops
    <3>2. v # IntMin /\ Negated(v) = -v
      BY <1>5, <3>1 DEF Negated
    <3>3. Wrote(bytes, none) /\ UNCHANGED written
      BY <1>0, <1>2, <1>6, <2>2, <3>1, <3>2 DEF WriteInteger
    <3>4. -v \in Int31 /\ LST_NINT_TYPE \in Types
      BY <1>4, <2>2, <3>2, Negation DEF Types, LST_NINT_TYPE, LST_OBJ_TYPE, LST_NIL_TYPE
    <3>5. bytes \in Seq(Bytes)
      BY <1>6, <2>2, <3>4, TagShape
    <3> QED BY <3>2, <3>3, <3>5
  <2> QED BY <2>1, <2>2
<1>8. FileOfBytes
  BY DEF Writer
<1>9. /\ FileOfBytes' /\ FilesAgree /\ Len(file) <= Len(file')
      /\ \A s, u \in Records : Between(s, u) => Leaves(s, u, bytes, none)'
  BY <1>7, <1>8, FileGrown
<1>10. /\ heap' = heap /\ written' = written /\ todo' = none \o Tail(todo)
       /\ UNCHANGED <<phase, lost, written, at, slots, read>>
  BY <1>7 DEF Wrote
<1>11. WrittenGrows /\ Writer'
  BY <1>4, <1>9, <1>10 DEF WrittenGrows, Writer, Written
<1>12. ASSUME NEW s \in Records, NEW u \in Records, Between(s, u)
       PROVE  Put(s, u)'
  <2>1. s.todo # <<>> /\ Head(s.todo) = v /\ u.count = s.count
    BY <1>0, <1>1, <1>10, <1>12 DEF Between
  <2>2. Leaves(s, u, bytes, <<>>)'
    BY <1>2, <1>9, <1>12
  <2>3. PutInteger(s, u)'
    BY <1>4, <1>6, <1>7, <2>1, <2>2 DEF PutInteger
  <2> QED BY <2>1, <2>3 DEF Put
<1> QED BY <1>9, <1>10, <1>11, <1>12 DEF WriterStep

\* objectWrite() of an object that has a number is a step of the log.
LEMMA PreviousWritten ==
  ASSUME Writer, WritePrevious
  PROVE  WriterStep /\ UNCHANGED <<phase, lost, written, at, slots, read>>
<1>0. PICK o, m : o = Head(todo) /\ m = CHOOSE j \in DOMAIN written : written[j] = o
  OBVIOUS
<1>1. todo # <<>> /\ IsWritten(o)
  BY <1>0 DEF WritePrevious, Writing
<1>2. PICK none : none = <<>>
  OBVIOUS
<1>3. none \in Seq(Values)
  BY <1>2
<1>4. (none \o Tail(todo)) \in Seq(Values)
  BY <1>1, <1>3, RestTyped
<1>5. m \in DOMAIN written /\ written[m] = o
  BY <1>0, <1>1 DEF IsWritten
<1>6. m \in 1..Len(written) /\ Len(written) \in Nat /\ Len(written) <= MaxObjects + 1
  BY <1>5 DEF Writer, Written
<1>7. PICK bytes : bytes = IF m = 1 THEN Tag(LST_NIL_TYPE, 0) ELSE Tag(LST_POBJ_TYPE, m - 1)
  OBVIOUS
<1>8. Wrote(bytes, none) /\ UNCHANGED written
  <2>1. m - 1 = 0 <=> m = 1
    BY <1>6
  <2>2. /\ Wrote(IF m - 1 = 0 THEN Tag(LST_NIL_TYPE, 0) ELSE Tag(LST_POBJ_TYPE, m - 1), none)
        /\ UNCHANGED written
    BY <1>0, <1>2 DEF WritePrevious
  <2> QED BY <1>7, <2>1, <2>2
<1>9. bytes \in Seq(Bytes)
  <2>1. MaxObjects \in Nat /\ MaxObjects <= IntMax /\ IntMax \in Int
    BY ImageAssumption DEF IntMax
  <2>2. m - 1 \in Nat /\ m - 1 <= IntMax
    BY <1>6, <2>1
  <2>3. m - 1 \in Int31 /\ 0 \in Int31
    BY <2>1, <2>2, IntsFit
  <2>4. LST_POBJ_TYPE \in Types /\ LST_NIL_TYPE \in Types
    BY DEF Types, LST_POBJ_TYPE, LST_OBJ_TYPE, LST_NIL_TYPE
  <2> QED BY <1>7, <2>3, <2>4, TagShape
<1>10. FileOfBytes
  BY DEF Writer
<1>11. /\ FileOfBytes' /\ FilesAgree /\ Len(file) <= Len(file')
       /\ \A s, u \in Records : Between(s, u) => Leaves(s, u, bytes, none)'
  BY <1>8, <1>9, <1>10, FileGrown
<1>12. /\ heap' = heap /\ written' = written /\ todo' = none \o Tail(todo)
       /\ UNCHANGED <<phase, lost, written, at, slots, read>>
  BY <1>8 DEF Wrote
<1>13. WrittenGrows /\ Writer'
  BY <1>4, <1>11, <1>12 DEF WrittenGrows, Writer, Written
<1>14. ASSUME NEW s \in Records, NEW u \in Records, Between(s, u)
       PROVE  Put(s, u)'
  <2>1. /\ s.todo # <<>> /\ Head(s.todo) = o /\ u.count = s.count
        /\ m \in 1..s.count /\ m \in Nat
    BY <1>0, <1>1, <1>6, <1>12, <1>14 DEF Between
  <2>2. Leaves(s, u, bytes, <<>>)'
    BY <1>2, <1>11, <1>14
  <2>3. PutPrevious(s, u, m)'
    BY <1>5, <1>7, <1>12, <2>1, <2>2 DEF PutPrevious
  <2> QED BY <2>1, <2>3 DEF Put
<1> QED BY <1>11, <1>12, <1>13, <1>14 DEF WriterStep

\* objectWrite() of a new object is a step of the log, and its number is its own.
LEMMA NewWritten ==
  ASSUME Writer, WriteBinary \/ WriteObject
  PROVE  /\ WriterStep /\ UNCHANGED <<phase, lost, at, slots, read>>
         /\ ~IsWritten(Head(todo)) /\ written' = Append(written, Head(todo))
<1>0. PICK o, obj, bytes, rest :
        /\ o = Head(todo) /\ obj = heap[o]
        /\ bytes = BytesOf(obj) /\ rest = RestOf(obj)
  OBVIOUS
<1>1. /\ todo # <<>> /\ Len(written) <= MaxObjects /\ ~IS_SMALLINT(o) /\ o # NullWord
      /\ ~IsWritten(o) /\ written' = Append(written, o)
  BY <1>0 DEF WriteBinary, WriteObject, New, Writing
<1>2. Wrote(bytes, rest)
  BY <1>0 DEF WriteBinary, WriteObject, BytesOf, RestOf
<1>3. <<>> \in Seq(Values)
  OBVIOUS
<1>4. o \in Objects
  BY <1>0, <1>1, <1>3, RestTyped, ValueTypes
<1>5. /\ obj.binary \in BOOLEAN /\ obj.class \in Objects
      /\ obj.data \in Seq(IF obj.binary THEN Bytes ELSE Values)
      /\ Len(obj.data) \in Int31
  BY <1>0, <1>4, HeapTyped DEF Writer, Written
<1>6. LST_BARRAY_TYPE \in Types /\ LST_OBJ_TYPE \in Types
  BY DEF Types, LST_BARRAY_TYPE, LST_OBJ_TYPE, LST_NIL_TYPE
<1>7. PICK one : one = <<obj.class>>
  OBVIOUS
<1>8. one \in Seq(Values)
  BY <1>5, <1>7 DEF Values
<1>9. bytes \in Seq(Bytes) /\ rest \in Seq(Values)
  <2>1. CASE obj.binary
    <3>1. obj.data \in Seq(Bytes) /\ Tag(LST_BARRAY_TYPE, Len(obj.data)) \in Seq(Bytes)
      BY <1>5, <1>6, <2>1, TagShape
    <3>2. (Tag(LST_BARRAY_TYPE, Len(obj.data)) \o obj.data) \in Seq(Bytes)
      BY <3>1, ConcatProperties
    <3> QED BY <1>0, <1>7, <1>8, <2>1, <3>2 DEF BytesOf, RestOf
  <2>2. CASE ~obj.binary
    <3>1. obj.data \in Seq(Values) /\ Tag(LST_OBJ_TYPE, Len(obj.data)) \in Seq(Bytes)
      BY <1>5, <1>6, <2>2, TagShape
    <3>2. (one \o obj.data) \in Seq(Values)
      BY <1>8, <3>1, ConcatProperties
    <3> QED BY <1>0, <1>7, <2>2, <3>1, <3>2 DEF BytesOf, RestOf
  <2> QED BY <2>1, <2>2
<1>10. FileOfBytes /\ (rest \o Tail(todo)) \in Seq(Values)
  BY <1>1, <1>9, RestTyped DEF Writer
<1>11. /\ FileOfBytes' /\ FilesAgree /\ Len(file) <= Len(file')
       /\ \A s, u \in Records : Between(s, u) => Leaves(s, u, bytes, rest)'
  BY <1>2, <1>9, <1>10, FileGrown
<1>12. /\ heap' = heap /\ todo' = rest \o Tail(todo)
       /\ UNCHANGED <<phase, lost, at, slots, read>>
  BY <1>2 DEF Wrote
<1>13. /\ written' \in Seq(Objects) /\ Len(written') = Len(written) + 1
       /\ Len(written) \in Nat
       /\ written'[Len(written) + 1] = o
       /\ \A k \in 1..Len(written) : written'[k] = written[k]
  <2>0. PICK old, new : old = written /\ new = written'
    OBVIOUS
  <2>1. old \in Seq(Objects) /\ new = Append(old, o)
    BY <1>1, <2>0 DEF Writer, Written
  <2>2. /\ new \in Seq(Objects) /\ Len(new) = Len(old) + 1 /\ Len(old) \in Nat
        /\ new[Len(old) + 1] = o
        /\ \A k \in 1..Len(old) : new[k] = old[k]
    BY <1>4, <2>1, AppendProperties
  <2> QED BY <2>0, <2>2
<1>14. WrittenGrows /\ Writer'
  <2>1. MaxObjects \in Int
    BY ImageAssumption
  <2>2. Len(written') <= MaxObjects + 1 /\ Len(written) <= Len(written') /\ Len(written') \in Nat
    BY <1>1, <1>13, <2>1
  <2>3. heap' \in Heaps
    BY <1>12 DEF Writer, Written
  <2>4. todo' \in Seq(Values)
    BY <1>10, <1>12
  <2> QED BY <1>11, <1>13, <2>2, <2>3, <2>4 DEF WrittenGrows, Writer, Written
<1>15. ASSUME NEW s \in Records, NEW u \in Records, Between(s, u)
       PROVE  Put(s, u)'
  <2>1. s.todo # <<>> /\ Head(s.todo) = o
    BY <1>0, <1>1, <1>15 DEF Between
  <2>2. /\ u.count = s.count + 1 /\ u.count \in 1..Len(written')
        /\ written'[u.count] = o
    BY <1>13, <1>15 DEF Between
  <2>3. Leaves(s, u, bytes, rest)'
    BY <1>11, <1>15
  <2>4. heap'[Head(s.todo)] = obj
    BY <1>0, <1>12, <2>1
  <2>5. /\ BytesOf(heap[Head(s.todo)])' = bytes
        /\ RestOf(heap[Head(s.todo)])' = rest
    BY <1>0, <2>4
  <2>6. Leaves(s, u, BytesOf(heap[Head(s.todo)]), RestOf(heap[Head(s.todo)]))'
    BY <2>3, <2>5 DEF Leaves, Carries
  <2>7. PutNew(s, u)'
    BY <2>1, <2>2, <2>6 DEF PutNew
  <2> QED BY <2>1, <2>7 DEF Put
<1> QED BY <1>0, <1>1, <1>11, <1>12, <1>14, <1>15 DEF WriterStep

(***************************************************************************)
(* The log after a step of the writer                                      *)
(***************************************************************************)
Logged == \E n, t : IsLog(t, n) /\ LogIsCurrent(t, n)

\* The log goes on.
LEMMA WriterLogged ==
  ASSUME Writer, lost = 0, lost' = 0, WriterStep, Logged
  PROVE  Logged'
<1>0. PICK n, t : IsLog(t, n) /\ LogIsCurrent(t, n)
  BY DEF Logged
<1>1. PICK u : u = [todo |-> todo', count |-> Len(written'), at |-> Len(file')]
  OBVIOUS
<1>2. /\ heap' = heap /\ WrittenGrows /\ FilesAgree /\ Len(file) <= Len(file')
      /\ FileOfBytes /\ FileOfBytes' /\ todo' \in Seq(Values)
      /\ \A s, v \in Records : Between(s, v) => Put(s, v)'
  BY DEF WriterStep, Writer
<1>3. Len(file) \in Nat /\ Len(file') \in Nat /\ Len(written') \in Nat
  BY <1>2 DEF FileOfBytes, WrittenGrows
<1>4. /\ u \in Records /\ u.todo = todo' /\ u.count = Len(written') /\ u.at = Len(file')
  BY <1>1, <1>2, <1>3 DEF Records
<1>5. t[n] \in Records
  <2>1. n \in 0..n
    BY <1>0 DEF IsLog
  <2> QED BY <1>0, <2>1 DEF IsLog
<1>6. t[n].at = Len(file)
  <2>1. t[n].at \in Nat
    BY <1>5 DEF Records
  <2> QED BY <1>0, <1>3, <2>1 DEF LogIsCurrent
<1>7. Between(t[n], u)
  BY <1>0, <1>4, <1>6 DEF Between, LogIsCurrent
<1>8. Put(t[n], u)'
  BY <1>2, <1>4, <1>5, <1>7
<1>9. \E r : (IsLog(r, n + 1) /\ LogIsCurrent(r, n + 1))'
  BY <1>0, <1>2, <1>4, <1>8, LogGrows
<1> QED BY <1>9 DEF Logged

-----------------------------------------------------------------------------
(***************************************************************************)
(* The inductive invariant of the image file: the reader is where the      *)
(* writer was at one of its records, or the file has stopped.              *)
(***************************************************************************)
SlotsOfRead == \A i \in 1..Len(slots) : slots[i] = Root \/ slots[i][1] \in 1..Len(read)
Typed ==
  /\ phase \in {"write", "header", "read", "loaded", "error"}
  /\ Writer
  /\ lost \in Nat
  /\ at \in Nat /\ at <= Len(file) + lost
  /\ SlotsAreTyped /\ ReadIsTyped /\ SlotsOfRead

Phases ==
  /\ phase \in {"write", "header"} => slots = <<>> /\ read = <<>> /\ at = 0
  /\ phase = "write" => lost = 0
  /\ phase \in {"header", "read", "loaded"} => todo = <<>>
  /\ phase = "loaded" => slots = <<>>

Distinct == \A i, j \in 1..Len(written) : i # j => written[i] # written[j]

Followed ==
  \E n, t : /\ IsLog(t, n) /\ LogIsCurrent(t, n)
            /\ \E j \in 0..n : InStep(t[j])

ImageIInv ==
  /\ Typed /\ Phases /\ Distinct /\ Logged
  /\ phase \in {"read", "loaded"} => Followed

\* Reading leaves the log as it is.
WriterUnchanged == UNCHANGED <<heap, file, lost, todo, written>>

\* A log stays one while nothing is written.
LEMMA LogUnchanged ==
  ASSUME Writer, WriterUnchanged, NEW t, NEW n, IsLog(t, n), LogIsCurrent(t, n)
  PROVE  (IsLog(t, n) /\ LogIsCurrent(t, n))'
<1>1. n \in Nat /\ \A i \in 0..n : t[i] \in Records
  BY DEF IsLog
<1>2. WrittenGrows /\ FilesAgree /\ FileOfBytes /\ FileOfBytes' /\ Len(file) \in Nat
  BY DEF WrittenGrows, FilesAgree, WriterUnchanged, Writer, Written, FileOfBytes
<1>3. ASSUME NEW i \in 0..(n - 1) PROVE Put(t[i], t[i + 1])'
  <2>1. i \in 0..n /\ i + 1 \in 0..n
    BY <1>1
  <2>0. PICK s, v : s = t[i] /\ v = t[i + 1]
    OBVIOUS
  <2>2. s \in Records /\ v \in Records /\ Put(s, v) /\ s.count <= Len(written)
    BY <1>1, <2>0, <2>1 DEF IsLog
  <2>3. heap' = heap /\ Len(file') <= Len(file)
    BY <1>2 DEF WriterUnchanged
  <2>4. Put(s, v)'
    BY <1>2, <2>2, <2>3, PutKept
  <2> QED BY <2>0, <2>4
<1>4. IsLog(t, n)'
  BY <1>3 DEF IsLog, WriterUnchanged
<1>5. LogIsCurrent(t, n)'
  BY DEF LogIsCurrent, WriterUnchanged
<1> QED BY <1>4, <1>5

\* What follows from the types of the writer when it is unchanged
LEMMA WriterKept ==
  ASSUME Writer, Distinct, WriterUnchanged
  PROVE  Writer' /\ Distinct'
BY DEF Writer, Written, FileOfBytes, Distinct, WriterUnchanged

\* There is a log while nothing is written.
LEMMA LoggedKept ==
  ASSUME Writer, Logged, WriterUnchanged
  PROVE  Logged'
<1>0. PICK n, t : IsLog(t, n) /\ LogIsCurrent(t, n)
  BY DEF Logged
<1>1. (IsLog(t, n) /\ LogIsCurrent(t, n))'
  BY <1>0, LogUnchanged
<1> QED BY <1>0, <1>1 DEF Logged

\* The log starts with globals still to be written.
LEMMA ImageInitially == ImageInit => ImageIInv
<1> SUFFICES ASSUME ImageInit PROVE ImageIInv
  OBVIOUS
<1> USE DEF ImageInit
<1>1. globalsObject \in Objects /\ MaxObjects \in Nat
  BY ImageAssumption
<1>2. FileOfBytes /\ Len(file) = Len(Header) /\ Len(Header) = 5
  BY DEF FileOfBytes, Header, Bytes
<1>3. PICK first : first = <<globalsObject>>
  OBVIOUS
<1>4. first \in Seq(Values) /\ LogStart \in Records
  <2>1. first \in Seq(Values)
    BY <1>1, <1>3 DEF Values
  <2>2. LogStart = [todo |-> first, count |-> 0, at |-> 5]
    BY <1>2, <1>3 DEF LogStart
  <2> QED BY <2>1, <2>2 DEF Records
<1>5. Writer
  BY <1>1, <1>2, <1>3, <1>4 DEF Writer, Written
<1>6. Typed
  BY <1>2, <1>5 DEF Typed, SlotsAreTyped, ReadIsTyped, SlotsOfRead
<1>7. Logged
  <2>1. PICK t : t = [i \in 0..0 |-> LogStart]
    OBVIOUS
  <2>2. t \in [0..0 -> Records] /\ t[0] = LogStart
    BY <1>4, <2>1
  <2>3. /\ LogStart.count = 0 /\ LogStart.at = 5
        /\ LogStart.todo = todo
    BY <1>2 DEF LogStart
  <2>4. IsLog(t, 0)
    BY <2>2, <2>3 DEF IsLog
  <2>5. LogIsCurrent(t, 0)
    BY <1>2, <2>2, <2>3 DEF LogIsCurrent
  <2> QED BY <2>4, <2>5 DEF Logged
<1>8. Phases /\ Distinct
  BY DEF Phases, Distinct
<1> QED BY <1>6, <1>7, <1>8 DEF ImageIInv

\* Stopping keeps the invariant.
LEMMA Stops ==
  ASSUME ImageIInv, WriterUnchanged, UNCHANGED <<at, slots, read>>, phase' = "error"
  PROVE  ImageIInv'
<1>1. Writer' /\ Distinct' /\ Logged'
  BY WriterKept, LoggedKept DEF ImageIInv, Typed
<1>2. Typed'
  BY <1>1 DEF ImageIInv, Typed, WriterUnchanged, SlotsAreTyped, ReadIsTyped, SlotsOfRead
<1>3. Phases'
  BY DEF Phases
<1> QED BY <1>1, <1>2, <1>3 DEF ImageIInv

\* So does a step of the writer.
LEMMA WritersKeep ==
  ASSUME ImageIInv, WriterStep, phase = "write",
         UNCHANGED <<phase, lost, at, slots, read>>, Distinct'
  PROVE  ImageIInv'
<1>1. lost = 0 /\ lost' = 0 /\ Writer /\ Logged
  BY DEF ImageIInv, Phases, Typed
<1>2. Logged'
  BY <1>1, WriterLogged
<1>3. Typed'
  <2>1. Writer' /\ Len(file) <= Len(file') /\ FileOfBytes /\ FileOfBytes'
    BY <1>1 DEF WriterStep, Writer
  <2>2. Len(file) \in Nat /\ Len(file') \in Nat
    BY <2>1 DEF FileOfBytes
  <2>3. at \in Nat /\ at <= Len(file')
    BY <1>1, <2>1, <2>2 DEF ImageIInv, Typed
  <2> QED BY <1>1, <2>1, <2>2, <2>3
          DEF ImageIInv, Typed, SlotsAreTyped, ReadIsTyped, SlotsOfRead
<1>4. Phases'
  BY DEF ImageIInv, Phases
<1> QED BY <1>2, <1>3, <1>4 DEF ImageIInv

\* So does cutting the file short: what is left of it is what was written.
LEMMA ReopenKeeps == ASSUME ImageIInv, Reopen PROVE ImageIInv'
<1>1. /\ phase = "write" /\ phase' = "header" /\ todo = <<>> /\ lost = 0
      /\ lost' \in Nat /\ Writer
      /\ UNCHANGED <<heap, todo, written, at, slots, read>>
  BY ImageAssumption DEF Reopen, ImageIInv, Phases, Typed
<1>0. PICK old, new, cut : old = file /\ new = file' /\ cut = lost' /\ cut \in Nat
  BY <1>1
<1>2. old \in Seq(Bytes) /\ new = SubSeq(old, 1, Len(old) - cut) /\ Len(old) \in Nat
  BY <1>0, <1>1 DEF Reopen, Writer, FileOfBytes
<1>3. /\ new \in Seq(Bytes) /\ Len(new) \in Nat /\ Len(new) <= Len(old)
      /\ Len(old) <= Len(new) + cut
      /\ \A k \in 1..Len(new) : new[k] = old[k]
  <2>1. CASE cut <= Len(old)
    <3>1. Len(old) - cut \in 0..Len(old) /\ 1 \in 1..(Len(old) + 1)
      BY <1>0, <1>2, <2>1
    <3> QED BY <1>0, <1>2, <3>1, SubSeqProperties
  <2>2. CASE ~(cut <= Len(old))
    <3>1. new = <<>>
      BY <1>0, <1>2, <2>2
    <3> QED BY <1>0, <1>2, <2>2, <3>1
  <2> QED BY <2>1, <2>2
<1>4. /\ FileOfBytes /\ FileOfBytes' /\ FilesAgree /\ Len(file') <= Len(file)
      /\ Len(file) <= Len(file') + lost' /\ Len(file) \in Nat /\ Len(file') \in Nat
  BY <1>0, <1>2, <1>3 DEF FileOfBytes, FilesAgree
<1>5. Writer' /\ Distinct'
  BY <1>1, <1>4 DEF Writer, Written, ImageIInv, Distinct
<1>6. Logged'
  <2>0. PICK n, t : IsLog(t, n) /\ LogIsCurrent(t, n)
    BY DEF ImageIInv, Logged
  <2>1. Len(written) \in Nat
    BY <1>1 DEF Writer, Written
  <2>2. (IsLog(t, n) /\ LogIsCurrent(t, n))'
    BY <1>1, <1>4, <2>0, <2>1, LogCut
  <2> QED BY <2>0, <2>2 DEF Logged
<1>7. Typed'
  BY <1>1, <1>4, <1>5 DEF ImageIInv, Typed, Phases, SlotsAreTyped, ReadIsTyped, SlotsOfRead
<1>8. Phases'
  BY <1>1 DEF ImageIInv, Phases
<1> QED BY <1>1, <1>5, <1>6, <1>7, <1>8 DEF ImageIInv

\* While a place waits, the writer has gone on from where the reader is.
LEMMA WriterAhead ==
  ASSUME ImageIInv, phase = "read", slots # <<>>
  PROVE  \E n, t : /\ IsLog(t, n) /\ LogIsCurrent(t, n)
                   /\ \E j \in 0..(n - 1) :
                        /\ j + 1 \in 0..n
                        /\ t[j] \in Records /\ t[j + 1] \in Records
                        /\ Follows(t[j], t[j + 1])
<1>0. PICK n, t : /\ IsLog(t, n) /\ LogIsCurrent(t, n)
                  /\ \E j \in 0..n : InStep(t[j])
  BY DEF ImageIInv, Followed
<1>1. PICK j \in 0..n : InStep(t[j])
  BY <1>0
<1>2. n \in Nat /\ \A i \in 0..n : t[i] \in Records
  BY <1>0 DEF IsLog
<1>3. j # n
  <2> SUFFICES ASSUME j = n PROVE FALSE
    OBVIOUS
  <2>1. t[j].todo = todo /\ todo = <<>> /\ Len(slots) = Len(t[j].todo)
    BY <1>0, <1>1 DEF LogIsCurrent, ImageIInv, Phases, InStep
  <2>2. Len(slots) = 0
    BY <2>1
  <2> QED BY <2>2, EmptySeq DEF ImageIInv, Typed, SlotsAreTyped
<1>4. j \in 0..(n - 1) /\ j + 1 \in 0..n
  BY <1>2, <1>3
<1>5. Put(t[j], t[j + 1]) /\ t[j].count <= Len(written)
  BY <1>0, <1>4 DEF IsLog
<1>6. Follows(t[j], t[j + 1])
  BY <1>1, <1>5 DEF Follows, ImageIInv, Typed, Writer
<1> QED BY <1>0, <1>2, <1>4, <1>6

\* So does reading a value.
LEMMA ReadersKeep ==
  ASSUME ImageIInv,
         ReadInteger \/ ReadPrevious \/ ReadBinary \/ ReadObject
  PROVE  ImageIInv'
<1>1. phase = "read" /\ slots # <<>>
  BY DEF ReadInteger, ReadPrevious, ReadBinary, ReadObject, Reading
<1>0. PICK n, t : /\ IsLog(t, n) /\ LogIsCurrent(t, n)
                  /\ \E j \in 0..(n - 1) :
                       /\ j + 1 \in 0..n
                       /\ t[j] \in Records /\ t[j + 1] \in Records
                       /\ Follows(t[j], t[j + 1])
  BY <1>1, WriterAhead
<1>2. PICK j \in 0..(n - 1) : /\ j + 1 \in 0..n
                              /\ t[j] \in Records /\ t[j + 1] \in Records
                              /\ Follows(t[j], t[j + 1])
  BY <1>0
<1>3. PICK s, u : s = t[j] /\ u = t[j + 1]
  OBVIOUS
<1>4. s \in Records /\ u \in Records /\ Follows(s, u)
  BY <1>2, <1>3
<1>5. ReadIsTyped' /\ SlotsAreTyped' /\ InStep(u)' /\ phase' = phase /\ WriterUnchanged
  <2>1. CASE ReadInteger
    BY <1>4, <2>1, IntegerRead DEF ReadInteger, WriterUnchanged
  <2>2. CASE ReadPrevious
    BY <1>4, <2>2, PreviousRead DEF ReadPrevious, ReadStops, WriterUnchanged
  <2>3. CASE ReadBinary
    BY <1>4, <2>3, BinaryRead DEF ReadBinary, WriterUnchanged
  <2>4. CASE ReadObject
    BY <1>4, <2>4, PlainRead DEF ReadObject, WriterUnchanged
  <2> QED BY <2>1, <2>2, <2>3, <2>4
<1>6. Writer' /\ Distinct' /\ Logged'
  BY <1>5, WriterKept, LoggedKept DEF ImageIInv, Typed
<1>7. (IsLog(t, n) /\ LogIsCurrent(t, n))'
  BY <1>0, <1>5, LogUnchanged DEF ImageIInv, Typed
<1>8. Followed'
  <2>1. InStep(t[j + 1])'
    BY <1>3, <1>5
  <2> QED BY <1>2, <1>7, <2>1 DEF Followed
<1>9. at' \in Nat /\ at' <= Len(file') + lost'
  <2>1. at' = u.at /\ u.at \in Nat
    BY <1>4, <1>5 DEF InStep, Records
  <2>2. u.at <= t[n].at
    BY <1>0, <1>2, <1>3 DEF IsLog
  <2>3. t[n].at <= Len(file) + lost /\ t[n].at \in Nat
    <3>1. n \in 0..n
      BY <1>0 DEF IsLog
    <3>2. t[n] \in Records
      BY <1>0, <3>1 DEF IsLog
    <3> QED BY <1>0, <3>2 DEF LogIsCurrent, Records
  <2>4. Len(file) \in Nat /\ lost \in Nat
    BY DEF ImageIInv, Typed, Writer, FileOfBytes
  <2>5. Len(file') + lost' = Len(file) + lost
    BY <1>5 DEF WriterUnchanged
  <2> QED BY <2>1, <2>2, <2>3, <2>4, <2>5
<1>10. SlotsOfRead'
  <2> SUFFICES ASSUME NEW i \in 1..Len(slots')
               PROVE  slots'[i] = Root \/ slots'[i][1] \in 1..Len(read')
    BY DEF SlotsOfRead
  <2>1. PlaceOf(slots[i], u.todo[i])'
    BY <1>5 DEF InStep, PlacesAgree
  <2> QED BY <2>1 DEF PlaceOf
<1>11. Typed' /\ Phases'
  BY <1>1, <1>5, <1>6, <1>9, <1>10 DEF ImageIInv, Typed, Phases, WriterUnchanged
<1> QED BY <1>6, <1>8, <1>11 DEF ImageIInv

\* So does reading the header: the reader starts where the writer started.
LEMMA HeaderKeeps ==
  ASSUME ImageIInv, ReadHeader, phase' # "error"
  PROVE  ImageIInv'
<1>1. /\ phase = "header" /\ phase' = "read" /\ WriterUnchanged /\ at' = Len(Header)
      /\ slots' = <<Root>> /\ read' = read /\ read = <<>> /\ ~(Len(file) < Len(Header))
  BY DEF ReadHeader, ReadStops, ImageIInv, Phases, WriterUnchanged
<1>2. Writer' /\ Distinct' /\ Logged'
  BY <1>1, WriterKept, LoggedKept DEF ImageIInv, Typed
<1>3. Len(Header) = 5
  BY DEF Header
<1>4. Len(file) \in Nat /\ Len(file') \in Nat /\ lost \in Nat /\ file' = file /\ lost' = lost
  BY <1>1, <1>2 DEF ImageIInv, Typed, Writer, FileOfBytes, WriterUnchanged
<1>5. PICK places : places = <<Root>>
  OBVIOUS
<1>6. places \in Seq(Nat \X Nat) /\ Len(places) = 1 /\ places[1] = Root
  BY <1>5 DEF Root, Class
<1>7. Typed'
  <2>1. at' \in Nat /\ at' <= Len(file') + lost'
    BY <1>1, <1>3, <1>4
  <2>2. SlotsAreTyped' /\ ReadIsTyped' /\ SlotsOfRead'
    BY <1>1, <1>5, <1>6 DEF SlotsAreTyped, ReadIsTyped, SlotsOfRead, ImageIInv, Typed
  <2> QED BY <1>1, <1>2, <1>4, <2>1, <2>2 DEF Typed
<1>8. Followed'
  <2>0. PICK n, t : IsLog(t, n) /\ LogIsCurrent(t, n)
    BY DEF ImageIInv, Logged
  <2>1. (IsLog(t, n) /\ LogIsCurrent(t, n))'
    BY <1>1, <2>0, LogUnchanged DEF ImageIInv, Typed
  <2>2. 0 \in 0..n /\ t[0] = LogStart
    BY <2>0 DEF IsLog
  <2>3. InStep(LogStart)'
    <3>1. LogStart.at = 5 /\ LogStart.count = 0 /\ Len(LogStart.todo) = 1
      BY <1>3 DEF LogStart
    <3>2. slots' = places /\ Len(read') = 0 /\ ~(at' > Len(file'))
      BY <1>1, <1>3, <1>4, <1>5
    <3>3. PlacesAgree(LogStart.todo)'
      <4> SUFFICES ASSUME NEW i \in 1..Len(slots')
                   PROVE  PlaceOf(slots[i], LogStart.todo[i])'
        BY DEF PlacesAgree
      <4>1. slots'[i] = Root
        <5>1. Len(slots') = 1
          BY <1>6, <3>2
        <5>2. i = 1
          BY <5>1
        <5> QED BY <1>6, <3>2, <5>2
      <4> QED BY <4>1 DEF PlaceOf
    <3>4. CopiesSoFar'
      BY <3>2 DEF CopiesSoFar
    <3> QED BY <1>1, <1>3, <1>6, <3>1, <3>2, <3>3, <3>4 DEF InStep
  <2> QED BY <2>1, <2>2, <2>3 DEF Followed
<1>9. Phases'
  BY <1>1 DEF Phases, ImageIInv, WriterUnchanged
<1> QED BY <1>2, <1>7, <1>8, <1>9 DEF ImageIInv

\* The reader is in step while nothing is read.
LEMMA FollowedKept ==
  ASSUME Writer, Followed, WriterUnchanged, UNCHANGED <<at, slots, read>>
  PROVE  Followed'
<1>0. PICK n, t : /\ IsLog(t, n) /\ LogIsCurrent(t, n)
                  /\ \E j \in 0..n : InStep(t[j])
  BY DEF Followed
<1>1. (IsLog(t, n) /\ LogIsCurrent(t, n))'
  BY <1>0, LogUnchanged
<1>2. ASSUME NEW s, InStep(s) PROVE InStep(s)'
  <2>1. \A m : /\ ObjectOf(m)' = ObjectOf(m) /\ Fields(m)' = Fields(m)
               /\ \A f : Part(m, f)' = Part(m, f)
    BY DEF ObjectOf, Fields, Part, WriterUnchanged
  <2>2. ASSUME NEW i \in 1..Len(slots') PROVE PlaceOf(slots[i], s.todo[i])'
    <3>1. PlaceOf(slots[i], s.todo[i])
      BY <1>2 DEF InStep, PlacesAgree
    <3> QED BY <2>1, <3>1 DEF PlaceOf
  <2>3. ASSUME NEW m \in 1..Len(read') PROVE CopySoFar(m)'
    <3>1. CopySoFar(m)
      BY <1>2 DEF InStep, CopiesSoFar
    <3>2. ASSUME NEW f \in Fields(m) PROVE Filled(m, f)'
      <4>1. Waiting(m, f) \/ Same(Part(m, f), Value(read, m, f))
        BY <3>1 DEF CopySoFar, Filled
      <4>2. Waiting(m, f)' = Waiting(m, f)
        BY DEF Waiting
      <4>3. Same(Part(m, f), Value(read, m, f))' = Same(Part(m, f), Value(read, m, f))
        BY <2>1 DEF Same, Value, WriterUnchanged
      <4> QED BY <4>1, <4>2, <4>3 DEF Filled
    <3>3. BytesRead(m)' = BytesRead(m)
      BY <2>1 DEF BytesRead
    <3>4. (at > Len(file))' = (at > Len(file))
      BY DEF WriterUnchanged
    <3> QED BY <2>1, <3>1, <3>2, <3>3, <3>4 DEF CopySoFar
  <2>4. PlacesAgree(s.todo)' /\ CopiesSoFar'
    BY <2>2, <2>3 DEF PlacesAgree, CopiesSoFar
  <2> QED BY <1>2, <2>4 DEF InStep, WriterUnchanged
<1> QED BY <1>0, <1>1, <1>2 DEF Followed

\* So does the end of fileIn().
LEMMA LoadedKeeps == ASSUME ImageIInv, Loaded PROVE ImageIInv'
<1>1. /\ phase = "read" /\ phase' = "loaded" /\ slots = <<>>
      /\ WriterUnchanged /\ UNCHANGED <<at, slots, read>>
  BY DEF Loaded, WriterUnchanged
<1>2. Writer' /\ Distinct' /\ Logged' /\ Followed'
  BY <1>1, WriterKept, LoggedKept, FollowedKept DEF ImageIInv, Typed
<1>3. Typed'
  BY <1>1, <1>2 DEF ImageIInv, Typed, WriterUnchanged, SlotsAreTyped, ReadIsTyped, SlotsOfRead
<1>4. Phases'
  BY <1>1 DEF ImageIInv, Phases, WriterUnchanged
<1> QED BY <1>2, <1>3, <1>4 DEF ImageIInv

\* So does a step that changes nothing.
LEMMA StutterKeeps == ASSUME ImageIInv, UNCHANGED imageVars PROVE ImageIInv'
<1>1. WriterUnchanged /\ UNCHANGED <<phase, at, slots, read>>
  BY DEF imageVars, WriterUnchanged
<1>2. Writer' /\ Distinct' /\ Logged' /\ (phase' \in {"read", "loaded"} => Followed')
  BY <1>1, WriterKept, LoggedKept, FollowedKept DEF ImageIInv, Typed
<1>3. Typed'
  BY <1>1, <1>2 DEF ImageIInv, Typed, WriterUnchanged, SlotsAreTyped, ReadIsTyped, SlotsOfRead
<1>4. Phases'
  BY <1>1 DEF ImageIInv, Phases, WriterUnchanged
<1> QED BY <1>2, <1>3, <1>4 DEF ImageIInv

\* Every step keeps the invariant.
LEMMA ImageStep == ASSUME ImageIInv, ImageNext PROVE ImageIInv'
<1>0. Writer /\ Distinct
  BY DEF ImageIInv, Typed
<1>1. ASSUME WriteStops \/ ReadStops PROVE ImageIInv'
  <2>1. WriterUnchanged /\ UNCHANGED <<at, slots, read>> /\ phase' = "error"
    BY <1>1 DEF WriteStops, ReadStops, WriterUnchanged
  <2> QED BY <2>1, Stops
<1>2. CASE WriteInteger
  <2>1. phase = "write"
    BY <1>2 DEF WriteInteger, Writing
  <2>2. CASE phase' = "error"
    <3>1. WriteStops
      BY <1>2, <2>1, <2>2 DEF WriteInteger, Wrote
    <3> QED BY <1>1, <3>1
  <2>3. CASE phase' # "error"
    <3>1. WriterStep /\ UNCHANGED <<phase, lost, written, at, slots, read>>
      BY <1>0, <1>2, <2>3, IntegerWritten
    <3>2. Distinct'
      BY <1>0, <3>1 DEF Distinct
    <3> QED BY <2>1, <3>1, <3>2, WritersKeep
  <2> QED BY <2>2, <2>3
<1>3. CASE WritePrevious
  <2>1. phase = "write"
    BY <1>3 DEF WritePrevious, Writing
  <2>2. WriterStep /\ UNCHANGED <<phase, lost, written, at, slots, read>>
    BY <1>0, <1>3, PreviousWritten
  <2>3. Distinct'
    BY <1>0, <2>2 DEF Distinct
  <2> QED BY <2>1, <2>2, <2>3, WritersKeep
<1>4. CASE WriteTooMany \/ WriteNull
  BY <1>1, <1>4 DEF WriteTooMany, WriteNull
<1>5. CASE WriteBinary \/ WriteObject
  <2>1. phase = "write"
    BY <1>5 DEF WriteBinary, WriteObject, New, Writing
  <2>2. /\ WriterStep /\ UNCHANGED <<phase, lost, at, slots, read>>
        /\ ~IsWritten(Head(todo)) /\ written' = Append(written, Head(todo))
    BY <1>0, <1>5, NewWritten
  <2>3. Distinct'
    <3>0. PICK o, old, new : o = Head(todo) /\ old = written /\ new = written'
      OBVIOUS
    <3>1. /\ old \in Seq(Objects) /\ new = Append(old, o)
          /\ \A i \in 1..Len(old) : old[i] # o
          /\ \A i, k \in 1..Len(old) : i # k => old[i] # old[k]
      BY <1>0, <2>2, <3>0 DEF Writer, Written, IsWritten, Distinct
    <3>2. Len(old) \in Nat /\ Len(new) = Len(old) + 1 /\ new[Len(old) + 1] = o
          /\ \A i \in 1..Len(old) : new[i] = old[i]
      BY <3>1
    <3>3. \A i \in 1..Len(new) : i \in 1..Len(old) \/ i = Len(old) + 1
      BY <3>2
    <3>4. \A i, k \in 1..Len(new) : i # k => new[i] # new[k]
      BY <3>1, <3>2, <3>3
    <3> QED BY <3>0, <3>4 DEF Distinct
  <2> QED BY <2>1, <2>2, <2>3, WritersKeep
<1>6. CASE Reopen
  BY <1>6, ReopenKeeps
<1>7. CASE ReadHeader
  <2>1. CASE phase' = "error"
    <3>1. ReadStops
      BY <1>7, <2>1 DEF ReadHeader
    <3> QED BY <1>1, <3>1
  <2>2. CASE phase' # "error"
    BY <1>7, <2>2, HeaderKeeps
  <2> QED BY <2>1, <2>2
<1>8. CASE ReadInteger \/ ReadPrevious \/ ReadBinary \/ ReadObject
  BY <1>8, ReadersKeep
<1>9. CASE ReadFails
  BY <1>1, <1>9 DEF ReadFails
<1>10. CASE Loaded
  BY <1>10, LoadedKeeps
<1> QED BY <1>2, <1>3, <1>4, <1>5, <1>6, <1>7, <1>8, <1>9, <1>10 DEF ImageNext, Write, Read

\* The writer's records are what the reader follows, in every state.
THEOREM ImageInvariance == ImageSpec => []ImageIInv
<1>1. ImageIInv /\ [ImageNext]_imageVars => ImageIInv'
  BY ImageStep, StutterKeeps
<1> QED BY ImageInitially, <1>1, PTL DEF ImageSpec

\* The file is bytes, nothing is read beyond what was written, and what is read refers
\* to objects that are read, for heaps, limits and cuts of every size.
THEOREM ImageTypeCorrectness == ImageSpec => []ImageTypeOK
<1>1. ImageIInv => ImageTypeOK
  <2> SUFFICES ASSUME ImageIInv PROVE ImageTypeOK
    OBVIOUS
  <2>1. \A i \in DOMAIN file : file[i] \in 0..255
    <3>1. file \in Seq(Bytes)
      BY DEF ImageIInv, Typed, Writer, FileOfBytes
    <3>2. \A i \in DOMAIN file : file[i] \in Bytes
      BY <3>1
    <3> QED BY <3>2 DEF Bytes
  <2>2. \A i \in DOMAIN written : written[i] \in Objects
    BY DEF ImageIInv, Typed, Writer, Written
  <2>3. \A i \in DOMAIN slots : slots[i] = Root \/ slots[i][1] \in DOMAIN read
    <3>1. DOMAIN slots = 1..Len(slots) /\ DOMAIN read = 1..Len(read)
      BY DEF ImageIInv, Typed, SlotsAreTyped, ReadIsTyped
    <3> QED BY <3>1 DEF ImageIInv, Typed, SlotsOfRead
  <2> QED BY <2>1, <2>2, <2>3 DEF ImageIInv, Typed, ImageTypeOK
<1> QED BY ImageInvariance, <1>1, PTL

\* An image that loads is the graph that was written, also when it was cut short: the
\* file that loads has lost nothing that the reader looks for.
THEOREM LoadedAsWritten == ImageSpec => []RoundTrip
<1>1. ImageIInv => RoundTrip
  <2> SUFFICES ASSUME ImageIInv, phase = "loaded"
               PROVE  /\ Len(read) = Len(written)
                      /\ \A i, j \in DOMAIN written : i # j => written[i] # written[j]
                      /\ \A i \in DOMAIN written : CopyOf(i)
    BY DEF RoundTrip
  <2>0. PICK n, t : /\ IsLog(t, n) /\ LogIsCurrent(t, n)
                    /\ \E j \in 0..n : InStep(t[j])
    BY DEF ImageIInv, Followed
  <2>1. PICK j \in 0..n : InStep(t[j])
    BY <2>0
  <2>2. slots = <<>> /\ written \in Seq(Objects) /\ heap \in Heaps
    BY DEF ImageIInv, Phases, Typed, Writer, Written
  <2>3. n \in Nat /\ t[j] \in Records
    BY <2>0, <2>1 DEF IsLog
  <2>4. t[j].todo = <<>>
    <3>1. t[j].todo \in Seq(Values) /\ Len(t[j].todo) = 0
      BY <2>1, <2>2, <2>3 DEF InStep, Records
    <3> QED BY <3>1, EmptySeq
  <2>5. j = n
    <3> SUFFICES ASSUME j # n PROVE FALSE
      OBVIOUS
    <3>1. j \in 0..(n - 1)
      BY <2>1, <2>3
    <3>2. Put(t[j], t[j + 1])
      BY <2>0, <3>1 DEF IsLog
    <3> QED BY <2>4, <3>2 DEF Put
  <2>6. Len(read) = Len(written) /\ DOMAIN written = 1..Len(written)
    BY <2>0, <2>1, <2>2, <2>5 DEF InStep, LogIsCurrent
  <2>7. ASSUME NEW i \in 1..Len(read) PROVE CopyOf(i)
    <3>1. CopySoFar(i) /\ ~(at > Len(file))
      BY <2>1, <2>2 DEF InStep, CopiesSoFar
    <3>2. \A f : ~Waiting(i, f)
      BY <2>2 DEF Waiting
    <3>3. \A f \in Fields(i) : Same(Part(i, f), Value(read, i, f))
      BY <3>1, <3>2 DEF CopySoFar, Filled
    <3>4. Numbering
      BY <2>2, <2>6 DEF Numbering
    <3>5. Len(ObjectOf(i).data) \in Nat
      BY <3>4, ObjectsTyped
    <3>6. Class \in Fields(i)
      BY <3>5 DEF Fields, Class
    <3>7. Same(ObjectOf(i).class, read[i].class)
      BY <3>3, <3>6 DEF Part, Value
    <3>8. \A f \in DOMAIN ObjectOf(i).data : f \in 1..Len(ObjectOf(i).data)
      <4>1. written[i] \in Objects
        BY <3>4, ObjectsTyped
      <4>2. ObjectOf(i).data \in Seq(IF ObjectOf(i).binary THEN Bytes ELSE Values)
        BY <2>2, <4>1, HeapTyped DEF ObjectOf
      <4> QED BY <4>2
    <3>9. ASSUME NEW f \in 1..Len(ObjectOf(i).data)
          PROVE  IF ObjectOf(i).binary THEN read[i].data[f] = ObjectOf(i).data[f]
                 ELSE Same(ObjectOf(i).data[f], read[i].data[f])
      <4>1. CASE ObjectOf(i).binary
        BY <3>1, <4>1 DEF CopySoFar, BytesRead
      <4>2. CASE ~ObjectOf(i).binary
        <5>1. f \in Fields(i) /\ f # Class
          BY <3>5, <4>2 DEF Fields, Class
        <5> QED BY <3>3, <4>2, <5>1 DEF Part, Value
      <4> QED BY <4>1, <4>2
    <3>10. /\ read[i].binary = ObjectOf(i).binary
           /\ Len(read[i].data) = Len(ObjectOf(i).data)
      BY <3>1 DEF CopySoFar
    <3> QED BY <3>7, <3>8, <3>9, <3>10 DEF CopyOf, ObjectOf
  <2>8. \A i, k \in DOMAIN written : i # k => written[i] # written[k]
    BY <2>6 DEF ImageIInv, Distinct
  <2> QED BY <2>6, <2>7, <2>8
<1> QED BY ImageInvariance, <1>1, PTL

-----------------------------------------------------------------------------
(***************************************************************************)
(* Why an image stops                                                      *)
(***************************************************************************)

\* A value that cannot be written comes from an object that was reached.
Reached ==
  \A k \in DOMAIN todo :
    todo[k] \in {NullWord, IntMin} => \E i \in DOMAIN written : Unwritable(written[i])

\* What is added to the list of values, and what is left of it
LEMMA AddedOrLeft ==
  ASSUME Writer, todo # <<>>, NEW rest \in Seq(Values), NEW bytes, Wrote(bytes, rest),
         NEW k \in DOMAIN todo'
  PROVE  \/ \E j \in DOMAIN todo : todo'[k] = todo[j]
         \/ \E f \in DOMAIN rest : todo'[k] = rest[f]
<1>0. PICK old, new, tail : old = todo /\ new = todo' /\ tail = Tail(todo)
  OBVIOUS
<1>1. /\ old \in Seq(Values) /\ old # <<>> /\ tail \in Seq(Values)
      /\ Len(tail) = Len(old) - 1 /\ \A i \in 1..Len(tail) : tail[i] = old[i + 1]
  BY <1>0, HeadTailProperties DEF Writer
<1>2. new = rest \o tail
  BY <1>0 DEF Wrote
<1>3. /\ Len(new) = Len(rest) + Len(tail) /\ new \in Seq(Values)
      /\ \A i \in 1..(Len(rest) + Len(tail)) :
           new[i] = IF i <= Len(rest) THEN rest[i] ELSE tail[i - Len(rest)]
  BY <1>1, <1>2, ConcatProperties
<1>4. PICK a \in Nat, b \in Nat : a = Len(rest) /\ b = Len(tail)
  BY <1>1
<1>5. k \in 1..(a + b)
  BY <1>0, <1>3, <1>4
<1>6. CASE k <= a
  BY <1>0, <1>3, <1>4, <1>5, <1>6
<1>7. CASE ~(k <= a)
  <2>1. k - a \in 1..b
    BY <1>5, <1>7
  <2>2. new[k] = tail[k - a] /\ tail[k - a] = old[(k - a) + 1]
    BY <1>1, <1>3, <1>4, <1>5, <1>7, <2>1
  <2>3. (k - a) + 1 \in DOMAIN old
    BY <1>1, <1>4, <2>1
  <2> QED BY <1>0, <2>2, <2>3
<1> QED BY <1>6, <1>7

\* A class is an object, and a field that cannot be written makes its object so.
LEMMA RestReached ==
  ASSUME Writer, NEW o \in Objects, NEW f \in DOMAIN RestOf(heap[o]),
         RestOf(heap[o])[f] \in {NullWord, IntMin}
  PROVE  Unwritable(o)
<1>0. PICK obj, data, one : obj = heap[o] /\ data = obj.data /\ one = <<obj.class>>
  OBVIOUS
<1>1. /\ obj.class \in Objects /\ obj.binary \in BOOLEAN
      /\ data \in Seq(IF obj.binary THEN Bytes ELSE Values)
  BY <1>0, HeapTyped DEF Writer, Written
<1>2. obj.class \notin {NullWord, IntMin} /\ one \in Seq(Values) /\ Len(one) = 1
      /\ one[1] = obj.class
  BY <1>0, <1>1, ImageAssumption DEF Values
<1>3. ~obj.binary
  <2>1. ASSUME obj.binary PROVE FALSE
    BY <1>0, <1>2, <2>1 DEF RestOf
  <2> QED BY <1>1, <2>1
<1>4. RestOf(heap[o]) = one \o data /\ data \in Seq(Values)
  BY <1>0, <1>1, <1>3 DEF RestOf
<1>5. PICK rest : rest = one \o data
  OBVIOUS
<1>6. /\ Len(rest) = 1 + Len(data) /\ rest \in Seq(Values) /\ Len(data) \in Nat
      /\ \A i \in 1..(1 + Len(data)) : rest[i] = IF i <= 1 THEN one[i] ELSE data[i - 1]
  <2>1. data \in Seq(Values) /\ one \in Seq(Values) /\ Len(one) = 1
    BY <1>2, <1>4
  <2>2. /\ (one \o data) \in Seq(Values) /\ Len(one \o data) = Len(one) + Len(data)
        /\ \A i \in 1..(Len(one) + Len(data)) :
             (one \o data)[i] = IF i <= Len(one) THEN one[i] ELSE data[i - Len(one)]
    BY <2>1, ConcatProperties
  <2>3. Len(data) \in Nat
    BY <2>1
  <2> QED BY <1>5, <2>1, <2>2, <2>3
<1>7. f \in 1..(1 + Len(data)) /\ rest[f] \in {NullWord, IntMin}
  BY <1>4, <1>5, <1>6
<1>8. f # 1
  BY <1>2, <1>6, <1>7
<1>9. f - 1 \in 1..Len(data) /\ ~(f <= 1) /\ data[f - 1] \in {NullWord, IntMin}
  BY <1>6, <1>7, <1>8
<1> QED BY <1>0, <1>4, <1>9 DEF Unwritable

\* What an object adds to the list of values is values.
LEMMA RestTypes ==
  ASSUME Writer, NEW o \in Objects
  PROVE  RestOf(heap[o]) \in Seq(Values)
<1>0. PICK obj, data, one : obj = heap[o] /\ data = obj.data /\ one = <<obj.class>>
  OBVIOUS
<1>1. /\ obj.class \in Objects /\ obj.binary \in BOOLEAN
      /\ data \in Seq(IF obj.binary THEN Bytes ELSE Values)
  BY <1>0, HeapTyped DEF Writer, Written
<1>2. one \in Seq(Values)
  BY <1>0, <1>1 DEF Values
<1>3. ~obj.binary => (one \o data) \in Seq(Values)
  BY <1>1, <1>2, ConcatProperties
<1> QED BY <1>0, <1>1, <1>2, <1>3 DEF RestOf

\* A step adds values of an object that it has reached, or none.
LEMMA ReachedKept ==
  ASSUME ImageIInv, Reached, [ImageNext]_imageVars
  PROVE  Reached'
<1>0. Writer
  BY DEF ImageIInv, Typed
<1>1. ASSUME todo' = todo, heap' = heap, written' = written PROVE Reached'
  BY <1>1 DEF Reached, Unwritable
<1>2. ASSUME NEW bytes, todo # <<>>, Wrote(bytes, <<>>), written' = written PROVE Reached'
  <2>1. PICK none : none = <<>>
    OBVIOUS
  <2>2. none \in Seq(Values) /\ DOMAIN none = {}
    BY <2>1
  <2>3. heap' = heap
    BY <1>2 DEF Wrote
  <2>4. ASSUME NEW k \in DOMAIN todo'
        PROVE  \E j \in DOMAIN todo : todo'[k] = todo[j]
    BY <1>0, <1>2, <2>1, <2>2, <2>4, AddedOrLeft
  <2> QED BY <1>2, <2>3, <2>4 DEF Reached, Unwritable
<1>3. CASE WriteInteger
  BY <1>1, <1>2, <1>3 DEF WriteInteger, Writing, WriteStops
<1>4. CASE WritePrevious
  BY <1>2, <1>4 DEF WritePrevious, Writing
<1>5. CASE WriteBinary \/ WriteObject
  <2>0. PICK o, rest, bytes :
          o = Head(todo) /\ bytes = BytesOf(heap[o]) /\ rest = RestOf(heap[o])
    OBVIOUS
  <2>1. /\ todo # <<>> /\ ~IS_SMALLINT(o) /\ o # NullWord /\ Wrote(bytes, rest)
        /\ written' = Append(written, o) /\ heap' = heap
    BY <1>5, <2>0 DEF WriteBinary, WriteObject, New, Writing, BytesOf, RestOf, Wrote
  <2>2. o \in Objects
    <3>1. <<>> \in Seq(Values)
      OBVIOUS
    <3> QED BY <1>0, <2>0, <2>1, <3>1, RestTyped, ValueTypes
  <2>3. rest \in Seq(Values)
    BY <1>0, <2>0, <2>2, RestTypes
  <2>4. /\ \A i \in DOMAIN written : i \in DOMAIN written' /\ written'[i] = written[i]
        /\ \E i \in DOMAIN written' : written'[i] = o
    <3>1. PICK old, new : old = written /\ new = written'
      OBVIOUS
    <3>2. old \in Seq(Objects) /\ new = Append(old, o)
      BY <1>0, <2>1, <3>1 DEF Writer, Written
    <3>3. /\ new \in Seq(Objects) /\ Len(new) = Len(old) + 1 /\ Len(old) \in Nat
          /\ new[Len(old) + 1] = o /\ \A i \in 1..Len(old) : new[i] = old[i]
      BY <2>2, <3>2, AppendProperties
    <3>4. Len(old) + 1 \in DOMAIN new /\ \A i \in DOMAIN old : i \in DOMAIN new
      BY <3>2, <3>3
    <3> QED BY <3>1, <3>2, <3>3, <3>4
  <2> SUFFICES ASSUME NEW k \in DOMAIN todo', todo'[k] \in {NullWord, IntMin}
               PROVE  \E i \in DOMAIN written' : Unwritable(written'[i])
    BY <2>1 DEF Reached, Unwritable
  <2>6. CASE \E j \in DOMAIN todo : todo'[k] = todo[j]
    <3>1. PICK i \in DOMAIN written : Unwritable(written[i])
      BY <2>6 DEF Reached
    <3>2. i \in DOMAIN written' /\ Unwritable(written'[i])
      BY <2>4, <3>1
    <3> QED BY <3>2
  <2>7. CASE \E f \in DOMAIN rest : todo'[k] = rest[f]
    <3>1. Unwritable(o)
      BY <1>0, <2>0, <2>2, <2>7, RestReached
    <3>2. PICK i \in DOMAIN written' : written'[i] = o
      BY <2>4
    <3> QED BY <3>1, <3>2
  <2> QED BY <1>0, <2>1, <2>3, <2>6, <2>7, AddedOrLeft
<1>6. CASE WriteTooMany \/ WriteNull \/ Reopen \/ Read \/ UNCHANGED imageVars
  BY <1>1, <1>6 DEF WriteTooMany, WriteNull, WriteStops, Reopen, Read, ReadHeader,
     ReadInteger, ReadPrevious, ReadBinary, ReadObject, ReadFails, ReadStops, Loaded,
     imageVars
<1> QED BY <1>3, <1>4, <1>5, <1>6 DEF ImageNext, Write

\* The file ends before the last record of the writer only if it has lost bytes.
LEMMA LostBytes ==
  ASSUME ImageIInv, NEW n, NEW t, IsLog(t, n), LogIsCurrent(t, n), NEW i \in 0..n,
         t[i].at > Len(file)
  PROVE  lost > 0
<1>1. n \in 0..n /\ t[n] \in Records /\ t[i] \in Records /\ t[i].at <= t[n].at
  BY DEF IsLog
<1>2. t[n].at \in Nat /\ t[i].at \in Nat /\ Len(file) \in Nat /\ lost \in Nat
  BY <1>1 DEF Records, ImageIInv, Typed, Writer, FileOfBytes
<1>3. t[n].at <= Len(file) + lost
  BY DEF LogIsCurrent
<1> QED BY <1>1, <1>2, <1>3

\* A step that stops has a cause.
LEMMA StopsForCause ==
  ASSUME ImageIInv, Reached, ImageStopsForCause, ImageNext
  PROVE  ImageStopsForCause'
<1> DEFINE Cause == \/ Len(written) > MaxObjects
                    \/ \E i \in DOMAIN written : Unwritable(written[i])
                    \/ lost > 0
<1> SUFFICES ASSUME phase' = "error" PROVE Cause'
  BY DEF ImageStopsForCause
<1>1. ASSUME ReadStops, lost > 0 PROVE Cause'
  BY <1>1 DEF ReadStops
<1>2. ASSUME WriteStops, todo # <<>>, Head(todo) \in {NullWord, IntMin} PROVE Cause'
  <2>1. PICK old : old = todo
    OBVIOUS
  <2>2. old \in Seq(Values) /\ old # <<>>
    BY <1>2, <2>1 DEF ImageIInv, Typed, Writer
  <2>3. 1 \in DOMAIN old /\ old[1] = Head(old)
    BY <2>2
  <2>4. \E i \in DOMAIN written : Unwritable(written[i])
    BY <1>2, <2>1, <2>3 DEF Reached
  <2> QED BY <1>2, <2>4 DEF WriteStops, Unwritable
<1>3. CASE WriteInteger
  <2>1. todo # <<>> /\ phase = "write"
    BY <1>3 DEF WriteInteger, Writing
  <2>2. PICK v : v = Head(todo)
    OBVIOUS
  <2>3. v \in Int /\ IntMin \in Int
    BY <1>3, <2>2, ImageAssumption DEF WriteInteger, IS_SMALLINT
  <2>4. ~(v >= 0) /\ Negated(v) < 0 /\ WriteStops
    BY <1>3, <2>1, <2>2, <2>3 DEF WriteInteger, Wrote
  <2>5. v = IntMin
    BY <2>3, <2>4 DEF Negated
  <2> QED BY <1>2, <2>1, <2>2, <2>4, <2>5
<1>4. CASE WriteNull
  BY <1>2, <1>4 DEF WriteNull, Writing
<1>5. CASE WritePrevious \/ WriteBinary \/ WriteObject
  BY <1>5 DEF WritePrevious, WriteBinary, WriteObject, New, Writing, Wrote
<1>6. CASE WriteTooMany
  BY <1>6 DEF WriteTooMany, WriteStops
<1>7. CASE Reopen \/ Loaded
  BY <1>7 DEF Reopen, Loaded
<1>8. CASE ReadHeader
  <2>1. ReadStops /\ Len(file) < Len(Header)
    BY <1>8 DEF ReadHeader
  <2>2. PICK n, t : IsLog(t, n) /\ LogIsCurrent(t, n)
    BY DEF ImageIInv, Logged
  <2>3. t[0].at = Len(Header) /\ 0 \in 0..n
    BY <2>2 DEF IsLog, LogStart
  <2>4. Len(file) \in Nat /\ Len(Header) = 5
    BY DEF ImageIInv, Typed, Writer, FileOfBytes, Header
  <2>5. t[0].at > Len(file)
    BY <2>1, <2>3, <2>4
  <2>6. lost > 0
    BY <2>2, <2>3, <2>5, LostBytes
  <2> QED BY <1>1, <2>1, <2>6
<1>9. CASE ReadInteger \/ ReadPrevious \/ ReadBinary \/ ReadObject \/ ReadFails
  <2>1. phase = "read" /\ slots # <<>>
    BY <1>9 DEF ReadInteger, ReadPrevious, ReadBinary, ReadObject, ReadFails, Reading
  <2>2. PICK n, t : /\ IsLog(t, n) /\ LogIsCurrent(t, n)
                    /\ \E j \in 0..(n - 1) :
                         /\ j + 1 \in 0..n
                         /\ t[j] \in Records /\ t[j + 1] \in Records
                         /\ Follows(t[j], t[j + 1])
    BY <2>1, WriterAhead
  <2>3. PICK j \in 0..(n - 1) : /\ j + 1 \in 0..n
                                /\ t[j] \in Records /\ t[j + 1] \in Records
                                /\ Follows(t[j], t[j + 1])
    BY <2>2
  <2>4. CASE ReadInteger \/ ReadBinary \/ ReadObject
    BY <2>1, <2>4 DEF ReadInteger, ReadBinary, ReadObject
  <2>5. CASE ReadPrevious
    BY <2>1, <2>3, <2>5, PreviousRead
  <2>6. CASE ReadFails
    <3>1. NextTag.type \notin 1..6 /\ ReadStops
      BY <2>6 DEF ReadFails, LST_OBJ_TYPE, LST_NIL_TYPE
    <3>2. t[j + 1].at > Len(file)
      BY <2>3, <3>1, TagTells
    <3>3. lost > 0
      BY <2>2, <2>3, <3>2, LostBytes
    <3> QED BY <1>1, <3>1, <3>3
  <2> QED BY <1>9, <2>4, <2>5, <2>6
<1> QED BY <1>3, <1>4, <1>5, <1>6, <1>7, <1>8, <1>9 DEF ImageNext, Write, Read

\* Whatever the heap, the limit and the cut, an image stops on its way only for a
\* cause that is in the heap or in the file (error() in objectWrite() and in
\* objectRead()): more objects than the limit, a NULL or the least int in an object
\* that the writer reached, or bytes that were lost.
THEOREM ImagesStopForCause == ImageSpec => []ImageStopsForCause
<1>1. ImageInit => Reached /\ ImageStopsForCause
  <2> SUFFICES ASSUME ImageInit PROVE Reached /\ ImageStopsForCause
    OBVIOUS
  <2>1. PICK first : first = todo
    OBVIOUS
  <2>2. globalsObject \notin {NullWord, IntMin}
    BY ImageAssumption
  <2>3. first = <<globalsObject>>
    BY <2>1 DEF ImageInit
  <2>4. \A k \in DOMAIN first : first[k] = globalsObject
    BY <2>3
  <2> QED BY <2>1, <2>2, <2>4 DEF Reached, ImageInit, ImageStopsForCause
<1>2. ImageIInv /\ Reached /\ ImageStopsForCause /\ [ImageNext]_imageVars
        => Reached' /\ ImageStopsForCause'
  <2> SUFFICES ASSUME ImageIInv, Reached, ImageStopsForCause, [ImageNext]_imageVars
               PROVE  Reached' /\ ImageStopsForCause'
    OBVIOUS
  <2>1. Reached'
    BY ReachedKept
  <2>2. CASE ImageNext
    BY <2>1, <2>2, StopsForCause
  <2>3. CASE UNCHANGED imageVars
    BY <2>1, <2>3 DEF imageVars, ImageStopsForCause, Unwritable
  <2> QED BY <2>1, <2>2, <2>3
<1> QED BY ImageInvariance, <1>1, <1>2, PTL DEF ImageSpec
=============================================================================
