----------------------------- MODULE ImageFile -----------------------------
(***************************************************************************)
(* The image file, version 3: fileOut_object_version_3(), objectWrite(),   *)
(* fileIn_version_3() and objectRead() of src/vm/image.c.                  *)
(*                                                                         *)
(* Writer and reader follow the objects that can be reached from globals   *)
(* in the same order and give each the number of its first occurrence; the *)
(* file holds bytes.  Their recursion is a list of what is still to be     *)
(* written and of the places that are still to be filled.  The file may be *)
(* cut short between the two.                                              *)
(***************************************************************************)
EXTENDS Integers, Sequences

CONSTANTS
  Objects,
  globalsObject,
  NullWord,      \* NULL, the word 0, which is no object
  Heaps,         \* the heaps: object -> [binary, class, data]
  IntMin,        \* the least int, which has no opposite
  MaxObjects,    \* imageMaxNumberOfObjects
  Cuts           \* how many bytes the file may lose at its end

IntMax == -(IntMin + 1)

\* Integers, sizes and numbers of objects are ints, of 32 bits or fewer.  A
\* field may be NULL: the unused words of the stack of a context are, and the
\* temporaries of one that has none (interp.c:561, 575).
ASSUME ImageAssumption ==
  /\ IntMin \in Int /\ (-128) * 256 * 256 * 256 <= IntMin /\ IntMin < 0
  /\ \A o \in Objects \cup {NullWord} : o \notin Int
  /\ NullWord \notin Objects
  /\ globalsObject \in Objects
  /\ \A h \in Heaps, o \in Objects :
       /\ h[o].binary \in BOOLEAN
       /\ h[o].class \in Objects
       /\ ~h[globalsObject].binary
       /\ h[o].data \in Seq(IF h[o].binary THEN 0..255
                            ELSE Objects \cup {NullWord} \cup Int)
       /\ \A f \in DOMAIN h[o].data :
            \/ h[o].data[f] \in Objects \cup {NullWord}
            \/ h[o].data[f] \in IntMin..IntMax
       /\ Len(h[o].data) <= IntMax
  /\ MaxObjects \in 0..IntMax
  /\ Cuts \subseteq Nat

VARIABLES
  phase,         \* "write", "header", "read", "loaded" or "error"
  heap,          \* the heap that is written
  file,          \* the bytes of the file
  lost,          \* how many of them it has lost at its end
  todo,          \* the values still to be written
  written,       \* indirArray of the writer: the objects, in order
  at,            \* the number of bytes read
  slots,         \* the places still to be filled, <<object, field>>
  read           \* the objects read, in order: indirArray and their contents

imageVars == <<phase, heap, file, lost, todo, written, at, slots, read>>

\* The types of tags, in the three bits that they occupy
EOF == -1
LST_OBJ_TYPE == 1
LST_PINT_TYPE == 2
LST_NINT_TYPE == 3
LST_BARRAY_TYPE == 4
LST_POBJ_TYPE == 5
LST_NIL_TYPE == 6
LST_SMALL_TAG_LIMIT == 15

Header == <<108, 115, 116, 33, 3>>      \* "lst!" and the version

IS_SMALLINT(v) == v \in Int
Class == 0                              \* the place of the class in an object
Root == <<0, Class>>                    \* the variable globalsObject

ImageInit ==
  /\ phase = "write"
  /\ heap \in Heaps
  /\ file = Header
  /\ lost = 0
  /\ todo = <<globalsObject>>
  /\ written = <<>>
  /\ at = 0
  /\ slots = <<>>
  /\ read = <<>>

-----------------------------------------------------------------------------
(***************************************************************************)
(* Tags                                                                    *)
(***************************************************************************)

\* Bytes for a value that does not fit the tag itself, which is none or more
getIntSize(val) ==
  IF val <= LST_SMALL_TAG_LIMIT THEN 0
  ELSE IF val <= 127 THEN 1
  ELSE IF val <= 32767 THEN 2
  ELSE IF val <= 8388608 THEN 3 ELSE 4

\* What a byte after the tag counts
Weight == <<1, 256, 256 * 256, 256 * 256 * 256>>

\* writeTag() of a value that is not negative
Tag(type, val) ==
  LET size == getIntSize(val) IN
    IF size = 0 THEN <<type * 32 + val>>
    ELSE <<type * 32 + 16 + size>> \o
         [i \in 1..size |-> (val \div Weight[i]) % 256]

Byte(i) == file[i + 1]

\* Mutant: a file that has ended goes on with references to globals.
NoTagNil == [type |-> LST_NIL_TYPE, val |-> 0, next |-> at]

\* The tag of a file that has ended
NoTag == [type |-> EOF]
Ends(i) == i >= Len(file)

\* The value in the bytes after byte i, four at most
ValueAt(i, length) ==
  LET part(k) == IF k > length THEN 0 ELSE Byte(i + k) * Weight[k]
  IN  part(1) + part(2) + part(3) + part(4)

\* readTag() at byte i: the type, the value, and what follows, or EOF
TagAt(i) ==
  LET size == Byte(i) % 32
      length == size - 16
      type == Byte(i) \div 32
  IN  IF Ends(i) THEN NoTag
      ELSE IF size < 16 THEN [type |-> type, val |-> size, next |-> i + 1]
      ELSE IF Ends(i + length) THEN NoTag
      ELSE [type |-> type, val |-> ValueAt(i, length), next |-> i + length + 1]

-----------------------------------------------------------------------------
(***************************************************************************)
(* objectWrite(), one value at a time                                      *)
(***************************************************************************)
Writing == phase = "write" /\ todo # <<>> /\ Len(written) <= MaxObjects
WriteStops ==
  /\ phase' = "error"
  /\ UNCHANGED <<heap, file, lost, todo, written, at, slots, read>>

Wrote(bytes, rest) ==
  /\ file' = file \o bytes
  /\ todo' = rest \o Tail(todo)
  /\ UNCHANGED <<phase, heap, lost, at, slots, read>>

Negated(v) == IF v = IntMin THEN IntMin ELSE -v

\* getIntSize() stops at a negative value.
WriteInteger ==
  /\ Writing
  /\ LET v == Head(todo) IN
       /\ IS_SMALLINT(v)
       /\ IF v >= 0 THEN Wrote(Tag(LST_PINT_TYPE, v), <<>>) /\ UNCHANGED written
          ELSE IF Negated(v) < 0 THEN WriteStops
          ELSE Wrote(Tag(LST_NINT_TYPE, Negated(v)), <<>>) /\ UNCHANGED written

\* "writing out a NULL object!"
WriteNull ==
  /\ Writing
  /\ Head(todo) = NullWord
  /\ WriteStops

IsWritten(o) == \E i \in DOMAIN written : written[i] = o

\* An object already written is its number, which for globals is a type of tag.
WritePrevious ==
  /\ Writing
  /\ ~IS_SMALLINT(Head(todo))
  /\ IsWritten(Head(todo))
  /\ LET i == (CHOOSE j \in DOMAIN written : written[j] = Head(todo)) - 1 IN
       Wrote(IF i = 0 THEN Tag(LST_NIL_TYPE, 0) ELSE Tag(LST_POBJ_TYPE, i), <<>>)
  /\ UNCHANGED written

New == /\ Writing
       /\ ~IS_SMALLINT(Head(todo)) /\ Head(todo) # NullWord
       /\ ~IsWritten(Head(todo))

\* Mutant: the limit is taken for one object too many.
WriteTooManyEarly ==
  /\ phase = "write" /\ todo # <<>>
  /\ Len(written) >= MaxObjects
  /\ WriteStops

\* "too many indirect objects", whatever the value is
WriteTooMany ==
  /\ phase = "write" /\ todo # <<>>
  /\ Len(written) > MaxObjects
  /\ WriteStops

\* Bytes, then the class
WriteBinary ==
  /\ New
  /\ LET obj == heap[Head(todo)] IN
       /\ obj.binary
       /\ Wrote(Tag(LST_BARRAY_TYPE, Len(obj.data)) \o obj.data, <<obj.class>>)
  /\ written' = Append(written, Head(todo))

\* The class, then the fields
WriteObject ==
  /\ New
  /\ LET obj == heap[Head(todo)] IN
       /\ ~obj.binary
       /\ Wrote(Tag(LST_OBJ_TYPE, Len(obj.data)), <<obj.class>> \o obj.data)
  /\ written' = Append(written, Head(todo))

\* fileOut() is done; the file is read again, whole or cut short.
Reopen ==
  /\ phase = "write"
  /\ todo = <<>>
  /\ lost' \in Cuts
  /\ file' = SubSeq(file, 1, Len(file) - lost')
  /\ phase' = "header"
  /\ UNCHANGED <<heap, todo, written, at, slots, read>>

-----------------------------------------------------------------------------
(***************************************************************************)
(* objectRead(), one value at a time                                       *)
(***************************************************************************)
ReadStops ==
  /\ phase' = "error"
  /\ UNCHANGED <<heap, file, lost, todo, written, at, slots, read>>

\* get_image_version()
ReadHeader ==
  /\ phase = "header"
  /\ IF Len(file) < Len(Header) THEN ReadStops
     ELSE /\ phase' = "read"
          /\ at' = Len(Header)
          /\ slots' = <<Root>>
          /\ UNCHANGED <<heap, file, lost, todo, written, read>>

Reading == phase = "read" /\ slots # <<>>
NextTag == TagAt(at)

\* The value goes to the first place that waits for one: a field, the class of
\* an object, or globalsObject.
Stored(objects, value) ==
  LET o == Head(slots)[1]
      field == Head(slots)[2]
  IN  IF Head(slots) = Root THEN objects
      ELSE IF field = Class THEN [objects EXCEPT ![o].class = value]
      ELSE [objects EXCEPT ![o].data[field] = value]

Reference(n) == [object |-> n]
Integer(i) == [int |-> i]

ReadInteger ==
  /\ Reading
  /\ NextTag.type \in {LST_PINT_TYPE, LST_NINT_TYPE}
  /\ read' = Stored(read, Integer(IF NextTag.type = LST_NINT_TYPE THEN -NextTag.val
                                  ELSE NextTag.val))
  /\ at' = NextTag.next
  /\ slots' = Tail(slots)
  /\ UNCHANGED <<phase, heap, file, lost, todo, written>>

ReadPrevious ==
  /\ Reading
  /\ NextTag.type \in {LST_POBJ_TYPE, LST_NIL_TYPE}
  /\ IF NextTag.type = LST_POBJ_TYPE /\ NextTag.val > Len(read) THEN ReadStops
     ELSE /\ read' = Stored(read, Reference(
                       IF NextTag.type = LST_NIL_TYPE THEN 1 ELSE NextTag.val + 1))
          /\ at' = NextTag.next
          /\ slots' = Tail(slots)
          /\ UNCHANGED <<phase, heap, file, lost, todo, written>>

\* Mutant: numbers are given from one object too far.
NewNumberSkipped == Len(read) + 2

\* indirtop++
NewNumber == Len(read) + 1

\* A byte after the end of the file is (uint8_t)EOF.
ReadBinary ==
  /\ Reading
  /\ NextTag.type = LST_BARRAY_TYPE
  /\ LET bytes == [i \in 1..NextTag.val |->
                     IF Ends(NextTag.next + i - 1) THEN 255
                     ELSE Byte(NextTag.next + i - 1)]
         new == NewNumber
     IN  /\ read' = Append(Stored(read, Reference(new)),
                           [binary |-> TRUE, class |-> 0, data |-> bytes])
         /\ slots' = <<<<new, Class>>>> \o Tail(slots)
  /\ at' = NextTag.next + NextTag.val
  /\ UNCHANGED <<phase, heap, file, lost, todo, written>>

\* Mutant: the fields are read before the class.
PlacesFieldsFirst(new, size) ==
  [i \in 1..(size + 1) |-> IF i <= size THEN <<new, i>> ELSE <<new, Class>>]

\* The class, then the fields
Places(new, size) ==
  [i \in 1..(size + 1) |-> IF i = 1 THEN <<new, Class>> ELSE <<new, i - 1>>]

ReadObject ==
  /\ Reading
  /\ NextTag.type = LST_OBJ_TYPE
  /\ LET new == NewNumber IN
       /\ read' = Append(Stored(read, Reference(new)),
                         [binary |-> FALSE, class |-> 0,
                          data |-> [i \in 1..NextTag.val |-> 0]])
       /\ slots' = Places(new, NextTag.val) \o Tail(slots)
  /\ at' = NextTag.next
  /\ UNCHANGED <<phase, heap, file, lost, todo, written>>

\* Mutant: the end of the file is not noticed.
ReadFailsInFile ==
  /\ Reading
  /\ NextTag.type = 0
  /\ ReadStops

\* error("Unexpected EOF reading image file"), "Illegal tag type"
ReadFails ==
  /\ Reading
  /\ NextTag.type \notin LST_OBJ_TYPE..LST_NIL_TYPE
  /\ ReadStops

Loaded ==
  /\ phase = "read"
  /\ slots = <<>>
  /\ phase' = "loaded"
  /\ UNCHANGED <<heap, file, lost, todo, written, at, slots, read>>

Write == \/ WriteInteger \/ WriteNull \/ WritePrevious \/ WriteTooMany
         \/ WriteBinary \/ WriteObject
Read == \/ ReadHeader \/ ReadInteger \/ ReadPrevious \/ ReadBinary
        \/ ReadObject \/ ReadFails \/ Loaded
ImageNext == Write \/ Reopen \/ Read

\* fileOut() and fileIn() run to their end.
ImageSpec == ImageInit /\ [][ImageNext]_imageVars /\ WF_imageVars(ImageNext)

-----------------------------------------------------------------------------
\* A file is bytes, and nothing is read beyond what was written; what is read
\* refers to objects that are read.
ImageTypeOK ==
  /\ phase \in {"write", "header", "read", "loaded", "error"}
  /\ \A i \in DOMAIN file : file[i] \in 0..255
  /\ \A i \in DOMAIN written : written[i] \in Objects
  /\ at <= Len(file) + lost
  /\ \A i \in DOMAIN slots : slots[i] = Root \/ slots[i][1] \in DOMAIN read

\* Object number i of the reader is a copy of object number i of the writer.
Same(value, copy) ==
  IF IS_SMALLINT(value) THEN copy = Integer(value)
  ELSE /\ "object" \in DOMAIN copy
       /\ copy.object \in DOMAIN written
       /\ written[copy.object] = value
CopyOf(i) ==
  LET obj == heap[written[i]] IN
    /\ read[i].binary = obj.binary
    /\ Same(obj.class, read[i].class)
    /\ Len(read[i].data) = Len(obj.data)
    /\ \A f \in DOMAIN obj.data :
         IF obj.binary THEN read[i].data[f] = obj.data[f]
         ELSE Same(obj.data[f], read[i].data[f])

\* An image that loads is the graph that was written: same classes, bytes and
\* integers, the same sharing and the same cycles.  That holds of a file that was
\* cut short as well: it loads as it was or not at all.
RoundTrip ==
  phase = "loaded" =>
    /\ Len(read) = Len(written)
    /\ \A i, j \in DOMAIN written : i # j => written[i] # written[j]
    /\ \A i \in DOMAIN written : CopyOf(i)

\* An object that objectWrite() cannot write: a field is NULL or the least int.
Unwritable(o) == \E f \in DOMAIN heap[o].data : heap[o].data[f] \in {NullWord, IntMin}

\* An image stops on its way, in the middle of its file or of reading it, only
\* for a cause that is in the heap or in the file: it had more objects than the
\* limit, one of those that it had reached cannot be written, or bytes were
\* lost afterwards.
ImageStopsForCause ==
  phase = "error" =>
    \/ Len(written) > MaxObjects
    \/ \E i \in DOMAIN written : Unwritable(written[i])
    \/ lost > 0

\* "if it is negative, we use the positive value and use a special tag" and
\* "Save images.": an image within the limit that loses nothing is written and
\* loads, whatever its fields hold.
WholeFileLoads ==
  phase = "error" => Len(written) > MaxObjects \/ lost > 0

\* Writing and reading end, also for graphs with cycles.
Completes == <>(phase \in {"loaded", "error"})
=============================================================================
