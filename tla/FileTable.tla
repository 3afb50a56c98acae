----------------------------- MODULE FileTable -----------------------------
(***************************************************************************)
(* The open files of the VM: the table filePointers of src/vm/prim.c, the  *)
(* primitives 100 to 108 that work on it, and the class File of            *)
(* src/smalltalk/system/lst.st, whose instances hold an index into it.     *)
(*                                                                         *)
(* fileID belongs to the image, filePointers to the process that runs it:  *)
(* an image written by primitive 104 and started again brings back the     *)
(* first without the second.                                               *)
(*                                                                         *)
(* Streams stand for the FILEs of the C library, numbered in the order in  *)
(* which fopen() returns them; what a stream reads or writes is left out,  *)
(* its position is not.                                                    *)
(***************************************************************************)
EXTENDS Integers, FiniteSets

CONSTANTS
  Files,         \* the File objects of the image
  FILEMAX,       \* entries of filePointers
  nil,           \* the nil of the image
  Object,        \* any other object of the image that is not a SmallInt
  NULL,          \* no stream
  FileSize,      \* bytes in every file
  MaxStreams,    \* bound on the number of calls of fopen()
  MaxStarts      \* bound on the number of times the image is started

ASSUME FileAssumption ==
  /\ FILEMAX \in Nat \ {0}
  /\ FileSize \in Nat /\ MaxStreams \in Nat /\ MaxStarts \in Nat
  /\ \A x \in {nil, Object, NULL} : x \notin Int
  /\ nil # Object

Indices == 0..(FILEMAX - 1)
Stream == 1..MaxStreams

VARIABLES
  running,       \* FALSE once error() has ended the process
  filePointers,  \* index -> stream or NULL
  streams,       \* the streams opened so far in this process
  closed,        \* those that fclose() has released
  position,      \* stream -> its position
  fileID,        \* File object -> nil, an index, or some other object
  image,         \* fileID as it was when the image was last written, or NULL
  starts,        \* times the image has been started again
  own,           \* history: File object -> the stream it opened, or NULL
  answer         \* history: what the last seek was asked for and answered

vars == <<running, filePointers, streams, closed, position, fileID, image,
          starts, own, answer>>
table == <<filePointers, streams, closed, running>>

Init ==
  /\ running = TRUE
  /\ filePointers = [i \in Indices |-> NULL]
  /\ streams = {}
  /\ closed = {}
  /\ position = [s \in Stream |-> 0]
  /\ fileID = [f \in Files |-> nil]
  /\ image = NULL
  /\ starts = 0
  /\ own = [f \in Files |-> NULL]
  /\ answer = NULL

\* Mutant: one entry too many is looked at.
FreeOneTooMany ==
  {i \in 0..FILEMAX : i \notin Indices \/ filePointers[i] = NULL}

\* The entries that hold no stream
Free == {i \in Indices : filePointers[i] = NULL}

-----------------------------------------------------------------------------
(***************************************************************************)
(* File class>>openRead: and its like.  A new File takes the place of one  *)
(* that is closed.                                                         *)
(***************************************************************************)
Open(f) ==
  /\ running
  /\ fileID[f] = nil
  /\ Cardinality(streams) < MaxStreams
  /\ LET fp == Cardinality(streams) + 1 IN
       /\ streams' = streams \cup {fp}
       /\ \/ /\ Free = {}                   \* error("too many open files")
             /\ running' = FALSE
             /\ UNCHANGED <<filePointers, fileID, own>>
          \/ \E i \in Free :
                /\ \A j \in Free : i <= j
                /\ filePointers' = [filePointers EXCEPT ![i] = fp]
                /\ fileID' = [fileID EXCEPT ![f] = i]
                /\ own' = [own EXCEPT ![f] = fp]
                /\ UNCHANGED running
  /\ UNCHANGED <<closed, position, image, starts, answer>>

\* fopen() returns NULL and primitive 100 fails.  doOpen:mode: then answers
\* self, which is the name of the file (the first argument of the primitive)
\* or, if a collection took place meanwhile, the class File: not nil.
OpenFails(f) ==
  /\ running
  /\ fileID[f] = nil
  /\ fileID' = [fileID EXCEPT ![f] = Object]
  /\ own' = [own EXCEPT ![f] = NULL]
  /\ UNCHANGED <<table, position, image, starts, answer>>

\* (i < 0) || (i >= FILEMAX) || !(fp = filePointers[i]), negated.  The address
\* of an object, shifted, is taken to be no index.
Found(f) == fileID[f] \in Indices /\ filePointers[fileID[f]] # NULL
Pointer(f) == filePointers[fileID[f]]

\* Mutant: close leaves the File its index.
CloseKeepsID(f) ==
  /\ running
  /\ fileID[f] # nil
  /\ closed' = IF Found(f) THEN closed \cup {Pointer(f)} ELSE closed
  /\ UNCHANGED <<fileID, filePointers, streams, running, position, image,
                 starts, own, answer>>

\* File>>close and primitive 103.  The entry keeps the stream.
Close(f) ==
  /\ running
  /\ fileID[f] # nil
  /\ closed' = IF Found(f) THEN closed \cup {Pointer(f)} ELSE closed
  /\ fileID' = [fileID EXCEPT ![f] = nil]
  /\ UNCHANGED <<filePointers, streams, running, position, image, starts, own,
                 answer>>

\* readChar, writeCharValue:, at:get: and at:put: once they are in place, with
\* primitives 101, 102, 106 and 107: n bytes are transferred.  They fail, and
\* change nothing, when the File has no stream or the count is out of bounds.
Transfer(f, n) ==
  /\ running
  /\ Found(f)
  /\ position[Pointer(f)] + n <= FileSize
  /\ position' = [position EXCEPT ![Pointer(f)] = @ + n]
  /\ UNCHANGED <<table, fileID, image, starts, own, answer>>

\* at: and primitive 108, which answers what fseek() returned.
Seek(f, i) ==
  /\ running
  /\ Found(f)
  /\ position' = [position EXCEPT ![Pointer(f)] = i]
  /\ answer' = [asked |-> i, answered |-> 0]
  /\ UNCHANGED <<table, fileID, image, starts, own>>

\* writeImage and primitive 104: the image holds every File as it is.
WriteImage(f) ==
  /\ running
  /\ Found(f)
  /\ image' = fileID
  /\ UNCHANGED <<table, position, fileID, starts, own, answer>>

\* The process ends, however it does, and another starts from the image.
Start ==
  /\ starts < MaxStarts
  /\ image # NULL
  /\ starts' = starts + 1
  /\ running' = TRUE
  /\ filePointers' = [i \in Indices |-> NULL]
  /\ streams' = {}
  /\ closed' = {}
  /\ position' = [s \in Stream |-> 0]
  /\ fileID' = image
  /\ own' = [f \in Files |-> NULL]
  /\ answer' = NULL
  /\ UNCHANGED image

Next ==
  \/ \E f \in Files :
       \/ Open(f) \/ OpenFails(f) \/ Close(f) \/ WriteImage(f)
       \/ \E n \in 1..FileSize : Transfer(f, n)
       \/ \E i \in 0..FileSize : Seek(f, i)
  \/ Start

Spec == Init /\ [][Next]_vars

-----------------------------------------------------------------------------
\* The table and the Files hold what the primitives take them to hold.
TypeOK ==
  /\ running \in BOOLEAN
  /\ filePointers \in [Indices -> streams \cup {NULL}]
  /\ streams \subseteq Stream
  /\ closed \subseteq streams
  /\ position \in [Stream -> 0..FileSize]
  /\ fileID \in [Files -> Indices \cup {nil, Object}]
  /\ image = NULL \/ image \in [Files -> Indices \cup {nil, Object}]
  /\ own \in [Files -> Stream \cup {NULL}]
  /\ starts \in Nat

\* A File works on the stream it opened itself and has not closed, whatever
\* others open and close meanwhile: never on one that was released and never
\* on another File's; one that is not open answers 'file is not open'.
OwnStream ==
  \A f \in Files : Found(f) => /\ Pointer(f) = own[f]
                               /\ Pointer(f) \notin closed

\* That is so until the image is started again.
OwnStreamAtFirst == starts = 0 => OwnStream

\* "opened ^ fileID notNil", by which fileIn: and image: tell a file that they
\* could not open.
OpenedIsOpen ==
  running => \A f \in Files : fileID[f] # nil => Found(f)

\* error("too many open files")
StopsWhenFull == ~running => Cardinality(streams \ closed) > FILEMAX

\* "Return position as our value" (primitive 108)
SeekAnswersPosition == answer # NULL => answer.answered = answer.asked
=============================================================================
