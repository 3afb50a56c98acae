------------------------------ MODULE MCInterp ------------------------------
(***************************************************************************)
(* Small programs for Interp, as the models of the two compilers compile   *)
(* them: the compilers and the interpreter composed.                       *)
(* Programs names those of a run: each is the method that the main process *)
(* runs, or that it makes another process run.                             *)
(***************************************************************************)
EXTENDS Interp

CONSTANTS
  Programs,        \* methods that the main process runs
  Nested,          \* methods that a second process runs, as it does
  Slices,          \* <<method, first, then>>: methods that a second process
                   \* runs, the ticks it is given the first time and then
                   \* (0: as many as it takes)
  Halting,         \* methods that make the second process stop early
  MaxCollections,  \* bound on the collections while Programs and Nested run
  SlicedCollections   \* and on those while Slices and Halting do

\* Selectors, classes, methods: words outside the heap
sTwice == 2
sInc == 4
sFind == 6
sDo == 8
sValue1 == 10
sArgCount == 12
sDoExecute == 14
sResult == 18
sDNU == 20
sNew == 22
sAtPut == 24
sAt == 26
sSize == 28
sUnknown == 30
sFileAt == 32
sFailed == 34
sPlus == 36
sLess == 38
sLessEq == 40
sSame == 42
sClass == 44
sError == 46
sRead == 48
sClose == 50
sFirst == 16

cUndefined == 52
cArray == 54
cContext == 56
cBlock == 58
cInt == 60
cFoo == 62
cSub == 64
cProcess == 66
cOdd == 68
cMethod == 70

mMain == 72
mCalls == 74
mBlocks == 76
mUnknown == 78
mFileAt == 80
mObjects == 82
mTooMany == 84
mCompare == 86
mHopeless == 88
mTrap == 90
mBreak == 92
mRead == 94
mOnce == 96
mClose == 98
mGuarded == 100
mRecursive == 102

\* Methods found by lookup
mTwiceSub == 172
mTwiceFoo == 174
mInc == 176
mFind == 178
mDo == 180
mValue1 == 182
mArgCount == 184
mDoExecute == 186
mResult == 190
mDNU == 192
mNew == 194
mAtPut == 196
mAt == 198
mSize == 200
mFooFileAt == 202
mFailed == 204
mFooLess == 206
mIs == 208
mClassOf == 210
mError == 212
mFooRead == 214
mFooClose == 216
mFirst == 218

\* Objects of the initial heap
oNil == 1000
oTrue == 1002
oFalse == 1004
oFoo == 1006
oOdd == 1008
oMain == 1010        \* the main process
oOther == 1020       \* the second one

-----------------------------------------------------------------------------
(***************************************************************************)
(* The texts, which BootstrapCompiler compiles; ImageCompiler the ones with *)
(* a cascade.                                                              *)
(***************************************************************************)
Selector ==
  <<"twice:">> :> sTwice @@ <<"inc:">> :> sInc @@ <<"find:">> :> sFind
  @@ <<"do:">> :> sDo @@ <<"value:">> :> sValue1 @@ <<"argCount">> :> sArgCount
  @@ <<"doExecute:">> :> sDoExecute @@ <<"result">> :> sResult
  @@ <<"new:">> :> sNew @@ <<"at:", "put:">> :> sAtPut @@ <<"at:">> :> sAt
  @@ <<"size">> :> sSize @@ <<"unknown">> :> sUnknown @@ <<"seek:">> :> sFileAt
  @@ <<"primitiveFailed">> :> sFailed @@ <<"is:">> :> sSame
  @@ <<"class">> :> sClass @@ <<"error">> :> sError @@ <<"read">> :> sRead
  @@ <<"close:">> :> sClose @@ <<"first:">> :> sFirst
Global == <<"foo">> :> oFoo @@ <<"odd">> :> oOdd @@ <<"other">> :> oOther
          @@ <<"Array">> :> cArray

Keywords == {"twice:", "inc:", "find:", "do:", "value:", "doExecute:", "new:",
             "at:", "put:", "seek:", "is:", "close:", "first:", "ifTrue:",
             "ifFalse:", "whileTrue:", "doesNotUnderstand:"}
Binaries == {"+", "<", "<=", ">"}
Numeral == "0" :> 0 @@ "1" :> 1 @@ "2" :> 2 @@ "3" :> 3 @@ "4" :> 4 @@ "5" :> 5
           @@ "6" :> 6 @@ "7" :> 7 @@ "8" :> 8 @@ "9" :> 9 @@ "19" :> 19
           @@ "24" :> 24 @@ "101" :> 101 @@ "103" :> 103 @@ "108" :> 108
Quoted == {}
Globals == {"foo", "odd", "other", "Array"}
\* Those of Foo and those of Process in one: context, state and result
Variables == <<<<"slot", "state", "result">>>>
Bootstrap == INSTANCE BootstrapCompiler
Image == INSTANCE ImageCompiler

\* <<class, instance variables, text>>, and the methods made of them
M(class, variables, text) == <<class, variables, text>>
P(text) == M(cUndefined, <<>>, <<"doIt">> \o text)

SystemText ==
  mDoExecute :> M(cProcess, <<>>,
    <<"doExecute:", "ticks", "<", "6", "self", "ticks", ">">>)
  @@ mResult :> M(cProcess, <<"context", "state", "result">>,
    <<"result", "^", "result">>)
  @@ mValue1 :> M(cBlock, <<>>,
    <<"value:", "a", "<", "8", "a", "self", ">", ".", "self", "argCount">>)
  @@ mNew :> M(cFoo, <<>>, <<"new:", "sz", "<", "7", "Array", "sz", ">">>)
  @@ mAtPut :> M(cArray, <<>>,
    <<"at:", "i", "put:", "v", "<", "5", "v", "self", "i", ">">>)
  @@ mAt :> M(cArray, <<>>,
    <<"at:", "i", "<", "24", "self", "i", ">", ".", "^", "self", "size">>)
  @@ mSize :> M(cArray, <<>>, <<"size", "<", "4", "self", ">">>)
  @@ mIs :> M(cFoo, <<>>, <<"is:", "x", "<", "1", "self", "x", ">">>)
  @@ mClassOf :> M(cFoo, <<>>, <<"class", "<", "2", "self", ">">>)
  @@ mError :> M(cFoo, <<>>, <<"error", "<", "19", ">">>)
  @@ mArgCount :> M(cBlock, <<>>, <<"argCount", "^", "8">>)

\* The methods of the objects foo (of class Sub, whose superclass is Foo)
Slot0 == <<"slot">>
FooText ==
  mTwiceSub :> M(cSub, Slot0,
    <<"twice:", "x", "^", "super", "twice:", "(", "self", "inc:", "x", ")">>)
  @@ mTwiceFoo :> M(cFoo, Slot0,
    <<"twice:", "x", "|", "t", "|", "t", ":=", "x", "+", "x", ".",
      "slot", ":=", "t", ".", "^", "slot">>)
  @@ mInc :> M(cFoo, Slot0, <<"inc:", "x", "^", "x", "+", "1">>)
  @@ mFind :> M(cFoo, Slot0,
    <<"find:", "n", "|", "i", "|", "i", ":=", "0", ".",
      "self", "do:", "[", ":", "k", "|",
        "n", "<", "k", "ifTrue:", "[", "^", "self", "inc:", "k", "]", ".",
        "i", ":=", "i", "+", "1", "]", ".", "^", "nil">>)
  @@ mFirst :> M(cFoo, Slot0,
    <<"first:", "n", "self", "do:", "[", ":", "k", "|",
        "n", "<", "k", "ifTrue:", "[", "^", "k", "]", "]">>)
  @@ mDo :> M(cFoo, Slot0,
    <<"do:", "aBlock", "|", "j", "|", "j", ":=", "0", ".",
      "[", "j", "<", "3", "]", "whileTrue:",
      "[", "j", ":=", "j", "+", "1", ".", "aBlock", "value:", "j", "]", ".",
      "^", "self">>)
  @@ mDNU :> M(cFoo, Slot0, <<"doesNotUnderstand:", "aSel", "^", "aSel">>)
  @@ mFooFileAt :> M(cFoo, Slot0,
    <<"seek:", "idx", "<", "108", "slot", "idx", ">", ".",
      "self", "primitiveFailed">>)
  @@ mFailed :> M(cFoo, Slot0, <<"primitiveFailed", "^", "self", "error">>)
  @@ mFooRead :> M(cFoo, Slot0, <<"read", "<", "101", "slot", ">">>)
  @@ mFooClose :> M(cFoo, Slot0, <<"close:", "id", "<", "103", "id", ">">>)
  @@ mFooLess :> M(cFoo, Slot0, <<"<", "x", "^", "x", "isNil">>)

\* The programs
ProgramText ==
  mCalls :> P(<<"^", "(", "foo", "twice:", "3", ")", "+", "1">>)
  @@ mBlocks :> P(<<"^", "foo", "find:", "1">>)
  @@ mGuarded :> P(<<"^", "foo", "first:", "1">>)
  @@ mUnknown :> P(<<"^", "foo", "unknown">>)
  @@ mHopeless :> P(<<"odd", "unknown">>)
  @@ mFileAt :> P(<<"^", "foo", "seek:", "5">>)
  @@ mRead :> P(<<"^", "foo", "read">>)
  @@ mClose :> P(<<"foo", "close:", "nil", ".", "^", "foo", "twice:", "1">>)
  @@ mObjects :> P(<<"|", "a", "|", "a", ":=", "foo", "new:", "2", ".",
      "a", "at:", "2", "put:", "9", ";", "at:", "3", "put:", "1", ".",
      "^", "(", "a", "at:", "2", ")", "+", "(", "a", "at:", "3", ")">>)
  @@ mTooMany :> P(<<"[", "nil", "]", "value:", "1", ".", "^", "7">>)
  @@ mCompare :> P(<<"^", "foo", "<", "nil", "ifTrue:",
    "[", "(", "foo", "is:", "foo", ")", "ifTrue:", "[", "foo", "class", "]", "]">>)
  @@ mTrap :> P(<<"foo", "error">>)
  @@ mBreak :> P(<<"1">>)
  \* A block that invokes itself while it is active
  @@ mRecursive :> P(<<"|", "b", "|", "b", ":=", "[", ":", "n", "|",
    "n", "<", "1", "ifTrue:", "[", "0", "]", "ifFalse:",
    "[", "(", "b", "value:", "0", ")", "+", "n", "]", "]", ".",
    "^", "b", "value:", "3">>)
  @@ mMain :> P(<<"|", "first", "then", "|",
    "[", "5", "<=", "(", "other", "doExecute:", "first", ")", "]",
    "whileTrue:", "[", "first", ":=", "then", "]", ".", "^", "other", "result">>)
  @@ mOnce :> P(<<"^", "other", "doExecute:", "0">>)

Texts == SystemText @@ FooText @@ ProgramText

Compiled(text) ==
  IF ";" \in Range(text) THEN Image!parseWith(text)
  ELSE Bootstrap!parseMethod(text, FALSE)

\* made with its literals as words; mBreak has a breakpoint set in it.
Installed(m, class, made) ==
  [class |-> class, temporarySize |-> made.temporarySize,
   stackSize |-> made.stackSize,
   literals |-> FoldLeft(LAMBDA words, l : Append(words, (Selector @@ Global)[l]),
                         <<>>, made.literals),
   code |-> IF m # mBreak THEN made.code
            ELSE ReplaceAt(made.code, 2, [op |-> "Breakpoint", low |-> 0, val |-> 0])]

Compile(m) == Installed(m, Texts[m][1], Compiled(Texts[m][3]))
\* The objects of all methods
Methods == [m \in DOMAIN Texts |-> [class |-> cMethod, data |-> Compile(m)]]

\* methods per class, and the superclass lookupMethod() goes on to
MethodsOf ==
  cFoo :> (sTwice :> mTwiceFoo @@ sInc :> mInc @@ sFind :> mFind @@ sDo :> mDo
           @@ sDNU :> mDNU @@ sFileAt :> mFooFileAt @@ sFailed :> mFailed
           @@ sRead :> mFooRead @@ sNew :> mNew @@ sLess :> mFooLess
           @@ sSame :> mIs @@ sClass :> mClassOf @@ sError :> mError
           @@ sClose :> mFooClose @@ sFirst :> mFirst)
  @@ cSub :> (sTwice :> mTwiceSub)
  @@ cArray :> (sAtPut :> mAtPut @@ sAt :> mAt @@ sSize :> mSize)
  @@ cBlock :> (sValue1 :> mValue1 @@ sArgCount :> mArgCount)
  @@ cInt :> <<>>
  @@ cProcess :> (sDoExecute :> mDoExecute @@ sResult :> mResult)
  @@ cOdd :> <<>> @@ cUndefined :> <<>>

MCParentClass == [c \in {cFoo, cSub} |-> IF c = cSub THEN cFoo ELSE NULL]

MCLookupMethod ==
  [s \in 2..50, c \in DOMAIN MethodsOf |->
     LET Own(d) == s \in DOMAIN MethodsOf[d] IN
       IF Own(c) THEN MethodsOf[c][s]
       ELSE IF c = cSub /\ Own(cFoo) THEN MethodsOf[cFoo][s]
       ELSE IF c # cOdd /\ s = sDNU THEN mDNU
       ELSE NULL]

\* 101 reads a file; 103 closes it, 108 seeks in it: here not an open one.
MCPrimitive ==
  101 :> [failed |-> FALSE, value |-> newInteger(9), collects |-> TRUE]
  @@ 103 :> [failed |-> TRUE, value |-> 0, collects |-> FALSE]
  @@ 108 :> [failed |-> TRUE, value |-> 0, collects |-> FALSE]

MCBinaryMessages == <<sLess, sLessEq, sPlus>>

Object(class, data) == [class |-> class, data |-> data]
Words(seq) == [k \in 0..(Len(seq) - 1) |-> seq[k + 1]]

\* A process at address p, set up to run a method as Context>>setup: does
ProcessAt(p, method, compiled, temporaries) ==
  p :> Object(cProcess, Words(<<p + 2, oNil, oNil>>))
  @@ (p + 2) :> Object(cContext,
       Words(<<method, p + 4, p + 6, p + 8, newInteger(0), newInteger(0),
               oNil>>))
  @@ (p + 4) :> Object(cArray, Words(<<oNil>>))
  @@ (p + 6) :> Object(cArray, temporaries)
  @@ (p + 8) :> Object(cArray, Filled(compiled.stackSize, oNil))

GlobalObjects ==
  oNil :> Object(cUndefined, <<>>)
  @@ oTrue :> Object(cOdd, <<>>) @@ oFalse :> Object(cOdd, <<>>)
  @@ oFoo :> Object(cSub, Words(<<newInteger(0)>>))
  @@ oOdd :> Object(cOdd, <<>>)

\* The main process runs a program; or it runs a second process, in slices of
\* time, until it ends otherwise than for want of time; or just once.
InitHeapsWith(methods) ==
  LET Shared == Restrict(methods, DOMAIN SystemText \cup DOMAIN FooText)
                @@ GlobalObjects
      Running(p, m, temporaries) ==
        m :> methods[m] @@ ProcessAt(p, m, methods[m].data, temporaries)
      Unset(m) == Filled(methods[m].data.temporarySize, oNil)
      WithOther(m, main) ==
        Shared @@ Running(oOther, m, Unset(m)) @@ main
      Sliced(s) == WithOther(s[1],
        Running(oMain, mMain, Words(<<newInteger(s[2]), newInteger(s[3])>>)))
  IN ({Shared @@ Running(oMain, m, Unset(m)) : m \in Programs}
      \cup {Sliced(<<m, 0, 0>>) : m \in Nested}) \X {MaxCollections}
     \cup ({Sliced(s) : s \in Slices}
           \cup {WithOther(m, Running(oMain, mOnce, Unset(mOnce))) : m \in Halting})
          \X {SlicedCollections}
MCInitHeaps == UNION {InitHeapsWith(methods) : methods \in {Methods}}

\* Every program but the longest is suspended once, at each bytecode, and all
\* are suspended again and again.
Suspended ==
  ({mCalls} \X (2..28) \X {0}) \cup ({mBlocks} \X (20..50) \X {0})
  \cup ({mObjects} \X (8..16) \X {0})
  \cup ({mCalls, mUnknown, mCompare, mRead} \X {2} \X {2, 3})
  \cup ({mBlocks, mGuarded, mObjects} \X {0} \X {0}) \cup {<<mBlocks, 7, 7>>}
HaltingPrograms == {mTrap, mBreak, mHopeless}
CollectedPrograms ==
  {mCalls, mBlocks, mGuarded, mObjects, mCompare, mTooMany, mRead, mClose}
UnknownProgram == {mUnknown}
NestedProgram == {mCalls}
RecursiveProgram == {mRecursive}
FileProgram == {mFileAt}
HopelessProgram == {mHopeless}
Interrupted == {mCalls} \X (2..9) \X {0}
-----------------------------------------------------------------------------
\* What the text of each program denotes: how it ends, and its value
Denoted ==
  mCalls :> newInteger(9) @@ mBlocks :> newInteger(3) @@ mUnknown :> sUnknown
  @@ mObjects :> newInteger(11) @@ mTooMany :> newInteger(7)
  @@ mCompare :> cSub @@ mRead :> newInteger(9) @@ mClose :> newInteger(4)
  @@ mGuarded :> newInteger(2) @@ mRecursive :> newInteger(3)
  @@ mTrap :> newInteger(ReturnError) @@ mBreak :> newInteger(ReturnBreak)

\* The method a process was set up to run; its first context stays in place.
Program(p) == Slot(p + 2, methodInContext)
Denotation ==
  Denoted[IF oOther \in DOMAIN heap /\ heap[oOther].class = cProcess
          THEN Program(oOther) ELSE Program(oMain)]

\* Whenever collections take place and however the process is cut into slices
\* of time, it returns what the text of its program denotes: tail calls,
\* returns out of blocks, failed primitives and nested processes included.
AsDenoted ==
  pc = "halted" =>
    status = ReturnReturned /\ Slot(oMain, resultInProcess) = Denotation

\* File>>at: sends primitiveFailed to self when primitive 108 fails
\* (lst.st): the method that traps the error is the one found for the file.
FailureKeepsSelf == pc = "halted" => status = ReturnError

\* ReturnBadMethod stands for "Unknown method for object" (interp.h) and main()
\* has a message for it: the VM does not stop on a message nobody understands.
BadMethodReturns == pc # "error"
=============================================================================
