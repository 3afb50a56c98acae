------------------------------- MODULE Interp -------------------------------
(***************************************************************************)
(* The bytecode interpreter of the Little Smalltalk VM: execute() of       *)
(* src/vm/interp.c, together with the calls it makes of itself (primitive  *)
(* 6 runs another process) and of the allocator.                           *)
(*                                                                         *)
(* execute() keeps what it needs of the running context in C locals (here  *)
(* the fields of reg).  A collection moves every object and updates the    *)
(* heap and rootStack, but not those locals: a local that held a pointer   *)
(* across a gcalloc() that collected still holds the old address.  The     *)
(* model keeps the identity of objects, so an object has the same word     *)
(* before and after a collection, and records in stale which locals hold   *)
(* an old address and in misused which of them execute() went on to use:   *)
(* to follow, to store in the heap or to push on rootStack.                *)
(*                                                                         *)
(* Each bytecode is an action; one that allocates is cut at each gcalloc() *)
(* into steps that pc puts in sequence, because what a local holds there   *)
(* is what the collection makes stale.                                     *)
(*                                                                         *)
(* Words are as in memory.h: a SmallInt i is the odd number 2*i + 1, any   *)
(* other word is the (even) address of an object, and NULL is 0.  A method *)
(* is a constant: its bytecodes are a sequence of instructions, each with  *)
(* its low operand and the operand val of the instructions that have one   *)
(* (a branch target, a primitive number, a literal index).  The method     *)
(* cache answers what lookupMethod() would.                                *)
(***************************************************************************)
EXTENDS Integers, Sequences, FiniteSetsExt, SequencesExt, TLC

CONSTANTS
  LookupMethod,    \* lookupMethod(): <<selector, class>> -> method or NULL
  ParentClass,     \* class -> its superclass
  Primitive,       \* primitive(): number -> [failed, value, collects]
  InitHeaps,       \* <<heap, n>>: the heaps execute() may start from, with a
                   \* bound on the number of collections
  aProcess,        \* the process that main() executes
  nilObject, trueObject, falseObject,
  ArrayClass, ContextClass, BlockClass, SmallIntClass, MethodClass,
  badMethodSym, binaryMessages,
  MaxDepth         \* bound on the depth of calls, for ResumedAfterSend

\* Objects are where gcalloc() may have put them, at even addresses.
ASSUME InterpAssumption ==
  \A initial \in InitHeaps :
    LET h == initial[1] IN
      /\ initial[2] \in Nat
      /\ IsFiniteSet(DOMAIN h) /\ DOMAIN h # {}
      /\ \A a \in DOMAIN h : /\ a \in Nat \ {0} /\ a % 2 = 0
                             /\ DOMAIN h[a] = {"class", "data"}

NULL == 0
IS_SMALLINT(w) == w % 2 = 1
newInteger(i) == 2 * i + 1
integerValue(w) == w \div 2
IsPointer(w) == w # NULL /\ ~IS_SMALLINT(w)
Bool(b) == IF b THEN trueObject ELSE falseObject

\* Field offsets of globals.h
contextInProcess == 0
resultInProcess == 2
methodInContext == 0
argumentsInContext == 1
temporariesInContext == 2
stackInContext == 3
bytePointerInContext == 4
stackTopInContext == 5
previousContextInContext == 6
contextSize == 7
argumentLocationInBlock == 7
creatingContextInBlock == 8
bytePointerInBlock == 9
blockSize == 10
receiverInArguments == 0

ReturnError == 2
ReturnReturned == 4
ReturnTimeExpired == 5
ReturnBreak == 6

\* The locals of execute() that hold pointers to objects.  bp is left out: it
\* points at bytes, which a collection leaves in place in the old space.
Pointers == {"context", "method", "arguments", "temporaries",
             "instanceVariables", "literals", "stack", "returnedValue",
             "messageSelector", "receiverClass"}

\* Those that are the context, or found from it
InContext == {"context", "method", "stack", "instanceVariables",
              "temporaries", "literals"}

VARIABLES
  pc,         \* "fetch" at the top of the loop, else the step of a bytecode
  heap,       \* address -> [class, data]
  rootStack,
  reg,        \* the locals of the innermost execute()
  frames,     \* ticks of each outer execute(), suspended in primitive 6
  status,     \* what the last execute() to return returned
  gcs,        \* collections that may still take place
  stale,      \* pointer locals that hold an address of the old space
  misused     \* history: the stale locals that have been used

vars == <<pc, heap, rootStack, reg, frames, status, gcs, stale, misused>>
memory == <<stale, gcs>>
control == <<rootStack, frames, status>>

-----------------------------------------------------------------------------
Slot(a, k) == heap[a].data[k]
CLASS(w) == IF IS_SMALLINT(w) THEN SmallIntClass ELSE heap[w].class
SIZE(a) == Cardinality(DOMAIN heap[a].data)
RootTop(i) == rootStack[Len(rootStack) - i]
Popped(n) == SubSeq(rootStack, 1, Len(rootStack) - n)

Method(a) == heap[a].data

\* The ith word from the top of the expression stack
Top(i) == Slot(reg.stack, reg.stackTop - i)

NewAddress == Max(DOMAIN heap) + 2
Alloc(h, class, data) ==
  [a \in DOMAIN h \cup {NewAddress} |->
     IF a = NewAddress THEN [class |-> class, data |-> data] ELSE h[a]]
Filled(n, v) == [k \in 0..(n - 1) |-> v]

\* gcalloc() may collect.  The locals assigned after it are fresh, and so are
\* those reloaded because it did collect.
AllocatingOr(assigned, reloaded) ==
  \/ stale' = stale \ assigned /\ gcs' = gcs
  \/ /\ gcs > 0
     /\ gcs' = gcs - 1
     /\ stale' = {p \in Pointers : IsPointer(reg[p])} \ (assigned \cup reloaded)

Allocating(assigned) == AllocatingOr(assigned, {})

\* context != rootStack[--rootTop], after a single allocation
Collected == gcs' # gcs

Assigned(S) == stale' = stale \ S /\ gcs' = gcs
Use(S) == misused' = misused \cup (stale \cap S)

-----------------------------------------------------------------------------
(***************************************************************************)
(* execute() starts: the process is pushed on rootStack, the context it    *)
(* was left in is loaded, the rest is loaded when it is first needed.      *)
(***************************************************************************)
Entered(h, process, ticks) ==
  LET context == h[process].data[contextInProcess]
      C(k) == h[context].data[k]
  IN [context |-> context, method |-> C(methodInContext),
      bp |-> C(methodInContext), stack |-> C(stackInContext),
      bytePointer |-> integerValue(C(bytePointerInContext)),
      stackTop |-> integerValue(C(stackTopInContext)),
      arguments |-> NULL, temporaries |-> NULL, instanceVariables |-> NULL,
      literals |-> NULL, returnedValue |-> nilObject,
      messageSelector |-> NULL, receiverClass |-> NULL,
      low |-> 0, high |-> 0, ticks |-> ticks]

Init ==
  /\ \E initial \in InitHeaps : heap = initial[1] /\ gcs = initial[2]
  /\ pc = "fetch"
  /\ rootStack = <<aProcess, aProcess>>
  /\ reg = Entered(heap, aProcess, 0)
  /\ frames = <<>>
  /\ status = 0
  /\ stale = {}
  /\ misused = {}

Instr == Method(reg.bp).code[reg.bytePointer + 1]

\* if (ticks && (--ticks == 0))
Expiring == reg.ticks = 1

Decode(op) ==
  /\ pc = "fetch"
  /\ ~Expiring
  /\ Instr.op = op

\* The locals once the instruction is decoded
Decoded == [reg EXCEPT !.bytePointer = @ + 1,
                       !.ticks = IF @ = 0 THEN 0 ELSE @ - 1]

Push(v, r) ==
  /\ heap' = [heap EXCEPT ![r.stack].data[r.stackTop] = v]
  /\ reg' = [r EXCEPT !.stackTop = @ + 1]
  /\ pc' = "fetch"

\* Mutant: the temporaries of the context left stay loaded.
UnloadedButTemporaries(r) ==
  [r EXCEPT !.arguments = NULL, !.instanceVariables = NULL, !.literals = NULL]

\* r, with nothing cached of the arguments, temporaries and literals
Unloaded(r) ==
  [r EXCEPT !.arguments = NULL, !.temporaries = NULL,
            !.instanceVariables = NULL, !.literals = NULL]

\* r, running context
Loaded(r, context) ==
  [r EXCEPT !.context = context, !.method = Slot(context, methodInContext),
            !.bp = Slot(context, methodInContext),
            !.stack = Slot(context, stackInContext)]

\* What the cached locals stand for, loaded if they are not yet
Arguments == IF reg.arguments # NULL THEN reg.arguments
             ELSE Slot(reg.context, argumentsInContext)
Temporaries == IF reg.temporaries # NULL THEN reg.temporaries
               ELSE Slot(reg.context, temporariesInContext)
InstanceVariables == IF reg.instanceVariables # NULL
                     THEN reg.instanceVariables
                     ELSE Slot(Arguments, receiverInArguments)
\* literals holds the literal array of a method, here the method itself
LiteralsOf == IF reg.literals # NULL THEN reg.literals ELSE reg.method
Literal(i) == Method(LiteralsOf).literals[i + 1]

\* The locals followed to get there
UseArguments == IF reg.arguments # NULL THEN {"arguments"} ELSE {"context"}
UseTemporaries == IF reg.temporaries # NULL THEN {"temporaries"}
                  ELSE {"context"}
UseInstance == IF reg.instanceVariables # NULL THEN {"instanceVariables"}
               ELSE UseArguments
UseLiterals == IF reg.literals # NULL THEN {"literals"} ELSE {"method"}

-----------------------------------------------------------------------------
(***************************************************************************)
(* Pushes, assignments, jumps.                                             *)
(***************************************************************************)
PushInstance ==
  /\ Decode("PushInstance")
  /\ Push(Slot(InstanceVariables, Instr.low),
          [Decoded EXCEPT !.arguments = Arguments,
                          !.instanceVariables = InstanceVariables])
  /\ Use(UseInstance \cup {"stack"})
  /\ UNCHANGED <<control, memory>>

PushArgument ==
  /\ Decode("PushArgument")
  /\ Push(Slot(Arguments, Instr.low),
          [Decoded EXCEPT !.arguments = Arguments])
  /\ Use(UseArguments \cup {"stack"})
  /\ UNCHANGED <<control, memory>>

PushTemporary ==
  /\ Decode("PushTemporary")
  /\ Push(Slot(Temporaries, Instr.low),
          [Decoded EXCEPT !.temporaries = Temporaries])
  /\ Use(UseTemporaries \cup {"stack"})
  /\ UNCHANGED <<control, memory>>

PushLiteral ==
  /\ Decode("PushLiteral")
  /\ Push(Literal(Instr.low), [Decoded EXCEPT !.literals = LiteralsOf])
  /\ Use(UseLiterals \cup {"stack"})
  /\ UNCHANGED <<control, memory>>

\* The constants 0 to 9, nil, true and false
Constant(i) ==
  IF i < 10 THEN newInteger(i) ELSE <<nilObject, trueObject, falseObject>>[i - 9]

PushConstant ==
  /\ Decode("PushConstant")
  /\ Push(Constant(Instr.low), Decoded)
  /\ Use({"stack"})
  /\ UNCHANGED <<control, memory>>

Duplicate ==
  /\ Decode("Duplicate")
  /\ Push(Top(1), [Decoded EXCEPT !.returnedValue = Top(1)])
  /\ Use({"stack"})
  /\ Assigned({"returnedValue"})
  /\ UNCHANGED control

\* Mutant: the stack does not shrink.
PopTopKept ==
  /\ Decode("PopTop")
  /\ reg' = Decoded
  /\ UNCHANGED <<pc, heap, control, memory, misused>>

PopTop ==
  /\ Decode("PopTop")
  /\ reg' = [Decoded EXCEPT !.stackTop = @ - 1]
  /\ UNCHANGED <<pc, heap, control, memory, misused>>

\* The value assigned stays on the stack.  (The static roots that the code
\* registers here concern objects outside both spaces; an image has none.)
AssignInstance ==
  /\ Decode("AssignInstance")
  /\ heap' = [heap EXCEPT ![InstanceVariables].data[Instr.low] = Top(1)]
  /\ reg' = [Decoded EXCEPT !.arguments = Arguments,
                            !.instanceVariables = InstanceVariables]
  /\ Use(UseInstance \cup {"stack"})
  /\ UNCHANGED <<pc, control, memory>>

AssignTemporary ==
  /\ Decode("AssignTemporary")
  /\ heap' = [heap EXCEPT ![Temporaries].data[Instr.low] = Top(1)]
  /\ reg' = [Decoded EXCEPT !.temporaries = Temporaries]
  /\ Use(UseTemporaries \cup {"stack"})
  /\ UNCHANGED <<pc, control, memory>>

\* Mutant: the operand is read but not assigned.
BranchStays ==
  /\ Decode("Branch")
  /\ reg' = [Decoded EXCEPT !.bytePointer = reg.bytePointer]
  /\ UNCHANGED <<pc, heap, control, memory, misused>>

Branch ==
  /\ Decode("Branch")
  /\ reg' = [Decoded EXCEPT !.bytePointer = Instr.val]
  /\ UNCHANGED <<pc, heap, control, memory, misused>>

\* Anything but the Boolean tested for falls through.
BranchIf(op, v) ==
  /\ Decode(op)
  /\ reg' = [Decoded EXCEPT !.returnedValue = Top(1), !.stackTop = @ - 1,
               !.bytePointer = IF Top(1) = v THEN Instr.val ELSE @]
  /\ Use({"stack"})
  /\ Assigned({"returnedValue"})
  /\ UNCHANGED <<pc, heap, control>>

BranchIfTrue == BranchIf("BranchIfTrue", trueObject)
BranchIfFalse == BranchIf("BranchIfFalse", falseObject)

\* isNil and notNil
SendUnary ==
  /\ Decode("SendUnary")
  /\ LET v == Bool((Top(1) = nilObject) = (Instr.low = 0)) IN
       Push(v, [Decoded EXCEPT !.returnedValue = v, !.stackTop = @ - 1])
  /\ Use({"stack"})
  /\ Assigned({"returnedValue"})
  /\ UNCHANGED control

-----------------------------------------------------------------------------
(***************************************************************************)
(* Blocks.  PushBlock makes the object and a stack for it; primitive 8     *)
(* runs the block object itself as a context.                              *)
(***************************************************************************)
PushBlock ==
  /\ Decode("PushBlock")
  /\ rootStack' = Append(rootStack, reg.context)
  /\ reg' = [Decoded EXCEPT !.low = Instr.low, !.high = Instr.val]
  /\ pc' = "blockStack"
  /\ Use({"context", "method"})
  /\ UNCHANGED <<heap, frames, status, memory>>

BlockStack ==
  /\ pc = "blockStack"
  /\ heap' = Alloc(heap, ArrayClass,
                   Filled(Method(reg.method).stackSize, NULL))
  /\ rootStack' = Append(rootStack, NewAddress)
  /\ Allocating({})
  /\ pc' = "newBlock"
  /\ UNCHANGED <<reg, frames, status, misused>>

NewBlock ==
  /\ pc = "newBlock"
  /\ LET context == RootTop(1)
         C(k) == Slot(context, k)
         creator == IF heap[context].class = BlockClass
                    THEN C(creatingContextInBlock) ELSE context
         block == (methodInContext :> C(methodInContext))
               @@ (argumentsInContext :> C(argumentsInContext))
               @@ (temporariesInContext :> C(temporariesInContext))
               @@ (stackInContext :> RootTop(0))
               @@ (argumentLocationInBlock :> newInteger(reg.low))
               @@ (creatingContextInBlock :> creator)
               @@ (bytePointerInBlock :> newInteger(reg.bytePointer))
               @@ Filled(blockSize, NULL)
         stack == C(stackInContext)
     IN /\ heap' = [Alloc(heap, BlockClass, block) EXCEPT
                      ![stack].data[reg.stackTop] = NewAddress]
        /\ reg' = [Unloaded(Loaded(reg, context)) EXCEPT
             !.returnedValue = NewAddress, !.bytePointer = reg.high,
             !.arguments = C(argumentsInContext),
             !.temporaries = C(temporariesInContext), !.stackTop = @ + 1]
  /\ rootStack' = Popped(2)
  /\ Allocating(InContext \cup {"arguments", "returnedValue"})
  /\ pc' = "fetch"
  /\ UNCHANGED <<frames, status, misused>>

-----------------------------------------------------------------------------
(***************************************************************************)
(* Sends.                                                                  *)
(***************************************************************************)
MarkArguments ==
  /\ Decode("MarkArguments")
  /\ rootStack' = Append(rootStack, reg.context)
  /\ reg' = [Decoded EXCEPT !.low = Instr.low]
  /\ pc' = "markArguments"
  /\ Use({"context"})
  /\ UNCHANGED <<heap, frames, status, memory>>

\* What a collection calls for: everything is loaded anew from the context,
\* whose address is on rootStack.
Reloaded(r) == [Unloaded(Loaded(r, RootTop(0))) EXCEPT !.arguments = r.arguments]

\* The top n words of the stack of r, the first pushed first
Taken(r, n) == [k \in 0..(n - 1) |-> Slot(r.stack, r.stackTop - n + k)]

\* Mutant: whether a collection has taken place is not asked.
MarkedArgumentsUnchecked ==
  /\ pc = "markArguments"
  /\ Allocating({"arguments"})
  /\ heap' = [Alloc(heap, ArrayClass, Taken(reg, reg.low)) EXCEPT
                ![reg.stack].data[reg.stackTop - reg.low] = NewAddress]
  /\ reg' = [reg EXCEPT !.low = 0, !.stackTop = @ - reg.low + 1,
                        !.arguments = NULL]
  /\ rootStack' = Popped(1)
  /\ pc' = "fetch"
  /\ UNCHANGED <<frames, status, misused>>

MarkedArguments ==
  /\ pc = "markArguments"
  /\ AllocatingOr({"arguments"}, InContext)
  /\ LET r == IF Collected THEN Reloaded(reg) ELSE reg
         n == reg.low
     IN /\ heap' = [Alloc(heap, ArrayClass, Taken(r, n)) EXCEPT
                      ![r.stack].data[r.stackTop - n] = NewAddress]
        /\ reg' = [r EXCEPT !.low = 0, !.stackTop = @ - n + 1,
                            !.arguments = NULL]
  /\ rootStack' = Popped(1)
  /\ pc' = "fetch"
  /\ UNCHANGED <<frames, status, misused>>

\* findMethodFromSymbol: r sends selector to the receiver in arguments.
Send(r, selector, arguments, class) ==
  /\ reg' = [r EXCEPT !.messageSelector = selector, !.arguments = arguments,
                      !.receiverClass = class]
  /\ pc' = "checkCache"

SendMessage ==
  /\ Decode("SendMessage")
  /\ Send([Decoded EXCEPT !.literals = LiteralsOf, !.stackTop = @ - 1],
          Literal(Instr.low), Top(1),
          CLASS(Slot(Top(1), receiverInArguments)))
  /\ Use(UseLiterals \cup {"stack"})
  /\ Assigned({"messageSelector", "arguments", "receiverClass"})
  /\ UNCHANGED <<heap, control>>

\* The lookup starts above the class of the method, not of the receiver.
SendToSuper ==
  /\ Decode("SendToSuper")
  /\ Send([Decoded EXCEPT !.literals = LiteralsOf, !.stackTop = @ - 1],
          Literal(Instr.val), Top(1), ParentClass[Method(reg.method).class])
  /\ Use(UseLiterals \cup {"method", "stack"})
  /\ Assigned({"messageSelector", "arguments", "receiverClass"})
  /\ UNCHANGED <<heap, control>>

\* <, <= and + of two SmallInts
BinaryResult(low, i, j) ==
  CASE low = 0 -> Bool(i < j)
    [] low = 1 -> Bool(i <= j)
    [] low = 2 -> newInteger(i + j)

SendBinary ==
  /\ Decode("SendBinary")
  /\ IS_SMALLINT(Top(1)) /\ IS_SMALLINT(Top(2))
  /\ LET v == BinaryResult(Instr.low, integerValue(Top(2)),
                           integerValue(Top(1)))
     IN Push(v, [Decoded EXCEPT !.returnedValue = v, !.stackTop = @ - 2])
  /\ Use({"stack"})
  /\ Assigned({"returnedValue"})
  /\ UNCHANGED control

\* Not integers: a message send.
SendBinaryMessage ==
  /\ Decode("SendBinary")
  /\ ~(IS_SMALLINT(Top(1)) /\ IS_SMALLINT(Top(2)))
  /\ rootStack' = Append(rootStack, reg.context)
  /\ reg' = [Decoded EXCEPT !.low = Instr.low]
  /\ pc' = "binaryArguments"
  /\ Use({"context", "stack"})
  /\ UNCHANGED <<heap, frames, status, memory>>

BinaryArguments ==
  /\ pc = "binaryArguments"
  /\ AllocatingOr({"arguments", "messageSelector", "receiverClass"}, InContext)
  /\ LET r == IF Collected THEN Reloaded(reg) ELSE reg
         arguments == Taken(r, 2)
     IN /\ heap' = Alloc(heap, ArrayClass, arguments)
        /\ Send([r EXCEPT !.low = 0, !.stackTop = @ - 2],
                binaryMessages[reg.low + 1], NewAddress,
                CLASS(arguments[receiverInArguments]))
  /\ rootStack' = Popped(1)
  /\ UNCHANGED <<frames, status, misused>>

-----------------------------------------------------------------------------
(***************************************************************************)
(* checkCache, and the context of the method found.                        *)
(***************************************************************************)
Found == LookupMethod[reg.messageSelector, reg.receiverClass]

\* A send just before a return does not return to this context (high = 1),
\* or to this block (high = 2), but to where these would return.
TailCall == CASE Instr.op = "StackReturn" -> 1
              [] Instr.op = "BlockReturn" -> 2
              [] OTHER -> 0

Understood ==
  /\ pc = "checkCache"
  /\ Found # NULL
  /\ reg' = [reg EXCEPT !.method = Found, !.high = TailCall,
                        !.low = Method(Found).temporarySize]
  /\ rootStack' = rootStack \o <<reg.arguments, Found, reg.context>>
  /\ pc' = "newStack"
  /\ Use({"arguments", "context"})
  /\ Assigned({"method"})
  /\ UNCHANGED <<heap, frames, status>>

NotUnderstood ==
  /\ pc = "checkCache"
  /\ Found = NULL
  /\ reg.messageSelector # badMethodSym
  /\ reg' = [reg EXCEPT !.method = NULL]
  /\ pc' = "doesNotUnderstand"
  /\ Assigned({"method"})
  /\ UNCHANGED <<heap, control, misused>>

\* error("doesNotUnderstand: missing")
Hopeless ==
  /\ pc = "checkCache"
  /\ Found = NULL
  /\ reg.messageSelector = badMethodSym
  /\ pc' = "error"
  /\ UNCHANGED <<heap, control, reg, memory, misused>>

\* Nothing is on rootStack while the arguments of the new message are
\* allocated.
DoesNotUnderstand ==
  /\ pc = "doesNotUnderstand"
  /\ LET receiver == Slot(reg.arguments, receiverInArguments) IN
       /\ heap' = Alloc(heap, ArrayClass,
                        (0 :> receiver) @@ (1 :> reg.messageSelector))
       /\ Send(reg, badMethodSym, NewAddress, CLASS(receiver))
  /\ Allocating({"arguments", "messageSelector", "receiverClass"})
  /\ IF Collected
     THEN misused' = misused \cup {"arguments", "messageSelector"}
     ELSE Use({"arguments", "messageSelector"})
  /\ UNCHANGED control

\* rootStack is <<..., arguments, method, context>>
NewStack ==
  /\ pc = "newStack"
  /\ heap' = Alloc(heap, ArrayClass,
                   Filled(Method(reg.method).stackSize, NULL))
  /\ IF reg.low > 0
     THEN pc' = "newTemporaries" /\ rootStack' = Append(rootStack, NewAddress)
     ELSE /\ pc' = "newContext"
          /\ rootStack' = rootStack \o <<NewAddress, NULL>>
  /\ Use({"method"})
  /\ Allocating({})
  /\ UNCHANGED <<reg, frames, status>>

NewTemporaries ==
  /\ pc = "newTemporaries"
  /\ heap' = Alloc(heap, ArrayClass, Filled(reg.low, nilObject))
  /\ rootStack' = Append(rootStack, NewAddress)
  /\ reg' = [reg EXCEPT !.temporaries = NewAddress]
  /\ Allocating({"temporaries"})
  /\ pc' = "newContext"
  /\ UNCHANGED <<frames, status, misused>>

Home(block) == Slot(block, creatingContextInBlock)

\* Mutant: a return from a block goes to the caller of the block.
TailSenderOfBlock(sender) ==
  IF reg.high = 0 THEN sender ELSE Slot(sender, previousContextInContext)

\* The context that the new context, called from sender, returns to
TailSender(sender) ==
  CASE reg.high = 0 -> sender
    [] reg.high = 1 -> Slot(sender, previousContextInContext)
    [] reg.high = 2 -> Slot(Home(sender), previousContextInContext)

\* rootStack is <<..., arguments, method, sender, stack, temporaries>>.  The
\* sender is saved, then the new context built.
NewContext ==
  /\ pc = "newContext"
  /\ LET sender == RootTop(2)
         method == RootTop(3)
         context == [k \in 0..(contextSize - 1) |->
           CASE k = methodInContext -> method
             [] k = argumentsInContext -> RootTop(4)
             [] k = temporariesInContext -> RootTop(0)
             [] k = stackInContext -> RootTop(1)
             [] k \in {bytePointerInContext, stackTopInContext} -> newInteger(0)
             [] k = previousContextInContext -> TailSender(sender)]
     IN /\ heap' = [Alloc(heap, ContextClass, context) EXCEPT
              ![sender].data[stackTopInContext] = newInteger(reg.stackTop),
              ![sender].data[bytePointerInContext] =
                newInteger(reg.bytePointer)]
        /\ reg' = [reg EXCEPT
              !.context = NewAddress, !.method = method, !.bp = method,
              !.arguments = RootTop(4), !.temporaries = RootTop(0),
              !.stack = RootTop(1), !.instanceVariables = NULL,
              !.literals = NULL, !.bytePointer = 0, !.stackTop = 0]
  /\ rootStack' = Popped(5)
  /\ Allocating(InContext \cup {"arguments"})
  /\ pc' = "fetch"
  /\ UNCHANGED <<frames, status, misused>>

-----------------------------------------------------------------------------
(***************************************************************************)
(* Returns.                                                                *)
(***************************************************************************)
\* doReturn: value goes to context
ReturnTo(context, value) ==
  /\ reg' = [Decoded EXCEPT !.context = context, !.returnedValue = value]
  /\ pc' = "return"

SelfReturn ==
  /\ Decode("SelfReturn")
  /\ ReturnTo(Slot(reg.context, previousContextInContext),
              Slot(Arguments, receiverInArguments))
  /\ Use(UseArguments \cup {"context"})
  /\ Assigned({"context", "returnedValue"})
  /\ UNCHANGED <<heap, control>>

StackReturn ==
  /\ Decode("StackReturn")
  /\ ReturnTo(Slot(reg.context, previousContextInContext), Top(1))
  /\ Use({"context", "stack"})
  /\ Assigned({"context", "returnedValue"})
  /\ UNCHANGED <<heap, control>>

\* A return from the method in which the block was written.
BlockReturn ==
  /\ Decode("BlockReturn")
  /\ ReturnTo(Slot(Home(reg.context), previousContextInContext), Top(1))
  /\ Use({"context", "stack"})
  /\ Assigned({"context", "returnedValue"})
  /\ UNCHANGED <<heap, control>>

IsNone(context) == context \in {NULL, nilObject}

\* doReturn2, with a context to return to
Return ==
  /\ pc = "return"
  /\ ~IsNone(reg.context)
  /\ LET C(k) == Slot(reg.context, k)
         stackTop == integerValue(C(stackTopInContext))
     IN /\ heap' = [heap EXCEPT
              ![C(stackInContext)].data[stackTop] = reg.returnedValue]
        /\ reg' = [Unloaded(Loaded(reg, reg.context)) EXCEPT
              !.stackTop = stackTop + 1,
              !.bytePointer = integerValue(C(bytePointerInContext))]
  /\ pc' = "fetch"
  /\ Use({"context", "returnedValue"})
  /\ Assigned(Pointers \ {"context", "returnedValue", "messageSelector",
                           "receiverClass"})
  /\ UNCHANGED control

\* execute() returns code; saved is the heap with the context saved in it.
Finish(code, saved, context, value) ==
  /\ heap' = [saved EXCEPT ![RootTop(0)].data[contextInProcess] = context,
                           ![RootTop(0)].data[resultInProcess] = value]
  /\ rootStack' = Popped(1)
  /\ status' = code
  /\ pc' = IF frames = <<>> THEN "halted" ELSE "executed"
  /\ UNCHANGED <<reg, frames, memory>>

\* The current context, as it is saved when it is to be resumed
Saved(bytePointer) ==
  [heap EXCEPT ![reg.context].data[bytePointerInContext] =
                 newInteger(bytePointer),
               ![reg.context].data[stackTopInContext] =
                 newInteger(reg.stackTop)]

\* doReturn2, with none: the process has finished.
ProcessReturned ==
  /\ pc = "return"
  /\ IsNone(reg.context)
  /\ Finish(ReturnReturned, heap, reg.context, reg.returnedValue)
  /\ Use({"context", "returnedValue"})

TimeExpired ==
  /\ pc = "fetch"
  /\ Expiring
  /\ Finish(ReturnTimeExpired, Saved(reg.bytePointer), reg.context,
            reg.returnedValue)
  /\ Use({"context", "returnedValue"})

\* The process will meet the breakpoint again when it is resumed.
Breakpoint ==
  /\ Decode("Breakpoint")
  /\ Finish(ReturnBreak, Saved(reg.bytePointer), reg.context,
            reg.returnedValue)
  /\ Use({"context", "returnedValue"})

-----------------------------------------------------------------------------
(***************************************************************************)
(* Primitives.  One that succeeds returns its value from the method it is  *)
(* in; one that fails leaves nil on the stack and the method goes on.  low *)
(* is the number of arguments.                                             *)
(***************************************************************************)
DecodePrimitive(numbers) ==
  Decode("DoPrimitive") /\ Instr.val \in numbers

\* failPrimitive, no collection having taken place: n arguments are dropped.
Fail(r, n) ==
  /\ Push(nilObject, [r EXCEPT !.returnedValue = nilObject, !.stackTop = @ - n])
  /\ Use({"stack"})
  /\ Assigned({"returnedValue"})

\* The primitives that touch nothing but the stack and their arguments, and
\* may fail.  The others of their kind compute other things the same way.
Immediate == {1, 2, 4, 5, 10, 13, 14, 24}

InRange(index, array) ==
  integerValue(index) \in 1..SIZE(array)

Succeeds(number) ==
  CASE number \in {1, 2, 4} -> TRUE
    [] number = 5 -> IS_SMALLINT(Top(1)) /\ InRange(Top(1), Top(2))
    [] number = 24 -> InRange(Top(1), Top(2))
    [] OTHER -> IS_SMALLINT(Top(1)) /\ IS_SMALLINT(Top(2))

Value(number) ==
  LET x == Top(1)
      y == Top(2)
  IN CASE number = 1 -> Bool(x = y)
       [] number = 2 -> CLASS(x)
       [] number = 4 -> newInteger(IF IS_SMALLINT(x) THEN 0 ELSE SIZE(x))
       [] number = 5 -> y
       [] number = 10 -> newInteger(integerValue(y) + integerValue(x))
       [] number = 13 -> Bool(integerValue(y) < integerValue(x))
       [] number = 14 -> Bool(integerValue(y) = integerValue(x))
       [] number = 24 -> Slot(y, integerValue(x) - 1)

ImmediateSucceeds ==
  /\ DecodePrimitive(Immediate)
  /\ Succeeds(Instr.val)
  /\ heap' = IF Instr.val = 5
             THEN [heap EXCEPT ![Top(2)].data[integerValue(Top(1)) - 1] = Top(3)]
             ELSE heap
  /\ ReturnTo(Slot(reg.context, previousContextInContext), Value(Instr.val))
  /\ Use({"context", "stack"})
  /\ Assigned({"context", "returnedValue"})
  /\ UNCHANGED control

ImmediateFails ==
  /\ DecodePrimitive(Immediate)
  /\ ~Succeeds(Instr.val)
  /\ Fail(Decoded, Instr.low)
  /\ UNCHANGED control

\* 7: new object.  The class is on rootStack while the object is allocated.
PrimitiveNew ==
  /\ DecodePrimitive({7})
  /\ rootStack' = rootStack \o <<reg.context, Top(2)>>
  /\ reg' = [Decoded EXCEPT !.low = integerValue(Top(1)), !.stackTop = @ - 2]
  /\ pc' = "newObject"
  /\ Use({"context", "stack"})
  /\ UNCHANGED <<heap, frames, status, memory>>

NewObject ==
  /\ pc = "newObject"
  /\ heap' = Alloc(heap, RootTop(0), Filled(reg.low, nilObject))
  /\ reg' = [reg EXCEPT !.returnedValue = NewAddress, !.low = 0,
                        !.context = Slot(RootTop(1), previousContextInContext)]
  /\ rootStack' = Popped(2)
  /\ Allocating({"returnedValue", "context"})
  /\ pc' = "return"
  /\ UNCHANGED <<frames, status, misused>>

\* 6: execute() calls itself.
PrimitiveExecute ==
  /\ DecodePrimitive({6})
  /\ rootStack' = rootStack \o <<reg.context, Top(2)>>
  /\ frames' = Append(frames, Decoded.ticks)
  /\ reg' = Entered(heap, Top(2), integerValue(Top(1)))
  /\ Use({"context", "stack"})
  /\ Assigned(Pointers)
  /\ UNCHANGED <<pc, heap, status>>

\* Mutant: the context stays on rootStack.
ExecutedRooted ==
  /\ pc = "executed"
  /\ ReturnTo(Slot(RootTop(0), previousContextInContext), newInteger(status))
  /\ frames' = Front(frames)
  /\ Assigned({"context", "returnedValue"})
  /\ UNCHANGED <<heap, rootStack, status, misused>>

\* The execute() called by primitive 6 has returned status.
Executed ==
  /\ pc = "executed"
  /\ reg' = [reg EXCEPT
       !.context = Slot(RootTop(0), previousContextInContext),
       !.returnedValue = newInteger(status), !.ticks = Last(frames)]
  /\ pc' = "return"
  /\ rootStack' = Popped(1)
  /\ frames' = Front(frames)
  /\ Assigned({"context", "returnedValue"})
  /\ UNCHANGED <<heap, status, misused>>

\* Room for the arguments of a block among its temporaries
Room(block) ==
  LET temporaries == Slot(block, temporariesInContext)
  IN IF temporaries = NULL THEN 0
     ELSE SIZE(temporaries) - integerValue(Slot(block, argumentLocationInBlock))

\* Mutant: the block returns to the method that sent it value.
CallerOfBlockSelf == reg.context

CallerOfBlock == Slot(reg.context, previousContextInContext)

\* 8: the block takes the place of the method that sent it value.
PrimitiveBlock ==
  /\ DecodePrimitive({8})
  /\ Instr.low - 2 < Room(Top(1))
  /\ LET block == Top(1)
         C(k) == Slot(block, k)
         first == integerValue(C(argumentLocationInBlock))
         n == Instr.low - 1
         h == [heap EXCEPT ![block].data[previousContextInContext] =
                             CallerOfBlock]
     IN /\ heap' = IF n = 0 THEN h ELSE
             [h EXCEPT ![C(temporariesInContext)].data =
               [k \in DOMAIN @ |->
                  IF k \in first..(first + n - 1) THEN Top(n + 1 - (k - first))
                  ELSE @[k]]]
        /\ reg' = [Unloaded(Loaded(Decoded, block)) EXCEPT
             !.returnedValue = block, !.stackTop = 0,
             !.bytePointer = integerValue(C(bytePointerInBlock)),
             !.temporaries = C(temporariesInContext)]
  /\ Use({"context", "stack"})
  /\ Assigned(InContext \cup {"arguments", "returnedValue"})
  /\ UNCHANGED <<pc, control>>

\* Too many arguments.  temporaries now holds those of the block.
PrimitiveBlockFails ==
  /\ DecodePrimitive({8})
  /\ Instr.low - 2 >= Room(Top(1))
  /\ Push(nilObject,
          [Decoded EXCEPT !.returnedValue = nilObject,
             !.stackTop = @ - Instr.low,
             !.temporaries = Slot(Top(1), temporariesInContext)])
  /\ Use({"stack"})
  /\ Assigned({"returnedValue", "temporaries"})
  /\ UNCHANGED control

\* 19: error trap.  The context is handed over, where it was is not saved.
PrimitiveError ==
  /\ DecodePrimitive({19})
  /\ heap' = [heap EXCEPT ![RootTop(0)].data[contextInProcess] = reg.context]
  /\ rootStack' = Popped(1)
  /\ status' = ReturnError
  /\ pc' = IF frames = <<>> THEN "halted" ELSE "executed"
  /\ Use({"context"})
  /\ UNCHANGED <<reg, frames, memory>>

\* The others are tried by primitive(), with their arguments in an array.
PrimitiveOther ==
  /\ DecodePrimitive(DOMAIN Primitive)
  /\ rootStack' = rootStack \o <<reg.context, reg.stack>>
  /\ reg' = [Decoded EXCEPT !.low = Instr.low, !.high = Instr.val]
  /\ pc' = "primitiveArguments"
  /\ Use({"context", "stack"})
  /\ UNCHANGED <<heap, frames, status, memory>>

PrimitiveArguments ==
  /\ pc = "primitiveArguments"
  /\ LET r == [reg EXCEPT !.stack = RootTop(0)] IN
       /\ heap' = Alloc(heap, ArrayClass, Taken(r, reg.low))
       /\ reg' = [r EXCEPT !.arguments = NewAddress, !.low = 0,
                           !.stackTop = @ - reg.low]
  /\ rootStack' = Popped(1)
  /\ Allocating({"arguments", "stack"})
  /\ pc' = "primitive"
  /\ UNCHANGED <<frames, status, misused>>

OtherSucceeds ==
  /\ pc = "primitive"
  /\ ~Primitive[reg.high].failed
  /\ reg' = [reg EXCEPT !.returnedValue = Primitive[reg.high].value,
                        !.arguments = NULL,
                        !.context = Slot(RootTop(0), previousContextInContext)]
  /\ rootStack' = Popped(1)
  /\ IF Primitive[reg.high].collects
     THEN Allocating({"returnedValue", "arguments", "context"})
     ELSE Assigned({"returnedValue", "arguments", "context"})
  /\ pc' = "return"
  /\ UNCHANGED <<heap, frames, status, misused>>

\* failPrimitive: all is loaded anew if a collection has moved the context;
\* only then.  (No primitive that fails has allocated anything itself.)
OtherFails ==
  /\ pc = "primitive"
  /\ Primitive[reg.high].failed
  /\ LET moved == "context" \in stale IN
       /\ Push(nilObject,
               [(IF moved THEN [Reloaded(reg) EXCEPT !.arguments = NULL]
                          ELSE reg)
                EXCEPT !.returnedValue = nilObject])
       /\ Assigned({"returnedValue"}
                   \cup IF moved THEN InContext \cup {"arguments"} ELSE {})
  /\ rootStack' = Popped(1)
  /\ UNCHANGED <<frames, status, misused>>

-----------------------------------------------------------------------------
Next ==
  \/ PushInstance \/ PushArgument \/ PushTemporary \/ PushLiteral
  \/ PushConstant \/ Duplicate \/ PopTop \/ AssignInstance \/ AssignTemporary
  \/ Branch \/ BranchIfTrue \/ BranchIfFalse \/ SendUnary
  \/ PushBlock \/ BlockStack \/ NewBlock
  \/ MarkArguments \/ MarkedArguments \/ SendMessage \/ SendToSuper
  \/ SendBinary \/ SendBinaryMessage \/ BinaryArguments
  \/ Understood \/ NotUnderstood \/ Hopeless \/ DoesNotUnderstand
  \/ NewStack \/ NewTemporaries \/ NewContext
  \/ SelfReturn \/ StackReturn \/ BlockReturn \/ Return
  \/ ProcessReturned \/ TimeExpired \/ Breakpoint
  \/ ImmediateSucceeds \/ ImmediateFails \/ PrimitiveNew \/ NewObject
  \/ PrimitiveExecute \/ Executed \/ PrimitiveBlock \/ PrimitiveBlockFails
  \/ PrimitiveError
  \/ PrimitiveOther \/ PrimitiveArguments \/ OtherSucceeds \/ OtherFails

Spec == Init /\ [][Next]_vars

\* Nothing suspends execute(): it goes on until it returns.
FairSpec == Spec /\ WF_vars(Next)

-----------------------------------------------------------------------------
(***************************************************************************)
(* Properties.                                                             *)
(***************************************************************************)
IsContext(a) ==
  a \in DOMAIN heap /\ heap[a].class \in {ContextClass, BlockClass}

\* What execute() trusts its program with: that what a process runs is a
\* context, and that primitive 6 is given a process.
ProgramOK ==
  pc = "fetch" =>
    /\ IsContext(reg.context)
    /\ (Instr.op = "DoPrimitive" /\ Instr.val = 6) =>
         Top(2) \in DOMAIN heap /\ ~IsContext(Top(2))

\* A method goes on after its primitive only if that has failed.
PrimitiveFailed ==
  \E i \in 1..reg.bytePointer : Method(reg.bp).code[i].op = "DoPrimitive"

\* What execute() trusts a program's code with: that it is in it, and that a
\* method that has gone on after a primitive does not jump back to before it.
JumpsOK ==
  pc = "fetch" =>
    /\ reg.bytePointer \in Nat
    /\ (PrimitiveFailed /\ Instr.op \in {"Branch", "BranchIfTrue", "BranchIfFalse"}) =>
         \E i \in 1..Instr.val : Method(reg.bp).code[i].op = "DoPrimitive"

\* The registers hold what execute() takes them to hold, and the heap what
\* the interpreter reads from it.
TypeOK ==
  /\ \A a \in DOMAIN heap : heap[a].class # MethodClass =>
       \A k \in DOMAIN heap[a].data : heap[a].data[k] \in Int
  /\ IsContext(reg.context) \/ pc \in {"return", "executed", "halted"}
  /\ ProgramOK /\ JumpsOK
  /\ {reg.method, reg.bp} \subseteq DOMAIN heap \cup {NULL}
  /\ reg.arguments \in DOMAIN heap \cup {NULL}
  /\ reg.temporaries \in DOMAIN heap \cup {NULL}
  /\ reg.instanceVariables \in DOMAIN heap \cup {NULL}
  /\ reg.bytePointer \in 0..Len(Method(reg.bp).code)
  /\ reg.stackTop \in 0..SIZE(reg.stack)
  /\ stale \subseteq Pointers
  /\ misused \subseteq Pointers

\* At the top of the loop what execute() has cached is what the context says,
\* or is not cached: otherwise a method would read the variables of another.
\* (The "if (! arguments)" tests of interp.c rely on it.  A primitive that has
\* failed leaves other arguments or temporaries: see FailureKeepsSelf.)
RegistersCoherent ==
  pc = "fetch" =>
    LET C(k) == Slot(reg.context, k) IN
      /\ reg.method = C(methodInContext)
      /\ reg.bp = reg.method
      /\ reg.stack = C(stackInContext)
      /\ reg.literals \in {NULL, reg.method}
      /\ PrimitiveFailed \/
           /\ reg.arguments \in {NULL, C(argumentsInContext)}
           /\ reg.temporaries \in {NULL, C(temporariesInContext)}
           /\ reg.instanceVariables # NULL =>
                reg.instanceVariables =
                  Slot(C(argumentsInContext), receiverInArguments)

\* No local that a collection has made stale is followed, stored in an object
\* or pushed on rootStack before it is assigned again.
NoStaleUse == misused = {}

\* At the top of the loop rootStack holds two words, and two more for each
\* execute() that is suspended in primitive 6.
RootsLevel == pc = "fetch" => Len(rootStack) = 2 + 2 * Len(frames)

\* Whatever sends, blocks, primitives and nested processes have done,
\* rootStack at the top of the loop holds the process main() pushed, then for
\* each execute() its process and, if it is suspended in primitive 6, the
\* context it is to return from.
RootsBalanced ==
  /\ RootsLevel
  /\ pc = "fetch" =>
       \A i \in 1..Len(frames) :
         /\ IsContext(rootStack[2 * i + 1])
         /\ ~IsContext(rootStack[2 * i + 2])

\* context, then the contexts that wait, directly or not, for it to return
Senders(context) ==
  LET sender[n \in 0..MaxDepth] ==
        IF n = 0 THEN context
        ELSE LET a == sender[n - 1] IN
               IF IsContext(a) THEN Slot(a, previousContextInContext) ELSE NULL
  IN [n \in 0..MaxDepth |-> sender[n]]

\* A context that waits for an answer was left just after a send, with room
\* on its stack for the answer: neither a tail call nor the suspension of a
\* process ever makes one resume anywhere else.
LeftAfterSend(a) ==
  LET code == Method(Slot(a, methodInContext)).code
      bytePointer == integerValue(Slot(a, bytePointerInContext))
      stackTop == integerValue(Slot(a, stackTopInContext))
  IN /\ bytePointer \in DOMAIN code
     /\ code[bytePointer].op \in {"SendMessage", "SendToSuper", "SendBinary"}
     /\ stackTop \in 0..(SIZE(Slot(a, stackInContext)) - 1)

\* Contexts that run or are suspended in the course of a primitive 6
Active == {reg.context} \cup {rootStack[2 * i + 1] : i \in 1..Len(frames)}

\* From each active context the chain of its senders ends (MaxDepth is beyond
\* what the programs of a run nest), and each sender was LeftAfterSend.
\* (previousContext as NewContext, primitive 8 and NewBlock set it.)
ResumedAfterSend ==
  pc = "fetch" =>
    \A c \in Active :
      LET sender == Senders(c) IN
        /\ ~IsContext(sender[MaxDepth])
        /\ \A n \in 1..MaxDepth : IsContext(sender[n]) => LeftAfterSend(sender[n])

\* A process suspended at the end of its ticks goes on from there when it is
\* resumed: run in slices of two ticks or more, it comes to an end.
Terminates == <>(pc \in {"halted", "error"})
=============================================================================
