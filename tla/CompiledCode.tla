---------------------------- MODULE CompiledCode ----------------------------
(***************************************************************************)
(* What the code of the two compilers does.  A text is compiled, and the   *)
(* method, or one of its blocks, is run by a machine that knows the effect *)
(* of each bytecode on the expression stack (src/vm/interp.c) and keeps a  *)
(* record of what the rest of the system would notice: each variable read  *)
(* or set, each message with its receiver and arguments, each Boolean      *)
(* tested, and the return.  Values are symbolic: the value of something    *)
(* that happened is the place it has in that record.                       *)
(*                                                                         *)
(* Beside the machine stands what the text means, read off the tree that   *)
(* Parser makes of it.  Cascades are as the CascadeNode has them: every    *)
(* message goes to the value of what precedes the first semicolon, which   *)
(* is also the value of the whole.                                         *)
(***************************************************************************)
EXTENDS SourceText, FiniteSets

CONSTANTS
  Sources,      \* <<compiler, text, meant>>: "bootstrap" or "image", a text for
                \* it, and the same text with no name given to two variables
  Previous,     \* texts that may have been compiled just before
  MaxTests      \* bound on the Booleans tested in one run

Bootstrap == INSTANCE BootstrapCompiler
Image == INSTANCE ImageCompiler

VARIABLES
  source,       \* the member of Sources that is compiled
  method,       \* what the compiler made of it
  entry,        \* where the run starts: 0, or after a PushBlock
  ip,           \* bytePointer
  stack,
  trace,        \* what has happened
  tests,        \* the outcomes of the tests so far
  depths,       \* history: how deep the stack was at each instruction
  over          \* the context has returned

vars == <<source, method, entry, ip, stack, trace, tests, depths, over>>
program == <<source, method, entry>>

Compiled(s, before) ==
  IF s[1] = "image" THEN Image!parseWith(s[2])
  ELSE Bootstrap!parseMethod(s[2], Bootstrap!parseMethod(before, FALSE).super)

Blocks(code) == {k \in DOMAIN code : code[k].op = "PushBlock"}

Init ==
  /\ source \in Sources
  /\ \E before \in Previous : method = Compiled(source, before)
  /\ entry \in IF method.failed THEN {0} ELSE {0} \cup Blocks(method.code)
  /\ ip = entry
  /\ stack = <<>>
  /\ trace = <<>>
  /\ tests = <<>>
  /\ depths = [k \in {entry} |-> 0]
  /\ over = method.failed

-----------------------------------------------------------------------------
(***************************************************************************)
(* The machine.                                                            *)
(***************************************************************************)
Instr == method.code[ip + 1]
Fetch(ops) == ~over /\ Instr.op \in ops
Top == Last(stack)
Popped(n) == SubSeq(stack, 1, Len(stack) - n)
Literal(i) == method.literals[i + 1]

Goto(place, depth) ==
  /\ ip' = place
  /\ depths' = [k \in DOMAIN depths \cup {place} |->
                  IF k \in DOMAIN depths THEN depths[k] ELSE depth]

Continue(s) ==
  /\ stack' = s
  /\ Goto(ip + 1, Len(s))
  /\ UNCHANGED <<program, tests, over>>

\* Something happens, and its value is pushed on what is left of the stack.
Happen(event, left) ==
  /\ trace' = Append(trace, event)
  /\ Continue(Append(left, <<"of", Len(trace) + 1>>))

Push ==
  /\ Fetch({"PushArgument", "PushConstant", "PushLiteral", "PushBlock"})
  /\ LET value ==
           CASE Instr.op = "PushArgument" -> <<"argument", Instr.low>>
             [] Instr.op = "PushConstant" -> <<"constant", Instr.low>>
             [] Instr.op = "PushLiteral" -> <<"literal", Literal(Instr.low)>>
             [] Instr.op = "PushBlock" -> <<"block", Instr.src, Instr.low>>
     IN IF Instr.op # "PushBlock" THEN Continue(Append(stack, value))
        ELSE /\ stack' = Append(stack, value)
             /\ Goto(Instr.val, Len(stack) + 1)
             /\ UNCHANGED <<program, tests, over>>
  /\ UNCHANGED trace

Read ==
  /\ Fetch({"PushTemporary", "PushInstance"})
  /\ Happen(<<Instr.op, Instr.low>>, stack)

\* The value assigned stays on the stack.
Assign ==
  /\ Fetch({"AssignTemporary", "AssignInstance"})
  /\ trace' = Append(trace, <<Instr.op, Instr.low, Top>>)
  /\ Continue(stack)

MarkArguments ==
  /\ Fetch({"MarkArguments"})
  /\ LET n == Instr.low IN
       Continue(Append(Popped(n),
                       SubSeq(stack, Len(stack) - n + 1, Len(stack))))
  /\ UNCHANGED trace

Send ==
  /\ Fetch({"SendMessage", "SendToSuper"})
  /\ Happen(IF Instr.op = "SendMessage"
            THEN <<"send", Literal(Instr.low), Top>>
            ELSE <<"super", Literal(Instr.val), Top>>, Popped(1))

\* isNil, notNil, <, <= and + are the messages of that name.
SendBuiltin ==
  /\ Fetch({"SendUnary", "SendBinary"})
  /\ LET n == IF Instr.op = "SendUnary" THEN 1 ELSE 2
         names == IF n = 1 THEN <<"isNil", "notNil">> ELSE <<"<", "<=", "+">>
     IN Happen(<<"send", <<names[Instr.low + 1]>>,
                 SubSeq(stack, Len(stack) - n + 1, Len(stack))>>, Popped(n))

DoPrimitive ==
  /\ Fetch({"DoPrimitive"})
  /\ LET n == Instr.low IN
       Happen(<<"primitive", Instr.val,
                SubSeq(stack, Len(stack) - n + 1, Len(stack))>>, Popped(n))

Duplicate ==
  /\ Fetch({"Duplicate"})
  /\ Continue(Append(stack, Top))
  /\ UNCHANGED trace

PopTop ==
  /\ Fetch({"PopTop"})
  /\ Continue(Popped(1))
  /\ UNCHANGED trace

Branch ==
  /\ Fetch({"Branch"})
  /\ Goto(Instr.val, Len(stack))
  /\ UNCHANGED <<program, stack, trace, tests, over>>

BranchIf ==
  /\ Fetch({"BranchIfTrue", "BranchIfFalse"})
  /\ Len(tests) < MaxTests
  /\ \E outcome \in BOOLEAN :
       /\ tests' = Append(tests, outcome)
       /\ Goto(IF outcome = (Instr.op = "BranchIfTrue") THEN Instr.val
               ELSE ip + 1, Len(stack) - 1)
  /\ trace' = Append(trace, <<"test", Top>>)
  /\ stack' = Popped(1)
  /\ UNCHANGED <<program, over>>

Return ==
  /\ Fetch({"StackReturn", "BlockReturn", "SelfReturn"})
  /\ trace' = Append(trace,
       IF Instr.op = "SelfReturn" THEN <<Instr.op, <<"argument", 0>>>>
       ELSE <<Instr.op, Top>>)
  /\ over' = TRUE
  /\ UNCHANGED <<program, ip, stack, tests, depths>>

Next ==
  \/ Push \/ Read \/ Assign \/ MarkArguments \/ Send \/ SendBuiltin
  \/ DoPrimitive \/ Duplicate \/ PopTop \/ Branch \/ BranchIf \/ Return

Spec == Init /\ [][Next]_vars

-----------------------------------------------------------------------------
(***************************************************************************)
(* What a text means, given how the tests come out: d.val is the value of  *)
(* the last expression evaluated.                                          *)
(***************************************************************************)
Happens(d, event) ==
  IF d.over THEN d
  ELSE [d EXCEPT !.trace = Append(@, event),
                 !.val = <<"of", Len(d.trace) + 1>>]
Ends(d, event) == [Happens(d, event) EXCEPT !.over = TRUE]

LiteralValue(v) ==
  IF FirstIndex(Constants, v[1]) > 0
  THEN <<"constant", nilConst + FirstIndex(Constants, v[1]) - 1>>
  ELSE IF IsNumeral(v[1]) /\ Numeral[v[1]] \in 0..9
  THEN <<"constant", Numeral[v[1]]>> ELSE <<"literal", v>>

Nil == Image!LiteralNode(<<"nil">>)
True == Image!LiteralNode(<<"true">>)
False == Image!LiteralNode(<<"false">>)

RECURSIVE Eval(_, _, _), EvalMessage(_, _, _, _), EvalLoop(_, _, _)

EvalStatements(d, statements, inBlock) ==
  FoldLeft(LAMBDA f, n : Eval(f, n, inBlock), d, statements)

\* d once the nodes are evaluated, and their values
EvalAll(d, nodes, inBlock) ==
  FoldLeft(LAMBDA r, n : LET f == Eval(r.d, n, inBlock)
                         IN [d |-> f, vals |-> Append(r.vals, f.val)],
           [d |-> d, vals |-> <<>>], nodes)

\* Tests d.val; the run is cut where the outcomes end.
EvalTest(d, whenTrue, whenFalse, inBlock) ==
  LET tested == Happens(d, <<"test", d.val>>)
      rest == [tested EXCEPT !.tests = Tail(@)]
  IN IF d.over \/ d.tests = <<>> THEN [tested EXCEPT !.over = TRUE]
     ELSE EvalStatements(rest, IF Head(d.tests) THEN whenTrue ELSE whenFalse,
                         inBlock)

EvalLoop(d, n, inBlock) ==
  LET test == EvalStatements(d, n.receiver.statements, inBlock)
      tested == Happens(test, <<"test", test.val>>)
      rest == [tested EXCEPT !.tests = Tail(@)]
  IN IF test.over \/ test.tests = <<>> THEN [tested EXCEPT !.over = TRUE]
     ELSE IF Head(test.tests)
     THEN EvalLoop(EvalStatements(rest, n.arguments[1].statements, inBlock),
                   n, inBlock)
     ELSE Eval(rest, Nil, inBlock)

\* The message n to the receiver whose value is d.val
EvalMessage(d, n, toSuper, inBlock) ==
  LET Arm(i) == n.arguments[i].statements
      inLine == ~toSuper /\ n.receiver # Image!NoNode
                /\ Image!argumentsAreBlock(n)
      r == EvalAll(d, n.arguments, inBlock)
  IN CASE inLine /\ n.name = <<"ifTrue:">> ->
            EvalTest(d, Arm(1), <<Nil>>, inBlock)
       [] inLine /\ n.name = <<"ifFalse:">> ->
            EvalTest(d, <<Nil>>, Arm(1), inBlock)
       [] inLine /\ n.name = <<"and:">> ->
            EvalTest(d, Arm(1), <<False>>, inBlock)
       [] inLine /\ n.name = <<"or:">> ->
            EvalTest(d, <<True>>, Arm(1), inBlock)
       [] inLine /\ n.name = <<"ifTrue:", "ifFalse:">> ->
            EvalTest(d, Arm(1), Arm(2), inBlock)
       [] inLine /\ n.name = <<"ifFalse:", "ifTrue:">> ->
            EvalTest(d, Arm(2), Arm(1), inBlock)
       [] OTHER -> Happens(r.d, <<IF toSuper THEN "super" ELSE "send", n.name,
                                  <<d.val>> \o r.vals>>)

Eval(d, n, inBlock) ==
  LET expression == Eval(d, n.expression, inBlock)
      position == n.position - 1
      receiver == Eval(d, n.receiver, inBlock)
      head == Eval(d, n.head, inBlock)
      r == EvalAll(d, n.arguments, inBlock)
  IN CASE n.kind = "argument" ->
            [d EXCEPT !.val = <<"argument", IF position = -1 THEN 0
                                            ELSE position>>]
       [] n.kind = "temporary" -> Happens(d, <<"PushTemporary", position>>)
       [] n.kind = "instance" -> Happens(d, <<"PushInstance", position>>)
       [] n.kind = "literal" -> [d EXCEPT !.val = LiteralValue(n.value)]
       [] n.kind = "block" ->
            [d EXCEPT !.val = <<"block", n.src, n.temporaryLocation>>]
       [] n.kind = "assign" ->
            [Happens(expression,
                     <<IF n.target.kind = "temporary" THEN "AssignTemporary"
                       ELSE "AssignInstance", n.target.position - 1,
                       expression.val>>) EXCEPT !.val = expression.val]
       [] n.kind = "message" ->
            IF n.receiver = Image!NoNode THEN EvalMessage(d, n, FALSE, inBlock)
            ELSE IF Image!IsBlock(n.receiver) /\ n.name = <<"whileTrue:">>
            THEN EvalLoop(d, n, inBlock)
            ELSE EvalMessage(receiver, n, Image!IsSuper(n.receiver), inBlock)
       [] n.kind = "cascade" ->
            FoldLeft(LAMBDA f, m :
                       [Eval([f EXCEPT !.val = head.val], m, inBlock)
                          EXCEPT !.val = head.val], head, n.list)
       [] n.kind = "primitive" ->
            Happens(r.d, <<"primitive", n.number, r.vals>>)
       [] n.kind = "return" ->
            Ends(expression, <<IF inBlock THEN "BlockReturn" ELSE "StackReturn",
                               expression.val>>)

\* The blocks of a tree, at any depth
RECURSIVE BlocksOf(_)
BlocksOf(n) ==
  LET BlocksIn(nodes) == UNION {BlocksOf(nodes[i]) : i \in DOMAIN nodes}
  IN CASE n.kind = "block" -> {n} \cup BlocksIn(n.statements)
       [] n.kind = "message" -> BlocksOf(n.receiver) \cup BlocksIn(n.arguments)
       [] n.kind = "primitive" -> BlocksIn(n.arguments)
       [] n.kind = "cascade" -> BlocksOf(n.head) \cup BlocksIn(n.list)
       [] n.kind \in {"assign", "return"} -> BlocksOf(n.expression)
       [] OTHER -> {}

BlockAt(nodes, src) ==
  CHOOSE b \in UNION {BlocksOf(nodes[i]) : i \in DOMAIN nodes} : b.src = src

Returned(d) == Ends(d, <<"StackReturn", d.val>>)

\* The run of a method, or of the block whose text starts at src
MeaningOf(nodes, src) ==
  LET d == [trace |-> <<>>, tests |-> tests, val |-> <<"argument", 0>>,
            over |-> FALSE]
  IN IF src = 0
     THEN Ends(EvalStatements(d, nodes, FALSE),
               <<"SelfReturn", <<"argument", 0>>>>)
     ELSE Returned(EvalStatements(d, BlockAt(nodes, src).statements, TRUE))

Meaning ==
  MeaningOf(Image!parseTree(source[3]).node,
            IF entry = 0 THEN 0 ELSE method.code[entry].src)

-----------------------------------------------------------------------------
(***************************************************************************)
(* Properties.                                                             *)
(***************************************************************************)
\* The variables of the model have the values they are meant to have; the
\* machine never leaves the code it runs.
TypeOK ==
  /\ source \in Sources
  /\ entry \in 0..Len(method.code)
  /\ method.failed \/ ip \in 0..(Len(method.code) - 1)
  /\ tests \in Seq(BOOLEAN)
  /\ over \in BOOLEAN

\* The code that either compiler makes of a text does what the text says: the
\* same variables are read and set and the same messages sent, to the same
\* receivers, with the same arguments and in the same order, however the tests
\* come out.  (A text that a compiler refuses does nothing.)
DoesWhatItSays == over => ~method.failed /\ trace = Meaning.trace

\* The stack that a context is given, stackSize words for a method and for each
\* block of it, holds everything that the code pushes: execute() pushes without
\* comparing stackTop with the size of the stack.
StackSuffices == Len(stack) <= method.stackSize

\* Coming back to an instruction, a loop finds the stack as deep as it was.
LoopsLeaveNothing == depths[ip] = Len(stack)

\* A name that a class and its superclass both give to an instance variable
\* stands for the same variable in both compilers.
SameVariables ==
  \A k \in DOMAIN Variables : \A name \in Range(Variables[k]) :
    LET g == [args |-> <<"self">>, temps |-> <<>>, node |-> Nil]
    IN Image!nameNode(g, name).node
         = Image!InstNode(Bootstrap!lookupInstance(name) + 1)
=============================================================================
