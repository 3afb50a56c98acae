---------------------------- MODULE ImageCompiler ----------------------------
(***************************************************************************)
(* The compiler that runs inside an image: the classes Parser, Encoder and *)
(* the subclasses of ParserNode of src/smalltalk/system/lst.st.  Parser    *)
(* turns a text into a tree; each node of the tree then compiles itself    *)
(* into an Encoder, which also works out how deep the expression stack of  *)
(* the method gets.                                                        *)
(*                                                                         *)
(* The state of a Parser is a record g; node is what the last method       *)
(* answered.  Lists of arguments and statements, which lst.st builds back  *)
(* to front and walks with reverseDo:, are in the order of the text.       *)
(***************************************************************************)
EXTENDS SourceText

Lex(g) == Token(g.text, g.p)
nextLex(g) == [g EXCEPT !.p = @ + 1]
Answer(g, node) == [g EXCEPT !.node = node]

\* error: evaluates errBlock, which returns nil from parse:with:.
ParserError(g) == [g EXCEPT !.p = Len(g.text) + 1, !.failed = TRUE]
Demand(g, t) == IF Lex(g) = t THEN nextLex(g) ELSE ParserError(g)

NoNode == [kind |-> "none"]
TemporaryNode(i) == [kind |-> "temporary", position |-> i]
ArgumentNode(i) == [kind |-> "argument", position |-> i]
InstNode(i) == [kind |-> "instance", position |-> i]
LiteralNode(v) == [kind |-> "literal", value |-> v]
MessageNode(receiver, name, arguments) ==
  [kind |-> "message", receiver |-> receiver, name |-> name,
   arguments |-> arguments]
BlockNode(statements, location, src) ==
  [kind |-> "block", statements |-> statements,
   temporaryLocation |-> location, src |-> src]

\* allVariables of Class: the variables of the superclasses first
instNames == FoldLeft(LAMBDA names, vars : vars \o names, <<>>, Variables)

addArgName(g, name) ==
  IF FirstIndex(instNames \o g.args, name) > 0 THEN ParserError(g)
  ELSE [g EXCEPT !.args = Append(@, name)]

addTempName(g, name) ==
  IF FirstIndex(g.args \o instNames \o g.temps, name) > 0 THEN ParserError(g)
  ELSE [g EXCEPT !.temps = Append(@, name),
                 !.maxTemps = IF @ > Len(g.temps) THEN @ ELSE Len(g.temps) + 1]

nameNode(g, name) ==
  CASE name = "super" -> Answer(g, ArgumentNode(0))
    [] FirstIndex(g.temps, name) > 0 ->
         Answer(g, TemporaryNode(FirstIndex(g.temps, name)))
    [] OTHER ->
  CASE FirstIndex(g.args, name) > 0 ->
         Answer(g, ArgumentNode(FirstIndex(g.args, name)))
    [] OTHER ->
  CASE FirstIndex(instNames, name) > 0 ->
         Answer(g, InstNode(FirstIndex(instNames, name)))
    [] OTHER -> IF name \in Globals \cup Range(Constants)
                THEN Answer(g, LiteralNode(<<name>>)) ELSE ParserError(g)

-----------------------------------------------------------------------------
RECURSIVE parse(_, _), readTerms(_, _), readStatementList(_, _),
          readBlockTemporaries(_), unaryContinuation(_), binarySends(_),
          keywordArguments(_, _, _), cascadeMessages(_, _)

readTerms(g, terms) ==
  LET term == parse("term", g)
  IN IF Lex(g) \in {EndOfText, ">"} THEN Answer(g, terms)
     ELSE readTerms(term, Append(terms, term.node))

readPrimitive(g) ==
  LET r == readTerms(nextLex(nextLex(g)), <<>>)
  IN IF ~IsNumeral(Lex(nextLex(g))) THEN ParserError(g)
     ELSE Answer(Demand(r, ">"),
                 [kind |-> "primitive", number |-> Numeral[Lex(nextLex(g))],
                  arguments |-> r.node])

readStatement(g) ==
  LET returned == parse("expression", nextLex(g))
  IN IF Lex(g) # "^" THEN parse("expression", g)
     ELSE Answer(returned, [kind |-> "return", expression |-> returned.node])

readStatementList(g, list) ==
  LET h == parse("statement", g)
      read == Append(list, h.node)
      after == nextLex(h)
  IN IF Lex(h) # "." THEN Answer(h, read)
     ELSE IF Lex(after) \in {EndOfText, "]"} THEN Answer(after, read)
     ELSE readStatementList(after, read)

readBlockTemporaries(g) ==
  LET named == nextLex(g)
      added == addTempName(nextLex(named), Lex(named))
  IN IF ~IsName(Lex(named)) THEN ParserError(g)
     ELSE IF Lex(added) = ":" THEN readBlockTemporaries(added)
     ELSE Demand(added, "|")

readBlock(g) ==
  LET inside == nextLex(g)
      headed == IF Lex(inside) = ":" THEN readBlockTemporaries(inside)
                ELSE inside
      read == readStatementList(headed, <<>>)
  IN Answer([Demand(read, "]") EXCEPT !.temps = g.temps],
            BlockNode(read.node, Len(g.temps), g.p))

readTerm(g) ==
  CASE Lex(g) = "(" -> Demand(parse("expression", nextLex(g)), ")")
    [] Lex(g) = "[" -> readBlock(g)
    [] Lex(g) = "<" -> readPrimitive(g)
    [] IsName(Lex(g)) -> nameNode(nextLex(g), Lex(g))
    [] IsNumeral(Lex(g)) \/ Lex(g) \in Quoted ->
         Answer(nextLex(g), LiteralNode(<<Lex(g)>>))
    [] OTHER -> ParserError(g)

unaryContinuation(g) ==
  IF ~IsName(Lex(g)) THEN g
  ELSE unaryContinuation(
         Answer(nextLex(g), MessageNode(g.node, <<Lex(g)>>, <<>>)))

binarySends(g) ==
  LET argument == unaryContinuation(parse("term", nextLex(g)))
  IN IF ~IsBinary(Lex(g)) THEN g
     ELSE binarySends(
            Answer(argument,
                   MessageNode(g.node, <<Lex(g)>>, <<argument.node>>)))

binaryContinuation(g) == binarySends(unaryContinuation(g))

keywordArguments(g, name, args) ==
  LET argument == parse("binary", parse("term", nextLex(g)))
  IN IF ~IsKeyword(Lex(g)) THEN Answer(g, <<name, args>>)
     ELSE keywordArguments(argument, Append(name, Lex(g)),
                           Append(args, argument.node))

keywordContinuation(g) ==
  LET receiver == parse("binary", g)
      r == keywordArguments(receiver, <<>>, <<>>)
  IN IF ~IsKeyword(Lex(receiver)) THEN receiver
     ELSE Answer(r, MessageNode(receiver.node, r.node[1], r.node[2]))

\* The messages of a cascade have no receiver in the tree.
cascadeMessages(g, list) ==
  LET message == parse("keyword", Answer(nextLex(g), NoNode))
  IN IF Lex(g) # ";" THEN Answer(g, list)
     ELSE cascadeMessages(message, Append(list, message.node))

readCascade(g) ==
  LET h == parse("keyword", g)
      r == cascadeMessages(h, <<>>)
  IN IF Lex(h) # ";" THEN h
     ELSE Answer(r, [kind |-> "cascade", head |-> h.node, list |-> r.node])

readExpression(g) ==
  LET named == nameNode(nextLex(g), Lex(g))
      value == parse("expression", nextLex(named))
  IN IF ~IsName(Lex(g)) THEN readCascade(parse("term", g))
     ELSE IF Lex(named) # ":=" THEN readCascade(named)
     ELSE IF named.node.kind \notin {"temporary", "instance"}
     THEN ParserError(named)
     ELSE Answer(value, [kind |-> "assign", target |-> named.node,
                         expression |-> value.node])

\* The methods that call one another
parse(what, g) ==
  CASE what = "term" -> readTerm(g)
    [] what = "binary" -> binaryContinuation(g)
    [] what = "keyword" -> keywordContinuation(g)
    [] what = "expression" -> readExpression(g)
    [] what = "statement" -> readStatement(g)

-----------------------------------------------------------------------------
RECURSIVE readKeywordName(_), readTemporaryNames(_)

readKeywordName(g) ==
  IF ~IsKeyword(Lex(g)) THEN g
  ELSE IF ~IsName(Lex(nextLex(g))) THEN ParserError(g)
  ELSE readKeywordName(addArgName(nextLex(nextLex(g)), Lex(nextLex(g))))

readMethodName(g) ==
  CASE IsName(Lex(g)) -> nextLex(g)
    [] IsBinary(Lex(g)) /\ IsName(Lex(nextLex(g))) ->
         addArgName(nextLex(nextLex(g)), Lex(nextLex(g)))
    [] IsKeyword(Lex(g)) -> readKeywordName(g)
    [] OTHER -> ParserError(g)

readTemporaryNames(g) ==
  IF IsName(Lex(g)) THEN readTemporaryNames(addTempName(nextLex(g), Lex(g)))
  ELSE Demand(g, "|")

readMethodVariables(g) ==
  IF Lex(g) = "|" THEN readTemporaryNames(nextLex(g)) ELSE g

\* The tree of a text, a body, and what parse:with: knows when it is read
parseTree(text) ==
  readStatementList(
    readMethodVariables(readMethodName(
      [text |-> text, p |-> 1, args |-> <<"self">>, temps |-> <<>>,
       maxTemps |-> 0, failed |-> FALSE, node |-> NoNode])), <<>>)

-----------------------------------------------------------------------------
(***************************************************************************)
(* Encoder.  stackSize counts what is on the stack, by arguments pushed    *)
(* and popped; the greatest it has been becomes the method's stackSize.    *)
(***************************************************************************)
gen(e, op, low, val) ==
  [e EXCEPT !.code = Append(@, Instruction(op, low, val))]
genHigh(e, op, low) == gen(e, op, low, 0)
currentLocation(e) == Len(e.code)
patch(e, loc) == [e EXCEPT !.code[loc].val = Len(e.code)]
backUp(e) == [e EXCEPT !.code = Front(@)]

\* The index of a literal, and the encoder that has it
LiteralIndex(e, v) ==
  IF FirstIndex(e.lits, v) > 0 THEN FirstIndex(e.lits, v) - 1 ELSE Len(e.lits)
genLiteral(e, v) ==
  IF FirstIndex(e.lits, v) > 0 THEN e ELSE [e EXCEPT !.lits = Append(@, v)]

pushArgs(e, n) ==
  [e EXCEPT !.stackSize = @ + n,
            !.maxStack = IF @ > e.stackSize + n THEN @ ELSE e.stackSize + n]

\* Mutant: the receiver is popped with the arguments.
popArgsAndReceiver(e, n) == [e EXCEPT !.stackSize = @ - n - 1]

popArgs(e, n) == [e EXCEPT !.stackSize = @ - n]

IsBlock(n) == n.kind = "block"
IsSuper(n) == n.kind = "argument" /\ n.position = 0
argumentsAreBlock(n) == \A i \in DOMAIN n.arguments : IsBlock(n.arguments[i])

compileLiteral(e, v) ==
  LET token == v[1]
      constant == FirstIndex(Constants, token)
  IN IF constant > 0 THEN genHigh(e, "PushConstant", nilConst + constant - 1)
     ELSE IF IsNumeral(token) /\ Numeral[token] \in 0..9
     THEN genHigh(e, "PushConstant", Numeral[token])
     ELSE genHigh(genLiteral(e, v), "PushLiteral", LiteralIndex(e, v))

sendMessage(e, n) ==
  LET marked == genHigh(popArgs(e, Len(n.arguments)), "MarkArguments",
                        1 + Len(n.arguments))
  IN genHigh(genLiteral(marked, n.name), "SendMessage", LiteralIndex(e, n.name))

RECURSIVE compile(_, _, _)

compileAll(e, nodes, inBlock) ==
  FoldLeft(LAMBDA f, n : compile(f, n, inBlock), e, nodes)

\* Every statement, with its value popped
compileStatements(e, statements, inBlock) ==
  FoldLeft(LAMBDA f, n : genHigh(compile(f, n, inBlock), "PopTop", 0),
           e, statements)

compileInLine(e, block, inBlock) ==
  backUp(compileStatements(e, block.statements, inBlock))

evaluateArguments(e, n, inBlock) ==
  compileAll(pushArgs(e, 1 + Len(n.arguments)), n.arguments, inBlock)

sendToSuper(e, n, inBlock) ==
  LET f == genHigh(evaluateArguments(e, n, inBlock), "MarkArguments",
                   1 + Len(n.arguments))
  IN gen(genLiteral(f, n.name), "SendToSuper", 0, LiteralIndex(f, n.name))

compileTest(e, n, test, constant, inBlock) ==
  LET tested == genHigh(e, test, 0)
      first == genHigh(compileInLine(tested, n.arguments[1], inBlock),
                       "Branch", 0)
      second == genHigh(patch(first, currentLocation(tested)),
                        "PushConstant", constant)
  IN patch(second, currentLocation(first))

optimizeIf(e, n, inBlock) ==
  LET tested == genHigh(e, "BranchIfTrue", 0)
      first == genHigh(compileInLine(tested, n.arguments[2], inBlock),
                       "Branch", 0)
      second == compileInLine(patch(first, currentLocation(tested)),
                              n.arguments[1], inBlock)
  IN patch(second, currentLocation(first))

optimizeWhile(e, n, inBlock) ==
  LET test == genHigh(compileInLine(e, n.receiver, inBlock),
                      IF n.name = <<"whileTrue:">> THEN "BranchIfFalse"
                      ELSE "BranchIfTrue", 0)
      body == genHigh(compileInLine(test, n.arguments[1], inBlock), "PopTop", 0)
      loop == gen(body, "Branch", 0, currentLocation(e))
  IN genHigh(patch(loop, currentLocation(test)), "PushConstant", nilConst)

Builtin == <<"<", "<=", "+">>

compile2(e, n, inBlock) ==
  LET Named(name) == argumentsAreBlock(n) /\ n.name = name
      evaluated == evaluateArguments(e, n, inBlock)
  IN CASE Named(<<"ifTrue:">>) ->
            compileTest(e, n, "BranchIfFalse", nilConst, inBlock)
       [] Named(<<"ifFalse:">>) ->
            compileTest(e, n, "BranchIfTrue", nilConst, inBlock)
       [] Named(<<"and:">>) ->
            compileTest(e, n, "BranchIfFalse", falseConst, inBlock)
       [] Named(<<"or:">>) ->
            compileTest(e, n, "BranchIfTrue", trueConst, inBlock)
       [] Named(<<"ifTrue:", "ifFalse:">>) -> optimizeIf(e, n, inBlock)
       [] Len(n.name) = 1 /\ FirstIndex(Builtin, n.name[1]) > 0 ->
            genHigh(evaluated, "SendBinary", FirstIndex(Builtin, n.name[1]) - 1)
       [] OTHER -> sendMessage(evaluated, n)

\* The name of the loop that is not a whileTrue: lacks its colon in lst.st.
compileMessage(e, n, inBlock) ==
  LET f == compile(e, n.receiver, inBlock)
  IN CASE n.receiver = NoNode ->
            sendMessage(evaluateArguments(e, n, inBlock), n)
       [] IsBlock(n.receiver) /\ argumentsAreBlock(n)
          /\ n.name \in {<<"whileTrue:">>, <<"whileFalse">>} ->
            optimizeWhile(e, n, inBlock)
       [] IsSuper(n.receiver) -> sendToSuper(f, n, inBlock)
       [] n.name = <<"isNil">> -> genHigh(f, "SendUnary", 0)
       [] n.name = <<"notNil">> -> genHigh(f, "SendUnary", 1)
       [] OTHER -> compile2(f, n, inBlock)

compileCascade(e, n, inBlock) ==
  FoldLeft(LAMBDA f, m : genHigh(compile(genHigh(f, "Duplicate", 0), m, inBlock),
                                 "PopTop", 0),
           compile(e, n.head, inBlock), n.list)

compileBlock(e, n) ==
  LET pushed == [e EXCEPT !.code = Append(@, [op |-> "PushBlock",
                   low |-> n.temporaryLocation, val |-> 0, src |-> n.src])]
      done == genHigh(compileInLine(pushed, n, TRUE), "StackReturn", 0)
  IN patch(done, currentLocation(pushed))

compileAssign(e, n, inBlock) ==
  genHigh(compile(e, n.expression, inBlock),
          IF n.target.kind = "temporary" THEN "AssignTemporary"
          ELSE "AssignInstance", n.target.position - 1)

compilePrimitive(e, n, inBlock) ==
  LET argsize == Len(n.arguments)
  IN popArgs(gen(compileAll(pushArgs(e, argsize), n.arguments, inBlock),
                 "DoPrimitive", argsize, n.number), argsize)

compile(e, n, inBlock) ==
  CASE n.kind = "argument" ->
         genHigh(e, "PushArgument", IF IsSuper(n) THEN 0 ELSE n.position - 1)
    [] n.kind = "temporary" -> genHigh(e, "PushTemporary", n.position - 1)
    [] n.kind = "instance" -> genHigh(e, "PushInstance", n.position - 1)
    [] n.kind = "literal" -> compileLiteral(e, n.value)
    [] n.kind = "assign" -> compileAssign(e, n, inBlock)
    [] n.kind = "message" -> compileMessage(e, n, inBlock)
    [] n.kind = "block" -> compileBlock(e, n)
    [] n.kind = "cascade" -> compileCascade(e, n, inBlock)
    [] n.kind = "primitive" -> compilePrimitive(e, n, inBlock)
    [] n.kind = "return" ->
         genHigh(compile(e, n.expression, inBlock),
                 IF inBlock THEN "BlockReturn" ELSE "StackReturn", 0)

\* What parse:with: makes of the parser that has read the whole text
Encoded(g) ==
  LET empty == [code |-> <<>>, lits |-> <<>>, stackSize |-> 0, maxStack |-> 1]
  IN IF g.failed THEN empty
     ELSE genHigh(compileStatements(empty, g.node, FALSE), "SelfReturn", 0)

MethodOf(g, e) ==
  [failed |-> g.failed, code |-> e.code, literals |-> e.lits,
   stackSize |-> e.maxStack, temporarySize |-> g.maxTemps]

CompiledTree(g) == MethodOf(g, Encoded(g))
parseWith(text) == CompiledTree(parseTree(text))
=============================================================================
