-------------------------- MODULE BootstrapCompiler --------------------------
(***************************************************************************)
(* The compiler of src/bootstrap/bootstrap.c.  It parses by recursive      *)
(* descent and emits each instruction as soon as it has read what the      *)
(* instruction is for.  What it remembers it keeps in C globals; here they *)
(* are the fields of a record s that each parsing function takes and       *)
(* returns:                                                                *)
(*   p             the next token of text                                  *)
(*   code, literals   byteBuffer and litBuffer                             *)
(*   args, temps   argumentNames and tempBuffer, up to tempTop             *)
(*   temporarySize maxTemp: the largest tempTop has been                   *)
(*   stackSize     as every method is given it                             *)
(*   super         superMessage: the last term read was super              *)
(*   backup        blockbackup: where the last term read starts, if it is  *)
(*                 a block, else 0                                         *)
(*   returnOp      the instruction that a ^ is compiled to                 *)
(*   failed        parseError() or error(): the program has stopped        *)
(***************************************************************************)
EXTENDS SourceText

MAX_LITERALS == 1000
ArgumentBufferTop == 64
TempBufferTop == 500
StackSize == 19

Tok(s) == Token(s.text, s.p)
Next(s) == [s EXCEPT !.p = @ + 1]

\* The program exits: nothing more is read.
parseError(s) == [s EXCEPT !.p = Len(s.text) + 1, !.failed = TRUE]
Expect(s, t) == IF Tok(s) = t THEN Next(s) ELSE parseError(s)

-----------------------------------------------------------------------------
(***************************************************************************)
(* Code generation.  An operand that does not fit the low four bits is     *)
(* written as a byte of its own, whatever it is.                           *)
(***************************************************************************)
byteTop(s) == Len(s.code)
tempTop(s) == Len(s.temps)
Emit(s, op, low, val) ==
  [s EXCEPT !.code = Append(@, Instruction(op, low % 256, val))]
genInstruction(s, op, low) == Emit(s, op, low, 0)
DoSpecial(s, op) == Emit(s, op, 0, 0)

\* The operand of the instruction at pos, once it is known
genValPos(s, pos, v) == [s EXCEPT !.code[pos].val = v]

\* FIXME of the source: duplicates are not removed.
addLiteral(s, v) ==
  IF Len(s.literals) + 1 >= MAX_LITERALS THEN parseError(s)
  ELSE [s EXCEPT !.literals = Append(@, v)]
PushLiteral(s, v) ==
  genInstruction(addLiteral(s, v), "PushLiteral", Len(s.literals))

addArgument(s, name) ==
  IF Len(s.args) + 1 >= ArgumentBufferTop THEN parseError(s)
  ELSE [s EXCEPT !.args = Append(@, name)]

addTemporary(s, name) ==
  IF tempTop(s) + 1 >= TempBufferTop THEN parseError(s)
  ELSE [s EXCEPT !.temps = Append(@, name),
                 !.temporarySize = IF @ > tempTop(s) THEN @ ELSE tempTop(s) + 1]

\* Mutant: superMessage is not reset once its message is sent.
genSendSuperKept(s, selector, n, toSuper) ==
  LET marked == genInstruction(addLiteral(s, selector), "MarkArguments", n)
  IN IF toSuper THEN Emit(marked, "SendToSuper", 0, Len(s.literals) % 256)
     ELSE genInstruction(marked, "SendMessage", Len(s.literals))

\* MarkArguments n, and the message to the receiver or to super
genSend(s, selector, n, toSuper) ==
  LET marked == genInstruction(addLiteral(s, selector), "MarkArguments", n)
      literal == Len(s.literals)
  IN IF toSuper
     THEN [Emit(marked, "SendToSuper", 0, literal % 256) EXCEPT !.super = FALSE]
     ELSE genInstruction(marked, "SendMessage", literal)

-----------------------------------------------------------------------------
(***************************************************************************)
(* Names: of the temporaries the oldest of that name, then the arguments,  *)
(* super, the constants, the instance variables of the nearest class that  *)
(* has one of that name, the globals.                                      *)
(***************************************************************************)
parentSize(k) ==
  FoldLeft(LAMBDA n, vars : n + Len(vars), 0,
           SubSeq(Variables, k + 1, Len(Variables)))

lookupInstance(name) ==
  LET k == SelectInSeq(Variables, LAMBDA vars : FirstIndex(vars, name) > 0)
  IN IF k = 0 THEN -1
     ELSE parentSize(k) + FirstIndex(Variables[k], name) - 1

tempIndex(s, name) == FirstIndex(s.temps, name)

nameTerm(s, name) ==
  CASE tempIndex(s, name) > 0 ->
         genInstruction(s, "PushTemporary", tempIndex(s, name) - 1)
    [] OTHER ->
  CASE FirstIndex(s.args, name) > 0 ->
         genInstruction(s, "PushArgument", FirstIndex(s.args, name) - 1)
    [] name = "super" ->
         [genInstruction(s, "PushArgument", 0) EXCEPT !.super = TRUE]
    [] FirstIndex(Constants, name) > 0 ->
         genInstruction(s, "PushConstant",
                        nilConst + FirstIndex(Constants, name) - 1)
    [] OTHER ->
  CASE lookupInstance(name) >= 0 ->
         genInstruction(s, "PushInstance", lookupInstance(name))
    [] OTHER -> IF name \in Globals THEN PushLiteral(s, <<name>>)
                ELSE parseError(s)

doAssignment(s, name) ==
  IF tempIndex(s, name) > 0
  THEN genInstruction(s, "AssignTemporary", tempIndex(s, name) - 1)
  ELSE IF lookupInstance(name) >= 0
  THEN genInstruction(s, "AssignInstance", lookupInstance(name))
  ELSE parseError(s)

parseInteger(s) ==
  IF Numeral[Tok(s)] \in 0..9
  THEN genInstruction(Next(s), "PushConstant", Numeral[Tok(s)])
  ELSE PushLiteral(Next(s), <<Tok(s)>>)

-----------------------------------------------------------------------------
\* The parsing functions of C that call each other: what is the one called.
RECURSIVE parse(_, _), parsePrimitiveArguments(_, _), parseParameters(_),
          parseBlockStatements(_), parseUnaryContinuation(_),
          parseBinaryMessages(_), parseOptimizedStatements(_),
          parseKeywordArguments(_, _, _), parseCascade(_)

parseStatement(s) ==
  IF Tok(s) = "^" THEN DoSpecial(parse("expression", Next(s)), s.returnOp)
  ELSE parse("expression", s)

\* The terms up to the closing >, of which n have been read
parsePrimitiveArguments(s, n) ==
  IF Tok(s) \in {EndOfText, ">"} THEN [s |-> s, n |-> n]
  ELSE parsePrimitiveArguments(parse("term", s), n + 1)

parsePrimitive(s) ==
  IF ~IsNumeral(Tok(Next(s))) THEN parseError(s)
  ELSE LET number == Numeral[Tok(Next(s))]
           r == parsePrimitiveArguments(Next(Next(s)), 0)
       IN Emit(Expect(r.s, ">"), "DoPrimitive", r.n, number)

parseParameters(s) ==
  LET named == Next(s)
      added == addTemporary(Next(named), Tok(named))
  IN IF ~IsName(Tok(named)) THEN parseError(s)
     ELSE CASE Tok(added) = "|" -> Next(added)
            [] Tok(added) = ":" -> parseParameters(added)
            [] OTHER -> parseError(added)

\* A full stop before the ] is allowed.
AfterStatement(s) == IF Tok(s) = "." THEN Next(s) ELSE s

parseBlockStatements(s) ==
  LET t == AfterStatement(parse("statement", s))
  IN IF t.failed \/ Tok(t) = "]" THEN t
     ELSE parseBlockStatements(DoSpecial(t, "PopTop"))

\* src is a note for the properties: the token that the block starts at.
parseBlock(s) ==
  LET pushed == [s EXCEPT !.p = @ + 1,
                   !.code = Append(@, [op |-> "PushBlock", low |-> tempTop(s) % 256,
                                       val |-> 0, src |-> s.p])]
      headed == IF Tok(pushed) = ":" THEN parseParameters(pushed) ELSE pushed
      body == IF Tok(headed) = "]"
              THEN genInstruction(headed, "PushConstant", nilConst)
              ELSE [parseBlockStatements(
                      [headed EXCEPT !.returnOp = "BlockReturn"])
                        EXCEPT !.returnOp = s.returnOp]
      done == DoSpecial(Expect(body, "]"), "StackReturn")
  IN [genValPos(done, byteTop(pushed), byteTop(done)) EXCEPT
        !.temps = s.temps, !.backup = s.p]

parseTerm(s0) ==
  LET s == [s0 EXCEPT !.backup = 0, !.super = FALSE]
  IN CASE Tok(s) = "(" -> Expect(parse("expression", Next(s)), ")")
       [] Tok(s) = "<" -> parsePrimitive(s)
       [] IsNumeral(Tok(s)) -> parseInteger(s)
       [] Tok(s) \in Quoted -> PushLiteral(Next(s), <<Tok(s)>>)
       [] IsName(Tok(s)) -> nameTerm(Next(s), Tok(s))
       [] Tok(s) = "[" -> parseBlock(s)
       [] OTHER -> parseError(s)

unaryBuiltIns == <<"isNil", "notNil">>
binaryBuiltIns == <<"<", "<=", "+">>

parseUnaryContinuation(s) ==
  LET builtin == FirstIndex(unaryBuiltIns, Tok(s)) IN
  IF ~IsName(Tok(s)) THEN s
  ELSE parseUnaryContinuation(
         IF ~s.super /\ builtin > 0
         THEN genInstruction(Next(s), "SendUnary", builtin - 1)
         ELSE genSend(Next(s), <<Tok(s)>>, 1, s.super))

parseBinaryMessages(s) ==
  LET read == parseUnaryContinuation(parse("term", Next(s)))
      builtin == FirstIndex(binaryBuiltIns, Tok(s))
  IN IF ~IsBinary(Tok(s)) THEN s
     ELSE parseBinaryMessages(
            IF ~read.super /\ builtin > 0
            THEN genInstruction(read, "SendBinary", builtin - 1)
            ELSE genSend(read, <<Tok(s)>>, 2, read.super))

parseBinaryContinuation(s) == parseBinaryMessages(parseUnaryContinuation(s))

-----------------------------------------------------------------------------
(***************************************************************************)
(* The messages that are compiled in line, with their blocks.              *)
(***************************************************************************)
parseOptimizedStatements(s) ==
  LET t == AfterStatement(parse("statement", s))
  IN IF t.failed \/ Tok(t) = "]" THEN t
     ELSE parseOptimizedStatements(DoSpecial(t, "PopTop"))

optimizeBlock(s) ==
  IF Tok(s) # "[" THEN parseError(s)
  ELSE IF Tok(Next(s)) = "]"
  THEN Next(genInstruction(Next(s), "PushConstant", 0))
  ELSE Next(parseOptimizedStatements(Next(s)))

controlFlow(s, opt1, rest, opt2) ==
  LET first == DoSpecial(optimizeBlock(DoSpecial(s, opt1)), "Branch")
      second == genValPos(first, byteTop(s) + 1, byteTop(first))
      last == IF Tok(second) = rest
              THEN optimizeBlock(Next(second))
              ELSE genInstruction(second, "PushConstant", opt2)
  IN genValPos(last, byteTop(first), byteTop(last))

\* Mutant: the value of the body is not popped.
optimizeLoopUnpopped(s, branchInstruction) ==
  LET test == DoSpecial(optimizeBlock([s EXCEPT !.p = s.backup]),
                        branchInstruction)
      loop == Emit(optimizeBlock(Next(test)), "Branch", 0, byteTop(s))
      done == genValPos(loop, byteTop(test), byteTop(loop))
  IN genInstruction(done, "PushConstant", 0)

\* The block before the message has been compiled; it is read once more, to be
\* compiled in line.  What the first reading emitted stays.
optimizeLoop(s, branchInstruction) ==
  LET test == DoSpecial(optimizeBlock([s EXCEPT !.p = s.backup]),
                        branchInstruction)
      body == DoSpecial(optimizeBlock(Next(test)), "PopTop")
      loop == Emit(body, "Branch", 0, byteTop(s))
      done == genValPos(loop, byteTop(test), byteTop(loop))
  IN IF ~IsKeyword(Tok(test)) THEN parseError(s)
     ELSE genInstruction(done, "PushConstant", 0)

parseKeywordArguments(s, selector, n) ==
  IF ~IsKeyword(Tok(s)) THEN [s |-> s, selector |-> selector, n |-> n]
  ELSE parseKeywordArguments(parse("binary", parse("term", Next(s))),
                             Append(selector, Tok(s)), n + 1)

parseKeywordContinuation(s0) ==
  LET s == parse("binary", s0)
      t == Tok(s)
      r == parseKeywordArguments(s, <<>>, 0)
  IN CASE t = "ifTrue:" ->
            controlFlow(Next(s), "BranchIfFalse", "ifFalse:", nilConst)
       [] t = "ifFalse:" ->
            controlFlow(Next(s), "BranchIfTrue", "ifTrue:", nilConst)
       [] t = "and:" ->
            controlFlow(Next(s), "BranchIfFalse", "none", falseConst)
       [] t = "or:" -> controlFlow(Next(s), "BranchIfTrue", "none", trueConst)
       [] t = "whileTrue:" /\ s.backup # 0 ->
            optimizeLoop(Next(s), "BranchIfFalse")
       [] t = "whileFalse:" /\ s.backup # 0 ->
            optimizeLoop(Next(s), "BranchIfTrue")
       [] OTHER -> IF r.n = 0 THEN s
                   ELSE genSend(r.s, r.selector, r.n + 1, s0.super)

parseCascade(s) ==
  IF Tok(s) # ";" THEN s
  ELSE parseCascade(parse("keyword", DoSpecial(Next(s), "Duplicate")))

\* A name at the start does not reset super and backup, as a term would.
parseExpression(s) ==
  IF IsName(Tok(s)) /\ Tok(Next(s)) = ":="
  THEN doAssignment(parse("expression", Next(Next(s))), Tok(s))
  ELSE parseCascade(parse("keyword", IF IsName(Tok(s))
                                     THEN nameTerm(Next(s), Tok(s))
                                     ELSE parse("term", s)))

parse(what, s) ==
  CASE what = "term" -> parseTerm(s)
    [] what = "binary" -> parseBinaryContinuation(s)
    [] what = "keyword" -> parseKeywordContinuation(s)
    [] what = "statement" -> parseStatement(s)
    [] what = "expression" -> parseExpression(s)

-----------------------------------------------------------------------------
RECURSIVE parseBody(_), parseKeywordHeader(_), parseTemporaryNames(_)

parseBody(s) ==
  IF Tok(s) = EndOfText THEN DoSpecial(s, "SelfReturn")
  ELSE parseBody(AfterStatement(DoSpecial(parse("statement", s), "PopTop")))

parseKeywordHeader(s) ==
  IF ~IsKeyword(Tok(s)) THEN s
  ELSE IF ~IsName(Tok(Next(s))) THEN parseError(s)
  ELSE parseKeywordHeader(addArgument(Next(Next(s)), Tok(Next(s))))

parseMethodHeader(s) ==
  CASE IsName(Tok(s)) -> Next(s)
    [] IsKeyword(Tok(s)) -> parseKeywordHeader(s)
    [] IsBinary(Tok(s)) /\ IsName(Tok(Next(s))) ->
         addArgument(Next(Next(s)), Tok(Next(s)))
    [] OTHER -> parseError(s)

parseTemporaryNames(s) ==
  IF Tok(s) = "|" THEN Next(s)
  ELSE IF ~IsName(Tok(s)) THEN parseError(s)
  ELSE parseTemporaryNames(addTemporary(Next(s), Tok(s)))

parseTemporaries(s) == IF Tok(s) = "|" THEN parseTemporaryNames(Next(s)) ELSE s

\* MethodCommand() and parseTemporaries() reset the globals, but super keeps
\* what the last method compiled has left in it.
Started(text, super) ==
  [text |-> text, p |-> 1, code |-> <<>>, literals |-> <<>>,
   args |-> <<"self">>, temps |-> <<>>, temporarySize |-> 0,
   stackSize |-> StackSize, super |-> super, backup |-> 0,
   returnOp |-> "StackReturn", failed |-> FALSE]

parseMethod(text, super) ==
  parseBody(parseTemporaries(parseMethodHeader(Started(text, super))))
=============================================================================
