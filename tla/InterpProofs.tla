---------------------------- MODULE InterpProofs ----------------------------
(***************************************************************************)
(* For every program, heap, table of primitives and number of collections: *)
(* rootStack is at its level at the top of the loop of execute(); it holds *)
(* there the contexts and processes that the outer activations are to      *)
(* return to; the only locals that execute() uses after a collection has   *)
(* moved what they point to are returnedValue, when it suspends a process, *)
(* and those of doesNotUnderstand:; and what it has cached of a context    *)
(* that a program leaves alone is what the context says.                   *)
(*                                                                         *)
(* A step is first reduced to what it does to rootStack and frames         *)
(* (Moves), to the heap (HeapKept) and to stale (Fresh); pc then tells in  *)
(* each case how many words are pushed and which locals a collection may   *)
(* have left behind.                                                       *)
(***************************************************************************)
EXTENDS Interp, SequenceTheorems, FiniteSetTheorems, TLAPS

-----------------------------------------------------------------------------
(***************************************************************************)
(* Sequences of anything                                                   *)
(***************************************************************************)
IsSeq(s) == \E S : s \in Seq(S)

LEMMA SeqLen ==
  ASSUME NEW s, IsSeq(s)
  PROVE  Len(s) \in Nat
  BY DEF IsSeq

LEMMA NotEmpty ==
  ASSUME NEW s, IsSeq(s), s # <<>>
  PROVE  Len(s) >= 1
  BY EmptySeq DEF IsSeq

LEMMA Appended ==
  ASSUME NEW s, IsSeq(s), NEW x
  PROVE  /\ IsSeq(Append(s, x))
         /\ Len(Append(s, x)) = Len(s) + 1
         /\ Append(s, x)[Len(s) + 1] = x
         /\ \A i \in 1..Len(s) : Append(s, x)[i] = s[i]
  <1>1. PICK S : s \in Seq(S)
    BY DEF IsSeq
  <1>2. s \in Seq(S \cup {x})
    BY <1>1
  <1>3. Append(s, x) \in Seq(S \cup {x})
    BY <1>2
  <1> QED BY <1>2, <1>3 DEF IsSeq

LEMMA Joined ==
  ASSUME NEW s, IsSeq(s), NEW t, IsSeq(t)
  PROVE  /\ IsSeq(s \o t)
         /\ Len(s \o t) = Len(s) + Len(t)
         /\ \A i \in 1..Len(s) : (s \o t)[i] = s[i]
         /\ \A i \in 1..Len(t) : (s \o t)[Len(s) + i] = t[i]
  <1>1. PICK S, T : s \in Seq(S) /\ t \in Seq(T)
    BY DEF IsSeq
  <1>2. PICK U : U = S \cup T
    OBVIOUS
  <1>3. s \in Seq(U) /\ t \in Seq(U)
    BY <1>1, <1>2, SeqMonotonic
  <1>4. /\ s \o t \in Seq(U)
        /\ Len(s \o t) = Len(s) + Len(t)
        /\ \A i \in 1..(Len(s) + Len(t)) : (s \o t)[i] =
             IF i <= Len(s) THEN s[i] ELSE t[i - Len(s)]
    BY <1>3, ConcatProperties
  <1>5. Len(s) \in Nat /\ Len(t) \in Nat
    BY SeqLen
  <1> QED BY <1>4, <1>5 DEF IsSeq

LEMMA Words2 ==
  ASSUME NEW x, NEW y
  PROVE  IsSeq(<<x, y>>) /\ Len(<<x, y>>) = 2 /\ <<x, y>>[1] = x /\ <<x, y>>[2] = y
  <1>1. <<x, y>> \in Seq({x, y})
    OBVIOUS
  <1> QED BY <1>1 DEF IsSeq

LEMMA Words3 ==
  ASSUME NEW x, NEW y, NEW z
  PROVE  IsSeq(<<x, y, z>>) /\ Len(<<x, y, z>>) = 3
  <1>1. <<x, y, z>> \in Seq({x, y, z})
    OBVIOUS
  <1> QED BY <1>1 DEF IsSeq

LEMMA Cut ==
  ASSUME NEW s, IsSeq(s), NEW n \in Nat, n <= Len(s)
  PROVE  /\ IsSeq(SubSeq(s, 1, Len(s) - n))
         /\ Len(SubSeq(s, 1, Len(s) - n)) = Len(s) - n
         /\ \A i \in 1..(Len(s) - n) : SubSeq(s, 1, Len(s) - n)[i] = s[i]
  <1>1. PICK S : s \in Seq(S)
    BY DEF IsSeq
  <1>2. PICK m \in Int : m = Len(s) - n
    BY SeqLen
  <1>3. \A i \in 1..m : s[i] \in S
    BY <1>1, <1>2
  <1>4. /\ SubSeq(s, 1, m) \in Seq(S)
        /\ Len(SubSeq(s, 1, m)) = IF 1 <= m THEN m - 1 + 1 ELSE 0
        /\ \A i \in 1..(m - 1 + 1) : SubSeq(s, 1, m)[i] = s[1 + i - 1]
    BY <1>3, SubSeqProperties
  <1>5. m >= 0
    BY <1>2, SeqLen
  <1>6. Len(SubSeq(s, 1, m)) = m
    BY <1>4, <1>5
  <1>7. \A i \in 1..m : SubSeq(s, 1, m)[i] = s[i]
    BY <1>4
  <1>8. IsSeq(SubSeq(s, 1, m))
    BY <1>4 DEF IsSeq
  <1> QED BY <1>2, <1>6, <1>7, <1>8

-----------------------------------------------------------------------------
(***************************************************************************)
(* The level of rootStack.  Between two bytecodes it is the same; within   *)
(* one, pc tells how many words have been pushed since.                    *)
(***************************************************************************)
Idle == {"fetch", "checkCache", "doesNotUnderstand", "return", "error"}
One == {"blockStack", "markArguments", "binaryArguments", "primitive"}
Two == {"newBlock", "newObject", "primitiveArguments"}
Three == {"newStack"}
Four == {"newTemporaries"}
Five == {"newContext"}
Left == {"executed", "halted"}

LevelAt(level) ==
  /\ pc \in Idle => level = 2
  /\ pc \in One => level = 3
  /\ pc \in Two => level = 4
  /\ pc \in Three => level = 5
  /\ pc \in Four => level = 6
  /\ pc \in Five => level = 7
  /\ pc \in Left => level = 1

Level ==
  /\ pc \in Idle \cup One \cup Two \cup Three \cup Four \cup Five \cup Left
  /\ IsSeq(rootStack) /\ IsSeq(frames)
  /\ pc = "executed" => frames # <<>>
  /\ \E level \in Nat : LevelAt(level) /\ Len(rootStack) = 2 * Len(frames) + level

\* What the actions do to rootStack and frames
Stays(before, after) ==
  /\ pc \in before /\ pc' \in after
  /\ rootStack' = rootStack /\ frames' = frames
Pushes(before, after, words) ==
  /\ pc \in before /\ pc' \in after
  /\ rootStack' = rootStack \o words /\ frames' = frames
Pushed(before, after) ==
  /\ pc \in before /\ pc' \in after
  /\ \E x : rootStack' = Append(rootStack, x)
  /\ frames' = frames
Pops(before, after, n) ==
  /\ pc \in before /\ pc' \in after
  /\ rootStack' = Popped(n) /\ frames' = frames
Calls(words, ticks) ==
  /\ pc = "fetch" /\ pc' = "fetch"
  /\ Instr.op = "DoPrimitive" /\ Instr.val = 6 /\ words = <<reg.context, Top(2)>>
  /\ rootStack' = rootStack \o words /\ frames' = Append(frames, ticks)
Ends ==
  /\ Pops(Idle, Left, 1)
  /\ pc' = "executed" => frames # <<>>
Returns ==
  /\ pc = "executed" /\ pc' = "return"
  /\ rootStack' = Popped(1) /\ frames' = Front(frames)

Moves ==
  \/ Stays(Idle, Idle)
  \/ Pushed({"fetch"}, One)
  \/ Pushed({"blockStack"}, Two)
  \/ Pushed({"newStack"}, Four)
  \/ Pushed({"newTemporaries"}, Five)
  \/ \E x, y : Pushes({"fetch"}, Two, <<x, y>>)
  \/ \E x, y, z : Pushes({"checkCache"}, Three, <<x, y, z>>)
  \/ \E x, y : Pushes({"newStack"}, Five, <<x, y>>)
  \/ Pops(One, Idle, 1)
  \/ Pops(Two, One, 1)
  \/ Pops(Two, Idle, 2)
  \/ Pops(Five, Idle, 5)
  \/ Ends
  \/ \E x, y, ticks : Calls(<<x, y>>, ticks)
  \/ Returns

LEMMA StartStays ==
  ASSUME \/ PushInstance \/ PushArgument \/ PushTemporary \/ PushLiteral
         \/ PushConstant \/ Duplicate \/ PopTop \/ AssignInstance \/ AssignTemporary
         \/ Branch \/ BranchIfTrue \/ BranchIfFalse \/ SendUnary
  PROVE  Moves
  <1>1. Stays(Idle, Idle)
    BY DEF Stays, Idle, PushInstance, PushArgument, PushTemporary, PushLiteral, PushConstant,
           Duplicate, PopTop, AssignInstance, AssignTemporary, Branch, BranchIfTrue,
           BranchIfFalse, BranchIf, SendUnary, Decode, Push, control
  <1> QED BY <1>1 DEF Moves

LEMMA SendStays ==
  ASSUME \/ SendMessage \/ SendToSuper \/ SendBinary \/ NotUnderstood \/ Hopeless
         \/ DoesNotUnderstand \/ SelfReturn \/ StackReturn \/ BlockReturn \/ Return
         \/ ImmediateSucceeds \/ ImmediateFails \/ PrimitiveBlock \/ PrimitiveBlockFails
  PROVE  Moves
  <1>1. Stays(Idle, Idle)
    BY DEF Stays, Idle, SendMessage, SendToSuper, SendBinary, NotUnderstood, Hopeless,
           DoesNotUnderstand, SelfReturn, StackReturn, BlockReturn, Return,
           ImmediateSucceeds, ImmediateFails, PrimitiveBlock, PrimitiveBlockFails,
           DecodePrimitive, Decode, Send, Push, Fail, ReturnTo, control
  <1> QED BY <1>1 DEF Moves

LEMMA AllocationMoves ==
  ASSUME \/ PushBlock \/ BlockStack \/ NewBlock \/ MarkArguments \/ MarkedArguments
         \/ SendBinaryMessage \/ BinaryArguments \/ Understood \/ NewStack
         \/ NewTemporaries \/ NewContext
  PROVE  Moves
  <1> USE DEF One, Two, Three, Four, Five, Idle
  <1>1. CASE PushBlock \/ MarkArguments \/ SendBinaryMessage
    <2>1. Pushed({"fetch"}, One)
      BY <1>1 DEF Pushed, PushBlock, MarkArguments, SendBinaryMessage, Decode
    <2> QED BY <2>1 DEF Moves
  <1>2. CASE BlockStack
    <2>1. Pushed({"blockStack"}, Two)
      BY <1>2 DEF Pushed, BlockStack
    <2> QED BY <2>1 DEF Moves
  <1>3. CASE NewBlock
    <2>1. Pops(Two, Idle, 2)
      BY <1>3 DEF Pops, NewBlock
    <2> QED BY <2>1 DEF Moves
  <1>4. CASE MarkedArguments \/ BinaryArguments
    <2>1. Pops(One, Idle, 1)
      BY <1>4 DEF Pops, MarkedArguments, BinaryArguments, Send
    <2> QED BY <2>1 DEF Moves
  <1>5. CASE Understood
    <2>1. \E x, y, z : Pushes({"checkCache"}, Three, <<x, y, z>>)
      BY <1>5 DEF Pushes, Understood
    <2> QED BY <2>1 DEF Moves
  <1>6. CASE NewStack
    <2>1. \/ Pushed({"newStack"}, Four)
          \/ \E x, y : Pushes({"newStack"}, Five, <<x, y>>)
      BY <1>6 DEF Pushes, Pushed, NewStack
    <2> QED BY <2>1 DEF Moves
  <1>7. CASE NewTemporaries
    <2>1. Pushed({"newTemporaries"}, Five)
      BY <1>7 DEF Pushed, NewTemporaries
    <2> QED BY <2>1 DEF Moves
  <1>8. CASE NewContext
    <2>1. Pops(Five, Idle, 5)
      BY <1>8 DEF Pops, NewContext
    <2> QED BY <2>1 DEF Moves
  <1> QED BY <1>1, <1>2, <1>3, <1>4, <1>5, <1>6, <1>7, <1>8

LEMMA PrimitiveMoves ==
  ASSUME \/ ProcessReturned \/ TimeExpired \/ Breakpoint \/ PrimitiveError
         \/ PrimitiveNew \/ NewObject \/ PrimitiveExecute \/ Executed
         \/ PrimitiveOther \/ PrimitiveArguments \/ OtherSucceeds \/ OtherFails
  PROVE  Moves
  <1> USE DEF One, Two, Idle, Left
  <1>1. CASE ProcessReturned \/ TimeExpired \/ Breakpoint \/ PrimitiveError
    <2>1. Ends
      BY <1>1 DEF Ends, Pops, ProcessReturned, TimeExpired, Breakpoint, PrimitiveError, Finish,
                  DecodePrimitive, Decode
    <2> QED BY <2>1 DEF Moves
  <1>2. CASE PrimitiveNew \/ PrimitiveOther
    <2>1. \E x, y : Pushes({"fetch"}, Two, <<x, y>>)
      BY <1>2 DEF Pushes, PrimitiveNew, PrimitiveOther, DecodePrimitive, Decode
    <2> QED BY <2>1 DEF Moves
  <1>3. CASE NewObject
    <2>1. Pops(Two, Idle, 2)
      BY <1>3 DEF Pops, NewObject
    <2> QED BY <2>1 DEF Moves
  <1>4. CASE PrimitiveExecute
    <2>1. Calls(<<reg.context, Top(2)>>, Decoded.ticks)
      BY <1>4 DEF Calls, PrimitiveExecute, DecodePrimitive, Decode
    <2> QED BY <2>1 DEF Moves
  <1>5. CASE Executed
    <2>1. Returns
      BY <1>5 DEF Returns, Executed
    <2> QED BY <2>1 DEF Moves
  <1>6. CASE PrimitiveArguments
    <2>1. Pops(Two, One, 1)
      BY <1>6 DEF Pops, PrimitiveArguments
    <2> QED BY <2>1 DEF Moves
  <1>7. CASE OtherSucceeds \/ OtherFails
    <2>1. Pops(One, Idle, 1)
      BY <1>7 DEF Pops, OtherSucceeds, OtherFails, Push
    <2> QED BY <2>1 DEF Moves
  <1> QED BY <1>1, <1>2, <1>3, <1>4, <1>5, <1>6, <1>7

\* Nothing below what is popped or pushed changes.
Below ==
  \A i \in 1..Len(rootStack') : i <= Len(rootStack) => rootStack'[i] = rootStack[i]

LEMMA LevelKept ==
  ASSUME Level, Moves
  PROVE  Level' /\ Below
  <1>0. PICK level \in Nat : LevelAt(level) /\ Len(rootStack) = 2 * Len(frames) + level
    BY DEF Level
  <1>1. /\ IsSeq(rootStack) /\ Len(rootStack) \in Nat
        /\ IsSeq(frames) /\ Len(frames) \in Nat
    BY SeqLen DEF Level
  <1>2. ASSUME NEW k \in Nat, frames' = frames, IsSeq(rootStack'), LevelAt(k)',
               pc' = "executed" => frames # <<>>,
               pc' \in Idle \cup One \cup Two \cup Three \cup Four \cup Five \cup Left,
               Len(rootStack') = Len(rootStack) + k - level
        PROVE  Level'
    <2>1. Len(rootStack') = 2 * Len(frames) + k
      BY <1>0, <1>1, <1>2
    <2> QED BY <1>1, <1>2, <2>1 DEF Level
  <1> USE DEF LevelAt, Idle, One, Two, Three, Four, Five, Left
  <1>3. ASSUME NEW before, NEW after, Stays(before, after),
               before = Idle, after = Idle
        PROVE  Level' /\ Below
    <2>1. level = 2 /\ LevelAt(2)' /\ rootStack' = rootStack /\ frames' = frames
      BY <1>0, <1>3 DEF Stays
    <2>2. pc' \in Idle
      BY <1>3 DEF Stays
    <2>3. Level'
      BY <1>1, <1>2, <2>1, <2>2
    <2> QED BY <2>1, <2>3 DEF Below
  <1>4. ASSUME NEW before, NEW after, NEW k \in Nat, Pushed(before, after),
               pc \in before => level = k - 1, pc' \in after => LevelAt(k)',
               after \subseteq One \cup Two \cup Four \cup Five
        PROVE  Level' /\ Below
    <2>1. PICK x : rootStack' = Append(rootStack, x)
      BY <1>4 DEF Pushed
    <2>2. /\ IsSeq(rootStack') /\ Len(rootStack') = Len(rootStack) + 1
          /\ \A i \in 1..Len(rootStack) : rootStack'[i] = rootStack[i]
      BY <1>1, <2>1, Appended
    <2>3. level = k - 1 /\ LevelAt(k)' /\ pc' \in after /\ frames' = frames
      BY <1>4 DEF Pushed
    <2>4. Level'
      <3> HIDE DEF LevelAt
      <3> QED BY <1>1, <1>2, <1>4, <2>2, <2>3
    <2> QED BY <1>1, <2>2, <2>4 DEF Below
  <1>5. ASSUME NEW before, NEW after, NEW k \in Nat, NEW words, IsSeq(words),
               Pushes(before, after, words),
               pc \in before => level = k - Len(words), pc' \in after => LevelAt(k)',
               after \subseteq Two \cup Three \cup Five
        PROVE  Level' /\ Below
    <2>0. Len(words) \in Nat
      BY <1>5, SeqLen
    <2>1. rootStack' = rootStack \o words
      BY <1>5 DEF Pushes
    <2>2. /\ IsSeq(rootStack') /\ Len(rootStack') = Len(rootStack) + Len(words)
          /\ \A i \in 1..Len(rootStack) : rootStack'[i] = rootStack[i]
      BY <1>1, <1>5, <2>1, Joined
    <2>3. level = k - Len(words) /\ LevelAt(k)' /\ pc' \in after /\ frames' = frames
      BY <1>5 DEF Pushes
    <2>4. Level'
      <3>1. Len(rootStack') = Len(rootStack) + k - level
        BY <1>1, <2>0, <2>2, <2>3
      <3> HIDE DEF LevelAt
      <3> QED BY <1>1, <1>2, <1>5, <2>2, <2>3, <3>1
    <2> QED BY <1>1, <2>2, <2>4 DEF Below
  <1>6. ASSUME NEW before, NEW after, NEW k \in Nat, NEW n \in Nat,
               Pops(before, after, n),
               pc \in before => level = k + n, pc' \in after => LevelAt(k)',
               pc' = "executed" => frames # <<>>,
               after \subseteq Idle \cup One \cup Left
        PROVE  Level' /\ Below
    <2>1. rootStack' = SubSeq(rootStack, 1, Len(rootStack) - n)
      BY <1>6 DEF Pops, Popped
    <2>3. level = k + n /\ LevelAt(k)' /\ pc' \in after /\ frames' = frames
      BY <1>6 DEF Pops
    <2>0. n <= Len(rootStack)
      BY <1>0, <1>1, <2>3
    <2>2. /\ IsSeq(rootStack') /\ Len(rootStack') = Len(rootStack) - n
          /\ \A i \in 1..(Len(rootStack) - n) : rootStack'[i] = rootStack[i]
      BY <1>1, <2>0, <2>1, Cut
    <2>4. Level'
      <3>1. Len(rootStack') = Len(rootStack) + k - level
        BY <1>1, <2>2, <2>3
      <3> HIDE DEF LevelAt
      <3> QED BY <1>1, <1>2, <1>6, <2>2, <2>3, <3>1
    <2> QED BY <1>1, <2>2, <2>4 DEF Below
  <1>7. ASSUME NEW x, NEW y, NEW ticks, Calls(<<x, y>>, ticks)
        PROVE  Level' /\ Below
    <2>1. /\ IsSeq(rootStack') /\ Len(rootStack') = Len(rootStack) + 2
          /\ \A i \in 1..Len(rootStack) : rootStack'[i] = rootStack[i]
      <3>1. IsSeq(<<x, y>>) /\ Len(<<x, y>>) = 2
        BY Words2
      <3>2. rootStack' = rootStack \o <<x, y>>
        BY <1>7 DEF Calls
      <3>3. PICK words : words = <<x, y>>
        OBVIOUS
      <3> QED BY <1>1, <3>1, <3>2, <3>3, Joined
    <2>2. IsSeq(frames') /\ Len(frames') = Len(frames) + 1
      BY <1>1, <1>7, Appended DEF Calls
    <2>3. level = 2 /\ LevelAt(2)' /\ pc' = "fetch"
      BY <1>0, <1>7 DEF Calls
    <2>4. Len(rootStack') = 2 * Len(frames') + 2
      BY <1>0, <1>1, <2>1, <2>2, <2>3
    <2>5. Level'
      BY <2>1, <2>2, <2>3, <2>4 DEF Level
    <2> QED BY <1>1, <2>1, <2>5 DEF Below
  <1>8. CASE Returns
    <2>0. level = 1 /\ LevelAt(2)' /\ pc' = "return"
      BY <1>0, <1>8 DEF Returns
    <2>1. rootStack' = SubSeq(rootStack, 1, Len(rootStack) - 1) /\ 1 <= Len(rootStack)
      BY <1>0, <1>1, <1>8, <2>0 DEF Returns, Popped
    <2>2. /\ IsSeq(rootStack') /\ Len(rootStack') = Len(rootStack) - 1
          /\ \A i \in 1..(Len(rootStack) - 1) : rootStack'[i] = rootStack[i]
      BY <1>1, <2>1, Cut
    <2>3. frames' = SubSeq(frames, 1, Len(frames) - 1)
      BY <1>8 DEF Returns, Front
    <2>4. Len(frames) >= 1
      BY <1>1, <1>8, NotEmpty DEF Level, Returns
    <2>5. IsSeq(frames') /\ Len(frames') = Len(frames) - 1
      BY <1>1, <2>3, <2>4, Cut
    <2>6. Len(rootStack') = 2 * Len(frames') + 2
      BY <1>0, <1>1, <2>0, <2>2, <2>5
    <2>7. Level'
      BY <2>0, <2>2, <2>5, <2>6 DEF Level
    <2> QED BY <1>1, <2>2, <2>7 DEF Below
  <1>9. CASE Stays(Idle, Idle)
    BY <1>3, <1>9
  <1>22. /\ pc \in Idle => level = 2
         /\ pc \in One => level = 3
         /\ pc \in Two => level = 4
         /\ pc \in Five => level = 7
         /\ pc \in {"fetch"} => level = 2
         /\ pc \in {"blockStack"} => level = 3
         /\ pc \in {"newStack"} => level = 5
         /\ pc \in {"newTemporaries"} => level = 6
         /\ pc \in {"checkCache"} => level = 2
    BY <1>0
  <1>23. /\ pc' \in Idle => LevelAt(2)'
         /\ pc' \in One => LevelAt(3)'
         /\ pc' \in Two => LevelAt(4)'
         /\ pc' \in Three => LevelAt(5)'
         /\ pc' \in Four => LevelAt(6)'
         /\ pc' \in Five => LevelAt(7)'
         /\ pc' \in Left => LevelAt(1)'
    OBVIOUS
  <1>24. pc' \in Idle \cup One => pc' # "executed"
    OBVIOUS
  <1> HIDE DEF LevelAt, Idle, One, Two, Three, Four, Five, Left
  <1>10. CASE Pushed({"fetch"}, One)
    <2>1. 3 \in Nat /\ 3 - 1 = 2
      OBVIOUS
    <2> QED BY <1>4, <1>10, <1>22, <1>23, <2>1
  <1>11. CASE Pushed({"blockStack"}, Two)
    <2>1. 4 \in Nat /\ 4 - 1 = 3
      OBVIOUS
    <2> QED BY <1>4, <1>11, <1>22, <1>23, <2>1
  <1>12. CASE Pushed({"newStack"}, Four)
    <2>1. 6 \in Nat /\ 6 - 1 = 5
      OBVIOUS
    <2> QED BY <1>4, <1>12, <1>22, <1>23, <2>1
  <1>13. CASE Pushed({"newTemporaries"}, Five)
    <2>1. 7 \in Nat /\ 7 - 1 = 6
      OBVIOUS
    <2> QED BY <1>4, <1>13, <1>22, <1>23, <2>1
  <1>17. CASE Pops(One, Idle, 1)
    <2>1. 2 \in Nat /\ 1 \in Nat /\ 2 + 1 = 3 /\ pc' \in Idle
      BY <1>17 DEF Pops
    <2> QED BY <1>6, <1>17, <1>22, <1>23, <1>24, <2>1
  <1>18. CASE Pops(Two, One, 1)
    <2>1. 3 \in Nat /\ 1 \in Nat /\ 3 + 1 = 4 /\ pc' \in One
      BY <1>18 DEF Pops
    <2> QED BY <1>6, <1>18, <1>22, <1>23, <1>24, <2>1
  <1>19. CASE Pops(Two, Idle, 2)
    <2>1. 2 \in Nat /\ 2 \in Nat /\ 2 + 2 = 4 /\ pc' \in Idle
      BY <1>19 DEF Pops
    <2> QED BY <1>6, <1>19, <1>22, <1>23, <1>24, <2>1
  <1>20. CASE Pops(Five, Idle, 5)
    <2>1. 2 \in Nat /\ 5 \in Nat /\ 2 + 5 = 7 /\ pc' \in Idle
      BY <1>20 DEF Pops
    <2> QED BY <1>6, <1>20, <1>22, <1>23, <1>24, <2>1
  <1>21. CASE Ends
    <2>1. 1 \in Nat /\ 1 + 1 = 2 /\ Pops(Idle, Left, 1)
      BY <1>21 DEF Ends
    <2>2. pc' = "executed" => frames # <<>>
      BY <1>21 DEF Ends
    <2> QED BY <1>6, <1>22, <1>23, <2>1, <2>2
  <1>14. ASSUME NEW x, NEW y, Pushes({"fetch"}, Two, <<x, y>>)
         PROVE  Level' /\ Below
    <2>1. IsSeq(<<x, y>>) /\ Len(<<x, y>>) = 2
      BY Words2
    <2>2. PICK words : words = <<x, y>>
      OBVIOUS
    <2>3. 4 \in Nat /\ 4 - 2 = 2
      OBVIOUS
    <2> QED BY <1>5, <1>14, <1>22, <1>23, <2>1, <2>2, <2>3
  <1>15. ASSUME NEW x, NEW y, NEW z, Pushes({"checkCache"}, Three, <<x, y, z>>)
         PROVE  Level' /\ Below
    <2>1. IsSeq(<<x, y, z>>) /\ Len(<<x, y, z>>) = 3
      BY Words3
    <2>2. PICK words : words = <<x, y, z>>
      OBVIOUS
    <2>3. 5 \in Nat /\ 5 - 3 = 2
      OBVIOUS
    <2> QED BY <1>5, <1>15, <1>22, <1>23, <2>1, <2>2, <2>3
  <1>16. ASSUME NEW x, NEW y, Pushes({"newStack"}, Five, <<x, y>>)
         PROVE  Level' /\ Below
    <2>1. IsSeq(<<x, y>>) /\ Len(<<x, y>>) = 2
      BY Words2
    <2>2. PICK words : words = <<x, y>>
      OBVIOUS
    <2>3. 7 \in Nat /\ 7 - 2 = 5
      OBVIOUS
    <2> QED BY <1>5, <1>16, <1>22, <1>23, <2>1, <2>2, <2>3
  <1> QED BY <1>7, <1>8, <1>9, <1>10, <1>11, <1>12, <1>13, <1>14, <1>15, <1>16, <1>17, <1>18,
             <1>19, <1>20, <1>21 DEF Moves

LEMMA NextMoves == Next => Moves
  BY StartStays, SendStays, AllocationMoves, PrimitiveMoves DEF Next

LEMMA AtStart == Init => Level
  <1> SUFFICES ASSUME Init PROVE Level
    OBVIOUS
  <1>1. rootStack = <<aProcess, aProcess>> /\ frames = <<>> /\ pc = "fetch"
    BY DEF Init
  <1>2. IsSeq(rootStack) /\ Len(rootStack) = 2
    BY <1>1, Words2
  <1>3. IsSeq(frames) /\ Len(frames) = 0
    <2>1. <<>> \in Seq({}) /\ Len(<<>>) = 0
      BY EmptySeq
    <2> QED BY <1>1, <2>1 DEF IsSeq
  <1>4. LevelAt(2) /\ 2 \in Nat /\ Len(rootStack) = 2 * Len(frames) + 2
    BY <1>1, <1>2, <1>3 DEF LevelAt, Idle, One, Two, Three, Four, Five, Left
  <1> QED BY <1>1, <1>2, <1>3, <1>4 DEF Level, Idle

\* Nothing sent, returned or failed leaves a word too many or too few on
\* rootStack, whatever the program and whatever the heap holds: at the top of
\* the loop of execute() there are two words for each execute() that is active.
THEOREM RootsAreLevel == Spec => []RootsLevel
  <1>1. Init => Level
    BY AtStart
  <1>2. Level /\ [Next]_vars => Level'
    <2> SUFFICES ASSUME Level, [Next]_vars PROVE Level'
      OBVIOUS
    <2>1. CASE Next
      BY <2>1, NextMoves, LevelKept
    <2>2. CASE UNCHANGED vars
      BY <2>2 DEF vars, Level, LevelAt
    <2> QED BY <2>1, <2>2
  <1>3. Level => RootsLevel
    BY SeqLen DEF Level, LevelAt, RootsLevel, Idle
  <1> QED BY <1>1, <1>2, <1>3, PTL DEF Spec

-----------------------------------------------------------------------------
(***************************************************************************)
(* The objects of the heap stay where they are and keep their classes.     *)
(***************************************************************************)
Formed(h) ==
  /\ IsFiniteSet(DOMAIN h) /\ DOMAIN h # {}
  /\ \A a \in DOMAIN h : /\ a \in Nat \ {0} /\ a % 2 = 0
                         /\ DOMAIN h[a] = {"class", "data"}
Kept(h, g) ==
  /\ DOMAIN h \subseteq DOMAIN g
  /\ \A a \in DOMAIN h : g[a].class = h[a].class

LEMMA MaxOf ==
  ASSUME NEW S, S # {}, IsFiniteSet(S), S \subseteq Nat
  PROVE  Max(S) \in S /\ \A y \in S : Max(S) >= y
  <1> DEFINE T == {{y \in S : y >= x} : x \in S}
             R == StrictSubsetOrdering(S)
  <1>1. IsWellFoundedOn(R, FiniteSubsetsOf(S))
    BY FS_StrictSubsetOrderingWellFounded
  <1>2. T \subseteq FiniteSubsetsOf(S) /\ T # {}
    <2>1. \A x \in S : {y \in S : y >= x} \in SUBSET S
      OBVIOUS
    <2>2. \A U \in SUBSET S : IsFiniteSet(U)
      BY FS_Subset
    <2> QED BY <2>1, <2>2 DEF FiniteSubsetsOf
  <1> HIDE DEF R
  <1>3. PICK P \in T : \A Q \in T : ~(<<Q, P>> \in R)
    BY <1>1, <1>2, WFMin
  <1>4. PICK x \in S : P = {y \in S : y >= x}
    BY <1>3
  <1>5. ASSUME NEW z \in S, z > x PROVE FALSE
    <2> DEFINE Q == {y \in S : y >= z}
    <2>0. x \in Nat /\ z \in Nat
      BY <1>4, <1>5
    <2>1. Q \in T /\ Q \subseteq P /\ x \in P /\ x \notin Q
      <3>1. Q \in T
        BY <1>5
      <3>2. x \in P /\ x \notin Q
        BY <1>4, <1>5, <2>0
      <3>3. ASSUME NEW y \in Q PROVE y \in P
        <4>1. y \in Nat /\ y \in S /\ y >= z
          OBVIOUS
        <4> QED BY <1>4, <1>5, <2>0, <4>1
      <3> QED BY <3>1, <3>2, <3>3
    <2>2. Q \subseteq S /\ P \subseteq S /\ IsFiniteSet(Q) /\ IsFiniteSet(P)
      BY <1>4, FS_Subset
    <2>3. <<Q, P>> \in R
      <3> HIDE DEF Q
      <3> QED BY <2>1, <2>2 DEF R, StrictSubsetOrdering
    <2> QED BY <1>3, <2>1, <2>3
  <1>6. \A y \in S : x >= y
    BY <1>5
  <1> QED BY <1>6 DEF Max

LEMMA KeptOn ==
  ASSUME NEW f, NEW g, NEW h, Kept(f, g), Kept(g, h)
  PROVE  Kept(f, h)
  BY DEF Kept

\* An object is filled with other data.
LEMMA Put ==
  ASSUME NEW h, Formed(h), NEW x, NEW d,
         NEW g, g = [h EXCEPT ![x] = [h[x] EXCEPT !.data = d]]
  PROVE  Formed(g) /\ Kept(h, g)
  <1>1. DOMAIN g = DOMAIN h
    OBVIOUS
  <1>2. ASSUME NEW a \in DOMAIN h
        PROVE  DOMAIN g[a] = {"class", "data"} /\ g[a].class = h[a].class
    <2>1. DOMAIN h[a] = {"class", "data"}
      BY DEF Formed
    <2>2. CASE a = x
      <3>1. g[a] = [h[a] EXCEPT !.data = d]
        BY <2>2
      <3> QED BY <2>1, <3>1
    <2>3. CASE a # x
      <3>1. g[a] = h[a]
        BY <2>3
      <3> QED BY <2>1, <3>1
    <2> QED BY <2>2, <2>3
  <1> QED BY <1>1, <1>2 DEF Formed, Kept

LEMMA PutWord ==
  ASSUME NEW h, Formed(h), NEW x, NEW k, NEW v, NEW g, g = [h EXCEPT ![x].data[k] = v]
  PROVE  Formed(g) /\ Kept(h, g)
  <1>1. g = [h EXCEPT ![x] = [h[x] EXCEPT !.data = [h[x].data EXCEPT ![k] = v]]]
    OBVIOUS
  <1>2. PICK d : d = [h[x].data EXCEPT ![k] = v]
    OBVIOUS
  <1> QED BY <1>1, <1>2, Put

\* Two words of one object
LEMMA PutWords ==
  ASSUME NEW h, Formed(h), NEW x, NEW k, NEW v, NEW l, NEW w,
         NEW g, g = [h EXCEPT ![x].data[k] = v, ![x].data[l] = w]
  PROVE  Formed(g) /\ Kept(h, g)
  <1>1. PICK f : f = [h EXCEPT ![x].data[k] = v]
    OBVIOUS
  <1>2. g = [f EXCEPT ![x].data[l] = w]
    BY <1>1
  <1>3. Formed(f) /\ Kept(h, f)
    BY <1>1, PutWord
  <1>4. Formed(g) /\ Kept(f, g)
    BY <1>2, <1>3, PutWord
  <1> QED BY <1>3, <1>4, KeptOn

LEMMA Allocated ==
  ASSUME Formed(heap), NEW class, NEW data1, NEW g, g = Alloc(heap, class, data1)
  PROVE  Formed(g) /\ Kept(heap, g)
  <1>1. PICK n : n = Max(DOMAIN heap)
    OBVIOUS
  <1>2. n \in DOMAIN heap /\ \A a \in DOMAIN heap : n >= a
    BY <1>1, MaxOf DEF Formed
  <1>3. PICK new : new = NewAddress
    OBVIOUS
  <1>4. new = n + 2
    BY <1>1, <1>3 DEF NewAddress
  <1>5. new \in Nat \ {0} /\ new % 2 = 0 /\ new \notin DOMAIN heap
    BY <1>2, <1>4 DEF Formed
  <1>6. /\ DOMAIN g = DOMAIN heap \cup {new}
        /\ \A a \in DOMAIN heap : g[a] = heap[a]
        /\ g[new] = [class |-> class, data |-> data1]
    BY <1>3, <1>5 DEF Alloc
  <1>7. IsFiniteSet(DOMAIN g) /\ DOMAIN g # {}
    BY <1>6, FS_AddElement DEF Formed
  <1>8. ASSUME NEW a \in DOMAIN g
        PROVE  a \in Nat \ {0} /\ a % 2 = 0 /\ DOMAIN g[a] = {"class", "data"}
    <2>1. CASE a = new
      BY <1>5, <1>6, <2>1
    <2>2. CASE a \in DOMAIN heap
      BY <1>6, <2>2 DEF Formed
    <2> QED BY <1>6, <2>1, <2>2
  <1> QED BY <1>6, <1>7, <1>8 DEF Formed, Kept

LEMMA Same == ASSUME Formed(heap), heap' = heap PROVE Formed(heap') /\ Kept(heap, heap')
  BY DEF Kept, Formed

LEMMA PushKept ==
  ASSUME Formed(heap), NEW v, NEW r, Push(v, r)
  PROVE  Formed(heap') /\ Kept(heap, heap')
  BY PutWord DEF Push

LEMMA HeapOfStart ==
  ASSUME Formed(heap),
         \/ PushInstance \/ PushArgument \/ PushTemporary \/ PushLiteral
         \/ PushConstant \/ Duplicate \/ PopTop \/ AssignInstance \/ AssignTemporary
         \/ Branch \/ BranchIfTrue \/ BranchIfFalse \/ SendUnary
  PROVE  Formed(heap') /\ Kept(heap, heap')
  <1>1. CASE PushInstance
    BY <1>1, PushKept DEF PushInstance
  <1>2. CASE PushArgument
    BY <1>2, PushKept DEF PushArgument
  <1>3. CASE PushTemporary
    BY <1>3, PushKept DEF PushTemporary
  <1>4. CASE PushLiteral
    BY <1>4, PushKept DEF PushLiteral
  <1>5. CASE PushConstant
    BY <1>5, PushKept DEF PushConstant
  <1>6. CASE Duplicate
    BY <1>6, PushKept DEF Duplicate
  <1>7. CASE PopTop \/ Branch \/ BranchIfTrue \/ BranchIfFalse
    BY <1>7, Same DEF PopTop, Branch, BranchIfTrue, BranchIfFalse, BranchIf
  <1>8. CASE AssignInstance
    BY <1>8, PutWord DEF AssignInstance
  <1>9. CASE AssignTemporary
    BY <1>9, PutWord DEF AssignTemporary
  <1>10. CASE SendUnary
    BY <1>10, PushKept DEF SendUnary
  <1> QED BY <1>1, <1>2, <1>3, <1>4, <1>5, <1>6, <1>7, <1>8, <1>9, <1>10

LEMMA HeapOfSend ==
  ASSUME Formed(heap),
         \/ PushBlock \/ BlockStack \/ NewBlock \/ MarkArguments \/ MarkedArguments
         \/ SendMessage \/ SendToSuper \/ SendBinary \/ SendBinaryMessage \/ BinaryArguments
         \/ Understood \/ NotUnderstood \/ Hopeless \/ DoesNotUnderstand \/ NewStack
         \/ NewTemporaries \/ NewContext
  PROVE  Formed(heap') /\ Kept(heap, heap')
  <1>1. CASE \/ PushBlock \/ MarkArguments \/ SendMessage \/ SendToSuper \/ SendBinaryMessage
             \/ Understood \/ NotUnderstood \/ Hopeless
    BY <1>1, Same DEF PushBlock, MarkArguments, SendMessage, SendToSuper, SendBinaryMessage,
                      Understood, NotUnderstood, Hopeless
  <1>2. CASE BlockStack
    BY <1>2, Allocated DEF BlockStack
  <1>3. CASE NewBlock
    <2>1. PICK class, data1, g, x, k, v :
            g = Alloc(heap, class, data1) /\ heap' = [g EXCEPT ![x].data[k] = v]
      BY <1>3 DEF NewBlock
    <2>2. Formed(g) /\ Kept(heap, g)
      BY <2>1, Allocated
    <2>3. Formed(heap') /\ Kept(g, heap')
      BY <2>1, <2>2, PutWord
    <2> QED BY <2>2, <2>3, KeptOn
  <1>4. CASE MarkedArguments
    <2>1. PICK class, data1, g, x, k, v :
            g = Alloc(heap, class, data1) /\ heap' = [g EXCEPT ![x].data[k] = v]
      BY <1>4 DEF MarkedArguments
    <2>2. Formed(g) /\ Kept(heap, g)
      BY <2>1, Allocated
    <2>3. Formed(heap') /\ Kept(g, heap')
      BY <2>1, <2>2, PutWord
    <2> QED BY <2>2, <2>3, KeptOn
  <1>5. CASE SendBinary
    BY <1>5, PushKept DEF SendBinary
  <1>6. CASE BinaryArguments
    BY <1>6, Allocated DEF BinaryArguments
  <1>7. CASE DoesNotUnderstand
    BY <1>7, Allocated DEF DoesNotUnderstand
  <1>8. CASE NewStack
    BY <1>8, Allocated DEF NewStack
  <1>9. CASE NewTemporaries
    BY <1>9, Allocated DEF NewTemporaries
  <1>10. CASE NewContext
    <2>1. PICK class, data1, g, x, k, v, l, w :
            /\ g = Alloc(heap, class, data1)
            /\ heap' = [g EXCEPT ![x].data[k] = v, ![x].data[l] = w]
      BY <1>10 DEF NewContext
    <2>2. Formed(g) /\ Kept(heap, g)
      BY <2>1, Allocated
    <2>3. Formed(heap') /\ Kept(g, heap')
      BY <2>1, <2>2, PutWords
    <2> QED BY <2>2, <2>3, KeptOn
  <1> QED BY <1>1, <1>2, <1>3, <1>4, <1>5, <1>6, <1>7, <1>8, <1>9, <1>10

LEMMA FinishKept ==
  ASSUME NEW code, NEW saved, NEW context, NEW value, Formed(saved),
         Finish(code, saved, context, value)
  PROVE  Formed(heap') /\ Kept(saved, heap')
  <1>1. PICK x, k, v, l, w : heap' = [saved EXCEPT ![x].data[k] = v, ![x].data[l] = w]
    BY DEF Finish
  <1> QED BY <1>1, PutWords

LEMMA HeapOfReturn ==
  ASSUME Formed(heap),
         \/ SelfReturn \/ StackReturn \/ BlockReturn \/ Return
         \/ ProcessReturned \/ TimeExpired \/ Breakpoint
  PROVE  Formed(heap') /\ Kept(heap, heap')
  <1>1. CASE SelfReturn \/ StackReturn \/ BlockReturn
    BY <1>1, Same DEF SelfReturn, StackReturn, BlockReturn
  <1>2. CASE Return
    <2>1. PICK x, k, v : heap' = [heap EXCEPT ![x].data[k] = v]
      BY <1>2 DEF Return
    <2> QED BY <2>1, PutWord
  <1>3. CASE ProcessReturned
    BY <1>3, FinishKept DEF ProcessReturned
  <1>4. CASE TimeExpired \/ Breakpoint
    <2>1. PICK saved : saved = Saved(reg.bytePointer)
      OBVIOUS
    <2>2. Formed(saved) /\ Kept(heap, saved)
      <3>1. PICK x, k, v, l, w : saved = [heap EXCEPT ![x].data[k] = v, ![x].data[l] = w]
        BY <2>1 DEF Saved
      <3> QED BY <3>1, PutWords
    <2>3. \E code, context, value : Finish(code, saved, context, value)
      BY <1>4, <2>1 DEF TimeExpired, Breakpoint
    <2>4. Formed(heap') /\ Kept(saved, heap')
      BY <2>2, <2>3, FinishKept
    <2> QED BY <2>2, <2>4, KeptOn
  <1> QED BY <1>1, <1>2, <1>3, <1>4

LEMMA HeapOfPrimitive ==
  ASSUME Formed(heap),
         \/ ImmediateSucceeds \/ ImmediateFails \/ PrimitiveNew \/ NewObject
         \/ PrimitiveExecute \/ Executed \/ PrimitiveBlock \/ PrimitiveBlockFails
         \/ PrimitiveError
         \/ PrimitiveOther \/ PrimitiveArguments \/ OtherSucceeds \/ OtherFails
  PROVE  Formed(heap') /\ Kept(heap, heap')
  <1>1. CASE PrimitiveNew \/ PrimitiveExecute \/ Executed \/ PrimitiveOther \/ OtherSucceeds
    BY <1>1, Same DEF PrimitiveNew, PrimitiveExecute, Executed, PrimitiveOther, OtherSucceeds
  <1>2. CASE ImmediateSucceeds
    <2>1. \/ heap' = heap
          \/ \E x, k, v : heap' = [heap EXCEPT ![x].data[k] = v]
      BY <1>2 DEF ImmediateSucceeds
    <2> QED BY <2>1, Same, PutWord
  <1>3. CASE ImmediateFails
    BY <1>3, PushKept DEF ImmediateFails, Fail
  <1>4. CASE NewObject
    BY <1>4, Allocated DEF NewObject
  <1>5. CASE PrimitiveBlock
    <2>1. PICK h, x, k, v, y, d :
            /\ h = [heap EXCEPT ![x].data[k] = v]
            /\ heap' \in {h, [h EXCEPT ![y] = [h[y] EXCEPT !.data = d]]}
      BY <1>5 DEF PrimitiveBlock
    <2>2. Formed(h) /\ Kept(heap, h)
      BY <2>1, PutWord
    <2>3. CASE heap' = h
      BY <2>2, <2>3
    <2>4. CASE heap' = [h EXCEPT ![y] = [h[y] EXCEPT !.data = d]]
      <3>1. Formed(heap') /\ Kept(h, heap')
        BY <2>2, <2>4, Put
      <3> QED BY <2>2, <3>1, KeptOn
    <2> QED BY <2>1, <2>3, <2>4
  <1>6. CASE PrimitiveBlockFails
    BY <1>6, PushKept DEF PrimitiveBlockFails
  <1>7. CASE PrimitiveError
    BY <1>7, PutWord DEF PrimitiveError
  <1>8. CASE PrimitiveArguments
    BY <1>8, Allocated DEF PrimitiveArguments
  <1>9. CASE OtherFails
    BY <1>9, PushKept DEF OtherFails
  <1> QED BY <1>1, <1>2, <1>3, <1>4, <1>5, <1>6, <1>7, <1>8, <1>9

LEMMA HeapKept ==
  ASSUME Formed(heap), [Next]_vars
  PROVE  Formed(heap') /\ Kept(heap, heap')
  <1>1. CASE Next
    BY <1>1, HeapOfStart, HeapOfSend, HeapOfReturn, HeapOfPrimitive DEF Next
  <1>2. CASE UNCHANGED vars
    BY <1>2, Same DEF vars
  <1> QED BY <1>1, <1>2

-----------------------------------------------------------------------------
\* What waits on rootStack for an execute() to return: the context that has
\* called it, and the process that it runs, until it is popped.
Waiting ==
  \A i \in 1..Len(frames) :
    /\ IsContext(rootStack[2 * i + 1])
    /\ 2 * i + 2 <= Len(rootStack) =>
         rootStack[2 * i + 2] \in DOMAIN heap /\ ~IsContext(rootStack[2 * i + 2])

LEMMA KindsKept ==
  ASSUME Kept(heap, heap')
  PROVE  /\ \A a : IsContext(a) => IsContext(a)'
         /\ \A a \in DOMAIN heap : ~IsContext(a) => a \in DOMAIN heap' /\ ~IsContext(a)'
  BY DEF Kept, IsContext

LEMMA WaitingKept ==
  ASSUME Level, Moves, Formed(heap), Kept(heap, heap'), Waiting, ProgramOK
  PROVE  Waiting'
  <1>1. Level' /\ Below
    BY LevelKept
  <1>2. /\ Len(rootStack) \in Nat /\ Len(rootStack') \in Nat
        /\ Len(frames) \in Nat /\ Len(frames') \in Nat
        /\ IsSeq(rootStack) /\ IsSeq(frames)
    BY <1>1, SeqLen DEF Level
  <1>3. 2 * Len(frames') + 1 <= Len(rootStack') /\ 2 * Len(frames) + 1 <= Len(rootStack)
    BY <1>1, <1>2 DEF Level, LevelAt
  <1>4. ASSUME NEW i \in 1..Len(frames), i \in 1..Len(frames')
        PROVE  /\ IsContext(rootStack[2 * i + 1])'
               /\ (2 * i + 2 <= Len(rootStack') /\ 2 * i + 2 <= Len(rootStack)) =>
                    /\ rootStack'[2 * i + 2] \in DOMAIN heap'
                    /\ ~IsContext(rootStack[2 * i + 2])'
    <2>1. rootStack'[2 * i + 1] = rootStack[2 * i + 1]
      BY <1>1, <1>2, <1>3, <1>4 DEF Below
    <2>2. IsContext(rootStack[2 * i + 1])'
      BY <2>1, KindsKept DEF Waiting, IsContext
    <2>3. ASSUME 2 * i + 2 <= Len(rootStack'), 2 * i + 2 <= Len(rootStack)
          PROVE  /\ rootStack'[2 * i + 2] \in DOMAIN heap'
                 /\ ~IsContext(rootStack[2 * i + 2])'
      <3>1. rootStack'[2 * i + 2] = rootStack[2 * i + 2]
        BY <1>1, <1>2, <2>3 DEF Below
      <3>2. rootStack[2 * i + 2] \in DOMAIN heap /\ ~IsContext(rootStack[2 * i + 2])
        BY <2>3 DEF Waiting
      <3> QED BY <3>1, <3>2, KindsKept DEF IsContext
    <2> QED BY <2>2, <2>3
  <1>5. CASE pc \notin Left /\ frames' = frames
    <2>1. 2 * Len(frames) + 2 <= Len(rootStack)
      BY <1>2, <1>5 DEF Level, LevelAt
    <2>2. ASSUME NEW i \in 1..Len(frames)
          PROVE  2 * i + 2 <= Len(rootStack)
      BY <1>2, <2>1
    <2> QED BY <1>4, <1>5, <2>2 DEF Waiting, IsContext
  <1>6. CASE Returns
    <2>1. pc \in Left /\ pc' \in Idle /\ frames # <<>> /\ frames' = Front(frames)
      BY <1>6 DEF Returns, Level, Left, Idle
    <2>2. Len(frames) >= 1
      BY <1>2, <2>1, NotEmpty
    <2>3. frames' = SubSeq(frames, 1, Len(frames) - 1)
      BY <2>1 DEF Front
    <2>4. Len(frames') = Len(frames) - 1
      BY <1>2, <2>2, <2>3, Cut
    <2>5. ASSUME NEW i \in 1..Len(frames')
          PROVE  i \in 1..Len(frames) /\ 2 * i + 2 <= Len(rootStack)
      BY <1>2, <1>3, <2>4
    <2> QED BY <1>4, <2>5 DEF Waiting, IsContext
  <1>7. ASSUME NEW x, NEW y, NEW ticks, Calls(<<x, y>>, ticks)
        PROVE  Waiting'
    <2>1. /\ pc = "fetch" /\ Instr.op = "DoPrimitive" /\ Instr.val = 6
          /\ <<x, y>> = <<reg.context, Top(2)>>
          /\ rootStack' = rootStack \o <<x, y>> /\ frames' = Append(frames, ticks)
      BY <1>7 DEF Calls
    <2>2. Len(rootStack) = 2 * Len(frames) + 2
      BY <1>2, <2>1 DEF Level, LevelAt, Idle
    <2>3. Len(frames') = Len(frames) + 1
      BY <1>2, <2>1, Appended
    <2>4. IsSeq(<<x, y>>) /\ Len(<<x, y>>) = 2 /\ <<x, y>>[1] = x /\ <<x, y>>[2] = y
      BY Words2
    <2>5. \A k \in 1..2 : rootStack'[Len(rootStack) + k] = <<x, y>>[k]
      BY <1>2, <2>1, <2>4, Joined
    <2>6. PICK m \in Nat : m = Len(frames)
      BY <1>2
    <2>7. rootStack'[2 * m + 3] = x /\ rootStack'[2 * m + 4] = y
      <3>1. Len(rootStack) + 1 = 2 * m + 3 /\ Len(rootStack) + 2 = 2 * m + 4
        BY <2>2, <2>6
      <3>2. rootStack'[Len(rootStack) + 1] = <<x, y>>[1]
        BY <2>5
      <3>3. rootStack'[Len(rootStack) + 2] = <<x, y>>[2]
        BY <2>5
      <3> QED BY <2>4, <3>1, <3>2, <3>3
    <2>8. IsContext(x) /\ y \in DOMAIN heap /\ ~IsContext(y)
      BY <2>1 DEF ProgramOK
    <2>9. IsContext(rootStack[2 * m + 3])'
      BY <2>7, <2>8, KindsKept DEF IsContext
    <2>10. rootStack'[2 * m + 4] \in DOMAIN heap' /\ ~IsContext(rootStack[2 * m + 4])'
      BY <2>7, <2>8, KindsKept DEF IsContext
    <2>11. ASSUME NEW i \in 1..Len(frames')
           PROVE  /\ IsContext(rootStack[2 * i + 1])'
                  /\ 2 * i + 2 <= Len(rootStack') =>
                       /\ rootStack'[2 * i + 2] \in DOMAIN heap'
                       /\ ~IsContext(rootStack[2 * i + 2])'
      <3>1. CASE i = m + 1
        <4>1. 2 * i + 1 = 2 * m + 3 /\ 2 * i + 2 = 2 * m + 4
          BY <3>1
        <4> QED BY <2>9, <2>10, <4>1
      <3>2. CASE i # m + 1
        <4>1. i \in 1..Len(frames) /\ 2 * i + 2 <= Len(rootStack)
          BY <1>2, <2>2, <2>3, <2>6, <3>2
        <4> QED BY <1>4, <4>1
      <3> QED BY <3>1, <3>2
    <2> QED BY <2>11 DEF Waiting, IsContext
  <1>8. Moves => \/ pc \notin Left /\ frames' = frames
                 \/ Returns
                 \/ \E x, y, ticks : Calls(<<x, y>>, ticks)
    BY DEF Moves, Stays, Pushed, Pushes, Pops, Ends,
           Idle, One, Two, Three, Four, Five, Left
  <1> QED BY <1>5, <1>6, <1>7, <1>8

\* Each execute() that waits in a primitive 6 finds the context it is to return
\* from where it has left it, under the process it runs, if what the program
\* gives execute() to run are processes and contexts.
THEOREM RootsAreBalanced == Spec /\ []ProgramOK => []RootsBalanced
  <1> DEFINE IInv == Level /\ Formed(heap) /\ Waiting
  <1>1. Init => IInv
    <2> SUFFICES ASSUME Init PROVE IInv
      OBVIOUS
    <2>1. Level
      BY AtStart
    <2>2. Formed(heap)
      BY InterpAssumption DEF Init, Formed
    <2>3. Len(frames) = 0
      BY DEF Init
    <2>4. Waiting
      BY <2>3 DEF Waiting
    <2> QED BY <2>1, <2>2, <2>4
  <1>2. ProgramOK /\ IInv /\ [Next]_vars => IInv'
    <2> SUFFICES ASSUME ProgramOK, IInv, [Next]_vars PROVE IInv'
      OBVIOUS
    <2>1. Formed(heap') /\ Kept(heap, heap')
      BY HeapKept
    <2>2. CASE Next
      BY <2>1, <2>2, NextMoves, LevelKept, WaitingKept
    <2>3. CASE UNCHANGED vars
      BY <2>1, <2>3 DEF vars, Level, LevelAt, Waiting, IsContext
    <2> QED BY <2>2, <2>3
  <1>3. IInv => RootsBalanced
    <2> SUFFICES ASSUME IInv PROVE RootsBalanced
      OBVIOUS
    <2>1. RootsLevel
      BY SeqLen DEF Level, LevelAt, RootsLevel, Idle
    <2>2. ASSUME pc = "fetch", NEW i \in 1..Len(frames)
          PROVE  2 * i + 2 <= Len(rootStack)
      <3>1. Len(frames) \in Nat /\ Len(rootStack) = 2 + 2 * Len(frames)
        BY <2>1, <2>2, SeqLen DEF Level, RootsLevel
      <3> QED BY <3>1
    <2> QED BY <2>1, <2>2 DEF Waiting, RootsBalanced
  <1> QED BY <1>1, <1>2, <1>3, PTL DEF Spec

-----------------------------------------------------------------------------
(***************************************************************************)
(* Which locals may be stale at each step.                                 *)
(***************************************************************************)
\* What a bytecode that has allocated nothing may use
OfContext == InContext \cup {"arguments"}
Loading == {"fetch", "blockStack", "markArguments", "binaryArguments",
            "primitiveArguments", "checkCache", "doesNotUnderstand"}

Fresh ==
  /\ pc \in Loading => stale \cap OfContext = {}
  /\ pc \in {"checkCache", "doesNotUnderstand"} => "messageSelector" \notin stale
  /\ pc = "newStack" => "method" \notin stale
  /\ pc = "return" => "context" \notin stale /\ "returnedValue" \notin stale
  /\ pc = "primitive" =>
       /\ "arguments" \notin stale /\ "stack" \notin stale
       /\ "context" \notin stale => stale \cap InContext = {}
  /\ pc = "primitiveArguments" => reg.context \in DOMAIN heap
  /\ gcs \in Int

Suspends == TimeExpired \/ Breakpoint

\* The locals are always there.
Locals == {"context", "method", "bp", "stack", "literals", "arguments", "temporaries",
           "instanceVariables", "bytePointer"}
HasLocals == Locals \subseteq DOMAIN reg

LEMMA LocalsOnStart ==
  ASSUME HasLocals,
         \/ PushInstance \/ PushArgument \/ PushTemporary \/ PushLiteral
         \/ PushConstant \/ Duplicate \/ PopTop \/ AssignInstance \/ AssignTemporary
         \/ Branch \/ BranchIfTrue \/ BranchIfFalse \/ SendUnary
         \/ PushBlock \/ BlockStack \/ NewBlock \/ MarkArguments \/ MarkedArguments
  PROVE  HasLocals'
  BY DEF HasLocals, PushInstance, PushArgument, PushTemporary, PushLiteral, PushConstant,
         Duplicate, PopTop, AssignInstance, AssignTemporary, Branch, BranchIfTrue,
         BranchIfFalse, BranchIf, SendUnary, Push, Decoded, PushBlock, BlockStack, NewBlock,
         MarkArguments, MarkedArguments, Unloaded, Loaded, Reloaded

LEMMA LocalsOnSend ==
  ASSUME HasLocals,
         \/ SendMessage \/ SendToSuper \/ SendBinary \/ SendBinaryMessage \/ BinaryArguments
         \/ Understood \/ NotUnderstood \/ Hopeless \/ DoesNotUnderstand \/ NewStack
         \/ NewTemporaries \/ NewContext
         \/ SelfReturn \/ StackReturn \/ BlockReturn \/ Return
         \/ ProcessReturned \/ TimeExpired \/ Breakpoint
  PROVE  HasLocals'
  BY DEF HasLocals, SendMessage, SendToSuper, SendBinary, SendBinaryMessage, BinaryArguments,
         Understood, NotUnderstood, Hopeless, DoesNotUnderstand, NewStack, NewTemporaries,
         NewContext, SelfReturn, StackReturn, BlockReturn, Return, ProcessReturned,
         TimeExpired, Breakpoint, Finish, ReturnTo, Send, Push, Decoded, Unloaded, Loaded,
         Reloaded

LEMMA LocalsOnPrimitive ==
  ASSUME HasLocals,
         \/ ImmediateSucceeds \/ ImmediateFails \/ PrimitiveNew \/ NewObject
         \/ PrimitiveExecute \/ Executed \/ PrimitiveBlock \/ PrimitiveBlockFails
         \/ PrimitiveError
         \/ PrimitiveOther \/ PrimitiveArguments \/ OtherSucceeds \/ OtherFails
  PROVE  HasLocals'
  <1> USE DEF HasLocals, Push, Decoded, Unloaded, Loaded, Reloaded
  <1>1. CASE \/ ImmediateSucceeds \/ ImmediateFails \/ PrimitiveNew \/ NewObject
             \/ PrimitiveBlock \/ PrimitiveBlockFails
    BY <1>1 DEF ImmediateSucceeds, ImmediateFails, PrimitiveNew, NewObject, PrimitiveBlock,
                PrimitiveBlockFails, Fail, ReturnTo
  <1>2. CASE PrimitiveExecute
    BY <1>2 DEF PrimitiveExecute, Entered, Locals
  <1>3. CASE \/ Executed \/ PrimitiveError \/ PrimitiveOther \/ PrimitiveArguments
             \/ OtherSucceeds
    BY <1>3 DEF Executed, PrimitiveError, PrimitiveOther, PrimitiveArguments, OtherSucceeds
  <1>4. CASE OtherFails
    BY <1>4 DEF OtherFails
  <1> QED BY <1>1, <1>2, <1>3, <1>4

LEMMA FreshOnStart ==
  ASSUME Fresh,
         \/ PushInstance \/ PushArgument \/ PushTemporary \/ PushLiteral
         \/ PushConstant \/ Duplicate \/ PopTop \/ AssignInstance \/ AssignTemporary
         \/ Branch \/ BranchIfTrue \/ BranchIfFalse \/ SendUnary
  PROVE  Fresh' /\ misused' = misused
  <1>1. pc = "fetch" /\ pc' = "fetch" /\ stale' \subseteq stale /\ gcs' = gcs
    BY DEF PushInstance, PushArgument, PushTemporary, PushLiteral, PushConstant,
           Duplicate, PopTop, AssignInstance, AssignTemporary, Branch, BranchIfTrue,
           BranchIfFalse, BranchIf, SendUnary, Decode, Push, memory, Assigned
  <1>2. \/ misused' = misused
        \/ \E S \in SUBSET OfContext : misused' = misused \cup (stale \cap S)
    <2>1. UseArguments \subseteq OfContext /\ UseTemporaries \subseteq OfContext
      BY DEF UseArguments, UseTemporaries, OfContext, InContext
    <2>2. UseInstance \subseteq OfContext /\ UseLiterals \subseteq OfContext
      BY <2>1 DEF UseInstance, UseLiterals, OfContext, InContext
    <2>3. "stack" \in OfContext
      BY DEF OfContext, InContext
    <2> HIDE DEF OfContext
    <2> QED BY <2>1, <2>2, <2>3
            DEF PushInstance, PushArgument, PushTemporary, PushLiteral, PushConstant,
           Duplicate, PopTop, AssignInstance, AssignTemporary, Branch, BranchIfTrue,
           BranchIfFalse, BranchIf, SendUnary, Use
  <1> QED BY <1>1, <1>2 DEF Fresh, Loading

LEMMA FreshOnSend ==
  ASSUME Fresh,
         \/ PushBlock \/ BlockStack \/ NewBlock \/ MarkArguments \/ MarkedArguments
         \/ SendMessage \/ SendToSuper \/ SendBinary \/ SendBinaryMessage \/ BinaryArguments
         \/ Understood \/ NotUnderstood \/ Hopeless \/ NewStack
         \/ NewTemporaries \/ NewContext
         \/ DoesNotUnderstand /\ ~Collected
  PROVE  Fresh' /\ misused' = misused
  <1> USE DEF Fresh, Loading, OfContext, InContext, Use, memory, Assigned, Allocating, AllocatingOr
  <1>1. CASE PushBlock \/ MarkArguments \/ SendBinaryMessage
    BY <1>1 DEF PushBlock, MarkArguments, SendBinaryMessage, Decode
  <1>2. CASE BlockStack
    BY <1>2 DEF BlockStack
  <1>3. CASE NewBlock
    BY <1>3 DEF NewBlock
  <1>4. CASE MarkedArguments
    BY <1>4 DEF MarkedArguments
  <1>5. CASE SendMessage \/ SendToSuper
    <2>1. UseLiterals \subseteq OfContext
      BY DEF UseLiterals
    <2>2. /\ pc = "fetch" /\ pc' = "checkCache" /\ stale' \subseteq stale
          /\ "messageSelector" \notin stale' /\ gcs' = gcs
      BY <1>5 DEF SendMessage, SendToSuper, Send, Decode
    <2>3. \E S \in SUBSET OfContext : misused' = misused \cup (stale \cap S)
      BY <1>5, <2>1 DEF SendMessage, SendToSuper
    <2> QED BY <2>2, <2>3
  <1>6. CASE SendBinary
    BY <1>6 DEF SendBinary, Decode, Push
  <1>7. CASE BinaryArguments
    BY <1>7 DEF BinaryArguments, Send
  <1>8. CASE Understood
    BY <1>8 DEF Understood
  <1>9. CASE NotUnderstood \/ Hopeless
    BY <1>9 DEF NotUnderstood, Hopeless
  <1>10. CASE NewStack
    BY <1>10 DEF NewStack
  <1>11. CASE NewTemporaries
    BY <1>11 DEF NewTemporaries
  <1>12. CASE NewContext
    <2>1. /\ pc' = "fetch" /\ misused' = misused
          /\ Allocating(InContext \cup {"arguments"})
      BY <1>12 DEF NewContext
    <2> QED BY <2>1
  <1>13. CASE DoesNotUnderstand /\ ~Collected
    <2>1. /\ pc = "doesNotUnderstand" /\ pc' = "checkCache"
          /\ stale' = stale \ {"arguments", "messageSelector", "receiverClass"}
          /\ gcs' \in Int
      BY <1>13 DEF DoesNotUnderstand, Collected, Send
    <2>2. misused' = misused \cup (stale \cap {"arguments", "messageSelector"})
      BY <1>13 DEF DoesNotUnderstand
    <2> QED BY <2>1, <2>2
  <1> QED BY <1>1, <1>2, <1>3, <1>4, <1>5, <1>6, <1>7, <1>8, <1>9, <1>10, <1>11, <1>12, <1>13

LEMMA FreshOnReturn ==
  ASSUME Fresh, \/ SelfReturn \/ StackReturn \/ BlockReturn \/ Return \/ ProcessReturned
  PROVE  Fresh' /\ misused' = misused
  <1> USE DEF Fresh, Loading, OfContext, InContext, Pointers, Use, memory, Assigned
  <1>1. CASE SelfReturn \/ StackReturn \/ BlockReturn
    BY <1>1 DEF SelfReturn, StackReturn, BlockReturn, Decode, ReturnTo, UseArguments
  <1>2. CASE Return
    BY <1>2 DEF Return
  <1>3. CASE ProcessReturned
    BY <1>3 DEF ProcessReturned, Finish
  <1> QED BY <1>1, <1>2, <1>3

LEMMA FreshOnSuspension ==
  ASSUME Fresh, Suspends
  PROVE  Fresh' /\ misused' = misused \cup (stale \cap {"returnedValue"})
  <1> USE DEF Fresh, Loading, OfContext, InContext, Use, memory
  <1>1. CASE TimeExpired
    BY <1>1 DEF TimeExpired, Finish
  <1>2. CASE Breakpoint
    BY <1>2 DEF Breakpoint, Finish, Decode
  <1> QED BY <1>1, <1>2 DEF Suspends

LEMMA FreshOnPrimitive ==
  ASSUME Fresh, HasLocals, ProgramOK, Formed(heap),
         \/ ImmediateSucceeds \/ ImmediateFails \/ PrimitiveNew \/ NewObject
         \/ PrimitiveExecute \/ Executed \/ PrimitiveBlock \/ PrimitiveBlockFails
         \/ PrimitiveError
         \/ PrimitiveOther \/ PrimitiveArguments \/ OtherSucceeds \/ OtherFails
  PROVE  Fresh' /\ misused' = misused
  <1> USE DEF Fresh, Loading, OfContext, InContext, Use, memory, Assigned, Allocating,
              AllocatingOr, DecodePrimitive, Decode
  <1>1. CASE ImmediateSucceeds
    BY <1>1 DEF ImmediateSucceeds, ReturnTo
  <1>2. CASE ImmediateFails \/ PrimitiveBlockFails
    <2>1. CASE ImmediateFails
      BY <2>1 DEF ImmediateFails, Fail, Push
    <2>2. CASE PrimitiveBlockFails
      BY <2>2 DEF PrimitiveBlockFails, Fail, Push
    <2> QED BY <1>2, <2>1, <2>2
  <1>3. CASE PrimitiveNew
    BY <1>3 DEF PrimitiveNew
  <1>4. CASE NewObject
    BY <1>4 DEF NewObject
  <1>5. CASE PrimitiveExecute
    BY <1>5 DEF PrimitiveExecute
  <1>6. CASE Executed
    BY <1>6 DEF Executed
  <1>7. CASE PrimitiveBlock
    BY <1>7 DEF PrimitiveBlock
  <1>8. CASE PrimitiveError
    BY <1>8 DEF PrimitiveError
  <1>9. CASE PrimitiveOther
    BY <1>9 DEF PrimitiveOther, ProgramOK, IsContext, HasLocals, Locals, Decoded
  <1>10. CASE PrimitiveArguments
    <2>1. IsPointer(reg.context)
      BY <1>10 DEF PrimitiveArguments, Formed, IsPointer, IS_SMALLINT, NULL
    <2>2. "context" \in Pointers
      BY DEF Pointers
    <2> QED BY <1>10, <2>1, <2>2 DEF PrimitiveArguments
  <1>11. CASE OtherSucceeds
    BY <1>11 DEF OtherSucceeds
  <1>12. CASE OtherFails
    BY <1>12 DEF OtherFails, Push
  <1> QED BY <1>1, <1>2, <1>3, <1>4, <1>5, <1>6, <1>7, <1>8, <1>9, <1>10, <1>11, <1>12

\* No collection in the one allocation that roots and reloads nothing
Unmoved == DoesNotUnderstand => ~Collected

Inv == Formed(heap) /\ HasLocals /\ Fresh

LEMMA InvAtStart == Init => Inv /\ misused = {}
  <1> SUFFICES ASSUME Init PROVE Inv /\ misused = {}
    OBVIOUS
  <1>1. Formed(heap)
    BY InterpAssumption DEF Init, Formed
  <1>2. HasLocals
    BY DEF Init, HasLocals, Locals, Entered
  <1>3. Fresh /\ misused = {}
    BY InterpAssumption DEF Init, Fresh
  <1> QED BY <1>1, <1>2, <1>3 DEF Inv

LEMMA InvKept ==
  ASSUME Inv, ProgramOK, [Next]_vars, [Unmoved]_vars
  PROVE  /\ Inv'
         /\ \/ misused' = misused
            \/ Suspends /\ misused' = misused \cup (stale \cap {"returnedValue"})
  <1>1. Formed(heap')
    BY HeapKept DEF Inv
  <1>2. CASE UNCHANGED vars
    BY <1>1, <1>2 DEF vars, Inv, HasLocals, Fresh
  <1>3. CASE Next /\ Unmoved
    <2>1. HasLocals'
      BY <1>3, LocalsOnStart, LocalsOnSend, LocalsOnPrimitive DEF Next, Inv
    <2>2. /\ Fresh'
          /\ \/ misused' = misused
             \/ Suspends /\ misused' = misused \cup (stale \cap {"returnedValue"})
      BY <1>3, FreshOnStart, FreshOnSend, FreshOnReturn, FreshOnSuspension,
         FreshOnPrimitive DEF Next, Inv, Suspends, Unmoved
    <2> QED BY <1>1, <2>1, <2>2 DEF Inv
  <1> QED BY <1>2, <1>3

\* Wherever else collections take place, execute() uses no local that one has
\* made stale, except returnedValue: what it leaves of it in a process that it
\* suspends (interp.c:328-330).
THEOREM FewLocalsStale ==
  Spec /\ []ProgramOK /\ [][Unmoved]_vars => [](misused \subseteq {"returnedValue"})
  <1> DEFINE Few == Inv /\ misused \subseteq {"returnedValue"}
  <1>1. Init => Few
    BY InvAtStart
  <1>2. ProgramOK /\ Few /\ [Next]_vars /\ [Unmoved]_vars => Few'
    BY InvKept
  <1>3. Few => misused \subseteq {"returnedValue"}
    OBVIOUS
  <1> QED BY <1>1, <1>2, <1>3, PTL DEF Spec

-----------------------------------------------------------------------------
(***************************************************************************)
(* What execute() has cached of the running context.                       *)
(***************************************************************************)
\* A step leaves alone the words that execute() caches of the context that
\* runs after it, its method, and the receiver if that is cached.  (A program
\* can overwrite them with assignments and primitive 5.)
ContextKept ==
  LET C(k) == Slot(reg'.context, k) IN
    IsContext(reg'.context) =>
      /\ \A k \in {methodInContext, argumentsInContext, temporariesInContext,
                   stackInContext} :
           heap'[reg'.context].data[k] = C(k)
      /\ heap'[C(methodInContext)].data = Method(C(methodInContext))
      /\ reg'.instanceVariables # NULL =>
           heap'[C(argumentsInContext)].data[receiverInArguments] =
             Slot(C(argumentsInContext), receiverInArguments)

Held ==
  /\ IsContext(reg.context)
  /\ reg.method = Slot(reg.context, methodInContext)
  /\ reg.bp = reg.method
  /\ reg.stack = Slot(reg.context, stackInContext)
  /\ reg.literals \in {NULL, reg.method}

Cached ==
  LET C(k) == Slot(reg.context, k) IN
    /\ reg.arguments \in {NULL, C(argumentsInContext)}
    /\ reg.temporaries \in {NULL, C(temporariesInContext)}
    /\ reg.instanceVariables # NULL =>
         reg.instanceVariables = Slot(C(argumentsInContext), receiverInArguments)

\* Where a bytecode still works on the context that it was fetched from
AtWork == {"fetch", "blockStack", "newBlock", "markArguments", "primitiveArguments",
           "primitive"}

Coherent ==
  /\ pc \in AtWork => Held
  /\ pc \in {"fetch", "markArguments"} => PrimitiveFailed \/ Cached
  /\ pc \in {"primitiveArguments", "primitive"} => PrimitiveFailed
  /\ pc \in {"blockStack", "markArguments", "primitive"} => RootTop(0) = reg.context
  /\ pc \in {"newBlock", "primitiveArguments"} => RootTop(1) = reg.context
  /\ pc = "primitiveArguments" => RootTop(0) = reg.stack

\* The context goes on, with its literals loaded or not
Remains ==
  /\ reg'.context = reg.context /\ reg'.method = reg.method
  /\ reg'.bp = reg.bp /\ reg'.stack = reg.stack
  /\ reg'.literals \in {NULL, reg.literals, reg.method}

\* and what else it has cached comes from it.
CachedFrom ==
  /\ reg'.arguments \in {NULL, reg.arguments, Slot(reg.context, argumentsInContext)}
  /\ reg'.temporaries \in {NULL, reg.temporaries, Slot(reg.context, temporariesInContext)}
  /\ reg'.instanceVariables \in
       {NULL, reg.instanceVariables, Slot(Arguments, receiverInArguments)}

Advances ==
  \/ reg'.bytePointer = reg.bytePointer
  \/ reg.bytePointer \in Nat /\ reg'.bytePointer = reg.bytePointer + 1

LEMMA HeldOn ==
  ASSUME Held, Remains, ContextKept, Kept(heap, heap')
  PROVE  Held'
  <1>1. IsContext(reg.context)'
    BY KindsKept DEF Held, Remains, IsContext
  <1>2. /\ Slot(reg.context, methodInContext)' = Slot(reg.context, methodInContext)
        /\ Slot(reg.context, stackInContext)' = Slot(reg.context, stackInContext)
    BY DEF Held, Remains, ContextKept, Slot
  <1> QED BY <1>1, <1>2 DEF Held, Remains

LEMMA CachedOn ==
  ASSUME Held, Cached, Remains, CachedFrom, ContextKept
  PROVE  Cached'
  <1> DEFINE arguments == Slot(reg.context, argumentsInContext)
             temporaries == Slot(reg.context, temporariesInContext)
             receiver == Slot(arguments, receiverInArguments)
  <1>1. Slot(reg.context, argumentsInContext)' = arguments
    BY DEF Held, Remains, ContextKept, Slot
  <1>2. Slot(reg.context, temporariesInContext)' = temporaries
    BY DEF Held, Remains, ContextKept, Slot
  <1>3. reg'.instanceVariables # NULL =>
          heap'[arguments].data[receiverInArguments] = receiver
    BY DEF Held, Remains, ContextKept
  <1>4. Arguments = arguments
    BY DEF Cached, Arguments
  <1>5. reg'.arguments \in {NULL, arguments} /\ reg'.temporaries \in {NULL, temporaries}
    BY DEF Cached, CachedFrom
  <1>6. reg'.instanceVariables # NULL => reg'.instanceVariables = receiver
    BY <1>4 DEF Cached, CachedFrom
  <1>7. Slot(arguments, receiverInArguments)' = heap'[arguments'].data[receiverInArguments]
    BY DEF Slot
  <1> HIDE DEF arguments, temporaries, receiver
  <1> QED BY <1>1, <1>2, <1>3, <1>5, <1>6 DEF Cached, Slot

LEMMA FailedOn ==
  ASSUME Held, Remains, Advances, ContextKept, PrimitiveFailed
  PROVE  PrimitiveFailed'
  <1>1. Method(reg.bp)' = Method(reg.bp)
    BY DEF Held, Remains, ContextKept, Method, Slot
  <1>2. 1..reg.bytePointer \subseteq 1..(reg.bytePointer)'
    BY DEF Advances
  <1> QED BY <1>1, <1>2 DEF PrimitiveFailed

\* The registers are loaded from a context.
LoadedFrom(c) ==
  /\ reg'.context = c
  /\ reg'.method = Slot(c, methodInContext) /\ reg'.bp = reg'.method
  /\ reg'.stack = Slot(c, stackInContext)
  /\ reg'.literals = NULL /\ reg'.instanceVariables = NULL
  /\ reg'.arguments \in {NULL, Slot(c, argumentsInContext)}
  /\ reg'.temporaries \in {NULL, Slot(c, temporariesInContext)}

LEMMA LoadedOn ==
  ASSUME NEW c, IsContext(c), LoadedFrom(c), ContextKept, Kept(heap, heap')
  PROVE  Held' /\ Cached'
  <1>1. IsContext(reg'.context) /\ IsContext(reg.context)'
    BY KindsKept DEF LoadedFrom, IsContext
  <1>2. \A k \in {methodInContext, argumentsInContext, temporariesInContext,
                  stackInContext} : Slot(reg.context, k)' = Slot(c, k)
    BY <1>1 DEF LoadedFrom, ContextKept, Slot
  <1> QED BY <1>1, <1>2 DEF Held, Cached, LoadedFrom

LEMMA AtFetch ==
  ASSUME pc' = "fetch", Held', PrimitiveFailed' \/ Cached'
  PROVE  Coherent'
  BY DEF Coherent, AtWork

LEMMA RegistersOnPush ==
  ASSUME HasLocals, JumpsOK,
         \/ PushInstance \/ PushArgument \/ PushTemporary \/ PushLiteral
         \/ PushConstant \/ Duplicate \/ PopTop \/ AssignInstance \/ AssignTemporary
         \/ SendUnary \/ SendBinary
  PROVE  pc = "fetch" /\ pc' = "fetch" /\ Remains /\ CachedFrom /\ Advances
  <1> USE DEF HasLocals, Locals, Remains, CachedFrom, Advances, JumpsOK, Decode, Decoded, Push
  <1>1. CASE PushInstance \/ AssignInstance
    BY <1>1 DEF PushInstance, AssignInstance, InstanceVariables, Arguments
  <1>2. CASE PushArgument
    BY <1>2 DEF PushArgument, Arguments
  <1>3. CASE PushTemporary \/ AssignTemporary
    BY <1>3 DEF PushTemporary, AssignTemporary, Temporaries
  <1>4. CASE PushLiteral
    BY <1>4 DEF PushLiteral, LiteralsOf
  <1>5. CASE PushConstant \/ Duplicate \/ PopTop
    BY <1>5 DEF PushConstant, Duplicate, PopTop
  <1>6. CASE SendUnary
    BY <1>6 DEF SendUnary
  <1>7. CASE SendBinary
    BY <1>7 DEF SendBinary
  <1> QED BY <1>1, <1>2, <1>3, <1>4, <1>5, <1>6, <1>7

LEMMA CoherentOnPush ==
  ASSUME HasLocals, JumpsOK, Coherent, ContextKept, Kept(heap, heap'),
         \/ PushInstance \/ PushArgument \/ PushTemporary \/ PushLiteral
         \/ PushConstant \/ Duplicate \/ PopTop \/ AssignInstance \/ AssignTemporary
         \/ SendUnary \/ SendBinary
  PROVE  Coherent'
  <1>1. pc = "fetch" /\ pc' = "fetch" /\ Remains /\ CachedFrom /\ Advances
    BY RegistersOnPush
  <1>2. Held /\ (PrimitiveFailed \/ Cached)
    BY <1>1 DEF Coherent, AtWork
  <1>3. Held'
    BY <1>1, <1>2, HeldOn
  <1>4. PrimitiveFailed' \/ Cached'
    BY <1>1, <1>2, FailedOn, CachedOn
  <1> QED BY <1>1, <1>3, <1>4, AtFetch

LEMMA CoherentOnJump ==
  ASSUME HasLocals, JumpsOK, Coherent, ContextKept, Kept(heap, heap'),
         Branch \/ BranchIfTrue \/ BranchIfFalse
  PROVE  Coherent'
  <1>1. /\ pc = "fetch" /\ pc' = "fetch"
        /\ Instr.op \in {"Branch", "BranchIfTrue", "BranchIfFalse"}
    BY DEF Branch, BranchIfTrue, BranchIfFalse, BranchIf, Decode
  <1>2. Remains /\ CachedFrom /\ (Advances \/ reg'.bytePointer = Instr.val)
    BY DEF Branch, BranchIfTrue, BranchIfFalse, BranchIf, Decode, Decoded, HasLocals, Locals,
           Remains, CachedFrom, Advances, JumpsOK
  <1>3. Held /\ (PrimitiveFailed \/ Cached)
    BY <1>1 DEF Coherent, AtWork
  <1>4. Held'
    BY <1>2, <1>3, HeldOn
  <1>5. ASSUME PrimitiveFailed, reg'.bytePointer = Instr.val
        PROVE  PrimitiveFailed'
    <2>1. \E i \in 1..Instr.val : Method(reg.bp).code[i].op = "DoPrimitive"
      BY <1>1, <1>5 DEF JumpsOK
    <2>2. Method(reg.bp)' = Method(reg.bp)
      BY <1>2, <1>3 DEF Held, Remains, ContextKept, Method, Slot
    <2> QED BY <1>5, <2>1, <2>2 DEF PrimitiveFailed
  <1>6. PrimitiveFailed' \/ Cached'
    BY <1>2, <1>3, <1>5, FailedOn, CachedOn
  <1> QED BY <1>1, <1>4, <1>6, AtFetch

\* A primitive that has failed is behind.
LEMMA FailedHere ==
  ASSUME HasLocals, JumpsOK, Held, pc = "fetch", Instr.op = "DoPrimitive", Remains, ContextKept,
         reg'.bytePointer = reg.bytePointer + 1
  PROVE  PrimitiveFailed'
  <1>1. Method(reg.bp)' = Method(reg.bp)
    BY DEF Held, Remains, ContextKept, Method, Slot
  <1>2. reg.bytePointer + 1 \in 1..(reg.bytePointer)'
    BY DEF JumpsOK
  <1>3. Method(reg.bp)'.code[reg.bytePointer + 1].op = "DoPrimitive"
    BY <1>1 DEF Instr
  <1>4. (Method(reg.bp).code)' = Method(reg.bp)'.code
    OBVIOUS
  <1> QED BY <1>2, <1>3, <1>4 DEF PrimitiveFailed

LEMMA CoherentOnFailure ==
  ASSUME HasLocals, JumpsOK, Coherent, ContextKept, Kept(heap, heap'),
         ImmediateFails \/ PrimitiveBlockFails
  PROVE  Coherent'
  <1>1. /\ pc = "fetch" /\ pc' = "fetch" /\ Instr.op = "DoPrimitive"
        /\ Remains /\ reg'.bytePointer = reg.bytePointer + 1
    BY DEF ImmediateFails, PrimitiveBlockFails, Fail, Push, DecodePrimitive, Decode, Decoded,
           HasLocals, Locals, Remains
  <1>2. Held
    BY <1>1 DEF Coherent, AtWork
  <1>3. Held' /\ PrimitiveFailed'
    BY <1>1, <1>2, HeldOn, FailedHere
  <1> QED BY <1>1, <1>3, AtFetch

\* The top of rootStack after a push
LEMMA TopPushed ==
  ASSUME IsSeq(rootStack), NEW x, rootStack' = Append(rootStack, x)
  PROVE  RootTop(0)' = x /\ (Len(rootStack) >= 1 => RootTop(1)' = RootTop(0))
  <1>1. /\ Len(Append(rootStack, x)) = Len(rootStack) + 1
        /\ Append(rootStack, x)[Len(rootStack) + 1] = x
        /\ \A i \in 1..Len(rootStack) : Append(rootStack, x)[i] = rootStack[i]
    BY Appended
  <1>2. Len(rootStack) \in Nat
    BY SeqLen
  <1>3. PICK pushed, n : pushed = Append(rootStack, x) /\ n = Len(rootStack) /\ n \in Nat
    BY <1>2
  <1>4. RootTop(0)' = pushed[Len(pushed) - 0] /\ RootTop(1)' = pushed[Len(pushed) - 1]
    BY <1>3 DEF RootTop
  <1>5. RootTop(0) = rootStack[n - 0]
    BY <1>3 DEF RootTop
  <1>6. Len(pushed) - 0 = n + 1 /\ Len(pushed) - 1 = n /\ n - 0 = n
    BY <1>1, <1>3
  <1>7. pushed[n + 1] = x /\ (n >= 1 => pushed[n] = rootStack[n])
    BY <1>1, <1>3
  <1> QED BY <1>3, <1>4, <1>5, <1>6, <1>7

LEMMA TopsPushed ==
  ASSUME IsSeq(rootStack), NEW x, NEW y, rootStack' = rootStack \o <<x, y>>
  PROVE  RootTop(0)' = y /\ RootTop(1)' = x
  <1>1. PICK words, n : words = <<x, y>> /\ n = Len(rootStack)
    OBVIOUS
  <1>2. IsSeq(words) /\ Len(words) = 2 /\ words[1] = x /\ words[2] = y
    BY <1>1, Words2
  <1>3. n \in Nat
    BY <1>1, SeqLen
  <1>4. PICK pushed : pushed = rootStack \o words
    OBVIOUS
  <1>5. Len(pushed) = n + 2 /\ \A i \in 1..2 : pushed[n + i] = words[i]
    BY <1>1, <1>2, <1>4, Joined
  <1>6. rootStack' = pushed
    BY <1>1, <1>4
  <1>7. RootTop(0)' = pushed[Len(pushed) - 0] /\ RootTop(1)' = pushed[Len(pushed) - 1]
    BY <1>6 DEF RootTop
  <1>8. Len(pushed) - 0 = n + 2 /\ Len(pushed) - 1 = n + 1
    BY <1>3, <1>5
  <1>9. pushed[n + 2] = y /\ pushed[n + 1] = x
    BY <1>2, <1>5
  <1> QED BY <1>7, <1>8, <1>9

LEMMA TopPopped ==
  ASSUME IsSeq(rootStack), Len(rootStack) >= 2, rootStack' = Popped(1)
  PROVE  RootTop(0)' = RootTop(1)
  <1>1. /\ Len(rootStack') = Len(rootStack) - 1 /\ Len(rootStack) \in Nat
        /\ \A i \in 1..(Len(rootStack) - 1) : rootStack'[i] = rootStack[i]
    BY Cut, SeqLen DEF Popped
  <1>2. Len(rootStack') - 0 = Len(rootStack) - 1 /\ Len(rootStack) - 1 \in 1..(Len(rootStack) - 1)
    BY <1>1
  <1> QED BY <1>1, <1>2 DEF RootTop

\* While the words of a bytecode are pushed
LEMMA CoherentOnRooting ==
  ASSUME HasLocals, JumpsOK, Level, Coherent, ContextKept, Kept(heap, heap'),
         PushBlock \/ MarkArguments \/ BlockStack
  PROVE  Coherent'
  <1>1. /\ Remains /\ pc \in AtWork
        /\ reg'.arguments = reg.arguments /\ reg'.temporaries = reg.temporaries
        /\ reg'.instanceVariables = reg.instanceVariables
    BY DEF PushBlock, MarkArguments, BlockStack, Decode, Decoded, HasLocals, Locals, Remains,
           AtWork
  <1>2. Held'
    BY <1>1, HeldOn DEF Coherent
  <1>3. IsSeq(rootStack) /\ Len(rootStack) \in Nat
    BY SeqLen DEF Level
  <1>4. CASE PushBlock
    <2>1. pc' = "blockStack" /\ rootStack' = Append(rootStack, reg.context)
      BY <1>4 DEF PushBlock
    <2>2. PICK context : context = reg.context
      OBVIOUS
    <2>3. RootTop(0)' = reg.context
      BY <1>3, <2>1, <2>2, TopPushed
    <2> QED BY <1>1, <1>2, <2>1, <2>3 DEF Coherent, Remains
  <1>5. CASE MarkArguments
    <2>1. /\ pc = "fetch" /\ pc' = "markArguments"
          /\ rootStack' = Append(rootStack, reg.context)
      BY <1>5 DEF MarkArguments, Decode
    <2>2. PICK context : context = reg.context
      OBVIOUS
    <2>3. RootTop(0)' = reg.context
      BY <1>3, <2>1, <2>2, TopPushed
    <2>4. Advances /\ CachedFrom
      BY <1>1, <1>5, <2>1 DEF MarkArguments, Decoded, HasLocals, Locals, Advances, CachedFrom,
                              JumpsOK
    <2>5. PrimitiveFailed' \/ Cached'
      BY <1>1, <2>1, <2>4, FailedOn, CachedOn DEF Coherent
    <2> QED BY <1>1, <1>2, <2>1, <2>3, <2>5 DEF Coherent, Remains
  <1>6. CASE BlockStack
    <2>1. /\ pc = "blockStack" /\ pc' = "newBlock"
          /\ rootStack' = Append(rootStack, NewAddress)
      BY <1>6 DEF BlockStack
    <2>2. PICK stack : stack = NewAddress
      OBVIOUS
    <2>3. Len(rootStack) >= 1
      BY <1>3, <2>1, SeqLen DEF Level, LevelAt, One
    <2>4. RootTop(1)' = RootTop(0)
      BY <1>3, <2>1, <2>2, <2>3, TopPushed
    <2> QED BY <1>1, <1>2, <2>1, <2>4 DEF Coherent, Remains
  <1> QED BY <1>4, <1>5, <1>6

LEMMA CoherentOnBlock ==
  ASSUME HasLocals, Coherent, ContextKept, Kept(heap, heap'), NewBlock
  PROVE  Coherent'
  <1>1. pc = "newBlock" /\ pc' = "fetch"
    BY DEF NewBlock
  <1>2. PICK context : context = RootTop(1)
    OBVIOUS
  <1>3. IsContext(context)
    BY <1>1, <1>2 DEF Coherent, AtWork, Held
  <1>4. LoadedFrom(context)
    BY <1>2 DEF NewBlock, Unloaded, Loaded, LoadedFrom, HasLocals, Locals
  <1> QED BY <1>1, <1>3, <1>4, LoadedOn, AtFetch

LEMMA CoherentOnMarked ==
  ASSUME HasLocals, Coherent, ContextKept, Kept(heap, heap'), MarkedArguments
  PROVE  Coherent'
  <1>1. pc = "markArguments" /\ pc' = "fetch"
    BY DEF MarkedArguments
  <1>2. CASE Collected
    <2>1. PICK context : context = RootTop(0)
      OBVIOUS
    <2>2. IsContext(context)
      BY <1>1, <2>1 DEF Coherent, AtWork, Held
    <2>3. LoadedFrom(context)
      BY <1>2, <2>1 DEF MarkedArguments, Reloaded, Unloaded, Loaded, LoadedFrom, HasLocals,
                        Locals
    <2> QED BY <1>1, <2>2, <2>3, LoadedOn, AtFetch
  <1>3. CASE ~Collected
    <2>1. Remains /\ CachedFrom /\ Advances
      BY <1>3 DEF MarkedArguments, Remains, CachedFrom, Advances, HasLocals, Locals
    <2>2. Held /\ (PrimitiveFailed \/ Cached)
      BY <1>1 DEF Coherent, AtWork
    <2>3. Held' /\ (PrimitiveFailed' \/ Cached')
      BY <2>1, <2>2, HeldOn, FailedOn, CachedOn
    <2> QED BY <1>1, <2>3, AtFetch
  <1> QED BY <1>2, <1>3

\* The new context has the words that execute() goes on with.
LEMMA CoherentOnContext ==
  ASSUME HasLocals, Formed(heap), ProgramOK', NewContext
  PROVE  Coherent'
  <1>1. PICK sender, new, d, g, b, t :
          /\ g = [a \in DOMAIN heap \cup {new} |->
                    IF a = new THEN [class |-> ContextClass, data |-> d] ELSE heap[a]]
          /\ heap' = [g EXCEPT ![sender].data[stackTopInContext] = t,
                               ![sender].data[bytePointerInContext] = b]
          /\ d = [k \in 0..(contextSize - 1) |->
                    CASE k = methodInContext -> RootTop(3)
                      [] k = argumentsInContext -> RootTop(4)
                      [] k = temporariesInContext -> RootTop(0)
                      [] k = stackInContext -> RootTop(1)
                      [] k \in {bytePointerInContext, stackTopInContext} -> newInteger(0)
                      [] k = previousContextInContext -> TailSender(sender)]
          /\ reg'.context = new
          /\ reg'.method = RootTop(3) /\ reg'.bp = RootTop(3) /\ reg'.stack = RootTop(1)
          /\ reg'.arguments = RootTop(4) /\ reg'.temporaries = RootTop(0)
          /\ reg'.instanceVariables = NULL /\ reg'.literals = NULL
    BY DEF NewContext, Alloc, HasLocals, Locals
  <1>2. pc' = "fetch" /\ IsContext(reg.context)'
    BY DEF NewContext, ProgramOK
  <1>3. /\ d[methodInContext] = RootTop(3) /\ d[argumentsInContext] = RootTop(4)
        /\ d[temporariesInContext] = RootTop(0) /\ d[stackInContext] = RootTop(1)
        /\ {methodInContext, argumentsInContext, temporariesInContext, stackInContext}
             \subseteq DOMAIN d
    BY <1>1 DEF contextSize, methodInContext, argumentsInContext, temporariesInContext, stackInContext,
                bytePointerInContext, stackTopInContext, previousContextInContext
  <1>4. ASSUME NEW k \in {methodInContext, argumentsInContext, temporariesInContext,
                          stackInContext}
        PROVE  heap'[new].data[k] = d[k]
    <2>1. g[new] = [class |-> ContextClass, data |-> d]
      BY <1>1
    <2>2. k # stackTopInContext /\ k # bytePointerInContext
      BY DEF methodInContext, argumentsInContext, temporariesInContext, stackInContext,
             bytePointerInContext, stackTopInContext
    <2>3. CASE sender = new
      <3>1. heap'[new] = [[g[new] EXCEPT !.data[stackTopInContext] = t]
                            EXCEPT !.data[bytePointerInContext] = b]
        BY <1>1, <2>3
      <3> QED BY <1>3, <2>1, <2>2, <3>1
    <2>4. CASE sender # new
      BY <1>1, <2>1, <2>4
    <2> QED BY <2>3, <2>4
  <1>5. /\ Slot(reg.context, methodInContext)' = RootTop(3)
        /\ Slot(reg.context, argumentsInContext)' = RootTop(4)
        /\ Slot(reg.context, temporariesInContext)' = RootTop(0)
        /\ Slot(reg.context, stackInContext)' = RootTop(1)
    BY <1>1, <1>3, <1>4 DEF Slot
  <1>6. Held'
    BY <1>1, <1>2, <1>5 DEF Held
  <1>7. Cached'
    BY <1>1, <1>5 DEF Cached
  <1> QED BY <1>2, <1>6, <1>7, AtFetch

LEMMA CoherentOnReturn ==
  ASSUME HasLocals, ProgramOK', ContextKept, Kept(heap, heap'), Return \/ PrimitiveBlock
  PROVE  Coherent'
  <1>1. pc' = "fetch" /\ DOMAIN heap' = DOMAIN heap
    BY DEF Return, PrimitiveBlock, DecodePrimitive, Decode
  <1>2. PICK context : context = reg'.context
    OBVIOUS
  <1>3. IsContext(context)
    BY <1>1, <1>2 DEF ProgramOK, IsContext, Kept
  <1>4. LoadedFrom(context)
    <2>1. CASE Return
      BY <1>2, <2>1 DEF Return, Unloaded, Loaded, LoadedFrom, HasLocals, Locals
    <2>2. CASE PrimitiveBlock
      BY <1>2, <2>2 DEF PrimitiveBlock, Decoded, Unloaded, Loaded, LoadedFrom, HasLocals, Locals
    <2> QED BY <2>1, <2>2
  <1> QED BY <1>1, <1>3, <1>4, LoadedOn, AtFetch

LEMMA CoherentOnEntry ==
  ASSUME ProgramOK', PrimitiveExecute
  PROVE  Coherent'
  <1>1. pc' = "fetch" /\ heap' = heap
    BY DEF PrimitiveExecute, DecodePrimitive, Decode
  <1>2. IsContext(reg.context)'
    BY <1>1 DEF ProgramOK
  <1>3. Held' /\ Cached'
    BY <1>1, <1>2 DEF PrimitiveExecute, Entered, Held, Cached, Slot
  <1> QED BY <1>1, <1>3, AtFetch

LEMMA CoherentOnPrimitive ==
  ASSUME HasLocals, JumpsOK, Level, Coherent, ContextKept, Kept(heap, heap'),
         PrimitiveOther \/ PrimitiveArguments \/ OtherFails
  PROVE  Coherent'
  <1>1. IsSeq(rootStack) /\ Len(rootStack) \in Nat
    BY SeqLen DEF Level
  <1>2. Held
    BY DEF Coherent, AtWork, PrimitiveOther, PrimitiveArguments, OtherFails, DecodePrimitive,
           Decode
  <1>3. CASE PrimitiveOther
    <2>1. /\ pc = "fetch" /\ pc' = "primitiveArguments" /\ Instr.op = "DoPrimitive"
          /\ Remains /\ reg'.bytePointer = reg.bytePointer + 1
          /\ rootStack' = rootStack \o <<reg.context, reg.stack>>
      BY <1>3 DEF PrimitiveOther, DecodePrimitive, Decode, Decoded, HasLocals, Locals, Remains
    <2>2. PICK context, stack : context = reg.context /\ stack = reg.stack
      OBVIOUS
    <2>3. RootTop(0)' = reg.stack /\ RootTop(1)' = reg.context
      BY <1>1, <2>1, <2>2, TopsPushed
    <2>4. Held' /\ PrimitiveFailed'
      BY <1>2, <2>1, HeldOn, FailedHere
    <2> QED BY <2>1, <2>3, <2>4 DEF Coherent, Remains
  <1>4. CASE PrimitiveArguments
    <2>1. pc = "primitiveArguments" /\ pc' = "primitive" /\ rootStack' = Popped(1)
      BY <1>4 DEF PrimitiveArguments
    <2>2. PrimitiveFailed /\ RootTop(0) = reg.stack /\ RootTop(1) = reg.context
      BY <2>1 DEF Coherent
    <2>3. Remains /\ Advances
      BY <1>4, <2>2 DEF PrimitiveArguments, Remains, Advances, HasLocals, Locals
    <2>4. Len(rootStack) >= 2
      BY <1>1, <2>1, SeqLen DEF Level, LevelAt, Two
    <2>5. RootTop(0)' = RootTop(1)
      BY <1>1, <2>1, <2>4, TopPopped
    <2>6. Held' /\ PrimitiveFailed'
      BY <1>2, <2>2, <2>3, HeldOn, FailedOn
    <2> QED BY <2>1, <2>2, <2>3, <2>5, <2>6 DEF Coherent, Remains
  <1>5. CASE OtherFails
    <2>1. pc = "primitive" /\ pc' = "fetch"
      BY <1>5 DEF OtherFails, Push
    <2>2. PrimitiveFailed /\ RootTop(0) = reg.context
      BY <2>1 DEF Coherent
    <2>3. PICK moved \in BOOLEAN :
            reg' = [[(IF moved THEN [Reloaded(reg) EXCEPT !.arguments = NULL] ELSE reg)
                       EXCEPT !.returnedValue = nilObject] EXCEPT !.stackTop = @ + 1]
      BY <1>5 DEF OtherFails, Push
    <2>4. Remains /\ Advances
      BY <1>2, <2>2, <2>3 DEF Held, Reloaded, Unloaded, Loaded, Remains, Advances, HasLocals,
                              Locals
    <2>5. Held' /\ PrimitiveFailed'
      BY <1>2, <2>2, <2>4, HeldOn, FailedOn
    <2> QED BY <2>1, <2>5, AtFetch
  <1> QED BY <1>3, <1>4, <1>5

\* A send, a return and the allocation of an object leave the context behind.
LEMMA CoherentOnLeaving ==
  ASSUME \/ SendMessage \/ SendToSuper \/ SendBinaryMessage \/ BinaryArguments
         \/ Understood \/ NotUnderstood \/ Hopeless \/ DoesNotUnderstand
         \/ NewStack \/ NewTemporaries
         \/ SelfReturn \/ StackReturn \/ BlockReturn
         \/ ProcessReturned \/ TimeExpired \/ Breakpoint
         \/ ImmediateSucceeds \/ PrimitiveNew \/ NewObject \/ Executed
         \/ PrimitiveError \/ OtherSucceeds
  PROVE  Coherent'
  <1>1. pc' \notin AtWork
    BY DEF AtWork, SendMessage, SendToSuper, SendBinaryMessage, BinaryArguments, Understood,
           NotUnderstood, Hopeless, DoesNotUnderstand, NewStack, NewTemporaries, SelfReturn,
           StackReturn, BlockReturn, ProcessReturned, TimeExpired, Breakpoint, Finish,
           ImmediateSucceeds, PrimitiveNew, NewObject, Executed, PrimitiveError,
           OtherSucceeds, Send, ReturnTo
  <1> QED BY <1>1 DEF Coherent, AtWork

LEMMA CoherentKept ==
  ASSUME HasLocals, Formed(heap), Level, Coherent, ProgramOK', JumpsOK,
         [Next]_vars, [ContextKept]_vars
  PROVE  Coherent'
  <1>1. Kept(heap, heap')
    BY HeapKept
  <1>2. CASE UNCHANGED vars
    BY <1>2 DEF vars, Coherent, Held, Cached, PrimitiveFailed, IsContext, Slot, Method, RootTop
  <1>3. CASE Next /\ ContextKept
    BY <1>1, <1>3, CoherentOnPush, CoherentOnJump, CoherentOnFailure, CoherentOnRooting,
       CoherentOnBlock, CoherentOnMarked, CoherentOnContext, CoherentOnReturn,
       CoherentOnEntry, CoherentOnPrimitive, CoherentOnLeaving DEF Next
  <1> QED BY <1>2, <1>3

\* At the top of the loop what execute() has cached is what the context says,
\* or is not cached, whatever sends, blocks, returns, collections and nested
\* processes have done, in programs that do not overwrite the context that runs
\* and whose methods do not come back to before a primitive of theirs.
THEOREM CachedRegisters ==
  Spec /\ []ProgramOK /\ []JumpsOK /\ [][ContextKept]_vars => []RegistersCoherent
  <1> DEFINE IInv == HasLocals /\ Formed(heap) /\ Level /\ Coherent
  <1>1. Init /\ ProgramOK => IInv
    <2> SUFFICES ASSUME Init, ProgramOK PROVE IInv
      OBVIOUS
    <2>1. HasLocals /\ Formed(heap) /\ Level
      BY InvAtStart, AtStart DEF Inv
    <2>2. pc = "fetch" /\ IsContext(reg.context)
      BY DEF Init, ProgramOK
    <2>3. Held /\ Cached
      BY <2>2 DEF Init, Entered, Held, Cached, Slot
    <2>4. Coherent
      BY <2>2, <2>3 DEF Coherent
    <2> QED BY <2>1, <2>4
  <1>2. ProgramOK /\ ProgramOK' /\ JumpsOK /\ IInv /\ [Next]_vars /\ [ContextKept]_vars => IInv'
    <2> SUFFICES ASSUME ProgramOK, ProgramOK', JumpsOK, IInv, [Next]_vars, [ContextKept]_vars
                 PROVE  IInv'
      OBVIOUS
    <2>1. Formed(heap') /\ Coherent'
      BY HeapKept, CoherentKept
    <2>2. CASE Next
      <3>1. HasLocals'
        BY <2>2, LocalsOnStart, LocalsOnSend, LocalsOnPrimitive DEF Next
      <3>2. Level'
        BY <2>2, NextMoves, LevelKept
      <3> QED BY <2>1, <3>1, <3>2
    <2>3. CASE UNCHANGED vars
      BY <2>1, <2>3 DEF vars, HasLocals, Level, LevelAt
    <2> QED BY <2>2, <2>3
  <1>3. IInv => RegistersCoherent
    BY DEF Coherent, AtWork, Held, Cached, RegistersCoherent
  <1> QED BY <1>1, <1>2, <1>3, PTL DEF Spec
=============================================================================
