----------------------------- MODULE SourceText -----------------------------
(***************************************************************************)
(* The text of a method as both compilers of the system read it: the one   *)
(* of src/bootstrap/bootstrap.c, which makes the first image, and the      *)
(* Parser and Encoder classes of src/smalltalk/system/lst.st, which        *)
(* compile inside that image.  A text is a sequence of tokens; the         *)
(* scanners, which find the tokens among the characters, are left out.     *)
(***************************************************************************)
EXTENDS Integers, Sequences, SequencesExt

CONSTANTS
  Keywords,     \* tokens that end in a colon
  Binaries,     \* the binary selectors
  Numeral,      \* numerals -> their values
  Quoted,       \* literal symbols, strings and characters
  Variables,    \* the classes from the method's up, each a sequence of names
  Globals       \* the names of the global variables

Punctuation == {"(", ")", "[", "]", ".", ";", "^", ":=", "|", ":"}
EndOfText == ""

IsKeyword(t) == t \in Keywords
IsBinary(t) == t \in Binaries
IsNumeral(t) == t \in DOMAIN Numeral
IsName(t) ==
  t \notin Punctuation \cup Keywords \cup Binaries \cup DOMAIN Numeral
           \cup Quoted \cup {EndOfText}

\* What a parser whose next token is the pth of the text sees
Token(text, p) == IF p <= Len(text) THEN text[p] ELSE EndOfText

\* The first place of v in a sequence, or 0
FirstIndex(seq, v) == SelectInSeq(seq, LAMBDA w : w = v)

(***************************************************************************)
(* Instructions are those of Interp: an opcode, its low operand, and the   *)
(* byte or the jump target that follows.  Jump targets count instructions. *)
(***************************************************************************)
Instruction(op, low, val) == [op |-> op, low |-> low, val |-> val]

nilConst == 10
trueConst == 11
falseConst == 12
Constants == <<"nil", "true", "false">>
=============================================================================
