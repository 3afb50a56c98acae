--------------------------- MODULE MCCompiledCode ---------------------------
(***************************************************************************)
(* Texts for CompiledCode: a method m: x | t | of a class with an instance *)
(* variable w, whose superclass has one called v.                          *)
(***************************************************************************)
EXTENDS CompiledCode, TLC

MCKeywords == {"m:", "at:", "put:", "do:", "ifTrue:", "ifFalse:", "and:", "or:",
               "whileTrue:", "to:"}
MCBinaries == {"+", "-", "<", ">"}
MCNumeral == "7" :> 7 @@ "0" :> 0 @@ "1" :> 1 @@ "12" :> 12
MCQuoted == {"#sym", "'string'"}
MCVariables == <<<<"w">>, <<"v">>>>
MCGlobals == {"Array"}

InBrackets(s) == <<"[">> \o s \o <<"]">>
InParens(s) == <<"(">> \o s \o <<")">>
Body(s) == <<"m:", "x", "|", "t", "|">> \o s
Joined(s, u) == s \o <<".">> \o u

\* Expressions, simple ones first
Terms == {<<"x">>, <<"t">>, <<"v">>, <<"12">>, <<"nil">>}
Unary == {<<"t">>, <<"w", "size">>, <<"x", "isNil", "not">>, <<"super", "size">>,
          <<"super", "size", "isNil", "size">>,
          InParens(<<"super", "do:", "x">>) \o <<"size">>,
          <<"<", "7", "self", "x", ">">>}
Plain == {<<"x", "size">>, <<"Array", "new">>, <<"1">>, <<"'string'">>}
Binary == {a \o <<op>> \o b : a \in Plain, b \in Terms, op \in {"+", "-"}}
            \cup {<<"x", "+", "t", "-", "1", "size">>}
Keyed == {a \o <<"at:">> \o b \o <<"put:">> \o c :
            a \in Terms, b \in {<<"1">>, <<"x", "+", "1">>},
            c \in {<<"v">>, InParens(<<"t", "at:", "x">>)}}
           \cup {<<"super", "at:", "x", "put:", "12">>}
ABlock == <<"[", ":", "k", "|", "t", ":=", "k", "size", ".", "^", "k", "]">>
Blocks2 == {<<"x", "do:">> \o ABlock,
            <<"x", "do:">> \o InBrackets(<<"t", "do:">> \o ABlock),
            InBrackets(<<":", "k", ":", "j", "|", "j", "at:", "k">>)
              \o <<"at:", "1">>}

Conditions == {<<"x">>, <<"x", "<", "t">>, <<"v", "isNil">>}
Arms == {<<"1">>, <<"t", ":=", "x">>, <<"x", "size", ".", "^", "v">>}
IfExpr(c, a) == c \o <<"ifTrue:">> \o InBrackets(a)
IfElse(c, a, b) == IfExpr(c, a) \o <<"ifFalse:">> \o InBrackets(b)
Unless(c, a) == c \o <<"ifFalse:">> \o InBrackets(a)
Tests == {IfExpr(c, a) : c \in Conditions, a \in Arms}
           \cup {IfElse(<<"x">>, a, b) : a \in Arms, b \in Arms}
           \cup {Unless(c, a) : c \in Conditions, a \in Arms}
           \cup {c \o <<"and:">> \o InBrackets(<<"x", "size">>) : c \in Conditions}
           \cup {<<"x", "or:">> \o InBrackets(IfExpr(<<"t">>, <<"v">>)),
                 <<"x", "at:">> \o InParens(IfExpr(<<"t">>, <<"^", "v">>)),
                 <<"x", "do:">> \o InBrackets(IfExpr(<<"t">>, <<"^", "v">>))}
While(c, b) == InBrackets(c) \o <<"whileTrue:">> \o InBrackets(b)
Loops == {While(<<"x", "<", "t">>, b) : b \in Arms}
           \cup {While(<<"t", ":=", "x", "size", ".", "t", "isNil">>,
                       <<"t", "do:">> \o ABlock),
                 <<"x", "do:">> \o InBrackets(Joined(While(<<"t">>, <<"x", "size">>),
                                                 <<"v">>))}
\* Loops in the arms of a test, as in do: of Interval
Inner == {While(<<"x", "<", "t">>, <<"t", ":=", "t", "+", "1">>),
          While(<<"t">>, <<"x", "size", ".", "^", "v">>)}
LoopArms == {IfExpr(<<"x">>, l) : l \in Inner}
              \cup {Unless(<<"x">>, Joined(<<"w">>, l)) : l \in Inner}
              \cup {IfElse(<<"x", "<", "0">>, k, l) : k \in Inner, l \in Inner}
              \cup {IfElse(<<"x">>, <<"v">>, l) : l \in Inner}
\* One value assigned to two variables
Chained == {<<"t", ":=", "w", ":=">> \o e : e \in Terms \cup Unary}
Nested == {While(<<"x">>, While(<<"t">>, <<"v", "size">>))}
Cascades == {<<"x", "size", ";", "at:", "1", "put:", "t">>,
             <<"Array", "at:", "12", ";", "at:", "1", ";", "size">>}

Statements(es) ==
  es \cup {<<"^">> \o e : e \in es} \cup {<<"t", ":=">> \o e : e \in es}
Sampled == {<<"x", "size">>, <<"t", ":=", "w", "+", "1">>, <<"^", "x">>}
Expressions == Terms \cup Unary \cup Binary \cup Keyed \cup Blocks2 \cup Tests
\* The other forms of a header, with and without temporaries
Headers == {<<"size", "|", "t", "|">>, <<"+", "x", "|", "t", "|">>,
            <<"at:", "x", "put:", "y", "|", "t", "k", "|">>}
Headed ==
  {h \o s : h \in Headers, s \in {<<"t", ":=", "w", "+", "1">>,
                                   <<"^", "self", "size">>}}
  \cup {<<"size", "^", "self">>, <<"-", "x", "^", "x">>,
        <<"at:", "x", "put:", "y", "^", "x", "at:", "y">>}
MCTexts ==
  {Body(s) : s \in Statements(Expressions)}
  \cup {Body(Joined(l, s)) : l \in Loops \cup {IfExpr(<<"x">>, <<"t">>)},
                             s \in Sampled}
  \cup {Body(Joined(s, Joined(l, u))) :
          l \in Loops, s \in {<<"t", ":=", "12">>}, u \in Sampled}
  \cup {Body(s) : s \in LoopArms \cup Chained}
  \cup {Body(Joined(l, s)) : l \in LoopArms \cup Chained, s \in Sampled}
  \cup Headed

\* A statement and the next with nothing between them: the bootstrap goes on at
\* the next token (a full stop is read if it is there), so that the text means
\* what it would with the full stop.  The image compiler stops there.
Unstopped ==
  {<<"bootstrap", Body(s \o u), Body(Joined(s, u))>> :
     s \in {<<"<", "7", "self", "x", ">">>, <<"x", "at:", "1", "put:", "t">>,
            <<"t", ":=", "12">>, IfExpr(<<"x">>, <<"^", "t">>)},
     u \in {<<"^", "nil">>, <<"^", "x", "size">>, <<"^", "self">>}}

\* For the image compiler only, because the bootstrap's code does something
\* else: it sends the messages of a cascade to the answers of those before
\* (CascadeSources), sends to super what follows a unary message to super
\* (SuperSources) and to self a binary message to super, makes 0 the value of a
\* loop, and leaves a word on the stack each time round a loop within a loop
\* (NestedSources).  Of these the sources that it compiles have three cascades,
\* at lst.st:1525, 1594 and 3592-3595.
ImageTexts ==
  {Body(s) : s \in Statements(Nested \cup Cascades)}
  \cup {Body(<<"super", "-", "x">>), Body(<<"^">> \o While(<<"x">>, <<"t">>)),
        Body(<<"super", "size", "at:", "x">>),
        Body(Joined(<<"x", "at:", "super">>, <<"t", "size">>))}

Both(texts) == {"bootstrap", "image"} \X texts
Means(pairs) == {<<p[1], p[2], p[2]>> : p \in pairs}
MCSources == Means(Both(MCTexts) \cup ({"image"} \X ImageTexts))
               \cup Unstopped

\* A block whose parameter has the name of a temporary, as in keysAsArray of
\* Dictionary, and the same with another name for the parameter
ShadowedSources ==
  LET Called(k) == Body(<<"x", "do:">> \o
                        InBrackets(<<":", k, "|", "x", "at:", k>>))
  IN {<<"bootstrap", Called("t"), Called("k")>>}
NestedSources == Means({"bootstrap"} \X {Body(s) : s \in Nested})
CascadeSources == Means({"bootstrap"} \X {Body(s) : s \in Cascades})
SuperSources == Means({"bootstrap"} \X {Body(<<"super", "size", "at:", "x">>)})
HeadSources == Means({"image"} \X {Body(<<"x", ";", "at:", "1">>)})
OneSource == Means(Both({Body(<<"w">>)}))
TwiceNamed == <<<<"w">>, <<"w", "v">>>>
MCPrevious == {Body(<<"^", "x">>)}
=============================================================================
