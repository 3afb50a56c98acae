--------------------------- MODULE MCImageBuilder ---------------------------
(***************************************************************************)
(* A source that declares the classes the bootstrap depends on and then,   *)
(* in any order, a class with a start-up method, a subclass of it, and     *)
(* methods of both sides, with selectors that begin alike.  In some orders *)
(* a line needs what a later one declares.                                 *)
(***************************************************************************)
EXTENDS ImageBuilder

MCMeta == <<1>>
MCObject == <<2>>
MCClass == <<3>>
MCUndefined == <<4>>
MCMethod == <<5>>
MCNode == <<6>>
MCREPL == <<7>>
MCWebIDE == <<7, 1>>
MCNil == <<8>>
MCGlobals == <<8, 8>>
MCspecialSymbols == <<9>>
MCSmalltalk == <<9, 1>>
MCstart == <<10>>
SymbolClass == <<2, 2>>
SubClass == <<3, 1>>
less == <<11>>

MCPremade == <<<<SymbolClass, 1>>, <<MCUndefined, 0>>, <<MCObject, 0>>,
               <<MCMeta \o MCObject, 0>>, <<MCClass, 0>>,
               <<MCMeta \o MCClass, 0>>>>
MCOthers == <<MCNil, MCGlobals>>
MCSpecials == <<less, <<11, 1>>>>

List(list) == [names |-> list, spaced |-> TRUE]
Unspaced(list) == [names |-> list, spaced |-> FALSE]
Class_(super, name, variables, classVariables) ==
  [command |-> "class", super |-> super, name |-> name,
   variables |-> List(variables), classVariables |-> List(classVariables)]
Method_(class, meta, selector, uses, method) ==
  [command |-> "method", class |-> class, meta |-> meta, selector |-> selector,
   uses |-> uses, method |-> method]

a == <<12>>
b == <<12, 1>>
at == <<13>>
atPut == <<13, 1>>

\* What every source begins with
Kernel == <<Class_(MCNil, MCObject, <<>>, <<>>),
            Class_(MCObject, MCClass, <<a, <<14>>>>, <<>>),
            Class_(MCObject, MCUndefined, <<>>, <<>>),
            Class_(MCObject, SymbolClass, <<>>, <<<<15>>>>),
            Class_(MCObject, MCMethod, <<>>, <<>>),
            Class_(MCMethod, MCNode, <<b>>, <<>>),
            Method_(MCObject, TRUE, at, <<>>, "Object class at:")>>

\* And the lines that follow in any order
Rest == {Class_(MCObject, MCREPL, <<<<16>>>>, <<>>),
         Class_(MCREPL, SubClass, <<<<16, 1>>>>, <<<<17>>>>),
         Method_(MCREPL, FALSE, MCstart, <<at>>, "REPL start"),
         Method_(MCObject, FALSE, atPut, <<less>>, "Object at:put:"),
         Method_(MCObject, FALSE, at, <<>>, "Object at:")}

\* Sources that are in some way incomplete, or too long
Broken == {SubSeq(Kernel, 1, 5), Kernel, Tail(Kernel), <<Kernel[1], Kernel[6]>>,
           Kernel \o <<Class_(MCObject, MCREPL, <<>>, <<>>)>>,
           Kernel \o <<Method_(MCObject, FALSE, at, <<>>, "Object at:"),
                       Method_(MCObject, FALSE, at, <<>>, "another at:")>>,
           Kernel \o [i \in 1..4 |-> Class_(MCObject, <<18, i>>, <<>>, <<>>)]}

MCSources == {Kernel \o rest : rest \in SetToSeqs(Rest)} \cup Broken

\* A start-up class made in the image, and methods, one of which is there already
MCChanges == {Class_(SubClass, MCWebIDE, <<<<17, 1>>>>, <<<<17, 2>>>>),
              Method_(MCWebIDE, FALSE, MCstart, <<<<19>>>>, "WebIDE start"),
              Method_(MCWebIDE, TRUE, at, <<b>>, "WebIDE class at:"),
              Method_(MCClass, FALSE, atPut, <<>>, "Class at:put:"),
              Method_(MCREPL, FALSE, MCstart, <<>>, "another start")}

\* A class variable that the source's subclasses inherit
Inherited == {Kernel \o
                <<Class_(MCObject, MCREPL, <<>>, <<<<16>>>>),
                  Class_(MCREPL, SubClass, <<>>, <<>>)>>}
\* A list of variables with no space before its parenthesis
Lists == {Kernel \o <<[Class_(MCObject, MCREPL, <<a>>, <<>>) EXCEPT
                         !.variables = Unspaced(<<a>>)]>>}
\* A class of which the name begins like that of a metaclass
Metals == {Kernel \o <<Class_(MCObject, <<1, 20>>, <<>>, <<>>)>>}
=============================================================================
