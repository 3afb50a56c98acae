---------------------------- MODULE ImageBuilder ----------------------------
(***************************************************************************)
(* How an image comes to be: src/bootstrap/bootstrap.c makes the first     *)
(* classes, reads a source file line by line, and orders the symbols and   *)
(* the globals; the VM finds the method to start with; classes and methods *)
(* are added in the image by the methods of lst.st.                        *)
(*                                                                         *)
(* Bootstrap and image write dictionaries and the tree of symbols with     *)
(* code of their own, and VM and image search them, again each by its own: *)
(* four comparisons in three languages have to be the same order.          *)
(*                                                                         *)
(* A class, its name and the symbol of its name are one sequence of bytes. *)
(* What the methods say is left to the compilers; a line has the selector  *)
(* and the other symbols that its text names.                              *)
(***************************************************************************)
EXTENDS SymbolOrder

CONSTANTS
  Sources,         \* the sequences of lines that are read
  Changes,         \* what is done in the running image
  Premade,         \* <<name, class variables>> of the classes of bigBang()
  Others,          \* the names of its other objects: nil, true, false, globals
  Meta,            \* the beginning of the names of metaclasses
  Object, Class, Undefined, Method, Node,
  NilName,         \* the name of nilObject
  specialSymbols, Smalltalk,
  Specials,        \* the symbols in specialSymbols
  WebIDE, REPL, start,
  ClassSize, MAX_GLOBALS

MetaName(name) == Meta \o name

ASSUME BuilderAssumption ==
  /\ ClassSize \in Nat /\ MAX_GLOBALS \in Nat
  /\ {Object, MetaName(Object), Class, MetaName(Class), Undefined}
       \subseteq {Premade[i][1] : i \in DOMAIN Premade}
  /\ NilName \in ToSet(Others)

VARIABLES
  phase,           \* "reading", "built", "running", or "stopped" by an error
  source,          \* the lines of the source file
  done,            \* the lines read and the changes made
  classes,         \* class -> its words: class, parentClass, size, variables
                   \* and methods, and how many words there are
  globals,         \* globalNames, the names that bootstrap.c knows
  oldSymbols,      \* the symbols in the order in which it makes them
  symbols,         \* the tree symbols of class Symbol
  names,           \* the dictionary globals of the image
  initialMethod    \* of the VM

vars == <<phase, source, done, classes, globals, oldSymbols, symbols, names,
          initialMethod>>

-----------------------------------------------------------------------------
(***************************************************************************)
(* Dictionaries and trees of symbols.                                      *)
(***************************************************************************)
Empty == [keys |-> <<>>, values |-> <<>>]

newNode(value) == [value |-> value, left |-> nil, right |-> nil]

RECURSIVE symbolTreeInsert(_, _)
symbolTreeInsert(base, symbol) ==
  IF base = nil THEN newNode(symbol)
  ELSE IF symbolCmp(symbol, base.value) < 0
  THEN [base EXCEPT !.left = symbolTreeInsert(@, symbol)]
  ELSE [base EXCEPT !.right = symbolTreeInsert(@, symbol)]

\* Mutant: the other side first.
RECURSIVE TreeAddMirrored(_, _)
TreeAddMirrored(node, symbol) ==
  IF node = nil THEN newNode(symbol)
  ELSE IF Less(node.value, symbol)
  THEN [node EXCEPT !.left = TreeAddMirrored(@, symbol)]
  ELSE [node EXCEPT !.right = TreeAddMirrored(@, symbol)]

\* Tree>>add: and Node>>add:
RECURSIVE TreeAdd(_, _)
TreeAdd(node, symbol) ==
  IF node = nil THEN newNode(symbol)
  ELSE IF Less(node.value, symbol)
  THEN [node EXCEPT !.right = TreeAdd(@, symbol)]
  ELSE [node EXCEPT !.left = TreeAdd(@, symbol)]

\* Tree>>at:ifAbsent: and Node>>at:ifAbsent:
RECURSIVE TreeHas(_, _)
TreeHas(node, symbol) ==
  CASE node = nil -> FALSE
    [] node # nil /\ node.value = symbol -> TRUE
    [] OTHER -> TreeHas(IF Less(node.value, symbol) THEN node.right
                        ELSE node.left, symbol)

\* Symbol class>>new:
Interned(tree, symbol) ==
  IF TreeHas(tree, symbol) THEN tree ELSE TreeAdd(tree, symbol)

\* Dictionary>>at:put:
AtPut(dict, key, value) ==
  LET position == Location(dict.keys, key) IN
    IF position <= Len(dict.keys) /\ dict.keys[position] = key
    THEN [dict EXCEPT !.values[position] = value]
    ELSE [keys |-> InsertAt(dict.keys, position, key),
          values |-> InsertAt(dict.values, position, value)]

\* dictLookup(): strsymcomp() is symbolcomp() of a C string.
dictLookup(dict, name) ==
  LET mid == Search(dict.keys, name) IN
    IF mid = nil THEN nil ELSE Element(dict.values, mid)

-----------------------------------------------------------------------------
(***************************************************************************)
(* Before the first line.                                                  *)
(***************************************************************************)
newSymbol(known, name) ==
  IF name \in ToSet(known) THEN known ELSE Append(known, name)
newSymbols(known, list) == FoldLeft(newSymbol, known, list)

\* lookupGlobalName() finds it.
Known(name) == name \in ToSet(globals)

\* addGlobalName() of the last of them ends the program.
TooMany(list) == Len(list) >= MAX_GLOBALS

newClass(numVars) ==
  [class |-> nil, parent |-> nil, size |-> nil, variables |-> <<>>,
   methods |-> nil, words |-> ClassSize + numVars]

bigBang ==
  [name \in {Premade[i][1] : i \in DOMAIN Premade} |->
     LET new == newClass(Premade[CHOOSE i \in DOMAIN Premade :
                                   Premade[i][1] = name][2])
     IN  CASE name = Object ->
                [new EXCEPT !.class = MetaName(Object), !.methods = Empty,
                            !.size = 0]
           [] name = MetaName(Object) -> [new EXCEPT !.parent = Class]
           [] name = Class -> [new EXCEPT !.class = MetaName(Class), !.size = 0]
           [] OTHER -> new]

Init ==
  /\ phase = "reading"
  /\ source \in Sources
  /\ done = <<>>
  /\ classes = bigBang
  /\ oldSymbols = [i \in DOMAIN Premade |-> Premade[i][1]]
  /\ globals = oldSymbols \o Others
  /\ symbols = nil
  /\ names = Empty
  /\ initialMethod = nil

\* error(), parseError(), or a field of NULL
Stop ==
  /\ phase' = "stopped"
  /\ UNCHANGED <<source, done, classes, globals, oldSymbols, symbols, names,
                 initialMethod>>

-----------------------------------------------------------------------------
(***************************************************************************)
(* The lines of the source.                                                *)
(***************************************************************************)

\* matchVarList() and the loop that reads the list: a list that has no space
\* before its parenthesis loses its last character.
VarList(list) ==
  IF list.spaced \/ list.names = <<>> THEN list.names
  ELSE Front(list.names) \o
       (IF Len(Last(list.names)) = 1 THEN <<>> ELSE <<Front(Last(list.names))>>)

\* object->class of what a name stands for
ClassOf(name) == IF name = NilName THEN Undefined ELSE classes[name].class

\* Words of a class, which newClass() gives it when its name is new
Words(name, numVars) ==
  IF Known(name) THEN classes[name].words ELSE ClassSize + numVars

\* Mutant: the variables of the superclass are not counted.
OwnInstances(super, variables) == Len(variables)

\* instsize, that of instances
InstancesOf(super, variables) ==
  Len(variables) + (IF super = NilName THEN 0 ELSE classes[super].size)

\* Mutant: as the diagram has it for the class of a metaclass.
MetaParentClass(line) == Class

\* The parent of a metaclass, of which that of Object's ends the chain
MetaParent(line) ==
  IF line.name = Object THEN Class ELSE ClassOf(line.super)

\* The metaclass and the class that ClassCommand() fills in
Declared(line) ==
  LET vars_ == VarList(line.variables)
      classVars == VarList(line.classVariables)
  IN
  [name \in {MetaName(line.name), line.name} |->
     IF name = line.name
     THEN [class |-> MetaName(name),
           parent |-> IF line.super = NilName THEN nil ELSE line.super,
           size |-> InstancesOf(line.super, vars_),
           variables |-> vars_, methods |-> Empty,
           words |-> Words(name, Len(classVars))]
     ELSE [class |-> Class, parent |-> MetaParent(line),
           size |-> ClassSize + Len(classVars),
           variables |-> classVars, methods |-> Empty,
           words |-> Words(name, 0)]]

\* The symbols it makes, in the order in which it makes them
SymbolsOfClass(line) ==
  <<MetaName(line.name)>> \o VarList(line.classVariables) \o <<line.name>> \o
  VarList(line.variables)

\* ClassCommand(): the superclass must have a class of its own already.
ClassCommand(line) ==
  LET new == SelectSeq(<<MetaName(line.name), line.name>>,
                       LAMBDA name : ~Known(name))
  IN
  /\ line.command = "class"
  /\ IF \/ ~Known(line.super)
        \/ ClassOf(line.super) = nil
        \/ new # <<>> /\ TooMany(globals \o new)
     THEN Stop
     ELSE /\ classes' = Declared(line) @@ classes
          /\ globals' = globals \o new
          /\ oldSymbols' = newSymbols(oldSymbols, SymbolsOfClass(line))
          /\ done' = Append(done, line)
          /\ UNCHANGED <<phase, source, symbols, names, initialMethod>>

\* The class that a line gives a method to: currentClass
CurrentClass(line) ==
  IF line.meta THEN classes[line.class].class ELSE line.class

\* ClassMethodCommand(), InstanceMethodCommand() and MethodCommand(), with a
\* text that compiles.  methods is nil in a class that no line has declared.
MethodCommand(line) ==
  /\ line.command = "method"
  /\ IF \/ line.class \notin DOMAIN classes
        \/ CurrentClass(line) = nil
        \/ ~Known(Method)
        \/ classes[CurrentClass(line)].methods = nil
        \/ line.selector \in ToSet(classes[CurrentClass(line)].methods.keys)
     THEN Stop
     ELSE /\ classes' =
               [classes EXCEPT ![CurrentClass(line)].methods =
                  dictionaryInsert(@, line.selector, line.method)]
          /\ oldSymbols' =
               newSymbols(oldSymbols, <<line.selector>> \o line.uses)
          /\ done' = Append(done, line)
          /\ UNCHANGED <<phase, source, globals, symbols, names, initialMethod>>

ReadLine ==
  /\ phase = "reading"
  /\ Len(done) < Len(source)
  /\ \/ ClassCommand(source[Len(done) + 1])
     \/ MethodCommand(source[Len(done) + 1])

fixSymbols(known) == FoldLeft(symbolTreeInsert, nil, known)

checkGlobals == \A name \in DOMAIN classes : classes[name].class # nil

\* What a global name stands for in the image: for a class and the others the
\* object of that name, which is how the model names it.
fixGlobals(list) ==
  dictionaryInsert(
    FoldLeft(LAMBDA dict, name : dictionaryInsert(dict, name, name), Empty,
             SelectSeq(list, LAMBDA name : ~IsPrefix(Meta, name))),
    Smalltalk, Smalltalk)

\* The rest of main().  The symbols of the globals that fixGlobals() is the
\* first to name come after the tree and are not in it.
Finish ==
  LET list == Append(globals, specialSymbols)
      known == newSymbols(oldSymbols, Specials)
  IN
  /\ phase = "reading"
  /\ Len(done) = Len(source)
  /\ IF TooMany(list) \/ ~Known(Node) \/ ~checkGlobals
     THEN Stop
     ELSE /\ phase' = "built"
          /\ globals' = list
          /\ symbols' = fixSymbols(known)
          /\ names' = fixGlobals(list)
          /\ oldSymbols' = newSymbols(known, Append(list, Smalltalk))
          /\ UNCHANGED <<source, done, classes, initialMethod>>

-----------------------------------------------------------------------------
(***************************************************************************)
(* In the VM and in the image.                                             *)
(***************************************************************************)

\* find_initial_method(), when the image is started, and started again after
\* it was saved
Boot ==
  LET class == IF dictLookup(names, WebIDE) # nil THEN WebIDE
               ELSE dictLookup(names, REPL)
      found == IF class = nil THEN nil
               ELSE dictLookup(classes[class].methods, start)
  IN
  /\ phase \in {"built", "running"}
  /\ IF found = nil THEN Stop
     ELSE /\ phase' = "running"
          /\ initialMethod' = found
          /\ UNCHANGED <<source, done, classes, globals, oldSymbols, symbols,
                         names>>

\* Class>>name:parent:variables:, to an object of a class and so many words
Characterised(class, words, parent, variables) ==
  [class |-> class, words |-> words, parent |-> parent, variables |-> variables,
   size |-> Len(variables) + classes[parent].size, methods |-> Empty]

\* Class>>subclass:variables:classVariables:.  A class that the image makes has
\* words for the class variables of its superclass.  The name is a new one, for
\* two classes of a name would be two objects.
Subclass(change) ==
  LET metaName == MetaName(change.name)
      meta == Characterised(Class, classes[Class].size,
                            classes[change.super].class,
                            change.classVariables.names)
  IN
  /\ change.command = "class"
  /\ change.name \notin DOMAIN classes
  /\ classes' = (change.name :> Characterised(metaName, meta.size, change.super,
                                             change.variables.names)) @@
                (metaName :> meta) @@ classes
  /\ names' = AtPut(names, change.name, change.name)
  /\ symbols' = FoldLeft(Interned, symbols,
                         <<change.name>> \o change.variables.names \o
                         change.classVariables.names \o <<metaName>>)

\* Class>>addMethod:
AddMethod(change) ==
  /\ change.command = "method"
  /\ change.class \in DOMAIN classes
  /\ classes' = [classes EXCEPT ![CurrentClass(change)].methods =
                   AtPut(@, change.selector, change.method)]
  /\ symbols' = FoldLeft(Interned, symbols, <<change.selector>> \o change.uses)
  /\ UNCHANGED names

Change(change) ==
  /\ phase = "running"
  /\ change \notin ToSet(done)
  /\ Subclass(change) \/ AddMethod(change)
  /\ done' = Append(done, change)
  /\ UNCHANGED <<phase, source, globals, oldSymbols, initialMethod>>

Next ==
  \/ ReadLine
  \/ Finish
  \/ Boot
  \/ \E change \in Changes : Change(change)

Spec == Init /\ [][Next]_vars

-----------------------------------------------------------------------------
(***************************************************************************)
(* What the lines and the changes say, whatever became of them.            *)
(***************************************************************************)
Made == phase \in {"built", "running"}

Lines(command) == {i \in DOMAIN done : done[i].command = command}
Latest(I) == CHOOSE i \in I : \A j \in I : j <= i

Named == {done[i].name : i \in Lines("class")}
DeclarationOf(name) == done[Latest({i \in Lines("class") : done[i].name = name})]

\* One side of a class, that of its instances or its own, and those it inherits
\* from, nearest first
RECURSIVE Lineage(_)
Lineage(side) ==
  LET super == DeclarationOf(side.class).super IN
    <<side>> \o
    (CASE super # NilName -> Lineage([side EXCEPT !.class = super])
       [] super = NilName /\ side.meta -> Lineage([class |-> Class, meta |-> FALSE])
       [] OTHER -> <<>>)

\* The last method that was given to one side of a class
Given(side, selector) ==
  LET I == {i \in Lines("method") :
              /\ done[i].class = side.class /\ done[i].meta = side.meta
              /\ done[i].selector = selector}
  IN  IF I = {} THEN nil ELSE done[Latest(I)].method

\* That of the nearest of its superclasses which has one
Meant(side, selector) ==
  LET holds(s) == Given(s, selector) # nil
      found == SelectSeq(Lineage(side), holds)
  IN  IF found = <<>> THEN nil ELSE Given(found[1], selector)

Sides == [class : Named, meta : BOOLEAN]
Behaviour(side) ==
  IF side.meta THEN classes[side.class].class ELSE side.class

Selectors == {done[i].selector : i \in Lines("method")}

\* The symbols that declarations and methods name
SymbolsNamed ==
  UNION {IF done[i].command = "class"
         THEN {done[i].name} \cup ToSet(done[i].variables.names)
                \cup ToSet(done[i].classVariables.names)
         ELSE {done[i].selector} \cup ToSet(done[i].uses) : i \in DOMAIN done}

\* Class>>instanceVariables, those of the superclasses first
RECURSIVE instanceVariables(_)
instanceVariables(class) ==
  IF class = nil THEN <<>>
  ELSE instanceVariables(classes[class].parent) \o classes[class].variables

\* lookupInstance(), from 0
lookupInstance(class, name) ==
  LET list == instanceVariables(class) IN
    Latest({0} \cup {i \in DOMAIN list : list[i] = name}) - 1

VariablesOf(side) ==
  LET d == DeclarationOf(side.class) IN
    IF side.meta THEN d.classVariables.names ELSE d.variables.names

-----------------------------------------------------------------------------
\* In every image that is built, and after any changes in it, each message to
\* an instance of a class, or to the class, finds the method that was last given
\* to the nearest of its superclasses: the order in which the bootstrap and
\* lst.st insert selectors is the one in which the VM searches them, and the
\* metaclasses are chained as the classes are, up to Class and Object.
MessagesFound ==
  Made =>
    \A side \in Sides, selector \in Selectors :
      lookupMethod([c \in DOMAIN classes |-> classes[c].methods],
                   [c \in DOMAIN classes |-> classes[c].parent],
                   selector, Behaviour(side)) = Meant(side, selector)

\* The VM finds every class, object and start-up method by its name, whoever
\* put it there, and nothing under a name that was not declared.
NamesFound ==
  Made =>
    /\ \A name \in Named \cup ToSet(Others) \cup {specialSymbols, Smalltalk} :
         dictLookup(names, name) = name
    /\ \A name \in {WebIDE, REPL} \ Named : dictLookup(names, name) = nil
    /\ phase = "running" =>
         \E name \in {WebIDE, REPL} \cap Named :
           initialMethod \in {done[i].method : i \in
             {j \in Lines("method") : /\ done[j].class = name /\ ~done[j].meta
                                      /\ done[j].selector = start}}

\* Every symbol that a declaration or a method names is the one in the tree, so
\* that Symbol new: never makes a second one, which lookupMethod(), comparing
\* addresses, would take for another.
SymbolsFound == Made => \A s \in SymbolsNamed : TreeHas(symbols, s)

\* The compilers give a variable, inherited ones included, the same place in
\* every subclass, and there is a word there in every instance; the one instance
\* of a metaclass, which has the class variables, is its class.
VariablesFit ==
  Made =>
    \A side \in Sides :
      \A above \in ToSet(Lineage(side)) : \A name \in ToSet(VariablesOf(above)) :
        /\ lookupInstance(Behaviour(side), name) \in
             0..((IF side.meta THEN classes[side.class].words
                  ELSE classes[side.class].size) - 1)
        /\ lookupInstance(Behaviour(side), name) =
             lookupInstance(Behaviour(above), name)
=============================================================================
