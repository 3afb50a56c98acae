# A TLA+ model of the Little Smalltalk virtual machine

This directory holds TLA+ modules that model Little Smalltalk 4.7: the virtual
machine (`src/vm/`), the program that makes the first image
(`src/bootstrap/bootstrap.c`) and the parts of the system library
(`src/smalltalk/system/lst.st`) that work hand in hand with either, the TLC
configurations that check them on small instances, and proofs, checked by
TLAPS, of theorems about them for every value of their constants.
`PROJECT.json` lists the components, runs, mutants, theorems, hazards and the
lines of code that each definition models. Paths below are relative to the
repository.

1. [The system](#1-the-system)
2. [The modules](#2-the-modules)
3. [The runs](#3-the-runs)
4. [The proofs](#4-the-proofs)
5. [Where code and documentation differ](#5-where-code-and-documentation-differ)
6. [What is not modelled](#6-what-is-not-modelled)
7. [Plan](#7-plan)

## 1. The system

Little Smalltalk is a bytecode interpreter in C with a copying collector, an
image of Smalltalk objects that it runs, and a bootstrap program that makes the
first image from Smalltalk text. The process has one thread; Smalltalk
processes are objects that `execute()` runs one inside the other, by calling
itself. All the components share one memory: an object is a header, a class
word and fields or bytes, and a word is a SmallInt (low bit set) or an
address.

| Component | State | Operations | Interacts with |
|---|---|---|---|
| Garbage collector, `memory.c` 120-340 | two spaces, `memoryPointer`, headers of the old objects | `do_gc`, `gc_move`, `gcollect` | called by every allocation; moves every object; updates `rootStack` and `staticRoots`; flushes the method cache |
| Allocator, roots, identity exchange, `memory.c` | `memoryBase`, `memoryTop`, `rootStack`, `staticRoots` | `gcinit`, `gcalloc`, `gcialloc`, `addStaticRoot`, `exchangeObjects` | all who allocate; primitive 35 |
| Interpreter, `interp.c` 285-1300 | the C locals of `execute()`, contexts, processes and stacks in the heap | opcodes, specials, primitives 1 to 40, `execute()` in itself (primitive 6) | allocator (12 places), lookup, `primitive()` |
| Method lookup and cache, `interp.c` 44-208, 509-538 | 703 entries: selector, class, method | `lookupMethod`, `symbolcomp`, `flushCache` | the dictionaries that `Class>>addMethod:` changes; collector; `become:` |
| Numbers, `interp.c`, `prim.c` 611-675 | SmallInts in words, Integers of 64 bits in byte objects | primitives 10 to 16, 25 to 33, 36, 37, 39, 40; SendBinary | `SmallInt`, `Integer` and `Number` of `lst.st` convert and retry |
| Block moves of arrays, `interp.c` 210-286 | the arrays | `bulkReplace`, primitive 38 | the loop of `replaceFrom:to:with:startingAt:` |
| Files, `prim.c` 78-306 | `filePointers`, 200 entries | primitives 100 to 108 | class `File`, whose `fileID` is saved in images |
| Image file, `image.c` | `indirArray`, the file | `fileOut`, `fileIn` and the recursions `objectWrite`, `objectRead` | start-up, primitive 104, image builder |
| Bootstrap compiler, `bootstrap.c` 840-1735 | globals of C: the names in scope, the code, `superMessage`, `blockbackup` | one parsing function per construct of the language | image builder; the code is what the interpreter runs |
| Image builder, rest of `bootstrap.c` | names, symbols, classes, the tree of symbols | `bigBang`, the commands of a source, `fixSymbols`, `fixGlobals`, `checkGlobals` | bootstrap compiler; image file; `addMethod:` and `subclass:` continue its work in the image |
| Image compiler, `lst.st` | a `Parser`, a tree of `ParserNode`s, an `Encoder` | `parse:with:`, `compile:block:`, `genCode:` | `addMethod:`; the interpreter, which trusts its stack sizes |
| Other primitives, `prim.c` | none of their own | editor, strings, time, log, command line, TCP sockets | operating system, allocator |
| Start-up, `main.c` | the first process | `main`, `find_initial_method` | image, allocator, `execute()` |
| Errors, `err.c` | none | `error`, `info`, back traces | all |
| System library, rest of `lst.st` | the image | some 50 classes | primitives |
| Web IDE, browser, tests, VSTa | the image | Smalltalk programs | library |

What is hard in it, and what must hold all the same:

- **Collection.** `gc_move()` has neither stack nor marks of its own: the way
  back is threaded through words of the copies that are not filled in yet, and
  the forwarding address is in a word that moves as the size is counted down.
  A collection must give back the same graph at new addresses, exactly what
  was reachable, within a space of the same size, whatever the graph is.
- **One memory for all.** Whoever uses the memory sees objects and not
  addresses: whatever is allocated, collected and exchanged, an object that can
  be reached keeps its contents, and `become:` replaces every reference and no
  other.
- **Addresses held across an allocation.** Each of the places in `execute()`
  that allocate roots and reloads, by hand, the locals it believes it needs.
  No local that names the old space may be used; results may not depend on
  whether an allocation collected.
- **Processes.** A process runs out of ticks before any bytecode, stops at an
  error trap or a breakpoint, and is resumed from what it has saved in its
  context. Tail calls and returns from blocks rearrange who is returned to. A
  program must compute the same however it is sliced.
- **Two compilers.** A method is compiled by C when the first image is made and
  by Smalltalk afterwards. Both must emit code that does what the text says,
  with names in scope, blocks, loops without blocks and messages to super, and
  that stays within the stack of its context, which nobody checks.
- **One order of symbols.** Dictionaries and the tree of symbols are written by
  the bootstrap and by the image and searched by the VM and by the image, with
  four comparisons written in two languages.
- **Cached state.** The locals of `execute()` that shadow the context, the
  method cache that names objects by addresses, dictionaries that change in
  two steps while messages are looked up in them.
- **Failure.** A primitive fails after it has popped its arguments; a file
  does not open; an image is cut short or is started by another process; a
  source declares what an earlier line needed.
- **Limits.** SmallInts of 31 bits in 32-bit arithmetic, Integers of 64 bits,
  shifts, array bounds, tags whose length depends on their value, tables of 200
  files, 703 cache entries, 2000 roots or 250 globals, a stack of 19 words.

The list `hazards` of `PROJECT.json` has each of these at its line.

## 2. The modules

| Module | Models | TLA+ state | Code state |
|---|---|---|---|
| `GcMove` | one collection: `gcollect()`, `do_gc()`, `gc_move()` | `oldSize`, `gcdone`, `oldData`; `newHdr`, `newData`, `memoryPointer`; `oldAddress`, `previousObject`, `replacement`; `roots`, `root`; `cache` | headers (size and `FLAG_GCDONE`) and words of the old space; the new space; the locals; `rootStack` with `staticRoots`, loop counter; addresses in the method cache |
| `ObjectGraph` | what `memory.c` promises | `objects`, `rootStack`, `globals`, `fresh`, `born` | the objects by identity; the roots; what the caller has just been given; number of allocations |
| `ObjectMemory` | `memory.c` as its callers use it | `inSpaceOne`, `memoryPointer`, `heap`; `rootStack`, `staticRoots`, `global`; `fresh`, `stopped`; `id`, `born` | which space is in use, the objects at their addresses; the roots, and the C variables that may be registered; what the C code has just been given, whether `error()` has ended it |
| `Interp` | `execute()` | `reg`, `pc`, `heap`, `rootStack`, `frames`, `status`; `stale`, `gcs`, `misused` | locals of the innermost activation; where it is; objects; activations suspended in primitive 6; last return value; which locals hold an old address |
| `SourceText` | the tokens of a method | none | the text that both compilers read |
| `BootstrapCompiler` | parser and code generator of `bootstrap.c` | none: a record that each function takes and returns | the C globals of the parser |
| `ImageCompiler` | `Parser`, `ParserNode`s, `Encoder` | none: records | instance variables of a `Parser` and an `Encoder` |
| `CompiledCode` | a method that was compiled and is run | `source`, `method`, `entry`; `ip`, `stack`, `over`; `trace`, `tests`, `depths` | what is compiled and what the compiler made; instruction pointer and stack of the context; what the method has done |
| `SymbolOrder` | the comparisons and searches of symbols, `lookupMethod()`, `dictionaryInsert()` | none | arrays of keys and values |
| `MethodLookup` | the cache, `addMethod:`, `become:` | `methods`, `cache`, `address`, `adding` | `methodsInClass` of each class, `cache[]`, where symbols and classes are, the call of `addMethod:` in progress |
| `ImageBuilder` | `bigBang()`, the commands of a source, the end of `main()` of `bootstrap.c`; `find_initial_method()`; `subclass:` and `addMethod:` in the image | `phase`, `source`, `done`; `globals`, `oldSymbols`; `classes`, `symbols`, `names`, `initialMethod` | how much of the source is read; the tables of `bootstrap.c`, then the objects of the image |
| `Numbers` | arithmetic of SmallInt and Integer | `acc`, `running` | a number held by a program |
| `BulkReplace` | primitive 38 and its fallback | `data` | the arrays |
| `FileTable` | primitives 100 to 108, class `File` | `filePointers`, `streams`, `closed`, `position`, `fileID`, `image`, `starts` | `filePointers[]`, the FILEs of the C library, the Files in memory and in the image on disk |
| `ImageFile` | version 3 of `fileOut()` and `fileIn()` | `file`, `lost`, `todo`, `written`, `at`, `slots`, `read` | the bytes, the recursion of `objectWrite()` with `indirArray`, the position, the recursion of `objectRead()` with `indirArray` |

`GcMoveProofs`, `ObjectMemoryProofs`, `InterpProofs`, `FileProofs` (of
`FileTable` and of `ImageFile`), `MethodLookupProofs` (which has the theorems about `SymbolOrder` too),
`NumbersProofs` and `BulkReplaceProofs` extend the modules they prove about;
`FiniteRecursion` has the lemmas on induction, recursion and sums that several of
them need. Each `MC...` module gives the constants of
the module it is named after their values for TLC. Definitions marked `Mutant`
are variants of a definition of the code with a plausible error, used by the
entries of `mutants` to show that a property can fail; no specification uses
them.

**GcMove** has an action per turn of the two inner loops of `gc_move()`: going
down (`DownLeaf`, `DownForwarded`, `DownBinary`, `DownOrdinary`, `DownStale`
for the error) and coming back (`UpField`, `UpClass`, `UpReturn`), between
`StartMove`, for each root, and `FlushCache` and `Allocate` at the end. Old
addresses are the elements of a set; new ones are integers, since it matters
where copies lie. `heap0`, `roots0` and `path` are history: the graph as it
was and the objects being copied.

**ObjectMemory and ObjectGraph.** `ObjectMemory` has objects at addresses, two
spaces and a collection as one step, whose inside is `GcMove`. `walk()` goes over
the space object by object, by the sizes it reads. `id` is history and gives the
object at an address its identity. `ObjectGraph` has objects
with identities and no addresses; what cannot be reached may be gone after any
step that allocates. The property `Implements` is `ObjectGraph!Spec` under the
mapping of addresses to identities: allocation, the setting of fields, roots,
and the exchange of identities have to be what `ObjectGraph` says, and a collection
a step that changes nothing. The callers are any code that keeps its side: it
sets the fields of a new object before it allocates again and holds objects
across an allocation only in roots.

**Interp** has an action per bytecode, and one per stretch between two
allocations for those that allocate, named in the order in which `execute()`
runs them (`MarkArguments`, `MarkedArguments`; `Understood`, `NewStack`,
`NewTemporaries`, `NewContext`). Objects keep their identity across a
collection; what a collection does to `execute()` is in `stale`, the locals
that still name the old space, and each action says which locals it follows or
stores (`Use`) and assigns (`Assigned`). `misused` is history and holds the stale
locals that were used. A call of `primitive()` is a table of
outcomes: fails or succeeds, and may collect. Method lookup is a constant, the
answer of `MethodLookup`.

**The compilers.** A text is a sequence of tokens. `BootstrapCompiler` is the
recursive descent of `bootstrap.c`, function by function, with its globals in a
record; `ImageCompiler` is `Parser` with the tree that it makes and the code
that each node generates. Both give bytecodes, literals, and the sizes of
stack and temporaries. While the modules were written, their bytecodes were
compared byte by byte with those of the real compilers (the one of a built
`bootstrap` and the one of an image run by a built VM) on sixteen texts.
`CompiledCode` runs such code on symbolic values and compares the record of what
it did (variables read and set, messages sent, Booleans tested, what is
returned) with what the tree of the text means. `MCInterp` composes compilers
and interpreter: its programs are texts, compiled by the bootstrap (those with
cascades by the image), run by `Interp`.

**SymbolOrder and MethodLookup.** A symbol is its bytes, since their order is
what the searches rely on. `MethodLookup` cuts `Dictionary>>at:put:` between its
two assignments; `InsertSends` are the messages it sends there, read off
`Array>>insert:at:`. `settled` and `unseen` are history.

**ImageBuilder** reads a source line by line: `ClassCommand` and
`MethodCommand` with the objects they make, the metaclass with its superclass
tied by hand at the top, sizes and variables; at the end the tree of symbols,
the globals and the checks that may stop it. `Boot` is the look-up by which the
VM finds its first method, and `Subclass`, `AddMethod` and `Change` are what is
added to the running image. A line is what it declares: its names, selectors and
the symbols that its text has.

**Numbers** has the `Width` of an int as a constant and otherwise the same
tests and conversions as the code. `Optimised` tells whether the compiler
drops tests that only an overflow of int could satisfy.

**FileTable** joins a primitive with the method of `File` that calls it, since
no other code calls either. `Start` ends the process, however it ends, and
starts another from the last image. `own` and `answer` are history.

**ImageFile** turns the two recursions into lists of what is still to be
written and where what is read still has to go. Bytes are bytes: sizes, signs
and the order of tags are what may go wrong. A field may be a word
that cannot be written, NULL or the least int, on which the writer stops. The file
may lose bytes at its end before it is read. `readTag()` is `TagAt`; the bytes of a value are added up with
their weights, four at most, since an int has no more.

The modules meet where components do. `GcMove` shows that a collection changes
nothing but addresses and flushes the cache, which is what `ObjectMemory` has
as one step, `Interp` as locals that become stale and `MethodLookup` as
`Collect`. `ObjectMemory` shows that its users may think of objects that keep
their identity, as `Interp` does. `MethodLookup` shows that a send finds the
method it means, which `Interp` takes from a constant. `MCInterp` runs what the
two compilers make. `SymbolOrder` is shared by the VM, the bootstrap and the
image.

## 3. The runs

Passing runs, with the number of distinct states TLC finds:

| Run | States | Shows | Bounds |
|---|---|---|---|
| `gc_move` | 593086 | `GraphPreserved`, `ExactlyLive`, `NoOldPointer`, `NoOverlap`, `CopiesFit`, `StaleCaught`, `ForwardingStable`, `Terminates` | three objects: one with two or three fields, one with a field or three bytes, one without; two roots; a space that the three objects fill; a word may be null, an integer, outside both spaces or an address of the new space |
| `memory` | 74869 | `Packed`, `StoppedForCause`, `Implements` | spaces of 10 words, four allocations (objects with a field and, in turn, of three bytes, which do not fill their words), one root on the stack, two interchangeable C variables of which one may be registered |
| `interp` | 15335 | `AsDenoted`, `RegistersCoherent`, `RootsBalanced`, `ResumedAfterSend`, `NoStaleUse`, `Terminates` | texts with sends, super, binary messages, loops, a return from a block through two methods, `doesNotUnderstand:`, objects, failing primitives, an error trap and a breakpoint, compiled by the bootstrap, those with cascades by the image; eight of them run whole, one as a nested process too, with a collection at any three of the allocations; seven run in slices without collections, three of these suspended once at each of their bytecodes |
| `compile` | 18747 | `DoesWhatItSays`, `StackSuffices`, `LoopsLeaveNothing` | for both compilers, methods with each kind of header, assignments (chained ones too), returns, blocks, primitives, messages to super, tests with one and two branches, loops, and loops in a branch, with expressions to a depth of two and what is nested in them; for the bootstrap alone, statements without a full stop between them; for the image compiler alone, the forms on which the bootstrap fails (section 5): cascades, a loop in the body of a loop, a loop whose value is used, `super size at: x`, `super - x`. From the start of the method and from the start of each block; five Booleans tested in a run; some compiled after another text |
| `builder` | 11659 | `MessagesFound`, `NamesFound`, `SymbolsFound`, `VariablesFit` | a source that begins as `lst.st` does, with five more lines in every order; sources that lack a class, a method or a superclass or declare too many names; five changes of the image, in any order; `MAX_GLOBALS` 20, `ClassSize` 2 |
| `files` | 17990 | `OwnStreamAtFirst` | two Files, a table of two, three calls of `fopen()`, one start; the Files are interchangeable (symmetry) |
| `lookup` | 56381 | `Searchable`, `CacheAgreesOnceFlushed`, `SendsAgree` | three classes, three symbols of which one begins another, two layouts in memory that exchange addresses, a cache of two entries |
| `numbers` | 1060 | `SmallExact`, `IntegerExact` | ints of 5 bits: all SmallInts, and Integers around the limits of the three sizes; any number of messages |
| `replace` | 192 | `AsLoop` | four arrays of one to three elements, of bytes, static and not; indices 0 to 4 |
| `image` | 396766 | `RoundTrip`, `ImageStopsForCause`, `Completes` | all graphs of three objects with three fields between them, integers of one to three bytes of either sign, some graphs with a fourth object, which is one too many, some with NULL words or the least int; up to eight bytes lost |

`gc_move`, `memory`, `interp`, `files` and `image` also check their module's
type invariant. Those of `MethodLookup` and `Numbers` are proved and no run lists
them.

What the properties of the newer runs say:

- `Implements` (`memory`): every behaviour of the words of memory is one of the
  graph of objects. A reference that an exchange misses or changes twice, a
  root that a collection forgets, an object that is overwritten by the next
  allocation, a field of a new object that is lost: each is a step that
  `ObjectGraph` does not have. `Packed` says that the sizes `walk()` reads lead it
  from object to object exactly; `StoppedForCause` that `error()` ends the
  program only when what is live and what is asked for do not fit, or the table
  of static roots is full.
- `DoesWhatItSays` (`compile`): the code reads and sets the variables that the
  text names, sends its messages to the receivers with the arguments that it
  says, in that order, takes the branches that the tests say, and returns the
  same value. `StackSuffices`: it never needs more of the stack than its method
  gets. `LoopsLeaveNothing`: a loop that is compiled in line is as deep on the
  stack each time round (the first `PushBlock` of `[..] whileTrue:` stays in the
  code of the bootstrap: one word for each time the loop is begun, not for each
  time round).
- `MessagesFound` (`builder`): once an image is built, and after each change,
  every message that the text of the source declares for a class or a metaclass
  is found by the search of the VM at the nearest class that has it, class
  messages as far as Class and Object. `NamesFound`: each class is found in the
  globals under its name by VM and image. `SymbolsFound`: what the tree of
  symbols is asked for is the object that the dictionaries have. `VariablesFit`:
  the variables of an object have words of their own within its size.

Why these bounds are enough for the questions asked:

- In `gc_move()` an object is treated by what it is (binary or not, empty or
  not, moved or not), and what it points to by the same. Three objects give
  every combination of an object, the one it is reached from and one reached
  a second way, cycles of length one to three, sharing, and garbage. Fields
  that are null are skipped in runs, which three fields show. What three
  objects cannot show is left to the proofs.
- In ten words two objects and part of a third fit: the third and the fourth
  allocation collect or stop, depending on what is live, with an exchange
  before or after. Both spaces are used.
- The programs of `MCInterp` are compiled, so the tail calls, loops and blocks
  are the ones that compilers make. A local is made stale by one collection and
  used after it; a second and a third one can come between.
- The texts of `MCCompiledCode` put every kind of term in every place in which
  the grammar allows one (receiver, argument, statement, body of a block that
  is compiled in line or not, the last and not the last), since what goes wrong
  is what one place leaves behind for the next.
- In `MCImageBuilder` five lines in every order put a class before and after its
  superclass, its methods and its uses; selectors and names that begin alike
  make the order of symbols matter, in dictionaries of up to four keys.
- With a cache of two entries every pair of symbols and classes collides.
- At 5 bits the products of two SmallInts fall into each of the three cases:
  those that fit a SmallInt, an int, or only an Integer.
- `BulkReplace` compares indices with sizes only; 0 to one past the longest
  array is every outcome of the comparisons.
- Tags change with the size of a value: the integers lie on both sides of the
  limits 15 and 127 and above 32767, and the numbers of objects fit the tag
  itself. Eight bytes are more than the longest tag or the bytes of an object,
  so that a cut may fall within either and between any two.

Bounds in guards: `MaxCollections` and `SlicedCollections` (`MCInterp`),
`MaxObjects` and `MaxRoots` (`ObjectMemory`), `MaxTests` (`CompiledCode`),
`MaxStreams` and `MaxStarts` (`FileTable`); `MaxDepth` bounds only the chain that
`ResumedAfterSend` looks at. `Sources` and `Changes` bound `ImageBuilder`.
Deadlock is not checked where the system stops of itself: a collection, a
program, a compilation, an image and its reader end; a bootstrap, a VM without
table entries or memory, or after a trap, has exited; the callers of the memory
and the users of numbers may have nothing left to do.

**Fairness.** `GcMove`, `Interp` and `ImageFile` assume weak fairness of
`Next`, and nothing else. One C function that runs to its end is modelled in
each: the process has one thread, none of the loops waits for anything, and no
signal handler is installed. Liveness is then a matter of termination:
`gc_move()` ends on cyclic graphs, a process sliced again and again comes to
its end, the reader of a damaged file ends. The other modules state no
liveness and assume no fairness: who calls them is under no obligation to. That
the searches by halves end is part of the theorems about them.

Two runs, `interp_unknown` and `compile_shadowed`, are expected to be violated,
see section 5.

## 4. The proofs

Assumptions are those named in the modules, and TLC evaluates each of them on
the constants of the runs:

- `GcMove`: words of the different kinds are different, addresses of the new
  space are integers within it, and the objects of the old space, of which
  there are finitely many, fitted in it side by side (`InitAssumption`);
- `ObjectMemory`: shapes are sizes with the flag for bytes, and plain words are no
  addresses (`MemoryAssumption`);
- `Interp`: a program starts with finitely many objects at even addresses above
  0 (`InterpAssumption`): no class, context or code has to be well-formed;
- `FileTable`: the table has an entry;
- `ImageFile`: an int has 32 bits or fewer; objects are no integers; an object has a
  class, and bytes or fields that are objects, NULL or ints; its size and the limit of
  objects are ints; globals has fields (`ImageAssumption`);
- `SymbolOrder` and `MethodLookup`: `nil` is no number, symbols are byte strings,
  the dictionaries of the image that is started are in order, no two objects
  have one address and none has 0 (`LookupAssumption`);
- `Numbers`: an int has two bits or more, the literals are numbers and the messages
  those of the module;
- `BulkReplace`: arrays hold integers, and no array is a SmallInt.

The heaps, roots, graphs, sizes, numbers of objects, programs, symbols, classes,
dictionaries, layouts of memory, widths and indices are arbitrary.

| Theorem | For every value of the constants |
|---|---|
| `GcMoveProofs!Invariance` | the inductive invariant of a collection |
| `GcMoveProofs!TypeCorrectness` | `TypeOK`: `gc_move()` backs up only through old objects and carries no old address up |
| `GcMoveProofs!GraphPreservation` | `GraphPreserved`: every root and word of a copy is the image of what it was, no two objects become one |
| `GcMoveProofs!Exactness` | `ExactlyLive`: what is copied is what is reachable |
| `GcMoveProofs!StaleDetection` | `StaleCaught`: the "GC invariant failure" occurs exactly when a live word names the new space |
| `GcMoveProofs!CopiesApart` | `NoOverlap`: copies do not overlap and the next allocation overwrites none |
| `GcMoveProofs!ForwardingKept` | `ForwardingStable`: the forwarding address of an object says to the end where it has gone |
| `GcMoveProofs!CopiesInSpace` | `CopiesFit`: `memoryPointer` does not pass the start of the space, which `gc_move()` does not test |
| `GcMoveProofs!NothingOld` | `NoOldPointer`: when it is over, no root and no word of a copy is an address of the old space |
| `ObjectMemoryProofs!Invariant`, `TypeCorrectness` | the inductive invariant of the memory; `TypeOK`: nothing dangles |
| `ObjectMemoryProofs!SpacePacked` | `Packed`: the objects fill the space from `memoryPointer` to `memoryTop` |
| `ObjectMemoryProofs!StopsForCause` | `StoppedForCause` |
| `ObjectMemoryProofs!MemoryImplementsGraph` | `Implements`: `ObjectMemory` implements `ObjectGraph` |
| `InterpProofs!RootsAreLevel` | at the top of the loop of `execute()` `rootStack` holds two words for each activation |
| `InterpProofs!RootsAreBalanced` | `RootsBalanced`, if every process that is run is one (`ProgramOK`) |
| `InterpProofs!FewLocalsStale` | of the locals left behind by a collection only `returnedValue` is used, if none occurs in the allocation for `doesNotUnderstand:` |
| `InterpProofs!CachedRegisters` | `RegistersCoherent`, if no step overwrites what is cached (`ContextKept`) and no method jumps back over a primitive of its own (`ProgramOK`, `JumpsOK`) |
| `FileProofs!FilesTypeCorrectness` | `TypeOK` of `FileTable` |
| `FileProofs!OwnStreams` | `OwnStreamAtFirst`: a File works only on the stream it opened and has not closed, until an image is started again |
| `FileProofs!TagRead` | `readTag()` answers the type and value that `writeTag()` was given, for each of 31 bits, or the end of the file |
| `FileProofs!ImageInvariance` | the inductive invariant of `ImageFile`: the reader is where the writer was |
| `FileProofs!ImageTypeCorrectness` | `ImageTypeOK` |
| `FileProofs!LoadedAsWritten` | `RoundTrip`: an image that loads is the graph that was written, wherever the file was cut |
| `FileProofs!ImagesStopForCause` | `ImageStopsForCause`, for heaps with NULL words and the least int too |
| `MethodLookupProofs!OneOrder`, `Transitive` | the comparisons of the VM, the bootstrap and the image are one strict total order |
| `MethodLookupProofs!SearchFinds` | in any sorted keys the search of `lookupMethod()` ends and finds a symbol exactly when it is there |
| `MethodLookupProofs!LocationSplits`, `InsertionSorts` | `location:` answers where a symbol belongs, and an insertion there leaves the keys sorted |
| `MethodLookupProofs!BootstrapInserts` | `dictionaryInsert()` makes what the image would have made, and the VM finds in it the new value and each of the old ones |
| `MethodLookupProofs!LookupDenotes` | `lookupMethod()` finds what a message means, by any chain of classes |
| `MethodLookupProofs!Invariance` | the inductive invariant of `MethodLookup` |
| `MethodLookupProofs!StaysSearchable` | `Searchable` |
| `MethodLookupProofs!CacheAgreement` | `CacheAgreesOnceFlushed` |
| `MethodLookupProofs!SendsFindWhatTheyMean` | `SendsAgree` |
| `MethodLookupProofs!LookupTypeCorrectness` | `TypeOK` of `MethodLookup` |
| `NumbersProofs!TypeCorrectness` | `TypeOK`: a SmallInt that is computed is an int, an Integer has its width |
| `NumbersProofs!SmallNumbersExact` | `SmallExact`, unless the compiler drops the tests for an overflow |
| `NumbersProofs!IntegersModulo` | `IntegerExact` |
| `BulkReplaceProofs!MoveIsLoop` | `AsLoop`: whatever `bulkReplace()` does not refuse leaves in the array what the loop leaves, but for moves within an array towards its end |

**The collector.** The properties speak of the moment at which `do_gc()`
returns, and say nothing of the states in between, in which the old and the
new space each hold part of every object on the way. `IInv` says what holds
there. `InvOld`: an object not yet moved is as it was, and in one that is
moved, the words below the forwarding address are. `InvCopy`: above it, the words of
the copy are final. `InvPath`: the objects that are incomplete form a path,
each reached from the word of the one before that is being filled in, and that
word of the copy holds the way back. `InvReg`: the locals are about the last
of them. `InvRoots` says the same of roots, `InvNew` that copies lie above
`memoryPointer`, and `InvLive` that what has been moved belongs to every closed set,
hence is reachable. When the path is empty and the roots are done,
`GraphPreserved` is `InvCopy` and `InvRoots`; the moved objects are then themselves
a closed set, which with `InvLive` is `ExactlyLive` and, with the case of an
address of the new space, `StaleCaught`. There is one lemma per action; the
two actions that allocate share `CopyInv`. Types and the distance between
copies are proved beside `IInv`, which they need. Two more invariants rest on
it. `Room`: `memoryPointer` is the top of the space less the words of what has been
moved, a sum over a set of objects; since all objects together fitted
(`FitsSpace`), so does any part of them, and this is why the missing
comparison does no harm. `Origin`: the new space holds copies of what has been
moved, and the object just asked for, and nothing else; by `InvCopy` the words of
a copy are final once the path is empty, so that nothing names the old space.

**The memory.** `IInv` of `ObjectMemoryProofs` has a heap in which every word is
plain or the address of an object (`IsHeap`), no two objects have one identity,
and the objects fill the space (`Fills`: none overlaps another, each ends where
another begins or at the top, and by going from one to the next from
`memoryPointer` `walk()` comes to all of them). The heap is a parameter of these, so that one lemma serves the
space in use, the space that a collection has filled (`CollectedIsHeap`,
`CollectedFills`) and the heap with a new object (`ExtendedIsHeap`).
`StopsForCause` needs the sum of the sizes of what is live: `Placement` says that
the copies take no more than this, in whatever order they are made.

**What the memory implements.** `GraphOf` takes a heap and its identities to the
graph. `MemoryImplementsGraph` has a lemma for each action: the steps on roots
and fields are the same step of `ObjectGraph` by the names of words
(`NamesApart`: different words have different names); an allocation is `New`,
with or without a collection before it; a collection alone changes no
identity and may only drop what cannot be reached (`CollectedGraph`,
`ReachableIs`: what is reachable by address is what is reachable by identity);
and the exchange of identities, which goes over the space by `walk()`, meets every
object there is because of `AllWalked`.

**The interpreter.** A program may write into contexts and methods, so that next
to nothing can be assumed of the heap; what the theorems say of `execute()` holds
of its own variables for every program. `Level` says how many words are pushed
beyond the level of the loop at each `pc` (`LevelAt`), and that everything below is
untouched: a step of `Interp` is first shown to be one that pushes, pops, calls
or returns (`Moves`). `Waiting` follows each context that an outer activation has
left on `rootStack`, through collections that move it; its theorem has one
hypothesis, `ProgramOK`, that what a process runs is a context and that primitive
6 is given a process. It is a conjunct of the type invariant that the run
`interp` checks. `Fresh` has, for each `pc`, the locals that a collection may
have left behind there (`stale`), and that the code between reloads those it
uses. It does not at two places, and both are real: the allocation for
`doesNotUnderstand:` (the finding at interp.c:527) and a suspension, which stores
`returnedValue` (interp.c:328-330, `MCInterpInterrupted`). `FewLocalsStale` says
that there is no third: if no collection occurs in the first (`Unmoved`), nothing
but `returnedValue` is used. `NoStaleUse` is not proved, as it is not true of
every program.

What `execute()` has cached of its context is the context's own (`Coherent`) at
each `pc` at which the bytecode still works on it: at the top of the loop, and
while a block, the arguments of a message or those of a primitive are
allocated, with the context on `rootStack`. A step on which the context remains
caches only what it has read there (`Remains`, `CachedFrom`), a step to another
loads all of that one (`LoadedFrom`), and the new context has the words that
the registers are given (`CoherentOnContext`). The code checks nothing of this,
so that two things have to be asked of a program. `ContextKept`: no step writes
into the method, the arguments, the temporaries or the stack of the context
that runs (as an assignment in a method of Context, or primitive 5, could), nor into
its method or the receiver in its arguments. `JumpsOK`: a method that has gone
on after a failed primitive does not jump back to before it, as
`RegistersCoherent` leaves out of account the arguments and temporaries of a
method only once a primitive of it has failed, and only the bytes before
`bytePointer` tell. `JumpsOK` is a conjunct of `TypeOK`, which the run `interp` checks;
`ContextKept` is about steps, and given to that run as the property
`[][ContextKept]_vars`, it holds there.

**The files.** `OwnStream` is not inductive: a File would lose its stream if
another that shares its entry closed it, and two would share one if an entry
were given away while in use. `Holds` and `Alone` say that neither happens, and
`Numbered` that a new stream is a new one.

**The image file.** `RoundTrip` speaks of the end, when both recursions are done, and
relates objects that were written to bytes long before they were read. The
proof has no induction over the file. It keeps the log of the writer (`IsLog`): one
record for each value written, with what was still to be written (`todo`), how
many objects had a number (`count`) and where the next byte went (`at`). Two
neighbours in the log differ by a step of `objectWrite()` (`Put`), stated by what it
left in the file as far as the file goes: a log stays one when the file grows or
is cut short (`PutKept`). `InStep` says that the reader is at one of these records. It
has read as many objects as had a number, it is at the same byte, each place
that waits (`slots`) waits for the value that was at that place of `todo`
(`PlacesAgree`), and in the objects it has read everything is a copy but for the
fields that wait (`CopySoFar`). One step leads to the next record: `TagRead` gives the
type that was written, so that `objectRead()` takes the branch that `objectWrite()`
took (`TagTells`), the value goes to the first place and to no other (`StoredAt`,
`FieldRead`) and a new object has its places in the order of its values
(`NewRead`). Bytes of a binary object that are read beyond the end of the file are
255 and are wrong; its class, which comes after them, still waits, and the next
tag is the end of the file, so that such an image never loads. When no place
waits, the reader is at the record whose `todo` is empty, which is the last, and
`CopySoFar` is `CopyOf`. For `ImageStopsForCause` the same step shows that a tag that is
not one of the six was beyond the end of the file, and the last record says how
far the file reached before the cut. For the writer it needs that a word it
cannot write is a field of an object it has numbered, not one from nowhere:
`Reached` says so of every value in `todo`. TLC evaluated the invariant, with the
log as a history variable, on the constants of `MCImageFile`.

**Symbols and searches.** The searches are recursive functions over pairs of
places. Their definition says only that they satisfy an equation if anything
does, so that it has to be shown that something does. `LeastOf` of
`FiniteRecursion` says that a set of numbers up to a bound has a least member
(from the well-foundedness of inclusion among finite sets); `Induction` follows,
over sets of numbers up to a bound, and from it `Recursion`: when the value at
each place depends only on places of less weight, there is a function with these
values. `HalvingDefined` applies this to any search by halves, whatever it
compares; `SearchFinds` and `LocationSplits` then say what the two searches
answer, by induction over the length of the range. `LessBelow` reads the order
as "greater at some place before which both are alike", from which transitivity
follows. `InsertionSorts` and `BootstrapInserts` put these together.

**Sends.** `Searchable` and the agreement of the cache hold each other up: a send
that misses puts what the search found into the cache, and the search is right
only where the dictionary is in order. `IInv` has the dictionaries in order
(`InOrder`), those of `settled` with a value for each key (`Complete`), where
`addMethod:` is and which dictionary it has in hand (`AddingInv`), and the cache
(`CacheInv`, `CacheAgrees`). One assumption is needed and is named in the theorems:
`Untouched`, that no method is added to a class in which the messages of
`at:put:` itself are looked up. `LookupElsewhere` then says that the dictionary
that is half changed is not met by them. Without it `SendsAgree` does not hold
(`MCMethodLookupArray`); the run `lookup` assumes it too, and TLC evaluates
that its constants satisfy it.

**Numbers.** Everything is relative to `Half` and `Large`, the limits of an int and
of an Integer (`Sizes`, from the doubling of `TwoTo`). A cast is the identity on
what fits and otherwise off by a multiple of the number of values (`Wraps`).
That the quotient of the wrapped product by one factor is the other only if
nothing was lost (`ProductExact`) is where a test could be wrong: the rest of the
division is less than a factor, which is at most half of `Half`, and a lost
multiple is at least twice `Half`. Then come the primitives, `do_Integer()` and
the methods that convert an argument; that every number met has the size of
its class (`TypeCorrectness`) makes the lemmas apply to any sequence of messages.

**Block moves.** The loop in Smalltalk is a recursive function. `LoopDefined` shows
that there is one; `LoopMoves`, by induction over its turns, that the array is
then what the closed form of `bulkReplace()` says, for a loop that reads and
writes one array only when the places written are not read later; `LoopRepeats`
that otherwise each element is the one that the loop wrote before, at the place it
reads. With a `stop` that is one too large the loop ends with an error at the last
turn (`StopsAt`), with the same elements in the array. What the move then
writes past the array is not in the model; no call of primitive 38 gets that far,
as `bulkReplace()` is given its arguments in the opposite order and refuses.

**Sums.** `SumFunctionOnSet` is recursion over finite sets in any order.
`FiniteRecursion` shows that such a sum exists and does not depend on the order
(`SumAnyFirst`), is additive (`SumOver`) and no less than that of a part
(`SumOfPart`).

Only model-checked:

- liveness (`Terminates`, `Completes`), which is beyond this prover;
- of `Interp`, `TypeOK`, `ResumedAfterSend`, `AsDenoted` and `NoStaleUse`: they depend
  on where collections occur, on what the program does with its contexts and on what the compilers make, and hold for the
  programs of the run;
- `CompiledCode` and `ImageBuilder`: the compilers and the tree of symbols are
  RECURSIVE operators, whose modules the prover cannot take.

## 5. Where code and documentation differ

The findings of `PROJECT.json` have a run that TLC finds violated. The
other configurations of the table are kept beside them and may be run in the
same way; each checks the one property named, and TLC reports a violation.
Where the first column has an assignment, it is made in the configuration named;
of the two `...Divergences` configurations, which list several invariants, the one
named is left uncommented.

| Configuration | Property | What it shows |
|---|---|---|
| `MCInterpUnknown` (run `interp_unknown`) | `NoStaleUse` | the allocation for `doesNotUnderstand:` (interp.c:527) roots and reloads nothing; memory.c:148-150: a pointer to the other space means that "something is very wrong" |
| `MCCompiledShadowed` (run `compile_shadowed`) | `DoesWhatItSays` | the bootstrap looks for a name among the temporaries from the oldest (bootstrap.c:1139, 1565): a block parameter with the name of a temporary is never read; lst.st:3475: 'doubly defined name '. `keysAsArray` (lst.st:2314-2317) is such a text |
| `MCCompiledShadowed`, `Sources <- SuperSources` | `DoesWhatItSays` | `superMessage` is reset by some of the functions that use it (bootstrap.c:1304): `super size at: x` looks up `at:` from the superclass, too |
| `MCCompiledShadowed`, `Sources <- CascadeSources` | `DoesWhatItSays` | the bootstrap sends the messages of a cascade to what the one before answered, not to its receiver as `CascadeNode` has it, and answers what the last one answered (bootstrap.c:1613-1619). `lst.st` has three such cascades, at 1525, 1594 and 3592-3595; their messages, `at:put:` of String and `value:` of LiteralNode, answer the receiver |
| `MCCompiledNested` | `LoopsLeaveNothing` | a loop in the body of a loop leaves a word on the stack each time round (bootstrap.c:1481) |
| `MCCompiledHead` | `StackSuffices` | the Encoder counts too little for a cascade whose head sends nothing (lst.st:990) |
| `MCCompiledTwice` | `SameVariables` | two variables of one name in a class and its superclass are found in a different order by the two compilers; README.md:205, lst.st:3589 |
| `MCInterpFile` | `FailureKeepsSelf` | after a primitive of `prim.c` fails, `self` is its first argument (interp.c:1173-1188), while lst.st:1053-1054 sends `self primitiveFailed` |
| `MCInterpRecursive` | `Terminates` | a block that invokes itself is its own sender (interp.c:811-823) and never ends |
| `MCInterpInterrupted` | `NoStaleUse` | `returnedValue`, never reloaded, is stored in a process that runs out of ticks (interp.c:328-330); memory.c:148-150 as above |
| `MCInterpHopeless` | `BadMethodReturns` | a message that nobody understands ends the VM (interp.c:523-526); interp.h:64 has `ReturnBadMethod`, "Unknown method for object", which main.c:181 and lst.st:4369 handle |
| `MCMethodLookupArray` | `SendsAgree` | a method added to `Array` changes the dictionary in which `insert:at:` is looked up (lst.st:2289-2290): a word past the array is taken for the method; interp.c:185-186: "If we find the selector, return the method object." |
| `MCMethodLookupExchange` | `CacheAgrees` | `become:` of a method leaves the cache alone (memory.c:487-506); memory.c:481-483: "all references in current object memory are modified" |
| `MCImageBuilder`, `Sources <- Inherited` | `VariablesFit` | a metaclass made by the bootstrap has no words for the class variables that it inherits; the image counts them |
| `MCImageBuilder`, `Sources <- Lists` | `VariablesFit` | a list of variables without a space before its parenthesis loses its last character (bootstrap.c:2036) |
| `MCImageBuilder`, `Sources <- Metals` | `NamesFound` | a class whose name begins with "Meta" is taken for a metaclass and left out of the globals |
| `MCFileTableDivergences` | `OpenedIsOpen` | after a failed `fopen()` (prim.c:102-104) `fileID` is an object; lst.st:1183-1184: `opened ^ fileID notNil` |
| `MCFileTableDivergences` | `SeekAnswersPosition` | primitive 108 answers 0 (prim.c:299); prim.c:304: "Return position as our value" |
| `MCFileTableDivergences` | `StopsWhenFull` | `fclose()` leaves the entry in place (prim.c:130-137): "too many open files" (prim.c:97) stops a VM with one open file |
| `MCFileTableDivergences` | `OwnStream` | a File that was open when the image was written works on another's stream afterwards (prim.c:111); lst.st:1176-1177: 'file is not open' |
| `MCNumbersDivergences` | `ConversionExact` | primitive 33 tests the low half of an Integer (interp.c:1026-1030), while lst.st:3092-3094 reads `asSmallInt <33 self>. self overflow` |
| `MCNumbersDivergences` | `SmallIntsFit` | SendBinary and the division make SmallInts of 32 bits (interp.c:682, 868); memory.h:77-78: "encoded as 31 bits, signed" |
| `MCNumbersDivergences` | `ShiftExact` | shifts to the left lose bits unnoticed (interp.c:1127-1130); interp.c:1126: "catch overflow" |
| `MCNumbers`, `Optimised = TRUE`, `Operands <- SmallLiterals`, `Messages <- Products` | `SmallExact` | the tests for overflow rely on the overflow itself (interp.c:849, 902, 918) and are dropped by an optimising compiler; interp.c:909: "overflow... do it with 64 bits" |
| `MCBulkReplaceServed`, `RangeChecked` in place of `CallsServed` | `RangeChecked` | the "Range check" (interp.c:248-253) lets a destination pass that is one element too short |
| `MCBulkReplaceServed` | `CallsServed` | primitive 38 hands its arguments over in the opposite order (interp.c:1101-1105) and never succeeds; interp.c:218-220: "much faster than executing the block move" |
| `MCImageLeast` | `WholeFileLoads` | the least int cannot be written (image.c:535-546); image.c:540: "if it is negative, we use the positive value" |
| `MCImageLeast`, `Heaps <- NullHeaps` | `WholeFileLoads` | an image with a NULL word in an object that globals reach cannot be written (image.c:531-533). The unused words of the stack of a context are NULL, and so are the temporaries of one that has none (interp.c:561, 575): a block held in a global is enough; README.md:230: "Save images." |

Met in reading the same code: the image compiler drops what follows a statement
that has no full stop after it (`readStatementList`, lst.st:3807-3814, and
`parse:with:` does not ask whether the text has ended), and refuses a method without
statements; the bootstrap compiles both, and `lst.st` has both (2060-2061,
2013-2014; 950, 3326). The value of a loop is 0, not nil, in the bootstrap's code
(bootstrap.c:1500), and the binary message of `super - x` goes to self, since the
term `x` resets `superMessage`.

Outside the modules: the compiler of the image makes no inline loop of
`whileFalse:`, whose colon is missing in the test; in `lst.st`, `Node>>remove:` has `left removeL key`, `Node>>reverseDo:` goes on with
`do:`, and `Tree>>removeFirst` has `isNIl`.

## 6. What is not modelled

- Static memory is empty in an image that the VM loads (`staticAllocate()` is
  defined by no code of it), so the write barrier of AssignInstance has no
  effect; both are left out.
- An image that is larger than the space it is loaded into; the reader keeps
  the objects it has read in a table in the spare space, which no collection
  meets while it reads.
- Primitives 3, 9, 18 and 20 to 23: characters, the debugging flag, indexing of
  and allocation from byte objects, which go the same way through `execute()` as
  the ones in `Interp`. Primitives 36 and 37: bits.
- The scanners of both compilers, which turn characters into tokens, and array
  literals; in `ImageBuilder` the characters of a line but for those of names.
- The contents of files, and of the network, the editor, the clock; the
  searches in strings of primitives 150 to 152, which read and answer strings.
- Image versions 0 to 2, which no tool of the repository writes any more, and
  the look-up of the VM's globals after reading.
- A process that is executed again after its end reads fields of nil as if they
  were those of a context, past the end of the object; a `rootStack` that is
  full is written past its end. What is there is outside the program.
- Start-up but for the look-up of the first method, error output: straight-line
  code that prints or stops.
- Collections, streams, printing, web IDE, browser, tests: Smalltalk programs
  that use the system. Build files and archives are no code of it.

## 7. Plan

Done: the models of the components of section 1 as far as section 6 says; the proofs of
section 4, among them the collector, the memory and what it implements, the
level of `rootStack`, what `execute()` caches and the locals that a collection makes
stale, files, the image file, lookup and cache, numbers, and block moves.

Next, proofs:

1. `ImageBuilder`: that every dictionary is sorted in every state, from
   `BootstrapInserts` and `InsertionSorts`; the tree of symbols would need its
   recursion as a function first.
2. `CompiledCode`: `StackSuffices` for code without blocks, if the compilers'
   recursion can be stated as functions.

Next, models: the bytes of array literals and of byte objects, should a
property turn up that is about them.
