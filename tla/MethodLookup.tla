---------------------------- MODULE MethodLookup ----------------------------
(***************************************************************************)
(* How a message finds its method: the method cache and lookupMethod() of  *)
(* src/vm/interp.c, the method dictionaries of the image, and the two ways *)
(* in which these change under the cache, Class>>addMethod: of             *)
(* src/smalltalk/system/lst.st and primitive 35.                           *)
(*                                                                         *)
(* The cache names selectors and classes by their addresses, which a       *)
(* collection changes.  A dictionary is two arrays side by side, which     *)
(* Dictionary>>at:put: replaces one after the other; the messages it sends *)
(* in between are looked up like any other.                                *)
(***************************************************************************)
EXTENDS SymbolOrder

CONSTANTS
  Classes, Symbols, Methods,
  parentClass,     \* class -> class, or nil at the top
  Dictionaries,    \* class -> its first dictionary
  Layouts,         \* the placements of symbols and classes in memory
  CacheSize,       \* METHOD_CACHE_SIZE
  Additions,       \* <<class, symbol, method>> that addMethod: is called with
  InsertSends,     \* <<symbol, class>> of the messages at:put: sends between
                   \* its two assignments
  Exchanges        \* <<method, method>> that become: is called with

Placed == Symbols \cup Classes

\* The dictionaries that an image starts with are in order, an address is never
\* 0, and no two objects are at the same.
ASSUME LookupAssumption ==
  /\ \A s \in Symbols : s \in Seq(Nat)
  /\ IsFiniteSet(Classes)
  /\ parentClass \in [Classes -> Classes \cup {nil}]
  /\ nil \notin Methods /\ Garbage \notin Methods /\ nil # Garbage
  /\ Dictionaries \in [Classes -> [keys : Seq(Symbols), values : Seq(Methods)]]
  /\ \A c \in Classes :
       /\ Len(Dictionaries[c].keys) = Len(Dictionaries[c].values)
       /\ \A i, j \in 1..Len(Dictionaries[c].keys) :
            i < j => Less(Dictionaries[c].keys[i], Dictionaries[c].keys[j])
  /\ CacheSize \in Nat \ {0}
  /\ \A f \in Layouts : /\ f \in [Placed -> Nat \ {0}]
                        /\ \A x, y \in Placed : f[x] = f[y] => x = y
  /\ Additions \subseteq Classes \X Symbols \X Methods
  /\ InsertSends \subseteq Symbols \X Classes
  /\ Exchanges \subseteq Methods \X Methods

\* No method is added to a class that the messages of at:put: itself are
\* looked up in.
Untouched ==
  \E K \in SUBSET Classes :
    /\ \A c \in K : parentClass[c] \in K \cup {nil}
    /\ \A p \in InsertSends : p[2] \in K
    /\ \A a \in Additions : a[1] \notin K

VARIABLES
  methods,     \* class -> [keys, values], methodsInClass of every class
  address,     \* symbol or class -> its address
  cache,       \* slot -> [name, class, method]
  adding,      \* the call of addMethod: in progress
  settled,     \* history: methods when the last such call ended
  unseen,      \* history: objects were exchanged since the cache was flushed
  method       \* the method that the last message found

vars == <<methods, address, cache, adding, settled, unseen, method>>

Idle == [step |-> "none"]
Slots == 0..(CacheSize - 1)

Init ==
  /\ methods = Dictionaries
  /\ address \in Layouts
  /\ cache = [i \in Slots |-> [name |-> 0, class |-> 0, method |-> nil]]
  /\ adding = Idle
  /\ settled = Dictionaries
  /\ unseen = FALSE
  /\ method = nil

-----------------------------------------------------------------------------
Slot(selector, class) == (address[selector] + address[class]) % CacheSize

\* Mutant: the class of the entry is not compared.
HitByName(selector, class) ==
  cache[Slot(selector, class)].name = address[selector]

Hit(selector, class) ==
  /\ cache[Slot(selector, class)].name = address[selector]
  /\ cache[Slot(selector, class)].class = address[class]

\* The cache after a miss
Filled(selector, class, found) ==
  IF found = nil THEN cache
  ELSE [cache EXCEPT ![Slot(selector, class)] =
          [name |-> address[selector], class |-> address[class],
           method |-> found]]

\* Any message, when no dictionary is being changed; then those of at:put:
\* alone.  It sends them whatever the cache holds.
MaySend(selector, class) ==
  adding.step = "keys" => <<selector, class>> \in InsertSends

\* SendMessage and SendUnary, from checkCache on
Send(selector, class) ==
  /\ MaySend(selector, class)
  /\ IF Hit(selector, class)
     THEN /\ method' = cache[Slot(selector, class)].method
          /\ UNCHANGED cache
     ELSE /\ method' = lookupMethod(methods, parentClass, selector, class)
          /\ cache' = Filled(selector, class, method')
  /\ UNCHANGED <<methods, address, adding, settled, unseen>>

\* Mutant: the last entry is not cleared.
FlushedButLast ==
  [i \in Slots |-> IF i < CacheSize - 1 THEN [cache[i] EXCEPT !.name = 0]
                                        ELSE cache[i]]

\* flushCache()
Flushed == [i \in Slots |-> [cache[i] EXCEPT !.name = 0]]

\* do_gc(): everything is somewhere else.
Collect ==
  /\ address' \in Layouts
  /\ cache' = Flushed
  /\ unseen' = FALSE
  /\ UNCHANGED <<methods, adding, settled, method>>

-----------------------------------------------------------------------------
(***************************************************************************)
(* Class>>addMethod:, once the method is compiled.                         *)
(***************************************************************************)

\* Mutant: the key goes after the place that was found.
KeyInsertedAfter(c, s) ==
  LET keys == methods[c].keys IN
    InsertAt(keys, IF Location(keys, s) <= Len(keys) THEN Location(keys, s) + 1
                   ELSE Location(keys, s), s)

\* keys insert: key at: position
KeyInserted(c, s) == InsertAt(methods[c].keys, Location(methods[c].keys, s), s)

\* Dictionary>>at:put:, as far as the assignment to keys or, when the key is
\* there, as a whole
PutKey(c, s, m) ==
  LET keys == methods[c].keys
      position == Location(keys, s)
      present == position <= Len(keys) /\ keys[position] = s
  IN
  /\ adding = Idle
  /\ methods' = IF present THEN [methods EXCEPT ![c].values[position] = m]
                ELSE [methods EXCEPT ![c].keys = KeyInserted(c, s)]
  /\ adding' = [step |-> IF present THEN "done" ELSE "keys",
                class |-> c, position |-> position, method |-> m]
  /\ UNCHANGED <<address, cache, settled, unseen, method>>

\* values <- values insert: value at: position
PutValue ==
  /\ adding.step = "keys"
  /\ methods' = [methods EXCEPT ![adding.class].values =
                   InsertAt(@, adding.position, adding.method)]
  /\ adding' = [adding EXCEPT !.step = "done"]
  /\ UNCHANGED <<address, cache, settled, unseen, method>>

\* Method flushCache, which is primitive 34
FlushCache ==
  /\ adding.step = "done"
  /\ cache' = Flushed
  /\ adding' = Idle
  /\ settled' = methods
  /\ unseen' = FALSE
  /\ UNCHANGED <<methods, address, method>>

\* exchangeObjects() walks the heap and the roots, among which the dictionaries
\* are and the cache is not.
Exchange(a, b) ==
  LET map(m) == CASE m = a -> b [] m = b -> a [] OTHER -> m
      Mapped(dicts) ==
        [c \in Classes |-> [keys |-> dicts[c].keys,
                            values |-> [i \in DOMAIN dicts[c].values |->
                                          map(dicts[c].values[i])]]]
  IN
  /\ adding = Idle
  /\ methods' = Mapped(methods)
  /\ settled' = Mapped(settled)
  /\ unseen' = TRUE
  /\ UNCHANGED <<address, cache, adding, method>>

Next ==
  \/ \E s \in Symbols, c \in Classes : Send(s, c)
  \/ Collect
  \/ \E a \in Additions : PutKey(a[1], a[2], a[3])
  \/ PutValue
  \/ FlushCache
  \/ \E p \in Exchanges : Exchange(p[1], p[2])

Spec == Init /\ [][Next]_vars

-----------------------------------------------------------------------------
\* What is found is a method or, by lookupMethod() only, none.
TypeOK ==
  /\ \A c \in Classes : /\ methods[c].keys \in Seq(Symbols)
                        /\ methods[c].values \in Seq(Methods)
  /\ address \in Layouts
  /\ \A i \in Slots : cache[i].name # 0 => cache[i].method \in Methods
  /\ adding.step \in {"none", "keys", "done"}
  /\ method \in Methods \cup {nil}

(***************************************************************************)
(* What a message means: a dictionary as a map, and the nearest class that *)
(* has the selector.                                                       *)
(***************************************************************************)
Holds(dicts, c, s) == \E i \in DOMAIN dicts[c].keys : dicts[c].keys[i] = s
At(dicts, c, s) ==
  dicts[c].values[CHOOSE i \in DOMAIN dicts[c].keys : dicts[c].keys[i] = s]

Denoted(dicts, selector, class) ==
  LET N == Cardinality(Classes)
      up[at \in (Classes \cup {nil}) \X (0..N)] ==
        LET c == at[1] IN
          IF c = nil \/ at[2] = 0 THEN nil
          ELSE IF Holds(dicts, c, selector) THEN At(dicts, c, selector)
          ELSE up[<<parentClass[c], at[2] - 1>>]
  IN  up[<<class, N>>]

\* While a method is being added a message may mean what it did before; it
\* means the new method as soon as both arrays have it.
Meanings(s, c) ==
  {Denoted(settled, s, c)} \cup
  (IF adding.step = "keys" THEN {} ELSE {Denoted(methods, s, c)})

\* The keys are in the order that the binary search of the VM relies on, and
\* with the values they make a map, but for the moment between the assignments
\* of at:put:.
Searchable ==
  \A c \in Classes :
    /\ \A i, j \in DOMAIN methods[c].keys :
         i < j => symbolcomp(methods[c].keys[i], methods[c].keys[j]) < 0
    /\ (adding.step = "keys" /\ adding.class = c) \/
       Len(methods[c].keys) = Len(methods[c].values)

\* The cache never holds anything but what its symbol and class mean: no
\* addition and no collection leaves an entry behind that a later message with
\* the same address would be answered from.
CacheAgrees ==
  \A i \in Slots :
    cache[i].name # 0 =>
      \E s \in Symbols, c \in Classes :
        /\ address[s] = cache[i].name
        /\ address[c] = cache[i].class
        /\ cache[i].method \in Meanings(s, c)

\* As long as nothing is exchanged, and again once the cache is flushed
CacheAgreesOnceFlushed == ~unseen => CacheAgrees

\* Every message, those of at:put: and those that nobody understands included,
\* finds what it means, whether from the cache or by the search.
SendsAgree ==
  [][\A s \in Symbols, c \in Classes :
       (Send(s, c) /\ ~unseen) => method' \in Meanings(s, c)]_vars
=============================================================================
