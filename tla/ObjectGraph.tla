---------------------------- MODULE ObjectGraph ----------------------------
(***************************************************************************)
(* What memory.c promises the rest of the VM: a graph of objects, in which *)
(* an object keeps its identity and contents for as long as it can be      *)
(* reached from rootStack or from a C variable registered as a static root *)
(* and in which elementsExchangeIdentityWith: exchanges references.  There *)
(* are no addresses, spaces or collections: an object that cannot be       *)
(* reached may be gone after any allocation.                               *)
(***************************************************************************)
EXTENDS Integers, Sequences

CONSTANTS
  Plain,         \* words that name no object: SmallInts and the null pointer
  Junk,          \* what a word holds that has not been set since its allocation
  None,          \* no object
  Global,        \* C variables that may be registered as static roots
  Shapes,        \* <<size, bin>>: the nth object allocated is one of Shapes[n],
                 \* if bin with a size in bytes
  MaxObjects     \* bound on the number of allocations

VARIABLES
  objects,       \* identity -> [size, bin, class, data]
  rootStack,
  globals,       \* the registered variables -> their words
  fresh,         \* the object the C code has just allocated or popped, or None
  born           \* number of allocations, and the identity of the last

vars == <<objects, rootStack, globals, fresh, born>>

\* The words of a binary object are bytes, and not modelled.
Unset(size, bin, class) ==
  [size |-> size, bin |-> bin, class |-> class,
   data |-> [k \in IF bin THEN {} ELSE 0..(size - 1) |-> Junk]]

References(o) == {o.class} \cup {o.data[k] : k \in DOMAIN o.data}

Roots == {rootStack[i] : i \in DOMAIN rootStack}
         \cup {globals[g] : g \in DOMAIN globals}

Closed(S) ==
  /\ Roots \cap DOMAIN objects \subseteq S
  /\ \A i \in S : References(objects[i]) \cap DOMAIN objects \subseteq S
Reachable == LET closed == {S \in SUBSET DOMAIN objects : Closed(S)} IN
               {i \in DOMAIN objects : \A S \in closed : i \in S}

Init ==
  /\ objects = <<>>
  /\ rootStack = <<>>
  /\ globals = <<>>
  /\ fresh = None
  /\ born = 0

\* The caller has set the fields of what can be reached.
New(size, bin) ==
  /\ born' = born + 1
  /\ fresh' = born'
  /\ UNCHANGED <<rootStack, globals>>
  /\ \A i \in Reachable : Junk \notin References(objects[i])
  /\ \E kept \in SUBSET DOMAIN objects, class \in Roots \cup {born'} :
       /\ Reachable \subseteq kept
       /\ objects' = [i \in kept \cup {born'} |->
            IF i = born' THEN Unset(size, bin, class) ELSE objects[i]]

SetField(i, k, w) ==
  /\ UNCHANGED <<rootStack, globals, fresh, born>>
  /\ objects' = [objects EXCEPT ![i].data[k] = w]

PushRoot(w) ==
  /\ UNCHANGED <<objects, globals, fresh, born>>
  /\ rootStack' = Append(rootStack, w)

PopRoot ==
  /\ UNCHANGED <<objects, globals, born>>
  /\ rootStack # <<>>
  /\ fresh' = rootStack[Len(rootStack)]
  /\ rootStack' = SubSeq(rootStack, 1, Len(rootStack) - 1)

Register(g, w) ==
  /\ UNCHANGED <<objects, rootStack, fresh, born>>
  /\ globals' = [h \in DOMAIN globals \cup {g} |-> IF h = g THEN w ELSE globals[h]]

\* The elements of two arrays of one size are objects, and each of them is there once.
Exchangeable(a, b) ==
  /\ ~objects[a].bin /\ ~objects[b].bin
  /\ DOMAIN objects[a].data = DOMAIN objects[b].data
  /\ LET A == objects[a].data
         B == objects[b].data
     IN \A j, k \in DOMAIN A :
          /\ {A[k], B[k]} \subseteq DOMAIN objects
          /\ A[j] = A[k] \/ A[j] = B[k] \/ B[j] = B[k] => j = k

\* The element of the other array where w is an element of one, or w
Partner(w, a, b) ==
  LET A == objects[a].data
      B == objects[b].data
  IN IF \E k \in DOMAIN A : A[k] = w THEN B[CHOOSE k \in DOMAIN A : A[k] = w]
     ELSE IF \E k \in DOMAIN B : B[k] = w THEN A[CHOOSE k \in DOMAIN B : B[k] = w]
     ELSE w

\* Every reference to an element of one array becomes a reference to the
\* element of the other, at once; but the arrays keep their elements.
Exchange(a, b) ==
  /\ fresh' = None
  /\ UNCHANGED born
  /\ Exchangeable(a, b)
  /\ objects' = [i \in DOMAIN objects |->
       [objects[i] EXCEPT
          !.class = Partner(@, a, b),
          !.data = IF i \in {a, b} THEN @
                   ELSE [k \in DOMAIN @ |-> Partner(@[k], a, b)]]]
  /\ rootStack' = [i \in DOMAIN rootStack |-> Partner(rootStack[i], a, b)]
  /\ globals' = [g \in DOMAIN globals |-> Partner(globals[g], a, b)]

Next ==
  \/ /\ born < MaxObjects
     /\ \E shape \in Shapes[born + 1] : New(shape[1], shape[2])
  \/ \E i \in DOMAIN objects, w \in Plain \cup DOMAIN objects :
       \E k \in DOMAIN objects[i].data : SetField(i, k, w)
  \/ \E i \in DOMAIN objects : PushRoot(i) \/ \E g \in Global : Register(g, i)
  \/ PopRoot
  \/ \E a, b \in DOMAIN objects : Exchange(a, b)

Spec == Init /\ [][Next]_vars
=============================================================================
