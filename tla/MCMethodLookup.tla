--------------------------- MODULE MCMethodLookup ---------------------------
(***************************************************************************)
(* Three classes: Object, its subclass Array, of which the values of a     *)
(* dictionary are made, and its subclass Other.  Symbols of which one is   *)
(* the beginning of another; insert is the insert:at: of Array and class   *)
(* the method of Object that it uses.                                      *)
(***************************************************************************)
EXTENDS MethodLookup

CONSTANTS Object, Array, Other, m1, m2, m3, m4

add == <<1>>
class == <<1, 2>>
insert == <<2>>

MCClasses == {Object, Array, Other}
MCSymbols == {add, class, insert}
MCMethods == {m1, m2, m3, m4}
MCParents == (Object :> nil @@ Array :> Object @@ Other :> Object)

Dictionary(keys, values) == [keys |-> keys, values |-> values]
MCDictionaries ==
  (Object :> Dictionary(<<class>>, <<m1>>) @@
   Array  :> Dictionary(<<insert>>, <<m2>>) @@
   Other  :> Dictionary(<<>>, <<>>))

\* Addresses that collide in the cache, and that a collection gives to another
Layout1 == (add :> 1 @@ class :> 2 @@ insert :> 3 @@
            Object :> 4 @@ Array :> 5 @@ Other :> 6)
Layout2 == (add :> 3 @@ class :> 1 @@ insert :> 2 @@
            Object :> 4 @@ Array :> 6 @@ Other :> 5)
MCLayouts == {Layout1, Layout2}

MCInsertSends == {<<insert, Array>>, <<class, Array>>}

\* Methods of Other, one of which overrides that of Object
OtherAdditions == {<<Other, add, m3>>, <<Other, class, m4>>}
\* A method of the class whose insert:at: at:put: itself depends on
ArrayAdditions == {<<Array, add, m3>>}
MCExchanges == {<<m1, m4>>}

\* What the proofs assume holds of the run.
ASSUME UntouchedAssumption == Additions = OtherAdditions => Untouched

None == {}
=============================================================================
