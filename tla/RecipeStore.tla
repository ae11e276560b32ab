------------------------------ MODULE RecipeStore ------------------------------
(***************************************************************************)
(* The parameter store of src/examples/recipe_command.h: create, delete,   *)
(* select and query commands dispatched to one RecipeStore, one after the  *)
(* other.  Names are the fixed byte arrays of the code, because what the   *)
(* commands do to them (a bounded strncpy, a terminator put by hand, a     *)
(* deletion that clears only the first byte) is what can go wrong.         *)
(***************************************************************************)
EXTENDS Integers

CONSTANTS SlotMax,   \* RECIPE_SLOT_MAX
          NameMax,   \* RECIPE_NAME_MAX
          Char,      \* the bytes of a name other than NUL
          NUL

ASSUME SizeAssumption == SlotMax \in Nat /\ NameMax \in Nat \ {0}
ASSUME NulAssumption == NUL \notin Char

Slot == 0 .. SlotMax - 1
Index == 0 .. NameMax - 1
Name == [Index -> Char \cup {NUL}]

\* The number a command may carry: those of the slots and one beyond each end.
Argument == -1 .. SlotMax

None == -1
Blank == [j \in Index |-> NUL]

VARIABLES used,     \* slots[n].used
          name,     \* slots[n].name
          current,  \* the selected recipe number
          last      \* last_query_result

vars == <<used, name, current, last>>

Init ==
  /\ used = [n \in Slot |-> FALSE]
  /\ name = [n \in Slot |-> Blank]
  /\ current = None
  /\ last = None

\* slot_index_valid.
Valid(n) == n \in Slot

\* A NUL at or before byte j ends the string that the array holds.
Ended(a, j) == \E l \in 0 .. j : a[l] = NUL

\* strncpy of the first NameMax - 1 bytes of p over the array old (which it
\* pads with NUL), and the terminator.  The faults: no terminator; one that is
\* put behind the array; a copy that stops at the end of the string and leaves
\* the rest of old.
Stored_NoTerminator(p, old) ==
  [j \in Index |-> IF Ended(p, j) THEN NUL ELSE p[j]]

Stored_Overrun(p, old) ==
  [j \in 0 .. NameMax |-> IF j = NameMax \/ Ended(p, j) THEN NUL ELSE p[j]]

Stored_NoPadding(p, old) ==
  [j \in Index |-> IF j = NameMax - 1 THEN NUL
                   ELSE IF Ended(p, j) THEN old[j] ELSE p[j]]

Stored(p, old) ==
  [j \in Index |-> IF j = NameMax - 1 \/ Ended(p, j) THEN NUL ELSE p[j]]

\* A write of one element of an array.  Written outside its bounds the array
\* gets an index it must not have: C writes over something else there.
Put(array, n, x) ==
  [m \in DOMAIN array \cup {n} |-> IF m = n THEN x ELSE array[m]]

\* When on_create goes ahead; the fault lets the number of slots through.
MayCreate_OffByOne(n) == n \in 0 .. SlotMax

MayCreate(n) == Valid(n)

\* on_create: the slot may be used already, even selected.
Create(n, p) ==
  /\ MayCreate(n)
  /\ used' = Put(used, n, TRUE)
  /\ name' = Put(name, n, Stored(p, name[n]))
  /\ UNCHANGED <<current, last>>

\* When on_delete goes ahead; the faults are a missing check each.
MayDelete_Selected(n) == Valid(n) /\ used[n]

MayDelete(n) == Valid(n) /\ used[n] /\ current # n

\* on_delete.
Delete(n) ==
  /\ MayDelete(n)
  /\ used' = [used EXCEPT ![n] = FALSE]
  /\ name' = [name EXCEPT ![n][0] = NUL]
  /\ UNCHANGED <<current, last>>

\* When on_select goes ahead.
MaySelect_Unused(n) == Valid(n)

MaySelect(n) == Valid(n) /\ used[n]

\* on_select.
Select(n) ==
  /\ MaySelect(n)
  /\ current' = n
  /\ UNCHANGED <<used, name, last>>

\* on_query.
Query ==
  /\ last' = current
  /\ UNCHANGED <<used, name, current>>

\* The commands that are answered NG change nothing.
Refuse(n) ==
  /\ ~MayCreate(n) \/ ~MayDelete(n) \/ ~MaySelect(n)
  /\ UNCHANGED vars

Next ==
  \/ \E n \in Argument :
       \/ \E p \in Name : Create(n, p)
       \/ Delete(n) \/ Select(n) \/ Refuse(n)
  \/ Query

Spec == Init /\ [][Next]_vars

------------------------------------------------------------------------------
\* Properties.

\* Every variable has its type.
TypeOK ==
  /\ used \in [Slot -> BOOLEAN]
  /\ name \in [Slot -> Name]
  /\ current \in Slot \cup {None}
  /\ last \in Slot \cup {None}

\* The selected recipe exists: no sequence of commands takes away what query
\* prints the name of.
SelectedExists == current # None => used[current]

\* Every name in the store is a terminated string, whatever was written over
\* it: it can be printed with %s, and a deleted recipe reads as empty.
NamesTerminated ==
  \A n \in Slot : Ended(name[n], NameMax - 1) /\ (~used[n] => name[n][0] = NUL)

\* A query's answer may outlive its recipe, but only after another one has
\* been selected: a stale answer is never the current recipe, and there is
\* always a current one to ask for.
StaleAnswerWasReplaced ==
  (last # None /\ ~used[last]) => current \notin {None, last}

\* What is behind the terminator of a name tells nothing of an older, longer
\* one: the bytes of a used slot from the terminator on are all NUL.
NoResidue ==
  \A n \in Slot : used[n] =>
    \A j \in Index : Ended(name[n], j) => name[n][j] = NUL

\* What a name reads as: its bytes up to the first NUL.
Shown(a) == [j \in {l \in Index : ~Ended(a, l)} |-> a[j]]

\* The store implements the book of recipes: a name that was cut reads as a
\* shorter title, a deleted one as no title at all.
Book ==
  INSTANCE RecipeBook
    WITH Number <- Slot,
         Text <- {Shown(a) : a \in {p \in Name : p[NameMax - 1] = NUL}},
         Empty <- Shown(Blank),
         NoNumber <- None,
         recipes <- {n \in Slot : used[n]},
         title <- [n \in Slot |-> Shown(name[n])],
         selected <- current

BookSpec == Book!Spec

==============================================================================
