------------------------------ MODULE VariantList ------------------------------
(***************************************************************************)
(* One variant list, several translation units.  The list is edited, units *)
(* are compiled against it one at a time, and values made in one unit are  *)
(* handled in another.  At run time a tag is a position in the list that   *)
(* its unit was compiled with (SUM_TAG_ENTRY of                            *)
(* src/include/generic_sum_type.h); everything else that keeps variants    *)
(* and handlers together is what the compiler accepts, and which units are *)
(* compiled again after an edit.                                           *)
(***************************************************************************)
EXTENDS Integers, SequencesExt

CONSTANTS Name,    \* names of variants; a handler has the name of its variant
          Type,    \* payload types
          TypeOf,  \* the payload type of each name
          Unit,    \* translation units
          MaxList  \* bound: the longest list

ASSUME TypeAssumption == TypeOf \in [Name -> Type] /\ MaxList \in Nat

VARIABLES list,    \* the variant list in the header
          built,   \* what each unit was last compiled from
          behind   \* units not compiled since the list was last edited in some
                   \* other way than by appending to it (history)

vars == <<list, built, behind>>

\* The generated functions that select a handler by the tag.
Function == {"match", "dispatch", "copy", "destroy"}

Upto == UNION {[1 .. n -> Name] : n \in 0 .. MaxList}

\* A list: a name occurs once, or its enum constant would clash.
Lists == {l \in Upto : \A m, n \in DOMAIN l : l[m] = l[n] => m = n}

\* Before its first build a unit has no code.
NotBuilt == [list |-> <<>>, call |-> <<>>, news |-> {}]

Init == list \in Lists /\ built = [u \in Unit |-> NotBuilt] /\ behind = {}

\* The compiler on a call of one of these functions: one argument
\* per variant, and each of its variant's type (-Werror).  The faults: a
\* prototype that leaves the arguments open; one that takes any type.
Accepts_AnyCount(l, call) ==
  \A n \in DOMAIN call \cap DOMAIN l : TypeOf[call[n]] = TypeOf[l[n]]

Accepts_AnyType(l, call) == Len(call) = Len(l)

Accepts(l, call) ==
  /\ Len(call) = Len(l)
  /\ \A n \in 1 .. Len(l) : TypeOf[call[n]] = TypeOf[l[n]]

\* The compiler on SUM_NEW of an expression of type t: _Generic wants one
\* association for it and no two of the same type.  The fault is a selection
\* that takes the first association that fits.
SelectsNew_First(l, t) == \E n \in DOMAIN l : TypeOf[l[n]] = t

SelectsNew(l, t) ==
  /\ \E n \in DOMAIN l : TypeOf[l[n]] = t
  /\ \A m, n \in DOMAIN l : TypeOf[l[m]] = TypeOf[l[n]] => m = n

\* The list in the header is edited; no unit is compiled by that.
Edit ==
  /\ list' \in Lists
  /\ behind' = IF IsPrefix(list, list') THEN behind ELSE Unit
  /\ UNCHANGED built

\* Unit u is compiled with its handlers in some order and with SUM_NEW of
\* some types.  C has no empty enum.  If the compiler rejects it, the old
\* object file stays.
Compile(u, call, news) ==
  /\ list # <<>>
  /\ Accepts(list, call)
  /\ \A t \in news : SelectsNew(list, t)
  /\ built' = [built EXCEPT ![u] = [list |-> list, call |-> call, news |-> news]]
  /\ behind' = behind \ {u}
  /\ UNCHANGED list

Next ==
  \/ Edit
  \/ \E u \in Unit, call \in Upto, news \in SUBSET Type : Compile(u, call, news)

Spec == Init /\ [][Next]_vars

\* What function f of unit v does with the n-th tag: a case of the switch calls
\* the argument in that place.  Without a case dispatch and destroy return,
\* while match and copy run into SUM_UNREACHABLE.
Outcome(v, f, n) ==
  IF n \in DOMAIN built[v].list
    THEN [end |-> "handled", by |-> {built[v].call[k] : k \in {n} \cap DOMAIN built[v].call}]
    ELSE [end |-> IF f \in {"match", "copy"} THEN "undefined" ELSE "ignored", by |-> {}]

------------------------------------------------------------------------------
\* Properties.

\* Every variable has its type.
TypeOK ==
  /\ list \in Lists
  /\ built \in [Unit -> [list : Lists, call : Upto, news : SUBSET Type]]
  /\ behind \subseteq Unit

\* The list has changed since unit v was compiled.
Stale(v) == built[v].list # list

\* No two of the variants that a unit knows, or has handlers of, share a type.
Members(seq) == {seq[n] : n \in DOMAIN seq}

Distinct(u) ==
  \A a, b \in Members(built[u].list) \cup Members(built[u].call) :
    TypeOf[a] = TypeOf[b] => a = b

\* No unit handles a payload as a type that it does not have, even if types
\* are shared between variants, unless it or the unit that made the value is
\* still to be compiled after an edit that inserted, moved or removed variants.
PayloadFitsHandler ==
  \A u, v \in Unit \ behind, f \in Function : \A n \in DOMAIN built[u].list :
    \A h \in Outcome(v, f, n).by : TypeOf[h] = TypeOf[built[u].list[n]]

\* If every payload type belongs to one variant, a tag made in one unit is
\* handled in another by the handler of its own variant, whatever the edits, if
\* both have been compiled since the last one that did not append.  After one
\* that did, a unit that is compiled finds a handler for every tag that meets
\* it; only in one that is not can match and copy run into SUM_UNREACHABLE.
TagFindsItsHandler ==
  \A u, v \in Unit \ behind, f \in Function : Distinct(v) =>
    \A n \in DOMAIN built[u].list :
      \/ Outcome(v, f, n).end = "handled" /\ Outcome(v, f, n).by = {built[u].list[n]}
      \/ Outcome(v, f, n).end # "handled" /\ Stale(v)

\* SUM_NEW of an expression makes a value of the one variant that has the
\* expression's type, and a unit that is up to date handles that value as that
\* type: neither the selection by type in one unit nor the position in the list
\* of another ever reads a payload as something else or misses its handler.
NewReachesItsHandler ==
  \A u, v \in Unit \ behind, f \in Function : \A t \in built[u].news :
    \E n \in DOMAIN built[u].list :
      /\ {m \in DOMAIN built[u].list : TypeOf[built[u].list[m]] = t} = {n}
      /\ \A h \in Outcome(v, f, n).by : TypeOf[h] = t
      /\ Outcome(v, f, n).by = {} => Stale(v)

==============================================================================
