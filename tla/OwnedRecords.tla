----------------------------- MODULE OwnedRecords -----------------------------
(***************************************************************************)
(* Records that own heap memory: the LogRecord of                          *)
(* src/examples/resource_demo.c with the copy and destroy functions that   *)
(* DEFINE_SUM_COPY and DEFINE_SUM_DESTROY generate, under any sequence of  *)
(* constructing, copying, assigning and destroying that a program makes.   *)
(*                                                                         *)
(* A text record owns a heap block, a number record owns nothing.  malloc  *)
(* gives out any block that is not live, one that was freed before too, so *)
(* a pointer left behind may come to point into somebody else's block.     *)
(***************************************************************************)
EXTENDS Naturals, FiniteSets

CONSTANTS Var,     \* the record variables of the program
          Block,   \* heap blocks
          Null,
          Clears   \* destroy_text prints the string, and sets the pointer to
                   \* NULL after free; that of src/verify/cbmc_destroy_harness.c
                   \* only frees

ASSUME NullAssumption == Null \notin Block

VARIABLES rec,     \* the record in each variable
          live,    \* the heap blocks allocated and not freed
          fault,   \* the first undefined operation; nothing follows it
          shared,  \* some record that owns a block was assigned with =
          forgot,  \* one was left undestroyed
          reused,  \* a destroyed text record was copied or destroyed again
          oom      \* some strdup has failed (all four are history)

history == <<shared, forgot, reused, oom>>
vars == <<rec, live, fault, history>>

\* A variable is out of scope, in use, or destroyed but still in scope.
State == {"none", "alive", "destroyed"}
Unset == [state |-> "none", tag |-> "number", msg |-> Null]
Number == [state |-> "alive", tag |-> "number", msg |-> Null]

\* LogRecord_new_text.
Text(m) == [state |-> "alive", tag |-> "text", msg |-> m]

Init ==
  /\ rec = [v \in Var |-> Unset]
  /\ live = {}
  /\ fault = "none"
  /\ shared = FALSE /\ forgot = FALSE /\ reused = FALSE /\ oom = FALSE

\* An operation on a pointer that has no string behind it.
Fault == {"use after free", "strdup(NULL)", "printf(NULL)"}
Undefined(what) == fault' = what /\ UNCHANGED <<rec, live, oom>>

Reused(v) == rec[v].state = "destroyed" /\ rec[v].tag = "text"

\* strdup into the record of variable v: a block that is not live, or NULL.
Strdup(v) ==
  \/ \E b \in Block \ live :
       /\ live' = live \cup {b}
       /\ rec' = [rec EXCEPT ![v] = Text(b)]
       /\ UNCHANGED oom
  \/ /\ rec' = [rec EXCEPT ![v] = Text(Null)]
     /\ oom' = TRUE
     /\ UNCHANGED live

\* LogRecord_new_text(strdup(...)) and LogRecord_new_number.
New(v) ==
  /\ rec[v].state = "none"
  /\ \/ Strdup(v)
     \/ rec' = [rec EXCEPT ![v] = Number] /\ UNCHANGED <<live, oom>>
  /\ UNCHANGED <<fault, shared, forgot, reused>>

\* copy_text: strdup of the string.  The faults: a SUM_DEFINE_IDENTITY_COPY
\* for the text variant; the copy is made and not returned.
CopyText_Identity(v, w) ==
  rec' = [rec EXCEPT ![w] = rec[v]] /\ UNCHANGED <<live, oom, fault>>

CopyText_Dropped(v, w) ==
  /\ rec[v].msg \in live
  /\ \E b \in Block \ live : live' = live \cup {b}
  /\ rec' = [rec EXCEPT ![w] = Text(Null)]
  /\ UNCHANGED <<oom, fault>>

CopyText(v, w) ==
  \/ rec[v].msg = Null /\ Undefined("strdup(NULL)")
  \/ rec[v].msg \in Block \ live /\ Undefined("use after free")
  \/ rec[v].msg \in live /\ Strdup(w) /\ UNCHANGED fault

\* LogRecord_copy into a new variable: the tag selects the copy handler.  A
\* destroyed record is copied like any other.
Copy(v, w) ==
  /\ rec[v].state # "none" /\ rec[w].state = "none"
  /\ IF rec[v].tag = "text"
       THEN CopyText(v, w)
       ELSE rec' = [rec EXCEPT ![w] = Number] /\ UNCHANGED <<live, oom, fault>>
  /\ reused' = (reused \/ Reused(v))
  /\ UNCHANGED <<shared, forgot>>

\* Plain assignment of one record to another copies the pointer.
Assign(v, w) ==
  /\ rec[v].state # "none" /\ rec[w].state = "none"
  /\ rec' = [rec EXCEPT ![w] = rec[v]]
  /\ shared' = (shared \/ rec[v].msg # Null)
  /\ UNCHANGED <<live, fault, forgot, reused, oom>>

\* What destroy_text leaves in the pointer; the fault keeps it.
After_Kept(m) == m

After(m) == IF Clears THEN Null ELSE m

\* destroy_text.  free of NULL does nothing, but the NULL is also printed with
\* %s, which is undefined and which the C library may let pass.
DestroyText(v) ==
  LET m == rec[v].msg IN
  \/ m \in Block \ live /\ Undefined("use after free")
  \/ m = Null /\ Clears /\ Undefined("printf(NULL)")
  \/ /\ m \in live \cup {Null}
     /\ live' = live \ {m}
     /\ rec' = [rec EXCEPT ![v].state = "destroyed", ![v].msg = After(m)]
     /\ UNCHANGED <<oom, fault>>

\* LogRecord_destroy: the tag selects the handler; destroy_number does
\* nothing.  A destroyed record may be destroyed again.
Destroy(v) ==
  /\ rec[v].state # "none"
  /\ IF rec[v].tag = "text"
       THEN DestroyText(v)
       ELSE rec' = [rec EXCEPT ![v].state = "destroyed"] /\ UNCHANGED <<live, oom, fault>>
  /\ reused' = (reused \/ Reused(v))
  /\ UNCHANGED <<shared, forgot>>

\* The variable goes out of scope, with or without having been destroyed.
Leave(v) ==
  /\ rec[v].state # "none"
  /\ rec' = [rec EXCEPT ![v] = Unset]
  /\ forgot' = (forgot \/ (rec[v].state = "alive" /\ rec[v].msg # Null))
  /\ UNCHANGED <<live, fault, shared, reused, oom>>

Next ==
  /\ fault = "none"
  /\ \/ \E v \in Var : New(v) \/ Destroy(v) \/ Leave(v)
     \/ \E v, w \in Var : Copy(v, w) \/ Assign(v, w)

Spec == Init /\ [][Next]_vars

------------------------------------------------------------------------------
\* Properties.

\* Every variable has its type, and only a text record holds a pointer.
TypeOK ==
  /\ rec \in [Var -> [state : State, tag : {"text", "number"}, msg : Block \cup {Null}]]
  /\ \A v \in Var : rec[v].tag = "number" => rec[v].msg = Null
  /\ live \subseteq Block
  /\ fault \in {"none"} \cup Fault
  /\ shared \in BOOLEAN /\ forgot \in BOOLEAN /\ reused \in BOOLEAN /\ oom \in BOOLEAN

Owners(b) == {v \in Var : rec[v].state = "alive" /\ rec[v].msg = b}

\* A program that copies with LogRecord_copy and destroys every record, maybe
\* more than once, has each live block in exactly one record: nothing leaks,
\* nothing is shared, even while allocations fail.
OneOwner ==
  (Clears /\ ~shared /\ ~forgot) =>
    \A b \in Block : Cardinality(Owners(b)) = IF b \in live THEN 1 ELSE 0

\* No block is freed twice, and no freed one is printed or copied, unless a
\* record was assigned with =: with the pointer cleared, a destroyed record has
\* no string to reach, whatever is done with it.
UseAfterFreeNeedsSharing == (Clears /\ fault = "use after free") => shared

\* A NULL comes to strdup or printf only after an allocation that failed
\* unnoticed, or in a record that was used after it was destroyed: every other
\* text record has its string.
NullNeedsCause == fault \in {"strdup(NULL)", "printf(NULL)"} => oom \/ reused

\* What leaks was forgotten: if every record is destroyed before it leaves
\* its scope, every live block has an owner, even if records were shared and
\* one was destroyed whose pointer had come to point into another's block.
LeakNeedsForgetting == ~forgot => \A b \in live : Owners(b) # {}

==============================================================================
