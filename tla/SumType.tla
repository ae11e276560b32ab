-------------------------------- MODULE SumType --------------------------------
(***************************************************************************)
(* Values of a type that DEFINE_SUM_TYPE of                                *)
(* src/include/generic_sum_type.h generates, and what a program does to    *)
(* them: construct, look into with a getter, keep the pointer it returns   *)
(* and write through it later, match, dispatch, copy.                      *)
(*                                                                         *)
(* A value is a tag and a union; C keeps no record of the member that was  *)
(* written last, so the model does.  Handlers are the user's; here they    *)
(* read their payload and may write it.                                    *)
(***************************************************************************)
EXTENDS FiniteSets

CONSTANTS Var,      \* variables of the sum type
          Variant,  \* its variants, that is its tags
          BadTag,   \* a tag that no case matches
          Tampers   \* whether a program writes the tag field itself

ASSUME TagAssumption == BadTag \notin Variant /\ Tampers \in BOOLEAN

VARIABLES tag,      \* self->tag of each variable
          member,   \* the member of the union that was written last
          pointers, \* <<v, t>>: the program holds a pointer to v.as.t
          stale,    \* those taken before v got its present value (history)
          misused,  \* variables that, since they got their value, were
                    \* tampered with or written through a stale pointer to
                    \* another variant (history)
          misread,  \* variables of which a handler has read the present value
                    \* as a wrong variant (history)
          broken    \* SUM_UNREACHABLE was reached: nothing follows it

values == <<tag, member>>
vars == <<values, pointers, stale, misused, misread, broken>>

Init ==
  /\ tag \in [Var -> Variant]
  /\ member = tag
  /\ pointers = {} /\ stale = {} /\ misused = {} /\ misread = {}
  /\ broken = FALSE

\* The tag that a constructor, or a copy of variant t, puts into v.  The
\* fault is a constructor that fills the union and leaves the tag.
NewTag_Kept(v, t) == tag[v]

NewTag(v, t) == t

\* v gets a new value; pointers into v stay where they point.
Assign(v, t) ==
  /\ tag' = [tag EXCEPT ![v] = NewTag(v, t)]
  /\ member' = [member EXCEPT ![v] = t]
  /\ stale' = stale \cup {p \in pointers : p[1] = v}
  /\ misused' = misused \ {v}

\* v = NAME_new_t(x).
Construct(v, t) ==
  /\ Assign(v, t)
  /\ misread' = misread \ {v}
  /\ UNCHANGED <<pointers, broken>>

\* When a getter returns a pointer and not NULL; the fault never looks.
Gets_Always(v, t) == TRUE

Gets(v, t) == tag[v] = t

\* NAME_get_t(&v), of which the program keeps the pointer.
Get(v, t) ==
  /\ Gets(v, t)
  /\ pointers' = pointers \cup {<<v, t>>}
  /\ stale' = stale \ {<<v, t>>}
  /\ UNCHANGED <<values, misused, misread, broken>>

\* A write through such a pointer, later: nobody looks at the tag.
Write(v, t) ==
  /\ <<v, t>> \in pointers
  /\ member' = [member EXCEPT ![v] = t]
  /\ misused' = IF <<v, t>> \in stale /\ tag[v] # t THEN misused \cup {v} ELSE misused
  /\ UNCHANGED <<tag, pointers, stale, misread, broken>>

\* The variant of the case that the switch takes.
CaseOf(v) == tag[v]

\* The case of v's tag hands &v.as.<tag> to its handler.
Misread(v) == IF member[v] = CaseOf(v) THEN misread ELSE misread \cup {v}

\* DEFINE_SUM_MATCH and DEFINE_SUM_DISPATCH: the handler may write its payload.
Handle(v) ==
  /\ tag[v] \in Variant
  /\ misread' = Misread(v)
  /\ \/ UNCHANGED values
     \/ member' = [member EXCEPT ![v] = CaseOf(v)] /\ UNCHANGED tag
  /\ UNCHANGED <<pointers, stale, misused, broken>>

\* DEFINE_SUM_COPY: the new value of w is what the handler of v's variant
\* makes of the payload, here the same.
Copy(v, w) ==
  /\ tag[v] \in Variant
  /\ misread' = Misread(v) \ {w}
  /\ Assign(w, CaseOf(v))
  /\ UNCHANGED <<pointers, broken>>

\* A match or a copy of a tag without a case falls out of its switch into
\* SUM_UNREACHABLE.  A dispatch or a destroy just returns.
Unreachable(v) ==
  /\ tag[v] \notin Variant
  /\ broken' = TRUE
  /\ UNCHANGED <<values, pointers, stale, misused, misread>>

\* The program writes v.tag past the constructors.
Tamper(v) ==
  /\ Tampers
  /\ \E t \in Variant \cup {BadTag} : tag' = [tag EXCEPT ![v] = t]
  /\ misused' = misused \cup {v}
  /\ UNCHANGED <<member, pointers, stale, misread, broken>>

Next ==
  /\ ~broken
  /\ \E v \in Var :
       \/ \E t \in Variant : Construct(v, t) \/ Get(v, t) \/ Write(v, t)
       \/ \E w \in Var : Copy(v, w)
       \/ Handle(v) \/ Unreachable(v) \/ Tamper(v)

Spec == Init /\ [][Next]_vars

------------------------------------------------------------------------------
\* Properties.

\* Every variable has its type; the tag is a variant until it is misused.
TypeOK ==
  /\ tag \in [Var -> Variant \cup {BadTag}]
  /\ \A v \in Var : tag[v] = BadTag => v \in misused
  /\ member \in [Var -> Variant]
  /\ stale \subseteq pointers /\ pointers \subseteq Var \X Variant
  /\ misused \subseteq Var /\ misread \subseteq Var
  /\ broken \in BOOLEAN

\* The tag says what the union holds.  It stops doing so only where a pointer
\* outlived the value it was taken from (or the tag was written by hand), and
\* a new value makes it right again.
TagTellsMember ==
  \A v \in Var : v \notin misused => tag[v] = member[v]

\* A handler reads a payload of another variant only where its variable
\* was misused: without pointers that are kept over an assignment, match, dispatch
\* and copy are type-safe in every sequence of calls.
MisreadNeedsMisuse == misread \subseteq misused

\* Within a translation unit the unreachable end of match and copy is reached
\* only with a tag that was written by hand and not replaced by a new value
\* since.  (The tags of a unit with a longer list are VariantList's subject.)
BrokenNeedsTampering == broken => \E v \in misused : tag[v] = BadTag

==============================================================================
