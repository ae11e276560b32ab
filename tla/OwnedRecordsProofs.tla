-------------------------- MODULE OwnedRecordsProofs --------------------------
(***************************************************************************)
(* Proofs about OwnedRecords for any records and any blocks.               *)
(*                                                                         *)
(* Kept says that what leaks was forgotten; Private that without a plain   *)
(* assignment every pointer is the only one to its live block; Filled that *)
(* without a failed allocation every text record has its string.  Each is  *)
(* inductive with TypeOK, and together they give OneOwner.                 *)
(***************************************************************************)
EXTENDS OwnedRecords, FiniteSetTheorems, TLAPS

Kept == LeakNeedsForgetting

\* Every pointer is that of a record in use, to a live block of its own.
Private ==
  (Clears /\ ~shared) =>
    \A v \in Var : rec[v].msg # Null =>
      /\ rec[v].state = "alive"
      /\ rec[v].msg \in live
      /\ \A w \in Var : rec[w].msg = rec[v].msg => w = v

Filled ==
  ~oom => \A v \in Var :
            rec[v].state = "alive" /\ rec[v].tag = "text" => rec[v].msg # Null

Inv ==
  /\ TypeOK
  /\ Kept
  /\ Private
  /\ Filled
  /\ UseAfterFreeNeedsSharing
  /\ NullNeedsCause

Record == [state : State, tag : {"text", "number"}, msg : Block \cup {Null}]

\* A record is put in the place of another.
LEMMA RecReplaced ==
  ASSUME TypeOK, NEW v \in Var, NEW r \in Record,
         r.tag = "number" => r.msg = Null, rec' = [rec EXCEPT ![v] = r]
  PROVE  /\ rec' \in [Var -> Record]
         /\ \A w \in Var : rec'[w].tag = "number" => rec'[w].msg = Null
         /\ rec'[v] = r
         /\ \A w \in Var : w # v => rec'[w] = rec[w]
BY DEF TypeOK, Record

LEMMA ConstantRecords ==
  /\ Unset \in Record /\ Number \in Record
  /\ \A m \in Block \cup {Null} : Text(m) \in Record
BY DEF Unset, Number, Text, Record, State

LEMMA InvInit == Init => Inv
<1> SUFFICES ASSUME Init PROVE Inv
  OBVIOUS
<1>1. TypeOK
  BY ConstantRecords DEF Init, TypeOK, Unset, Record
<1>2. Kept /\ Private /\ Filled
  BY DEF Init, Kept, LeakNeedsForgetting, Private, Filled, Unset
<1>3. UseAfterFreeNeedsSharing /\ NullNeedsCause
  BY DEF Init, UseAfterFreeNeedsSharing, NullNeedsCause
<1> QED BY <1>1, <1>2, <1>3 DEF Inv

\* A step that goes on without fault.
LEMMA InvSound ==
  ASSUME Inv, fault = "none", UNCHANGED fault, TypeOK', Kept', Private', Filled'
  PROVE  Inv'
BY DEF Inv, UseAfterFreeNeedsSharing, NullNeedsCause

\* A step that ends in a fault, with the cause that it needs.
LEMMA InvUndefined ==
  ASSUME Inv, NEW what \in Fault, Undefined(what), UNCHANGED <<shared, forgot>>, reused' \in BOOLEAN,
         UseAfterFreeNeedsSharing', NullNeedsCause'
  PROVE  Inv'
<1>0. TypeOK /\ Kept /\ Private /\ Filled
  BY DEF Inv
<1>1. fault' = what /\ UNCHANGED <<rec, live, shared, forgot, oom>>
  BY DEF Undefined
<1>2. TypeOK'
  BY <1>0, <1>1 DEF TypeOK
<1>3. Kept'
  BY <1>0, <1>1 DEF Kept, LeakNeedsForgetting, Owners
<1>4. Private' /\ Filled'
  BY <1>0, <1>1 DEF Private, Filled
<1> QED BY <1>2, <1>3, <1>4 DEF Inv

\* A text record without its string has lost it to a failed allocation or to
\* destroy_text, and a dangling one has shared it.
LEMMA StringLost ==
  ASSUME Inv, NEW v \in Var, rec[v].state # "none", rec[v].tag = "text"
  PROVE  /\ rec[v].msg = Null => oom \/ Reused(v)
         /\ (Clears /\ rec[v].msg \in Block \ live) => shared
<1>1. rec[v].state \in {"alive", "destroyed"}
  BY DEF Inv, TypeOK, State
<1> QED BY <1>1, NullAssumption DEF Inv, Filled, Private, Reused, TypeOK

\* A record that comes into use with a new block or with none.
LEMMA InvStrdup ==
  ASSUME Inv, fault = "none", NEW v \in Var, rec[v].state = "none", Strdup(v),
         UNCHANGED <<fault, shared, forgot>>, reused' \in BOOLEAN
  PROVE  Inv'
<1>0. TypeOK /\ Kept /\ Private /\ Filled
  BY DEF Inv
<1>1. CASE \E b \in Block \ live :
             live' = live \cup {b} /\ rec' = [rec EXCEPT ![v] = Text(b)] /\ UNCHANGED oom
  <2>1. PICK b \in Block \ live :
          live' = live \cup {b} /\ rec' = [rec EXCEPT ![v] = Text(b)] /\ UNCHANGED oom
    BY <1>1
  <2>2. Text(b) \in Record /\ Text(b).tag = "text" /\ Text(b).state = "alive" /\ Text(b).msg = b
    BY ConstantRecords DEF Text
  <2>3. /\ rec' \in [Var -> Record] /\ rec'[v] = Text(b)
        /\ \A w \in Var : rec'[w].tag = "number" => rec'[w].msg = Null
        /\ \A w \in Var : w # v => rec'[w] = rec[w]
    BY <1>0, <2>1, <2>2, RecReplaced
  <2>4. TypeOK'
    BY <1>0, <2>1, <2>3 DEF TypeOK, Record
  <2>5. Kept'
    BY <1>0, <2>1, <2>2, <2>3 DEF Kept, LeakNeedsForgetting, Owners
  <2>6. Private'
    BY <1>0, <2>1, <2>2, <2>3 DEF Private
  <2>7. Filled'
    BY <1>0, <2>1, <2>2, <2>3, NullAssumption DEF Filled
  <2> QED BY <2>4, <2>5, <2>6, <2>7, InvSound
<1>2. CASE rec' = [rec EXCEPT ![v] = Text(Null)] /\ oom' = TRUE /\ UNCHANGED live
  <2>1. Text(Null) \in Record /\ Text(Null).tag = "text" /\ Text(Null).msg = Null
    BY ConstantRecords DEF Text
  <2>2. /\ rec' \in [Var -> Record] /\ rec'[v] = Text(Null)
        /\ \A w \in Var : rec'[w].tag = "number" => rec'[w].msg = Null
        /\ \A w \in Var : w # v => rec'[w] = rec[w]
    BY <1>0, <1>2, <2>1, RecReplaced
  <2>3. TypeOK'
    BY <1>0, <1>2, <2>2 DEF TypeOK, Record
  <2>4. Kept'
    BY <1>0, <1>2, <2>1, <2>2 DEF Kept, LeakNeedsForgetting, Owners
  <2>5. Private' /\ Filled'
    BY <1>0, <1>2, <2>1, <2>2 DEF Private, Filled
  <2> QED BY <2>3, <2>4, <2>5, InvSound
<1> QED BY <1>1, <1>2 DEF Strdup

\* A record without a pointer comes into use.
LEMMA InvNumber ==
  ASSUME Inv, fault = "none", NEW v \in Var, rec[v].state = "none",
         NEW r \in Record, r.msg = Null, ~oom => r.tag = "number",
         rec' = [rec EXCEPT ![v] = r],
         UNCHANGED <<live, fault, shared, forgot, oom>>, reused' \in BOOLEAN
  PROVE  Inv'
<1>0. TypeOK /\ Kept /\ Private /\ Filled
  BY DEF Inv
<1>1. /\ rec' \in [Var -> Record] /\ rec'[v] = r
      /\ \A w \in Var : rec'[w].tag = "number" => rec'[w].msg = Null
      /\ \A w \in Var : w # v => rec'[w] = rec[w]
  BY <1>0, RecReplaced
<1>2. TypeOK'
  BY <1>0, <1>1 DEF TypeOK, Record
<1>3. Kept'
  BY <1>0, <1>1 DEF Kept, LeakNeedsForgetting, Owners
<1>4. Private' /\ Filled'
  BY <1>0, <1>1 DEF Private, Filled
<1> QED BY <1>2, <1>3, <1>4, InvSound

LEMMA InvNew ==
  ASSUME Inv, fault = "none", NEW v \in Var, New(v)
  PROVE  Inv'
<1>0. reused' \in BOOLEAN
  BY DEF New, Inv, TypeOK
<1>1. CASE Strdup(v)
  BY <1>0, <1>1, InvStrdup DEF New
<1>2. CASE rec' = [rec EXCEPT ![v] = Number] /\ UNCHANGED <<live, oom>>
  <2>1. Number \in Record /\ Number.msg = Null /\ Number.tag = "number"
    BY ConstantRecords DEF Number
  <2> QED BY <1>0, <1>2, <2>1, InvNumber DEF New
<1> QED BY <1>1, <1>2 DEF New

LEMMA InvCopy ==
  ASSUME Inv, fault = "none", NEW v \in Var, NEW w \in Var, Copy(v, w)
  PROVE  Inv'
<1>0. /\ rec[v].state # "none" /\ rec[w].state = "none"
      /\ reused' = (reused \/ Reused(v)) /\ UNCHANGED <<shared, forgot>>
      /\ reused' \in BOOLEAN
  BY DEF Copy, Inv, TypeOK, Reused
<1>1. CASE rec[v].tag = "text"
  <2>0. CopyText(v, w)
    BY <1>1 DEF Copy
  <2>1. CASE rec[v].msg = Null /\ Undefined("strdup(NULL)")
    <3>1. oom \/ Reused(v)
      BY <1>0, <1>1, <2>1, StringLost
    <3>2. UseAfterFreeNeedsSharing' /\ NullNeedsCause'
      BY <1>0, <2>1, <3>1 DEF Undefined, UseAfterFreeNeedsSharing, NullNeedsCause
    <3> QED BY <1>0, <2>1, <3>2, InvUndefined DEF Fault
  <2>2. CASE rec[v].msg \in Block \ live /\ Undefined("use after free")
    <3>1. Clears => shared
      BY <1>0, <1>1, <2>2, StringLost
    <3>2. UseAfterFreeNeedsSharing' /\ NullNeedsCause'
      BY <1>0, <2>2, <3>1 DEF Undefined, UseAfterFreeNeedsSharing, NullNeedsCause
    <3> QED BY <1>0, <2>2, <3>2, InvUndefined DEF Fault
  <2>3. CASE Strdup(w) /\ UNCHANGED fault
    BY <1>0, <2>3, InvStrdup
  <2> QED BY <2>0, <2>1, <2>2, <2>3 DEF CopyText
<1>2. CASE rec[v].tag # "text"
  <2>1. Number \in Record /\ Number.msg = Null /\ Number.tag = "number"
    BY ConstantRecords DEF Number
  <2> QED BY <1>0, <1>2, <2>1, InvNumber DEF Copy
<1> QED BY <1>1, <1>2

LEMMA InvAssign ==
  ASSUME Inv, fault = "none", NEW v \in Var, NEW w \in Var, Assign(v, w)
  PROVE  Inv'
<1>0. TypeOK /\ Kept /\ Private /\ Filled
  BY DEF Inv
<1>1. rec[v] \in Record /\ (rec[v].tag = "number" => rec[v].msg = Null)
  BY <1>0 DEF TypeOK, Record
<1>2. rec[w].state = "none" /\ rec' = [rec EXCEPT ![w] = rec[v]]
      /\ shared' = (shared \/ rec[v].msg # Null)
      /\ UNCHANGED <<live, fault, forgot, reused, oom>>
  BY DEF Assign
<1>3. /\ rec' \in [Var -> Record] /\ rec'[w] = rec[v]
      /\ \A x \in Var : rec'[x].tag = "number" => rec'[x].msg = Null
      /\ \A x \in Var : x # w => rec'[x] = rec[x]
  BY <1>0, <1>1, <1>2, RecReplaced
<1>4. TypeOK'
  BY <1>0, <1>2, <1>3 DEF TypeOK, Record
<1>5. Kept'
  BY <1>0, <1>2, <1>3 DEF Kept, LeakNeedsForgetting, Owners
<1>6. Private'
  BY <1>0, <1>2, <1>3 DEF Private, TypeOK
<1>7. Filled'
  BY <1>0, <1>2, <1>3 DEF Filled
<1> QED BY <1>2, <1>4, <1>5, <1>6, <1>7, InvSound

\* A record that is destroyed with its block, or without one.
LEMMA InvDestroyed ==
  ASSUME Inv, fault = "none", NEW v \in Var, rec[v].state # "none",
         NEW m \in Block \cup {Null}, rec[v].tag = "number" => m = Null,
         Clears => m = Null,
         live' = live \ {rec[v].msg},
         rec' = [rec EXCEPT ![v].state = "destroyed", ![v].msg = m],
         UNCHANGED <<fault, shared, forgot, oom>>, reused' \in BOOLEAN
  PROVE  Inv'
<1>0. TypeOK /\ Kept /\ Private /\ Filled
  BY DEF Inv
<1> DEFINE r == [rec[v] EXCEPT !.state = "destroyed", !.msg = m]
<1>1. rec' = [rec EXCEPT ![v] = r]
  OBVIOUS
<1>2. \A q \in Record, n \in Block \cup {Null} :
        LET d == [q EXCEPT !.state = "destroyed", !.msg = n]
        IN  d \in Record /\ d.state = "destroyed" /\ d.msg = n /\ d.tag = q.tag
  <2> TAKE q \in Record, n \in Block \cup {Null}
  <2> QED BY DEF Record, State
<1>3. r \in Record /\ r.state = "destroyed" /\ r.msg = m /\ r.tag = rec[v].tag
  <2>1. rec[v] \in Record
    BY <1>0 DEF TypeOK, Record
  <2> QED BY <1>2, <2>1, Zenon
<1> HIDE DEF r
<1>4. /\ rec' \in [Var -> Record] /\ rec'[v] = r
      /\ \A w \in Var : rec'[w].tag = "number" => rec'[w].msg = Null
      /\ \A w \in Var : w # v => rec'[w] = rec[w]
  BY <1>0, <1>1, <1>3, RecReplaced
<1>5. TypeOK'
  BY <1>0, <1>4 DEF TypeOK, Record
<1>6. Kept'
  BY <1>0, <1>3, <1>4 DEF Kept, LeakNeedsForgetting, Owners
<1>7. Private'
  BY <1>0, <1>3, <1>4 DEF Private
<1>8. Filled'
  BY <1>0, <1>3, <1>4 DEF Filled
<1> QED BY <1>5, <1>6, <1>7, <1>8, InvSound

LEMMA InvDestroy ==
  ASSUME Inv, fault = "none", NEW v \in Var, Destroy(v)
  PROVE  Inv'
<1>0. /\ rec[v].state # "none" /\ reused' = (reused \/ Reused(v))
      /\ UNCHANGED <<shared, forgot>> /\ reused' \in BOOLEAN
  BY DEF Destroy, Inv, TypeOK, Reused
<1>1. rec[v].msg \in Block \cup {Null} /\ (rec[v].tag = "number" => rec[v].msg = Null)
  BY DEF Inv, TypeOK
<1>2. CASE rec[v].tag = "text"
  <2> DEFINE m == rec[v].msg
  <2>0. DestroyText(v)
    BY <1>2 DEF Destroy
  <2>1. CASE m \in Block \ live /\ Undefined("use after free")
    <3>1. Clears => shared
      BY <1>0, <1>2, <2>1, StringLost
    <3>2. UseAfterFreeNeedsSharing' /\ NullNeedsCause'
      BY <1>0, <2>1, <3>1 DEF Undefined, UseAfterFreeNeedsSharing, NullNeedsCause
    <3> QED BY <1>0, <2>1, <3>2, InvUndefined DEF Fault
  <2>2. CASE m = Null /\ Clears /\ Undefined("printf(NULL)")
    <3>1. oom \/ Reused(v)
      BY <1>0, <1>2, <2>2, StringLost
    <3>2. UseAfterFreeNeedsSharing' /\ NullNeedsCause'
      BY <1>0, <2>2, <3>1 DEF Undefined, UseAfterFreeNeedsSharing, NullNeedsCause
    <3> QED BY <1>0, <2>2, <3>2, InvUndefined DEF Fault
  <2>3. CASE /\ live' = live \ {m}
             /\ rec' = [rec EXCEPT ![v].state = "destroyed", ![v].msg = After(m)]
             /\ UNCHANGED <<oom, fault>>
    <3>1. After(m) \in Block \cup {Null} /\ (Clears => After(m) = Null)
      BY <1>1 DEF After
    <3> QED BY <1>0, <1>2, <2>3, <3>1, InvDestroyed
  <2> QED BY <2>0, <2>1, <2>2, <2>3 DEF DestroyText
<1>3. CASE rec[v].tag # "text"
  <2>1. /\ rec' = [rec EXCEPT ![v].state = "destroyed"]
        /\ UNCHANGED <<live, oom, fault>>
    BY <1>3 DEF Destroy
  <2>2. rec[v].msg = Null
    BY <1>1, <1>3 DEF Inv, TypeOK
  <2>3. live' = live \ {rec[v].msg}
    BY <2>1, <2>2, NullAssumption DEF Inv, TypeOK
  <2>4. rec' = [rec EXCEPT ![v].state = "destroyed", ![v].msg = Null]
    BY <2>1, <2>2 DEF Inv, TypeOK
  <2> QED BY <1>0, <2>1, <2>2, <2>3, <2>4, InvDestroyed
<1> QED BY <1>2, <1>3

LEMMA InvLeave ==
  ASSUME Inv, fault = "none", NEW v \in Var, Leave(v)
  PROVE  Inv'
<1>0. TypeOK /\ Kept /\ Private /\ Filled
  BY DEF Inv
<1>1. Unset \in Record /\ Unset.msg = Null /\ Unset.tag = "number" /\ Unset.state = "none"
  BY ConstantRecords DEF Unset
<1>2. /\ rec' = [rec EXCEPT ![v] = Unset]
      /\ forgot' = (forgot \/ (rec[v].state = "alive" /\ rec[v].msg # Null))
      /\ UNCHANGED <<live, fault, shared, reused, oom>>
  BY DEF Leave
<1>3. /\ rec' \in [Var -> Record] /\ rec'[v] = Unset
      /\ \A w \in Var : rec'[w].tag = "number" => rec'[w].msg = Null
      /\ \A w \in Var : w # v => rec'[w] = rec[w]
  BY <1>0, <1>1, <1>2, RecReplaced
<1>4. TypeOK'
  BY <1>0, <1>2, <1>3 DEF TypeOK, Record
<1>5. Kept'
  <2> SUFFICES ASSUME ~forgot', NEW b \in live PROVE \E w \in Var : w \in Owners(b)'
    BY <1>2 DEF Kept, LeakNeedsForgetting
  <2>1. ~forgot /\ ~(rec[v].state = "alive" /\ rec[v].msg # Null)
    BY <1>2
  <2>2. PICK w \in Var : rec[w].state = "alive" /\ rec[w].msg = b
    BY <1>0, <2>1 DEF Kept, LeakNeedsForgetting, Owners
  <2>3. w # v
    BY <1>0, <2>1, <2>2, NullAssumption DEF TypeOK
  <2> QED BY <1>3, <2>2, <2>3 DEF Owners
<1>6. Private' /\ Filled'
  BY <1>0, <1>1, <1>2, <1>3 DEF Private, Filled
<1> QED BY <1>2, <1>4, <1>5, <1>6, InvSound

LEMMA InvNext == Inv /\ [Next]_vars => Inv'
<1> SUFFICES ASSUME Inv, [Next]_vars PROVE Inv'
  OBVIOUS
<1>1. CASE Next
  BY <1>1, InvNew, InvDestroy, InvLeave, InvCopy, InvAssign DEF Next
<1>2. CASE UNCHANGED vars
  <2>1. UNCHANGED <<rec, live, fault, shared, forgot, reused, oom>>
    BY <1>2 DEF vars, history
  <2>2. TypeOK'
    BY <2>1 DEF Inv, TypeOK
  <2>3. Kept'
    BY <2>1 DEF Inv, Kept, LeakNeedsForgetting, Owners
  <2>4. Private' /\ Filled'
    BY <2>1 DEF Inv, Private, Filled
  <2>5. UseAfterFreeNeedsSharing' /\ NullNeedsCause'
    BY <2>1 DEF Inv, UseAfterFreeNeedsSharing, NullNeedsCause
  <2> QED BY <2>2, <2>3, <2>4, <2>5 DEF Inv
<1> QED BY <1>1, <1>2

LEMMA Invariance == Spec => []Inv
BY InvInit, InvNext, PTL DEF Spec

------------------------------------------------------------------------------
\* Every variable keeps its type.
THEOREM TypeCorrect == Spec => []TypeOK
<1>1. Inv => TypeOK
  BY DEF Inv
<1> QED BY <1>1, Invariance, PTL

\* No freed block is printed, copied or freed in a program without plain
\* assignment.
THEOREM NoUseAfterFree == Spec => []UseAfterFreeNeedsSharing
<1>1. Inv => UseAfterFreeNeedsSharing
  BY DEF Inv
<1> QED BY <1>1, Invariance, PTL

\* strdup and printf get NULL only after an allocation has failed, or for a
\* record that was used after it was destroyed.
THEOREM NullTraced == Spec => []NullNeedsCause
<1>1. Inv => NullNeedsCause
  BY DEF Inv
<1> QED BY <1>1, Invariance, PTL

\* Only a record that was not destroyed leaks its block.
THEOREM NoLeak == Spec => []LeakNeedsForgetting
<1>1. Inv => LeakNeedsForgetting
  BY DEF Inv, Kept
<1> QED BY <1>1, Invariance, PTL

\* Every live block has exactly one owner in a program that copies with
\* LogRecord_copy and destroys every record, for any number of them.
THEOREM OneOwnerEach == Spec => []OneOwner
<1>1. Inv => OneOwner
  <2> SUFFICES ASSUME Inv, Clears, ~shared, ~forgot, NEW b \in Block
               PROVE  Cardinality(Owners(b)) = IF b \in live THEN 1 ELSE 0
    BY DEF OneOwner
  <2>1. \A v, w \in Owners(b) : v = w /\ b \in live
    BY NullAssumption DEF Inv, Private, Owners
  <2>2. CASE b \in live
    <3>1. PICK v : v \in Owners(b)
      BY <2>2 DEF Inv, Kept, LeakNeedsForgetting
    <3>2. Owners(b) = {v}
      BY <2>1, <3>1
    <3> QED BY <2>2, <3>2, FS_Singleton
  <2>3. CASE b \notin live
    <3>1. Owners(b) = {}
      BY <2>1, <2>3
    <3> QED BY <2>3, <3>1, FS_EmptySet
  <2> QED BY <2>2, <2>3
<1> QED BY <1>1, Invariance, PTL

==============================================================================
