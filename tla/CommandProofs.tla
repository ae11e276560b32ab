----------------------------- MODULE CommandProofs -----------------------------
(***************************************************************************)
(* Proofs about the two command processors: RecipeStore, for every number  *)
(* of slots, every length of a name and every alphabet, and                *)
(* InternalCommand, for every set of payloads and every number of commands.*)
(***************************************************************************)
EXTENDS RecipeStore, InternalCommand, SumTheorems

\* Once a query has been answered with a recipe, one is always selected.
AnsweredIsSelected == last # None => current # None

Inv ==
  /\ TypeOK
  /\ SelectedExists
  /\ NamesTerminated
  /\ AnsweredIsSelected
  /\ StaleAnswerWasReplaced

\* The first byte of a name alone decides whether it ends there.
LEMMA EndedAtFirst ==
  ASSUME NEW a \in Name, NEW j \in Index, a[0] = NUL
  PROVE  Ended(a, j)
BY SizeAssumption DEF Name, Index, Ended

\* strncpy and the terminator leave a terminated name, whatever was there.
LEMMA StoredIsName ==
  ASSUME NEW p \in Name, NEW old
  PROVE  /\ Stored(p, old) \in Name
         /\ Stored(p, old)[NameMax - 1] = NUL
BY SizeAssumption DEF Stored, Name, Index

\* A name whose first byte is cleared is a name.
LEMMA ClearedIsName ==
  ASSUME NEW a \in Name
  PROVE  /\ [a EXCEPT ![0] = NUL] \in Name
         /\ [a EXCEPT ![0] = NUL][0] = NUL
BY SizeAssumption DEF Name, Index

\* A NUL anywhere in the array ends it before its last byte is passed.
LEMMA EndsWithin ==
  ASSUME NEW a \in Name, NEW j \in Index, a[j] = NUL
  PROVE  Ended(a, NameMax - 1)
BY SizeAssumption DEF Name, Index, Ended

\* With the index checked, a create writes one slot and no other memory.
LEMMA CreateWritesItsSlot ==
  ASSUME TypeOK, NEW n, NEW p, Create(n, p)
  PROVE  /\ n \in Slot /\ n # None
         /\ used' = [used EXCEPT ![n] = TRUE]
         /\ name' = [name EXCEPT ![n] = Stored(p, name[n])]
         /\ UNCHANGED <<current, last>>
<1>1. n \in Slot /\ n # None
  BY DEF Create, MayCreate, Valid, Slot, None
<1>2. Slot \cup {n} = Slot
  BY <1>1
<1> QED
  BY <1>1, <1>2 DEF Create, Put, TypeOK

\* The inductive invariant of the store: what the commands rely on of one
\* another (select and delete both look at used, delete at current).
THEOREM Invariance == Spec => []Inv
<1>1. Init => Inv
  <2> SUFFICES ASSUME Init PROVE Inv
    OBVIOUS
  <2>1. Blank \in Name /\ Blank[0] = NUL
    BY SizeAssumption DEF Blank, Name, Index
  <2>2. TypeOK
    BY <2>1 DEF Init, TypeOK, None
  <2>3. NamesTerminated
    BY <2>1, SizeAssumption, EndsWithin DEF Init, NamesTerminated, Index
  <2> QED
    BY <2>2, <2>3 DEF Init, Inv, SelectedExists, AnsweredIsSelected, StaleAnswerWasReplaced
<1>2. Inv /\ [Next]_vars => Inv'
  <2> SUFFICES ASSUME Inv, [Next]_vars PROVE Inv'
    OBVIOUS
  <2> USE DEF Inv
  <2>1. ASSUME NEW n \in Argument, NEW p \in Name, Create(n, p) PROVE Inv'
    <3>1. /\ n \in Slot /\ n # None
          /\ used' = [used EXCEPT ![n] = TRUE]
          /\ name' = [name EXCEPT ![n] = Stored(p, name[n])]
          /\ UNCHANGED <<current, last>>
      BY <2>1, CreateWritesItsSlot
    <3>2. Stored(p, name[n]) \in Name /\ Stored(p, name[n])[NameMax - 1] = NUL
      BY StoredIsName
    <3>3. TypeOK'
      BY <3>1, <3>2 DEF TypeOK
    <3>4. Ended(Stored(p, name[n]), NameMax - 1)
      BY <3>2, EndsWithin, SizeAssumption DEF Index
    <3>5. NamesTerminated'
      BY <3>1, <3>4 DEF TypeOK, NamesTerminated
    <3>6. SelectedExists' /\ AnsweredIsSelected' /\ StaleAnswerWasReplaced'
      BY <3>1 DEF TypeOK, SelectedExists, AnsweredIsSelected,
                  StaleAnswerWasReplaced
    <3> QED
      BY <3>3, <3>5, <3>6
  <2>2. ASSUME NEW n \in Argument, Delete(n) PROVE Inv'
    <3>1. n \in Slot /\ n # None /\ used[n] /\ current # n
      BY <2>2 DEF Delete, MayDelete, Valid, Slot, None
    <3>2. name'[n] \in Name /\ name'[n][0] = NUL
      BY <2>2, <3>1, ClearedIsName DEF Delete, TypeOK
    <3>3. TypeOK'
      BY <2>2, <3>1, <3>2 DEF Delete, TypeOK
    <3>4. Ended(name'[n], NameMax - 1)
      BY <3>2, EndsWithin, SizeAssumption DEF Index
    <3>5. NamesTerminated'
      BY <2>2, <3>1, <3>2, <3>4 DEF Delete, TypeOK, NamesTerminated
    <3>6. SelectedExists' /\ AnsweredIsSelected'
      BY <2>2, <3>1 DEF Delete, TypeOK, SelectedExists, AnsweredIsSelected
    <3>7. StaleAnswerWasReplaced'
      BY <2>2, <3>1 DEF Delete, TypeOK, AnsweredIsSelected, StaleAnswerWasReplaced
    <3> QED
      BY <3>3, <3>5, <3>6, <3>7
  <2>3. ASSUME NEW n \in Argument, Select(n) PROVE Inv'
    BY <2>3 DEF Select, MaySelect, Valid, Slot, None, TypeOK, SelectedExists,
                NamesTerminated, AnsweredIsSelected, StaleAnswerWasReplaced
  <2>4. ASSUME Query PROVE Inv'
    BY <2>4 DEF Query, TypeOK, SelectedExists, NamesTerminated, AnsweredIsSelected,
                StaleAnswerWasReplaced
  <2>5. ASSUME UNCHANGED vars PROVE Inv'
    BY <2>5 DEF vars, TypeOK, SelectedExists, NamesTerminated, AnsweredIsSelected,
                StaleAnswerWasReplaced
  <2> QED
    BY <2>1, <2>2, <2>3, <2>4, <2>5 DEF Next, Refuse
<1> QED
  BY <1>1, <1>2, PTL DEF Spec

\* No command stores anything of the wrong type, for any number it carries.
THEOREM TypeCorrect == Spec => []TypeOK
BY Invariance, PTL DEF Inv

\* Whatever is created, deleted and selected in whatever order, the selected
\* recipe exists: on_delete's refusal protects it for good.
THEOREM SelectionIsSafe == Spec => []SelectedExists
BY Invariance, PTL DEF Inv

\* Every name stays a terminated string however long the names are that
\* on_create is given.
THEOREM NamesAreStrings == Spec => []NamesTerminated
BY Invariance, PTL DEF Inv

\* A query's answer whose recipe is gone has been replaced by another.
THEOREM StaleAnswers == Spec => []StaleAnswerWasReplaced
BY Invariance, PTL DEF Inv

\* The first byte of a name decides what it reads as once it is cleared.
LEMMA ClearedReadsEmpty ==
  ASSUME NEW a \in Name, a[0] = NUL
  PROVE  Shown(a) = Shown(Blank)
<1>1. Blank \in Name /\ Blank[0] = NUL
  BY SizeAssumption DEF Blank, Name, Index
<1>2. \A j \in Index : Ended(a, j) /\ Ended(Blank, j)
  BY <1>1, EndedAtFirst
<1>3. /\ {l \in Index : ~Ended(a, l)} = {}
      /\ {l \in Index : ~Ended(Blank, l)} = {}
  BY <1>2
<1> QED
  BY <1>3 DEF Shown

\* The store implements the book of recipes: every command that goes ahead
\* is the book's operation of that name, every other one a stutter.
THEOREM ImplementsBook == Spec => BookSpec
<1> DEFINE recipes == {n \in Slot : used[n]}
           title == [n \in Slot |-> Shown(name[n])]
<1>1. Init => Book!Init
  <2> SUFFICES ASSUME Init PROVE Book!Init
    OBVIOUS
  <2>1. recipes = {}
    BY DEF Init
  <2>2. title = [n \in Slot |-> Shown(Blank)]
    BY DEF Init
  <2> QED
    BY <2>1, <2>2 DEF Init, Book!Init
<1>2. Inv /\ Inv' /\ [Next]_vars => [Book!Next]_<<recipes, title, current>>
  <2> SUFFICES ASSUME Inv, Inv', [Next]_vars
               PROVE  [Book!Next]_<<recipes, title, current>>
    OBVIOUS
  <2>1. ASSUME NEW n \in Argument, NEW p \in Name, Create(n, p)
        PROVE  Book!Next
    <3>1. /\ n \in Slot /\ current' = current
          /\ used' = [used EXCEPT ![n] = TRUE]
          /\ name' = [name EXCEPT ![n] = Stored(p, name[n])]
      BY <2>1, CreateWritesItsSlot DEF Inv
    <3>2. recipes' = recipes \cup {n}
      BY <3>1 DEF Inv, TypeOK
    <3>3. name'[n] \in {a \in Name : a[NameMax - 1] = NUL}
      BY <3>1, StoredIsName DEF Inv, TypeOK
    <3>4. title' = [title EXCEPT ![n] = Shown(name'[n])]
      BY <3>1 DEF Inv, TypeOK
    <3>5. Book!Write(n)
      BY <3>1, <3>2, <3>3, <3>4 DEF Book!Write
    <3> QED
      BY <3>1, <3>5 DEF Book!Next
  <2>2. ASSUME NEW n \in Argument, Delete(n) PROVE Book!Next
    <3>1. n \in Slot /\ used[n] /\ n # current
      BY <2>2 DEF Delete, MayDelete, Valid
    <3>2. recipes' = recipes \ {n}
      BY <2>2, <3>1 DEF Delete, Inv, TypeOK
    <3>3. Shown(name'[n]) = Shown(Blank)
      BY <2>2, <3>1, ClearedIsName, ClearedReadsEmpty DEF Delete, Inv, TypeOK
    <3>4. title' = [title EXCEPT ![n] = Shown(name'[n])]
      BY <2>2, <3>1 DEF Delete, Inv, TypeOK
    <3>5. Book!Delete(n)
      BY <2>2, <3>1, <3>2, <3>3, <3>4 DEF Delete, Book!Delete
    <3> QED
      BY <3>1, <3>5 DEF Book!Next
  <2>3. ASSUME NEW n \in Argument, Select(n) PROVE Book!Next
    BY <2>3 DEF Select, MaySelect, Valid, Book!Next, Book!Select
  <2>4. CASE Query
    BY <2>4 DEF Query
  <2>5. CASE UNCHANGED vars
    BY <2>5 DEF vars
  <2> QED
    BY <2>1, <2>2, <2>3, <2>4, <2>5 DEF Next, Refuse
<1> QED
  BY <1>1, <1>2, Invariance, PTL DEF Spec, BookSpec, Book!Spec

\* No recipe shows the end of an older, longer name of its slot.
THEOREM NothingLeaksThrough == Spec => []NoResidue
<1>1. Init => NoResidue
  BY DEF Init, NoResidue
<1>2. Inv /\ NoResidue /\ [Next]_vars => NoResidue'
  <2> SUFFICES ASSUME Inv, NoResidue, [Next]_vars PROVE NoResidue'
    OBVIOUS
  <2>1. ASSUME NEW n \in Argument, NEW p \in Name, Create(n, p)
        PROVE  NoResidue'
    <3>1. n \in Slot /\ name' = [name EXCEPT ![n] = Stored(p, name[n])]
      BY <2>1, CreateWritesItsSlot DEF Inv
    <3>2. ASSUME NEW j \in Index, Ended(Stored(p, name[n]), j)
          PROVE  Stored(p, name[n])[j] = NUL
      <4>1. PICK l \in 0 .. j : Stored(p, name[n])[l] = NUL
        BY <3>2 DEF Ended
      <4>2. l \in Index /\ (l = NameMax - 1 \/ Ended(p, l))
        BY <4>1, NulAssumption, SizeAssumption DEF Stored, Index, Ended
      <4>3. l = NameMax - 1 => j = NameMax - 1
        BY SizeAssumption DEF Index
      <4>4. Ended(p, l) => Ended(p, j)
        BY SizeAssumption DEF Ended, Index
      <4> QED
        BY <4>2, <4>3, <4>4 DEF Stored
    <3> QED
      <4>1. used' = [used EXCEPT ![n] = TRUE]
        BY <2>1, CreateWritesItsSlot DEF Inv
      <4> QED
        BY <3>1, <3>2, <4>1 DEF NoResidue, Inv, TypeOK
  <2>2. ASSUME NEW n \in Argument, Delete(n) PROVE NoResidue'
    BY <2>2 DEF Delete, MayDelete, Valid, NoResidue, Inv, TypeOK
  <2>3. CASE UNCHANGED <<used, name>>
    BY <2>3 DEF NoResidue
  <2> QED
    BY <2>1, <2>2, <2>3 DEF Next, Refuse, Select, Query, vars
<1> QED
  BY <1>1, <1>2, Invariance, PTL DEF Spec

------------------------------------------------------------------------------
\* The device: its state, and the log that its state is compared with.
DeviceState == [printing : Int, print_mode : Int, running : Int,
                guide_on : Int, guide_kind : Int, error_active : Int]

DeviceTypeOK ==
  /\ st \in DeviceState
  /\ log \in Seq([tag : Tag, arg : Int])

\* The last commands that StateIsLastCommand speaks of.
LastPrint == LastOf({"print_start", "print_stop"}, [tag |-> "print_stop", arg |-> 0])
LastStart == LastOf({"print_start"}, [tag |-> "print_start", arg |-> 0])
LastRun   == LastOf({"run_control"}, [tag |-> "run_control", arg |-> 0])
LastGuide == LastOf({"guide_start", "guide_stop"}, [tag |-> "guide_stop", arg |-> 0])
LastKind  == LastOf({"guide_start"}, [tag |-> "guide_start", arg |-> 0])

Cleared == \E n \in DOMAIN log : log[n].tag = "error_clear"

\* StateIsLastCommand in these terms.
FollowsCommands ==
  /\ st.printing = 1 <=> LastPrint.tag = "print_start"
  /\ st.print_mode = LastStart.arg
  /\ st.running = LastRun.arg
  /\ st.guide_on = 1 <=> LastGuide.tag = "guide_start"
  /\ st.guide_kind = LastKind.arg
  /\ Cleared => st.error_active = 0

DeviceInv == DeviceTypeOK /\ FollowsCommands

\* Positions of a log have a greatest one.
LEMMA LastPosition ==
  ASSUME NEW len \in Nat, NEW P \in SUBSET (1 .. len), P # {}
  PROVE  \E n \in P : \A m \in P : m <= n
<1> DEFINE T == {len - n : n \in P}
<1>1. T \in SUBSET Nat /\ T # {}
  <2>1. ASSUME NEW n \in P PROVE len - n \in Nat
    <3>1. n \in 1 .. len
      OBVIOUS
    <3> QED BY <3>1
  <2>2. T # {}
    OBVIOUS
  <2> QED BY <2>1, <2>2
<1>2. PICK t \in T : \A u \in T : t <= u
  <2> HIDE DEF T
  <2> QED BY <1>1, LeastNatural
<1>3. PICK n \in P : t = len - n
  BY <1>2
<1>4. ASSUME NEW m \in P PROVE m <= n
  <2>1. len - n <= len - m
    BY <1>2, <1>3
  <2> QED BY <2>1
<1> QED BY <1>4

\* Once the log has been extended by a command, that is the last command of
\* its tags, unless it was refused, and the last of any others is unchanged.
LEMMA LastAfterDispatch ==
  ASSUME log \in Seq([tag : Tag, arg : Int]), NEW c \in [tag : Tag, arg : Int],
         log' = Append(log, c), NEW tags, NEW initially
  PROVE  LastOf(tags, initially)' =
           IF c.tag \in tags /\ Accepted(c) THEN c ELSE LastOf(tags, initially)
<1> DEFINE len == Len(log)
<1>1. /\ len \in Nat /\ DOMAIN log = 1 .. len /\ DOMAIN log' = 1 .. len + 1
      /\ \A n \in 1 .. len : log'[n] = log[n]
      /\ log'[len + 1] = c
  OBVIOUS
<1>2. Positions(tags) \in SUBSET (1 .. len)
  BY <1>1 DEF Positions
<1>3. Positions(tags)' = IF c.tag \in tags /\ Accepted(c)
                           THEN Positions(tags) \cup {len + 1} ELSE Positions(tags)
  BY <1>1 DEF Positions, Accepted
<1> HIDE DEF len
<1>4. CASE c.tag \in tags /\ Accepted(c)
  <2> DEFINE last_pos == CHOOSE n \in Positions(tags)' : \A m \in Positions(tags)' : m <= n
  <2>1. /\ len + 1 \in Positions(tags)'
        /\ \A m \in Positions(tags)' : m <= len + 1 /\ m \in Nat
    BY <1>1, <1>2, <1>3, <1>4
  <2>2. last_pos \in Positions(tags)' /\ \A m \in Positions(tags)' : m <= last_pos
    BY <2>1
  <2>3. last_pos = len + 1
    <3> HIDE DEF last_pos
    <3> QED BY <2>1, <2>2, <1>1
  <2>4. LastOf(tags, initially)' = log'[last_pos]
    BY <2>1 DEF LastOf
  <2> QED BY <1>1, <1>4, <2>3, <2>4
<1>5. CASE ~(c.tag \in tags /\ Accepted(c))
  <2>1. Positions(tags)' = Positions(tags)
    BY <1>3, <1>5
  <2>2. CASE Positions(tags) = {}
    BY <1>5, <2>1, <2>2 DEF LastOf
  <2>3. CASE Positions(tags) # {}
    <3> DEFINE n == CHOOSE n \in Positions(tags) : \A m \in Positions(tags) : m <= n
    <3>1. n \in 1 .. len
      BY <1>1, <1>2, <2>3, LastPosition
    <3>2. LastOf(tags, initially) = log[n] /\ LastOf(tags, initially)' = log'[n]
      BY <2>1, <2>3 DEF LastOf
    <3> QED BY <1>1, <1>5, <3>1, <3>2
  <2> QED BY <2>2, <2>3
<1> QED BY <1>4, <1>5

LEMMA DeviceInvInit == DeviceInit => DeviceInv
<1> SUFFICES ASSUME DeviceInit PROVE DeviceInv
  OBVIOUS
<1>1. PICK e \in {0, 1} :
        st = [printing |-> 0, print_mode |-> 0, running |-> 0,
              guide_on |-> 0, guide_kind |-> 0, error_active |-> e]
  BY DEF DeviceInit
<1>2. log = <<>> /\ DOMAIN log = {}
  BY DEF DeviceInit
<1>3. DeviceTypeOK
  BY <1>1, <1>2 DEF DeviceTypeOK, DeviceState
<1>4. \A tags, initially : LastOf(tags, initially) = initially
  BY <1>2 DEF LastOf, Positions
<1>5. FollowsCommands
  BY <1>1, <1>2, <1>4
     DEF FollowsCommands, LastPrint, LastStart, LastRun, LastGuide, LastKind, Cleared
<1> QED BY <1>3, <1>5 DEF DeviceInv

\* What a command does to the last commands of every machine of the device.
LEMMA DispatchStep ==
  ASSUME DeviceInv, NEW tag \in Tag, NEW arg \in Int, Dispatch(tag, arg)
  PROVE  /\ log' \in Seq([tag : Tag, arg : Int])
         /\ LastPrint' = IF tag \in {"print_start", "print_stop"}
                           THEN [tag |-> tag, arg |-> arg] ELSE LastPrint
         /\ LastStart' = IF tag = "print_start"
                           THEN [tag |-> tag, arg |-> arg] ELSE LastStart
         /\ LastRun' = IF tag = "run_control"
                         THEN [tag |-> tag, arg |-> arg] ELSE LastRun
         /\ LastGuide' = IF tag = "guide_stop" \/ (tag = "guide_start" /\ arg \in 0 .. 2)
                           THEN [tag |-> tag, arg |-> arg] ELSE LastGuide
         /\ LastKind' = IF tag = "guide_start" /\ arg \in 0 .. 2
                          THEN [tag |-> tag, arg |-> arg] ELSE LastKind
         /\ Cleared' <=> (tag = "error_clear" \/ Cleared)
<1> DEFINE c == [tag |-> tag, arg |-> arg]
<1>1. c \in [tag : Tag, arg : Int] /\ c.tag = tag
  OBVIOUS
<1>2. log \in Seq([tag : Tag, arg : Int]) /\ log' = Append(log, c)
  BY DEF DeviceInv, DeviceTypeOK, Dispatch
<1> HIDE DEF c
<1>3. ASSUME NEW tags, NEW initially
      PROVE  LastOf(tags, initially)' =
               IF c.tag \in tags /\ Accepted(c) THEN c ELSE LastOf(tags, initially)
  BY <1>1, <1>2, LastAfterDispatch
<1>4. /\ log' \in Seq([tag : Tag, arg : Int])
      /\ DOMAIN log = 1 .. Len(log) /\ DOMAIN log' = 1 .. Len(log) + 1
      /\ Len(log) \in Nat
      /\ \A n \in 1 .. Len(log) : log'[n] = log[n]
      /\ log'[Len(log) + 1] = c
  BY <1>1, <1>2
<1>5. Cleared' <=> (tag = "error_clear" \/ Cleared)
  BY <1>1, <1>4 DEF Cleared
<1>6. c.arg = arg
  BY DEF c
<1>7. LastPrint' = IF tag \in {"print_start", "print_stop"} THEN c ELSE LastPrint
  BY <1>1, <1>3 DEF LastPrint, Accepted
<1>8. LastStart' = IF tag = "print_start" THEN c ELSE LastStart
  BY <1>1, <1>3 DEF LastStart, Accepted
<1>9. LastRun' = IF tag = "run_control" THEN c ELSE LastRun
  BY <1>1, <1>3 DEF LastRun, Accepted
<1>10. LastGuide' = IF tag = "guide_stop" \/ (tag = "guide_start" /\ arg \in 0 .. 2)
                      THEN c ELSE LastGuide
  BY <1>1, <1>3, <1>6 DEF LastGuide, Accepted
<1>11. LastKind' = IF tag = "guide_start" /\ arg \in 0 .. 2 THEN c ELSE LastKind
  BY <1>1, <1>3, <1>6 DEF LastKind, Accepted
<1> QED BY <1>4, <1>5, <1>7, <1>8, <1>9, <1>10, <1>11 DEF c

\* A state one of whose fields is assigned a payload is a state.
LEMMA Assigned ==
  ASSUME NEW s \in DeviceState, NEW a \in Int
  PROVE  /\ [s EXCEPT !.print_mode = a] \in DeviceState
         /\ [s EXCEPT !.running = a] \in DeviceState
         /\ [s EXCEPT !.guide_kind = a] \in DeviceState
<1>1. [s EXCEPT !.print_mode = a] \in DeviceState
  BY DEF DeviceState
<1>2. [s EXCEPT !.running = a] \in DeviceState
  BY DEF DeviceState
<1>3. [s EXCEPT !.guide_kind = a] \in DeviceState
  BY DEF DeviceState
<1> QED BY <1>1, <1>2, <1>3

LEMMA DeviceInvNext == DeviceInv /\ [DeviceNext]_deviceVars => DeviceInv'
<1> SUFFICES ASSUME DeviceInv, [DeviceNext]_deviceVars PROVE DeviceInv'
  OBVIOUS
<1> st \in DeviceState
  BY DEF DeviceInv, DeviceTypeOK
<1>1. ASSUME NEW arg \in Int, on_print_start(arg) PROVE DeviceInv'
  <2>1. /\ "print_start" \in Tag /\ Dispatch("print_start", arg)
        /\ st' = [st EXCEPT !.printing = 1, !.print_mode = arg]
    BY <1>1 DEF on_print_start, Tag
  <2>2. DeviceTypeOK'
    <3>1. [st EXCEPT !.printing = 1, !.print_mode = arg] \in DeviceState
      <4>1. [st EXCEPT !.printing = 1] \in DeviceState
        BY DEF DeviceState
      <4>2. [[st EXCEPT !.printing = 1] EXCEPT !.print_mode = arg] \in DeviceState
        BY <4>1, Assigned
      <4> QED BY <4>2 DEF DeviceState
    <3> QED BY <2>1, <3>1, DispatchStep DEF DeviceTypeOK
  <2>3. FollowsCommands'
    BY <2>1, DispatchStep DEF DeviceInv, DeviceTypeOK, DeviceState, FollowsCommands
  <2> QED BY <2>2, <2>3 DEF DeviceInv
<1>2. ASSUME NEW arg \in Int, on_run_control(arg) PROVE DeviceInv'
  <2>1. /\ "run_control" \in Tag /\ Dispatch("run_control", arg)
        /\ st' = [st EXCEPT !.running = arg]
    BY <1>2 DEF on_run_control, Tag
  <2>2. DeviceTypeOK'
    <3>1. [st EXCEPT !.running = arg] \in DeviceState
      BY Assigned
    <3> QED BY <2>1, <3>1, DispatchStep DEF DeviceTypeOK
  <2>3. FollowsCommands'
    BY <2>1, DispatchStep DEF DeviceInv, DeviceTypeOK, DeviceState, FollowsCommands
  <2> QED BY <2>2, <2>3 DEF DeviceInv
<1>3. ASSUME NEW arg \in Int, on_guide_start(arg) PROVE DeviceInv'
  <2>1. /\ "guide_start" \in Tag /\ Dispatch("guide_start", arg)
        /\ st' = Guided(arg)
    BY <1>3 DEF on_guide_start, Tag
  <2>2. DeviceTypeOK'
    <3>1. st' \in DeviceState
      <4>1. [st EXCEPT !.guide_on = 1, !.guide_kind = arg] \in DeviceState
        <5>1. [st EXCEPT !.guide_on = 1] \in DeviceState
          BY DEF DeviceState
        <5>2. [[st EXCEPT !.guide_on = 1] EXCEPT !.guide_kind = arg] \in DeviceState
          BY <5>1, Assigned
        <5> QED BY <5>2 DEF DeviceState
      <4> QED BY <2>1, <4>1 DEF Guided
    <3> QED BY <2>1, <3>1, DispatchStep DEF DeviceTypeOK
  <2>3. FollowsCommands'
    <3>1. CASE arg \in 0 .. 2
      <4>1. st' = [st EXCEPT !.guide_on = 1, !.guide_kind = arg]
        BY <2>1, <3>1 DEF Guided, GuideKindOK
      <4> QED BY <2>1, <3>1, <4>1, DispatchStep
              DEF DeviceInv, DeviceTypeOK, DeviceState, FollowsCommands
    <3>2. CASE arg \notin 0 .. 2
      <4>1. st' = st
        BY <2>1, <3>2 DEF Guided, GuideKindOK
      <4> QED BY <2>1, <3>2, <4>1, DispatchStep DEF DeviceInv, FollowsCommands
    <3> QED BY <3>1, <3>2
  <2> QED BY <2>2, <2>3 DEF DeviceInv
<1>4. ASSUME NEW arg \in Int, on_print_stop(arg) PROVE DeviceInv'
  <2>1. /\ "print_stop" \in Tag /\ Dispatch("print_stop", arg)
        /\ st' = [st EXCEPT !.printing = 0]
    BY <1>4 DEF on_print_stop, Tag
  <2>2. DeviceTypeOK'
    <3>1. [st EXCEPT !.printing = 0] \in DeviceState
      BY DEF DeviceState
    <3> QED BY <2>1, <3>1, DispatchStep DEF DeviceTypeOK
  <2>3. FollowsCommands'
    BY <2>1, DispatchStep DEF DeviceInv, DeviceTypeOK, DeviceState, FollowsCommands
  <2> QED BY <2>2, <2>3 DEF DeviceInv
<1>5. ASSUME NEW arg \in Int, on_error_clear(arg) PROVE DeviceInv'
  <2>1. /\ "error_clear" \in Tag /\ Dispatch("error_clear", arg)
        /\ st' = [st EXCEPT !.error_active = 0]
    BY <1>5 DEF on_error_clear, Tag
  <2>2. DeviceTypeOK'
    <3>1. [st EXCEPT !.error_active = 0] \in DeviceState
      BY DEF DeviceState
    <3> QED BY <2>1, <3>1, DispatchStep DEF DeviceTypeOK
  <2>3. FollowsCommands'
    BY <2>1, DispatchStep DEF DeviceInv, DeviceTypeOK, DeviceState, FollowsCommands
  <2> QED BY <2>2, <2>3 DEF DeviceInv
<1>6. ASSUME NEW arg \in Int, on_guide_stop(arg) PROVE DeviceInv'
  <2>1. /\ "guide_stop" \in Tag /\ Dispatch("guide_stop", arg)
        /\ st' = [st EXCEPT !.guide_on = 0]
    BY <1>6 DEF on_guide_stop, Tag
  <2>2. DeviceTypeOK'
    <3>1. [st EXCEPT !.guide_on = 0] \in DeviceState
      BY DEF DeviceState
    <3> QED BY <2>1, <3>1, DispatchStep DEF DeviceTypeOK
  <2>3. FollowsCommands'
    BY <2>1, DispatchStep DEF DeviceInv, DeviceTypeOK, DeviceState, FollowsCommands
  <2> QED BY <2>2, <2>3 DEF DeviceInv
<1>7. CASE UNCHANGED deviceVars
  <2>1. st' = st /\ log' = log
    BY <1>7 DEF deviceVars
  <2>2. \A tags, initially : LastOf(tags, initially)' = LastOf(tags, initially)
    BY <2>1 DEF LastOf, Positions, Accepted
  <2> QED
    BY <2>1, <2>2 DEF DeviceInv, DeviceTypeOK, FollowsCommands, LastPrint, LastStart,
                      LastRun, LastGuide, LastKind, Cleared
<1>8. CASE DeviceNext
  <2>1. PICK arg \in Payload :
          \/ on_print_start(arg) \/ on_run_control(arg) \/ on_guide_start(arg)
          \/ on_print_stop(arg) \/ on_error_clear(arg) \/ on_guide_stop(arg)
    BY <1>8 DEF DeviceNext
  <2>2. arg \in Int
    BY PayloadAssumption
  <2> QED BY <1>1, <1>2, <1>3, <1>4, <1>5, <1>6, <2>1, <2>2
<1> QED BY <1>7, <1>8

\* Each machine of the device is where the last command of its own left it,
\* after any sequence of commands with any payloads.
THEOREM DeviceFollowsItsCommands == DeviceSpec => []StateIsLastCommand
<1>1. DeviceInv => StateIsLastCommand
  BY DEF DeviceInv, FollowsCommands, StateIsLastCommand, LastPrint, LastStart, LastRun,
         LastGuide, LastKind, Cleared
<1> QED BY <1>1, DeviceInvInit, DeviceInvNext, PTL DEF DeviceSpec

==============================================================================
