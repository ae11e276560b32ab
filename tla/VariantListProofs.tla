--------------------------- MODULE VariantListProofs ---------------------------
(***************************************************************************)
(* Proofs about VariantList, for any number of variants, types and units   *)
(* and lists of any length.                                                *)
(***************************************************************************)
EXTENDS VariantList, TLAPS

\* The code of every unit is code that the compiler accepted.
AllAccepted ==
  \A u \in Unit :
    /\ Accepts(built[u].list, built[u].call)
    /\ \A t \in built[u].news : SelectsNew(built[u].list, t)

\* A unit that is not behind was compiled with a list that is still the
\* beginning of the list in the header.
StillBegins(l) ==
  /\ Len(l) <= Len(list)
  /\ \A n \in 1 .. Len(l) : l[n] = list[n]

AllBegin == \A u \in Unit \ behind : StillBegins(built[u].list)

Inv == TypeOK /\ AllAccepted /\ AllBegin

\* Lists are sequences.
LEMMA UptoAreSequences ==
  ASSUME NEW l \in Upto
  PROVE  /\ l \in Seq(Name)
         /\ DOMAIN l = 1 .. Len(l)
         /\ Len(l) \in Nat
<1>1. PICK n \in 0 .. MaxList : l \in [1 .. n -> Name]
  BY DEF Upto
<1>2. l \in Seq(Name)
  BY <1>1, TypeAssumption
<1> QED
  BY <1>2

\* The empty list is a list.
LEMMA EmptyIsList == NotBuilt \in [list : Lists, call : Upto, news : SUBSET Type]
<1>1. <<>> \in [1 .. 0 -> Name]
  BY SMT
<1>2. <<>> \in Upto
  BY <1>1, TypeAssumption DEF Upto
<1>3. <<>> \in Lists
  BY <1>2 DEF Lists
<1> QED
  BY <1>2, <1>3 DEF NotBuilt

\* A list that another begins with agrees with it.
LEMMA PrefixAgrees ==
  ASSUME NEW l \in Upto, NEW m \in Upto, IsPrefix(l, m)
  PROVE  Len(l) <= Len(m) /\ \A n \in 1 .. Len(l) : l[n] = m[n]
<1>1. /\ l \in Seq(Name) /\ m \in Seq(Name)
      /\ Len(l) \in Nat /\ Len(m) \in Nat /\ Len(l) <= Len(m)
      /\ SubSeq(l, 1, Len(l)) = SubSeq(m, 1, Len(l))
  BY UptoAreSequences DEF IsPrefix
<1>2. SUFFICES ASSUME NEW n \in 1 .. Len(l) PROVE l[n] = m[n]
  BY <1>1
<1>3. SubSeq(l, 1, Len(l))[n] = l[n] /\ SubSeq(m, 1, Len(l))[n] = m[n]
  BY <1>1
<1> QED BY <1>1, <1>3

\* What begins the list begins what is appended to.
LEMMA AppendKeepsBeginning ==
  ASSUME TypeOK, list' \in Upto, IsPrefix(list, list'), NEW l \in Upto, StillBegins(l)
  PROVE  Len(l) <= Len(list') /\ \A n \in 1 .. Len(l) : l[n] = list'[n]
<1>1. list \in Upto /\ Len(l) \in Nat /\ Len(list) \in Nat /\ Len(list') \in Nat
  BY UptoAreSequences DEF TypeOK, Lists
<1>2. Len(list) <= Len(list') /\ \A n \in 1 .. Len(list) : list[n] = list'[n]
  BY <1>1, PrefixAgrees
<1> QED BY <1>1, <1>2 DEF StillBegins

\* What a unit was compiled from has passed the compiler's checks: nothing
\* later, an edit of the list included, touches it; and its list remains a
\* beginning of the header's under edits that append.
THEOREM Invariance == Spec => []Inv
<1>1. Init => Inv
  <2> SUFFICES ASSUME Init PROVE Inv
    OBVIOUS
  <2>1. TypeOK
    BY EmptyIsList DEF Init, TypeOK
  <2>2. Accepts(<<>>, <<>>)
    BY DEF Accepts
  <2>3. AllBegin
    BY EmptyIsList, UptoAreSequences
    DEF Init, AllBegin, StillBegins, NotBuilt, Lists
  <2> QED
    BY <2>1, <2>2, <2>3 DEF Init, Inv, AllAccepted, NotBuilt
<1>2. Inv /\ [Next]_vars => Inv'
  <2> SUFFICES ASSUME Inv, [Next]_vars PROVE Inv'
    OBVIOUS
  <2>1. CASE Edit
    <3>1. TypeOK' /\ AllAccepted'
      BY <2>1 DEF Edit, Inv, TypeOK, AllAccepted
    <3>2. CASE IsPrefix(list, list')
      <4>1. behind' = behind /\ built' = built /\ list' \in Upto
        BY <2>1, <3>2 DEF Edit, Lists
      <4>2. ASSUME NEW w \in Unit \ behind
            PROVE  StillBegins(built[w].list)'
        <5>1. StillBegins(built[w].list) /\ built[w].list \in Upto
          BY DEF Inv, AllBegin, TypeOK, Lists
        <5> QED
          BY <3>2, <4>1, <5>1, AppendKeepsBeginning DEF Inv, StillBegins
      <4> QED
        BY <3>1, <4>1, <4>2 DEF Inv, AllBegin
    <3>3. CASE ~IsPrefix(list, list')
      <4>1. behind' = Unit
        BY <2>1, <3>3 DEF Edit
      <4> QED
        BY <3>1, <4>1 DEF Inv, AllBegin
    <3> QED
      BY <3>2, <3>3
  <2>2. ASSUME NEW u \in Unit, NEW call \in Upto, NEW news \in SUBSET Type,
               Compile(u, call, news)
        PROVE  Inv'
    <3> DEFINE code == [list |-> list, call |-> call, news |-> news]
    <3>1. /\ built' = [built EXCEPT ![u] = code] /\ list' = list
          /\ behind' = behind \ {u}
      BY <2>2 DEF Compile
    <3>2. code \in [list : Lists, call : Upto, news : SUBSET Type]
      BY DEF Inv, TypeOK
    <3>3. TypeOK'
      BY <3>1, <3>2 DEF Inv, TypeOK
    <3>4. Accepts(code.list, code.call) /\ \A t \in code.news : SelectsNew(code.list, t)
      BY <2>2 DEF Compile
    <3>5. AllAccepted'
      <4> SUFFICES ASSUME NEW w \in Unit
                   PROVE  /\ Accepts(built'[w].list, built'[w].call)
                          /\ \A t \in built'[w].news : SelectsNew(built'[w].list, t)
        BY DEF AllAccepted
      <4> HIDE DEF code
      <4>1. CASE w = u
        BY <3>1, <3>4, <4>1 DEF Inv, TypeOK
      <4>2. CASE w # u
        BY <3>1, <4>2 DEF Inv, TypeOK, AllAccepted
      <4> QED
        BY <4>1, <4>2
    <3>6. AllBegin'
      <4> SUFFICES ASSUME NEW w \in Unit \ behind' PROVE StillBegins(built[w].list)'
        BY DEF AllBegin
      <4>1. code.list = list /\ Len(list) \in Nat
        BY UptoAreSequences DEF Inv, TypeOK, Lists
      <4> HIDE DEF code
      <4>2. CASE w = u
        BY <3>1, <4>1, <4>2 DEF Inv, TypeOK, StillBegins
      <4>3. CASE w # u
        BY <3>1, <4>3 DEF Inv, TypeOK, AllBegin, StillBegins
      <4> QED
        BY <4>2, <4>3
    <3> QED
      BY <3>3, <3>5, <3>6 DEF Inv
  <2>3. CASE UNCHANGED vars
    BY <2>3 DEF vars, Inv, TypeOK, AllAccepted, AllBegin, StillBegins
  <2> QED
    BY <2>1, <2>2, <2>3 DEF Next
<1> QED
  BY <1>1, <1>2, PTL DEF Spec

\* What the invariant says of a unit's list and its call.
LEMMA CallMatchesList ==
  ASSUME Inv, NEW u \in Unit
  PROVE  /\ built[u].list \in Seq(Name) /\ built[u].call \in Seq(Name)
         /\ DOMAIN built[u].list = 1 .. Len(built[u].list)
         /\ DOMAIN built[u].call = 1 .. Len(built[u].call)
         /\ Len(built[u].list) = Len(built[u].call) /\ Len(built[u].list) \in Nat
         /\ \A n \in 1 .. Len(built[u].list) :
              TypeOf[built[u].call[n]] = TypeOf[built[u].list[n]]
<1>1. built[u].list \in Upto /\ built[u].call \in Upto
  BY DEF Inv, TypeOK, Lists
<1>2. Accepts(built[u].list, built[u].call)
  BY DEF Inv, AllAccepted
<1> QED
  BY <1>1, <1>2, UptoAreSequences DEF Accepts

\* Two units that are not behind agree where both have a variant, and one that
\* lacks a variant of the other is out of date.
LEMMA UnitsAgree ==
  ASSUME Inv, NEW u \in Unit \ behind, NEW v \in Unit \ behind,
         NEW n \in DOMAIN built[u].list
  PROVE  /\ n \in DOMAIN built[v].list => built[u].list[n] = built[v].list[n]
         /\ n \notin DOMAIN built[v].list => Stale(v)
<1>1. StillBegins(built[u].list) /\ StillBegins(built[v].list)
  BY DEF Inv, AllBegin
<1>2. n \in 1 .. Len(built[u].list) /\ n \in 1 .. Len(list)
  <2>1. Len(list) \in Nat
    BY UptoAreSequences DEF Inv, TypeOK, Lists
  <2> QED BY <1>1, <2>1, CallMatchesList DEF StillBegins
<1>3. DOMAIN list = 1 .. Len(list)
  BY UptoAreSequences DEF Inv, TypeOK, Lists
<1> QED BY <1>1, <1>2, <1>3, CallMatchesList DEF StillBegins, Stale

\* The handlers that a tag reaches are of the type of its variant.
LEMMA OutcomeFits ==
  ASSUME Inv, NEW u \in Unit \ behind, NEW v \in Unit \ behind, NEW f \in Function,
         NEW n \in DOMAIN built[u].list
  PROVE  \/ /\ n \in DOMAIN built[v].list
            /\ Outcome(v, f, n).end = "handled"
            /\ Outcome(v, f, n).by = {built[v].call[n]}
            /\ TypeOf[built[v].call[n]] = TypeOf[built[u].list[n]]
         \/ Outcome(v, f, n).end # "handled" /\ Outcome(v, f, n).by = {} /\ Stale(v)
<1>1. CASE n \in DOMAIN built[v].list
  <2>1. n \in DOMAIN built[v].call /\ TypeOf[built[v].call[n]] = TypeOf[built[v].list[n]]
    BY <1>1, CallMatchesList
  <2>2. built[u].list[n] = built[v].list[n]
    BY <1>1, UnitsAgree
  <2>3. {built[v].call[k] : k \in {n} \cap DOMAIN built[v].call} = {built[v].call[n]}
    BY <2>1
  <2>4. Outcome(v, f, n).end = "handled" /\ Outcome(v, f, n).by = {built[v].call[n]}
    BY <1>1, <2>3 DEF Outcome
  <2> QED BY <1>1, <2>1, <2>2, <2>4
<1>2. CASE n \notin DOMAIN built[v].list
  <2>1. Outcome(v, f, n).end # "handled" /\ Outcome(v, f, n).by = {}
    BY <1>2 DEF Outcome
  <2> QED BY <1>2, <2>1, UnitsAgree
<1> QED BY <1>1, <1>2

\* No payload is handled as a type it does not have, in units compiled since the
\* last edit that did not append.
THEOREM PayloadsFit == Spec => []PayloadFitsHandler
<1>1. Inv => PayloadFitsHandler
  <2> SUFFICES ASSUME Inv, NEW u \in Unit \ behind, NEW v \in Unit \ behind,
                      NEW f \in Function, NEW n \in DOMAIN built[u].list,
                      NEW h \in Outcome(v, f, n).by
               PROVE  TypeOf[h] = TypeOf[built[u].list[n]]
    BY DEF PayloadFitsHandler
  <2> QED
    BY OutcomeFits
<1> QED
  BY <1>1, Invariance, PTL

\* With a type of its own for every variant, the design guideline of the
\* header, a tag is handled by its own variant's handler; SUM_UNREACHABLE is
\* reached, and a tag ignored, in a unit that is out of date and in no other.
THEOREM TagsFindTheirHandlers == Spec => []TagFindsItsHandler
<1>1. Inv => TagFindsItsHandler
  <2> SUFFICES ASSUME Inv, NEW u \in Unit \ behind, NEW v \in Unit \ behind,
                      NEW f \in Function, Distinct(v), NEW n \in DOMAIN built[u].list
               PROVE  \/ /\ Outcome(v, f, n).end = "handled"
                         /\ Outcome(v, f, n).by = {built[u].list[n]}
                      \/ Outcome(v, f, n).end # "handled" /\ Stale(v)
    BY DEF TagFindsItsHandler
  <2>1. CASE /\ n \in DOMAIN built[v].list
             /\ Outcome(v, f, n).end = "handled"
             /\ Outcome(v, f, n).by = {built[v].call[n]}
             /\ TypeOf[built[v].call[n]] = TypeOf[built[u].list[n]]
    <3>1. n \in DOMAIN built[v].call
      BY <2>1, CallMatchesList
    <3>2. built[u].list[n] = built[v].list[n]
      BY <2>1, UnitsAgree
    <3>3. built[v].call[n] = built[v].list[n]
      BY <2>1, <3>1, <3>2 DEF Distinct, Members
    <3> QED
      BY <2>1, <3>2, <3>3
  <2> QED
    BY <2>1, OutcomeFits
<1> QED
  BY <1>1, Invariance, PTL

\* Every SUM_NEW that compiles selects the constructor of one variant, and a
\* unit that is up to date has a handler of its type for the value.
THEOREM NewReachesHandlers == Spec => []NewReachesItsHandler
<1>1. Inv => NewReachesItsHandler
  <2> SUFFICES ASSUME Inv, NEW u \in Unit \ behind, NEW v \in Unit \ behind,
                      NEW f \in Function, NEW t \in built[u].news
               PROVE  \E n \in DOMAIN built[u].list :
                        /\ {m \in DOMAIN built[u].list :
                              TypeOf[built[u].list[m]] = t} = {n}
                        /\ \A h \in Outcome(v, f, n).by : TypeOf[h] = t
                        /\ Outcome(v, f, n).by = {} => Stale(v)
    BY DEF NewReachesItsHandler
  <2>1. SelectsNew(built[u].list, t)
    BY DEF Inv, AllAccepted
  <2>2. PICK n \in DOMAIN built[u].list : TypeOf[built[u].list[n]] = t
    BY <2>1 DEF SelectsNew
  <2>3. {m \in DOMAIN built[u].list : TypeOf[built[u].list[m]] = t} = {n}
    BY <2>1, <2>2 DEF SelectsNew
  <2>4. /\ \A h \in Outcome(v, f, n).by : TypeOf[h] = t
        /\ Outcome(v, f, n).by = {} => Stale(v)
    <3>1. CASE /\ Outcome(v, f, n).by = {built[v].call[n]}
               /\ TypeOf[built[v].call[n]] = TypeOf[built[u].list[n]]
      BY <2>2, <3>1
    <3>2. CASE Outcome(v, f, n).by = {} /\ Stale(v)
      BY <3>2
    <3> QED
      BY <3>1, <3>2, OutcomeFits
  <2> QED
    BY <2>2, <2>3, <2>4
<1> QED
  BY <1>1, Invariance, PTL

==============================================================================
