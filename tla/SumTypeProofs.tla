----------------------------- MODULE SumTypeProofs -----------------------------
(***************************************************************************)
(* Proofs about SumType, for any number of variables and variants, and     *)
(* about the two idioms that are built on sum types.                       *)
(***************************************************************************)
EXTENDS SumType, Idioms, TLAPS

\* A pointer taken from the present value is one to the member of its tag.
FreshPointersFit ==
  \A p \in pointers \ stale : p[1] \in misused \/ tag[p[1]] = p[2]

Inv ==
  /\ TypeOK
  /\ TagTellsMember
  /\ FreshPointersFit
  /\ MisreadNeedsMisuse
  /\ BrokenNeedsTampering

\* Giving a variable a new value keeps tag and union together and leaves no
\* pointer that counts as taken from the new value.
LEMMA AssignKeeps ==
  ASSUME Inv, NEW v \in Var, NEW t \in Variant, Assign(v, t),
         UNCHANGED pointers
  PROVE  /\ tag' \in [Var -> Variant \cup {BadTag}]
         /\ member' \in [Var -> Variant]
         /\ stale' \subseteq pointers'
         /\ misused' \subseteq Var
         /\ \A u \in Var : tag'[u] = BadTag => u \in misused'
         /\ TagTellsMember' /\ FreshPointersFit'
<1>1. /\ tag' = [tag EXCEPT ![v] = t] /\ member' = [member EXCEPT ![v] = t]
      /\ stale' = stale \cup {p \in pointers : p[1] = v}
      /\ misused' = misused \ {v}
  BY DEF Assign, NewTag
<1>2. /\ tag' \in [Var -> Variant \cup {BadTag}] /\ member' \in [Var -> Variant]
      /\ stale' \subseteq pointers' /\ misused' \subseteq Var
  BY <1>1 DEF Inv, TypeOK
<1>3. \A u \in Var : tag'[u] = BadTag => u \in misused'
  BY <1>1, TagAssumption DEF Inv, TypeOK
<1>4. TagTellsMember'
  BY <1>1 DEF Inv, TypeOK, TagTellsMember
<1>5. FreshPointersFit'
  <2> SUFFICES ASSUME NEW p \in pointers \ stale, p[1] # v
               PROVE  p[1] \in misused' \/ tag'[p[1]] = p[2]
    BY <1>1 DEF FreshPointersFit
  <2>1. p \in Var \X Variant /\ (p[1] \in misused \/ tag[p[1]] = p[2])
    BY DEF Inv, TypeOK, FreshPointersFit
  <2> QED
    BY <1>1, <2>1 DEF Inv, TypeOK
<1> QED
  BY <1>2, <1>3, <1>4, <1>5

\* While a variable is not misused its tag is the member of its union, in
\* every sequence of calls.
THEOREM Invariance == Spec => []Inv
<1>1. Init => Inv
  BY TagAssumption
     DEF Init, Inv, TypeOK, TagTellsMember, FreshPointersFit, MisreadNeedsMisuse,
         BrokenNeedsTampering
<1>2. Inv /\ [Next]_vars => Inv'
  <2> SUFFICES ASSUME Inv, [Next]_vars PROVE Inv'
    OBVIOUS
  <2>1. ASSUME ~broken, NEW v \in Var, NEW t \in Variant, Construct(v, t) PROVE Inv'
    <3>1. Assign(v, t) /\ UNCHANGED pointers
      BY <2>1 DEF Construct
    <3> QED
      BY <2>1, <3>1, AssignKeeps
         DEF Construct, Assign, Inv, TypeOK, MisreadNeedsMisuse, BrokenNeedsTampering
  <2>2. ASSUME ~broken, NEW v \in Var, NEW t \in Variant, Get(v, t) PROVE Inv'
    <3>1. FreshPointersFit'
      BY <2>2 DEF Get, Gets, values, Inv, FreshPointersFit
    <3> QED
      BY <2>2, <3>1
         DEF Get, values, Inv, TypeOK, TagTellsMember, MisreadNeedsMisuse,
             BrokenNeedsTampering
  <2>3. ASSUME ~broken, NEW v \in Var, NEW t \in Variant, Write(v, t) PROVE Inv'
    <3>1. misused \subseteq misused' /\ misused' \subseteq misused \cup {v}
      BY <2>3 DEF Write
    <3>2. v \notin misused' => tag[v] = t
      <4>1. <<v, t>> \in pointers /\ <<v, t>>[1] = v /\ <<v, t>>[2] = t
        BY <2>3 DEF Write
      <4>2. <<v, t>> \notin stale => v \in misused \/ tag[v] = t
        BY <4>1 DEF Inv, FreshPointersFit
      <4> QED
        BY <2>3, <3>1, <4>2 DEF Write
    <3>3. TagTellsMember'
      BY <2>3, <3>1, <3>2 DEF Write, Inv, TypeOK, TagTellsMember
    <3> QED
      BY <2>3, <3>1, <3>3
         DEF Write, Inv, TypeOK, FreshPointersFit, MisreadNeedsMisuse,
             BrokenNeedsTampering
  <2>4. ASSUME ~broken, NEW v \in Var, NEW w \in Var, Copy(v, w) PROVE Inv'
    <3>1. tag[v] \in Variant /\ Assign(w, tag[v]) /\ UNCHANGED pointers
      BY <2>4 DEF Copy, CaseOf
    <3>2. Misread(v) \subseteq misused
      BY DEF Misread, CaseOf, Inv, TagTellsMember, MisreadNeedsMisuse
    <3>3. MisreadNeedsMisuse'
      BY <2>4, <3>1, <3>2 DEF Copy, Assign, MisreadNeedsMisuse
    <3> QED
      BY <2>4, <3>1, <3>3, AssignKeeps
         DEF Copy, Inv, TypeOK, MisreadNeedsMisuse, BrokenNeedsTampering
  <2>5. ASSUME ~broken, NEW v \in Var, Handle(v) PROVE Inv'
    <3>1. Misread(v) \subseteq misused
      BY DEF Misread, CaseOf, Inv, TagTellsMember, MisreadNeedsMisuse
    <3>2. TagTellsMember' /\ member' \in [Var -> Variant]
      BY <2>5 DEF Handle, CaseOf, values, Inv, TypeOK, TagTellsMember
    <3> QED
      BY <2>5, <3>1, <3>2
         DEF Handle, values, Inv, TypeOK, FreshPointersFit, MisreadNeedsMisuse,
             BrokenNeedsTampering
  <2>6. ASSUME ~broken, NEW v \in Var, Unreachable(v) PROVE Inv'
    BY <2>6
       DEF Unreachable, values, Inv, TypeOK, TagTellsMember, FreshPointersFit,
           MisreadNeedsMisuse, BrokenNeedsTampering
  <2>7. ASSUME ~broken, NEW v \in Var, Tamper(v) PROVE Inv'
    <3>1. PICK t \in Variant \cup {BadTag} : tag' = [tag EXCEPT ![v] = t]
      BY <2>7 DEF Tamper
    <3>2. FreshPointersFit'
      <4> SUFFICES ASSUME NEW p \in pointers \ stale
                   PROVE  p[1] \in misused' \/ tag'[p[1]] = p[2]
        BY <2>7 DEF Tamper, FreshPointersFit
      <4>1. p \in Var \X Variant /\ (p[1] \in misused \/ tag[p[1]] = p[2])
        BY DEF Inv, TypeOK, FreshPointersFit
      <4> QED
        BY <2>7, <3>1, <4>1 DEF Tamper, Inv, TypeOK
    <3> QED
      BY <2>7, <3>1, <3>2
         DEF Tamper, Inv, TypeOK, TagTellsMember, MisreadNeedsMisuse,
             BrokenNeedsTampering
  <2>8. CASE UNCHANGED vars
    BY <2>8
       DEF vars, values, Inv, TypeOK, TagTellsMember, FreshPointersFit,
           MisreadNeedsMisuse, BrokenNeedsTampering
  <2> QED
    BY <2>1, <2>2, <2>3, <2>4, <2>5, <2>6, <2>7, <2>8 DEF Next
<1> QED
  BY <1>1, <1>2, PTL DEF Spec

\* For every set of variants: the tag tells what the union holds, until a
\* pointer of another variant outlives its value.
THEOREM TagIsTrusted == Spec => []TagTellsMember
BY Invariance, PTL DEF Inv

\* No handler is ever handed the payload of another variant otherwise.
THEOREM HandlersAreTypeSafe == Spec => []MisreadNeedsMisuse
BY Invariance, PTL DEF Inv

\* The end of match and copy that the compiler is told is unreachable is
\* unreachable, within a unit, unless a tag is written past the constructors.
THEOREM UnreachableIsUnreachable == Spec => []BrokenNeedsTampering
BY Invariance, PTL DEF Inv

------------------------------------------------------------------------------
(***************************************************************************)
(* The Result and Either idioms, for any orders, keys and functions of the *)
(* program and chains of any length.                                       *)
(***************************************************************************)

\* Every variable of Idioms has its type.
IdiomTypeOK ==
  /\ start \in OrderResult /\ order \in OrderResult
  /\ asked \in Seq(Function \cup {check_stock})
  /\ ran \in Seq([f : Function \cup {check_stock}, saw : OrderResult, said : OrderResult])
  /\ recovered \in BOOLEAN
  /\ key \in Key

\* What stands in for a failed order is order 0.
DefaultIsZero == recovered => start = Value("ok", 0)

\* What a look-up holds, and what it came to.
LookupFits ==
  /\ lookup # None => lookup = cache_get(key)
  /\ resolved # None => resolved = Value("value", 10 * key)

IdiomInv ==
  /\ IdiomTypeOK
  /\ ChainStopsAtFirstError
  /\ DefaultIsZero
  /\ LookupFits

\* The stock check and the functions of the program take an order to a result.
LEMMA FunctionsReturnResults ==
  ASSUME NEW f \in Function \cup {check_stock}, NEW id \in Id
  PROVE  f[id] \in OrderResult
<1>1. CASE f \in Function
  BY <1>1, FunctionAssumption
<1>2. CASE f = check_stock
  BY <1>2 DEF check_stock, OrderResult, Kind
<1> QED BY <1>1, <1>2

\* A result is ok with an order or err with a kind.
LEMMA ResultCases ==
  ASSUME NEW r \in OrderResult
  PROVE  \/ r.tag = "ok" /\ r.as \in Id /\ r = Value("ok", r.as)
         \/ r.tag = "err" /\ r.as \in Kind
BY DEF OrderResult, Value

LEMMA IdiomInvInit == IdiomInit => IdiomInv
<1> SUFFICES ASSUME IdiomInit PROVE IdiomInv
  OBVIOUS
<1>1. IdiomTypeOK
  <2>1. order \in OrderResult /\ recovered \in BOOLEAN
    BY DEF IdiomInit
  <2> QED BY <2>1 DEF IdiomInit, IdiomTypeOK
<1>2. DefaultIsZero /\ LookupFits
  BY DEF IdiomInit, DefaultIsZero, LookupFits
<1>3. ChainStopsAtFirstError
  BY DEF IdiomInit, ChainStopsAtFirstError
<1> QED BY <1>1, <1>2, <1>3 DEF IdiomInv

\* A function that is called is the next one asked for, and sees the result of
\* the one before it.
LEMMA CallExtendsChain ==
  ASSUME IdiomInv, NEW f \in Function \cup {check_stock}, AndThen(f), order.tag = "ok"
  PROVE  IdiomTypeOK' /\ ChainStopsAtFirstError'
<1> DEFINE call == [f |-> f, saw |-> order, said |-> order']
           n == Len(ran)
<1>1. order' = f[order.as] /\ asked' = Append(asked, f) /\ ran' = Append(ran, call)
  BY DEF AndThen, Calls, and_then, is_ok
<1>2. order \in OrderResult /\ start \in OrderResult
  BY DEF IdiomInv, IdiomTypeOK
<1>3. order' \in OrderResult
  BY <1>1, <1>2, ResultCases, FunctionsReturnResults
<1>4. IdiomTypeOK'
  <2>1. call \in [f : Function \cup {check_stock}, saw : OrderResult, said : OrderResult]
    BY <1>2, <1>3
  <2>2. ran' \in Seq([f : Function \cup {check_stock}, saw : OrderResult,
                      said : OrderResult])
    <3> HIDE DEF call
    <3> QED BY <1>1, <2>1 DEF IdiomInv, IdiomTypeOK
  <2>3. asked' \in Seq(Function \cup {check_stock})
    BY <1>1 DEF IdiomInv, IdiomTypeOK
  <2>4. start' = start /\ recovered' = recovered /\ key' = key
    BY DEF AndThen, cache
  <2> QED BY <1>2, <1>3, <2>2, <2>3, <2>4 DEF IdiomInv, IdiomTypeOK
<1>5. Len(asked) = n /\ n \in Nat
  BY DEF IdiomInv, ChainStopsAtFirstError, IdiomTypeOK
<1>6. /\ Len(ran') = n + 1 /\ Len(asked') = n + 1
      /\ \A m \in 1 .. n : ran'[m] = ran[m] /\ asked'[m] = asked[m]
      /\ ran'[n + 1] = call /\ asked'[n + 1] = f
  <2> HIDE DEF call
  <2> QED BY <1>1, <1>5 DEF IdiomInv, IdiomTypeOK
<1>7. order = IF n = 0 THEN start ELSE ran[n].said
  BY DEF IdiomInv, ChainStopsAtFirstError
<1>8. start' = start
  BY DEF AndThen
<1>9. ASSUME NEW m \in 1 .. n + 1
      PROVE  /\ ran'[m].f = asked'[m]
             /\ ran'[m].saw = IF m - 1 = 0 THEN start ELSE ran'[m - 1].said
             /\ ran'[m].saw.tag = "ok" /\ ran'[m].said = asked'[m][ran'[m].saw.as]
  <2>1. CASE m = n + 1
    <3>1. ran'[m].f = f /\ ran'[m].saw = order /\ ran'[m].said = order' /\ asked'[m] = f
      BY <1>6, <2>1
    <3>2. n # 0 => ran'[n] = ran[n]
      BY <1>5, <1>6
    <3> QED BY <1>1, <1>5, <1>7, <2>1, <3>1, <3>2
  <2>2. CASE m \in 1 .. n
    <3>1. /\ ran[m].f = asked[m]
          /\ ran[m].saw = IF m - 1 = 0 THEN start ELSE ran[m - 1].said
          /\ ran[m].saw.tag = "ok" /\ ran[m].said = asked[m][ran[m].saw.as]
      BY <2>2 DEF IdiomInv, ChainStopsAtFirstError
    <3>2. m - 1 # 0 => ran'[m - 1] = ran[m - 1]
      BY <1>5, <1>6, <2>2
    <3> QED BY <1>6, <2>2, <3>1, <3>2
  <2> QED BY <1>5, <2>1, <2>2
<1>10. order' = ran'[n + 1].said /\ n + 1 # 0
  BY <1>5, <1>6
<1>11. ChainStopsAtFirstError'
  BY <1>5, <1>6, <1>8, <1>9, <1>10 DEF ChainStopsAtFirstError
<1> QED BY <1>4, <1>11

\* After an error nothing is called any more.
LEMMA ErrorEndsChain ==
  ASSUME IdiomInv, NEW f \in Function \cup {check_stock}, AndThen(f), order.tag # "ok"
  PROVE  IdiomTypeOK' /\ ChainStopsAtFirstError'
<1>1. /\ order' = order /\ ran' = ran /\ start' = start /\ asked' = Append(asked, f)
      /\ recovered' = recovered /\ key' = key
  BY DEF AndThen, Calls, and_then, is_ok, cache
<1>2. asked \in Seq(Function \cup {check_stock}) /\ Len(ran) \in Nat
  BY DEF IdiomInv, IdiomTypeOK
<1>3. /\ Len(asked') = Len(asked) + 1
      /\ \A m \in 1 .. Len(asked) : asked'[m] = asked[m]
      /\ asked' \in Seq(Function \cup {check_stock})
  BY <1>1, <1>2
<1>4. Len(ran) <= Len(asked) /\ Len(asked) \in Nat
  BY <1>2 DEF IdiomInv, ChainStopsAtFirstError
<1>5. \A m \in 1 .. Len(ran) : asked'[m] = asked[m]
  BY <1>2, <1>3, <1>4
<1>6. ChainStopsAtFirstError'
  BY <1>1, <1>2, <1>3, <1>4, <1>5 DEF IdiomInv, ChainStopsAtFirstError
<1> QED BY <1>1, <1>3, <1>6 DEF IdiomInv, IdiomTypeOK

LEMMA IdiomInvNext == IdiomInv /\ [IdiomNext]_idiomVars => IdiomInv'
<1> SUFFICES ASSUME IdiomInv, [IdiomNext]_idiomVars PROVE IdiomInv'
  OBVIOUS
<1>1. ASSUME NEW f \in Function \cup {check_stock}, AndThen(f) PROVE IdiomInv'
  <2>1. IdiomTypeOK' /\ ChainStopsAtFirstError'
    BY <1>1, CallExtendsChain, ErrorEndsChain
  <2> QED BY <1>1, <2>1 DEF AndThen, cache, IdiomInv, DefaultIsZero, LookupFits
<1>2. CASE Unwrap
  <2>1. unwrap_or(order, 0) \in Id
    BY ResultCases, IdAssumption DEF unwrap_or, is_ok, IdiomInv, IdiomTypeOK
  <2>2. /\ start' = Value("ok", unwrap_or(order, 0)) /\ order' = start'
        /\ asked' = <<>> /\ ran' = <<>>
        /\ recovered' \in BOOLEAN
        /\ UNCHANGED <<key, lookup, resolved>>
    BY <1>2 DEF Unwrap, cache
  <2>3. start' \in OrderResult
    BY <2>1, <2>2 DEF OrderResult
  <2>4. IdiomTypeOK' /\ LookupFits'
    BY <2>2, <2>3 DEF IdiomInv, IdiomTypeOK, LookupFits
  <2>5. ChainStopsAtFirstError'
    BY <2>2 DEF ChainStopsAtFirstError
  <2>6. DefaultIsZero'
    <3>1. CASE ~is_ok(order)
      BY <1>2, <3>1 DEF Unwrap, unwrap_or, DefaultIsZero
    <3>2. CASE is_ok(order)
      <4> SUFFICES ASSUME recovered' PROVE start' = Value("ok", 0)
        BY DEF DefaultIsZero
      <4>1. recovered /\ order = start
        BY <1>2, <3>2 DEF Unwrap
      <4>2. order = Value("ok", 0)
        BY <4>1 DEF IdiomInv, DefaultIsZero
      <4>3. unwrap_or(order, 0) = 0
        BY <4>2 DEF unwrap_or, Value
      <4> QED BY <2>2, <4>3
    <3> QED BY <3>1, <3>2
  <2> QED BY <2>4, <2>5, <2>6 DEF IdiomInv
<1>3. CASE CacheGet
  BY <1>3
     DEF CacheGet, orders, IdiomInv, IdiomTypeOK, ChainStopsAtFirstError, DefaultIsZero,
         LookupFits
<1>4. CASE ValueOrFetch
  <2>1. lookup = cache_get(key) /\ key \in Int
    BY <1>4, IdAssumption DEF ValueOrFetch, IdiomInv, IdiomTypeOK, LookupFits
  <2>2. resolved' = Value("value", 10 * key)
    BY <1>4, <2>1 DEF ValueOrFetch, cache_get, Value
  <2> QED BY <1>4, <2>1, <2>2
     DEF ValueOrFetch, orders, IdiomInv, IdiomTypeOK, ChainStopsAtFirstError,
         DefaultIsZero, LookupFits
<1>5. CASE UNCHANGED idiomVars
  BY <1>5
     DEF idiomVars, orders, cache, IdiomInv, IdiomTypeOK, ChainStopsAtFirstError,
         DefaultIsZero, LookupFits
<1> QED BY <1>1, <1>2, <1>3, <1>4, <1>5 DEF IdiomNext

LEMMA IdiomInvariance == IdiomSpec => []IdiomInv
BY IdiomInvInit, IdiomInvNext, PTL DEF IdiomSpec

\* Chains of any length of any functions stop at the first error.
THEOREM ChainsStop == IdiomSpec => []ChainStopsAtFirstError
BY IdiomInvariance, PTL DEF IdiomInv

\* Whatever the program does in between, the default that stands in for a
\* failed order does not come through the stock check.
THEOREM ErrorsAreNotSold == IdiomSpec => []FailedOrderIsNotSold
<1>1. IdiomInv => FailedOrderIsNotSold
  <2> SUFFICES ASSUME IdiomInv, recovered, NEW n \in DOMAIN ran,
                      ran[n].f = check_stock, ran[n].saw = start
               PROVE  fold(order) < 0
    BY DEF FailedOrderIsNotSold
  <2>1. n \in 1 .. Len(ran) /\ Len(ran) \in Nat
    BY DEF IdiomInv, IdiomTypeOK
  <2>2. start.as = 0
    BY DEF IdiomInv, DefaultIsZero, Value
  <2>3. ran[n].said = check_stock[0]
    BY <2>1, <2>2 DEF IdiomInv, ChainStopsAtFirstError
  <2>4. ran[n].said.tag = "err" /\ ran[n].said.as = 1
    BY <2>3, IdAssumption DEF check_stock, Value, ERR_INSUFFICIENT_STOCK
  <2>5. n = Len(ran)
    <3> SUFFICES ASSUME n # Len(ran) PROVE FALSE
      OBVIOUS
    <3>1. n + 1 \in 1 .. Len(ran) /\ n + 1 - 1 = n /\ n # 0
      BY <2>1
    <3>2. ran[n + 1].saw = ran[n].said /\ ran[n + 1].saw.tag = "ok"
      BY <3>1 DEF IdiomInv, ChainStopsAtFirstError
    <3> QED BY <2>4, <3>2
  <2>6. order = ran[n].said
    BY <2>1, <2>5 DEF IdiomInv, ChainStopsAtFirstError
  <2> QED BY <2>4, <2>6 DEF fold, is_ok
<1> QED BY <1>1, IdiomInvariance, PTL

\* Every key resolves to ten times itself, in the cache or not.
THEOREM LookUpsAgree == IdiomSpec => []HitOrMissResolvesAlike
<1>1. IdiomInv => HitOrMissResolvesAlike
  BY DEF IdiomInv, LookupFits, HitOrMissResolvesAlike, Value
<1> QED BY <1>1, IdiomInvariance, PTL

==============================================================================
