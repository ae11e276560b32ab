-------------------------------- MODULE Idioms --------------------------------
(***************************************************************************)
(* The two idioms of src/include/generic_sum_type.h: a Result (ok / err)   *)
(* as src/examples/result_demo.c uses it for an order, and an Either       *)
(* (left / right) as src/examples/either_demo.c uses it for a look-up in a *)
(* cache.  The variants of each hold one number at the start of the union, *)
(* so a value is a tag and a word that does not tell what it is.           *)
(***************************************************************************)
EXTENDS Integers, Sequences

CONSTANTS Id,       \* numbers of orders
          Key,      \* keys of the cache
          Function, \* functions OrderId -> OrderResult of the program
          MaxCalls  \* bound: calls of and_then for one order

ERR_INSUFFICIENT_STOCK == 1
ERR_PAYMENT_FAILED == 2
Kind == {ERR_INSUFFICIENT_STOCK, ERR_PAYMENT_FAILED}

Value(tag, word) == [tag |-> tag, as |-> word]
OrderResult == {Value("ok", id) : id \in Id} \cup {Value("err", kind) : kind \in Kind}

ASSUME IdAssumption == Id \subseteq Nat /\ Kind \cup {0} \subseteq Id /\ Key \subseteq Int
ASSUME FunctionAssumption == Function \subseteq [Id -> OrderResult]

VARIABLES start,     \* the order as it was made
          order,     \* the result that and_then is applied to
          asked,     \* history: the functions passed to and_then
          ran,       \* history: those that were called, with what they saw and said
          recovered, \* history: start stands in for an order that failed
          key,       \* the key looked up
          lookup,    \* what cache_get returned
          resolved   \* what the fold of it returned

orders == <<start, order, asked, ran, recovered>>
cache == <<key, lookup, resolved>>
idiomVars == <<orders, cache>>

None == [tag |-> "none"]

IdiomInit ==
  /\ start \in OrderResult /\ order = start
  /\ asked = <<>> /\ ran = <<>> /\ recovered = FALSE
  /\ key \in Key /\ lookup = None /\ resolved = None

------------------------------------------------------------------------------
\* Result: an order.

is_ok(r) == r.tag = "ok"

\* The stock of every seventh order is short.
check_stock ==
  [id \in Id |-> IF id % 7 = 0 THEN Value("err", ERR_INSUFFICIENT_STOCK)
                 ELSE Value("ok", id)]

\* A function is called by and_then only with an order.  The fault calls it
\* with whatever the union holds.
Calls_Always(r) == TRUE

Calls(r) == is_ok(r)

and_then(r, f) == IF Calls(r) THEN f[r.as] ELSE r

AndThen(f) ==
  /\ Len(asked) < MaxCalls
  /\ order' = and_then(order, f)
  /\ asked' = Append(asked, f)
  /\ ran' = IF Calls(order)
            THEN Append(ran, [f |-> f, saw |-> order, said |-> order'])
            ELSE ran
  /\ UNCHANGED <<start, recovered, cache>>

\* The order in the union, or a default.  The fault takes the union anyway.
unwrap_or_Unchecked(r, default) == r.as

unwrap_or(r, default) == IF is_ok(r) THEN r.as ELSE default

\* The program goes on with the unwrapped order; a failed one is replaced by
\* order 0, the default of the demo.
Unwrap ==
  /\ start' = Value("ok", unwrap_or(order, 0)) /\ order' = start'
  /\ asked' = <<>> /\ ran' = <<>>
  /\ recovered' = (~is_ok(order) \/ (recovered /\ order = start))
  /\ UNCHANGED cache

\* The order's number, or minus the kind of the error.
fold(r) == IF is_ok(r) THEN r.as ELSE -r.as

------------------------------------------------------------------------------
\* Either: a look-up.  Even keys are in the cache, with ten times themselves.
\* The fault stores the key.

cache_get_Key(k) == Value(IF k % 2 = 0 THEN "right" ELSE "left", k)

cache_get(k) == IF k % 2 = 0 THEN Value("right", k * 10) ELSE Value("left", k)

CacheGet ==
  /\ lookup = None
  /\ lookup' = cache_get(key)
  /\ UNCHANGED <<key, resolved, orders>>

\* Lookup_value_or_fetch: on_miss fetches, on_hit takes the value.
ValueOrFetch ==
  /\ lookup # None /\ resolved = None
  /\ resolved' = Value("value", IF lookup.tag = "left" THEN lookup.as * 10
                                ELSE lookup.as)
  /\ UNCHANGED <<key, lookup, orders>>

IdiomNext ==
  \/ \E f \in Function \cup {check_stock} : AndThen(f)
  \/ Unwrap
  \/ CacheGet
  \/ ValueOrFetch

IdiomSpec == IdiomInit /\ [][IdiomNext]_idiomVars

------------------------------------------------------------------------------
\* Properties.

\* A chain of and_then stops at the first error and keeps it: what was called
\* is a beginning of what was asked for, each function saw the order that the
\* one before it let pass, the result is the last thing said, and it is ok
\* only if every function was called and none refused.
ChainStopsAtFirstError ==
  LET result(n) == IF n = 0 THEN start ELSE ran[n].said
  IN /\ Len(ran) <= Len(asked)
     /\ \A n \in 1 .. Len(ran) :
          /\ ran[n].f = asked[n] /\ ran[n].saw = result(n - 1)
          /\ ran[n].saw.tag = "ok" /\ ran[n].said = asked[n][ran[n].saw.as]
     /\ order = result(Len(ran))
     /\ order.tag = "ok" => Len(ran) = Len(asked)

\* No error is sold as an order: what unwrap_or puts in the place of a failed
\* order does not pass the stock check, however late that is made, unless a
\* function gave it another number before, and its fold says so to the end.
FailedOrderIsNotSold ==
  (recovered /\ \E n \in DOMAIN ran : ran[n].f = check_stock /\ ran[n].saw = start)
    => fold(order) < 0

\* A key resolves to the same value whether it was in the cache or fetched.
HitOrMissResolvesAlike == resolved # None => resolved.as = 10 * key

==============================================================================
