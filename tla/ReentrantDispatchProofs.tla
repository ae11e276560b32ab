----------------------- MODULE ReentrantDispatchProofs -----------------------
(***************************************************************************)
(* Proofs about ReentrantDispatch for any threads, contexts, locks, call   *)
(* graph and depth of nesting.                                             *)
(*                                                                         *)
(* TypeOK and LocksMatchActivations are inductive together: a dispatch     *)
(* that leaves is inside its region, so the lock it gives back is its own. *)
(***************************************************************************)
EXTENDS ReentrantDispatch, FiniteSetTheorems, SequenceTheorems,
        WellFoundedInduction, TLAPS

Inv == TypeOK /\ LocksMatchActivations

------------------------------------------------------------------------------
\* Stacks.

\* The running activation is one, and the last of the stack.
LEMMA TopOfStack ==
  ASSUME TypeOK, NEW t \in Thread, stack[t] # <<>>
  PROVE  /\ Len(stack[t]) \in Nat \ {0}
         /\ Len(stack[t]) \in DOMAIN stack[t]
         /\ DOMAIN stack[t] = 1 .. Len(stack[t])
         /\ Top(t) \in Activation
<1>1. stack[t] \in Seq(Activation)
  BY DEF TypeOK
<1>2. Len(stack[t]) \in Nat \ {0} /\ DOMAIN stack[t] = 1 .. Len(stack[t])
  BY <1>1, EmptySeq, LenProperties
<1> QED BY <1>1, <1>2, ElementOfSeq DEF Top

\* What replaces the running activation replaces nothing else.
LEMMA TopReplaced ==
  ASSUME TypeOK, NEW t \in Thread, stack[t] # <<>>,
         NEW a \in Activation,
         stack' = [stack EXCEPT ![t] = [stack[t] EXCEPT ![Len(stack[t])] = a]]
  PROVE  /\ stack' \in [Thread -> Seq(Activation)]
         /\ \A u \in Thread : u # t => stack'[u] = stack[u]
         /\ Len(stack'[t]) = Len(stack[t])
         /\ DOMAIN stack'[t] = DOMAIN stack[t]
         /\ \A n \in DOMAIN stack[t] :
              stack'[t][n] = IF n = Len(stack[t]) THEN a ELSE stack[t][n]
<1> DEFINE s == [stack[t] EXCEPT ![Len(stack[t])] = a]
<1>1. stack \in [Thread -> Seq(Activation)]
  BY DEF TypeOK
<1>2. Len(stack[t]) \in 1 .. Len(stack[t]) /\ DOMAIN stack[t] = 1 .. Len(stack[t])
  BY TopOfStack
<1>3. /\ s \in Seq(Activation)
      /\ Len(s) = Len(stack[t])
      /\ \A n \in 1 .. Len(stack[t]) :
           s[n] = IF n = Len(stack[t]) THEN a ELSE stack[t][n]
  BY <1>1, <1>2, ExceptSeq
<1>4. stack'[t] = s /\ \A u \in Thread : u # t => stack'[u] = stack[u]
  BY <1>1
<1>5. stack' \in [Thread -> Seq(Activation)]
  BY <1>1, <1>3
<1> QED BY <1>2, <1>3, <1>4, <1>5

\* A new activation is put on top of the others.
IsPushed(t, s, a) ==
  /\ stack' \in [Thread -> Seq(Activation)]
  /\ \A u \in Thread : u # t => stack'[u] = stack[u]
  /\ Len(s) \in Nat /\ DOMAIN s = 1 .. Len(s)
  /\ Len(stack'[t]) = Len(s) + 1
  /\ DOMAIN stack'[t] = 1 .. Len(s) + 1
  /\ \A n \in DOMAIN s : stack'[t][n] = s[n]
  /\ stack'[t][Len(s) + 1] = a

LEMMA Pushed ==
  ASSUME TypeOK, NEW t \in Thread, NEW s \in Seq(Activation), NEW a \in Activation,
         stack' = [stack EXCEPT ![t] = Append(s, a)]
  PROVE  IsPushed(t, s, a)
<1>1. stack \in [Thread -> Seq(Activation)]
  BY DEF TypeOK
<1>2. stack'[t] = Append(s, a) /\ \A u \in Thread : u # t => stack'[u] = stack[u]
  BY <1>1
<1>3. /\ Append(s, a) \in Seq(Activation)
      /\ Len(Append(s, a)) = Len(s) + 1
      /\ \A n \in 1 .. Len(s) : Append(s, a)[n] = s[n]
      /\ Append(s, a)[Len(s) + 1] = a
  BY AppendProperties
<1>4. Len(s) \in Nat /\ DOMAIN s = 1 .. Len(s)
  BY LenProperties
<1>5. DOMAIN Append(s, a) = 1 .. Len(s) + 1
  BY <1>3, LenProperties
<1>6. stack' \in [Thread -> Seq(Activation)]
  BY <1>1, <1>3
<1> QED BY <1>2, <1>3, <1>4, <1>5, <1>6 DEF IsPushed

\* Only the running activation is taken away.
LEMMA Popped ==
  ASSUME TypeOK, NEW t \in Thread, stack[t] # <<>>,
         stack' = [stack EXCEPT ![t] = SubSeq(@, 1, Len(@) - 1)]
  PROVE  /\ stack' \in [Thread -> Seq(Activation)]
         /\ \A u \in Thread : u # t => stack'[u] = stack[u]
         /\ Len(stack'[t]) = Len(stack[t]) - 1
         /\ DOMAIN stack'[t] = DOMAIN stack[t] \ {Len(stack[t])}
         /\ \A n \in DOMAIN stack'[t] : stack'[t][n] = stack[t][n]
<1> DEFINE s == SubSeq(stack[t], 1, Len(stack[t]) - 1)
<1>1. stack \in [Thread -> Seq(Activation)]
  BY DEF TypeOK
<1>2. /\ Len(stack[t]) \in Nat \ {0} /\ DOMAIN stack[t] = 1 .. Len(stack[t])
      /\ \A n \in 1 .. Len(stack[t]) - 1 : stack[t][n] \in Activation
  BY <1>1, TopOfStack, ElementOfSeq
<1>3. /\ s \in Seq(Activation)
      /\ Len(s) = Len(stack[t]) - 1
      /\ \A n \in 1 .. Len(stack[t]) - 1 : s[n] = stack[t][n]
  <2>1. Len(stack[t]) - 1 \in Int
    BY <1>2
  <2>2. /\ s \in Seq(Activation)
        /\ Len(s) = IF 1 <= Len(stack[t]) - 1 THEN Len(stack[t]) - 1 - 1 + 1 ELSE 0
        /\ \A n \in 1 .. Len(stack[t]) - 1 - 1 + 1 : s[n] = stack[t][1 + n - 1]
    BY <1>2, <2>1, SubSeqProperties
  <2> QED BY <1>2, <2>2
<1>4. stack'[t] = s /\ \A u \in Thread : u # t => stack'[u] = stack[u]
  BY <1>1
<1>5. DOMAIN s = 1 .. Len(s)
  BY <1>3, LenProperties
<1>6. stack' \in [Thread -> Seq(Activation)]
  BY <1>1, <1>3
<1> QED BY <1>2, <1>3, <1>4, <1>5, <1>6

------------------------------------------------------------------------------
\* What the actions do to the stacks.

\* The activations of the other threads stay as they are.
OthersKeep(t) == /\ stack' \in [Thread -> Seq(Activation)]
                 /\ \A u \in Thread \ {t} : stack'[u] = stack[u]

\* The n-th activation of t stays where it is; it may lose its call.
Keeps(t, n) == /\ stack'[t][n].ctx = stack[t][n].ctx
               /\ stack'[t][n].at = stack[t][n].at
               /\ stack'[t][n].seen = stack[t][n].seen
               /\ (stack'[t][n].mayCall => stack[t][n].mayCall)

\* Thread t is called on context c and waits for the lock; the activation that
\* called it, if there is one, has had its call.
Grows(t, c) ==
  /\ OthersKeep(t)
  /\ Len(stack[t]) \in Nat
  /\ DOMAIN stack[t] = 1 .. Len(stack[t])
  /\ Len(stack'[t]) = Len(stack[t]) + 1
  /\ DOMAIN stack'[t] = 1 .. Len(stack[t]) + 1
  /\ \A n \in DOMAIN stack[t] : Keeps(t, n)
  /\ stack'[t][Len(stack[t]) + 1].ctx = c
  /\ stack'[t][Len(stack[t]) + 1].at = "lock"
  /\ stack[t] # <<>> => ~stack'[t][Len(stack[t])].mayCall

\* The running activation of t goes on to a point of the dispatch function.
Moves(t, at) ==
  /\ OthersKeep(t)
  /\ stack[t] # <<>>
  /\ Len(stack[t]) \in DOMAIN stack[t]
  /\ Len(stack'[t]) = Len(stack[t])
  /\ DOMAIN stack'[t] = DOMAIN stack[t]
  /\ \A n \in DOMAIN stack[t] \ {Len(stack[t])} : Keeps(t, n)
  /\ stack'[t][Len(stack[t])].ctx = Top(t).ctx
  /\ stack'[t][Len(stack[t])].at = at
  /\ stack'[t][Len(stack[t])].mayCall => Top(t).mayCall

\* The running activation of t is over.
Shrinks(t) ==
  /\ OthersKeep(t)
  /\ Len(stack[t]) \in DOMAIN stack[t]
  /\ Len(stack'[t]) = Len(stack[t]) - 1
  /\ DOMAIN stack'[t] = DOMAIN stack[t] \ {Len(stack[t])}
  /\ \A n \in DOMAIN stack'[t] : Keeps(t, n)

\* Updating some fields of an activation leaves the others as they are.
LEMMA AtUpdated ==
  \A a \in Activation, p \in {"lock", "load", "body", "unlock"} :
    LET b == [a EXCEPT !.at = p]
    IN  b \in Activation /\ b.ctx = a.ctx /\ b.at = p /\ b.mayCall = a.mayCall
BY DEF Activation

LEMMA MayCallUpdated ==
  ASSUME NEW a \in Activation, NEW b, b = [a EXCEPT !.mayCall = FALSE]
  PROVE  b \in Activation /\ b.ctx = a.ctx /\ b.at = a.at /\ b.seen = a.seen
         /\ b.mayCall = FALSE
BY DEF Activation

LEMMA CalledType ==
  ASSUME NEW c \in Ctx, NEW valid \in BOOLEAN
  PROVE  Called(c, valid) \in Activation
BY DEF Called, Activation

LEMMA DispatchGrows ==
  ASSUME TypeOK, NEW t \in Thread, NEW c \in Ctx, NEW valid \in BOOLEAN,
         Dispatch(t, c, valid)
  PROVE  Grows(t, c)
<1>1. stack[t] = <<>> /\ <<>> \in Seq(Activation) /\ Len(<<>>) = 0
  BY EmptySeq DEF Dispatch
<1>2. stack' = [stack EXCEPT ![t] = Append(<<>>, Called(c, valid))]
  BY DEF Dispatch
<1>3. Called(c, valid) \in Activation
  BY CalledType
<1>4. /\ stack' \in [Thread -> Seq(Activation)]
      /\ \A u \in Thread : u # t => stack'[u] = stack[u]
      /\ DOMAIN stack[t] = 1 .. 0
      /\ Len(stack'[t]) = 1
      /\ DOMAIN stack'[t] = 1 .. 1
      /\ stack'[t][1] = Called(c, valid)
  <2> DEFINE s == <<>>
             a == Called(c, valid)
  <2>1. /\ a \in Activation /\ stack' = [stack EXCEPT ![t] = Append(s, a)]
        /\ s \in Seq(Activation)
    BY <1>1, <1>2, <1>3
  <2>3. Len(s) = 0 /\ stack[t] = s
    BY <1>1
  <2> HIDE DEF s, a
  <2>2. IsPushed(t, s, a)
    BY <2>1, Pushed
  <2> QED BY <2>2, <2>3 DEF a, IsPushed
<1>5. \A n \in DOMAIN stack[t] : Keeps(t, n)
  BY <1>4
<1>6. stack'[t][Len(stack[t]) + 1].ctx = c /\ stack'[t][Len(stack[t]) + 1].at = "lock"
  BY <1>1, <1>4 DEF Called
<1> QED BY <1>1, <1>4, <1>5, <1>6 DEF Grows, OthersKeep

LEMMA NestedGrows ==
  ASSUME TypeOK, NEW t \in Thread, NEW c \in Ctx, NEW valid \in BOOLEAN,
         Nested(t, c, valid)
  PROVE  Grows(t, c)
<1> DEFINE a == [Top(t) EXCEPT !.mayCall = FALSE]
           s == [stack[t] EXCEPT ![Len(stack[t])] = a]
<1>1. stack[t] # <<>> /\ stack[t] \in Seq(Activation)
  BY DEF Nested, Running, TypeOK
<1>2. /\ Len(stack[t]) \in DOMAIN stack[t] /\ DOMAIN stack[t] = 1 .. Len(stack[t])
      /\ Len(stack[t]) \in Nat
      /\ Top(t) \in Activation
  BY <1>1, TopOfStack
<1>3. /\ a \in Activation /\ a.ctx = Top(t).ctx /\ a.at = Top(t).at
      /\ a.seen = Top(t).seen /\ a.mayCall = FALSE
  BY <1>2, MayCallUpdated, Zenon
<1>4. /\ s \in Seq(Activation)
      /\ Len(s) = Len(stack[t])
      /\ \A n \in 1 .. Len(stack[t]) :
           s[n] = IF n = Len(stack[t]) THEN a ELSE stack[t][n]
  <2> HIDE DEF a
  <2> QED BY <1>1, <1>2, <1>3, ExceptSeq
<1>5. stack' = [stack EXCEPT ![t] = Append(s, Called(c, valid))]
  BY DEF Nested, Top
<1>6. Called(c, valid) \in Activation
  BY CalledType
<1>7. /\ stack' \in [Thread -> Seq(Activation)]
      /\ \A u \in Thread : u # t => stack'[u] = stack[u]
      /\ Len(stack'[t]) = Len(s) + 1
      /\ DOMAIN stack'[t] = 1 .. Len(s) + 1
      /\ \A n \in DOMAIN s : stack'[t][n] = s[n]
      /\ stack'[t][Len(s) + 1] = Called(c, valid)
      /\ DOMAIN s = 1 .. Len(s)
  <2> DEFINE b == Called(c, valid)
  <2>1. s \in Seq(Activation) /\ b \in Activation /\ stack' = [stack EXCEPT ![t] = Append(s, b)]
    BY <1>4, <1>5, <1>6, Zenon
  <2> HIDE DEF s, b
  <2>2. IsPushed(t, s, b)
    BY <2>1, Pushed
  <2> QED BY <2>2, Zenon DEF b, IsPushed
<1>8. \A n \in DOMAIN stack[t] : Keeps(t, n)
  <2> SUFFICES ASSUME NEW n \in DOMAIN stack[t] PROVE Keeps(t, n)
    OBVIOUS
  <2>1. stack'[t][n] = IF n = Len(stack[t]) THEN a ELSE stack[t][n]
    <3> HIDE DEF a
    <3> QED BY <1>2, <1>4, <1>7
  <2> QED BY <2>1, <1>3 DEF Keeps, Top
<1>9. stack'[t][Len(stack[t]) + 1].ctx = c /\ stack'[t][Len(stack[t]) + 1].at = "lock"
  BY <1>4, <1>7 DEF Called
<1>10. ~stack'[t][Len(stack[t])].mayCall
  <2> HIDE DEF a
  <2> QED BY <1>2, <1>3, <1>4, <1>7
<1> QED BY <1>2, <1>4, <1>7, <1>8, <1>9, <1>10 DEF Grows, OthersKeep

LEMMA EnterMoves ==
  ASSUME TypeOK, NEW t \in Thread, Enter(t)
  PROVE  Moves(t, Switch(Top(t).valid)) /\ Switch(Top(t).valid) \in {"load", "unlock"}
<1> DEFINE a == [Top(t) EXCEPT !.at = Switch(Top(t).valid)]
<1>1. stack[t] # <<>>
  BY DEF Enter, Running
<1>2. Len(stack[t]) \in DOMAIN stack[t] /\ Top(t) \in Activation
  BY <1>1, TopOfStack
<1>3. /\ a \in Activation /\ a.ctx = Top(t).ctx /\ a.at = Switch(Top(t).valid)
      /\ a.mayCall = Top(t).mayCall
  <2> DEFINE p == Switch(Top(t).valid)
  <2>1. p \in {"lock", "load", "body", "unlock"}
    BY <1>2 DEF Switch
  <2> HIDE DEF p
  <2>2. LET b == [Top(t) EXCEPT !.at = p]
        IN  /\ b \in Activation /\ b.ctx = Top(t).ctx /\ b.at = p
            /\ b.mayCall = Top(t).mayCall
    BY <1>2, <2>1, AtUpdated, ZenonT(30)
  <2> QED BY <2>2, Zenon DEF p
<1>4. stack' = [stack EXCEPT ![t] = [stack[t] EXCEPT ![Len(stack[t])] = a]]
  BY DEF Enter, Reach, Top
<1> HIDE DEF a
<1> QED BY <1>1, <1>2, <1>3, <1>4, TopReplaced DEF Moves, OthersKeep, Keeps, Switch

LEMMA LoadMoves ==
  ASSUME TypeOK, NEW t \in Thread, Load(t)
  PROVE  Moves(t, "body") /\ stack'[t][Len(stack[t])].seen = data[Top(t).ctx]
<1> DEFINE a == [Top(t) EXCEPT !.at = "body", !.seen = data[Top(t).ctx]]
<1>1. stack[t] # <<>>
  BY DEF Load, Running
<1>2. Len(stack[t]) \in DOMAIN stack[t] /\ Top(t) \in Activation
  BY <1>1, TopOfStack
<1>3. /\ a \in Activation /\ a.ctx = Top(t).ctx /\ a.at = "body"
      /\ a.seen = data[Top(t).ctx] /\ a.mayCall = Top(t).mayCall
  <2>1. data[Top(t).ctx] \in Nat
    BY <1>2 DEF TypeOK, Activation
  <2> DEFINE v == data[Top(t).ctx]
  <2>2. v \in Nat
    BY <2>1
  <2> HIDE DEF v
  <2>3. \A r \in Activation :
          LET b == [r EXCEPT !.at = "body", !.seen = v]
          IN  /\ b \in Activation /\ b.ctx = r.ctx /\ b.at = "body"
              /\ b.seen = v /\ b.mayCall = r.mayCall
    <3> TAKE r \in Activation
    <3> QED BY <2>2 DEF Activation
  <2> QED BY <1>2, <2>3, Zenon DEF v
<1>4. stack' = [stack EXCEPT ![t] = [stack[t] EXCEPT ![Len(stack[t])] = a]]
  BY DEF Load, Top
<1> HIDE DEF a
<1> QED BY <1>1, <1>2, <1>3, <1>4, TopReplaced DEF Moves, OthersKeep, Keeps

LEMMA StoreMoves ==
  ASSUME TypeOK, NEW t \in Thread, Store(t)
  PROVE  Moves(t, "unlock")
<1> DEFINE a == [Top(t) EXCEPT !.at = "unlock"]
<1>1. stack[t] # <<>>
  BY DEF Store, Running
<1>2. Len(stack[t]) \in DOMAIN stack[t] /\ Top(t) \in Activation
  BY <1>1, TopOfStack
<1>3. /\ a \in Activation /\ a.ctx = Top(t).ctx /\ a.at = "unlock"
      /\ a.mayCall = Top(t).mayCall
  BY <1>2, AtUpdated, Zenon
<1>4. stack' = [stack EXCEPT ![t] = [stack[t] EXCEPT ![Len(stack[t])] = a]]
  BY DEF Store, Reach, Top
<1> HIDE DEF a
<1> QED BY <1>1, <1>2, <1>3, <1>4, TopReplaced DEF Moves, OthersKeep, Keeps

LEMMA LeaveShrinks ==
  ASSUME TypeOK, NEW t \in Thread, Leave(t)
  PROVE  Shrinks(t)
<1>1. stack[t] # <<>> /\ stack' = [stack EXCEPT ![t] = SubSeq(@, 1, Len(@) - 1)]
  BY DEF Leave, Running
<1>2. Len(stack[t]) \in DOMAIN stack[t]
  BY <1>1, TopOfStack
<1> QED BY <1>1, <1>2, Popped DEF Shrinks, OthersKeep, Keeps

------------------------------------------------------------------------------
\* What the actions do to the lock regions.

LEMMA InsideFinite ==
  ASSUME TypeOK, NEW t \in Thread, NEW c \in Ctx
  PROVE  IsFiniteSet(Inside(t, c)) /\ Inside(t, c) \subseteq DOMAIN stack[t]
<1>1. stack[t] \in Seq(Activation)
  BY DEF TypeOK
<1>2. DOMAIN stack[t] = 1 .. Len(stack[t]) /\ Len(stack[t]) \in Nat
  BY <1>1, LenProperties
<1>3. IsFiniteSet(DOMAIN stack[t])
  BY <1>2, FS_Interval
<1> QED BY <1>3, FS_Subset DEF Inside

\* A call waits outside the region.
LEMMA GrowsOutside ==
  ASSUME NEW t \in Thread, NEW c, Grows(t, c), NEW u \in Thread, NEW d \in Ctx
  PROVE  Inside(u, d)' = Inside(u, d)
<1>1. CASE u # t
  BY <1>1 DEF Grows, OthersKeep, Inside
<1>2. CASE u = t
  BY <1>2 DEF Grows, Keeps, Inside
<1> QED BY <1>1, <1>2

\* Loads and stores happen inside it.
LEMMA MovesInside ==
  ASSUME NEW t \in Thread, NEW at, Moves(t, at), at # "lock", Top(t).at # "lock",
         NEW u \in Thread, NEW d \in Ctx
  PROVE  Inside(u, d)' = Inside(u, d)
<1>1. CASE u # t
  BY <1>1 DEF Moves, OthersKeep, Inside
<1>2. CASE u = t
  BY <1>2 DEF Moves, Keeps, Inside, Top
<1> QED BY <1>1, <1>2

\* SUM_CTX_LOCK is the way in ...
LEMMA MovesIn ==
  ASSUME NEW t \in Thread, NEW at, Moves(t, at), at # "lock", Top(t).at = "lock",
         NEW c \in Ctx, c = Top(t).ctx
  PROVE  /\ Inside(t, c)' = Inside(t, c) \cup {Len(stack[t])}
         /\ Len(stack[t]) \notin Inside(t, c)
         /\ \A u \in Thread, d \in Ctx :
              u # t \/ d # c => Inside(u, d)' = Inside(u, d)
<1> DEFINE n == Len(stack[t])
<1>1. /\ n \in DOMAIN stack[t]
      /\ DOMAIN stack'[t] = DOMAIN stack[t]
      /\ \A m \in DOMAIN stack[t] \ {n} :
           stack'[t][m].ctx = stack[t][m].ctx /\ stack'[t][m].at = stack[t][m].at
      /\ stack'[t][n].ctx = c /\ stack'[t][n].at # "lock"
      /\ stack[t][n].ctx = c /\ stack[t][n].at = "lock"
  BY DEF Moves, Keeps, Top
<1>2. \A u \in Thread \ {t} : stack'[u] = stack[u]
  BY DEF Moves, OthersKeep
<1> HIDE DEF n
<1>3. \A d \in Ctx : d # c => Inside(t, d)' = Inside(t, d)
  BY <1>1 DEF Inside
<1>4. {m \in DOMAIN stack'[t] : stack'[t][m].ctx = c /\ stack'[t][m].at # "lock"}
        = Inside(t, c) \cup {n}
  BY <1>1 DEF Inside
<1>5. n \notin Inside(t, c)
  BY <1>1 DEF Inside
<1>6. \A u \in Thread \ {t}, d \in Ctx : Inside(u, d)' = Inside(u, d)
  BY <1>2 DEF Inside
<1>7. \A d \in Ctx : Inside(t, d)' =
        {m \in DOMAIN stack'[t] : stack'[t][m].ctx = d /\ stack'[t][m].at # "lock"}
  BY DEF Inside
<1> QED BY <1>3, <1>4, <1>5, <1>6, <1>7 DEF n

\* ... and SUM_CTX_UNLOCK with the return the way out.
LEMMA ShrinksOut ==
  ASSUME NEW t \in Thread, Shrinks(t), Top(t).at # "lock",
         NEW c \in Ctx, c = Top(t).ctx
  PROVE  /\ Inside(t, c)' = Inside(t, c) \ {Len(stack[t])}
         /\ Len(stack[t]) \in Inside(t, c)
         /\ \A u \in Thread, d \in Ctx :
              u # t \/ d # c => Inside(u, d)' = Inside(u, d)
<1> DEFINE n == Len(stack[t])
<1>1. /\ n \in DOMAIN stack[t]
      /\ DOMAIN stack'[t] = DOMAIN stack[t] \ {n}
      /\ \A m \in DOMAIN stack[t] \ {n} :
           stack'[t][m].ctx = stack[t][m].ctx /\ stack'[t][m].at = stack[t][m].at
      /\ stack[t][n].ctx = c /\ stack[t][n].at # "lock"
  BY DEF Shrinks, Keeps, Top
<1>2. \A u \in Thread \ {t} : stack'[u] = stack[u]
  BY DEF Shrinks, OthersKeep
<1> HIDE DEF n
<1>3. \A d \in Ctx : d # c => Inside(t, d)' = Inside(t, d)
  BY <1>1 DEF Inside
<1>4. {m \in DOMAIN stack'[t] : stack'[t][m].ctx = c /\ stack'[t][m].at # "lock"}
        = Inside(t, c) \ {n}
  BY <1>1 DEF Inside
<1>5. n \in Inside(t, c)
  BY <1>1 DEF Inside
<1>6. \A u \in Thread \ {t}, d \in Ctx : Inside(u, d)' = Inside(u, d)
  BY <1>2 DEF Inside
<1>7. \A d \in Ctx : Inside(t, d)' =
        {m \in DOMAIN stack'[t] : stack'[t][m].ctx = d /\ stack'[t][m].at # "lock"}
  BY DEF Inside
<1> QED BY <1>3, <1>4, <1>5, <1>6, <1>7 DEF n

------------------------------------------------------------------------------
\* The inductive invariant.

\* A dispatch that leaves gives back a lock of its own.
LEMMA LeaverOwns ==
  ASSUME Inv, NEW t \in Thread, Leave(t), NEW c \in Ctx, c = Top(t).ctx,
         Kind[c] # "none"
  PROVE  owner[c] = t /\ depth[c] \in Nat \ {0} /\ Cardinality(Inside(t, c)) = depth[c]
<1>1. TypeOK /\ Top(t).at = "unlock"
  BY DEF Inv, Leave, Running
<1>2. Len(stack[t]) \in Inside(t, c)
  BY <1>1, LeaveShrinks, ShrinksOut
<1>3. Cardinality(Inside(t, c)) # 0
  BY <1>1, <1>2, InsideFinite, FS_EmptySet
<1>4. Cardinality(Inside(t, c)) = IF owner[c] = t THEN depth[c] ELSE 0
  BY DEF Inv, LocksMatchActivations
<1> QED BY <1>1, <1>3, <1>4 DEF TypeOK

\* Initially nobody is inside anything.
LEMMA InvInit == Init => Inv
<1> SUFFICES ASSUME Init PROVE Inv
  OBVIOUS
<1>1. <<>> \in Seq(Activation) /\ DOMAIN <<>> = {}
  BY EmptySeq
<1>2. TypeOK
  BY <1>1, KindAssumption DEF Init, TypeOK
<1>3. ASSUME NEW t \in Thread, NEW c \in Ctx PROVE Inside(t, c) = {}
  BY <1>1 DEF Init, Inside
<1>4. LocksMatchActivations
  BY <1>3, FS_EmptySet, KindAssumption DEF Init, LocksMatchActivations
<1> QED BY <1>2, <1>4 DEF Inv

\* Steps that stay on their side of LOCK and UNLOCK.
LEMMA InvKept ==
  ASSUME Inv, UNCHANGED lockVars,
         stack' \in [Thread -> Seq(Activation)],
         \A u \in Thread, d \in Ctx : Inside(u, d)' = Inside(u, d),
         data' \in [Ctx -> Nat], handled' \in [Ctx -> Nat], todo' \in [Thread -> Nat]
  PROVE  Inv'
<1>1. TypeOK'
  BY DEF Inv, TypeOK, lockVars
<1>2. LocksMatchActivations'
  BY DEF Inv, LocksMatchActivations, lockVars
<1> QED BY <1>1, <1>2 DEF Inv

LEMMA InvEnter ==
  ASSUME Inv, NEW t \in Thread, Enter(t)
  PROVE  Inv'
<1> DEFINE at == Switch(Top(t).valid)
<1>1. TypeOK /\ stack[t] # <<>> /\ Top(t).at = "lock"
  BY DEF Inv, Enter, Running
<1>2. PICK c \in Ctx : c = Top(t).ctx
  BY <1>1, TopOfStack DEF Activation
<1>3. Moves(t, at) /\ at # "lock"
  BY <1>1, EnterMoves
<1> HIDE DEF at
<1>4. /\ Inside(t, c)' = Inside(t, c) \cup {Len(stack[t])}
      /\ Len(stack[t]) \notin Inside(t, c)
      /\ \A u \in Thread, d \in Ctx : u # t \/ d # c => Inside(u, d)' = Inside(u, d)
  BY <1>1, <1>2, <1>3, MovesIn
<1>5. stack' \in [Thread -> Seq(Activation)]
  BY <1>3 DEF Moves, OthersKeep
<1>6. CASE Kind[c] = "none"
  <2>1. UNCHANGED <<lockVars, data, todo, handled>>
    BY <1>2, <1>6 DEF Enter
  <2>2. TypeOK'
    BY <1>1, <1>5, <2>1 DEF TypeOK, lockVars
  <2>3. LocksMatchActivations'
    BY <1>4, <1>6, <2>1 DEF Inv, LocksMatchActivations, lockVars
  <2> QED BY <2>2, <2>3 DEF Inv
<1>7. CASE Kind[c] # "none"
  <2>1. /\ owner' = [owner EXCEPT ![c] = t]
        /\ depth' = [depth EXCEPT ![c] = @ + 1]
        /\ owner[c] = NoOwner \/ owner[c] = t
        /\ UNCHANGED <<data, todo, handled>>
    BY <1>2, <1>7 DEF Enter, CanLock, Locks
  <2>2. TypeOK'
    BY <1>1, <1>5, <2>1, KindAssumption DEF TypeOK
  <2>3. IsFiniteSet(Inside(t, c))
    BY <1>1, InsideFinite
  <2>4. \A u \in Thread :
          Cardinality(Inside(u, c)) = IF owner[c] = u THEN depth[c] ELSE 0
    BY <1>7 DEF Inv, LocksMatchActivations
  <2>5. Cardinality(Inside(t, c)) = depth[c]
    BY <1>1, <2>1, <2>4, KindAssumption DEF TypeOK
  <2>6. Cardinality(Inside(t, c)') = depth[c] + 1
    BY <1>4, <2>3, <2>5, FS_AddElement
  <2>7. ASSUME NEW u \in Thread, u # t PROVE Cardinality(Inside(u, c)') = 0
    BY <1>4, <2>1, <2>4, <2>7, KindAssumption
  <2>8. \A u \in Thread :
          Cardinality(Inside(u, c)') = IF owner'[c] = u THEN depth'[c] ELSE 0
    BY <1>1, <2>1, <2>6, <2>7 DEF TypeOK
  <2>9. ASSUME NEW d \in Ctx, d # c, Kind[d] # "none", NEW u \in Thread
        PROVE  Cardinality(Inside(u, d)') = IF owner'[d] = u THEN depth'[d] ELSE 0
    BY <1>1, <1>4, <2>1, <2>9 DEF Inv, LocksMatchActivations, TypeOK
  <2>10. LocksMatchActivations'
    BY <2>8, <2>9 DEF LocksMatchActivations
  <2> QED BY <2>2, <2>10 DEF Inv
<1> QED BY <1>6, <1>7

LEMMA InvLeave ==
  ASSUME Inv, NEW t \in Thread, Leave(t)
  PROVE  Inv'
<1>1. TypeOK /\ stack[t] # <<>> /\ Top(t).at = "unlock"
  BY DEF Inv, Leave, Running
<1>2. PICK c \in Ctx : c = Top(t).ctx
  BY <1>1, TopOfStack DEF Activation
<1>3. Shrinks(t)
  BY <1>1, LeaveShrinks
<1>4. /\ Inside(t, c)' = Inside(t, c) \ {Len(stack[t])}
      /\ Len(stack[t]) \in Inside(t, c)
      /\ \A u \in Thread, d \in Ctx : u # t \/ d # c => Inside(u, d)' = Inside(u, d)
  BY <1>1, <1>2, <1>3, ShrinksOut
<1>5. stack' \in [Thread -> Seq(Activation)]
  BY <1>3 DEF Shrinks, OthersKeep
<1>6. CASE Kind[c] = "none"
  <2>1. UNCHANGED <<lockVars, data, todo, handled>>
    BY <1>2, <1>6 DEF Leave
  <2>2. TypeOK'
    BY <1>1, <1>5, <2>1 DEF TypeOK, lockVars
  <2>3. LocksMatchActivations'
    BY <1>4, <1>6, <2>1 DEF Inv, LocksMatchActivations, lockVars
  <2> QED BY <2>2, <2>3 DEF Inv
<1>7. CASE Kind[c] # "none"
  <2>1. /\ depth' = [depth EXCEPT ![c] = @ - 1]
        /\ owner' = [owner EXCEPT ![c] = IF depth[c] = 1 THEN NoOwner ELSE @]
        /\ UNCHANGED <<data, todo, handled>>
    BY <1>2, <1>7 DEF Leave, Unlocks
  <2>2. owner[c] = t /\ depth[c] \in Nat \ {0} /\ Cardinality(Inside(t, c)) = depth[c]
    BY <1>2, <1>7, LeaverOwns
  <2>3. TypeOK'
    BY <1>1, <1>5, <2>1, <2>2, KindAssumption DEF TypeOK
  <2>4. Cardinality(Inside(t, c)') = depth[c] - 1
    <3>1. IsFiniteSet(Inside(t, c))
      BY <1>1, InsideFinite
    <3>2. Cardinality(Inside(t, c) \ {Len(stack[t])}) = Cardinality(Inside(t, c)) - 1
      BY <1>4, <3>1, FS_RemoveElement
    <3> QED BY <1>4, <2>2, <3>2
  <2>5. ASSUME NEW u \in Thread, u # t PROVE Cardinality(Inside(u, c)') = 0
    BY <1>4, <1>7, <2>2, <2>5 DEF Inv, LocksMatchActivations
  <2>6. owner'[c] = (IF depth[c] = 1 THEN NoOwner ELSE t) /\ depth'[c] = depth[c] - 1
    BY <1>1, <2>1, <2>2 DEF TypeOK
  <2>7. \A u \in Thread :
          Cardinality(Inside(u, c)') = IF owner'[c] = u THEN depth'[c] ELSE 0
    BY <2>2, <2>4, <2>5, <2>6, KindAssumption
  <2>8. ASSUME NEW d \in Ctx, d # c, Kind[d] # "none", NEW u \in Thread
        PROVE  Cardinality(Inside(u, d)') = IF owner'[d] = u THEN depth'[d] ELSE 0
    BY <1>1, <1>4, <2>1, <2>8 DEF Inv, LocksMatchActivations, TypeOK
  <2>9. LocksMatchActivations'
    BY <2>7, <2>8 DEF LocksMatchActivations
  <2> QED BY <2>3, <2>9 DEF Inv
<1> QED BY <1>6, <1>7

LEMMA InvNext == Inv /\ [Next]_vars => Inv'
<1> SUFFICES ASSUME Inv, [Next]_vars PROVE Inv'
  OBVIOUS
<1>0. TypeOK
  BY DEF Inv
<1>1. ASSUME NEW t \in Thread, NEW c \in Ctx, NEW valid \in BOOLEAN, Dispatch(t, c, valid)
      PROVE  Inv'
  <2>1. Grows(t, c)
    BY <1>0, <1>1, DispatchGrows
  <2>2. stack' \in [Thread -> Seq(Activation)]
    BY <2>1 DEF Grows, OthersKeep
  <2>3. UNCHANGED <<lockVars, data, handled>> /\ todo' \in [Thread -> Nat]
    BY <1>0, <1>1 DEF Dispatch, TypeOK
  <2> QED BY <1>0, <2>1, <2>2, <2>3, GrowsOutside, InvKept DEF TypeOK
<1>2. ASSUME NEW t \in Thread, NEW c \in Ctx, NEW valid \in BOOLEAN, Nested(t, c, valid)
      PROVE  Inv'
  <2>1. Grows(t, c)
    BY <1>0, <1>2, NestedGrows
  <2>2. stack' \in [Thread -> Seq(Activation)]
    BY <2>1 DEF Grows, OthersKeep
  <2>3. UNCHANGED <<lockVars, data, todo, handled>>
    BY <1>2 DEF Nested
  <2> QED BY <1>0, <2>1, <2>2, <2>3, GrowsOutside, InvKept DEF TypeOK
<1>3. ASSUME NEW t \in Thread, Enter(t) PROVE Inv'
  BY <1>3, InvEnter
<1>4. ASSUME NEW t \in Thread, Load(t) PROVE Inv'
  <2>1. Moves(t, "body") /\ Top(t).at = "load"
    BY <1>0, <1>4, LoadMoves DEF Load, Running
  <2>2. stack' \in [Thread -> Seq(Activation)]
    BY <2>1 DEF Moves, OthersKeep
  <2>3. UNCHANGED <<lockVars, data, todo, handled>>
    BY <1>4 DEF Load
  <2>4. \A u \in Thread, d \in Ctx : Inside(u, d)' = Inside(u, d)
    BY <2>1, MovesInside
  <2> QED BY <1>0, <2>2, <2>3, <2>4, InvKept DEF TypeOK
<1>5. ASSUME NEW t \in Thread, Store(t) PROVE Inv'
  <2>1. Moves(t, "unlock") /\ Top(t).at = "body"
    BY <1>0, <1>5, StoreMoves DEF Store, Running
  <2>2. stack' \in [Thread -> Seq(Activation)]
    BY <2>1 DEF Moves, OthersKeep
  <2>3. Top(t) \in Activation
    BY <1>0, <1>5, TopOfStack DEF Store, Running
  <2>4. UNCHANGED <<lockVars, todo>> /\ data' \in [Ctx -> Nat] /\ handled' \in [Ctx -> Nat]
    BY <1>0, <1>5, <2>3 DEF Store, TypeOK, Activation
  <2>5. \A u \in Thread, d \in Ctx : Inside(u, d)' = Inside(u, d)
    BY <2>1, MovesInside
  <2> QED BY <1>0, <2>2, <2>4, <2>5, InvKept DEF TypeOK
<1>6. ASSUME NEW t \in Thread, Leave(t) PROVE Inv'
  BY <1>6, InvLeave
<1>7. CASE UNCHANGED vars
  BY <1>0, <1>7, InvKept DEF vars, lockVars, Inside, TypeOK
<1> QED BY <1>1, <1>2, <1>3, <1>4, <1>5, <1>6, <1>7 DEF Next, Step, Terminating

\* Every variable keeps its type.
THEOREM TypeCorrect == Spec => []TypeOK
<1>1. Inv => TypeOK
  BY DEF Inv
<1> QED BY <1>1, InvInit, InvNext, PTL DEF Spec

\* LOCK and UNLOCK stay paired over any nesting, for any number of threads
\* and contexts: a dispatch never leaves with a lock or without its own.
THEOREM LocksMatch == Spec => []LocksMatchActivations
<1>1. Inv => LocksMatchActivations
  BY DEF Inv
<1> QED BY <1>1, InvInit, InvNext, PTL DEF Spec

------------------------------------------------------------------------------
\* Who waits for whom.

\* Who is inside a region with a lock owns it.
LEMMA InsideOwns ==
  ASSUME Inv, NEW t \in Thread, NEW c \in Ctx, Kind[c] # "none", Inside(t, c) # {}
  PROVE  owner[c] = t
<1>1. IsFiniteSet(Inside(t, c))
  BY InsideFinite DEF Inv
<1>2. Cardinality(Inside(t, c)) # 0
  BY <1>1, FS_EmptySet
<1> QED BY <1>2 DEF Inv, LocksMatchActivations

\* Who owns a lock is inside its region.
LEMMA OwnerInside ==
  ASSUME Inv, NEW t \in Thread, NEW c \in Ctx, Kind[c] # "none", owner[c] = t
  PROVE  Inside(t, c) # {}
<1>1. Cardinality(Inside(t, c)) # 0
  BY KindAssumption DEF Inv, LocksMatchActivations, TypeOK
<1> QED BY <1>1, FS_EmptySet

\* A thread that waits does so for the owner of a lock.
LEMMA WaitsForOwner ==
  ASSUME Inv, NEW t \in Thread, Waiting(t)
  PROVE  \E c \in Ctx, u \in Thread :
           /\ c = Top(t).ctx /\ Kind[c] # "none" /\ owner[c] = u
           /\ WaitsFor(t, u) /\ Inside(u, c) # {}
<1>1. PICK c \in Ctx : c = Top(t).ctx
  BY TopOfStack DEF Inv, Waiting, Running, Activation
<1>2. Kind[c] # "none" /\ owner[c] \in Thread
  BY <1>1 DEF Waiting, CanLock, Inv, TypeOK
<1> QED BY <1>1, <1>2, OwnerInside DEF WaitsFor

\* When nothing goes on any more, the threads that wait are a circle.
THEOREM StopsInCircles == Spec => []StopsOnlyInACircle
<1>1. Inv => StopsOnlyInACircle
  <2> SUFFICES ASSUME Inv, Ended, NEW t \in Thread, ~Finished(t)
               PROVE  \E S \in SUBSET Thread : Circular(S)
    BY DEF StopsOnlyInACircle
  <2> DEFINE S == {u \in Thread : Waiting(u)}
  <2>1. t \in S
    BY DEF Ended
  <2>2. ASSUME NEW u \in S PROVE \E w \in S : WaitsFor(u, w)
    <3>1. PICK c \in Ctx, w \in Thread : WaitsFor(u, w) /\ Inside(w, c) # {}
      BY WaitsForOwner
    <3>2. stack[w] # <<>>
      BY <3>1, EmptySeq DEF Inside
    <3> QED BY <3>1, <3>2 DEF Ended, Finished
  <2> QED BY <2>1, <2>2 DEF Circular
<1> QED BY <1>1, InvInit, InvNext, PTL DEF Spec

\* The lock of a thread that waits for itself is given back by nobody else.
LEMMA SelfWaitKept ==
  ASSUME Inv, [Next]_vars, NEW t \in Thread, WaitsFor(t, t)
  PROVE  WaitsFor(t, t)'
<1>0. TypeOK
  BY DEF Inv
<1>1. PICK c \in Ctx : c = Top(t).ctx
  BY <1>0, TopOfStack DEF WaitsFor, Waiting, Running, Activation
<1>2. stack[t] # <<>> /\ Top(t).at = "lock" /\ ~CanLock(t, c) /\ owner[c] = t
  BY <1>1 DEF WaitsFor, Waiting, Running
<1>3. SUFFICES stack'[t] = stack[t] /\ owner'[c] = t
  BY <1>1, <1>2 DEF WaitsFor, Waiting, Running, CanLock, Top
<1>4. ASSUME NEW u \in Thread, NEW d \in Ctx, NEW valid \in BOOLEAN,
             Dispatch(u, d, valid) \/ Nested(u, d, valid)
      PROVE  stack'[t] = stack[t] /\ owner'[c] = t
  <2>1. u # t
    BY <1>2, <1>4 DEF Dispatch, Nested, Running
  <2>2. Grows(u, d)
    BY <1>0, <1>4, DispatchGrows, NestedGrows
  <2> QED BY <1>2, <1>4, <2>1, <2>2 DEF Dispatch, Nested, lockVars, Grows, OthersKeep
<1>5. ASSUME NEW u \in Thread, Enter(u)
      PROVE  stack'[t] = stack[t] /\ owner'[c] = t
  <2>1. PICK d \in Ctx : d = Top(u).ctx
    BY <1>0, <1>5, TopOfStack DEF Enter, Running, Activation
  <2>2. CanLock(u, d) /\ u # t
    BY <1>1, <1>2, <1>5, <2>1 DEF Enter
  <2>3. OthersKeep(u)
    BY <1>0, <1>5, EnterMoves DEF Moves
  <2>4. d = c => Kind[d] = "none"
    BY <1>0, <1>2, <2>2, KindAssumption DEF CanLock, TypeOK
  <2>5. owner'[c] = t
    BY <1>0, <1>2, <1>5, <2>1, <2>4 DEF Enter, lockVars, TypeOK
  <2> QED BY <2>2, <2>3, <2>5 DEF OthersKeep
<1>6. ASSUME NEW u \in Thread, Load(u)
      PROVE  stack'[t] = stack[t] /\ owner'[c] = t
  BY <1>0, <1>2, <1>6, LoadMoves DEF Load, Running, lockVars, Moves, OthersKeep
<1>7. ASSUME NEW u \in Thread, Store(u)
      PROVE  stack'[t] = stack[t] /\ owner'[c] = t
  BY <1>0, <1>2, <1>7, StoreMoves DEF Store, Running, lockVars, Moves, OthersKeep
<1>8. ASSUME NEW u \in Thread, Leave(u)
      PROVE  stack'[t] = stack[t] /\ owner'[c] = t
  <2>1. PICK d \in Ctx : d = Top(u).ctx
    BY <1>0, <1>8, TopOfStack DEF Leave, Running, Activation
  <2>2. u # t
    BY <1>2, <1>8 DEF Leave, Running
  <2>3. OthersKeep(u)
    BY <1>0, <1>8, LeaveShrinks DEF Shrinks
  <2>4. Kind[d] # "none" => owner[d] = u
    BY <1>8, <2>1, LeaverOwns
  <2>5. owner'[c] = t
    BY <1>0, <1>2, <1>8, <2>1, <2>2, <2>4 DEF Leave, lockVars, TypeOK
  <2> QED BY <2>2, <2>3, <2>5 DEF OthersKeep
<1>9. CASE UNCHANGED vars
  BY <1>2, <1>9 DEF vars
<1> QED BY <1>4, <1>5, <1>6, <1>7, <1>8, <1>9 DEF Next, Step, Terminating

\* A dispatch on a context whose plain mutex the thread holds never returns.
THEOREM SelfDeadlocksAreFinal == Spec => SelfDeadlockIsFinal
<1>1. Inv /\ [Next]_vars => [\A t \in Thread : WaitsFor(t, t) => WaitsFor(t, t)']_vars
  BY SelfWaitKept
<1> QED BY <1>1, InvInit, InvNext, PTL DEF Spec, SelfDeadlockIsFinal

------------------------------------------------------------------------------
(***************************************************************************)
(* Why a program ends or stops in a circle.  Every step lowers the work of *)
(* the thread that takes it and leaves the work of the others alone; with  *)
(* StopsInCircles this is all that FinishesOrCircles needs but fairness.   *)
(***************************************************************************)

\* The steps before an activation that dispatches no more ...
Rest(at) == CASE at = "lock" -> 4 [] at = "load" -> 3 [] at = "body" -> 2 [] OTHER -> 1

\* ... and those of the one it may yet dispatch, if it is the n-th of a stack,
\* with those that this one may dispatch in turn.
Room(n) == IF n < MaxDepth THEN 5 * (MaxDepth - n) ELSE 0

TopWork(a, n) == Rest(a.at) + IF a.mayCall /\ a.at # "unlock" THEN Room(n) ELSE 0

\* Everything below the running activation only has to store and to leave.
StackWork(s) ==
  IF s = <<>> THEN 0 ELSE 2 * (Len(s) - 1) + TopWork(s[Len(s)], Len(s))

ThreadWork(t) == todo[t] * (5 * MaxDepth + 5) + StackWork(stack[t])

\* Whatever lies below the running activation has dispatched it from its body,
\* and will not dispatch again.
Suspended ==
  \A t \in Thread : \A n \in DOMAIN stack[t] :
    n # Len(stack[t]) => stack[t][n].at = "body" /\ ~stack[t][n].mayCall

LEMMA SuspendedInit == Init => Suspended
<1>1. DOMAIN <<>> = {}
  BY EmptySeq
<1> QED BY <1>1 DEF Init, Suspended

LEMMA SuspendedOne ==
  ASSUME Suspended, NEW t \in Thread, OthersKeep(t),
         \A n \in DOMAIN stack'[t] :
           n # Len(stack'[t]) => stack'[t][n].at = "body" /\ ~stack'[t][n].mayCall
  PROVE  Suspended'
BY DEF Suspended, OthersKeep

LEMMA SuspendedNext ==
  ASSUME Inv, [Next]_vars, Suspended
  PROVE  Suspended'
<1>0. TypeOK
  BY DEF Inv
<1>1. ASSUME NEW t \in Thread, NEW c \in Ctx, NEW valid \in BOOLEAN,
             Dispatch(t, c, valid) \/ Nested(t, c, valid)
      PROVE  Suspended'
  <2>1. Grows(t, c)
    BY <1>0, <1>1, DispatchGrows, NestedGrows
  <2>2. stack[t] # <<>> => stack[t][Len(stack[t])].at = "body"
    BY <1>1 DEF Dispatch, Nested, Running, Top
  <2>3. ASSUME NEW n \in DOMAIN stack'[t], n # Len(stack'[t])
        PROVE  stack'[t][n].at = "body" /\ ~stack'[t][n].mayCall
    <3>1. n \in DOMAIN stack[t] /\ Keeps(t, n) /\ stack[t] # <<>>
      BY <2>1, <2>3, EmptySeq DEF Grows
    <3>2. CASE n = Len(stack[t])
      BY <2>1, <2>2, <3>1, <3>2 DEF Grows, Keeps
    <3>3. CASE n # Len(stack[t])
      BY <3>1, <3>3 DEF Suspended, Keeps
    <3> QED BY <3>2, <3>3
  <2> QED BY <2>1, <2>3, SuspendedOne DEF Grows
<1>2. ASSUME NEW t \in Thread, Enter(t) \/ Load(t) \/ Store(t)
      PROVE  Suspended'
  <2>1. PICK at : Moves(t, at)
    BY <1>0, <1>2, EnterMoves, LoadMoves, StoreMoves
  <2>2. ASSUME NEW n \in DOMAIN stack'[t], n # Len(stack'[t])
        PROVE  stack'[t][n].at = "body" /\ ~stack'[t][n].mayCall
    BY <2>1, <2>2 DEF Moves, Keeps, Suspended
  <2> QED BY <2>1, <2>2, SuspendedOne DEF Moves
<1>3. ASSUME NEW t \in Thread, Leave(t)
      PROVE  Suspended'
  <2>1. Shrinks(t)
    BY <1>0, <1>3, LeaveShrinks
  <2>2. ASSUME NEW n \in DOMAIN stack'[t]
        PROVE  stack'[t][n].at = "body" /\ ~stack'[t][n].mayCall
    BY <2>1, <2>2 DEF Shrinks, Keeps, Suspended
  <2> QED BY <2>1, <2>2, SuspendedOne DEF Shrinks
<1>4. CASE UNCHANGED vars
  BY <1>4 DEF vars, Suspended
<1> QED BY <1>1, <1>2, <1>3, <1>4 DEF Next, Step, Terminating

LEMMA RoomBounds ==
  ASSUME NEW n \in Nat
  PROVE  /\ Room(n) \in Nat
         /\ n < MaxDepth => Room(n) = Room(n + 1) + 5
         /\ Room(1) <= 5 * MaxDepth
BY KindAssumption DEF Room

\* The work of a stack by its length and its last activation.
LEMMA StackWorkOf ==
  ASSUME NEW s \in Seq(Activation)
  PROVE  /\ s = <<>> => StackWork(s) = 0
         /\ s # <<>> =>
              /\ Len(s) \in Nat \ {0} /\ Room(Len(s)) \in Nat
              /\ Rest(s[Len(s)].at) \in 1 .. 4
              /\ StackWork(s) = 2 * (Len(s) - 1) + TopWork(s[Len(s)], Len(s))
              /\ TopWork(s[Len(s)], Len(s)) \in Rest(s[Len(s)].at) .. Rest(s[Len(s)].at) + Room(Len(s))
<1>1. s # <<>> => Len(s) \in Nat \ {0}
  BY EmptySeq, LenProperties
<1>2. s # <<>> => Room(Len(s)) \in Nat
  BY <1>1, RoomBounds
<1>3. Rest(s[Len(s)].at) \in 1 .. 4
  BY DEF Rest
<1> QED BY <1>1, <1>2, <1>3 DEF StackWork, TopWork

LEMMA StackWorkAt ==
  ASSUME NEW s \in Seq(Activation), NEW m \in Nat \ {0}, Len(s) = m
  PROVE  /\ StackWork(s) = 2 * (m - 1) + TopWork(s[m], m)
         /\ TopWork(s[m], m) \in Rest(s[m].at) .. Rest(s[m].at) + Room(m)
<1>1. s # <<>>
  BY EmptySeq
<1> QED BY <1>1, StackWorkOf

LEMMA ThreadWorkType ==
  ASSUME Inv, NEW t \in Thread
  PROVE  ThreadWork(t) \in Nat /\ StackWork(stack[t]) \in Nat
<1>1. stack[t] \in Seq(Activation) /\ todo[t] \in Nat
  BY DEF Inv, TypeOK
<1>2. StackWork(stack[t]) \in Nat
  <2>1. CASE stack[t] = <<>>
    BY <2>1 DEF StackWork
  <2>2. CASE stack[t] # <<>>
    <3> DEFINE l == Len(stack[t])
               w == TopWork(stack[t][l], l)
    <3>1. l \in Nat \ {0} /\ w \in Nat /\ StackWork(stack[t]) = 2 * (l - 1) + w
      BY <1>1, <2>2, StackWorkOf
    <3> HIDE DEF l, w
    <3> QED BY <3>1
  <2> QED BY <2>1, <2>2
<1>3. todo[t] * (5 * MaxDepth + 5) \in Nat
  BY <1>1, KindAssumption
<1> QED BY <1>2, <1>3 DEF ThreadWork

LEMMA ThreadWorkTypeNext ==
  (Inv => \A t \in Thread : ThreadWork(t) \in Nat /\ StackWork(stack[t]) \in Nat)'
<1>1. Inv => \A t \in Thread : ThreadWork(t) \in Nat /\ StackWork(stack[t]) \in Nat
  BY ThreadWorkType
<1> QED BY <1>1, PTL

\* A step that changes only the stack of t, and lowers its work.
LEMMA StackLowers ==
  ASSUME Inv, Inv', NEW t \in Thread, OthersKeep(t), UNCHANGED todo,
         StackWork(stack'[t]) < StackWork(stack[t])
  PROVE  /\ ThreadWork(t)' < ThreadWork(t)
         /\ \A u \in Thread : u # t => ThreadWork(u)' = ThreadWork(u)
<1>1. StackWork(stack[t]) \in Nat /\ StackWork(stack'[t]) \in Nat
  <2>1. (StackWork(stack[t]) \in Nat)'
    BY ThreadWorkTypeNext
  <2> QED BY <2>1, ThreadWorkType
<1>2. todo[t] * (5 * MaxDepth + 5) \in Nat
  BY KindAssumption DEF Inv, TypeOK
<1> QED BY <1>1, <1>2 DEF ThreadWork, OthersKeep

\* The work of a running activation depends on where it is.
LEMMA MovesLower ==
  ASSUME Inv, NEW t \in Thread, NEW at, Moves(t, at), Rest(at) < Rest(Top(t).at),
         Top(t).at # "unlock"
  PROVE  StackWork(stack'[t]) < StackWork(stack[t])
<1> DEFINE l == Len(stack[t])
           a == stack[t][l]
           b == stack'[t][l]
<1>1. /\ stack[t] \in Seq(Activation) /\ stack'[t] \in Seq(Activation)
      /\ stack[t] # <<>> /\ Len(stack'[t]) = l /\ l \in Nat \ {0}
      /\ b.at = at /\ (b.mayCall => a.mayCall) /\ a = Top(t)
  BY StackWorkOf DEF Inv, TypeOK, Moves, OthersKeep, Top
<1>2. stack'[t] # <<>>
  BY <1>1, EmptySeq
<1>3. StackWork(stack[t]) = 2 * (l - 1) + TopWork(a, l)
  BY <1>1, StackWorkOf
<1>4. StackWork(stack'[t]) = 2 * (l - 1) + TopWork(b, l)
  BY <1>1, <1>2, StackWorkOf
<1>5. Rest(a.at) \in 1 .. 4 /\ Rest(b.at) \in 1 .. 4 /\ Room(l) \in Nat
  BY <1>1, RoomBounds DEF Rest
<1>6. TopWork(b, l) < TopWork(a, l) /\ TopWork(b, l) \in Int /\ TopWork(a, l) \in Int
  <2> HIDE DEF a, b, l
  <2> QED BY <1>1, <1>5 DEF TopWork
<1> HIDE DEF a, b, l
<1> QED BY <1>1, <1>3, <1>4, <1>6

\* Dispatching from outside uses up one of the thread's dispatches.
LEMMA DispatchLowers ==
  ASSUME Inv, Inv', NEW t \in Thread, NEW c \in Ctx, NEW valid \in BOOLEAN,
         Dispatch(t, c, valid)
  PROVE  /\ ThreadWork(t)' < ThreadWork(t)
         /\ \A u \in Thread : u # t => ThreadWork(u)' = ThreadWork(u)
<1> DEFINE K == 5 * MaxDepth + 5
<1>1. Grows(t, c)
  BY DispatchGrows DEF Inv
<1>2. StackWork(stack[t]) = 0 /\ Len(stack[t]) = 0
  BY EmptySeq DEF Dispatch, StackWork
<1>3. stack'[t] \in Seq(Activation) /\ Len(stack'[t]) = 1 /\ stack'[t][1].at = "lock"
  BY <1>1, <1>2 DEF Grows, OthersKeep
<1>4. StackWork(stack'[t]) \in 0 .. 4 + 5 * MaxDepth
  <2> DEFINE w == TopWork(stack'[t][1], 1)
  <2>1. StackWork(stack'[t]) = 2 * (1 - 1) + w /\ w \in 4 .. 4 + Room(1)
    <3> DEFINE s == stack'[t]
               m == 1
    <3>1. s \in Seq(Activation) /\ m \in Nat \ {0} /\ Len(s) = m
      BY <1>3
    <3>2. /\ StackWork(s) = 2 * (m - 1) + TopWork(s[m], m)
          /\ TopWork(s[m], m) \in Rest(s[m].at) .. Rest(s[m].at) + Room(m)
      <4> HIDE DEF s, m
      <4> QED BY <3>1, StackWorkAt
    <3>3. Rest(s[1].at) = 4
      BY <1>3 DEF Rest
    <3> QED BY <3>2, <3>3
  <2>2. Room(1) \in Nat /\ Room(1) <= 5 * MaxDepth
    BY RoomBounds
  <2> HIDE DEF w
  <2> QED BY <2>1, <2>2, KindAssumption
<1>5. /\ todo[t] \in Nat /\ todo'[t] = todo[t] - 1 /\ todo[t] > 0
      /\ \A u \in Thread : u # t => todo'[u] = todo[u]
  BY DEF Dispatch, Inv, TypeOK
<1>6. K \in Nat /\ todo[t] * K \in Nat /\ (todo[t] - 1) * K = todo[t] * K - K
  BY <1>5, KindAssumption
<1>7. ThreadWork(t)' < ThreadWork(t)
  <2>1. ThreadWork(t) = todo[t] * K + 0
    BY <1>2 DEF ThreadWork
  <2>2. ThreadWork(t)' = (todo[t] - 1) * K + StackWork(stack'[t])
    BY <1>5 DEF ThreadWork
  <2>3. K = 5 * MaxDepth + 5
    OBVIOUS
  <2> HIDE DEF K
  <2> QED BY <1>4, <1>6, <2>1, <2>2, <2>3, KindAssumption
<1> QED BY <1>1, <1>5, <1>7 DEF ThreadWork, Grows, OthersKeep

\* A nested dispatch uses up the room of the activation that issues it.
LEMMA NestedLowers ==
  ASSUME Inv, NEW t \in Thread, NEW c \in Ctx, NEW valid \in BOOLEAN,
         Nested(t, c, valid)
  PROVE  StackWork(stack'[t]) < StackWork(stack[t])
<1> DEFINE l == Len(stack[t])
           w == TopWork(stack'[t][l + 1], l + 1)
<1>1. Grows(t, c)
  BY NestedGrows DEF Inv
<1>2. /\ stack[t] \in Seq(Activation) /\ stack[t] # <<>> /\ l \in Nat \ {0}
      /\ l < MaxDepth /\ stack[t][l].at = "body" /\ stack[t][l].mayCall
  BY StackWorkOf DEF Inv, TypeOK, Nested, Running, Top
<1>3. /\ stack'[t] \in Seq(Activation) /\ Len(stack'[t]) = l + 1
      /\ stack'[t][l + 1].at = "lock"
  BY <1>1, <1>2 DEF Grows, OthersKeep
<1>4. StackWork(stack[t]) = 2 * (l - 1) + (2 + Room(l))
  BY <1>2, StackWorkOf DEF TopWork, Rest
<1>5. StackWork(stack'[t]) = 2 * (l + 1 - 1) + w /\ w \in 4 .. 4 + Room(l + 1)
  <2>1. l + 1 \in Nat \ {0}
    BY <1>2
  <2>2. Rest(stack'[t][l + 1].at) = 4
    BY <1>3 DEF Rest
  <2> DEFINE s == stack'[t]
             m == l + 1
  <2>3. s \in Seq(Activation) /\ m \in Nat \ {0} /\ Len(s) = m
    BY <1>3, <2>1
  <2>4. /\ StackWork(s) = 2 * (m - 1) + TopWork(s[m], m)
        /\ TopWork(s[m], m) \in Rest(s[m].at) .. Rest(s[m].at) + Room(m)
    <3> HIDE DEF s, m
    <3> QED BY <2>3, StackWorkAt
  <2> QED BY <2>2, <2>4
<1>6. Room(l) = Room(l + 1) + 5 /\ Room(l + 1) \in Nat
  <2>1. l \in Nat /\ l + 1 \in Nat
    BY <1>2
  <2> HIDE DEF l
  <2> QED BY <1>2, <2>1, RoomBounds
<1> HIDE DEF w, l
<1> QED BY <1>2, <1>4, <1>5, <1>6

\* A dispatch that leaves goes back to one that has only to store and leave.
LEMMA LeaveLowers ==
  ASSUME Inv, Suspended, NEW t \in Thread, Leave(t)
  PROVE  StackWork(stack'[t]) < StackWork(stack[t])
<1> DEFINE l == Len(stack[t])
<1>1. Shrinks(t)
  BY LeaveShrinks DEF Inv
<1>2. /\ stack[t] \in Seq(Activation) /\ stack[t] # <<>> /\ l \in Nat \ {0}
      /\ stack[t][l].at = "unlock" /\ DOMAIN stack[t] = 1 .. l
  BY StackWorkOf, LenProperties DEF Inv, TypeOK, Leave, Running, Top
<1>3. StackWork(stack[t]) = 2 * (l - 1) + 1
  <2>1. TopWork(stack[t][l], l) = 1
    BY <1>2 DEF TopWork, Rest
  <2>2. StackWork(stack[t]) = 2 * (l - 1) + TopWork(stack[t][l], l)
    BY <1>2, StackWorkOf
  <2> QED BY <2>1, <2>2
<1>4. stack'[t] \in Seq(Activation) /\ Len(stack'[t]) = l - 1
  BY <1>1 DEF Shrinks, OthersKeep
<1>5. CASE l = 1
  <2>1. stack'[t] = <<>>
    BY <1>4, <1>5, EmptySeq
  <2>2. StackWork(stack'[t]) = 0
    BY <2>1 DEF StackWork
  <2> QED BY <1>3, <1>5, <2>2
<1>6. CASE l # 1
  <2>1. l - 1 \in DOMAIN stack[t] /\ l - 1 \in DOMAIN stack'[t] /\ l - 1 \in Nat \ {0}
    <3>1. DOMAIN stack'[t] = (1 .. l) \ {l}
      BY <1>1, <1>2 DEF Shrinks
    <3> HIDE DEF l
    <3> QED BY <1>2, <1>6, <3>1
  <2>2. stack[t][l - 1].at = "body" /\ ~stack[t][l - 1].mayCall
    BY <1>2, <2>1 DEF Suspended
  <2>3. stack'[t][l - 1].at = "body" /\ ~stack'[t][l - 1].mayCall
    BY <1>1, <2>1, <2>2 DEF Shrinks, Keeps
  <2>4. TopWork(stack'[t][l - 1], l - 1) = 2
    BY <2>3 DEF TopWork, Rest
  <2>5. StackWork(stack'[t]) = 2 * (l - 1 - 1) + TopWork(stack'[t][l - 1], l - 1)
    <3> DEFINE s == stack'[t]
               m == l - 1
    <3>1. s \in Seq(Activation) /\ m \in Nat \ {0} /\ Len(s) = m
      BY <1>4, <2>1
    <3>2. StackWork(s) = 2 * (m - 1) + TopWork(s[m], m)
      <4> HIDE DEF s, m
      <4> QED BY <3>1, StackWorkAt
    <3> QED BY <3>2
  <2> HIDE DEF l
  <2> QED BY <1>2, <1>3, <2>4, <2>5
<1> QED BY <1>5, <1>6

LEMMA ThreadLowers ==
  ASSUME Inv, Suspended, Next, ~UNCHANGED vars
  PROVE  \E t \in Thread : /\ ThreadWork(t)' < ThreadWork(t)
                           /\ \A u \in Thread : u # t => ThreadWork(u)' = ThreadWork(u)
<1>0. TypeOK /\ Inv'
  BY InvNext DEF Inv
<1>1. ASSUME NEW t \in Thread, NEW c \in Ctx, NEW valid \in BOOLEAN, Nested(t, c, valid)
      PROVE  OthersKeep(t) /\ UNCHANGED todo /\ StackWork(stack'[t]) < StackWork(stack[t])
  BY <1>0, <1>1, NestedGrows, NestedLowers DEF Grows, Nested
<1>2. ASSUME NEW t \in Thread, Enter(t)
      PROVE  OthersKeep(t) /\ UNCHANGED todo /\ StackWork(stack'[t]) < StackWork(stack[t])
  <2>1. PICK at \in {"load", "unlock"} : Moves(t, at)
    BY <1>0, <1>2, EnterMoves
  <2>2. Rest(at) < Rest(Top(t).at) /\ Top(t).at # "unlock"
    BY <1>2 DEF Enter, Running, Rest
  <2> QED BY <1>2, <2>1, <2>2, MovesLower DEF Enter, Moves
<1>3. ASSUME NEW t \in Thread, Load(t)
      PROVE  OthersKeep(t) /\ UNCHANGED todo /\ StackWork(stack'[t]) < StackWork(stack[t])
  <2>1. Moves(t, "body")
    BY <1>0, <1>3, LoadMoves
  <2>2. Rest("body") < Rest(Top(t).at) /\ Top(t).at # "unlock"
    BY <1>3 DEF Load, Running, Rest
  <2> QED BY <1>3, <2>1, <2>2, MovesLower DEF Load, Moves
<1>4. ASSUME NEW t \in Thread, Store(t)
      PROVE  OthersKeep(t) /\ UNCHANGED todo /\ StackWork(stack'[t]) < StackWork(stack[t])
  <2>1. Moves(t, "unlock")
    BY <1>0, <1>4, StoreMoves
  <2>2. Rest("unlock") < Rest(Top(t).at) /\ Top(t).at # "unlock"
    BY <1>4 DEF Store, Running, Rest
  <2> QED BY <1>4, <2>1, <2>2, MovesLower DEF Store, Moves
<1>5. ASSUME NEW t \in Thread, Leave(t)
      PROVE  OthersKeep(t) /\ UNCHANGED todo /\ StackWork(stack'[t]) < StackWork(stack[t])
  BY <1>0, <1>5, LeaveShrinks, LeaveLowers DEF Shrinks, Leave
<1>6. PICK t \in Thread : Step(t)
  BY DEF Next, Terminating
<1>7. /\ ThreadWork(t)' < ThreadWork(t)
      /\ \A u \in Thread : u # t => ThreadWork(u)' = ThreadWork(u)
  <2>1. CASE \E c \in Ctx, valid \in BOOLEAN : Dispatch(t, c, valid)
    BY <1>0, <2>1, DispatchLowers
  <2>2. CASE \E c \in Ctx, valid \in BOOLEAN : Nested(t, c, valid)
    BY <1>0, <1>1, <2>2, StackLowers
  <2>3. CASE Enter(t) \/ Load(t) \/ Store(t) \/ Leave(t)
    BY <1>0, <1>2, <1>3, <1>4, <1>5, <2>3, StackLowers
  <2> QED BY <1>6, <2>1, <2>2, <2>3 DEF Step
<1> QED BY <1>7

\* No program goes on for ever, for any threads, locks, handlers and depth of
\* nesting: every step is one of finitely many that its thread has left.
THEOREM DispatchesRunOut ==
  Spec => /\ [](\A t \in Thread : ThreadWork(t) \in Nat)
          /\ [][\E t \in Thread :
                  /\ ThreadWork(t)' < ThreadWork(t)
                  /\ \A u \in Thread : u # t => ThreadWork(u)' = ThreadWork(u)]_vars
<1> DEFINE Lowers == \E t \in Thread :
                       /\ ThreadWork(t)' < ThreadWork(t)
                       /\ \A u \in Thread : u # t => ThreadWork(u)' = ThreadWork(u)
<1>1. Inv => \A t \in Thread : ThreadWork(t) \in Nat
  BY ThreadWorkType
<1>2. Inv /\ Suspended /\ [Next]_vars => [Lowers]_vars
  BY ThreadLowers
<1>3. Inv /\ Suspended /\ [Next]_vars => Suspended'
  BY SuspendedNext
<1> QED BY <1>1, <1>2, <1>3, SuspendedInit, InvInit, InvNext, PTL DEF Spec

------------------------------------------------------------------------------
\* What may lie on what in a stack.

\* A relation that holds between a context and all its handlers lead to.
CallClosed(R) ==
  \A p \in Calls : p \in R /\ \A a \in Ctx : <<a, p[1]>> \in R => <<a, p[2]>> \in R

\* It holds between the contexts of an activation and of those nested in it.
Stacked(R) ==
  \A t \in Thread : \A m, n \in DOMAIN stack[t] :
    m < n => <<stack[t][m].ctx, stack[t][n].ctx>> \in R

\* Only one thread's stack needs a look.
LEMMA StackedOne ==
  ASSUME NEW R, Stacked(R), NEW t \in Thread, OthersKeep(t),
         \A m, n \in DOMAIN stack'[t] :
           m < n => <<stack'[t][m].ctx, stack'[t][n].ctx>> \in R
  PROVE  Stacked(R)'
BY DEF Stacked, OthersKeep

LEMMA StackedGrows ==
  ASSUME Inv, NEW R, CallClosed(R), Stacked(R), NEW t \in Thread, NEW c \in Ctx,
         Grows(t, c), stack[t] = <<>> \/ <<Top(t).ctx, c>> \in Calls
  PROVE  Stacked(R)'
<1> DEFINE k == Len(stack[t])
<1>1. /\ k \in Nat /\ DOMAIN stack[t] = 1 .. k /\ DOMAIN stack'[t] = 1 .. k + 1
      /\ \A n \in 1 .. k : stack'[t][n].ctx = stack[t][n].ctx
      /\ stack'[t][k + 1].ctx = c /\ OthersKeep(t)
  BY DEF Grows, Keeps
<1>2. SUFFICES ASSUME NEW m \in 1 .. k + 1, NEW n \in 1 .. k + 1, m < n
               PROVE  <<stack'[t][m].ctx, stack'[t][n].ctx>> \in R
  BY <1>1, StackedOne
<1>3. CASE n \in 1 .. k
  <2>1. m \in 1 .. k
    BY <1>1, <1>2, <1>3
  <2>2. <<stack[t][m].ctx, stack[t][n].ctx>> \in R
    BY <1>1, <1>2, <1>3, <2>1 DEF Stacked
  <2> QED BY <1>1, <1>3, <2>1, <2>2
<1>4. CASE n = k + 1
  <2>1. m \in 1 .. k /\ stack[t] # <<>>
    BY <1>1, <1>2, <1>4, EmptySeq
  <2>2. <<Top(t).ctx, c>> \in Calls
    BY <2>1
  <2>3. stack[t][m].ctx \in Ctx
    <3>1. stack[t] \in Seq(Activation)
      BY DEF Inv, TypeOK
    <3>2. stack[t][m] \in Activation
      BY <1>1, <2>1, <3>1, ElementOfSeq
    <3> QED BY <3>2 DEF Activation
  <2>4. CASE m = k
    BY <1>1, <1>4, <2>1, <2>2, <2>4 DEF CallClosed, Top
  <2>5. CASE m < k
    <3>1. <<stack[t][m].ctx, Top(t).ctx>> \in R
      BY <1>1, <2>1, <2>5 DEF Stacked, Top
    <3> QED BY <1>1, <1>4, <2>1, <2>2, <2>3, <3>1 DEF CallClosed
  <2> QED BY <1>1, <2>1, <2>4, <2>5
<1> QED BY <1>1, <1>2, <1>3, <1>4

LEMMA StackedMoves ==
  ASSUME Inv, NEW R, Stacked(R), NEW t \in Thread, NEW at, Moves(t, at)
  PROVE  Stacked(R)'
<1>1. /\ OthersKeep(t) /\ DOMAIN stack'[t] = DOMAIN stack[t]
      /\ \A n \in DOMAIN stack[t] : stack'[t][n].ctx = stack[t][n].ctx
  BY DEF Moves, Keeps, Top
<1> QED BY <1>1, StackedOne DEF Stacked

LEMMA StackedShrinks ==
  ASSUME Inv, NEW R, Stacked(R), NEW t \in Thread, Shrinks(t)
  PROVE  Stacked(R)'
<1>1. /\ OthersKeep(t) /\ DOMAIN stack'[t] \subseteq DOMAIN stack[t]
      /\ \A n \in DOMAIN stack'[t] : stack'[t][n].ctx = stack[t][n].ctx
  BY DEF Shrinks, Keeps
<1> QED BY <1>1, StackedOne DEF Stacked

LEMMA StackedNext ==
  ASSUME Inv, [Next]_vars, NEW R, CallClosed(R), Stacked(R)
  PROVE  Stacked(R)'
<1>0. TypeOK
  BY DEF Inv
<1>1. ASSUME NEW t \in Thread, NEW c \in Ctx, NEW valid \in BOOLEAN,
             Dispatch(t, c, valid) \/ Nested(t, c, valid)
      PROVE  Stacked(R)'
  <2>1. Grows(t, c)
    BY <1>0, <1>1, DispatchGrows, NestedGrows
  <2>2. stack[t] = <<>> \/ <<Top(t).ctx, c>> \in Calls
    BY <1>1 DEF Dispatch, Nested
  <2> QED BY <2>1, <2>2, StackedGrows
<1>2. ASSUME NEW t \in Thread, Enter(t) \/ Load(t) \/ Store(t)
      PROVE  Stacked(R)'
  <2>1. \E at : Moves(t, at)
    BY <1>0, <1>2, EnterMoves, LoadMoves, StoreMoves
  <2> QED BY <2>1, StackedMoves
<1>3. ASSUME NEW t \in Thread, Leave(t)
      PROVE  Stacked(R)'
  BY <1>0, <1>3, LeaveShrinks, StackedShrinks
<1>4. CASE UNCHANGED vars
  BY <1>4 DEF vars, Stacked
<1> QED BY <1>1, <1>2, <1>3, <1>4 DEF Next, Step, Terminating

LEMMA StackedInit ==
  ASSUME NEW R, Init PROVE Stacked(R)
<1>1. DOMAIN <<>> = {}
  BY EmptySeq
<1> QED BY <1>1 DEF Init, Stacked

------------------------------------------------------------------------------
\* A lock order.

\* Handlers dispatch only down a well-founded order of the contexts, or again
\* to a context of their own whose lock lets them.
LockOrder(R) ==
  /\ IsWellFoundedOn(R, Ctx)
  /\ \A a, b, c \in Ctx : <<a, b>> \in R /\ <<b, c>> \in R => <<a, c>> \in R
  /\ \A p \in Calls : <<p[2], p[1]>> \in R \/ (p[1] = p[2] /\ Kind[p[1]] # "normal")

\* What lies on what under such an order.
Downward(R) ==
  {p \in Ctx \X Ctx : <<p[2], p[1]>> \in R \/ (p[1] = p[2] /\ Kind[p[1]] # "normal")}

LEMMA DownwardClosed ==
  ASSUME NEW R, LockOrder(R) PROVE CallClosed(Downward(R))
<1> SUFFICES ASSUME NEW p \in Calls
             PROVE  /\ p \in Downward(R)
                    /\ \A a \in Ctx :
                         <<a, p[1]>> \in Downward(R) => <<a, p[2]>> \in Downward(R)
  BY DEF CallClosed
<1>1. p \in Ctx \X Ctx
  BY KindAssumption
<1> QED BY <1>1 DEF LockOrder, Downward

\* With a lock order no threads wait in a circle: the one of them that waits
\* for the lowest context would wait for a thread that waits lower still.
THEOREM LockOrderPreventsCircles ==
  ASSUME NEW CONSTANT R, LockOrder(R)
  PROVE  Spec => []NoCircle
<1>1. Inv /\ Stacked(Downward(R)) => NoCircle
  <2> SUFFICES ASSUME Inv, Stacked(Downward(R)), NEW S \in SUBSET Thread, Circular(S)
               PROVE  FALSE
    BY DEF NoCircle
  <2> DEFINE T == {Top(t).ctx : t \in S}
  <2>1. T \subseteq Ctx /\ T # {}
    BY TopOfStack DEF Circular, WaitsFor, Waiting, Running, Inv, Activation
  <2>2. PICK x \in T : \A y \in T : <<y, x>> \notin R
    BY <2>1, WFMin DEF LockOrder
  <2>3. PICK t \in S, u \in S : Top(t).ctx = x /\ WaitsFor(t, u)
    BY <2>2 DEF Circular
  <2>4. x \in Ctx /\ Kind[x] # "none" /\ owner[x] = u /\ Waiting(u) /\ Top(u).ctx \in T
    BY <2>1, <2>3, WaitsForOwner DEF WaitsFor, Circular
  <2>5. PICK m \in DOMAIN stack[u] : stack[u][m].ctx = x /\ stack[u][m].at # "lock"
    BY <2>4, OwnerInside DEF Inside
  <2>6. /\ stack[u] # <<>> /\ Top(u).at = "lock"
        /\ Len(stack[u]) \in DOMAIN stack[u] /\ DOMAIN stack[u] = 1 .. Len(stack[u])
    BY <2>4, TopOfStack DEF Waiting, Running, Inv
  <2>7. m < Len(stack[u])
    BY <2>5, <2>6 DEF Top
  <2>8. <<x, Top(u).ctx>> \in Downward(R)
    BY <2>5, <2>6, <2>7 DEF Stacked, Top
  <2>9. x = Top(u).ctx /\ Kind[x] = "recursive"
    BY <2>2, <2>4, <2>8, KindAssumption DEF Downward, LockKind
  <2> QED BY <2>4, <2>9 DEF Waiting, CanLock
<1>2. CallClosed(Downward(R))
  BY DownwardClosed
<1>3. Init => Stacked(Downward(R))
  BY StackedInit
<1>4. Inv /\ Stacked(Downward(R)) /\ [Next]_vars => Stacked(Downward(R))'
  BY <1>2, StackedNext
<1> QED BY <1>1, <1>3, <1>4, InvInit, InvNext, PTL DEF Spec

\* So a program that keeps one ends only when every dispatch is carried out.
THEOREM LockOrderPreventsDeadlock ==
  ASSUME NEW CONSTANT R, LockOrder(R)
  PROVE  Spec => [](Ended => \A t \in Thread : Finished(t))
<1>1. NoCircle /\ StopsOnlyInACircle => (Ended => \A t \in Thread : Finished(t))
  BY DEF NoCircle, StopsOnlyInACircle
<1>2. Spec => []NoCircle
  BY LockOrderPreventsCircles
<1> QED BY <1>1, <1>2, StopsInCircles, PTL

------------------------------------------------------------------------------
\* Updates under the lock.

\* What lies on what when a handler on c leads only to contexts of S.
LeadsTo(c, S) == {p \in Ctx \X Ctx : p[1] = c => p[2] \in S}

\* What the handlers of c that have not yet written read is still there.
Current(c) ==
  \A t \in Thread : \A n \in DOMAIN stack[t] :
    stack[t][n].ctx = c /\ stack[t][n].at = "body" => stack[t][n].seen = data[c]

LEMMA LeadsToClosed ==
  ASSUME NEW c \in Ctx, NEW S, HoldsReached(S, c) PROVE CallClosed(LeadsTo(c, S))
BY KindAssumption DEF CallClosed, LeadsTo, HoldsReached

\* Under its lock and without a way back to c, one handler on c is past its
\* read at a time.
LEMMA BodyAlone ==
  ASSUME Inv, NEW c \in Ctx, Kind[c] # "none",
         NEW S, c \notin S, Stacked(LeadsTo(c, S)),
         NEW t \in Thread, stack[t] # <<>>, Top(t).ctx = c, Top(t).at # "lock",
         NEW u \in Thread, NEW n \in DOMAIN stack[u],
         stack[u][n].ctx = c, stack[u][n].at # "lock"
  PROVE  u = t /\ n = Len(stack[t])
<1>1. Len(stack[t]) \in DOMAIN stack[t] /\ DOMAIN stack[t] = 1 .. Len(stack[t])
  BY TopOfStack DEF Inv
<1>2. n \in Inside(u, c) /\ Len(stack[t]) \in Inside(t, c)
  BY <1>1 DEF Inside, Top
<1>3. u = t
  BY <1>2, InsideOwns
<1>4. ~ (n < Len(stack[t]))
  <2> SUFFICES ASSUME n < Len(stack[t]) PROVE FALSE
    OBVIOUS
  <2>1. <<stack[t][n].ctx, stack[t][Len(stack[t])].ctx>> \in LeadsTo(c, S)
    BY <1>1, <1>3 DEF Stacked
  <2>2. <<c, c>> \in LeadsTo(c, S)
    BY <1>3, <2>1 DEF Top
  <2> QED BY <2>2 DEF LeadsTo
<1> QED BY <1>1, <1>3, <1>4

LEMMA CurrentOne ==
  ASSUME NEW c \in Ctx, Current(c), data'[c] = data[c], NEW t \in Thread, OthersKeep(t),
         \A n \in DOMAIN stack'[t] :
           stack'[t][n].ctx = c /\ stack'[t][n].at = "body" => stack'[t][n].seen = data[c]
  PROVE  Current(c)'
<1> SUFFICES ASSUME NEW u \in Thread, NEW n \in DOMAIN stack'[u],
                    stack'[u][n].ctx = c, stack'[u][n].at = "body"
             PROVE  stack'[u][n].seen = data[c]
  BY DEF Current
<1> QED BY DEF Current, OthersKeep

LEMMA CurrentStep ==
  ASSUME Inv, [Next]_vars, NEW c \in Ctx, Kind[c] # "none",
         NEW S, c \notin S, Stacked(LeadsTo(c, S)),
         Current(c)
  PROVE  Current(c)'
<1>0. TypeOK
  BY DEF Inv
<1>1. ASSUME NEW t \in Thread, NEW d \in Ctx, NEW valid \in BOOLEAN,
             Dispatch(t, d, valid) \/ Nested(t, d, valid)
      PROVE  Current(c)'
  <2>1. Grows(t, d) /\ UNCHANGED data
    BY <1>0, <1>1, DispatchGrows, NestedGrows DEF Dispatch, Nested
  <2>2. OthersKeep(t)
    BY <2>1 DEF Grows
  <2>3. ASSUME NEW n \in DOMAIN stack'[t], stack'[t][n].ctx = c, stack'[t][n].at = "body"
        PROVE  stack'[t][n].seen = data[c]
    <3>1. n \in DOMAIN stack[t] /\ Keeps(t, n)
      BY <2>1, <2>3 DEF Grows
    <3> QED BY <2>3, <3>1 DEF Keeps, Current
  <2> QED BY <2>1, <2>2, <2>3, CurrentOne
<1>2. ASSUME NEW t \in Thread, Enter(t)
      PROVE  Current(c)'
  <2>1. PICK at : Moves(t, at) /\ at # "body"
    BY <1>0, <1>2, EnterMoves
  <2>2. UNCHANGED data
    BY <1>2 DEF Enter
  <2>3. OthersKeep(t)
    BY <2>1 DEF Moves
  <2>4. ASSUME NEW n \in DOMAIN stack'[t], stack'[t][n].ctx = c, stack'[t][n].at = "body"
        PROVE  stack'[t][n].seen = data[c]
    <3>1. n \in DOMAIN stack[t] /\ Keeps(t, n)
      BY <2>1, <2>4 DEF Moves
    <3> QED BY <2>4, <3>1 DEF Keeps, Current
  <2> QED BY <2>2, <2>3, <2>4, CurrentOne
<1>3. ASSUME NEW t \in Thread, Load(t)
      PROVE  Current(c)'
  <2>1. Moves(t, "body") /\ stack'[t][Len(stack[t])].seen = data[Top(t).ctx]
    BY <1>0, <1>3, LoadMoves
  <2>2. UNCHANGED data
    BY <1>3 DEF Load
  <2> QED BY <2>1, <2>2 DEF Moves, OthersKeep, Keeps, Current
<1>4. ASSUME NEW t \in Thread, Store(t)
      PROVE  Current(c)'
  <2>1. Moves(t, "unlock") /\ stack[t] # <<>> /\ Top(t).at = "body"
    BY <1>0, <1>4, StoreMoves DEF Store, Running
  <2>2. Top(t) \in Activation /\ Len(stack[t]) \in DOMAIN stack[t]
    BY <1>0, <2>1, TopOfStack
  <2>3. CASE Top(t).ctx # c
    <3>1. data'[c] = data[c]
      BY <1>0, <1>4, <2>2, <2>3 DEF Store, TypeOK, Activation
    <3>2. ASSUME NEW n \in DOMAIN stack'[t], stack'[t][n].ctx = c, stack'[t][n].at = "body"
          PROVE  stack'[t][n].seen = data[c]
      <4>1. n \in DOMAIN stack[t] /\ n # Len(stack[t])
        BY <2>1, <2>3, <3>2 DEF Moves
      <4>2. Keeps(t, n)
        BY <2>1, <4>1 DEF Moves
      <4> QED BY <3>2, <4>1, <4>2 DEF Keeps, Current
    <3> QED BY <2>1, <3>1, <3>2, CurrentOne DEF Moves
  <2>4. CASE Top(t).ctx = c
    <3>1. \A u \in Thread : \A n \in DOMAIN stack[u] :
            stack[u][n].ctx = c /\ stack[u][n].at = "body" => u = t /\ n = Len(stack[t])
      BY <2>1, <2>4, BodyAlone
    <3> QED BY <2>1, <3>1 DEF Moves, OthersKeep, Keeps, Current
  <2> QED BY <2>3, <2>4
<1>5. ASSUME NEW t \in Thread, Leave(t)
      PROVE  Current(c)'
  <2>1. Shrinks(t) /\ UNCHANGED data
    BY <1>0, <1>5, LeaveShrinks DEF Leave
  <2> QED BY <2>1 DEF Shrinks, OthersKeep, Keeps, Current
<1>6. CASE UNCHANGED vars
  BY <1>6 DEF vars, Current
<1> QED BY <1>1, <1>2, <1>3, <1>4, <1>5, <1>6 DEF Next, Step, Terminating

\* A handler that updates c, called by no other one that does.
Outermost(u, n, c) ==
  /\ Updating(stack[u][n], c)
  /\ \A m \in DOMAIN stack[u] : m < n => ~Updating(stack[u][m], c)

\* Whether or not c is re-entered: while nobody updates c it counts the handlers
\* run outside any other, and the outermost one that does has read that count.
Counted(c) ==
  /\ (\A u \in Thread : \A n \in DOMAIN stack[u] : ~Updating(stack[u][n], c))
       => data[c] = handled[c]
  /\ \A u \in Thread : \A n \in DOMAIN stack[u] :
       Outermost(u, n, c) => stack[u][n].seen = handled[c]

\* Steps after which the same handlers as before are updating c.
LEMMA CountedKept ==
  ASSUME NEW c \in Ctx, Counted(c), data'[c] = data[c], handled'[c] = handled[c],
         \A u \in Thread : \A n \in DOMAIN stack[u] :
           Updating(stack[u][n], c) =>
             n \in DOMAIN stack'[u] /\ Updating(stack'[u][n], c),
         \A u \in Thread : \A n \in DOMAIN stack'[u] :
           Updating(stack'[u][n], c) =>
             /\ n \in DOMAIN stack[u] /\ Updating(stack[u][n], c)
             /\ stack'[u][n].seen = stack[u][n].seen
  PROVE  Counted(c)'
<1>1. ASSUME \A u \in Thread : \A n \in DOMAIN stack'[u] : ~Updating(stack'[u][n], c)
      PROVE  data'[c] = handled'[c]
  BY <1>1 DEF Counted
<1>2. ASSUME NEW u \in Thread, NEW n \in DOMAIN stack'[u], Updating(stack'[u][n], c),
             \A m \in DOMAIN stack'[u] : m < n => ~Updating(stack'[u][m], c)
      PROVE  stack'[u][n].seen = handled'[c]
  <2>1. n \in DOMAIN stack[u] /\ Outermost(u, n, c)
    BY <1>2 DEF Outermost
  <2> QED BY <1>2, <2>1 DEF Counted
<1> QED BY <1>1, <1>2 DEF Counted, Outermost

\* The same of steps of one thread, from what happens to its own stack.
LEMMA CountedOne ==
  ASSUME NEW c \in Ctx, Counted(c), data'[c] = data[c], handled'[c] = handled[c],
         NEW t \in Thread, OthersKeep(t),
         \A n \in DOMAIN stack[t] :
           Updating(stack[t][n], c) => n \in DOMAIN stack'[t] /\ Keeps(t, n),
         \A n \in DOMAIN stack'[t] :
           Updating(stack'[t][n], c) => n \in DOMAIN stack[t] /\ Keeps(t, n)
  PROVE  Counted(c)'
<1>1. ASSUME NEW u \in Thread, NEW n \in DOMAIN stack[u], Updating(stack[u][n], c)
      PROVE  n \in DOMAIN stack'[u] /\ Updating(stack'[u][n], c)
  BY <1>1 DEF OthersKeep, Keeps, Updating
<1>2. ASSUME NEW u \in Thread, NEW n \in DOMAIN stack'[u], Updating(stack'[u][n], c)
      PROVE  /\ n \in DOMAIN stack[u] /\ Updating(stack[u][n], c)
             /\ stack'[u][n].seen = stack[u][n].seen
  BY <1>2 DEF OthersKeep, Keeps, Updating
<1> QED BY <1>1, <1>2, CountedKept

\* Who is inside the lock region of c is the only thread that updates it.
LEMMA OneThreadUpdates ==
  ASSUME Inv, NEW c \in Ctx, Kind[c] # "none",
         NEW t \in Thread, stack[t] # <<>>, Top(t).ctx = c, Top(t).at # "lock",
         NEW u \in Thread, NEW n \in DOMAIN stack[u], Updating(stack[u][n], c)
  PROVE  u = t
<1>1. Len(stack[t]) \in DOMAIN stack[t]
  BY TopOfStack DEF Inv
<1>2. n \in Inside(u, c) /\ Len(stack[t]) \in Inside(t, c)
  BY <1>1 DEF Inside, Top, Updating
<1> QED BY <1>2, InsideOwns

\* The read: the first handler on c reads the count, one inside another
\* whatever is there.
LEMMA CountedLoad ==
  ASSUME Inv, NEW t \in Thread, Load(t),
         NEW c \in Ctx, Kind[c] # "none", Top(t).ctx = c, Counted(c)
  PROVE  Counted(c)'
<1> DEFINE top == Len(stack[t])
<1>1. stack[t] # <<>> /\ Top(t).at = "load" /\ UNCHANGED <<data, handled>>
  BY DEF Load, Running
<1>2. Moves(t, "body") /\ stack'[t][top].seen = data[c]
  BY LoadMoves DEF Inv
<1>3. top \in DOMAIN stack[t] /\ DOMAIN stack[t] = 1 .. top /\ top \in Nat
  BY <1>1, TopOfStack DEF Inv
<1>4. top \in DOMAIN stack'[t] /\ Updating(stack'[t][top], c)
  BY <1>2, <1>3 DEF Moves, Updating
<1>5. ASSUME NEW u \in Thread, NEW n \in DOMAIN stack'[u], Updating(stack'[u][n], c),
             \A m \in DOMAIN stack'[u] : m < n => ~Updating(stack'[u][m], c)
      PROVE  stack'[u][n].seen = handled[c]
  <2>1. u = t
    <3>1. ASSUME u # t PROVE FALSE
      <4>1. n \in DOMAIN stack[u] /\ Updating(stack[u][n], c)
        BY <1>2, <1>5, <3>1 DEF Moves, OthersKeep
      <4> QED BY <1>1, <3>1, <4>1, OneThreadUpdates
    <3> QED BY <3>1
  <2>2. n \in 1 .. top
    BY <1>2, <1>3, <2>1 DEF Moves
  <2>3. CASE n # top
    <3>1. n < top /\ n \in DOMAIN stack[t] /\ Keeps(t, n)
      BY <1>2, <1>3, <2>2, <2>3 DEF Moves
    <3>2. \A m \in DOMAIN stack[t] : m < n => Keeps(t, m) /\ m \in DOMAIN stack'[t]
      BY <1>2, <1>3, <3>1 DEF Moves
    <3>3. Outermost(t, n, c)
      BY <1>5, <2>1, <3>1, <3>2 DEF Outermost, Updating, Keeps
    <3> QED BY <2>1, <3>1, <3>3 DEF Counted, Keeps
  <2>4. CASE n = top
    <3>1. ASSUME NEW w \in Thread, NEW m \in DOMAIN stack[w] PROVE ~Updating(stack[w][m], c)
      <4>1. SUFFICES ASSUME Updating(stack[w][m], c) PROVE FALSE
        OBVIOUS
      <4>2. w = t
        BY <1>1, <4>1, OneThreadUpdates
      <4>3. m # top
        BY <1>1, <4>1, <4>2 DEF Updating, Top
      <4>4. m < top /\ m \in DOMAIN stack'[t] /\ Keeps(t, m)
        BY <1>2, <1>3, <4>2, <4>3 DEF Moves
      <4>5. Updating(stack'[t][m], c)
        BY <4>1, <4>2, <4>4 DEF Updating, Keeps
      <4> QED BY <1>5, <2>1, <2>4, <4>4, <4>5
    <3> QED BY <1>2, <2>1, <2>4, <3>1 DEF Counted
  <2> QED BY <2>3, <2>4
<1> QED BY <1>1, <1>4, <1>5 DEF Counted, Outermost

\* The write: the outermost handler puts back what it read and one more, and is
\* counted; one inside another is neither counted nor heeded.
LEMMA CountedStore ==
  ASSUME Inv, NEW t \in Thread, Store(t),
         NEW c \in Ctx, Kind[c] # "none", Top(t).ctx = c, Counted(c)
  PROVE  Counted(c)'
<1> DEFINE top == Len(stack[t])
<1>0. TypeOK
  BY DEF Inv
<1>1. stack[t] # <<>> /\ Top(t).at = "body"
  BY DEF Store, Running
<1>2. Moves(t, "unlock")
  BY <1>0, StoreMoves
<1>3. top \in DOMAIN stack[t] /\ DOMAIN stack[t] = 1 .. top /\ top \in Nat
      /\ Top(t) \in Activation
  BY <1>0, <1>1, TopOfStack
<1>4. Updating(stack[t][top], c) /\ ~Updating(stack'[t][top], c)
  BY <1>1, <1>2 DEF Moves, Updating, Top
<1>5. ASSUME NEW u \in Thread, NEW n \in DOMAIN stack'[u], Updating(stack'[u][n], c)
      PROVE  u = t /\ n \in 1 .. top - 1 /\ n \in DOMAIN stack[t] /\ Keeps(t, n)
             /\ Updating(stack[t][n], c)
  <2>1. u = t
    <3>1. ASSUME u # t PROVE FALSE
      <4>1. n \in DOMAIN stack[u] /\ Updating(stack[u][n], c)
        BY <1>2, <1>5, <3>1 DEF Moves, OthersKeep
      <4> QED BY <1>1, <3>1, <4>1, OneThreadUpdates
    <3> QED BY <3>1
  <2>2. n \in 1 .. top /\ n # top
    BY <1>2, <1>3, <1>4, <1>5, <2>1 DEF Moves
  <2>3. n \in 1 .. top - 1 /\ n \in DOMAIN stack[t] /\ Keeps(t, n)
    BY <1>2, <1>3, <2>2 DEF Moves
  <2> QED BY <1>5, <2>1, <2>3 DEF Keeps, Updating
<1>6. CASE Reentered(t)
  <2>1. handled' = handled
    BY <1>6 DEF Store
  <2>2. PICK k \in 1 .. top - 1 : Updating(stack[t][k], c)
    BY <1>6 DEF Reentered
  <2>3. k \in DOMAIN stack'[t] /\ Keeps(t, k)
    BY <1>2, <1>3, <2>2 DEF Moves
  <2>4. Updating(stack'[t][k], c)
    BY <2>2, <2>3 DEF Updating, Keeps
  <2>5. ASSUME NEW u \in Thread, NEW n \in DOMAIN stack'[u], Updating(stack'[u][n], c),
               \A m \in DOMAIN stack'[u] : m < n => ~Updating(stack'[u][m], c)
        PROVE  stack'[u][n].seen = handled[c]
    <3>1. u = t /\ n \in 1 .. top - 1 /\ n \in DOMAIN stack[t] /\ Keeps(t, n)
          /\ Updating(stack[t][n], c)
      BY <1>5, <2>5
    <3>2. \A m \in DOMAIN stack[t] : m < n => Keeps(t, m) /\ m \in DOMAIN stack'[t]
      BY <1>2, <1>3, <3>1 DEF Moves
    <3>3. Outermost(t, n, c)
      BY <2>5, <3>1, <3>2 DEF Outermost, Updating, Keeps
    <3> QED BY <3>1, <3>3 DEF Counted, Keeps
  <2> QED BY <2>1, <2>3, <2>4, <2>5 DEF Counted, Outermost
<1>7. CASE ~Reentered(t)
  <2>1. \A n \in 1 .. top - 1 : ~Updating(stack[t][n], c)
    BY <1>7 DEF Reentered
  <2>2. Outermost(t, top, c)
    BY <1>3, <1>4, <2>1 DEF Outermost
  <2>3. Top(t).seen = handled[c]
    BY <1>3, <2>2 DEF Counted, Top
  <2>4. /\ data' = [data EXCEPT ![c] = Top(t).seen + 1]
        /\ handled' = [handled EXCEPT ![c] = @ + 1]
    BY <1>7 DEF Store
  <2>5. data'[c] = handled'[c]
    BY <1>0, <2>3, <2>4 DEF TypeOK
  <2>6. \A u \in Thread : \A n \in DOMAIN stack'[u] : ~Updating(stack'[u][n], c)
    BY <1>5, <2>1
  <2> QED BY <2>5, <2>6 DEF Counted, Outermost
<1> QED BY <1>6, <1>7

LEMMA CountedStep ==
  ASSUME Inv, [Next]_vars, NEW c \in Ctx, Kind[c] # "none", Counted(c)
  PROVE  Counted(c)'
<1>0. TypeOK
  BY DEF Inv
<1>1. ASSUME NEW t \in Thread, NEW d \in Ctx, NEW valid \in BOOLEAN,
             Dispatch(t, d, valid) \/ Nested(t, d, valid)
      PROVE  Counted(c)'
  <2>1. Grows(t, d) /\ UNCHANGED <<data, handled>>
    BY <1>0, <1>1, DispatchGrows, NestedGrows DEF Dispatch, Nested
  <2>2. ASSUME NEW n \in DOMAIN stack'[t], Updating(stack'[t][n], c)
        PROVE  n \in DOMAIN stack[t]
    BY <2>1, <2>2 DEF Grows, Updating
  <2>3. \A n \in DOMAIN stack[t] : n \in DOMAIN stack'[t] /\ Keeps(t, n)
    BY <2>1 DEF Grows
  <2> QED BY <2>1, <2>2, <2>3, CountedOne DEF Grows
<1>2. ASSUME NEW t \in Thread, Enter(t)
      PROVE  Counted(c)'
  <2>1. PICK at : Moves(t, at) /\ at # "body"
    BY <1>0, <1>2, EnterMoves
  <2>2. UNCHANGED <<data, handled>> /\ Top(t).at = "lock"
    BY <1>2 DEF Enter, Running
  <2> QED BY <2>1, <2>2, CountedOne DEF Moves, Updating, Top
<1>3. ASSUME NEW t \in Thread, Load(t)
      PROVE  Counted(c)'
  <2>1. Moves(t, "body") /\ Top(t).at = "load" /\ UNCHANGED <<data, handled>>
    BY <1>0, <1>3, LoadMoves DEF Load, Running
  <2>2. CASE Top(t).ctx # c
    BY <2>1, <2>2, CountedOne DEF Moves, Updating, Top
  <2> QED BY <1>3, <2>2, CountedLoad
<1>4. ASSUME NEW t \in Thread, Store(t)
      PROVE  Counted(c)'
  <2>1. Moves(t, "unlock") /\ stack[t] # <<>>
    BY <1>0, <1>4, StoreMoves DEF Store, Running
  <2>2. CASE Top(t).ctx # c
    <3>1. Top(t) \in Activation
      BY <1>0, <2>1, TopOfStack
    <3>2. data'[c] = data[c] /\ handled'[c] = handled[c]
      BY <1>0, <1>4, <2>2, <3>1 DEF Store, TypeOK, Activation
    <3> QED BY <2>1, <2>2, <3>2, CountedOne DEF Moves, Updating, Top
  <2> QED BY <1>4, <2>2, CountedStore
<1>5. ASSUME NEW t \in Thread, Leave(t)
      PROVE  Counted(c)'
  <2>1. Shrinks(t) /\ UNCHANGED <<data, handled>> /\ Top(t).at = "unlock"
    BY <1>0, <1>5, LeaveShrinks DEF Leave, Running
  <2> QED BY <2>1, CountedOne DEF Shrinks, Updating, Top
<1>6. CASE UNCHANGED vars
  BY <1>6 DEF vars, Counted, Outermost
<1> QED BY <1>1, <1>2, <1>3, <1>4, <1>5, <1>6 DEF Next, Step, Terminating

\* A handler that nothing leads back to is inside no other one on its context.
LEMMA NeverBackOutermost ==
  ASSUME NEW c \in Ctx, NEW S, c \notin S, Stacked(LeadsTo(c, S)),
         NEW u \in Thread, NEW n \in DOMAIN stack[u], Updating(stack[u][n], c)
  PROVE  Outermost(u, n, c)
<1> SUFFICES ASSUME NEW m \in DOMAIN stack[u], m < n, Updating(stack[u][m], c) PROVE FALSE
  BY DEF Outermost
<1>1. <<stack[u][m].ctx, stack[u][n].ctx>> \in LeadsTo(c, S)
  BY DEF Stacked
<1> QED BY <1>1 DEF LeadsTo, Updating

\* What every locked context keeps, and more where nothing leads back to it.
KeepsUpdates ==
  \A c \in Ctx : Kind[c] # "none" =>
    /\ Counted(c)
    /\ \A S \in SUBSET Ctx :
         c \notin S /\ HoldsReached(S, c) => Stacked(LeadsTo(c, S)) /\ Current(c)

\* The lock loses no update to another thread, and to handlers inside others on
\* the same context just theirs, for any call graph and number of threads.
THEOREM UpdatesLostToReentryOnly == Spec => []LostOnlyToReentry
<1>1. Init => KeepsUpdates
  <2> SUFFICES ASSUME Init, NEW c \in Ctx, NEW S \in SUBSET Ctx
               PROVE  Stacked(LeadsTo(c, S)) /\ Current(c) /\ Counted(c)
    BY DEF KeepsUpdates
  <2>1. DOMAIN <<>> = {}
    BY EmptySeq
  <2> QED BY <2>1, StackedInit DEF Init, Current, Counted
<1>2. Inv /\ KeepsUpdates /\ [Next]_vars => KeepsUpdates'
  <2> SUFFICES ASSUME Inv, KeepsUpdates, [Next]_vars, NEW c \in Ctx, Kind[c] # "none"
               PROVE  /\ Counted(c)'
                      /\ \A S \in SUBSET Ctx : c \notin S /\ HoldsReached(S, c) =>
                           Stacked(LeadsTo(c, S))' /\ Current(c)'
    BY DEF KeepsUpdates
  <2>1. Counted(c)'
    BY CountedStep DEF KeepsUpdates
  <2>2. ASSUME NEW S \in SUBSET Ctx, c \notin S, HoldsReached(S, c)
        PROVE  Stacked(LeadsTo(c, S))' /\ Current(c)'
    <3>1. Stacked(LeadsTo(c, S)) /\ Current(c)
      BY <2>2 DEF KeepsUpdates
    <3>2. Stacked(LeadsTo(c, S))'
      BY <2>2, <3>1, LeadsToClosed, StackedNext
    <3> QED BY <2>2, <3>1, <3>2, CurrentStep
  <2> QED BY <2>1, <2>2
<1>3. KeepsUpdates => LostOnlyToReentry
  <2> SUFFICES ASSUME KeepsUpdates, NEW c \in Ctx, Kind[c] # "none", data[c] # handled[c]
               PROVE  /\ ~NeverBack(c)
                      /\ \E t \in Thread : \E n \in DOMAIN stack[t] :
                           Updating(stack[t][n], c)
    BY DEF LostOnlyToReentry
  <2>1. PICK t \in Thread : \E n \in DOMAIN stack[t] : Updating(stack[t][n], c)
    BY DEF KeepsUpdates, Counted
  <2>2. PICK n \in DOMAIN stack[t] : Updating(stack[t][n], c)
    BY <2>1
  <2>3. ASSUME NEW S \in SUBSET (Ctx \ {c}), HoldsReached(S, c) PROVE FALSE
    <3>1. S \in SUBSET Ctx /\ c \notin S
      OBVIOUS
    <3>2. Stacked(LeadsTo(c, S)) /\ Current(c) /\ Counted(c)
      BY <2>3, <3>1 DEF KeepsUpdates
    <3>3. Outermost(t, n, c)
      BY <2>2, <3>1, <3>2, NeverBackOutermost
    <3>4. stack[t][n].seen = handled[c] /\ stack[t][n].seen = data[c]
      BY <2>2, <3>2, <3>3 DEF Counted, Current, Updating
    <3> QED BY <3>4
  <2> QED BY <2>1, <2>3 DEF NeverBack
<1> QED BY <1>1, <1>2, <1>3, InvInit, InvNext, PTL DEF Spec

==============================================================================
