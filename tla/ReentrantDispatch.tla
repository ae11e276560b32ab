--------------------------- MODULE ReentrantDispatch ---------------------------
(***************************************************************************)
(* Dispatch from inside handlers: DEFINE_SUM_DISPATCH of                   *)
(* src/include/generic_sum_type.h with several threads and several         *)
(* contexts.                                                               *)
(*                                                                         *)
(* The lock region spans the whole switch, handler included, so a handler  *)
(* that dispatches again does so with its own context locked.  A thread is *)
(* a stack of activations of the dispatch function, the running one last.  *)
(* Handlers are the user's: here each one loads its context, may dispatch  *)
(* once to a context that Calls allows, and stores what it loaded plus 1.  *)
(* A command whose tag no case matches runs no handler.                    *)
(***************************************************************************)
EXTENDS Integers, Sequences, FiniteSets

CONSTANTS Thread,
          NoOwner,     \* the owner of a free lock
          Ctx,
          Kind,        \* the primitive behind the hooks: [Ctx -> LockKind]
          Calls,       \* <<c, d>>: a handler on c may dispatch to d
          Dispatches,  \* bound: dispatches every thread issues from outside
          MaxDepth     \* bound: activations of one thread

LockKind == {"none", "normal", "recursive"}

ASSUME KindAssumption ==
  /\ NoOwner \notin Thread
  /\ Kind \in [Ctx -> LockKind]
  /\ Calls \subseteq Ctx \X Ctx
  /\ Dispatches \in Nat /\ MaxDepth \in Nat

VARIABLES stack,    \* the activations of each thread
          owner,    \* who holds the lock of a context
          depth,    \* and how many times
          data,     \* what the handlers update in a context
          todo,     \* dispatches a thread has still to issue
          handled   \* handlers run to their end, but for those inside another
                    \* one of their context (history, read by no action)

lockVars == <<owner, depth>>
vars == <<stack, owner, depth, data, todo, handled>>

Activation == [ctx : Ctx, at : {"lock", "load", "body", "unlock"},
               valid : BOOLEAN, mayCall : BOOLEAN, seen : Nat]

Init ==
  /\ stack = [t \in Thread |-> <<>>]
  /\ owner = [c \in Ctx |-> NoOwner]
  /\ depth = [c \in Ctx |-> 0]
  /\ data = [c \in Ctx |-> 0]
  /\ todo = [t \in Thread |-> Dispatches]
  /\ handled = [c \in Ctx |-> 0]

\* The running activation of t.
Top(t) == stack[t][Len(stack[t])]

Running(t, at) == stack[t] # <<>> /\ Top(t).at = at

\* It goes on to a point of the dispatch function.
Reach(t, at) == stack' = [stack EXCEPT ![t][Len(stack[t])].at = at]

\* Entering the dispatch function; valid says whether a case matches the tag.
Called(c, valid) ==
  [ctx |-> c, at |-> "lock", valid |-> valid, mayCall |-> TRUE, seen |-> 0]

\* A thread dispatches from outside any handler.
Dispatch(t, c, valid) ==
  /\ stack[t] = <<>>
  /\ todo[t] > 0
  /\ todo' = [todo EXCEPT ![t] = @ - 1]
  /\ stack' = [stack EXCEPT ![t] = <<Called(c, valid)>>]
  /\ UNCHANGED <<lockVars, data, handled>>

\* When SUM_CTX_LOCK gets through.
CanLock(t, c) ==
  \/ Kind[c] = "none"
  \/ owner[c] = NoOwner
  \/ Kind[c] = "recursive" /\ owner[c] = t

\* Where the switch takes a tag: to its case, or past all of them.
Switch(valid) == IF valid THEN "load" ELSE "unlock"

\* Whether the way in passes SUM_CTX_LOCK; the fault checks the tag first.
Locks_IfCase(a) == a.valid

Locks(a) == TRUE

\* SUM_CTX_LOCK and the switch.
Enter(t) ==
  /\ Running(t, "lock")
  /\ LET c == Top(t).ctx IN
       /\ CanLock(t, c)
       /\ IF Kind[c] = "none" \/ ~Locks(Top(t))
            THEN UNCHANGED lockVars
            ELSE /\ owner' = [owner EXCEPT ![c] = t]
                 /\ depth' = [depth EXCEPT ![c] = @ + 1]
  /\ Reach(t, Switch(Top(t).valid))
  /\ UNCHANGED <<data, todo, handled>>

\* The handler reads its context.
Load(t) ==
  /\ Running(t, "load")
  /\ stack' = [stack EXCEPT ![t][Len(stack[t])] =
                 [@ EXCEPT !.at = "body", !.seen = data[Top(t).ctx]]]
  /\ UNCHANGED <<lockVars, data, todo, handled>>

\* The handler dispatches to context c before it goes on.
Nested(t, c, valid) ==
  /\ Running(t, "body")
  /\ Len(stack[t]) < MaxDepth
  /\ Top(t).mayCall
  /\ <<Top(t).ctx, c>> \in Calls
  /\ stack' = [stack EXCEPT ![t] =
       Append([@ EXCEPT ![Len(@)].mayCall = FALSE], Called(c, valid))]
  /\ UNCHANGED <<lockVars, data, todo, handled>>

\* An activation whose handler has read c and not written it yet.
Updating(a, c) == a.ctx = c /\ a.at = "body"

\* The running handler was called, at some remove, by one that is updating the
\* same context.
Reentered(t) ==
  \E n \in 1 .. Len(stack[t]) - 1 : Updating(stack[t][n], Top(t).ctx)

\* The handler writes its context and returns; the case ends in break.
Store(t) ==
  /\ Running(t, "body")
  /\ data' = [data EXCEPT ![Top(t).ctx] = Top(t).seen + 1]
  /\ handled' = IF Reentered(t) THEN handled
                ELSE [handled EXCEPT ![Top(t).ctx] = @ + 1]
  /\ Reach(t, "unlock")
  /\ UNCHANGED <<lockVars, todo>>

\* Whether the way out passes SUM_CTX_UNLOCK; the fault is the return that
\* once ended the cases, which only a tag that matches none escapes.
Unlocks_NotAfterCase(a) == ~a.valid

Unlocks(a) == TRUE

\* SUM_CTX_UNLOCK and the return to the caller.
Leave(t) ==
  /\ Running(t, "unlock")
  /\ LET c == Top(t).ctx IN
       IF Kind[c] = "none" \/ ~Unlocks(Top(t))
         THEN UNCHANGED lockVars
         ELSE /\ depth' = [depth EXCEPT ![c] = @ - 1]
              /\ owner' = [owner EXCEPT ![c] = IF depth[c] = 1 THEN NoOwner ELSE @]
  /\ stack' = [stack EXCEPT ![t] = SubSeq(@, 1, Len(@) - 1)]
  /\ UNCHANGED <<data, todo, handled>>

Step(t) ==
  \/ \E c \in Ctx, valid \in BOOLEAN : Dispatch(t, c, valid) \/ Nested(t, c, valid)
  \/ Enter(t) \/ Load(t) \/ Store(t) \/ Leave(t)

Finished(t) == stack[t] = <<>> /\ todo[t] = 0

Terminating == (\A t \in Thread : Finished(t)) /\ UNCHANGED vars

Next == (\E t \in Thread : Step(t)) \/ Terminating

Spec == Init /\ [][Next]_vars

\* Each thread is scheduled for ever; no hand-over order of a lock is assumed.
FairSpec == Spec /\ \A t \in Thread : WF_vars(Step(t))

------------------------------------------------------------------------------
\* Properties.

\* Every variable has its type; a free lock is held zero times.
TypeOK ==
  /\ stack \in [Thread -> Seq(Activation)]
  /\ owner \in [Ctx -> Thread \cup {NoOwner}]
  /\ depth \in [Ctx -> Nat]
  /\ \A c \in Ctx : owner[c] = NoOwner <=> depth[c] = 0
  /\ data \in [Ctx -> Nat] /\ handled \in [Ctx -> Nat]
  /\ todo \in [Thread -> Nat]

\* The activations of t inside the lock region of c.
Inside(t, c) ==
  {n \in DOMAIN stack[t] : stack[t][n].ctx = c /\ stack[t][n].at # "lock"}

\* LOCK and UNLOCK stay paired over any nesting and any tag, matched or not:
\* a lock is held exactly as often as its owner has activations inside its
\* region, nobody else has one, and nothing is held once they are all left.
LocksMatchActivations ==
  \A c \in Ctx : Kind[c] # "none" =>
    \A t \in Thread :
      Cardinality(Inside(t, c)) = IF owner[c] = t THEN depth[c] ELSE 0

\* The running activation of t waits for a lock, and for whom.
Waiting(t) == Running(t, "lock") /\ ~CanLock(t, Top(t).ctx)
WaitsFor(t, u) == Waiting(t) /\ owner[Top(t).ctx] = u

\* Every thread of S waits for one of S: among finitely many threads there is
\* a circle of them (a thread that waits for itself is a circle of one).
Circular(S) == S # {} /\ \A t \in S : \E u \in S : WaitsFor(t, u)

Ended == \A t \in Thread : Finished(t) \/ Waiting(t)

\* What a lock order is for: no threads wait in a circle, and so none for ever.
NoCircle == \A S \in SUBSET Thread : ~Circular(S)

\* If no thread can go on although one has not finished, threads wait in a
\* circle: no lock was left behind by a dispatch that is over.
StopsOnlyInACircle ==
  (Ended /\ \E t \in Thread : ~Finished(t)) => \E S \in SUBSET Thread : Circular(S)

\* Every program ends, with every dispatch carried out or in such a circle:
\* nobody else waits for ever, whatever order a mutex is handed over in.
FinishesOrCircles ==
  <>(Ended /\ ((\A t \in Thread : Finished(t)) \/ \E S \in SUBSET Thread : Circular(S)))

\* The re-entry that the header warns of cannot be undone: a thread that
\* waits for a lock it holds itself waits for ever.
SelfDeadlockIsFinal ==
  [][\A t \in Thread : WaitsFor(t, t) => WaitsFor(t, t)']_vars

\* S holds every context that a handler on c may reach by dispatching.
HoldsReached(S, c) ==
  \A p \in Calls : p[1] \in S \cup {c} => p[2] \in S

\* A handler on c cannot come back to c.
NeverBack(c) == \E S \in SUBSET (Ctx \ {c}) : HoldsReached(S, c)

\* The lock makes handlers atomic for other threads, not for the handlers
\* nested in them: what those write to the context of the one that called them
\* is overwritten by it, all of that and nothing else.  So a locked context
\* counts the handlers run outside any other one on it, except while a handler
\* is updating it to which others can come back, as a recursive mutex allows.
LostOnlyToReentry ==
  \A c \in Ctx : Kind[c] # "none" =>
    \/ data[c] = handled[c]
    \/ /\ ~NeverBack(c)
       /\ \E t \in Thread : \E n \in DOMAIN stack[t] : Updating(stack[t][n], c)

==============================================================================
