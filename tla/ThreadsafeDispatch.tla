-------------------------- MODULE ThreadsafeDispatch --------------------------
(***************************************************************************)
(* src/examples/threadsafe_dispatch_demo.c on top of DEFINE_SUM_DISPATCH   *)
(* (src/include/generic_sum_type.h): workers that dispatch increment and   *)
(* decrement commands to one shared Counter, and the main thread that      *)
(* creates them, joins them, reads the counter without the lock, destroys  *)
(* the mutex and returns.                                                  *)
(*                                                                         *)
(* A dispatch is   SUM_CTX_LOCK(ctx); switch (tag) ... SUM_CTX_UNLOCK(ctx) *)
(* and the handler that the switch calls is a read-modify-write of         *)
(* ctx->counter, so it is two steps here: Load and Store.  The hooks are   *)
(* fixed per translation unit by #ifndef: a worker compiled without them   *)
(* gets the no-op default, and is one that is not in Hooked.  The build    *)
(* (.github/workflows/ci.yml) does not optimise, so that such a worker     *)
(* also reads and writes the counter in memory once for each command.      *)
(***************************************************************************)
EXTENDS Sums

CONSTANTS NInc,         \* threads running worker_inc
          NDec,         \* threads running worker_dec
          Iterations,   \* ITER_PER_THREAD
          Amount,       \* the amount of every command
          Hooked,       \* workers whose SUM_CTX_LOCK / UNLOCK are the mutex
          CreateFails   \* whether pthread_create may fail (it is not checked)

ASSUME CountAssumption ==
  /\ NInc \in Nat
  /\ NDec \in Nat
  /\ NInc + NDec > 0
  /\ Iterations \in Nat
  /\ Amount \in Int

Worker == 1 .. (NInc + NDec)

ASSUME HookAssumption ==
  /\ Hooked \subseteq Worker
  /\ CreateFails \in BOOLEAN

\* The handler that a worker's command selects adds or subtracts the amount.
Delta == [w \in Worker |-> IF w <= NInc THEN Amount ELSE -Amount]

\* The mutex is owned by a worker, free, or destroyed.
Free == 0
Destroyed == -1

VARIABLES counter,   \* ctx.counter
          owner,     \* ctx.mutex
          pc,        \* where each worker is
          i,         \* its loop counter
          reg,       \* the counter value its handler has loaded
          mpc,       \* where main is
          k,         \* main's index into inc[] followed by dec[]
          exitCode   \* main's return value; 0 or 1 once it has returned

workerVars == <<counter, owner, pc, i, reg>>
mainVars   == <<mpc, k, exitCode>>
vars       == <<counter, owner, pc, i, reg, mpc, k, exitCode>>

Init ==
  /\ counter = 0
  /\ owner = Free
  /\ pc = [w \in Worker |-> "unborn"]
  /\ i = [w \in Worker |-> 0]
  /\ reg = [w \in Worker |-> 0]
  /\ mpc = "create"
  /\ k = 1
  /\ exitCode = -1

------------------------------------------------------------------------------
\* The worker threads.

\* SUM_CTX_LOCK: with the hooks defined it waits for the mutex, with the
\* no-op default it just goes on.
Acquire_NotHeld(w) == (w \in Hooked => owner = Free) /\ UNCHANGED owner

Acquire(w) == IF w \in Hooked THEN owner = Free /\ owner' = w
                              ELSE UNCHANGED owner

\* SUM_CTX_UNLOCK.  The fault is a case left by return instead of break.
Release_Skipped(w) == UNCHANGED owner

Release(w) == owner' = IF w \in Hooked THEN Free ELSE owner

\* What the handler writes back.  The faults: the increment case falls
\* through to the decrement handler; on_decrement adds.
Updated_FallsThrough(w) == reg[w] + (IF w <= NInc THEN 0 ELSE Delta[w])

Updated_WrongSign(w) == reg[w] + Amount

Updated(w) == reg[w] + Delta[w]

\* The test of the loop, and the fault of a loop that runs once more.
HasMore_OffByOne(w) == i[w] <= Iterations

HasMore(w) == i[w] < Iterations

\* The next dispatch of the loop enters its lock region.
Lock(w) ==
  /\ pc[w] = "loop"
  /\ HasMore(w)
  /\ Acquire(w)
  /\ pc' = [pc EXCEPT ![w] = "load"]
  /\ UNCHANGED <<counter, i, reg, mainVars>>

\* The handler reads ctx->counter ...
Load(w) ==
  /\ pc[w] = "load"
  /\ reg' = [reg EXCEPT ![w] = counter]
  /\ pc' = [pc EXCEPT ![w] = "store"]
  /\ UNCHANGED <<counter, owner, i, mainVars>>

\* ... and writes it back with the amount added or subtracted.
Store(w) ==
  /\ pc[w] = "store"
  /\ counter' = Updated(w)
  /\ pc' = [pc EXCEPT ![w] = "unlock"]
  /\ UNCHANGED <<owner, i, reg, mainVars>>

\* The switch is left by its break, the region ends, the loop goes on.
Unlock(w) ==
  /\ pc[w] = "unlock"
  /\ Release(w)
  /\ pc' = [pc EXCEPT ![w] = "loop"]
  /\ i' = [i EXCEPT ![w] = @ + 1]
  /\ UNCHANGED <<counter, reg, mainVars>>

\* The loop is over: the thread returns.
Finish(w) ==
  /\ pc[w] = "loop"
  /\ ~HasMore(w)
  /\ pc' = [pc EXCEPT ![w] = "done"]
  /\ UNCHANGED <<counter, owner, i, reg, mainVars>>

Step(w) == Lock(w) \/ Load(w) \/ Store(w) \/ Unlock(w) \/ Finish(w)

------------------------------------------------------------------------------
\* The main thread.

\* One of its two creating (and later joining) loops advances by one thread.
Advance(next) ==
  IF k < NInc + NDec THEN mpc' = mpc /\ k' = k + 1
                     ELSE mpc' = next /\ k' = 1

\* pthread_create of the k-th thread succeeds.
Create ==
  /\ mpc = "create"
  /\ pc' = [pc EXCEPT ![k] = "loop"]
  /\ Advance("join")
  /\ UNCHANGED <<counter, owner, i, reg, exitCode>>

\* pthread_create fails; its result is ignored and the handle stays
\* uninitialised.
CreateFailed ==
  /\ CreateFails
  /\ mpc = "create"
  /\ Advance("join")
  /\ UNCHANGED <<workerVars, exitCode>>

\* pthread_join returns once the thread has; the fault is a main that does
\* not wait.
Joinable_NoWait(w) == TRUE

Joinable(w) == pc[w] = "done"

\* pthread_join of the k-th thread waits for it to return.
Join ==
  /\ mpc = "join"
  /\ Joinable(k)
  /\ Advance("destroy")
  /\ UNCHANGED <<workerVars, exitCode>>

\* pthread_join of a handle that was never initialised is undefined: it
\* returns an error that main ignores, it crashes the program, or it waits for
\* ever for whatever the handle happens to mean.
JoinUndefined ==
  /\ mpc = "join"
  /\ pc[k] = "unborn"
  /\ \/ Advance("destroy")
     \/ mpc' \in {"crashed", "stuck"} /\ UNCHANGED k
  /\ UNCHANGED <<workerVars, exitCode>>

\* The final value is printed and the mutex destroyed.
DestroyMutex ==
  /\ mpc = "destroy"
  /\ owner' = Destroyed
  /\ mpc' = "return"
  /\ UNCHANGED <<counter, pc, i, reg, k, exitCode>>

\* main returns whether the counter it reads, without the lock, is 0.
Return ==
  /\ mpc = "return"
  /\ exitCode' = IF counter = 0 THEN 0 ELSE 1
  /\ mpc' = "exited"
  /\ UNCHANGED <<workerVars, k>>

MainStep ==
  \/ Create \/ CreateFailed \/ Join \/ JoinUndefined \/ DestroyMutex \/ Return

\* The process is gone.  A crash of main takes the workers with it.
Ended == mpc \in {"exited", "crashed"}

\* Nothing moves any more: a main that is stuck leaves the workers to finish.
Halted ==
  Ended \/ (mpc = "stuck" /\ \A w \in Worker : pc[w] \in {"unborn", "done"})

Terminating == Halted /\ UNCHANGED vars

Next ==
  \/ /\ ~Ended
     /\ MainStep \/ \E w \in Worker : Step(w)
  \/ Terminating

Spec == Init /\ [][Next]_vars

\* Every thread of the process is scheduled again and again; nothing says
\* that the mutex is handed over in any order, so fairness is weak.
FairSpec ==
  /\ Spec
  /\ WF_vars(~Ended /\ MainStep)
  /\ \A w \in Worker : WF_vars(~Ended /\ Step(w))

------------------------------------------------------------------------------
\* Properties.

WorkerPC == {"unborn", "loop", "load", "store", "unlock", "done"}
MainPC   == {"create", "join", "destroy", "return", "exited", "crashed", "stuck"}

\* Every variable has its type; a loop counter stays within its loop.
TypeOK ==
  /\ counter \in Int
  /\ owner \in Worker \cup {Free, Destroyed}
  /\ pc \in [Worker -> WorkerPC]
  /\ i \in [Worker -> 0 .. Iterations]
  /\ reg \in [Worker -> Int]
  /\ mpc \in MainPC
  /\ k \in Worker
  /\ exitCode \in {-1, 0, 1}

InRegion(w) == pc[w] \in {"load", "store", "unlock"}

\* The region from SUM_CTX_LOCK to SUM_CTX_UNLOCK holds the whole handler:
\* two workers that use the hooks are never inside it together, whatever the
\* workers without hooks do.
MutualExclusion ==
  \A v, w \in Hooked : InRegion(v) /\ InRegion(w) => v = w

\* LOCK and UNLOCK stay paired: the mutex is owned by exactly the hooked
\* worker inside the region, so that no path through the switch leaks it.
LockPaired ==
  \A w \in Hooked : InRegion(w) <=> owner = w

\* main destroys the mutex only when no worker can touch it any more.
MutexOutlivesWorkers ==
  owner = Destroyed => \A w \in Worker : pc[w] \in {"unborn", "done"}

\* When every worker uses the hooks, the value a handler is about to add to
\* is still the value of the counter: no update is lost.
LoadIsCurrent ==
  Hooked = Worker => \A w \in Worker : pc[w] = "store" => reg[w] = counter

\* Commands of w that have reached the counter.
Applied(w) == i[w] + (IF pc[w] = "unlock" THEN 1 ELSE 0)

\* The sum of f over all workers.
OverWorkers(f) == SumTo(f, NInc + NDec)

Total == OverWorkers([w \in Worker |-> Delta[w] * Applied(w)])

\* When every worker uses the hooks, the counter is at every moment the sum
\* of the commands applied so far.
CounterIsTotal == Hooked = Worker => counter = Total

\* Even with no lock at all the counter lies between the sum of the
\* decrements and the sum of the increments applied so far: races lose
\* updates but never invent one (so that a long never overflows).
CounterWithinCommands ==
  Amount >= 0 =>
    /\ counter <= OverWorkers([w \in Worker |->
                      IF w <= NInc THEN Amount * Applied(w) ELSE 0])
    /\ counter >= -OverWorkers([w \in Worker |->
                      IF w > NInc THEN Amount * Applied(w) ELSE 0])

\* What the threads that pthread_create really started should add up to.
StartedTotal ==
  OverWorkers([w \in Worker |->
     IF pc[w] = "unborn" THEN 0 ELSE Delta[w] * Iterations])

\* The demo's own criterion: main returns 0 exactly when the threads that
\* were really started balance out (all of them started, that is 4 and 4).
\* A pthread_create that fails unnoticed shows only if it tips the balance.
ExitCodeIsBalance ==
  (Hooked = Worker /\ exitCode # -1) => (exitCode = 0 <=> StartedTotal = 0)

\* The requirement of the demo: with the hooks in place, as many decrements
\* as increments and every thread started, main returns 0 in every schedule.
BalancedRunReturnsZero ==
  (Hooked = Worker /\ NInc = NDec /\ \A w \in Worker : pc[w] # "unborn")
    => exitCode \in {-1, 0}

\* The program ends: no worker waits for ever, and no join of a thread that
\* was started does.
Termination == <>Halted

\* The dispatches implement atomic application of the commands: the one step
\* that matters is the handler's Store.
Atomic ==
  INSTANCE AtomicCounter
    WITH value <- counter,
         remaining <- [w \in Worker |-> Iterations - Applied(w)]

AtomicSpec == Atomic!Spec

==============================================================================
