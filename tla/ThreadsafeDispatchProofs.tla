----------------------- MODULE ThreadsafeDispatchProofs -----------------------
(***************************************************************************)
(* Proofs about ThreadsafeDispatch for every number of workers, every      *)
(* number of iterations and every choice of the translation units that     *)
(* define the lock hooks.                                                  *)
(*                                                                         *)
(* Inv is the inductive invariant: the owner of the mutex is the hooked    *)
(* worker inside the lock region, main's index separates the threads that  *)
(* exist from those that do not (while it creates) and those that are over *)
(* from those that may run (while it joins), and a loaded value is current *)
(* when every worker is hooked.                                            *)
(***************************************************************************)
EXTENDS DispatchRaces, SumTheorems, TLAPS

\* The loop counter of a worker fits the place where the worker is.
LoopInv ==
  \A w \in Worker :
    /\ pc[w] = "unborn" => i[w] = 0
    /\ pc[w] = "done" => i[w] = Iterations
    /\ InRegion(w) => i[w] < Iterations

\* What main has done so far fits where the workers are.
MainInv ==
  /\ mpc = "create" => \A w \in Worker : w >= k => pc[w] = "unborn"
  /\ mpc = "join" => \A w \in Worker : w < k => pc[w] \in {"unborn", "done"}
  /\ mpc \in {"destroy", "return", "exited"} =>
       \A w \in Worker : pc[w] \in {"unborn", "done"}
  /\ owner = Destroyed => mpc \in {"return", "exited"}

\* The exit code says whether the counter is 0, and only after main returned.
ExitInv ==
  exitCode # -1 => mpc = "exited" /\ (exitCode = 0 <=> counter = 0)

Inv ==
  /\ TypeOK
  /\ LockPaired
  /\ LoopInv
  /\ MainInv
  /\ ExitInv
  /\ LoadIsCurrent

------------------------------------------------------------------------------
\* Init establishes Inv.
LEMMA InitInv == Init => Inv
<1> SUFFICES ASSUME Init PROVE Inv
  OBVIOUS
<1> USE CountAssumption, HookAssumption DEF Init, Worker, Free, Destroyed
<1>1. TypeOK
  BY DEF TypeOK, WorkerPC, MainPC
<1>2. LockPaired
  BY DEF LockPaired, InRegion
<1>3. LoopInv
  BY DEF LoopInv, InRegion
<1>4. MainInv /\ ExitInv
  BY DEF MainInv, ExitInv
<1>5. LoadIsCurrent
  BY DEF LoadIsCurrent
<1> QED BY <1>1, <1>2, <1>3, <1>4, <1>5 DEF Inv

\* A step of a worker preserves Inv.
LEMMA WorkerInv ==
  ASSUME Inv, ~Ended, NEW w \in Worker, Step(w)
  PROVE  Inv'
<1> USE CountAssumption, HookAssumption DEF Worker, Free, Destroyed, mainVars
<1>0. TypeOK /\ LockPaired /\ LoopInv /\ MainInv /\ ExitInv /\ LoadIsCurrent
  BY DEF Inv
<1>a. mpc \in {"create", "join", "stuck"} /\ UNCHANGED mainVars /\ exitCode = -1
  <2>1. pc[w] \notin {"unborn", "done"} /\ UNCHANGED mainVars
    BY DEF Step, Lock, Load, Store, Unlock, Finish
  <2>2. mpc \in {"create", "join", "stuck"}
    BY <1>0, <2>1 DEF MainInv, TypeOK, MainPC, Ended
  <2> QED BY <1>0, <2>1, <2>2 DEF ExitInv
<1>b. owner # Destroyed
  BY <1>0, <1>a DEF MainInv
<1>1. CASE Lock(w)
  <2>1. TypeOK'
    BY <1>0, <1>1 DEF Lock, Acquire, HasMore, TypeOK, WorkerPC
  <2>2. LockPaired'
    BY <1>0, <1>1 DEF Lock, Acquire, HasMore, LockPaired, TypeOK, InRegion
  <2>3. LoopInv'
    BY <1>0, <1>1 DEF Lock, Acquire, HasMore, LoopInv, TypeOK, InRegion
  <2>4. MainInv' /\ ExitInv'
    BY <1>0, <1>1, <1>a DEF Lock, Acquire, HasMore, MainInv, ExitInv, TypeOK
  <2>5. LoadIsCurrent'
    BY <1>0, <1>1 DEF Lock, Acquire, HasMore, LoadIsCurrent, TypeOK
  <2> QED BY <2>1, <2>2, <2>3, <2>4, <2>5 DEF Inv
<1>2. CASE Load(w)
  <2>1. TypeOK'
    BY <1>0, <1>2 DEF Load, TypeOK, WorkerPC
  <2>2. LockPaired'
    BY <1>0, <1>2 DEF Load, LockPaired, TypeOK, InRegion
  <2>3. LoopInv'
    BY <1>0, <1>2 DEF Load, LoopInv, TypeOK, InRegion
  <2>4. MainInv' /\ ExitInv'
    BY <1>0, <1>2, <1>a DEF Load, MainInv, ExitInv, TypeOK
  <2>5. LoadIsCurrent'
    BY <1>0, <1>2 DEF Load, LoadIsCurrent, TypeOK
  <2> QED BY <2>1, <2>2, <2>3, <2>4, <2>5 DEF Inv
<1>3. CASE Store(w)
  <2>1. TypeOK'
    <3>1. reg[w] \in Int /\ Delta[w] \in Int
      BY <1>0 DEF TypeOK, Delta
    <3>2. counter' \in Int
      BY <1>3, <3>1 DEF Store, Updated
    <3> QED BY <1>0, <1>3, <3>2 DEF Store, TypeOK, WorkerPC
  <2>2. LockPaired'
    BY <1>0, <1>3 DEF Store, Updated, LockPaired, TypeOK, InRegion
  <2>3. LoopInv'
    BY <1>0, <1>3 DEF Store, Updated, LoopInv, TypeOK, InRegion
  <2>4. MainInv' /\ ExitInv'
    BY <1>0, <1>3, <1>a DEF Store, Updated, MainInv, ExitInv, TypeOK
  <2>5. LoadIsCurrent'
    \* No other worker is between its load and its store: it would own the
    \* mutex that w owns.
    <3> SUFFICES ASSUME Hooked = Worker, NEW v \in Worker, pc'[v] = "store"
                 PROVE  FALSE
      BY <1>3 DEF LoadIsCurrent, Store
    <3>1. v # w /\ pc[v] = "store" /\ pc[w] = "store"
      BY <1>0, <1>3 DEF Store, Updated, TypeOK
    <3>2. owner = v /\ owner = w
      BY <1>0, <3>1 DEF LockPaired, InRegion
    <3> QED BY <3>1, <3>2
  <2> QED BY <2>1, <2>2, <2>3, <2>4, <2>5 DEF Inv
<1>4. CASE Unlock(w)
  <2>0. i[w] < Iterations
    BY <1>0, <1>4 DEF Unlock, Release, LoopInv, InRegion
  <2>1. TypeOK'
    BY <1>0, <1>4, <2>0 DEF Unlock, Release, TypeOK, WorkerPC
  <2>2. LockPaired'
    BY <1>0, <1>4 DEF Unlock, Release, LockPaired, TypeOK, InRegion
  <2>3. LoopInv'
    BY <1>0, <1>4, <2>0 DEF Unlock, Release, LoopInv, TypeOK, InRegion
  <2>4. MainInv' /\ ExitInv'
    BY <1>0, <1>4, <1>a, <1>b DEF Unlock, Release, MainInv, ExitInv, TypeOK
  <2>5. LoadIsCurrent'
    BY <1>0, <1>4 DEF Unlock, Release, LoadIsCurrent, TypeOK
  <2> QED BY <2>1, <2>2, <2>3, <2>4, <2>5 DEF Inv
<1>5. CASE Finish(w)
  <2>1. TypeOK'
    BY <1>0, <1>5 DEF Finish, HasMore, TypeOK, WorkerPC
  <2>2. LockPaired'
    BY <1>0, <1>5 DEF Finish, HasMore, LockPaired, TypeOK, InRegion
  <2>3. LoopInv'
    BY <1>0, <1>5 DEF Finish, HasMore, LoopInv, TypeOK, InRegion
  <2>4. MainInv' /\ ExitInv'
    BY <1>0, <1>5, <1>a DEF Finish, HasMore, MainInv, ExitInv, TypeOK
  <2>5. LoadIsCurrent'
    BY <1>0, <1>5 DEF Finish, HasMore, LoadIsCurrent, TypeOK
  <2> QED BY <2>1, <2>2, <2>3, <2>4, <2>5 DEF Inv
<1> QED BY <1>1, <1>2, <1>3, <1>4, <1>5 DEF Step

\* A step of main preserves Inv.
LEMMA MainStepInv ==
  ASSUME Inv, ~Ended, MainStep
  PROVE  Inv'
<1> USE CountAssumption, HookAssumption DEF Worker, Free, Destroyed
<1>0. TypeOK /\ LockPaired /\ LoopInv /\ MainInv /\ ExitInv /\ LoadIsCurrent
  BY DEF Inv
<1>1. CASE Create
  <2>0. pc[k] = "unborn" /\ owner # Destroyed
    BY <1>0, <1>1 DEF Create, MainInv, TypeOK
  <2>1. TypeOK'
    BY <1>0, <1>1 DEF Create, Advance, TypeOK, WorkerPC, MainPC
  <2>2. LockPaired' /\ LoopInv'
    BY <1>0, <1>1, <2>0 DEF Create, LockPaired, LoopInv, TypeOK, InRegion
  <2>3. MainInv'
    <3>1. \A w \in Worker : w > k => pc'[w] = "unborn"
      BY <1>0, <1>1 DEF Create, MainInv, TypeOK
    <3>2. CASE k < NInc + NDec
      BY <1>0, <1>1, <2>0, <3>1, <3>2 DEF Create, Advance, MainInv, TypeOK
    <3>3. CASE ~(k < NInc + NDec)
      BY <1>0, <1>1, <2>0, <3>3 DEF Create, Advance, MainInv, TypeOK
    <3> QED BY <3>2, <3>3
  <2>4. ExitInv' /\ LoadIsCurrent'
    BY <1>0, <1>1 DEF Create, Advance, ExitInv, LoadIsCurrent, TypeOK
  <2> QED BY <2>1, <2>2, <2>3, <2>4 DEF Inv
<1>2. CASE CreateFailed
  <2>0. owner # Destroyed
    BY <1>0, <1>2 DEF CreateFailed, MainInv
  <2>1. TypeOK'
    BY <1>0, <1>2 DEF CreateFailed, Advance, TypeOK, MainPC, workerVars
  <2>2. LockPaired' /\ LoopInv' /\ LoadIsCurrent'
    BY <1>0, <1>2 DEF CreateFailed, LockPaired, LoopInv, LoadIsCurrent,
                      InRegion, workerVars
  <2>3. MainInv'
    BY <1>0, <1>2, <2>0 DEF CreateFailed, Advance, MainInv, TypeOK, workerVars
  <2>4. ExitInv'
    BY <1>0, <1>2 DEF CreateFailed, Advance, ExitInv, workerVars
  <2> QED BY <2>1, <2>2, <2>3, <2>4 DEF Inv
<1>3. CASE Join \/ JoinUndefined
  <2>0. /\ owner # Destroyed
        /\ pc[k] \in {"unborn", "done"}
        /\ mpc = "join"
        /\ UNCHANGED <<counter, owner, pc, i, reg, exitCode>>
        /\ Advance("destroy") \/ (mpc' \in {"crashed", "stuck"} /\ UNCHANGED k)
    BY <1>0, <1>3 DEF Join, Joinable, JoinUndefined, MainInv, workerVars
  <2>1. TypeOK'
    BY <1>0, <2>0 DEF Advance, TypeOK, MainPC
  <2>2. LockPaired' /\ LoopInv' /\ LoadIsCurrent'
    BY <1>0, <2>0 DEF LockPaired, LoopInv, LoadIsCurrent, InRegion
  <2>3. MainInv'
    <3>1. CASE mpc' \in {"crashed", "stuck"}
      BY <2>0, <3>1 DEF MainInv
    <3>2. CASE Advance("destroy") /\ k < NInc + NDec
      BY <1>0, <2>0, <3>2 DEF Advance, MainInv, TypeOK
    <3>3. CASE Advance("destroy") /\ ~(k < NInc + NDec)
      <4>1. \A w \in Worker : pc[w] \in {"unborn", "done"}
        BY <1>0, <2>0, <3>3 DEF MainInv, TypeOK
      <4> QED BY <1>0, <2>0, <3>3, <4>1 DEF Advance, MainInv
    <3> QED BY <2>0, <3>1, <3>2, <3>3
  <2>4. ExitInv'
    BY <1>0, <2>0 DEF ExitInv
  <2> QED BY <2>1, <2>2, <2>3, <2>4 DEF Inv
<1>4. CASE DestroyMutex
  <2>0. \A w \in Worker : ~InRegion(w)
    BY <1>0, <1>4 DEF DestroyMutex, MainInv, InRegion
  <2>1. TypeOK'
    BY <1>0, <1>4 DEF DestroyMutex, TypeOK, MainPC
  <2>2. LockPaired'
    BY <1>0, <1>4, <2>0 DEF DestroyMutex, LockPaired, InRegion
  <2>3. LoopInv' /\ LoadIsCurrent'
    BY <1>0, <1>4 DEF DestroyMutex, LoopInv, LoadIsCurrent, InRegion
  <2>4. MainInv' /\ ExitInv'
    BY <1>0, <1>4 DEF DestroyMutex, MainInv, ExitInv
  <2> QED BY <2>1, <2>2, <2>3, <2>4 DEF Inv
<1>5. CASE Return
  <2>1. TypeOK'
    BY <1>0, <1>5 DEF Return, TypeOK, MainPC, workerVars
  <2>2. LockPaired' /\ LoopInv' /\ LoadIsCurrent'
    BY <1>0, <1>5 DEF Return, LockPaired, LoopInv, LoadIsCurrent, InRegion,
                      workerVars
  <2>3. MainInv' /\ ExitInv'
    BY <1>0, <1>5 DEF Return, MainInv, ExitInv, workerVars
  <2> QED BY <2>1, <2>2, <2>3 DEF Inv
<1> QED BY <1>1, <1>2, <1>3, <1>4, <1>5 DEF MainStep

\* Inv is inductive.
LEMMA NextInv == Inv /\ [Next]_vars => Inv'
<1> SUFFICES ASSUME Inv, [Next]_vars PROVE Inv'
  OBVIOUS
<1>1. CASE ~Ended /\ MainStep
  BY <1>1, MainStepInv
<1>2. CASE ~Ended /\ \E w \in Worker : Step(w)
  BY <1>2, WorkerInv
<1>3. CASE UNCHANGED vars
  BY <1>3 DEF vars, Inv, TypeOK, LockPaired, LoopInv, MainInv, ExitInv,
              LoadIsCurrent, InRegion
<1> QED BY <1>1, <1>2, <1>3 DEF Next, Terminating

\* Inv holds in every reachable state of the telemetry counter, for every
\* number of workers and iterations and with any of them compiled unlocked.
THEOREM Invariance == Spec => []Inv
BY InitInv, NextInv, PTL DEF Spec

\* Every variable keeps its type, whatever the hooks.
THEOREM TypeCorrect == Spec => []TypeOK
<1>1. Inv => TypeOK
  BY DEF Inv
<1> QED BY <1>1, Invariance, PTL

\* LOCK and UNLOCK stay paired, whatever the workers without hooks do.
THEOREM LocksArePaired == Spec => []LockPaired
<1>1. Inv => LockPaired
  BY DEF Inv
<1> QED BY <1>1, Invariance, PTL

\* Two hooked workers are never inside a handler together.
THEOREM Exclusion == Spec => []MutualExclusion
<1>1. LockPaired => MutualExclusion
  BY DEF LockPaired, MutualExclusion
<1> QED BY <1>1, LocksArePaired, PTL

\* main never destroys the mutex under a worker.
THEOREM MutexOutlives == Spec => []MutexOutlivesWorkers
<1>1. Inv => MutexOutlivesWorkers
  BY DEF Inv, MainInv, MutexOutlivesWorkers
<1> QED BY <1>1, Invariance, PTL

------------------------------------------------------------------------------
(***************************************************************************)
(* The counter.  A Store is the only step after which a command counts as  *)
(* applied; since the value loaded is current it adds exactly its amount.  *)
(***************************************************************************)

\* The commands of a worker that have reached the counter are a natural.
LEMMA AppliedType ==
  ASSUME TypeOK, NEW w \in Worker
  PROVE  /\ Applied(w) \in Nat
         /\ Delta[w] \in Int
         /\ Delta[w] * Applied(w) \in Int
<1>1. Applied(w) \in Nat
  BY CountAssumption DEF TypeOK, Applied
<1>2. Delta[w] \in Int
  BY CountAssumption DEF Delta
<1> QED BY <1>1, <1>2

\* What a step does to the number of commands applied.
LEMMA AppliedStep ==
  ASSUME Inv, [Next]_vars
  PROVE  \/ counter' = counter /\ \A w \in Worker : Applied(w)' = Applied(w)
         \/ \E w \in Worker :
              /\ counter' = reg[w] + Delta[w]
              /\ pc[w] = "store" /\ pc'[w] = "unlock"
              /\ Applied(w)' = Applied(w) + 1
              /\ \A v \in Worker : v # w => Applied(v)' = Applied(v)
<1>0. TypeOK
  BY DEF Inv
<1>1. CASE MainStep
  <2>1. CASE Create
    <3>1. pc[k] = "unborn"
      BY <2>1 DEF Create, Inv, MainInv, TypeOK, Worker
    <3> QED BY <1>0, <2>1, <3>1 DEF Create, Applied, TypeOK
  <2>2. CASE CreateFailed \/ Join \/ JoinUndefined \/ DestroyMutex \/ Return
    BY <2>2 DEF CreateFailed, Join, JoinUndefined, DestroyMutex, Return,
                Applied, workerVars
  <2> QED BY <1>1, <2>1, <2>2 DEF MainStep
<1>2. ASSUME NEW w \in Worker, Step(w)
      PROVE  \/ counter' = counter /\ \A v \in Worker : Applied(v)' = Applied(v)
             \/ /\ counter' = reg[w] + Delta[w]
                /\ pc[w] = "store" /\ pc'[w] = "unlock"
                /\ Applied(w)' = Applied(w) + 1
                /\ \A v \in Worker : v # w => Applied(v)' = Applied(v)
  <2>1. CASE Lock(w)
    BY <1>0, <2>1 DEF Lock, Acquire, HasMore, Applied, TypeOK
  <2>2. CASE Load(w)
    BY <1>0, <2>2 DEF Load, Applied, TypeOK
  <2>3. CASE Store(w)
    BY <1>0, <2>3, CountAssumption DEF Store, Updated, Applied, TypeOK
  <2>4. CASE Unlock(w)
    BY <1>0, <2>4, CountAssumption DEF Unlock, Release, Applied, TypeOK
  <2>5. CASE Finish(w)
    BY <1>0, <2>5 DEF Finish, HasMore, Applied, TypeOK
  <2> QED BY <1>2, <2>1, <2>2, <2>3, <2>4, <2>5 DEF Step
<1>3. CASE UNCHANGED vars
  BY <1>3 DEF vars, Applied
<1> QED BY <1>1, <1>2, <1>3 DEF Next, Terminating

\* The summands of Total.
Summand == [w \in Worker |-> Delta[w] * Applied(w)]

LEMMA TotalInit == Init => counter = Total
<1> SUFFICES ASSUME Init PROVE counter = Total
  OBVIOUS
<1>1. TypeOK
  BY InitInv DEF Inv
<1>2. \A w \in Worker : Applied(w) = 0
  BY DEF Init, Applied
<1>3. Summand \in [1 .. NInc + NDec -> Int] /\ \A w \in 1 .. NInc + NDec : Summand[w] = 0
  <2>1. \A w \in Worker : Delta[w] * Applied(w) = 0
    BY <1>1, <1>2, AppliedType
  <2> QED BY <2>1 DEF Summand, Worker
<1>4. SumTo(Summand, NInc + NDec) = 0
  BY <1>3, SumToZero, CountAssumption
<1> QED BY <1>4 DEF Init, Total, OverWorkers, Summand

\* What a worker at its store holds was in memory before the last step, or
\* has just been read.
LEMMA LoadedStep ==
  ASSUME TypeOK, [Next]_vars, NEW w \in Worker, pc'[w] = "store"
  PROVE  \/ pc[w] = "store" /\ reg'[w] = reg[w]
         \/ reg'[w] = counter /\ counter' = counter
<1>1. CASE MainStep
  BY <1>1 DEF MainStep, Create, CreateFailed, Join, JoinUndefined, DestroyMutex, Return,
              workerVars, TypeOK
<1>2. ASSUME NEW v \in Worker, Step(v)
      PROVE  \/ pc[w] = "store" /\ reg'[w] = reg[w]
             \/ reg'[w] = counter /\ counter' = counter
  BY <1>2 DEF Step, Lock, Load, Store, Unlock, Finish, TypeOK
<1>3. CASE UNCHANGED vars
  BY <1>3 DEF vars
<1> QED BY <1>1, <1>2, <1>3 DEF Next, Terminating

\* While every value loaded is current, the counter follows the commands.
LEMMA TotalStep ==
  ASSUME Inv, [Next]_vars, counter = Total,
         \A w \in Worker : pc[w] = "store" => reg[w] = counter
  PROVE  counter' = Total'
<1>0. TypeOK /\ TypeOK' /\ counter = Total
  BY NextInv DEF Inv
<1>1. /\ NInc + NDec \in Nat
      /\ Summand \in [1 .. NInc + NDec -> Int]
      /\ Summand' \in [1 .. NInc + NDec -> Int]
  <2>1. ASSUME NEW w \in Worker
        PROVE  Delta[w] * Applied(w) \in Int
    BY <1>0, AppliedType
  <2>2. ASSUME NEW w \in Worker
        PROVE  Delta[w] * (Applied(w)') \in Int
    <3>1. Applied(w)' \in Nat
      BY <1>0, CountAssumption DEF TypeOK, Applied
    <3> QED BY <1>0, <3>1, AppliedType
  <2> QED BY <2>1, <2>2, CountAssumption DEF Summand, Worker
<1>2. Total = SumTo(Summand, NInc + NDec) /\ Total' = SumTo(Summand', NInc + NDec)
  BY DEF Total, OverWorkers, Summand
<1>3. CASE counter' = counter /\ \A w \in Worker : Applied(w)' = Applied(w)
  <2>1. Summand' = Summand
    BY <1>3 DEF Summand
  <2> QED BY <1>0, <1>2, <1>3, <2>1
<1>4. CASE \E w \in Worker :
              /\ counter' = reg[w] + Delta[w]
              /\ pc[w] = "store" /\ pc'[w] = "unlock"
              /\ Applied(w)' = Applied(w) + 1
              /\ \A v \in Worker : v # w => Applied(v)' = Applied(v)
  <2>1. PICK w \in Worker :
              /\ counter' = reg[w] + Delta[w]
              /\ pc[w] = "store" /\ pc'[w] = "unlock"
              /\ Applied(w)' = Applied(w) + 1
              /\ \A v \in Worker : v # w => Applied(v)' = Applied(v)
    BY <1>4
  <2>2. counter' = counter + Delta[w]
    BY <2>1
  <2>3. Delta[w] * (Applied(w) + 1) = Delta[w] * Applied(w) + Delta[w]
    BY <1>0, AppliedType
  <2>4. Summand'[w] = Summand[w] + Delta[w]
    BY <2>1, <2>3 DEF Summand
  <2>5. \A v \in Worker : v # w => Summand'[v] = Summand[v]
    BY <2>1 DEF Summand
  <2>6. Delta[w] \in Int /\ w \in 1 .. NInc + NDec
    BY <1>0, AppliedType DEF Worker
  <2>7. SumTo(Summand', NInc + NDec) = SumTo(Summand, NInc + NDec) + Delta[w]
    BY <1>1, <2>4, <2>5, <2>6, SumToUpdate DEF Worker
  <2> QED BY <1>0, <1>2, <2>2, <2>7
<1> QED BY <1>3, <1>4, AppliedStep

LEMMA CounterStep == Inv /\ CounterIsTotal /\ [Next]_vars => CounterIsTotal'
BY TotalStep DEF Inv, CounterIsTotal, LoadIsCurrent

\* With every worker hooked, the counter is at every moment the sum of the
\* commands applied: no interleaving loses an update.
THEOREM NoUpdateIsLost == Spec => []CounterIsTotal
<1>1. Init => CounterIsTotal
  BY TotalInit DEF CounterIsTotal
<1> QED BY <1>1, CounterStep, Invariance, PTL DEF Spec

------------------------------------------------------------------------------
(***************************************************************************)
(* Refinement: with every worker hooked, a Store is Apply of AtomicCounter *)
(* and every other step leaves the abstract state alone.                   *)
(***************************************************************************)

LEMMA RefineInit == Init => Atomic!Init
<1> SUFFICES ASSUME Init PROVE Atomic!Init
  OBVIOUS
<1>1. \A w \in Worker : Iterations - Applied(w) = Iterations
  BY CountAssumption DEF Init, Applied
<1> QED BY <1>1 DEF Atomic!Init, Init

LEMMA RefineStep ==
  ASSUME Hooked = Worker, Inv, [Next]_vars
  PROVE  [Atomic!Next]_(Atomic!vars)
<1>0. TypeOK /\ LoadIsCurrent /\ LoopInv
  BY DEF Inv
<1>1. CASE counter' = counter /\ \A w \in Worker : Applied(w)' = Applied(w)
  BY <1>1 DEF Atomic!vars
<1>2. CASE \E w \in Worker :
              /\ counter' = reg[w] + Delta[w]
              /\ pc[w] = "store" /\ pc'[w] = "unlock"
              /\ Applied(w)' = Applied(w) + 1
              /\ \A v \in Worker : v # w => Applied(v)' = Applied(v)
  <2>1. PICK w \in Worker :
              /\ counter' = reg[w] + Delta[w]
              /\ pc[w] = "store" /\ pc'[w] = "unlock"
              /\ Applied(w)' = Applied(w) + 1
              /\ \A v \in Worker : v # w => Applied(v)' = Applied(v)
    BY <1>2
  <2>2. counter' = counter + Delta[w]
    BY <1>0, <2>1 DEF LoadIsCurrent
  <2>3. Applied(w) \in Nat /\ Applied(w) < Iterations
    BY <1>0, <2>1, AppliedType DEF LoopInv, InRegion, Applied, TypeOK
  <2>4. Iterations - Applied(w) > 0
        /\ Iterations - Applied(w)' = Iterations - Applied(w) - 1
    BY <2>1, <2>3, CountAssumption
  <2>5. [v \in Worker |-> Iterations - Applied(v)]' =
          [[v \in Worker |-> Iterations - Applied(v)] EXCEPT ![w] = @ - 1]
    BY <2>1, <2>4
  <2>6. Atomic!Apply(w)
    BY <2>2, <2>4, <2>5 DEF Atomic!Apply
  <2> QED BY <2>6 DEF Atomic!Next
<1> QED BY <1>1, <1>2, AppliedStep

\* A locked dispatch is atomic: the threaded program implements AtomicCounter.
THEOREM LockedDispatchIsAtomic ==
  ASSUME Hooked = Worker
  PROVE  Spec => AtomicSpec
<1>1. Inv /\ [Next]_vars => [Atomic!Next]_(Atomic!vars)
  BY RefineStep
<1> QED BY <1>1, RefineInit, Invariance, PTL DEF Spec, AtomicSpec, Atomic!Spec

------------------------------------------------------------------------------
(***************************************************************************)
(* What main returns.                                                      *)
(***************************************************************************)

\* With every worker hooked, main returns 0 exactly when the workers that
\* were started balance out.
THEOREM ExitCodeTellsBalance == Spec => []ExitCodeIsBalance
<1>1. Inv /\ CounterIsTotal => ExitCodeIsBalance
  <2> SUFFICES ASSUME Inv, CounterIsTotal, Hooked = Worker, exitCode # -1
               PROVE  counter = StartedTotal
    BY DEF ExitCodeIsBalance, Inv, ExitInv
  <2>1. \A w \in Worker : pc[w] \in {"unborn", "done"}
    BY DEF Inv, ExitInv, MainInv
  <2>2. ASSUME NEW w \in Worker
        PROVE  Delta[w] * Applied(w) =
                 IF pc[w] = "unborn" THEN 0 ELSE Delta[w] * Iterations
    <3>1. Delta[w] \in Int
      BY AppliedType DEF Inv
    <3>2. CASE pc[w] = "unborn"
      <4>1. Applied(w) = 0
        BY <3>2 DEF Inv, LoopInv, Applied
      <4> QED BY <3>1, <3>2, <4>1
    <3>3. CASE pc[w] = "done"
      <4>1. Applied(w) = Iterations
        BY <3>3, CountAssumption DEF Inv, LoopInv, Applied
      <4> QED BY <3>3, <4>1
    <3> QED BY <2>1, <3>2, <3>3
  <2>3. Total = StartedTotal
    BY <2>2 DEF Total, StartedTotal, OverWorkers
  <2> QED BY <2>3 DEF CounterIsTotal
<1> QED BY <1>1, Invariance, NoUpdateIsLost, PTL

\* The requirement of the demo, for every number of threads and iterations:
\* n incrementing and n decrementing workers leave 0.
THEOREM DemoReturnsZero == Spec => []BalancedRunReturnsZero
<1>1. ExitCodeIsBalance => BalancedRunReturnsZero
  <2> SUFFICES ASSUME ExitCodeIsBalance, exitCode # -1, Hooked = Worker, NInc = NDec,
                      \A w \in Worker : pc[w] # "unborn"
               PROVE  exitCode = 0
    BY DEF BalancedRunReturnsZero
  <2> DEFINE x == [w \in Worker |->
                     IF pc[w] = "unborn" THEN 0 ELSE Delta[w] * Iterations]
             c == Amount * Iterations
  <2>1. c \in Int /\ -c \in Int /\ (-Amount) * Iterations = -c
    BY CountAssumption
  <2>2. \A w \in Worker : x[w] = IF w <= NInc THEN c ELSE -c
    BY <2>1 DEF Delta
  <2>3. x \in [1 .. NInc + NInc -> Int]
    BY <2>1, <2>2 DEF Worker
  <2>4. SumTo(x, NInc + NInc) = 0
    <3> HIDE DEF x, c
    <3> QED BY <2>1, <2>2, <2>3, SumToBalanced, CountAssumption DEF Worker
  <2>5. StartedTotal = 0
    BY <2>4 DEF StartedTotal, OverWorkers
  <2> QED BY <2>5 DEF ExitCodeIsBalance
<1> QED BY <1>1, ExitCodeTellsBalance, PTL

------------------------------------------------------------------------------
(***************************************************************************)
(* Why the program ends.  Liveness itself is left to the model checker;    *)
(* what it rests on is proved here: no step can be repeated, because each  *)
(* one lowers StepsLeft, and nobody waits in vain, because until the       *)
(* program has halted main or some worker passes the guard it is at.       *)
(***************************************************************************)

\* At most this many steps are before a worker at p that has done n
\* iterations, which are four steps each.
WorkAt(p, n) ==
  LET whole == 4 * (Iterations - n)
  IN CASE p = "unborn" -> whole + 2
       [] p = "loop"   -> whole + 1
       [] p = "load"   -> whole
       [] p = "store"  -> whole - 1
       [] p = "unlock" -> whole - 2
       [] OTHER        -> 0

Work(w) == WorkAt(pc[w], i[w])

\* And this many before main, which creates and joins each worker once.
MainWork ==
  LET more == NInc + NDec - k
  IN CASE mpc = "create"  -> more + NInc + NDec + 4
       [] mpc = "join"    -> more + 4
       [] mpc = "destroy" -> 3
       [] mpc = "return"  -> 2
       [] OTHER           -> 0

WorkOf == [w \in Worker |-> Work(w)]

StepsLeft == MainWork + OverWorkers(WorkOf)

LEMMA WorkType == Inv => WorkOf \in [1 .. NInc + NDec -> Nat] /\ MainWork \in Nat
<1> SUFFICES ASSUME Inv
             PROVE  WorkOf \in [1 .. NInc + NDec -> Nat] /\ MainWork \in Nat
  OBVIOUS
<1> USE CountAssumption
<1>1. ASSUME NEW w \in Worker PROVE Work(w) \in Nat
  <2>1. i[w] \in 0 .. Iterations /\ pc[w] \in WorkerPC
    BY DEF Inv, TypeOK
  <2>2. InRegion(w) => i[w] < Iterations
    BY DEF Inv, LoopInv
  <2> QED BY <2>1, <2>2 DEF Work, WorkAt, WorkerPC, InRegion
<1>2. k \in 1 .. NInc + NDec
  BY DEF Inv, TypeOK, Worker
<1> QED BY <1>1, <1>2 DEF WorkOf, MainWork, Worker

LEMMA WorkTypeNext == (Inv => WorkOf \in [1 .. NInc + NDec -> Nat] /\ MainWork \in Nat)'
BY WorkType, PTL

\* A step of a worker takes something off its own work and nobody else's.
LEMMA WorkerWorks ==
  ASSUME Inv, NEW w \in Worker, Step(w)
  PROVE  /\ Work(w)' < Work(w)
         /\ \A v \in Worker : v # w => Work(v)' = Work(v)
         /\ UNCHANGED mainVars
<1>1. /\ i[w] \in 0 .. Iterations /\ i \in [Worker -> 0 .. Iterations]
      /\ pc \in [Worker -> WorkerPC] /\ Iterations \in Nat
      /\ InRegion(w) => i[w] < Iterations
  BY CountAssumption DEF Inv, TypeOK, LoopInv
<1> DEFINE Others ==
             /\ UNCHANGED mainVars
             /\ \A v \in Worker : v # w => pc'[v] = pc[v] /\ i'[v] = i[v]
           Turn(p, q, n) == pc[w] = p /\ pc'[w] = q /\ i'[w] = i[w] + n
<1>2. /\ Others
      /\ \/ Turn("loop", "load", 0) \/ Turn("load", "store", 0) \/ Turn("store", "unlock", 0)
         \/ Turn("unlock", "loop", 1) \/ Turn("loop", "done", 0)
  <2>1. CASE Lock(w)
    BY <1>1, <2>1 DEF Lock, mainVars
  <2>2. CASE Load(w)
    BY <1>1, <2>2 DEF Load, mainVars
  <2>3. CASE Store(w)
    BY <1>1, <2>3 DEF Store, mainVars
  <2>4. CASE Unlock(w)
    BY <1>1, <2>4 DEF Unlock, mainVars
  <2>5. CASE Finish(w)
    BY <1>1, <2>5 DEF Finish, mainVars
  <2> QED BY <2>1, <2>2, <2>3, <2>4, <2>5 DEF Step
<1>3. WorkAt(pc'[w], i'[w]) < WorkAt(pc[w], i[w])
  BY <1>1, <1>2 DEF WorkAt, InRegion
<1> QED BY <1>2, <1>3 DEF Work

\* A step of main takes something off its own work, and if it creates a
\* worker also off that one's.
LEMMA MainWorks ==
  ASSUME Inv, MainStep
  PROVE  /\ MainWork' < MainWork
         /\ \/ UNCHANGED <<pc, i>>
            \/ \E w \in Worker : /\ Work(w)' = Work(w) - 1
                                 /\ \A v \in Worker : v # w => Work(v)' = Work(v)
<1> USE CountAssumption
<1>1. k \in 1 .. NInc + NDec /\ k \in Worker
  BY DEF Inv, TypeOK, Worker
<1>2. CASE Create
  <2>1. PICK w \in Worker : w = k
    BY <1>1
  <2>2. /\ pc[w] = "unborn" /\ pc \in [Worker -> WorkerPC] /\ i[w] \in 0 .. Iterations
        /\ pc' = [pc EXCEPT ![w] = "loop"] /\ i' = i
    BY <1>1, <1>2, <2>1 DEF Inv, TypeOK, MainInv, Create
  <2>3. WorkAt(pc'[w], i'[w]) = WorkAt(pc[w], i[w]) - 1
    BY <2>2 DEF WorkAt
  <2>4. \A v \in Worker : v # w => pc'[v] = pc[v] /\ i'[v] = i[v]
    BY <2>2
  <2>5. MainWork' < MainWork
    BY <1>1, <1>2 DEF Create, Advance, MainWork
  <2> QED BY <2>3, <2>4, <2>5 DEF Work
<1>3. CASE CreateFailed
  BY <1>1, <1>3 DEF CreateFailed, Advance, MainWork, workerVars
<1>4. CASE Join
  BY <1>1, <1>4 DEF Join, Advance, MainWork, workerVars
<1>5. CASE JoinUndefined
  BY <1>1, <1>5 DEF JoinUndefined, Advance, MainWork, workerVars
<1>6. CASE DestroyMutex \/ Return
  BY <1>1, <1>6 DEF DestroyMutex, Return, MainWork, workerVars
<1> QED BY <1>2, <1>3, <1>4, <1>5, <1>6 DEF MainStep

LEMMA StepLowers ==
  ASSUME Inv, Next
  PROVE  StepsLeft' < StepsLeft \/ UNCHANGED vars
<1> DEFINE n == NInc + NDec
<1>1. n \in Nat /\ Inv'
  BY NextInv, CountAssumption
<1>2. /\ WorkOf \in [1 .. n -> Int] /\ MainWork \in Int
      /\ WorkOf' \in [1 .. n -> Int] /\ MainWork' \in Int
  <2>1. (WorkOf \in [1 .. n -> Nat] /\ MainWork \in Nat)'
    BY <1>1, WorkTypeNext
  <2> QED BY <2>1, WorkType
<1>3. SumTo(WorkOf, n) \in Int /\ SumTo(WorkOf', n) \in Int
  BY <1>1, <1>2, SumToType
<1>4. ASSUME NEW w \in Worker, NEW d \in Int, Work(w)' = Work(w) + d,
             \A v \in Worker : v # w => Work(v)' = Work(v)
      PROVE  SumTo(WorkOf', n) = SumTo(WorkOf, n) + d
  <2>1. w \in 1 .. n /\ WorkOf'[w] = WorkOf[w] + d
    BY <1>4 DEF WorkOf, Worker
  <2>2. \A m \in 1 .. n : m # w => WorkOf'[m] = WorkOf[m]
    BY <1>4 DEF WorkOf, Worker
  <2> HIDE DEF n
  <2> QED BY <1>1, <1>2, <2>1, <2>2, SumToUpdate
<1>5. CASE \E w \in Worker : Step(w)
  <2>1. PICK w \in Worker : Step(w)
    BY <1>5
  <2>2. /\ Work(w)' < Work(w) /\ UNCHANGED mainVars
        /\ \A v \in Worker : v # w => Work(v)' = Work(v)
    BY <2>1, WorkerWorks
  <2>3. Work(w) \in Int /\ Work(w)' \in Int
    BY <1>2, <2>1 DEF WorkOf, Worker
  <2> DEFINE d == Work(w)' - Work(w)
  <2>4. d \in Int /\ d < 0 /\ Work(w)' = Work(w) + d
    BY <2>2, <2>3
  <2> HIDE DEF d
  <2>5. SumTo(WorkOf', n) = SumTo(WorkOf, n) + d
    BY <1>4, <2>2, <2>4
  <2>6. MainWork' = MainWork
    BY <2>2 DEF MainWork, mainVars
  <2> QED BY <1>2, <1>3, <2>4, <2>5, <2>6 DEF StepsLeft, OverWorkers
<1>6. CASE MainStep
  <2>1. MainWork' < MainWork
    BY <1>6, MainWorks
  <2>2. CASE UNCHANGED <<pc, i>>
    <3>1. WorkOf' = WorkOf
      BY <2>2 DEF WorkOf, Work
    <3> QED BY <1>2, <1>3, <2>1, <3>1 DEF StepsLeft, OverWorkers
  <2>3. ASSUME NEW w \in Worker, Work(w)' = Work(w) - 1,
               \A v \in Worker : v # w => Work(v)' = Work(v)
        PROVE  StepsLeft' < StepsLeft
    <3>1. Work(w) \in Int
      BY <1>2 DEF WorkOf, Worker
    <3>2. Work(w)' = Work(w) + (-1)
      BY <2>3, <3>1
    <3>3. SumTo(WorkOf', n) = SumTo(WorkOf, n) + (-1)
      BY <1>4, <2>3, <3>2
    <3> QED BY <1>2, <1>3, <2>1, <3>3 DEF StepsLeft, OverWorkers
  <2> QED BY <1>6, <2>2, <2>3, MainWorks
<1> QED BY <1>5, <1>6 DEF Next, Terminating

\* No schedule goes on for ever: every step lowers a natural number, whatever
\* the threads, the iterations, the hooks and the failures of pthread_create.
THEOREM StepsRunOut == Spec => [](StepsLeft \in Nat) /\ [][StepsLeft' < StepsLeft]_vars
<1>1. Inv => StepsLeft \in Nat
  <2> SUFFICES ASSUME Inv PROVE StepsLeft \in Nat
    OBVIOUS
  <2>1. SumTo(WorkOf, NInc + NDec) \in Nat
    BY WorkType, SumToNat, CountAssumption
  <2> QED BY <2>1, WorkType DEF StepsLeft, OverWorkers
<1>2. Inv /\ [Next]_vars => [StepsLeft' < StepsLeft]_vars
  BY StepLowers
<1> QED BY <1>1, <1>2, Invariance, PTL DEF Spec

\* What a worker and main need to go on: the guards of their actions.
WorkerGoes(w) ==
  \/ InRegion(w)
  \/ pc[w] = "loop" /\ ((HasMore(w) /\ w \in Hooked) => owner = Free)

MainGoes ==
  \/ mpc \in {"create", "destroy", "return"}
  \/ mpc = "join" /\ pc[k] \in {"unborn", "done"}

\* Only workers with the hooks ever own the mutex.
OwnerIsHooked == owner \in Hooked \cup {Free, Destroyed}

LEMMA OwnerHooked == Spec => []OwnerIsHooked
<1>1. Init => OwnerIsHooked
  BY DEF Init, OwnerIsHooked
<1>2. OwnerIsHooked /\ [Next]_vars => OwnerIsHooked'
  <2> SUFFICES ASSUME OwnerIsHooked, [Next]_vars PROVE OwnerIsHooked'
    OBVIOUS
  <2>1. ASSUME NEW w \in Worker, Step(w) PROVE OwnerIsHooked'
    BY <2>1 DEF Step, Lock, Load, Store, Unlock, Finish, Acquire, Release, OwnerIsHooked
  <2>2. CASE MainStep
    BY <2>2 DEF MainStep, Create, CreateFailed, Join, JoinUndefined, DestroyMutex,
                Return, workerVars, OwnerIsHooked
  <2>3. CASE UNCHANGED vars
    BY <2>3 DEF vars, OwnerIsHooked
  <2> QED BY <2>1, <2>2, <2>3 DEF Next, Terminating
<1> QED BY <1>1, <1>2, PTL DEF Spec

\* Nobody waits in vain: until the program has halted some thread can go on.
\* The mutex is never owned by a thread that is not inside its region, so one
\* that waits for it waits for a thread that can move.
THEOREM SomebodyGoes == Spec => [](~Halted => MainGoes \/ \E w \in Worker : WorkerGoes(w))
<1>1. Inv /\ OwnerIsHooked => (~Halted => MainGoes \/ \E w \in Worker : WorkerGoes(w))
  <2> SUFFICES ASSUME Inv, OwnerIsHooked, ~Halted, ~MainGoes
               PROVE  \E w \in Worker : WorkerGoes(w)
    OBVIOUS
  <2>1. mpc \in {"join", "stuck"} /\ owner # Destroyed
    BY DEF Inv, TypeOK, MainPC, MainInv, MainGoes, Halted, Ended
  <2>2. PICK w \in Worker : pc[w] \notin {"unborn", "done"}
    BY <2>1 DEF Inv, TypeOK, MainGoes, Halted
  <2>3. InRegion(w) \/ pc[w] = "loop"
    BY <2>2 DEF Inv, TypeOK, WorkerPC, InRegion
  <2>4. CASE owner = Free
    BY <2>3, <2>4 DEF WorkerGoes
  <2>5. CASE owner # Free
    <3>1. owner \in Hooked
      BY <2>1, <2>5 DEF OwnerIsHooked
    <3>2. owner \in Worker /\ InRegion(owner)
      BY <3>1, HookAssumption DEF Inv, LockPaired
    <3> QED BY <3>2 DEF WorkerGoes
  <2> QED BY <2>4, <2>5
<1> QED BY <1>1, Invariance, OwnerHooked, PTL

------------------------------------------------------------------------------
(***************************************************************************)
(* Programs in which some workers were compiled without the hooks.         *)
(***************************************************************************)

LEMMA RaceStep == [RaceNext]_raceVars => [Next]_vars
BY DEF RaceNext, raceVars

LEMMA RaceInvariance == RaceSpec => []Inv
BY InitInv, NextInv, RaceStep, PTL DEF RaceSpec, RaceInit

\* Hooked workers are never overtaken by each other, whatever the others do.
THEOREM HooksExclude == RaceSpec => []OvertakenNeedsNoHook
<1>1. RaceInit => OvertakenNeedsNoHook
  BY DEF RaceInit, OvertakenNeedsNoHook
<1>2. Inv /\ OvertakenNeedsNoHook /\ [RaceNext]_raceVars => OvertakenNeedsNoHook'
  <2> SUFFICES ASSUME Inv, OvertakenNeedsNoHook, RaceNext, NEW p \in overtaken',
                      p[1] \in Hooked, p[2] \in Hooked
               PROVE  FALSE
    BY DEF OvertakenNeedsNoHook, raceVars
  <2>1. p \notin overtaken
    BY DEF OvertakenNeedsNoHook
  <2>2. p[1] # p[2] /\ pc[p[1]] = "store" /\ pc[p[2]] = "store"
    BY <2>1 DEF RaceNext, Stores
  <2> QED BY <2>2 DEF Inv, LockPaired, InRegion
<1> QED BY <1>1, <1>2, RaceInvariance, PTL DEF RaceSpec

\* Without a race, every value loaded is current and the counter exact.
NoRaceNoDrift ==
  overtaken = {} =>
    counter = Total /\ \A w \in Worker : pc[w] = "store" => reg[w] = counter

\* The counter drifts only after a handler was overtaken, for any mixture of
\* workers with and without hooks.
THEOREM DriftsNeedRaces == RaceSpec => []DriftNeedsRace
<1>1. Init => counter = Total
  BY TotalInit
<1>2. RaceInit => NoRaceNoDrift
  BY <1>1 DEF RaceInit, Init, NoRaceNoDrift
<1>3. Inv /\ NoRaceNoDrift /\ [RaceNext]_raceVars => NoRaceNoDrift'
  <2> SUFFICES ASSUME Inv, NoRaceNoDrift, [RaceNext]_raceVars, overtaken' = {}
               PROVE  /\ counter' = Total'
                      /\ \A w \in Worker : pc'[w] = "store" => reg'[w] = counter'
    BY DEF NoRaceNoDrift
  <2>1. overtaken = {} /\ [Next]_vars
    BY RaceStep DEF RaceNext, raceVars
  <2>2. counter = Total /\ \A w \in Worker : pc[w] = "store" => reg[w] = counter
    BY <2>1 DEF NoRaceNoDrift
  <2>3. counter' = Total'
    BY <2>1, <2>2, TotalStep
  <2>4. ASSUME NEW w \in Worker, pc'[w] = "store" PROVE reg'[w] = counter'
    <3>1. CASE counter' = counter
      BY <2>1, <2>2, <2>4, <3>1, LoadedStep DEF Inv
    <3>2. CASE counter' # counter
      <4>1. PICK v \in Worker : pc[v] = "store" /\ pc'[v] = "unlock"
        BY <2>1, <3>2, AppliedStep
      <4>2. RaceNext /\ pc[w] = "store" /\ v # w
        BY <2>1, <2>4, <3>2, <4>1, LoadedStep DEF Inv, raceVars, vars
      <4> DEFINE p == <<w, v>>
      <4>3. p \in Worker \X Worker /\ p[1] = w /\ p[2] = v
        OBVIOUS
      <4> HIDE DEF p
      <4>4. p \in overtaken'
        BY <4>1, <4>2, <4>3 DEF RaceNext, Stores
      <4> QED BY <4>4
    <3> QED BY <3>1, <3>2
  <2> QED BY <2>3, <2>4
<1>4. NoRaceNoDrift => DriftNeedsRace
  BY DEF NoRaceNoDrift, DriftNeedsRace
<1> QED BY <1>2, <1>3, <1>4, RaceInvariance, PTL DEF RaceSpec

------------------------------------------------------------------------------
(***************************************************************************)
(* How far races can take the counter: a value loaded lies within the      *)
(* commands applied when it was loaded, and those only become more.        *)
(***************************************************************************)

\* The summands of the two bounds.
Ups == [w \in Worker |-> IF w <= NInc THEN Amount * Applied(w) ELSE 0]
Downs == [w \in Worker |-> IF w > NInc THEN Amount * Applied(w) ELSE 0]

Within(x) == x <= OverWorkers(Ups) /\ x >= -OverWorkers(Downs)

AllWithin ==
  /\ Within(counter)
  /\ \A w \in Worker : pc[w] = "store" => Within(reg[w])

\* The bounds are integers.
LEMMA BoundsType ==
  ASSUME TypeOK
  PROVE  /\ Ups \in [1 .. NInc + NDec -> Int] /\ Downs \in [1 .. NInc + NDec -> Int]
         /\ OverWorkers(Ups) \in Int /\ OverWorkers(Downs) \in Int
<1>1. \A w \in Worker : Amount * Applied(w) \in Int
  <2> TAKE w \in Worker
  <2>1. Applied(w) \in Nat
    BY AppliedType
  <2> QED BY <2>1, CountAssumption
<1>2. Ups \in [1 .. NInc + NDec -> Int] /\ Downs \in [1 .. NInc + NDec -> Int]
  BY <1>1 DEF Ups, Downs, Worker
<1> QED BY <1>2, SumToType, CountAssumption DEF OverWorkers

\* Applying a command of w moves one bound by the amount and keeps the other.
LEMMA BoundsStep ==
  ASSUME TypeOK, TypeOK', NEW w \in Worker,
         Applied(w)' = Applied(w) + 1,
         \A v \in Worker : v # w => Applied(v)' = Applied(v)
  PROVE  /\ OverWorkers(Ups)' = OverWorkers(Ups) + IF w <= NInc THEN Amount ELSE 0
         /\ OverWorkers(Downs)' = OverWorkers(Downs) + IF w > NInc THEN Amount ELSE 0
<1>1. /\ Ups \in [1 .. NInc + NDec -> Int] /\ Downs \in [1 .. NInc + NDec -> Int]
      /\ Ups' \in [1 .. NInc + NDec -> Int] /\ Downs' \in [1 .. NInc + NDec -> Int]
  <2>1. \A v \in Worker : Amount * Applied(v)' \in Int
    <3> TAKE v \in Worker
    <3>1. Applied(v)' \in Nat
      BY CountAssumption DEF TypeOK, Applied
    <3> QED BY <3>1, CountAssumption
  <2>2. Ups' \in [1 .. NInc + NDec -> Int] /\ Downs' \in [1 .. NInc + NDec -> Int]
    BY <2>1 DEF Ups, Downs, Worker
  <2> QED BY <2>2, BoundsType
<1>2. Amount * (Applied(w) + 1) = Amount * Applied(w) + Amount
  <2>1. Applied(w) \in Nat
    BY AppliedType
  <2> QED BY <2>1, CountAssumption
<1>3. /\ Ups'[w] = Ups[w] + IF w <= NInc THEN Amount ELSE 0
      /\ Downs'[w] = Downs[w] + IF w > NInc THEN Amount ELSE 0
  BY <1>2, CountAssumption DEF Ups, Downs, Worker
<1>4. \A v \in Worker : v # w => Ups'[v] = Ups[v] /\ Downs'[v] = Downs[v]
  BY DEF Ups, Downs
<1>5. w \in 1 .. NInc + NDec /\ NInc + NDec \in Nat /\ Amount \in Int
  BY CountAssumption DEF Worker
<1>6. SumTo(Ups', NInc + NDec) = SumTo(Ups, NInc + NDec) + IF w <= NInc THEN Amount ELSE 0
  <2> DEFINE d == IF w <= NInc THEN Amount ELSE 0
  <2>1. d \in Int
    BY <1>5
  <2> HIDE DEF d
  <2> SUFFICES SumTo(Ups', NInc + NDec) = SumTo(Ups, NInc + NDec) + d
    BY DEF d
  <2>2. Ups'[w] = Ups[w] + d
    BY <1>3 DEF d
  <2> QED BY <1>1, <1>4, <1>5, <2>1, <2>2, SumToUpdate DEF Worker
<1>7. SumTo(Downs', NInc + NDec) = SumTo(Downs, NInc + NDec) + IF w > NInc THEN Amount ELSE 0
  <2> DEFINE d == IF w > NInc THEN Amount ELSE 0
  <2>1. d \in Int
    BY <1>5
  <2> HIDE DEF d
  <2> SUFFICES SumTo(Downs', NInc + NDec) = SumTo(Downs, NInc + NDec) + d
    BY DEF d
  <2>2. Downs'[w] = Downs[w] + d
    BY <1>3 DEF d
  <2> QED BY <1>1, <1>4, <1>5, <2>1, <2>2, SumToUpdate DEF Worker
<1> QED BY <1>6, <1>7 DEF OverWorkers

LEMMA WithinStep ==
  ASSUME Amount >= 0, Inv, AllWithin, [Next]_vars PROVE AllWithin'
<1>0. TypeOK /\ TypeOK'
  BY NextInv DEF Inv
<1>1. CASE counter' = counter /\ \A w \in Worker : Applied(w)' = Applied(w)
  <2>1. Ups' = Ups /\ Downs' = Downs
    BY <1>1 DEF Ups, Downs
  <2>3. OverWorkers(Ups)' = OverWorkers(Ups) /\ OverWorkers(Downs)' = OverWorkers(Downs)
    BY <2>1 DEF OverWorkers
  <2>4. ASSUME NEW w \in Worker, pc'[w] = "store"
        PROVE  reg'[w] <= OverWorkers(Ups) /\ reg'[w] >= -OverWorkers(Downs)
    BY <1>0, <2>4, LoadedStep DEF AllWithin, Within
  <2> QED BY <1>1, <2>3, <2>4 DEF AllWithin, Within
<1>2. ASSUME NEW w \in Worker,
             counter' = reg[w] + Delta[w], pc[w] = "store", pc'[w] = "unlock",
             Applied(w)' = Applied(w) + 1,
             \A v \in Worker : v # w => Applied(v)' = Applied(v)
      PROVE  AllWithin'
  <2> DEFINE U == OverWorkers(Ups)
             D == OverWorkers(Downs)
  <2>1. /\ U' = U + IF w <= NInc THEN Amount ELSE 0
        /\ D' = D + IF w > NInc THEN Amount ELSE 0
    BY <1>0, <1>2, BoundsStep
  <2>2. /\ U \in Int /\ D \in Int /\ Amount \in Nat /\ NInc \in Nat /\ w \in Nat
        /\ counter \in Int /\ counter' \in Int
        /\ reg \in [Worker -> Int] /\ reg' \in [Worker -> Int]
    <3>1. U \in Int /\ D \in Int
      BY <1>0, BoundsType
    <3>2. Amount \in Nat /\ NInc \in Nat /\ w \in Nat
      BY CountAssumption DEF Worker
    <3> QED BY <1>0, <3>1, <3>2 DEF TypeOK
  <2>3. Delta[w] = IF w <= NInc THEN Amount ELSE -Amount
    BY DEF Delta
  <2>4. /\ counter <= U /\ counter >= -D
        /\ \A v \in Worker : pc[v] = "store" => reg[v] <= U /\ reg[v] >= -D
    BY DEF AllWithin, Within
  <2>5. \A v \in Worker : pc'[v] = "store" =>
          (pc[v] = "store" /\ reg'[v] = reg[v]) \/ reg'[v] = counter
    BY <1>0, LoadedStep
  <2> HIDE DEF U, D
  <2>6. counter' <= U' /\ counter' >= -(D')
    BY <1>2, <2>1, <2>2, <2>3, <2>4
  <2>7. \A v \in Worker : pc'[v] = "store" => reg'[v] <= U' /\ reg'[v] >= -(D')
    BY <2>1, <2>2, <2>4, <2>5
  <2> QED BY <2>6, <2>7 DEF AllWithin, Within, U, D
<1> QED BY <1>1, <1>2, AppliedStep

Bounded == Amount >= 0 => AllWithin

\* Even without any lock races lose updates but never invent one.
THEOREM RacesInventNothing == Spec => []CounterWithinCommands
<1>1. Init => Bounded
  <2> SUFFICES ASSUME Init PROVE AllWithin
    BY DEF Bounded
  <2>1. TypeOK /\ \A w \in Worker : Applied(w) = 0
    BY InitInv DEF Inv, Init, Applied
  <2>2. Amount * 0 = 0
    BY CountAssumption
  <2>3. \A w \in 1 .. NInc + NDec : Ups[w] = 0 /\ Downs[w] = 0
    BY <2>1, <2>2 DEF Ups, Downs, Worker
  <2>4. OverWorkers(Ups) = 0 /\ OverWorkers(Downs) = 0
    BY <2>1, <2>3, BoundsType, SumToZero, CountAssumption DEF OverWorkers
  <2> QED BY <2>4 DEF AllWithin, Within, Init
<1>2. Inv /\ Bounded /\ [Next]_vars => Bounded'
  BY WithinStep DEF Bounded
<1>3. Bounded => CounterWithinCommands
  BY DEF Bounded, AllWithin, Within, CounterWithinCommands, Ups, Downs
<1> QED BY <1>1, <1>2, <1>3, Invariance, PTL DEF Spec

==============================================================================
