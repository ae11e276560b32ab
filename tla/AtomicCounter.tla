---------------------------- MODULE AtomicCounter ----------------------------
(***************************************************************************)
(* What a locked dispatch promises the telemetry counter: every command of *)
(* every worker is applied to the shared counter exactly once and in one   *)
(* indivisible step, in some order.                                        *)
(*                                                                         *)
(* This is the abstract specification; ThreadsafeDispatch, which has the   *)
(* mutex, the read-modify-write and the main thread of                     *)
(* src/examples/threadsafe_dispatch_demo.c, implements it.                 *)
(***************************************************************************)
EXTENDS Integers

CONSTANTS Worker,      \* the worker threads
          Iterations,  \* dispatches each worker issues (ITER_PER_THREAD)
          Delta        \* what one command of a worker adds to the counter

VARIABLES value,       \* the shared counter
          remaining    \* commands a worker has still to apply

vars == <<value, remaining>>

Init ==
  /\ value = 0
  /\ remaining = [w \in Worker |-> Iterations]

\* One command of worker w takes effect.
Apply(w) ==
  /\ remaining[w] > 0
  /\ value' = value + Delta[w]
  /\ remaining' = [remaining EXCEPT ![w] = @ - 1]

Next == \E w \in Worker : Apply(w)

Spec == Init /\ [][Next]_vars

==============================================================================
