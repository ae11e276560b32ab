---------------------------- MODULE DispatchRaces ----------------------------
(***************************************************************************)
(* ThreadsafeDispatch with a history of the races between handlers.  The   *)
(* hooks are chosen per translation unit, so a program may mix workers     *)
(* that lock with workers that do not; the history says which handlers     *)
(* another worker's write has overtaken between their load and their       *)
(* store.  It only observes: every behaviour of Spec is kept.              *)
(***************************************************************************)
EXTENDS ThreadsafeDispatch

VARIABLE overtaken   \* pairs <<w, v>>: v stored while w held a loaded value

raceVars == <<vars, overtaken>>

RaceInit == Init /\ overtaken = {}

Stores(v) == pc[v] = "store" /\ pc'[v] = "unlock"

RaceNext ==
  /\ Next
  /\ overtaken' = overtaken \cup
       {p \in Worker \X Worker :
          p[1] # p[2] /\ pc[p[1]] = "store" /\ Stores(p[2])}

RaceSpec == RaceInit /\ [][RaceNext]_raceVars

\* A handler is overtaken only if it or its overtaker was compiled without
\* the hooks: among hooked workers the lock keeps the promise of exclusion
\* even in a program where some translation unit forgot them, but one unit
\* without hooks is enough to race with every other.
OvertakenNeedsNoHook ==
  \A p \in overtaken : ~({p[1], p[2]} \subseteq Hooked)

\* The counter drifts away from the commands applied only through such a
\* race: nothing else in dispatch or in the handlers loses an update.
DriftNeedsRace == counter # Total => overtaken # {}

==============================================================================
