# Verification of GenericSumType-C

GenericSumType-C is a header, `src/include/generic_sum_type.h`, whose macros
generate tagged unions and the functions that work on them, with a set of
example programs. This directory holds TLA+ models of the header and of the
examples that have state, TLC configurations that check them on small
instances, and TLAPS proofs for every value of the constants.

Contents: [system](#the-system), [modules](#modules-and-the-code),
[runs](#runs), [fairness](#fairness), [proofs](#proofs),
[what is only model-checked](#only-model-checked), [not modelled](#not-modelled),
[disagreements](#where-code-and-comments-disagree), [plan](#plan).

To run: `tlc -config X.cfg M` with the module that the table of runs names,
`tlapm M.tla` for the modules whose name ends in `Proofs` and for `SumTheorems`.

## The system

| Component | Source | State | Operations |
|---|---|---|---|
| Sum type values | header, `DEFINE_SUM_TYPE`, `_MATCH`, `_COPY` | a tag and a union | constructors, getters (which return a pointer into the union), match, copy |
| Dispatch | header, `DEFINE_SUM_DISPATCH`, lock hooks | the caller's `ctx`, behind an optional lock | LOCK, the switch, a user's handler, UNLOCK |
| Destroy and copy | header, `resource_demo.c`, `cbmc_destroy_harness.c` | heap blocks and the records that point to them | `strdup`, `free`, plain assignment |
| Variant list | header, `test_compile_guarantees.sh` | the list in the header, the object files | editing the list, compiling a unit |
| Telemetry counter | `threadsafe_dispatch_demo.c` | the counter, its mutex, eight threads and `main` | increment and decrement commands, create, join, destroy |
| Recipe store | `recipe_command.h`, `recipe_param_demo.c` | named slots, the selected number, the last answer | create, delete, select, query |
| Device | `internal_command.h` | six fields of `LaserDeviceState` | six commands |
| Protocol frames | `protocol_frame.h` | none beyond a call | classify a line, show a frame, compute a checksum |
| Result and Either idioms | header, `result_demo.c`, `either_demo.c` | an order or an error; a hit or a miss | `and_then`, `unwrap_or`, stock check, fold; look-up, value or fetch |

How they interact: an application puts a command into a sum type value; a
dispatch locks the context, hands the payload to the handler that stands at the
position of the tag in the argument list, and unlocks. Handlers are callbacks
of the application: they may write the payload and the context, and may
dispatch again while the lock is held. The three command examples are layers of
one device (frames, internal commands, parameter store), but in this repository
each is driven by its own demo and they share no state.

What is hard to test in this code:

* *Concurrency.* A handler is a read-modify-write, atomic only under the hooks,
  and the hooks are chosen by `#ifndef` in each translation unit.
* *Re-entry.* The lock region holds the whole handler, so handlers that
  dispatch can deadlock with themselves or with each other, and a recursive
  mutex lets a nested dispatch change the context under its caller, who then
  overwrites what it did.
* *Pairing.* No path through the switch may miss the unlock: not a case, not a
  tag without a case.
* *Failure.* `pthread_create` and `strdup` are not checked.
* *Pointers that outlive what they point to.* Getter pointers kept over an
  assignment, records assigned with `=`, records destroyed twice or never.
* *Long sequences of legal commands*, which must not lead to a selection that
  does not exist, to an unterminated name or to a stale answer taken for a
  current one.
* *Boundaries.* Slot numbers, names and fields that fill their array, an
  accumulator that wraps, error numbers with a sign, with no digit or with too
  many.
* *Errors taken for values.* Error and order, key and value share a union, and a
  failed order that is unwrapped is an order again.
* *Stale object files.* Tags are positions in a list that may since have changed.

`PROJECT.json` lists each of them at its line, with the properties about it.

## Modules and the code

**ThreadsafeDispatch** (with **AtomicCounter**, **DispatchRaces**, **Sums**) is
`threadsafe_dispatch_demo.c` on `DEFINE_SUM_DISPATCH`. One iteration of a worker
is `Lock`, `Load`, `Store`, `Unlock`: LOCK with the switch, the read and the
write of `ctx->counter += amount`, and `break` with UNLOCK. `Hooked` is the set of
workers compiled with the pthread hooks; for the others LOCK and UNLOCK do
nothing. The build in `ci.yml` gives no `-O` option, so a worker without hooks
also reads and writes the counter in memory for every command; what an
optimiser could make of that race is not modelled. `main` creates the threads in order,
ignores failures of `pthread_create`, joins, destroys the mutex and returns
`counter == 0`. Joining a handle that was never initialised is undefined; the
model lets it return an error, crash the program or block for ever. `AtomicCounter` is the
abstract specification: each command takes effect once, in one step.
`DispatchRaces` adds a history of overtaken handlers and constrains nothing.

**ReentrantDispatch** is the header's dispatch for any threads, contexts, locks
(none, normal or recursive) and handlers that may dispatch once more before they
store. A thread is a stack of activations. `valid` says whether a case matches
the tag; without one the switch falls through to UNLOCK (header lines 108-109).
The call graph, the number of threads and the depth are constants; `handled` is a
history that counts the handlers run to their end, without those that ran inside
another one on the same context (`Reentered`): the outer one overwrites what they wrote.

**SumType** is a set of variables of a sum type. `member` is the union member
written last, which C does not record. The program may keep any pointer a
getter has returned, write through it at any later time, and write the tag by hand.
`misused` marks the variables where that went against the tag.

**OwnedRecords** is `LogRecord`: variables, heap blocks that are reused after
`free`, `strdup` that may fail, `LogRecord_copy`, plain assignment and
`LogRecord_destroy`, in any order a program may choose, records that are copied,
assigned or destroyed again after they were destroyed, or leave their scope undestroyed,
included. `Clears = TRUE` is `destroy_text` of the demo, which prints the string, frees it and
clears the pointer; `FALSE` that of the CBMC harness, which only frees. Behaviours end at
the first undefined operation (`fault`): a string that is copied, printed or freed
after its block was, `strdup(NULL)`, or `printf` of NULL with `%s`. That last one C libraries
let pass, so the model has both, and what a second destroy does then is covered too.

**VariantList** is a list that is edited while translation units are compiled
against it one by one; what the compiler accepts (the number of arguments, their
types under `-Werror`, `_Generic`) is what `test_compile_guarantees.sh` tests. A
rejected compilation changes nothing, so the old object file is used. `Outcome` is what each
generated function of a unit does with a tag made in another one: the handler in its
place, or, without a case, a plain return of dispatch and destroy and the undefined
SUM_UNREACHABLE of match and copy. `behind` is a history: the units not compiled since the list was last
changed in another way than by appending. Of those nothing is claimed, since a
tag means something else there.

**RecipeStore** is `recipe_command.h`, one action for each handler and `Refuse` for
the answers "NG". `Put` writes one slot; written at a number outside the array it leaves an
index there that the type invariant forbids, as a write out of bounds. Names are byte arrays: `Stored` is `strncpy` with its padding
and the terminator put by hand, `Delete` clears the first byte only.
**RecipeBook** is what the store promises: numbered titles and a selection.

**InternalCommand** is `internal_command.h`, one action for each handler, with a log
of the commands. **ProtocolFrame** is `classify_line`, `ng_error_name` and
`Frame_describe`: lines are sequences over any set of characters, fields are cut to
leave room for the terminator, and `Scanned` is `sscanf` with `%3d`: it skips what
`isspace` accepts (`Blank`), then reads at most three characters, of which the first may
be a sign. **Checksum** is the loop of `compute_checksum` with `char` signed or unsigned, an
accumulator of any width and the two digits of `format_checksum_hex`.

**Idioms** is the two idioms of the header in their demos. A value is a tag and a
word, since both variants of each type keep one number at the start of the union.
`AndThen` applies any function of the program or `check_stock`, `Unwrap` goes on with the
order that `unwrap_or` returns, order 0 for a failed one; `asked` and `ran` are histories
of what was passed to `and_then` and what that really called. `CacheGet` and `ValueOrFetch`
are a round of the loop in `either_demo.c`. The program around the calls is the model's:
the demo makes each of them once.

Operators named `X_Something` next to an `X` are faults, used only to show that
the properties notice them.

## Runs

| Run | Module, configuration | Shows |
|---|---|---|
| locked | MCThreadsafeDispatch, ThreadsafeDispatch_locked | hooks in every unit, `pthread_create` may fail: the counter is the sum of the commands applied, the mutex outlives its users, the exit code tells the balance of the threads that ran, the program ends, dispatch refines AtomicCounter |
| mixed | MCDispatchRaces, DispatchRaces_mixed | one unit without hooks: LOCK and UNLOCK stay paired among the others, drift needs a race with the one, races lose updates but invent none |
| nested | MCReentrantDispatch, ReentrantDispatch_nested | handlers that dispatch back and forth between a recursive and a plain mutex and on to a third: pairing over nesting, no update lost to another thread and to re-entry only those of the handlers inside others, the program ends or stops in a circle of waiting threads, never because a lock was left behind; waiting for oneself is for ever |
| sumtype | SumType, SumType_any | tag and member agree, handlers read what was written, SUM_UNREACHABLE is not reached within a unit, unless misused |
| owned | OwnedRecords, OwnedRecords_any | one owner for each block; a use after free, a leak and a NULL taken for a string each need their own cause: `=`, a record left undestroyed, a failed `strdup` or a record used after it was destroyed |
| units | MCVariantList, VariantList_units | among units compiled since the last edit that did not append: payload and handler types fit, tags find their own handlers, SUM_UNREACHABLE is reached only in a unit that is out of date, a value of SUM_NEW reaches a handler of its type |
| recipes | RecipeStore, RecipeStore | the selection exists, names are terminated and hold no residue, stale answers were replaced, the store refines RecipeBook |
| device | MCInternalCommand, InternalCommand_any | printing, running and guide light are where their own last accepted command left them |
| device_stop | MCInternalCommand, InternalCommand_stop | *violation*: print_stop does not depend on running |
| checksum | MCChecksum, Checksum | the digits are the true sum modulo 256, any single wrong byte shows |
| lines | MCProtocolFrame, ProtocolFrame_lines | fields fit, error numbers of three digits are read, each line gets its handler, and the handler sees the line: requests can be written again from their fields unless they are too long for them |
| idioms | MCIdioms, Idioms | a chain of `and_then` stops at the first error and keeps it, no failed order is sold, hit and miss resolve alike |

Bounds, and why they are enough:

* *locked*: 2 + 2 workers (the demo has 4 + 4), 2 iterations (it has 100000):
  two workers of each kind race with the same and with the other kind, and two
  iterations let one overtake another by a whole dispatch. *mixed*: 2 + 1
  workers, one without hooks, so that two are left to exclude each other.
  The proofs lift both numbers.
* *nested*: 3 threads, 3 contexts, one dispatch each and 4 activations deep: the
  recursive lock is taken twice with another between, so that a handler re-enters the context of one that is updating it, circles of one and of two threads
  occur with a third thread outside them, and so do runs that finish. The proofs lift
  all of it.
* *sumtype*: 2 variables and 2 variants; no operation involves more than two.
* *owned*: 3 variables, 3 blocks: two share a block while the third reuses it. The
  proofs lift both.
* *units*: 2 units, 3 variants of which two share a type; lists of up to 3, so that every order,
  every insertion and every extension of one is an edit. The proofs lift all three.
* *recipes*: 3 slots, names of 3 bytes over 2 letters: shorter, equal and longer
  than the array leaves room for, and numbers from -1 to 3. The proofs lift both.
* *device*: 4 commands, payloads from -1 to 3. Every field depends on at most two commands.
  The proof lifts both.
* *checksum*: lines of up to 4 of 8 values of a signed `char`, among them both ends and
  both sides of 0, a word of 9 bits that wraps once. The
  proof lifts all three.
* *lines*: 3, 3 and 5 bytes for the fields where the code has 8, 64 and 64; seven
  beginnings, tails of up to four characters, so that each field is empty, full
  and cut; error numbers with blanks and signs before them are among the tails. The proofs
  lift all of it.
* *idioms*: orders 0 to 8, so that 0 and 7 are out of stock and the kinds of error 1
  and 2 are orders too; three calls, so that there is one before and one after an
  error; a payment that may be declined and a renumbering; keys -3 to 3. The proofs lift
  the length of a chain, the functions and the keys.

Deadlock is checked in *locked*, *mixed*, *recipes*, *units* and *idioms*. In the others the
program may stop: a deadlock that the run is about, undefined behaviour, or
the end of a bounded input.

Runs check the type invariants of ThreadsafeDispatch, RecipeStore and ProtocolFrame.
Those of ReentrantDispatch, OwnedRecords, SumType, Checksum and VariantList are part of
the inductive invariants that are proved.

## Fairness

Only *locked* and *nested* use fairness: `WF` of the steps of each thread, that
is, the operating system schedules every thread again and again. Nothing is assumed
of the order in which a mutex is handed over, so strong fairness would not be
justified. It is not needed either: a worker that waits for the mutex while
others pass it gets it at the latest when they have run out of iterations, which
are finitely many. In *nested* the same argument gives less: every program ends or
stops in a circle of waiting threads (`FinishesOrCircles`). Without fairness nothing has to end, and the other runs claim nothing of the kind.

## Proofs

| Module | Theorems |
|---|---|
| ThreadsafeDispatchProofs | TypeCorrect, LocksArePaired, Exclusion, MutexOutlives, NoUpdateIsLost, LockedDispatchIsAtomic, ExitCodeTellsBalance, DemoReturnsZero, RacesInventNothing, StepsRunOut, SomebodyGoes; of DispatchRaces: HooksExclude, DriftsNeedRaces |
| ReentrantDispatchProofs | TypeCorrect, LocksMatch, StopsInCircles, SelfDeadlocksAreFinal, LockOrderPreventsCircles, LockOrderPreventsDeadlock, UpdatesLostToReentryOnly, DispatchesRunOut |
| OwnedRecordsProofs | TypeCorrect, NoUseAfterFree, NullTraced, NoLeak, OneOwnerEach |
| CommandProofs | of RecipeStore: TypeCorrect, SelectionIsSafe, NamesAreStrings, StaleAnswers, NothingLeaksThrough, ImplementsBook; of InternalCommand: DeviceFollowsItsCommands |
| SumTypeProofs | of SumType: TagIsTrusted, HandlersAreTypeSafe, UnreachableIsUnreachable; of Idioms: ChainsStop, ErrorsAreNotSold, LookUpsAgree |
| VariantListProofs | PayloadsFit, TagsFindTheirHandlers, NewReachesHandlers |
| ProtocolProofs | of Checksum: SumIsRight, OneByteShows; of ProtocolFrame: FramesFit, ErrorNumbersAreRead, LinesAreShown |
| SumTheorems | lemmas about `SumTo`, the sum of a function over 1..n |

Assumptions are those on the constants and no more: numbers are natural, `Hooked`
is a set of workers, `NUL` is not a letter, bytes are in -128..127 or in 0..255, 256 divides the
word size, lines are made of the characters, no digit or sign is a blank, arrays have room
for their terminator, orders have natural numbers. TLC evaluates them in the runs.

The arguments:

* *Telemetry counter.* None of the properties is inductive by itself. `Inv` adds
  to types and `LockPaired` where each worker is in its loop, that `main`'s index
  separates the threads that exist from those that do not (while creating) and
  those that are over from those that may run (while joining), and `LoadIsCurrent`:
  with every worker hooked, the value a handler has loaded is the counter. That is
  stable because a store by another worker would put two owners of the mutex
  into the region. Then every `Store` adds exactly its amount to the counter and
  to the sum of the commands applied (lemma SumToStep), which gives NoUpdateIsLost,
  and is AtomicCounter's `Apply`, which gives the refinement; every other step
  stutters. At the end each worker has applied either all of its commands or
  none, hence the exit code; that n increments and n decrements cancel is SumToBalanced.
* *Termination* is liveness, and what can be proved of it is what it rests on. StepsRunOut:
  `StepsLeft`, the iterations of every worker times four and the rest of `main`'s two loops, falls
  with every step. SomebodyGoes: until the program has halted, `main` or some worker passes
  its guard, because an owner of the mutex is a hooked worker inside its region and nothing
  inside the region waits. DispatchesRunOut says the same of each thread of ReentrantDispatch, where
  the work of a stack is that of its last activation and two steps for every other
  (`Suspended`: all of them are in their bodies and have had their nested dispatch), and
  StopsInCircles takes the part of SomebodyGoes. Only fairness is left to the model checker.
* *Workers without hooks.* That drift needs a race follows from its contrapositive
  `NoRaceNoDrift`, which is inductive: as long as nobody was overtaken the counter is exact and
  every value loaded is the counter. For RacesInventNothing a value that was loaded lies
  between the decrements and the increments applied at that time (`AllWithin`); both
  bounds only grow, and a store moves the right one by its amount.
* *Dispatch from inside handlers.* `Inv` is `TypeOK` and `LocksMatchActivations`, inductive
  together: LOCK adds one activation to a region and one to `depth`, UNLOCK takes both away,
  and everything else keeps every region as it is. So whoever a thread waits for is inside
  the region itself, hence not finished; when nothing can go on it waits too, and the set of
  unfinished threads is circular. `Stacked(R)` says that each activation is related by `R` to those above
  it, for any `R` that is closed under the calls. With `R` the downward pairs of a
  well-founded lock order, the thread of a circle that waits for the least context would wait for one that
  waits lower still: LockOrderPreventsCircles, the discipline under which the header's
  dispatch cannot deadlock, for handlers of any depth. UpdatesLostToReentryOnly rests on `Counted`:
  while no handler is updating a locked context, `data` counts the handlers run outside
  any other one on it, and the outermost that is updating it has read that count. What
  handlers inside it write is gone when it writes that count and one more, and the next to come in from
  any thread finds the count right again. With `R` "a handler on c leads only to contexts
  of S", where c is not in S, the running handler is the only one on c, so there `data` is that
  count at all times.
* *Ownership.* `Kept` (what leaks was forgotten) is inductive with types alone, since a block
  leaves `live` with the record that is destroyed and loses an owner only by a record that
  leaves undestroyed. `Private` says that without `=` every pointer is the only one to a live
  block, also after a failed `strdup`, and so no string is reached after it was freed; `Filled`, that
  without a failure or a use after destroy every text record has its string. The first two
  give OneOwner.
* *Recipe store.* Select and Delete both look at `used`, and Delete at `current`:
  the selection stays safe because the only command that takes a recipe away
  refuses the selected one. A stale answer is stable because a selection is never given
  up: `current` is set before the answer can become stale, and Delete needs it to be
  another number. Refinement maps a name to the function of its bytes up to the
  first NUL, so that padding and terminator disappear.
* *Sum type.* `Inv` adds that a pointer which is not stale fits the present tag of
  its variable (`FreshPointersFit`): writes through such pointers cannot break
  the agreement of tag and member.
* *Variant list.* `Inv` says that each object file has passed the compiler's
  checks against the list it holds itself, which later edits do not touch, and that the list
  of a unit that is not `behind` is a beginning of the present one (`AllBegin`). So two such
  lists agree wherever both have a position (UnitsAgree), and OutcomeFits reads off
  what each function does there. NewReachesHandlers
  joins the two ways in which C selects, by type where a value is made and by position
  where it is handled.
* *Idioms.* `IdiomInv` is ChainStopsAtFirstError with types, what order a failed one is replaced by
  (`DefaultIsZero`) and what the look-up holds (`LookupFits`). The stock check refuses 0, and the
  chain keeps that error to its end.
* *Device.* A dispatch appends one command to the log, so the greatest position among the
  accepted commands of a kind is either the new one or what it was (LastAfterDispatch): each
  handler writes the fields of its own kind and no others. That there is a greatest
  position of a non-empty set of them follows from the least natural number of another.
* *Frames.* A line is classified and shown once, so `FrameInv` says only that the frame is what
  `classify_line` makes of the line. The work is in the lemmas about sequences, position by
  position: `Comma` is the first comma (CommaIsFirst), `Run` the longest run (RunIsLongest), a
  field the beginning of what was copied and all of it if there is room (FieldHoldsBeginning),
  three digits the number they write (NumberOfThree). What the handler sees, put together
  again, has the length and the characters of the line (PartsTogether).
* *Checksum.* The accumulator is the sum so far modulo the word size, and since 256
  divides that, wrapping is invisible modulo 256. Two lines that differ in one byte
  differ in their sums by less than 256 and not by 0.

## Only model-checked

* Liveness (`Termination`, `FinishesOrCircles`): TLAPS does not reason about fairness here. That no
  program goes on for ever and that nobody waits in vain are theorems (see *Termination* above);
  `WorkerGoes` and `MainGoes` spell out the guards, since `ENABLED` is out of reach too.
* What the recursive definitions `Number` and `SumTo` compute is proved for as many digits as an error
  number has, and for any number of summands, from their defining equations: `SumTheorems` derives
  induction on a set of naturals from the least element of its complement.
* The violation that *device_stop* shows is a trace, and nothing is proved about it.

## Not modelled

* The preprocessor: that X-macros expand as intended, raw function pointer types
  as payloads (design_spec 4.5), const correctness (4.14). The compile tests do that.
* Layout, alignment and printing; floating point areas of the shape demos.
* Demos that run one straight line of calls: `demo.c`, `shape_demo.c`, `const_view_demo.c`,
  `generic_ctor_demo.c`, whose values are built, matched and printed once (SumType has the
  operations, VariantList the selection by `_Generic`), and `command_demo.c`, four
  commands on a motor's state that are each one assignment.
* The reason of an order's error, and products that overflow `int` (`key * 10`).
* What an optimising compiler may do with a data race.
* The unit tests, the CBMC script and CI, which were read as evidence.

## Where code and comments disagree

* The comment in `on_print_stop` (`internal_command.h:76-77`) says that the stop is
  carried out after a check of the running state. The code does not read
  `running`; the run *device_stop* shows a program whose prints are ended both while
  the device is running and while it is not.
* `on_print_start` stores any kind, although `print_mode` is documented as 0 or 1
  (`:50`); only `on_guide_start` checks its range. No run is spent on this one.
* The comment at `protocol_frame.h:62` says that command and args keep the
  original string; `classify_line` cuts what does not fit, silently. The property
  `LineIsShown` therefore excepts requests that are longer than their fields.

## Plan

1. Done: all components with state but the motor demo, and the idioms, as above; proofs of every
   safety property that a run checks, and of what the liveness properties rest on.
2. Model, if the code grows there: the effect of an optimiser on workers without hooks, should
   a build with `-O` be added.
3. Abstract specifications still worth stating: a dispatch under nested locks as an
   atomic step of each outermost call; an ownership discipline that OwnedRecords implements
   while nothing is shared.
