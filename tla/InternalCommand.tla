---------------------------- MODULE InternalCommand ----------------------------
(***************************************************************************)
(* The device of src/examples/internal_command.h: a queue of commands is   *)
(* dispatched, one after the other, to one LaserDeviceState.  The payload  *)
(* of a command is an int that the communication layer has decoded, so it  *)
(* may lie outside what the comments allow; only on_guide_start checks it. *)
(***************************************************************************)
EXTENDS Integers, Sequences

CONSTANTS Payload,     \* the payload values of the commands
          MaxCommands  \* bound: commands dispatched

ASSUME PayloadAssumption == Payload \subseteq Int /\ MaxCommands \in Nat

VARIABLES st,       \* the LaserDeviceState
          log,      \* the commands dispatched (history)
          stopped   \* st.running whenever print_stop ended a print (history)

deviceVars == <<st, log, stopped>>

Tag == {"print_start", "print_stop", "run_control",
        "error_clear", "guide_start", "guide_stop"}

\* An error may be active when the device starts.
DeviceInit ==
  /\ \E e \in {0, 1} :
       st = [printing |-> 0, print_mode |-> 0, running |-> 0,
             guide_on |-> 0, guide_kind |-> 0, error_active |-> e]
  /\ log = <<>>
  /\ stopped = {}

Dispatch(tag, arg) ==
  /\ Len(log) < MaxCommands
  /\ log' = Append(log, [tag |-> tag, arg |-> arg])

on_print_start(kind) ==
  /\ Dispatch("print_start", kind)
  /\ st' = [st EXCEPT !.printing = 1, !.print_mode = kind]
  /\ UNCHANGED stopped

\* Stops whether the device is running or not.
on_print_stop(reserved) ==
  /\ Dispatch("print_stop", reserved)
  /\ st' = [st EXCEPT !.printing = 0]
  /\ stopped' = IF st.printing = 1 THEN stopped \cup {st.running} ELSE stopped

on_run_control(mode) ==
  /\ Dispatch("run_control", mode)
  /\ st' = [st EXCEPT !.running = mode]
  /\ UNCHANGED stopped

on_error_clear(reserved) ==
  /\ Dispatch("error_clear", reserved)
  /\ st' = [st EXCEPT !.error_active = 0]
  /\ UNCHANGED stopped

\* The range that the table of guide names has.
GuideKindOK(kind) == kind \in 0 .. 2

\* on_guide_start: out of its range it changes nothing.  The fault switches
\* the light on before it looks at the kind.
Guided_OnFirst(kind) ==
  IF GuideKindOK(kind) THEN [st EXCEPT !.guide_on = 1, !.guide_kind = kind]
                       ELSE [st EXCEPT !.guide_on = 1]

Guided(kind) ==
  IF GuideKindOK(kind) THEN [st EXCEPT !.guide_on = 1, !.guide_kind = kind]
                       ELSE st

on_guide_start(kind) ==
  /\ Dispatch("guide_start", kind)
  /\ st' = Guided(kind)
  /\ UNCHANGED stopped

on_guide_stop(reserved) ==
  /\ Dispatch("guide_stop", reserved)
  /\ st' = [st EXCEPT !.guide_on = 0]
  /\ UNCHANGED stopped

DeviceNext ==
  \E arg \in Payload :
    \/ on_print_start(arg) \/ on_run_control(arg) \/ on_guide_start(arg)
    \/ arg = 0 /\ (on_print_stop(arg) \/ on_error_clear(arg) \/ on_guide_stop(arg))

DeviceSpec == DeviceInit /\ [][DeviceNext]_deviceVars

------------------------------------------------------------------------------
\* Properties.

\* The commands dispatched that have one of these tags and were not refused,
\* by their positions in the log.
Accepted(c) == c.tag = "guide_start" => c.arg \in 0 .. 2

Positions(tags) == {n \in DOMAIN log : log[n].tag \in tags /\ Accepted(log[n])}

\* The last of them, or the command that the initial state amounts to.
LastOf(tags, initially) ==
  IF Positions(tags) = {} THEN initially
  ELSE log[CHOOSE n \in Positions(tags) : \A m \in Positions(tags) : m <= n]

\* Printing, running and the guide light are separate machines: each is where
\* the last command of its own left it, whatever came between, and a refused
\* command leaves no trace in any of them.
StateIsLastCommand ==
  LET print == LastOf({"print_start", "print_stop"}, [tag |-> "print_stop", arg |-> 0])
      start == LastOf({"print_start"}, [tag |-> "print_start", arg |-> 0])
      run   == LastOf({"run_control"}, [tag |-> "run_control", arg |-> 0])
      guide == LastOf({"guide_start", "guide_stop"}, [tag |-> "guide_stop", arg |-> 0])
      kind  == LastOf({"guide_start"}, [tag |-> "guide_start", arg |-> 0])
  IN /\ st.printing = 1 <=> print.tag = "print_start"
     /\ st.print_mode = start.arg
     /\ st.running = run.arg
     /\ st.guide_on = 1 <=> guide.tag = "guide_start"
     /\ st.guide_kind = kind.arg
     /\ (\E n \in DOMAIN log : log[n].tag = "error_clear") => st.error_active = 0

\* What the comment in on_print_stop says, whichever way it is meant: the
\* stop is carried out after a check of running, so it cannot take effect
\* both on a device that is running and on one that is not.
StopDependsOnRunning == ~({0, 1} \subseteq stopped)

==============================================================================
