--------------------------- MODULE MCInternalCommand ---------------------------
(***************************************************************************)
(* Payload values for the model checking runs of InternalCommand.          *)
(***************************************************************************)
EXTENDS InternalCommand

\* What the comments allow, and values just outside it.
Decoded    == -1 .. 3
\* Only values that the comments allow for print_start and run_control.
Documented == {0, 1}

==============================================================================
