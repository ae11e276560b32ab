--------------------------- MODULE MCDispatchRaces ---------------------------
(***************************************************************************)
(* Values of Hooked for the model checking runs of DispatchRaces.          *)
(***************************************************************************)
EXTENDS DispatchRaces

\* One increment worker was compiled without the hooks.
AllButOne == Worker \ {1}
==============================================================================
