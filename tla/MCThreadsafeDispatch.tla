------------------------ MODULE MCThreadsafeDispatch ------------------------
(***************************************************************************)
(* Values of Hooked for the model checking runs of ThreadsafeDispatch: the *)
(* translation units that define the lock hooks.                           *)
(***************************************************************************)
EXTENDS ThreadsafeDispatch

AllHooked  == Worker

=============================================================================
