------------------------- MODULE MCReentrantDispatch -------------------------
(***************************************************************************)
(* Locks and a call graph for the model checking run of ReentrantDispatch. *)
(***************************************************************************)
EXTENDS ReentrantDispatch

CONSTANTS ctxA, ctxB, ctxC

\* Only the first context may be re-entered.
FirstRecursive == [c \in Ctx |-> IF c = ctxA THEN "recursive" ELSE "normal"]

\* Handlers of the first two contexts dispatch to each other, in no lock
\* order, and those of the second also to the third, which calls nobody.
Crossed == {<<ctxA, ctxB>>, <<ctxB, ctxA>>, <<ctxB, ctxC>>}

=============================================================================
