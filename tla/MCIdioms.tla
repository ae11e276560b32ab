------------------------------- MODULE MCIdioms -------------------------------
(***************************************************************************)
(* Functions for the model checking run of Idioms: a payment that is       *)
(* declined for some orders and one that renumbers the order.              *)
(***************************************************************************)
EXTENDS Idioms

Ids == 0 .. 8
Pay == [id \in Ids |-> IF id \in {2, 8} THEN Value("err", ERR_PAYMENT_FAILED)
                       ELSE Value("ok", id)]
Renumber == [id \in Ids |-> Value("ok", (id + 3) % 9)]
Functions == {Pay, Renumber}
Keys == -3 .. 3

==============================================================================
