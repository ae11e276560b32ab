---------------------------- MODULE MCVariantList ----------------------------
(***************************************************************************)
(* Variants for the model checking runs of VariantList: one with a type of *)
(* its own and two that share a type.                                      *)
(***************************************************************************)
EXTENDS VariantList

CONSTANTS move, heal, boost
CONSTANTS CmdMove, CmdHeal

Names == {move, heal, boost}
Types == {CmdMove, CmdHeal}
PayloadType == [n \in Names |-> IF n = move THEN CmdMove ELSE CmdHeal]

=============================================================================
