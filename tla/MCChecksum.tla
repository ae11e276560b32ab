------------------------------ MODULE MCChecksum ------------------------------
(***************************************************************************)
(* Bytes for the model checking runs of Checksum, of a char that is signed *)
(* with most compilers: the ends of the range, both sides of zero and      *)
(* neighbours of the digits' boundary.  Their codes are 0, 1, 15, 16, 127, *)
(* 128, 129 and 255, so that four of them wrap an accumulator of 512.      *)
(***************************************************************************)
EXTENDS Checksum

SomeBytes == {-128, -127, -1, 0, 1, 15, 16, 127}

==============================================================================
