--------------------------- MODULE MCVciPlatform ---------------------------
(***************************************************************************)
(* Operands whose computation is over before STATUS can be read, and       *)
(* operands that keep a coprocessor busy for some reads of STATUS, with a  *)
(* divisor of one and with another.                                        *)
(***************************************************************************)
EXTENDS VciPlatform

MCDraws == {<<0, 0>>, <<0, 7>>, <<5, 3>>}
=============================================================================
