------------------------------- MODULE Bytes --------------------------------
(***************************************************************************)
(* A byte of the parts whose counters are two bytes wide: one of Byte      *)
(* values, 256 of them in the parts: bits make it even.                    *)
(***************************************************************************)
EXTENDS Integers

CONSTANT Byte

ASSUME ByteAssumption == Byte \in Nat \ {0} /\ Byte % 2 = 0

Word == Byte * Byte
=============================================================================
