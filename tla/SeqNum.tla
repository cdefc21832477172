------------------------------- MODULE SeqNum -------------------------------
(***************************************************************************)
(* TCP sequence numbers: u32 values with the wrapping operations of the    *)
(* code.  The width is a parameter: SeqHalf stands for 2^31, so that TLC   *)
(* checks the wraparound on a small ring and TLAPS proves it for any ring. *)
(* Each operation is the wrapping one for arguments that are in range,     *)
(* written with one conditional instead of a modulus.                      *)
(***************************************************************************)
EXTENDS Integers

CONSTANT SeqHalf

ASSUME SeqHalfAssumption == SeqHalf \in Nat \ {0}

SeqMod == 2 * SeqHalf

SeqNums == 0 .. SeqMod - 1

\* u32::wrapping_add and u32::wrapping_sub
WAdd(a, b) == IF a + b >= SeqMod THEN a + b - SeqMod ELSE a + b

WSub(a, b) == IF a >= b THEN a - b ELSE a - b + SeqMod

\* The cast `u32 as i32'
AsSigned(u) == IF u >= SeqHalf THEN u - SeqMod ELSE u

\* Serial comparison: a is before b on the ring.
SeqLt(a, b) == AsSigned(WSub(a, b)) < 0

Clamp(x, lo, hi) == IF x < lo THEN lo ELSE IF x > hi THEN hi ELSE x

MinOf(a, b) == IF a < b THEN a ELSE b

MaxOf(a, b) == IF a > b THEN a ELSE b
=============================================================================
