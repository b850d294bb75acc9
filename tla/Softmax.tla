------------------------------ MODULE Softmax -------------------------------
(***************************************************************************)
(* The arithmetic of softmax.  Of exp the code uses that exp(a + b) is     *)
(* exp(a) * exp(b) and that it vanishes far below zero, so exp(x) stands   *)
(* as 2^x: numbers are in units of 2^-Bits, and exp is 0 below -Bits.      *)
(***************************************************************************)
EXTENDS Integers

CONSTANT Bits       \* the widest difference of scores

FLT_MAX == 1000

One == 2^Bits

Exp(x) == IF x < -Bits THEN 0 ELSE IF x >= 0 THEN One * 2^x ELSE 2^(Bits + x)

Times(a, b) == (a * b) \div One

=============================================================================
