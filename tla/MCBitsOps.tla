------------------------------ MODULE MCBitsOps ------------------------------
(* Bits<4> and SignedBits<4> in a 6-bit word.                             *)
EXTENDS BitsOps

\* Right-hand sides that are themselves N-bit values.
MCU128InRange == BitsRange
MCI128InRange == SignedRange

\* Any word: values wider than N bits and negative values beyond it.
MCU128Any == 0..2 ^ W - 1
MCI128Any == -(2 ^ (W - 1))..2 ^ (W - 1) - 1
=============================================================================
