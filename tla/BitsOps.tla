------------------------------- MODULE BitsOps -------------------------------
(***************************************************************************)
(* The | , |= and * operators of rhdl_bits (or.rs, mul.rs) on a Bits<N>    *)
(* value x and a SignedBits<N> value sx.  Both hold their value in a       *)
(* machine word (u128 / i128), shrunk here to W bits; a Bits<N> is meant   *)
(* to hold 0..2^N-1 and a SignedBits<N> -2^(N-1)..2^(N-1)-1.  rx and rsx   *)
(* are the mathematical results of the same operations on N-bit values.   *)
(***************************************************************************)
EXTENDS Integers, Bitwise

CONSTANTS N,        \* the BitWidth
          W,        \* width of the u128/i128 word
          U128Rhs,  \* the u128 right-hand sides the callers pass
          I128Rhs   \* the i128 right-hand sides the callers pass

VARIABLES x, sx, rx, rsx, status

vars == <<x, sx, rx, rsx, status>>

BitsRange == 0..2 ^ N - 1
SignedRange == -(2 ^ (N - 1))..2 ^ (N - 1) - 1

\* Two's complement of an integer on k bits, and back.
Tc(v, k) == v % 2 ^ k
FromTc(u, k) == IF u >= 2 ^ (k - 1) THEN u - 2 ^ k ELSE u

\* bits_impl::bits_masked: the low N bits.
bits_masked(v) == v % 2 ^ N

\* signed_bits_impl::signed_wrapped: the low N bits, sign-extended.
signed_wrapped(v) == FromTc(Tc(v, N), N)

\* i128 | i128 and i128::wrapping_mul on the W-bit word.
OrI(a, b) == FromTc(Tc(a, W) | Tc(b, W), W)
wrapping_mul_i(a, b) == FromTc((Tc(a, W) * Tc(b, W)) % 2 ^ W, W)

\* Bits::from / SignedBits::from of a word: a value out of range is either
\* cut to N bits or rejected, depending on the rhdl_bits build.
Conv(v) == [ok |-> TRUE, v |-> v]
Rejected == [ok |-> FALSE, v |-> 0]
FromU128(r) == IF r \in BitsRange THEN {Conv(r)} ELSE {Conv(bits_masked(r)), Rejected}
FromI128(r) == IF r \in SignedRange THEN {Conv(r)} ELSE {Conv(signed_wrapped(r)), Rejected}

\* Store a result (or the panic of a rejected conversion) and the reference.
SetX(ok, v, ref) ==
    IF ~ok THEN status' = "panic" /\ UNCHANGED <<x, rx>>
    ELSE x' = v /\ rx' = ref /\ UNCHANGED status
SetSX(ok, v, ref) ==
    IF ~ok THEN status' = "panic" /\ UNCHANGED <<sx, rsx>>
    ELSE sx' = v /\ rsx' = ref /\ UNCHANGED status

\* The N-bit OR of two values and of two signed values.
RefOr(a, b) == a | bits_masked(b)
RefOrSigned(a, b) == FromTc(Tc(a, N) | Tc(b, N), N)

-----------------------------------------------------------------------------
\* impl BitOr<Bits<N>> for u128 and BitOr<u128> for Bits<N>:
\* Bits::<N>::from(rhs) | self.
bitor_u128(r) ==
    /\ status = "ok"
    /\ \E f \in FromU128(r) : SetX(f.ok, f.v | x, RefOr(x, r))
    /\ UNCHANGED <<sx, rsx>>

\* impl BitOrAssign<u128> for Bits<N>: self.val |= rhs.
bitor_assign_u128(r) ==
    /\ status = "ok"
    /\ SetX(TRUE, x | r, RefOr(x, r))
    /\ UNCHANGED <<sx, rsx>>

\* impl BitOr<SignedBits<N>> for i128 and BitOr<i128> for SignedBits<N>.
bitor_i128(r) ==
    /\ status = "ok"
    /\ \E f \in FromI128(r) : SetSX(f.ok, OrI(f.v, sx), RefOrSigned(sx, r))
    /\ UNCHANGED <<x, rx>>

\* impl BitOrAssign<i128> for SignedBits<N>: self.val |= rhs.
bitor_assign_i128(r) ==
    /\ status = "ok"
    /\ SetSX(TRUE, OrI(sx, r), RefOrSigned(sx, r))
    /\ UNCHANGED <<x, rx>>

\* Mutant: the product is not masked back to N bits.
mul_bits_unmasked(b) ==
    /\ status = "ok"
    /\ SetX(TRUE, (x * b) % 2 ^ W, (x * b) % 2 ^ N)
    /\ UNCHANGED <<sx, rsx>>

\* impl Mul for Bits<N>: bits_masked(self.val.wrapping_mul(rhs.val)).
mul_bits(b) ==
    /\ status = "ok"
    /\ SetX(TRUE, bits_masked((x * b) % 2 ^ W), (x * b) % 2 ^ N)
    /\ UNCHANGED <<sx, rsx>>

\* Mutant: the signed product is masked like an unsigned one.
mul_signed_masked(b) ==
    /\ status = "ok"
    /\ SetSX(TRUE, bits_masked(Tc(wrapping_mul_i(sx, b), W)), signed_wrapped(sx * b))
    /\ UNCHANGED <<x, rx>>

\* impl Mul for SignedBits<N>: signed_wrapped(self.val.wrapping_mul(rhs.val)).
mul_signed(b) ==
    /\ status = "ok"
    /\ SetSX(TRUE, signed_wrapped(wrapping_mul_i(sx, b)), signed_wrapped(sx * b))
    /\ UNCHANGED <<x, rx>>

Init ==
    /\ x \in BitsRange /\ rx = x
    /\ sx \in SignedRange /\ rsx = sx
    /\ status = "ok"

Next ==
    \/ \E r \in U128Rhs : bitor_u128(r) \/ bitor_assign_u128(r)
    \/ \E r \in I128Rhs : bitor_i128(r) \/ bitor_assign_i128(r)
    \/ \E b \in BitsRange : mul_bits(b)
    \/ \E b \in SignedRange : mul_signed(b)

Spec == Init /\ [][Next]_vars

-----------------------------------------------------------------------------
\* Every operator computes the N-bit result: the word-level OR of the
\* operands and the wrapping word product, cut back by bits_masked or
\* signed_wrapped, equal the OR and the product taken modulo 2^N.
ResultMatchesReference == status = "ok" => x = rx /\ sx = rsx

\* A Bits<N> holds an N-bit value and a SignedBits<N> an N-bit signed one,
\* whatever sequence of | , |= and * produced it (the masking in mul.rs and
\* in Bits::from exists to keep this).
BitsInRange == x \in BitsRange /\ sx \in SignedRange
=============================================================================
