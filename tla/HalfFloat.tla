----------------------------- MODULE HalfFloat -----------------------------
(***************************************************************************)
(* mlmc_fp16_to_fp32 (src/dequant.c): the bits of a half become the bits   *)
(* of a float, shifted and renormalised without floating point.  Bits are  *)
(* written as fields: a sign, an exponent and a mantissa or fraction.      *)
(***************************************************************************)
EXTENDS Integers

VARIABLES pc, half_bits, exponent, mantissa,
          float   \* the fields of the result

vars == <<pc, half_bits, exponent, mantissa, float>>

Sign     == half_bits \div 2^15
Exponent == (half_bits \div 2^10) % 2^5
Mantissa == half_bits % 2^10

NoFloat == [sign |-> 0, exponent |-> 0, fraction |-> 0]

Init == /\ pc = "idle" /\ half_bits = 0 /\ exponent = 0 /\ mantissa = 0
        /\ float = NoFloat

Convert(half) ==
  /\ pc = "idle"
  /\ pc' = "start" /\ half_bits' = half
  /\ exponent' = Exponent' /\ mantissa' = Mantissa'
  /\ UNCHANGED float

Returns(e, f) == /\ pc' = "done"
                 /\ float' = [sign |-> Sign, exponent |-> e, fraction |-> f]
                 /\ UNCHANGED <<half_bits, exponent, mantissa>>

Zero      == pc = "start" /\ exponent = 0 /\ mantissa = 0 /\ Returns(0, 0)
NotFinite == pc = "start" /\ exponent = 31 /\ Returns(255, mantissa * 2^13)

\* Mutant: a subnormal's exponent is counted from 0.
SubnormalFromZero ==
  /\ pc = "start" /\ exponent = 0 /\ mantissa # 0
  /\ exponent' = 0 /\ pc' = "shift"
  /\ UNCHANGED <<half_bits, mantissa, float>>

Subnormal ==
  /\ pc = "start" /\ exponent = 0 /\ mantissa # 0
  /\ exponent' = 1 /\ pc' = "shift"
  /\ UNCHANGED <<half_bits, mantissa, float>>

\* Mutant: both are kept in the fields of a half, where the high bit is not seen.
ShiftMasked ==
  /\ pc = "shift" /\ mantissa < 2^10
  /\ mantissa' = (mantissa * 2) % 2^10 /\ exponent' = (exponent - 1) % 2^5
  /\ UNCHANGED <<pc, half_bits, float>>

Shift ==
  /\ pc = "shift" /\ mantissa < 2^10
  /\ mantissa' = mantissa * 2 /\ exponent' = exponent - 1
  /\ UNCHANGED <<pc, half_bits, float>>

Shifted ==
  /\ pc = "shift" /\ mantissa >= 2^10
  /\ mantissa' = mantissa - 2^10 /\ pc' = "build"
  /\ UNCHANGED <<half_bits, exponent, float>>

\* The biases differ by 112.
Build == /\ pc = "build" \/ (pc = "start" /\ exponent \in 1 .. 30)
         /\ Returns(exponent + 112, mantissa * 2^13)

Step == Zero \/ NotFinite \/ Subnormal \/ Shift \/ Shifted \/ Build
-----------------------------------------------------------------------------
\* A half stands for n * 2^k, with the implicit bit where it is normal; so does a
\* normal float, and two such values are compared with the smaller k taken out.
HalfValue == [n |-> IF Exponent = 0 THEN Mantissa ELSE 2^10 + Mantissa,
              k |-> (IF Exponent = 0 THEN 1 ELSE Exponent) - 25]
FloatValue == [n |-> 2^23 + float.fraction, k |-> float.exponent - 150]

\* Every half becomes the float of the same value: signed zero, subnormals that a
\* float can hold as normal numbers, infinity, and a NaN that stays one.  The loop
\* keeps the value, and its mantissa inside 11 bits, while it doubles it, so that it
\* ends (dequant.c:29-50).
SameValue ==
  /\ pc = "shift" => mantissa = Mantissa * 2^(1 - exponent) /\ mantissa \in 1 .. 2^11 - 1
  /\ pc = "done" =>
       /\ float.sign = Sign /\ float.fraction \in 0 .. 2^23 - 1
       /\ Exponent = 31 =>
            float.exponent = 255 /\ (float.fraction = 0 <=> Mantissa = 0)
       /\ Exponent < 31 /\ HalfValue.n = 0 =>
            float.exponent = 0 /\ float.fraction = 0
       /\ Exponent < 31 /\ HalfValue.n # 0 =>
            /\ float.exponent \in 1 .. 254 /\ FloatValue.k <= HalfValue.k
            /\ FloatValue.n = HalfValue.n * 2^(HalfValue.k - FloatValue.k)
=============================================================================
