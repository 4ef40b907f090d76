-------------------------------- MODULE Half --------------------------------
(***************************************************************************)
(* Touch positions travel as half floats (common/protocol/half.go).  A     *)
(* float32 is [neg, mag]: its sign and its other 31 bits as a number; a    *)
(* half is its 16 bits.  The server reads a player's position, keeps it as *)
(* float32 and writes it again for every monitor and for the replay file.  *)
(***************************************************************************)
EXTENDS Integers

CONSTANT Halves    \* the non-negative halves around which positions are tried

VARIABLES position,    \* the float32 at hand
          packed       \* the half last written of it, -1 if none
halfVars == <<position, packed>>

Float(neg, mag) == [neg |-> neg, mag |-> mag]
Signed(neg, h) == IF neg THEN 32768 + h ELSE h
ExpUnit == 8388608                             \* 2^23, one step of the exponent
Infinity32 == 255 * ExpUnit
Infinity16 == 31744                            \* 0x7C00
NaN16 == 32256                                 \* 0x7E00

ASSUME HalvesAssumption == Halves \subseteq 0 .. Infinity16

\* The subnormal f * 2^-24 as a normal float32: shift it up to the implied 1.
Normalised(f) ==
  LET up == CHOOSE k \in 1 .. 10 : f * 2^k \in 1024 .. 2047
  IN  (113 - up) * ExpUnit + (f * 2^up - 1024) * 8192

F16BitsToF32(bits) ==
  LET mag == bits % 32768
      exp == mag \div 1024
      frac == mag % 1024
  IN  Float(bits >= 32768,
            CASE mag = 0 -> 0
              [] mag # 0 /\ exp = 0 -> Normalised(frac)
              [] exp = 31 -> Infinity32 + frac * 8192
              [] OTHER -> (exp + 112) * ExpUnit + frac * 8192)

\* m * 2^-s rounded, ties to the even result.
ShiftRounded_Up(m, s) == (m \div 2^s) + IF m % 2^s >= 2^(s - 1) THEN 1 ELSE 0

ShiftRounded(m, s) ==
  LET res == m \div 2^s
      rem == m % 2^s
  IN  IF rem > 2^(s - 1) \/ (rem = 2^(s - 1) /\ res % 2 = 1) THEN res + 1 ELSE res

F32ToF16Bits(x) ==
  LET exp == x.mag \div ExpUnit
      mant == x.mag % ExpUnit
      e == exp - 112
  IN  CASE exp = 255 /\ mant # 0 -> NaN16
        [] (exp = 255 /\ mant = 0) \/ (exp < 255 /\ e >= 31) -> Signed(x.neg, Infinity16)
        [] exp < 255 /\ e < -10 -> Signed(x.neg, 0)
        [] e \in -10 .. 0 -> Signed(x.neg, ShiftRounded(mant + ExpUnit, 14 - e))
        [] OTHER -> Signed(x.neg, ShiftRounded(e * ExpUnit + mant, 13))

-----------------------------------------------------------------------------
(* The reference: which half a float32 has to become.  Positive floats are
   ordered like their bits, and evenly spaced between adjacent halves. *)

\* The float32 halfway between the halves h and h + 1.
Midpoint(h) ==
  CASE h = 0 -> 102 * ExpUnit                            \* 2^-25
    [] h = Infinity16 - 1 -> 142 * ExpUnit + 8384512     \* 65520
    [] OTHER -> LET low == F16BitsToF32(h).mag
                    high == F16BitsToF32(h + 1).mag
                IN  low + (high - low) \div 2

\* h is the half nearest to mag, the even one of two.
IsNearest(h, mag) ==
  /\ h > 0 => \/ mag > Midpoint(h - 1)
              \/ mag = Midpoint(h - 1) /\ h % 2 = 0
  /\ h < Infinity16 => \/ mag < Midpoint(h)
                       \/ mag = Midpoint(h) /\ h % 2 = 0

-----------------------------------------------------------------------------
\* Positions at, just below and just above a half and the two midpoints, and
\* two NaNs.
Positions ==
  LET edges == UNION {{F16BitsToF32(h).mag} \cup (IF h < Infinity16 THEN {Midpoint(h)} ELSE {}) : h \in Halves}
      near == edges \cup {m - 1 : m \in edges \ {0}} \cup {m + 1 : m \in edges}
  IN  {Float(neg, m) : neg \in BOOLEAN, m \in near}

HalfInit == position \in Positions /\ packed = -1

\* WriteCompactPos, and ReadCompactPos by whoever gets it.
WritePosition == packed' = F32ToF16Bits(position) /\ UNCHANGED position

ReadPosition ==
  /\ packed # -1
  /\ position' = F16BitsToF32(packed)
  /\ UNCHANGED packed

HalfNext == WritePosition \/ ReadPosition

HalfSpec == HalfInit /\ [][HalfNext]_halfVars

\* A position is written as the nearest half, ties to even, as Rust's half
\* and JavaScript's Float16Array do it, and a position that is read and
\* written again by the server stays the same (a NaN becomes the one NaN).
\* Half.go builds both directions by hand, with carries into the exponent.
HalfNearest ==
  packed # -1 =>
    IF position.mag > Infinity32 THEN packed = NaN16
    ELSE /\ packed \div 32768 = (IF position.neg THEN 1 ELSE 0)
         /\ IsNearest(packed % 32768, position.mag)
=============================================================================
