------------------------------ MODULE Bitmagic ------------------------------
(***************************************************************************)
(* The fixed-point codecs of positions (network/util/bitmagic.hpp), on     *)
(* exact numbers: lengths are integers in units of 1/Unit, and Unit is a   *)
(* multiple of every scale the delta codec uses, so that only the rounding *)
(* of single precision floats is left out.                                 *)
(***************************************************************************)
EXTENDS Integers

Unit == 42165270                       \* 2 * lcm(255, 127, 63, 31)

Magnitude(d) == IF d < 0 THEN - d ELSE d

Least(a, b) == IF a < b THEN a ELSE b

-----------------------------------------------------------------------------
(* fixed_delta_encode_wb and fixed_delta_decode: a difference is a range,  *)
(* two bits of the header its three coordinates share, and a byte.         *)

Limit == 15 * (Unit \div 2)            \* min(fabsf(d), 7.5f)

BugRange4(ab) ==                       \* without the last range
  IF 2 * ab < Unit THEN 0 ELSE IF 2 * ab < 3 * Unit THEN 1 ELSE 2

Range4(ab) == IF 2 * ab < Unit THEN 0
              ELSE IF 2 * ab < 3 * Unit THEN 1
              ELSE IF 2 * ab < 7 * Unit THEN 2
              ELSE 3

(* multi[i]. *)
Step(i) ==
  Unit \div (IF i = 0 THEN 255 ELSE IF i = 1 THEN 127 ELSE IF i = 2 THEN 63 ELSE 31)

(* offset[i], in halves. *)
Halves(i) == IF i = 0 THEN 0 ELSE IF i = 1 THEN 1 ELSE IF i = 2 THEN 3 ELSE 7

(* roundf((ab - offset) * scale) *)
Rounded(ab, i) ==
  (ab - Halves(i) * (Unit \div 2) + Step(i) \div 2) \div Step(i)

(* The byte: a sign and seven bits. *)
Encode(d) ==
  LET ab == Least(Magnitude(d), Limit)
      i  == Range4(ab)
  IN  [range |-> i, byte |-> (IF d < 0 THEN 128 ELSE 0) + (Rounded(ab, i) % 128)]

(* (c + offset[i]) * multi[i], with the sign: what the encoder adds to its *)
(* own copy, too.                                                          *)
BugValue(i, byte) ==                   \* without the sign
  (byte % 128) * Step(i) + Halves(i) * (Step(i) \div 2)

Value(i, byte) ==
  LET v == (byte % 128) * Step(i) + Halves(i) * (Step(i) \div 2)
  IN  IF byte \div 128 = 1 THEN - v ELSE v

WriteBack(d) == Value(Encode(d).range, Encode(d).byte)

(* vec3_24_delta_encode: the header is UPD_OBJ and the ranges of x, y, z.  *)
UPD_OBJ == 128

Axis == {"x", "y", "z"}

BugPlace == [x |-> 64, y |-> 16, z |-> 1] \* wrong shifts

Place == [x |-> 16, y |-> 4, z |-> 1]  \* 1 << shift

Header(d) ==
  UPD_OBJ + Place.x * Encode(d.x).range + Place.y * Encode(d.y).range
          + Place.z * Encode(d.z).range

(* vec3_24_delta_decode: (header >> shift) & 3. *)
Decode(header, a, byte) ==
  LET unshifted == header \div (IF a = "x" THEN 16 ELSE IF a = "y" THEN 4 ELSE 1)
  IN  Value(unshifted % 4, byte)

-----------------------------------------------------------------------------
(* fixed_16fe and fixed_16fd: a sign and 15 bits in 1/64, the input here   *)
(* in 1/1024.                                                              *)
Grain == 16

BugFixed16(p) ==                       \* without roundf
  [sign |-> IF p < 0 THEN 1 ELSE 0, bits |-> (Least(Magnitude(p), 511 * 1024) \div Grain) % 32768]

Fixed16(p) ==
  [sign |-> IF p < 0 THEN 1 ELSE 0,
   bits |-> ((Least(Magnitude(p), 511 * 1024) + Grain \div 2) \div Grain) % 32768]

Float16(f) == IF f.sign = 1 THEN - (f.bits * Grain) ELSE f.bits * Grain

(* vec3_48_encode_wb: the pose the encoder leaves in the cache. *)
OnGrid(p) == Float16(Fixed16(p))
=============================================================================
