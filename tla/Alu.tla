--------------------------------- MODULE Alu ---------------------------------
(***************************************************************************)
(* The arithmetic of the three cores (alu_unit of project1 and project2,   *)
(* execute_alu_op of project3): words of XLEN bits, wrapping, with the     *)
(* signed operations on their two's complement.                            *)
(***************************************************************************)
EXTENDS Integers, FiniteSets

CONSTANT XLEN   \* config.h: XLEN

WordSize == 2 ^ XLEN
Word     == 0 .. WordSize - 1

ASSUME XlenAssumption == XLEN \in Nat \ {0}

(* A law of the exponentiation that the provers' arithmetic is without. *)
ASSUME PowerLaw == \A k \in 0 .. XLEN - 1 : 2 ^ (k + 1) = 2 * 2 ^ k

Wrap(a) == a % WordSize

(* The value of a as int32_t. *)
Signed(a) == IF 2 * a < WordSize THEN a ELSE a - WordSize

Bit(a, k) == (a \div (2 ^ k)) % 2

(* The number whose bits are the ones at these positions. *)
FromBits(ones) ==
    LET sum[k \in 0 .. XLEN] ==
            IF k = 0 THEN 0 ELSE sum[k - 1] + (IF k - 1 \in ones THEN 2 ^ (k - 1) ELSE 0)
    IN  sum[XLEN]

BitNot(a)    == WordSize - 1 - a
BitAnd(a, b) == FromBits({k \in 0 .. XLEN - 1 : Bit(a, k) = 1 /\ Bit(b, k) = 1})
BitXor(a, b) == FromBits({k \in 0 .. XLEN - 1 : Bit(a, k) # Bit(b, k)})
BitOr(a, b)  == BitNot(BitAnd(BitNot(a), BitNot(b)))

Flag(b) == IF b THEN 1 ELSE 0

(* A shift is by fewer than XLEN bits: by more, the C++ has no meaning. *)
alu(op, a, b) ==
    CASE op = "NONE" -> 0
      [] op = "ADD"  -> Wrap(a + b)
      [] op = "SUB"  -> Wrap(a - b)
      [] op = "AND"  -> BitAnd(a, b)
      [] op = "OR"   -> BitOr(a, b)
      [] op = "XOR"  -> BitXor(a, b)
      [] op = "SLL"  -> Wrap(a * (2 ^ b))
      [] op = "SRL"  -> a \div (2 ^ b)
      [] op = "SRA"  -> Wrap(Signed(a) \div (2 ^ b))
      [] op = "LTI"  -> Flag(Signed(a) < Signed(b))
      [] op = "LTU"  -> Flag(a < b)
==============================================================================
