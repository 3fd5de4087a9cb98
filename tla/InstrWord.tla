------------------------------ MODULE InstrWord ------------------------------
(***************************************************************************)
(* Instruction words: thirty-two bits, the fields they are cut into        *)
(* (Constants in decode.cpp) and the extensions of bitmanip.h.  A bit is 0 *)
(* or 1, and position 0 is the lowest.                                     *)
(***************************************************************************)
EXTENDS Alu

Position == 0 .. 31

Zeros == [k \in Position |-> 0]

(* The width bits from shift up, as a number. *)
field(w, shift, width) == FromBits({k \in 0 .. width - 1 : w[shift + k] = 1})

opcode(w) == field(w, 0, 7)
rd(w)     == field(w, 7, 5)
func3(w)  == field(w, 12, 3)
rs1(w)    == field(w, 15, 5)
rs2(w)    == field(w, 20, 5)
func7(w)  == field(w, 25, 7)

(* w >> n *)
shifted(w, n) == [k \in Position |-> IF k + n \in Position THEN w[k + n] ELSE 0]

(* (int32_t)w >> n *)
signed_shifted(w, n) == [k \in Position |-> IF k + n \in Position THEN w[k + n] ELSE w[31]]

(* Mutated: the highest bit of the word is taken for the sign. *)
sext_top(w, width) == [k \in Position |-> IF k < width THEN w[k] ELSE w[31]]

sext(w, width) == [k \in Position |-> IF k < width THEN w[k] ELSE w[width - 1]]

zext(w, width) == [k \in Position |-> IF k < width THEN w[k] ELSE 0]

(* What is left of a word in a machine of XLEN bits. *)
number(w) == field(w, 0, XLEN)

(* types.h: Opcode *)
Opcode == [R |-> 51, L |-> 3, I |-> 19, S |-> 35, B |-> 99, LUI |-> 55, AUIPC |-> 23,
           JAL |-> 111, JALR |-> 103, SYS |-> 115, FENCE |-> 15]

known(w) == \E name \in DOMAIN Opcode : Opcode[name] = opcode(w)

is(w, names) == \E name \in names : Opcode[name] = opcode(w)

Null  == [found |-> FALSE]
==============================================================================
