----------------------------- MODULE InstrExecute -----------------------------
(***************************************************************************)
(* One instruction on each of the three cores, from its word to what it    *)
(* leaves: decode, the operands it reads, the ALU, the branch unit, the    *)
(* memory's answer and the control register.  The values on the way have   *)
(* XLEN bits; a load's are the thirty-two bits the code shifts and masks.  *)
(*                                                                         *)
(* C++ gives a shift by 32 or more no meaning.  The shift instructions of  *)
(* the machines the simulators are built for take the low five bits of the *)
(* count, and so does alu_shifted.                                         *)
(***************************************************************************)
EXTENDS InstrDecode, Sequences

InOrder == INSTANCE InOrderDecode

------------------------------------------------------------------------------
(* Core::decode of project3.  It reads a word as project2 does; then it leaves
   no register to write to an instruction that names x0, and chooses the unit
   that executes the instruction. *)

(* The flags of the instruction's type, and its immediate. *)
operands(w) ==
    [flags |-> IF rd(w) = 0 THEN type_flags(w) \ {"use_rd"} ELSE type_flags(w), imm |-> imm(w)]

fu_type(w) ==
    CASE br_op(w) # "NONE"                             -> "BRU"
      [] op_flags(w) \cap {"is_load", "is_store"} # {} -> "LSU"
      [] "is_csr" \in op_flags(w)                      -> "SFU"
      [] OTHER                                         -> "ALU"

(* The operation, and the unit for it. *)
operation(w) ==
    [alu_op |-> alu_op(w), br_op |-> br_op(w), flags |-> op_flags(w), fu_type |-> fu_type(w)]

decode_3(w) ==
    IF ~known(w) THEN Null
    ELSE [found |-> TRUE, rd |-> rd(w), rs1 |-> rs1(w), rs2 |-> rs2(w), imm |-> operands(w).imm,
          func3 |-> func3(w), alu_op |-> operation(w).alu_op, br_op |-> operation(w).br_op,
          exe_flags |-> operands(w).flags \cup operation(w).flags, fu_type |-> operation(w).fu_type]

------------------------------------------------------------------------------
decoded(core, w) ==
    CASE core = 1 -> InOrder!decode(w)
      [] core = 2 -> decode(w)
      [] core = 3 -> decode_3(w)

has(d, flag) == flag \in d.exe_flags

(* regfile_read: the operands, of which one may be the control register c. *)
rs1_data(d, x) == IF has(d, "use_rs1") /\ d.rs1 # 0 THEN x ELSE 0

rs2_data(d, y, c) ==
    CASE has(d, "is_csr") -> c
      [] ~has(d, "is_csr") /\ has(d, "use_rs2") /\ d.rs2 # 0 -> y
      [] OTHER -> 0

(* alu_unit, execute_alu_op *)
alu_s1(d, x, PC) ==
    LET s1 == CASE has(d, "alu_s1_PC") -> PC
                [] ~has(d, "alu_s1_PC") /\ has(d, "alu_s1_rs1") -> d.rs1
                [] OTHER -> rs1_data(d, x)
    IN  IF has(d, "alu_s1_inv") THEN BitNot(s1) ELSE s1

alu_s2(d, y, c) == IF has(d, "alu_s2_imm") THEN number(d.imm) ELSE rs2_data(d, y, c)

(* Mutated: an arithmetic shift brings in zeros. *)
alu_shifted_zeros(op, a, b) ==
    IF op = "SRA" THEN alu("SRL", a, b % 32)
    ELSE IF op \in {"SLL", "SRL"} THEN alu(op, a, b % 32) ELSE alu(op, a, b)

alu_shifted(op, a, b) == IF op \in {"SLL", "SRL", "SRA"} THEN alu(op, a, b % 32) ELSE alu(op, a, b)

alu_result(d, x, y, PC, c) == alu_shifted(d.alu_op, alu_s1(d, x, PC), alu_s2(d, y, c))

(* branch_unit, execute_br_op *)
taken(d, a, b) ==
    CASE d.br_op = "NONE"           -> FALSE
      [] d.br_op \in {"JAL", "JALR"} -> TRUE
      [] d.br_op = "BEQ"            -> a = b
      [] d.br_op = "BNE"            -> a # b
      [] d.br_op = "BLT"            -> Signed(a) < Signed(b)
      [] d.br_op = "BGE"            -> Signed(a) >= Signed(b)
      [] d.br_op = "BLTU"           -> a < b
      [] d.br_op = "BGEU"           -> a >= b

branches(d, x, y, c) == taken(d, rs1_data(d, x), rs2_data(d, y, c))

(* Where each core goes on.  project1 clears the lowest bit of JALR's target,
   and goes to JAL's from decode. *)
next_PC_1(d, x, y, PC, c) ==
    CASE d.br_op = "JAL"  -> Wrap(PC + number(d.imm))
      [] d.br_op = "JALR" -> 2 * (alu_result(d, x, y, PC, c) \div 2)
      [] OTHER -> IF branches(d, x, y, c) THEN alu_result(d, x, y, PC, c) ELSE Wrap(PC + 4)

next_PC_2(d, x, y, PC, c) ==
    IF d.br_op # "NONE" /\ branches(d, x, y, c) THEN alu_result(d, x, y, PC, c) ELSE Wrap(PC + 4)

(* BRU::tick *)
next_PC_3(d, x, y, PC, c) ==
    IF d.fu_type = "BRU" /\ branches(d, x, y, c) THEN alu_result(d, x, y, PC, c) ELSE Wrap(PC + 4)

next_PC(core, d, x, y, PC, c) ==
    CASE core = 1 -> next_PC_1(d, x, y, PC, c)
      [] core = 2 -> next_PC_2(d, x, y, PC, c)
      [] core = 3 -> next_PC_3(d, x, y, PC, c)

(* What is left in rd by all but the loads: branch_unit and mem_access. *)
rd_data_12(d, x, y, PC, c) ==
    CASE d.br_op \in {"JAL", "JALR"} -> Wrap(PC + 4)
      [] has(d, "is_csr")            -> rs2_data(d, y, c)
      [] OTHER                       -> alu_result(d, x, y, PC, c)

(* ALU::tick, BRU::tick and SFU::tick *)
rd_data_3(d, x, y, PC, c) ==
    CASE d.fu_type = "ALU" -> alu_result(d, x, y, PC, c)
      [] d.fu_type = "BRU" -> Wrap(PC + 4)
      [] d.fu_type = "SFU" -> c

rd_data(core, d, x, y, PC, c) ==
    IF core = 3 THEN rd_data_3(d, x, y, PC, c) ELSE rd_data_12(d, x, y, PC, c)

(* The load's result, of the bytes from its address on: project1 and project2
   read as many as it asks for, project3 gets four from the cache. *)
data_width(d) == 8 * (2 ^ (d.func3 % 4))

loaded_1(d, bytes) ==
    LET read_data == zext(bytes, data_width(d))
    IN  IF d.func3 \in {0, 1} THEN sext(read_data, data_width(d)) ELSE read_data

loaded_2(d, bytes) ==
    LET read_data == zext(bytes, data_width(d))
    IN  IF d.func3 \in {0, 1, 2} THEN sext(read_data, data_width(d)) ELSE read_data

loaded_3(d, bytes) ==
    IF d.func3 \in {0, 1, 2} THEN sext(bytes, data_width(d)) ELSE zext(bytes, data_width(d))

loaded(core, d, bytes) ==
    CASE core = 1 -> loaded_1(d, bytes)
      [] core = 2 -> loaded_2(d, bytes)
      [] core = 3 -> loaded_3(d, bytes)
==============================================================================
