-------------------------------- MODULE Decode --------------------------------
(***************************************************************************)
(* What decode (decode.cpp) tells the stages about an instruction: the     *)
(* operands it uses, the ALU and branch operation, and what kind it is.    *)
(* An instruction is a record of its operation and its fields.  InstrDecode *)
(* has decode from the instruction word, and MCInstructions checks that it *)
(* says the same; the sub-word loads and stores are left out here.         *)
(***************************************************************************)
EXTENDS Alu

RegOps    == {"ADD", "SUB", "AND", "OR", "XOR", "SLT", "SLTU"}
ImmOps    == {"ADDI", "SLTIU"}
UpperOps  == {"LUI", "AUIPC"}
BranchOps == {"BEQ", "BNE", "BLT", "BGE", "BLTU", "BGEU"}
JumpOps   == {"JAL", "JALR"}
CsrOps    == {"CSRRW", "CSRRS", "CSRRC"}
Ops       == RegOps \cup ImmOps \cup UpperOps \cup BranchOps \cup JumpOps \cup CsrOps
                \cup {"LW", "SW", "FENCE", "ECALL"}

is_load(instr)  == instr.op = "LW"
is_store(instr) == instr.op = "SW"
is_csr(instr)   == instr.op \in CsrOps
is_exit(instr)  == instr.op = "ECALL"

use_rd(instr)  == instr.op \in RegOps \cup ImmOps \cup UpperOps \cup JumpOps \cup CsrOps \cup {"LW"}
use_rs1(instr) == instr.op \in RegOps \cup ImmOps \cup BranchOps \cup CsrOps \cup {"LW", "SW", "JALR"}
use_rs2(instr) == instr.op \in RegOps \cup BranchOps \cup {"SW"}

alu_s1_PC(instr)  == instr.op \in BranchOps \cup {"AUIPC", "JAL"}
alu_s1_inv(instr) == instr.op = "CSRRC"
alu_s2_imm(instr) == instr.op \in ImmOps \cup UpperOps \cup BranchOps \cup JumpOps \cup {"LW", "SW"}

AluOp(instr) ==
    CASE instr.op \in {"SUB", "AND", "OR", "XOR"} -> instr.op
      [] instr.op = "SLT"                         -> "LTI"
      [] instr.op \in {"SLTU", "SLTIU"}           -> "LTU"
      [] instr.op = "CSRRS"                       -> "OR"
      [] instr.op = "CSRRC"                       -> "AND"
      [] instr.op = "FENCE"                       -> "NONE"
      [] OTHER                                    -> "ADD"

(* The instruction reads register r. *)
Uses(instr, r) ==
    r # 0 /\ ((use_rs1(instr) /\ instr.rs1 = r) \/ (use_rs2(instr) /\ instr.rs2 = r))

(* BrOp is the operation itself; every other instruction has BrOp::NONE. *)
is_branch(instr) == instr.op \in BranchOps \cup JumpOps

(* The control and status registers that read as zero and ignore writes are
   MSTATUS here; the two that count are read-only. *)
MSTATUS  == 0
MINSTRET == 1
MCYCLE   == 2
Counters == {MINSTRET, MCYCLE}

Instruction(Reg) == [op : Ops, rd : Reg, rs1 : Reg, rs2 : Reg, imm : Word]

------------------------------------------------------------------------------
(* alu_unit and branch_unit (execute.cpp) compute with what decode says. *)
alu_unit(instr, rs1_data, rs2_data, PC) ==
    LET a == IF alu_s1_PC(instr) THEN PC ELSE rs1_data
        b == IF alu_s2_imm(instr) THEN instr.imm ELSE rs2_data
    IN  alu(AluOp(instr), IF alu_s1_inv(instr) THEN BitNot(a) ELSE a, b)

(* What the unit makes of a control register's value is that value again, as
   when nothing is written to it. *)
ComputesOldValue(instr) ==
    \A rs1_data \in IF instr.rs1 = 0 THEN {0} ELSE Word,
       old \in IF instr.imm \in Counters THEN Word ELSE {0} :
        alu_unit(instr, rs1_data, old, 0) = old

br_taken(instr, rs1_data, rs2_data) ==
    CASE instr.op \in JumpOps -> TRUE
      [] instr.op = "BEQ"     -> rs1_data = rs2_data
      [] instr.op = "BNE"     -> rs1_data # rs2_data
      [] instr.op = "BLT"     -> Signed(rs1_data) < Signed(rs2_data)
      [] instr.op = "BGE"     -> Signed(rs1_data) >= Signed(rs2_data)
      [] instr.op = "BLTU"    -> rs1_data < rs2_data
      [] instr.op = "BGEU"    -> rs1_data >= rs2_data
==============================================================================
