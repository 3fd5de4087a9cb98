------------------------------ MODULE InstrTrace ------------------------------
(***************************************************************************)
(* The trace line of an instruction (op_string and operator<< of Instr in  *)
(* decode.cpp): its name and its operands.  project2 and project3 have one *)
(* op_string; project1's looks at func7 more closely.  Of operator<< this  *)
(* is what it lists and in which order.                                    *)
(***************************************************************************)
EXTENDS InstrWord, Sequences

Abort == "abort"

(* The names by func3, from 0 on. *)
RegNames    == <<"ADD", "SLL", "SLT", "SLTU", "XOR", "SRL", "OR", "AND">>
ImmNames    == <<"ADDI", "SLLI", "SLTI", "SLTIU", "XORI", "SRLI", "ORI", "ANDI">>
BranchNames == <<"BEQ", "BNE", Abort, Abort, "BLT", "BGE", "BLTU", "BGEU">>
LoadNames   == <<"LB", "LH", "LW", "LD", "LBU", "LHU", "LWU", Abort>>
StoreNames  == <<"SB", "SH", "SW", "SD", Abort, Abort, Abort, Abort>>
CsrNames    == <<Abort, "CSRRW", "CSRRS", "CSRRC", Abort, "CSRRWI", "CSRRSI", "CSRRCI">>

(* Bit 5 of func7; project1 also looks at bit 0. *)
is_other(w) == w[30] = 1
is_mul(w)   == w[25] = 1

(* Mutated: the bit that tells a multiplication is taken. *)
shift_name_mul(w, logical, arithmetic) == IF is_mul(w) THEN arithmetic ELSE logical

shift_name(w, logical, arithmetic) == IF is_other(w) THEN arithmetic ELSE logical

r_name_23(w) ==
    CASE func3(w) = 0 -> IF func7(w) # 0 THEN "SUB" ELSE "ADD"
      [] func3(w) = 5 -> shift_name(w, "SRL", "SRA")
      [] OTHER        -> RegNames[func3(w) + 1]

add_name(w) ==
    CASE func7(w) = 0  -> "ADD"
      [] func7(w) = 32 -> "SUB"
      [] func7(w) = 1  -> "MUL"
      [] OTHER         -> Abort

r_name_1(w) ==
    CASE func3(w) = 0 -> add_name(w)
      [] func3(w) \in 1 .. 3 /\ is_mul(w) -> <<"MULH", "MULHSU", "MULHU">>[func3(w)]
      [] func3(w) = 5 -> shift_name(w, "SRL", "SRA")
      [] OTHER        -> RegNames[func3(w) + 1]

i_name(w) == IF func3(w) = 5 THEN shift_name(w, "SRLI", "SRAI") ELSE ImmNames[func3(w) + 1]

sys_name(w) ==
    LET imm12 == field(w, 20, 12)
    IN  CASE func3(w) # 0 -> CsrNames[func3(w) + 1]
          [] func3(w) = 0 /\ imm12 \in {0, 1, 2} -> <<"ECALL", "EBREAK", "URET">>[imm12 + 1]
          [] func3(w) = 0 /\ imm12 = 258 -> "SRET"
          [] func3(w) = 0 /\ imm12 = 770 -> "MRET"
          [] OTHER -> Abort

(* op_string, but for the register-register instructions, which are r_name. *)
op_string(w, r_name) ==
    CASE is(w, {"R"})     -> r_name
      [] is(w, {"I"})     -> i_name(w)
      [] is(w, {"B"})     -> BranchNames[func3(w) + 1]
      [] is(w, {"L"})     -> LoadNames[func3(w) + 1]
      [] is(w, {"S"})     -> StoreNames[func3(w) + 1]
      [] is(w, {"SYS"})   -> sys_name(w)
      [] is(w, {"LUI"})   -> "LUI"
      [] is(w, {"AUIPC"}) -> "AUIPC"
      [] is(w, {"JAL"})   -> "JAL"
      [] is(w, {"JALR"})  -> "JALR"
      [] is(w, {"FENCE"}) -> "FENCE"

(* operator<<: the registers and the immediate that are flagged as used. *)
listed(d) ==
    LET shown(flag, operand) == IF flag \in d.exe_flags THEN <<operand>> ELSE <<>>
    IN  shown("use_rd", d.rd) \o shown("use_rs1", d.rs1) \o shown("use_rs2", d.rs2)
            \o shown("use_imm", d.imm)

(* The line on each core. *)
op_string_1(w) == op_string(w, r_name_1(w))

trace_1(w, d) == [name |-> op_string_1(w), operands |-> listed(d)]

trace_2(w, d) == [name |-> op_string(w, r_name_23(w)), operands |-> listed(d)]

trace_3(w, d) == [name |-> op_string(w, r_name_23(w)), operands |-> listed(d)]
==============================================================================
