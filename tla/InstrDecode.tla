----------------------------- MODULE InstrDecode -----------------------------
(***************************************************************************)
(* Core::decode of project2, from an instruction word to the fields and    *)
(* flags the stages work with.  exe_flags is the set of the flags that are *)
(* raised.  The words for which the code aborts are told by aborts.        *)
(***************************************************************************)
EXTENDS InstrWord

is_shift(w) == is(w, {"I"}) /\ func3(w) \in {1, 5}

type_flags(w) ==
    CASE is(w, {"R"})                   -> {"use_rd", "use_rs1", "use_rs2"}
      [] is(w, {"I", "L", "JALR"})      -> {"use_rd", "use_rs1", "use_imm", "alu_s2_imm"}
      [] is(w, {"S", "B"})              -> {"use_rs1", "use_rs2", "use_imm", "alu_s2_imm"}
      [] is(w, {"LUI", "AUIPC", "JAL"}) -> {"use_rd", "use_imm", "alu_s2_imm"}
      [] is(w, {"FENCE"})               -> {}
      [] is(w, {"SYS"}) -> {"use_imm"} \cup {f \in {"use_rd"} : func3(w) # 0}
                               \cup {f \in {"use_rs1"} : func3(w) \in 1 .. 4}

i_imm(w) == IF is_shift(w) THEN zext(shifted(w, 20), 5) ELSE sext(shifted(w, 20), 12)

s_imm(w) == sext([k \in Position |-> CASE k \in 0 .. 4  -> w[k + 7]
                                       [] k \in 5 .. 11 -> w[k + 20]
                                       [] OTHER         -> 0], 12)

(* Mutated: bit 11 is read where the other formats have it. *)
b_imm_high(w) == sext([k \in Position |-> CASE k \in 1 .. 4  -> w[k + 7]
                                            [] k \in 5 .. 11 -> w[k + 20]
                                            [] k = 12        -> w[31]
                                            [] OTHER         -> 0], 13)

b_imm(w) == sext([k \in Position |-> CASE k \in 1 .. 4  -> w[k + 7]
                                       [] k \in 5 .. 10 -> w[k + 20]
                                       [] k = 11        -> w[7]
                                       [] k = 12        -> w[31]
                                       [] OTHER         -> 0], 13)

u_imm(w) == [k \in Position |-> IF k >= 12 THEN w[k] ELSE 0]

j_imm(w) == sext([k \in Position |-> CASE k \in 1 .. 10  -> w[k + 20]
                                       [] k = 11         -> w[20]
                                       [] k \in 12 .. 19 -> w[k]
                                       [] k = 20         -> w[31]
                                       [] OTHER          -> 0], 21)

imm(w) ==
    CASE is(w, {"I", "L", "JALR"}) -> i_imm(w)
      [] is(w, {"S"})              -> s_imm(w)
      [] is(w, {"B"})              -> b_imm(w)
      [] is(w, {"LUI", "AUIPC"})   -> u_imm(w)
      [] is(w, {"JAL"})            -> j_imm(w)
      [] is(w, {"SYS"})            -> shifted(w, 20)
      [] is(w, {"R", "FENCE"})     -> Zeros

(* The operation of register-register and register-immediate instructions. *)
r_alu_op(w) ==
    CASE func3(w) = 0 -> IF is(w, {"R"}) /\ func7(w) # 0 THEN "SUB" ELSE "ADD"
      [] func3(w) = 1 -> "SLL"
      [] func3(w) = 2 -> "LTI"
      [] func3(w) = 3 -> "LTU"
      [] func3(w) = 4 -> "XOR"
      [] func3(w) = 5 -> IF func7(w) # 0 THEN "SRA" ELSE "SRL"
      [] func3(w) = 6 -> "OR"
      [] func3(w) = 7 -> "AND"

csr_alu_op(w) ==
    CASE func3(w) \in {0, 1, 5} -> "ADD"
      [] func3(w) \in {2, 6}    -> "OR"
      [] func3(w) \in {3, 7}    -> "AND"

alu_op(w) ==
    CASE is(w, {"R", "I"}) -> r_alu_op(w)
      [] is(w, {"SYS"})    -> csr_alu_op(w)
      [] is(w, {"FENCE"})  -> "NONE"
      [] OTHER             -> "ADD"

b_br_op(w) ==
    CASE func3(w) = 0 -> "BEQ"
      [] func3(w) = 1 -> "BNE"
      [] func3(w) = 4 -> "BLT"
      [] func3(w) = 5 -> "BGE"
      [] func3(w) = 6 -> "BLTU"
      [] func3(w) = 7 -> "BGEU"

br_op(w) ==
    CASE is(w, {"JAL"})  -> "JAL"
      [] is(w, {"JALR"}) -> "JALR"
      [] is(w, {"B"})    -> b_br_op(w)
      [] OTHER           -> "NONE"

ECALL  == 0
EBREAK == 1
Returns == {2, 258, 770}   \* URET, SRET, MRET

op_flags(w) ==
    CASE is(w, {"AUIPC", "B", "JAL"}) -> {"alu_s1_PC"}
      [] is(w, {"L"})                 -> {"is_load"}
      [] is(w, {"S"})                 -> {"is_store"}
      [] is(w, {"SYS"}) /\ func3(w) = 0 ->
             {f \in {"is_exit"} : field(w, 20, 12) \in {ECALL, EBREAK}}
      [] is(w, {"SYS"}) /\ func3(w) # 0 ->
             {"is_csr", "alu_s2_csr"} \cup {f \in {"alu_s1_inv"} : func3(w) \in {3, 7}}
                                      \cup {f \in {"alu_s1_rs1"} : func3(w) \in {5, 6, 7}}
      [] OTHER -> {}

aborts(w) ==
    \/ is(w, {"B"}) /\ func3(w) \in {2, 3}
    \/ is(w, {"SYS"}) /\ func3(w) = 4
    \/ is(w, {"SYS"}) /\ func3(w) = 0 /\ field(w, 20, 12) \notin {ECALL, EBREAK} \cup Returns

decode(w) ==
    IF ~known(w) THEN Null
    ELSE [found |-> TRUE, rd |-> rd(w), rs1 |-> rs1(w), rs2 |-> rs2(w), imm |-> imm(w),
          func3 |-> func3(w), alu_op |-> alu_op(w), br_op |-> br_op(w),
          exe_flags |-> type_flags(w) \cup op_flags(w)]
==============================================================================
