---------------------------- MODULE InOrderDecode ----------------------------
(***************************************************************************)
(* Core::decode of project1.  It differs from project2's in how it puts    *)
(* immediates together, in that an immediate shift keeps the seven bits    *)
(* over its count, and in the operation of what is not in RV32I.  The      *)
(* multiplications that its ALU knows are never decoded.                   *)
(***************************************************************************)
EXTENDS InstrWord

type_flags(w) ==
    CASE is(w, {"R"})                   -> {"use_rd", "use_rs1", "use_rs2"}
      [] is(w, {"I", "L", "JALR"})      -> {"use_rd", "use_rs1", "use_imm", "alu_s2_imm"}
      [] is(w, {"S", "B"})              -> {"use_rs1", "use_rs2", "use_imm", "alu_s2_imm"}
      [] is(w, {"LUI", "AUIPC", "JAL"}) -> {"use_rd", "use_imm", "alu_s2_imm"}
      [] is(w, {"FENCE"})               -> {}
      [] is(w, {"SYS"}) -> {"use_imm"} \cup {f \in {"use_rd"} : func3(w) # 0}
                               \cup {f \in {"use_rs1"} : func3(w) \in 1 .. 4}

(* Left shifts of a part, and the union of the parts. *)
left(bits, n) == [k \in Position |-> IF k >= n THEN bits[k - n] ELSE 0]

part(w, shift, width) == zext(shifted(w, shift), width)

union(parts) == [k \in Position |-> IF \E p \in parts : p[k] = 1 THEN 1 ELSE 0]

imm(w) ==
    CASE is(w, {"I", "L", "JALR"}) -> signed_shifted(w, 20)
      [] is(w, {"SYS"})            -> part(w, 20, 12)
      [] is(w, {"S"})              -> union({part(w, 7, 5), left(signed_shifted(w, 25), 5)})
      [] is(w, {"B"})              -> union({left(part(w, 8, 4), 1), left(part(w, 25, 6), 5),
                                             left(part(w, 7, 1), 11), left(signed_shifted(w, 31), 12)})
      [] is(w, {"LUI", "AUIPC"})   -> left(shifted(w, 12), 12)
      [] is(w, {"JAL"})            -> union({left(part(w, 21, 10), 1), left(part(w, 20, 1), 11),
                                             left(part(w, 12, 8), 12), left(signed_shifted(w, 31), 20)})
      [] is(w, {"R", "FENCE"})     -> Zeros

SUB_SRA == 32   \* func7 of the other operation

(* The operations that func7 chooses; one there is no case for is NONE. *)
add_sub(w) ==
    CASE is(w, {"I"}) \/ func7(w) = 0          -> "ADD"
      [] is(w, {"R"}) /\ func7(w) = SUB_SRA    -> "SUB"
      [] OTHER                                 -> "NONE"

right_shift(w) ==
    CASE func7(w) = 0       -> "SRL"
      [] func7(w) = SUB_SRA -> "SRA"
      [] OTHER              -> "NONE"

r_alu_op(w) ==
    CASE func3(w) = 0 -> add_sub(w)
      [] func3(w) = 1 -> IF is(w, {"R"}) \/ func7(w) = 0 THEN "SLL" ELSE "NONE"
      [] func3(w) = 2 -> "LTI"
      [] func3(w) = 3 -> "LTU"
      [] func3(w) = 4 -> "XOR"
      [] func3(w) = 5 -> right_shift(w)
      [] func3(w) = 6 -> "OR"
      [] func3(w) = 7 -> "AND"

csr_alu_op(w) ==
    CASE func3(w) \in {0, 1, 5} -> "ADD"
      [] func3(w) \in {2, 6}    -> "OR"
      [] func3(w) \in {3, 7}    -> "AND"

alu_op(w) ==
    CASE is(w, {"R", "I"}) -> r_alu_op(w)
      [] is(w, {"SYS"})    -> csr_alu_op(w)
      [] is(w, {"FENCE"})  -> "NONE"
      [] OTHER             -> "ADD"

b_br_op(w) ==
    CASE func3(w) = 0 -> "BEQ"
      [] func3(w) = 1 -> "BNE"
      [] func3(w) = 4 -> "BLT"
      [] func3(w) = 5 -> "BGE"
      [] func3(w) = 6 -> "BLTU"
      [] func3(w) = 7 -> "BGEU"
      [] OTHER        -> "NONE"

br_op(w) ==
    CASE is(w, {"JAL"})  -> "JAL"
      [] is(w, {"JALR"}) -> "JALR"
      [] is(w, {"B"})    -> b_br_op(w)
      [] OTHER           -> "NONE"

ECALL  == 0
EBREAK == 1
Returns == {2, 258, 770}   \* URET, SRET, MRET

op_flags(w) ==
    CASE is(w, {"AUIPC", "B", "JAL"}) -> {"alu_s1_PC"}
      [] is(w, {"L"})                 -> {"is_load"}
      [] is(w, {"S"})                 -> {"is_store"}
      [] is(w, {"SYS"}) /\ func3(w) = 0 ->
             {f \in {"is_exit"} : field(w, 20, 12) \in {ECALL, EBREAK}}
      [] is(w, {"SYS"}) /\ func3(w) # 0 ->
             {"is_csr", "alu_s2_csr"} \cup {f \in {"alu_s1_inv"} : func3(w) \in {3, 7}}
                                      \cup {f \in {"alu_s1_rs1"} : func3(w) \in {5, 6, 7}}
      [] OTHER -> {}

aborts(w) ==
    \/ is(w, {"SYS"}) /\ func3(w) = 4
    \/ is(w, {"SYS"}) /\ func3(w) = 0 /\ field(w, 20, 12) \notin {ECALL, EBREAK} \cup Returns

decode(w) ==
    IF ~known(w) THEN Null
    ELSE [found |-> TRUE, rd |-> rd(w), rs1 |-> rs1(w), rs2 |-> rs2(w), imm |-> imm(w),
          func3 |-> func3(w), alu_op |-> alu_op(w), br_op |-> br_op(w),
          exe_flags |-> type_flags(w) \cup op_flags(w)]
==============================================================================
