---------------------------- MODULE SequentialISA ----------------------------
(***************************************************************************)
(* What a program means: RV32I, one instruction at a time.  The pipelined  *)
(* cores promise to be indistinguishable from this machine.                *)
(*                                                                         *)
(* The PC counts instructions.  Memory is data only, read and written by   *)
(* words: a program does not write over its code.  A control and status    *)
(* register either reads as zero and ignores writes, or is a counter, whose*)
(* value the architecture leaves open.                                     *)
(***************************************************************************)
EXTENDS Alu

CONSTANTS Reg,       \* the registers, 0 among them
          Counters   \* the CSR numbers that count

VARIABLES code,    \* the program: an instruction for every PC
          pc,
          regs,
          mem,
          exited

vars == <<code, pc, regs, mem, exited>>

I  == code[pc]
x1 == regs[I.rs1]
x2 == regs[I.rs2]

Link == Wrap(pc + 1)

Written(value) == IF I.rd = 0 THEN regs ELSE [regs EXCEPT ![I.rd] = value]

Result ==
    CASE I.op = "ADD"   -> Wrap(x1 + x2)
      [] I.op = "SUB"   -> Wrap(x1 - x2)
      [] I.op = "AND"   -> BitAnd(x1, x2)
      [] I.op = "OR"    -> BitOr(x1, x2)
      [] I.op = "XOR"   -> BitXor(x1, x2)
      [] I.op = "SLT"   -> Flag(Signed(x1) < Signed(x2))
      [] I.op = "SLTU"  -> Flag(x1 < x2)
      [] I.op = "ADDI"  -> Wrap(x1 + I.imm)
      [] I.op = "SLTIU" -> Flag(x1 < I.imm)
      [] I.op = "LUI"   -> I.imm
      [] I.op = "AUIPC" -> Wrap(pc + I.imm)

Taken ==
    CASE I.op = "BEQ"  -> x1 = x2
      [] I.op = "BNE"  -> x1 # x2
      [] I.op = "BLT"  -> Signed(x1) < Signed(x2)
      [] I.op = "BGE"  -> Signed(x1) >= Signed(x2)
      [] I.op = "BLTU" -> x1 < x2
      [] I.op = "BGEU" -> x1 >= x2

Compute ==
    /\ I.op \in {"ADD", "SUB", "AND", "OR", "XOR", "SLT", "SLTU", "ADDI", "SLTIU", "LUI", "AUIPC"}
    /\ regs' = Written(Result)
    /\ pc' = Link
    /\ UNCHANGED mem

Load ==
    /\ I.op = "LW"
    /\ regs' = Written(mem[Wrap(x1 + I.imm)])
    /\ pc' = Link
    /\ UNCHANGED mem

Store ==
    /\ I.op = "SW"
    /\ mem' = [mem EXCEPT ![Wrap(x1 + I.imm)] = x2]
    /\ pc' = Link
    /\ UNCHANGED regs

Branch ==
    /\ I.op \in {"BEQ", "BNE", "BLT", "BGE", "BLTU", "BGEU"}
    /\ pc' = IF Taken THEN Wrap(pc + I.imm) ELSE Link
    /\ UNCHANGED <<regs, mem>>

Jump ==
    /\ I.op \in {"JAL", "JALR"}
    /\ pc' = IF I.op = "JAL" THEN Wrap(pc + I.imm) ELSE Wrap(x1 + I.imm)
    /\ regs' = Written(Link)
    /\ UNCHANGED mem

(* The old value of the register goes to rd. *)
Csr ==
    /\ I.op \in {"CSRRW", "CSRRS", "CSRRC"}
    /\ \E old \in IF I.imm \in Counters THEN Word ELSE {0} : regs' = Written(old)
    /\ pc' = Link
    /\ UNCHANGED mem

Fence ==
    /\ I.op = "FENCE"
    /\ pc' = Link
    /\ UNCHANGED <<regs, mem>>

Exit ==
    /\ I.op = "ECALL"
    /\ pc' = Link
    /\ UNCHANGED <<regs, mem>>

Step ==
    /\ ~exited
    /\ Compute \/ Load \/ Store \/ Branch \/ Jump \/ Csr \/ Fence \/ Exit
    /\ exited' = (I.op = "ECALL")
    /\ UNCHANGED code

Init ==
    /\ pc = 0
    /\ regs = [r \in Reg |-> 0]
    /\ mem \in [Word -> Word]
    /\ exited = FALSE

Spec == Init /\ [][Step]_vars
==============================================================================
