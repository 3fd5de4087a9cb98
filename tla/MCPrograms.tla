------------------------------ MODULE MCPrograms ------------------------------
(* The programs the pipelines are checked with.  They have four slots, and
   exits behind them. *)
EXTENDS Decode, TLC

ins(op, rd, rs1, rs2, imm) == [op |-> op, rd |-> rd, rs1 |-> rs1, rs2 |-> rs2, imm |-> imm]

exit == ins("ECALL", 0, 0, 0, 0)

Program(slots) == [a \in Word |-> IF a < 4 THEN slots[a] ELSE exit]

AllPrograms(alphabet) == {Program(slots) : slots \in [0 .. 3 -> alphabet]}

MCReg == {0, 1, 2}

MCMemories == {[a \in Word |-> (a + 3) % 8]}

(* All pairs and triples of neighbours from the alphabet are in flight
   together: they forward, stall, branch over each other and loop. *)
MCNeighbours == AllPrograms({
    ins("ADDI", 1, 1, 0, 1),
    ins("ADD",  1, 1, 2, 0),
    ins("LW",   1, 2, 0, 0),
    ins("SW",   0, 1, 2, 1),
    ins("BNE",  0, 1, 2, 2),
    ins("BEQ",  0, 1, 0, 7),
    ins("JAL",  2, 0, 0, 2),
    ins("JALR", 1, 2, 0, 1),
    ins("CSRRS", 2, 0, 0, MSTATUS)})

(* Every operation once, on operands of both signs that have just been
   computed, and its result stored, also the one that register 0 does not
   keep.  A CSR instruction whose ALU result is not the register's old value
   is left to MCWritePrograms. *)
MCEvery ==
    {Program((0 :> ins("ADDI", 1, 0, 0, a)) @@ (1 :> ins("ADDI", 2, 0, 0, b))
             @@ (2 :> ins(op, rd, 1, 2, IF op \in CsrOps THEN MSTATUS ELSE 3))
             @@ (3 :> ins("SW", 0, 0, rd, 1))) :
        op \in Ops \ {"CSRRW", "CSRRS"}, rd \in {0, 1}, a \in {2, 3, 6}, b \in {2, 5}}

MCEveryProgram == MCNeighbours \cup MCEvery

(* csrrw x2, mstatus, x1 among additions. *)
MCWritePrograms == AllPrograms({
    ins("ADDI", 1, 0, 0, 1),
    ins("CSRRW", 2, 1, 0, MSTATUS),
    ins("ADD", 1, 2, 0, 0)})
==============================================================================
