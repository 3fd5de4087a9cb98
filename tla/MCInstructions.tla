---------------------------- MODULE MCInstructions ----------------------------
(***************************************************************************)
(* One instruction after the other, each on the three cores: assembled as  *)
(* RV32I says, decoded and executed as InstrExecute says, and held against *)
(* what RV32I makes of it.                                                 *)
(***************************************************************************)
EXTENDS InstrExecute, InstrTrace

LOCAL INSTANCE TLC

R == INSTANCE RV32I

(* What the pipelines' models take decode to say. *)
D == INSTANCE Decode

VARIABLE current   \* the instruction that runs, its operands and its PC

Idle == [op |-> "none"]

------------------------------------------------------------------------------
Pattern(lo, hi) == {[k \in Position |-> IF k \in s THEN 1 ELSE 0] :
                       s \in {{k} : k \in lo .. hi} \cup {{}, lo .. hi}}

BitsOf(n) == [k \in Position |-> IF k < 12 THEN Bit(n, k) ELSE 0]

MSTATUS == BitsOf(768)
MCYCLE  == BitsOf(2816)

(* The immediates an instruction can have: none of its bits, each, and all. *)
Immediates(op) ==
    CASE op \in DOMAIN R!CsrCodes -> {MSTATUS, MCYCLE}
      [] op = "ECALL"             -> {Zeros, BitsOf(1)}
      [] op = "FENCE"             -> {Zeros}
      [] op \notin DOMAIN R!CsrCodes \cup {"ECALL", "FENCE"} ->
             LET fmt == R!Format(op)
             IN  CASE fmt = "R" -> {Zeros}
                   [] fmt = "H" -> Pattern(0, 3)
                   [] fmt \in {"I", "S"} -> {sext(p, 12) : p \in Pattern(0, 11)}
                   [] fmt = "B" -> {sext(p, 13) : p \in Pattern(1, 12)}
                   [] fmt = "U" -> Pattern(12, 31)
                   [] fmt = "J" -> {sext(p, 21) : p \in Pattern(1, 20)}

Some(op) == {imm0 \in Immediates(op) : imm0 = Zeros \/ imm0[1] = 1 \/ imm0[12] = 1 \/ imm0[9] = 1}

Registers == {<<0, 0, 0>>, <<1, 2, 4>>, <<8, 16, 31>>, <<31, 1, 16>>, <<2, 0, 8>>}

(* Zero, one, a count with bits above the lowest five, and the ends of the
   signed range. *)
Values == {0, 1, 33, WordSize \div 2 - 1, WordSize \div 2, WordSize - 1}

Instruct(op, rs, imm0) == [op |-> op, rd |-> rs[1], rs1 |-> rs[2], rs2 |-> rs[3], imm |-> imm0]

Run(i, x, y, pc) == [op |-> i.op, i |-> i, x |-> x, y |-> y, pc |-> pc]

Accesses == DOMAIN R!LoadCodes \cup DOMAIN R!StoreCodes

IsRegShift(op) == op \in {"SLL", "SRL", "SRA"}

(* A register shift of the word is by fewer places than the word has. *)
MCRuns ==
    UNION {{Run(Instruct(op, rs, imm0), IF rs[2] = 0 THEN 0 ELSE 6, IF rs[3] = 0 THEN 0 ELSE 5, 64) :
                rs \in Registers, imm0 \in Immediates(op)} : op \in R!Mnemonics}
    \cup
    UNION {{Run(Instruct(op, <<1, 2, 4>>, imm0), x, y, pc) :
                imm0 \in Some(op), x \in Values, y \in {v \in Values : IsRegShift(op) => v % 32 < XLEN},
                pc \in {0, WordSize - 4}} : op \in R!Mnemonics \ Accesses}

Init == current = Idle

Execute == current = Idle /\ \E run \in MCRuns : current' = run

Retire == current # Idle /\ current' = Idle

Next == Execute \/ Retire

Spec == Init /\ [][Next]_current

------------------------------------------------------------------------------
Cores == {1, 2, 3}

word == R!Assemble(current.i)

Fmt == R!Format(current.op)

IsControl == current.op \in DOMAIN R!CsrCodes
IsMemory  == current.op \in Accesses
IsSystem  == current.op \in {"ECALL", "FENCE"}

(* What the format of the instruction gives it. *)
WritesRd(core) == Fmt \in {"R", "I", "U", "J", "H"} /\ ~IsSystem /\ ~(core = 3 /\ current.i.rd = 0)
ReadsRs1 == Fmt \in {"R", "I", "S", "B", "H"} /\ ~IsSystem
                /\ current.op \notin {"CSRRWI", "CSRRSI", "CSRRCI"}
ReadsRs2 == Fmt \in {"R", "S", "B"}
HasImmediate == Fmt # "R" /\ current.op # "FENCE"

(* Registers and immediates come out of the word as they were put in; only
   project1 leaves func7 over the count of an immediate shift. *)
FieldsOf(core, d) ==
    LET i == current.i
    IN  /\ has(d, "use_rd") = WritesRd(core) /\ (WritesRd(core) => d.rd = i.rd)
        /\ has(d, "use_rs1") = ReadsRs1 /\ (ReadsRs1 => d.rs1 = i.rs1)
        /\ has(d, "use_rs2") = ReadsRs2 /\ (ReadsRs2 => d.rs2 = i.rs2)
        /\ HasImmediate =>
              IF core = 1 /\ Fmt = "H" THEN zext(d.imm, 5) = i.imm ELSE d.imm = i.imm

(* What the pipelines' models know of the instruction. *)
Summary == [op |-> current.op]

Summarised(d) ==
    current.op \in D!Ops =>
        /\ d.alu_op = D!AluOp(Summary)
        /\ (d.br_op # "NONE") = D!is_branch(Summary)
        /\ has(d, "is_load") = D!is_load(Summary) /\ has(d, "is_store") = D!is_store(Summary)
        /\ has(d, "is_csr") = D!is_csr(Summary)   /\ has(d, "is_exit") = D!is_exit(Summary)
        /\ has(d, "alu_s1_PC") = D!alu_s1_PC(Summary) /\ has(d, "alu_s2_imm") = D!alu_s2_imm(Summary)
        /\ has(d, "use_rs1") = D!use_rs1(Summary) /\ has(d, "use_rs2") = D!use_rs2(Summary)

(* Every word that an assembler makes is decoded by all three cores to what
   was assembled, never to a null pointer or an abort, and as the models of the
   pipelines assume (Core::decode of project1, project2 and project3: three
   copies of one function, with immediates put together in different ways). *)
DecodesTheEncoding ==
    current # Idle =>
        LET w == word
        IN  /\ ~aborts(w) /\ ~InOrder!aborts(w)
            /\ \A core \in Cores : LET d == decoded(core, w)
                                   IN  d.found /\ FieldsOf(core, d) /\ Summarised(d)
            /\ decoded(3, w).fu_type = "LSU" <=> IsMemory

(* The trace line of the instruction on a core. *)
traced(core, w, d) ==
    CASE core = 1 -> trace_1(w, d)
      [] core = 2 -> trace_2(w, d)
      [] core = 3 -> trace_3(w, d)

name == IF current.op = "ECALL" /\ current.i.imm = BitsOf(1) THEN "EBREAK" ELSE current.op

(* The operands in the assembler's order, the immediate last. *)
OperandsOf(core, d) ==
    LET i == current.i
        when(there, operand) == IF there THEN <<operand>> ELSE <<>>
    IN  when(WritesRd(core), i.rd) \o when(ReadsRs1, i.rs1) \o when(ReadsRs2, i.rs2)
            \o when(HasImmediate, d.imm)

(* The trace names the instruction that runs, with its operands in order, and
   printing it never aborts the simulation: op_string has its own tables, which
   agree with those of Core::decode and with the manual (decode.cpp of the three
   projects). *)
TraceNamesTheInstruction ==
    current # Idle =>
        \A core \in Cores :
            LET d == decoded(core, word)
            IN  traced(core, word, d) = [name |-> name, operands |-> OperandsOf(core, d)]

(* The counter reads as some number, the others as zero. *)
csr == IF IsControl /\ current.i.imm = MCYCLE THEN 9 ELSE 0

(* JALR to an odd address: project2 and project3 leave the lowest bit. *)
IsOddTarget == current.op = "JALR" /\ (current.x + number(current.i.imm)) % 2 = 1

(* On each core the instruction leaves in its register, in the PC and in a
   control register what RV32I says, at the ends of the ranges and across the
   end of the address space; for a JALR to an odd address on project1 alone
   (alu_unit, branch_unit and mem_access of project1 and project2; ALU, BRU and
   SFU of project3).  Counts above 31 are in the run, and right because
   alu_shifted takes their low five bits. *)
ResultsAreRV32I ==
    current # Idle =>
        LET w  == word
            i  == current.i
            x  == current.x
            y  == current.y
            pc == current.pc
        IN  \A core \in Cores :
              LET d == decoded(core, w)
              IN  /\ has(d, "use_rd") /\ ~IsMemory =>
                        rd_data(core, d, x, y, pc, csr) = R!Result(i, x, y, pc, csr)
                  /\ ~IsOddTarget \/ core = 1 =>
                        next_PC(core, d, x, y, pc, csr) = R!NextPC(i, x, y, pc)
                  /\ IsControl /\ csr = 0 =>
                        alu_result(d, x, y, pc, csr) = R!Control(i, x)

(* Four bytes with the sign bits of bytes and halves in every combination. *)
Bytes == {[k \in Position |-> IF k \in s THEN 1 ELSE 0] : s \in SUBSET {0, 7, 8, 15, 16, 31}}

(* Whatever is in memory behind the byte or half it loads, a load gives the
   value extended from that alone (mem_access of project1 and project2,
   LSU::tick of project3 on the four bytes the cache returns). *)
LoadsAreExtended ==
    current.op \in DOMAIN R!LoadCodes =>
        \A core \in Cores :
            LET d == decoded(core, word)
            IN  \A bytes \in Bytes : loaded(core, d, bytes) = R!Loaded(current.i, bytes)
==============================================================================
