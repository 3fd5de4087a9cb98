-------------------------------- MODULE RV32I --------------------------------
(***************************************************************************)
(* RV32I as its manual defines it: the encoding of each instruction, and   *)
(* what it does.  This is the reference the three cores are held to.  An   *)
(* instruction has an operation, registers and an immediate, which is its  *)
(* thirty-two bits; values and addresses have XLEN bits.                   *)
(***************************************************************************)
EXTENDS InstrWord

LOCAL INSTANCE TLC

Enc(fmt, opc, f3, f7) == [fmt |-> fmt, opcode |-> opc, func3 |-> f3, func7 |-> f7]

BranchCodes == ("BEQ" :> 0) @@ ("BNE" :> 1) @@ ("BLT" :> 4) @@ ("BGE" :> 5) @@ ("BLTU" :> 6) @@ ("BGEU" :> 7)
LoadCodes   == ("LB" :> 0) @@ ("LH" :> 1) @@ ("LW" :> 2) @@ ("LBU" :> 4) @@ ("LHU" :> 5)
StoreCodes  == ("SB" :> 0) @@ ("SH" :> 1) @@ ("SW" :> 2)
CsrCodes    == ("CSRRW" :> 1) @@ ("CSRRS" :> 2) @@ ("CSRRC" :> 3)
                   @@ ("CSRRWI" :> 5) @@ ("CSRRSI" :> 6) @@ ("CSRRCI" :> 7)
RegCodes    == ("ADD" :> 0) @@ ("SLL" :> 1) @@ ("SLT" :> 2) @@ ("SLTU" :> 3)
                   @@ ("XOR" :> 4) @@ ("SRL" :> 5) @@ ("OR" :> 6) @@ ("AND" :> 7)
ImmCodes    == ("ADDI" :> 0) @@ ("SLTI" :> 2) @@ ("SLTIU" :> 3)
                   @@ ("XORI" :> 4) @@ ("ORI" :> 6) @@ ("ANDI" :> 7)

Encoding ==
       [op \in DOMAIN BranchCodes |-> Enc("B", 99, BranchCodes[op], 0)]
    @@ [op \in DOMAIN LoadCodes   |-> Enc("I", 3, LoadCodes[op], 0)]
    @@ [op \in DOMAIN StoreCodes  |-> Enc("S", 35, StoreCodes[op], 0)]
    @@ [op \in DOMAIN CsrCodes    |-> Enc("I", 115, CsrCodes[op], 0)]
    @@ [op \in DOMAIN RegCodes    |-> Enc("R", 51, RegCodes[op], 0)]
    @@ [op \in DOMAIN ImmCodes    |-> Enc("I", 19, ImmCodes[op], 0)]
    @@ ("SUB"  :> Enc("R", 51, 0, 32)) @@ ("SRA"  :> Enc("R", 51, 5, 32))
    @@ ("SLLI" :> Enc("H", 19, 1, 0))  @@ ("SRLI" :> Enc("H", 19, 5, 0)) @@ ("SRAI" :> Enc("H", 19, 5, 32))
    @@ ("LUI"  :> Enc("U", 55, 0, 0))  @@ ("AUIPC" :> Enc("U", 23, 0, 0))
    @@ ("JAL"  :> Enc("J", 111, 0, 0)) @@ ("JALR" :> Enc("I", 103, 0, 0))
    @@ ("FENCE" :> Enc("I", 15, 0, 0)) @@ ("ECALL" :> Enc("I", 115, 0, 0))

Mnemonics == DOMAIN Encoding

Format(op) == Encoding[op].fmt

(* The bit of the immediate that is at position k of the word.  A shift by an
   immediate, format H, has a count and a func7. *)
ImmediateAt(fmt, k) ==
    CASE fmt \in {"I", "H"} -> k - 20
      [] fmt = "S" -> IF k < 12 THEN k - 7 ELSE k - 20
      [] fmt = "B" -> (CASE k = 7 -> 11 [] k \in 8 .. 11 -> k - 7 [] k = 31 -> 12 [] OTHER -> k - 20)
      [] fmt = "U" -> k
      [] fmt = "J" -> (CASE k \in 12 .. 19 -> k [] k = 20 -> 11 [] k = 31 -> 20 [] OTHER -> k - 20)

Assemble(i) ==
    LET e == Encoding[i.op]
        immediate(k) == i.imm[ImmediateAt(e.fmt, k)]
    IN  [k \in Position |->
            CASE k \in 0 .. 6   -> Bit(e.opcode, k)
              [] k \in 7 .. 11  -> IF e.fmt \in {"S", "B"} THEN immediate(k) ELSE Bit(i.rd, k - 7)
              [] k \in 12 .. 14 -> IF e.fmt \in {"U", "J"} THEN immediate(k) ELSE Bit(e.func3, k - 12)
              [] k \in 15 .. 19 -> IF e.fmt \in {"U", "J"} THEN immediate(k) ELSE Bit(i.rs1, k - 15)
              [] k \in 20 .. 24 -> IF e.fmt \in {"R", "S", "B"} THEN Bit(i.rs2, k - 20) ELSE immediate(k)
              [] k \in 25 .. 31 -> IF e.fmt \in {"R", "H"} THEN Bit(e.func7, k - 25) ELSE immediate(k)]

------------------------------------------------------------------------------
(* The second operand, and how far a shift goes: its low five bits. *)
Second(i, y) == IF Format(i.op) = "R" THEN y ELSE number(i.imm)

Count(i, y) == Second(i, y) % 32

FromPositions(P(_)) == FromBits({k \in 0 .. XLEN - 1 : P(k)})

Less(a, b) == LET top == XLEN - 1
              IN  IF Bit(a, top) = Bit(b, top) THEN a < b ELSE Bit(a, top) = 1

(* What the instruction writes to rd, when its operands are x and y and the
   control register reads as c. *)
Result(i, x, y, pc, c) ==
    LET b == Second(i, y)
        n == Count(i, y)
    IN  CASE i.op \in {"ADD", "ADDI"}   -> (x + b) % WordSize
          [] i.op = "SUB"               -> (x + WordSize - b) % WordSize
          [] i.op \in {"AND", "ANDI"}   -> FromPositions(LAMBDA k : Bit(x, k) = 1 /\ Bit(b, k) = 1)
          [] i.op \in {"OR", "ORI"}     -> FromPositions(LAMBDA k : Bit(x, k) = 1 \/ Bit(b, k) = 1)
          [] i.op \in {"XOR", "XORI"}   -> FromPositions(LAMBDA k : Bit(x, k) # Bit(b, k))
          [] i.op \in {"SLL", "SLLI"}   -> FromPositions(LAMBDA k : k >= n /\ Bit(x, k - n) = 1)
          [] i.op \in {"SRL", "SRLI"}   -> FromPositions(LAMBDA k : k + n < XLEN /\ Bit(x, k + n) = 1)
          [] i.op \in {"SRA", "SRAI"}   ->
                 FromPositions(LAMBDA k : Bit(x, IF k + n < XLEN THEN k + n ELSE XLEN - 1) = 1)
          [] i.op \in {"SLT", "SLTI"}   -> IF Less(x, b) THEN 1 ELSE 0
          [] i.op \in {"SLTU", "SLTIU"} -> IF x < b THEN 1 ELSE 0
          [] i.op = "LUI"               -> b
          [] i.op = "AUIPC"             -> (pc + b) % WordSize
          [] i.op \in {"JAL", "JALR"}   -> (pc + 4) % WordSize
          [] i.op \in DOMAIN CsrCodes   -> c

Taken(i, x, y) ==
    CASE i.op = "BEQ"  -> x = y
      [] i.op = "BNE"  -> x # y
      [] i.op = "BLT"  -> Less(x, y)
      [] i.op = "BGE"  -> ~Less(x, y)
      [] i.op = "BLTU" -> x < y
      [] i.op = "BGEU" -> x >= y

NextPC(i, x, y, pc) ==
    CASE i.op = "JAL"  -> (pc + number(i.imm)) % WordSize
      [] i.op = "JALR" -> 2 * (((x + number(i.imm)) % WordSize) \div 2)
      [] i.op \in DOMAIN BranchCodes ->
             IF Taken(i, x, y) THEN (pc + number(i.imm)) % WordSize ELSE (pc + 4) % WordSize
      [] OTHER -> (pc + 4) % WordSize

(* What is written to a control register that reads as zero. *)
Control(i, x) ==
    CASE i.op = "CSRRW" -> x
      [] i.op = "CSRRS" -> x
      [] i.op = "CSRRC" -> 0
      [] i.op \in {"CSRRWI", "CSRRSI"} -> i.rs1
      [] i.op = "CSRRCI" -> 0

(* What a load makes of the bytes at its address. *)
Loaded(i, bytes) ==
    CASE i.op = "LB"  -> [k \in Position |-> bytes[IF k < 8 THEN k ELSE 7]]
      [] i.op = "LH"  -> [k \in Position |-> bytes[IF k < 16 THEN k ELSE 15]]
      [] i.op = "LW"  -> bytes
      [] i.op = "LBU" -> [k \in Position |-> IF k < 8 THEN bytes[k] ELSE 0]
      [] i.op = "LHU" -> [k \in Position |-> IF k < 16 THEN bytes[k] ELSE 0]
==============================================================================
