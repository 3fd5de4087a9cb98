-------------------------- MODULE InstructionProofs --------------------------
(***************************************************************************)
(* What the arithmetic and decode make of an instruction, for every word   *)
(* size and register set: what it reads, what it computes and where the    *)
(* program goes on behind it.  The proofs about the pipelines rest on it.  *)
(***************************************************************************)
EXTENDS Decode, WellFoundedInduction, TLAPS

(* Every set of natural numbers that is not empty has a least element. *)
LEMMA LeastNumber ==
    ASSUME NEW S, S \subseteq Nat, S # {}
    PROVE  \E m \in S : \A n \in S : m <= n
<1>1. PICK m \in S : \A n \in S : ~ (<<n, m>> \in OpToRel(<, Nat))
  BY NatLessThanWellFounded, WFMin
<1>2. ASSUME NEW n \in S PROVE m <= n
  <2>1. ~ (n < m)
    BY <1>1 DEF OpToRel
  <2> QED BY <2>1
<1> QED BY <1>2

(* sum is the table of partial sums that FromBits looks up. *)
IsSum(sum, ones, n) ==
    sum = [k \in 0 .. n |->
              IF k = 0 THEN 0 ELSE sum[k - 1] + (IF k - 1 \in ones THEN 2 ^ (k - 1) ELSE 0)]

(* The powers of two are positive: the first that is not would be twice one
   that is. *)
LEMMA PowersArePositive == \A k \in 0 .. XLEN : 2 ^ k \in Nat \ {0}
<1> DEFINE Wrong == {k \in 0 .. XLEN : 2 ^ k \notin Nat \ {0}}
<1> SUFFICES ASSUME Wrong # {} PROVE FALSE
  OBVIOUS
<1>1. PICK m \in Wrong : \A k \in Wrong : m <= k
  <2>1. Wrong \subseteq Nat
    BY XlenAssumption
  <2> HIDE DEF Wrong
  <2> QED BY <2>1, LeastNumber
<1>2. CASE m = 0
  BY <1>1, <1>2
<1>3. CASE m # 0
  <2>1. m - 1 \in 0 .. XLEN - 1 /\ m - 1 \in 0 .. XLEN /\ m - 1 \notin Wrong
    BY <1>1, <1>3, XlenAssumption
  <2>2. 2 ^ (m - 1) \in Nat \ {0}
    BY <2>1
  <2>3. 2 ^ ((m - 1) + 1) = 2 * 2 ^ (m - 1)
    BY <2>1, PowerLaw
  <2>4. (m - 1) + 1 = m
    BY <1>1, XlenAssumption
  <2> QED BY <1>1, <2>2, <2>3, <2>4
<1> QED BY <1>2, <1>3

(* What Wrap makes is a word, and words are numbers. *)
LEMMA WordFacts ==
    /\ WordSize \in Nat \ {0}
    /\ \A a \in Int : Wrap(a) \in Word
    /\ \A a \in Word : Wrap(a) = a /\ BitNot(a) \in Word
    /\ 0 \in Word
    /\ Word \subseteq Int
<1>1. WordSize \in Nat \ {0}
  BY PowersArePositive, XlenAssumption DEF WordSize
<1> QED BY <1>1 DEF Wrap, Word, BitNot

(* There is such a table: the shortest that there is not would extend one that
   there is. *)
LEMMA SumExists ==
    ASSUME NEW ones, NEW n \in 0 .. XLEN
    PROVE  \E sum \in [0 .. n -> Int] : IsSum(sum, ones, n)
<1> DEFINE Missing == {m \in 0 .. XLEN : ~ \E sum \in [0 .. m -> Int] : IsSum(sum, ones, m)}
<1> SUFFICES ASSUME Missing # {} PROVE FALSE
  OBVIOUS
<1>1. PICK m \in Missing : \A l \in Missing : m <= l
  <2>1. Missing \subseteq Nat
    BY XlenAssumption
  <2> HIDE DEF Missing
  <2> QED BY <2>1, LeastNumber
<1>2. CASE m = 0
  <2>1. IsSum([k \in 0 .. 0 |-> 0], ones, 0)
    BY DEF IsSum
  <2> QED BY <1>1, <1>2, <2>1
<1>3. CASE m # 0
  <2>1. m \in Nat /\ m - 1 \in Nat /\ m - 1 \in 0 .. XLEN /\ m - 1 \notin Missing
    BY <1>1, <1>3, XlenAssumption
  <2>2. PICK sum \in [0 .. m - 1 -> Int] : IsSum(sum, ones, m - 1)
    BY <2>1
  <2> DEFINE bit == IF m - 1 \in ones THEN 2 ^ (m - 1) ELSE 0
             longer == [k \in 0 .. m |-> IF k = m THEN sum[m - 1] + bit ELSE sum[k]]
  <2>3. bit \in Int
    BY <2>1, PowersArePositive
  <2>4. longer \in [0 .. m -> Int]
    BY <2>1, <2>2, <2>3
  <2>5. IsSum(longer, ones, m)
    <3> SUFFICES ASSUME NEW k \in 0 .. m
                 PROVE  longer[k] = IF k = 0 THEN 0
                                    ELSE longer[k - 1] + (IF k - 1 \in ones THEN 2 ^ (k - 1) ELSE 0)
      BY Zenon DEF IsSum
    <3>1. CASE k = m
      BY <1>3, <2>1, <3>1
    <3>2. CASE k # m
      <4>1. sum[k] = IF k = 0 THEN 0 ELSE sum[k - 1] + (IF k - 1 \in ones THEN 2 ^ (k - 1) ELSE 0)
        BY <2>1, <2>2, <3>2 DEF IsSum
      <4> QED BY <2>1, <3>2, <4>1
    <3> QED BY <3>1, <3>2
  <2> QED BY <1>1, <2>1, <2>4, <2>5
<1> QED BY <1>2, <1>3

(* The sum of the first k bits is less than the next one: at the first k where
   it is not, the bit before would have been added to a sum that is. *)
LEMMA SumIsBounded ==
    ASSUME NEW ones, NEW sum, IsSum(sum, ones, XLEN)
    PROVE  \A k \in 0 .. XLEN : sum[k] \in Int /\ 0 <= sum[k] /\ sum[k] < 2 ^ k
<1> DEFINE Bounded(k) == sum[k] \in Int /\ 0 <= sum[k] /\ sum[k] < 2 ^ k
           Wrong == {k \in 0 .. XLEN : ~Bounded(k)}
<1> SUFFICES ASSUME Wrong # {} PROVE FALSE
  OBVIOUS
<1>1. PICK m \in Wrong : \A k \in Wrong : m <= k
  <2>1. Wrong \subseteq Nat
    BY XlenAssumption
  <2> HIDE DEF Wrong
  <2> QED BY <2>1, LeastNumber
<1>2. m \in 0 .. XLEN /\ ~Bounded(m)
  BY <1>1
<1>3. sum[m] = IF m = 0 THEN 0 ELSE sum[m - 1] + (IF m - 1 \in ones THEN 2 ^ (m - 1) ELSE 0)
  BY <1>2 DEF IsSum
<1>4. CASE m = 0
  BY <1>2, <1>3, <1>4
<1>5. CASE m # 0
  <2>1. m - 1 \in 0 .. XLEN - 1 /\ m - 1 \in 0 .. XLEN /\ (m - 1) + 1 = m /\ ~ (m <= m - 1)
    BY <1>2, <1>5, XlenAssumption
  <2>2. Bounded(m - 1)
    BY <1>1, <2>1
  <2>3. 2 ^ m = 2 * 2 ^ (m - 1) /\ 2 ^ (m - 1) \in Nat
    BY <2>1, PowerLaw, PowersArePositive
  <2> QED BY <1>2, <1>3, <1>5, <2>2, <2>3
<1> QED BY <1>4, <1>5

(* What the bitwise operations put together is a word. *)
LEMMA FromBitsIsWord ==
    ASSUME NEW ones
    PROVE  FromBits(ones) \in Word
<1> DEFINE Sum == CHOOSE sum : IsSum(sum, ones, XLEN)
<1>1. IsSum(Sum, ones, XLEN)
  <2>1. XLEN \in 0 .. XLEN
    BY XlenAssumption
  <2> QED BY <2>1, SumExists
<1>2. FromBits(ones) = Sum[XLEN]
  BY Zenon DEF FromBits, IsSum
<1> HIDE DEF Sum
<1>3. Sum[XLEN] \in Int /\ 0 <= Sum[XLEN] /\ Sum[XLEN] < 2 ^ XLEN
  BY <1>1, SumIsBounded, XlenAssumption
<1> QED BY <1>2, <1>3, WordFacts DEF Word, WordSize

(* Whatever operation decode chooses, the unit makes a word of two words. *)
LEMMA AluIsWord ==
    ASSUME NEW a \in Word, NEW b \in Word,
           NEW op \in {"NONE", "ADD", "SUB", "AND", "OR", "XOR", "LTI", "LTU"}
    PROVE  alu(op, a, b) \in Word
<1>1. BitAnd(a, b) \in Word /\ BitXor(a, b) \in Word /\ BitOr(a, b) \in Word
  BY FromBitsIsWord, WordFacts DEF BitAnd, BitXor, BitOr
<1>2. 0 \in Word /\ Flag(Signed(a) < Signed(b)) \in Word /\ Flag(a < b) \in Word
  <2>1. 1 < WordSize
    <3>1. 0 \in 0 .. XLEN - 1 /\ XLEN - 1 \in 0 .. XLEN - 1 /\ XLEN - 1 \in 0 .. XLEN /\ (XLEN - 1) + 1 = XLEN
      BY XlenAssumption
    <3>2. WordSize = 2 * 2 ^ (XLEN - 1) /\ 2 ^ (XLEN - 1) \in Nat \ {0}
      BY <3>1, PowerLaw, PowersArePositive DEF WordSize
    <3> QED BY <3>2
  <2> QED BY <2>1, WordFacts DEF Flag, Word
<1>3. Wrap(a + b) \in Word /\ Wrap(a - b) \in Word
  BY WordFacts
<1> QED BY <1>1, <1>2, <1>3 DEF alu

------------------------------------------------------------------------------
(* What an instruction reads from the registers (regfile_read), and from the
   control register whose value is old (get_csr). *)
Source(used, r, registers) == IF used /\ r # 0 THEN registers[r] ELSE 0

Source1(instr, registers) == Source(use_rs1(instr), instr.rs1, registers)

Source2(instr, registers, old) ==
    IF is_csr(instr) THEN old ELSE Source(use_rs2(instr), instr.rs2, registers)

Computed(instr, registers, old, pc) ==
    alu_unit(instr, Source1(instr, registers), Source2(instr, registers, old), pc)

Taken(instr, registers) ==
    is_branch(instr) /\ br_taken(instr, Source1(instr, registers), Source2(instr, registers, 0))

Target(instr, registers, pc) == Computed(instr, registers, 0, pc)

(* Where the program goes on behind an instruction. *)
Successor(instr, registers, pc) ==
    IF Taken(instr, registers) THEN Target(instr, registers, pc) ELSE Wrap(pc + 1)

WrittenTo(registers, instr, value) ==
    IF use_rd(instr) /\ instr.rd # 0 THEN [registers EXCEPT ![instr.rd] = value] ELSE registers

(* A write to the register file: it keeps the type and register 0. *)
LEMMA WrittenType ==
    ASSUME NEW Regs, 0 \in Regs,
           NEW registers \in [Regs -> Word], registers[0] = 0,
           NEW instr \in Instruction(Regs), NEW value \in Word
    PROVE  /\ WrittenTo(registers, instr, value) \in [Regs -> Word]
           /\ WrittenTo(registers, instr, value)[0] = 0
           /\ \A r \in Regs : WrittenTo(registers, instr, value)[r] =
                   IF use_rd(instr) /\ r = instr.rd /\ r # 0 THEN value ELSE registers[r]
  BY DEF WrittenTo, Instruction

(* The unit makes words of words, and so every instruction has its successor. *)
LEMMA UnitIsWord ==
    ASSUME NEW Regs, NEW instr \in Instruction(Regs),
           NEW rs1_data \in Word, NEW rs2_data \in Word, NEW pc \in Word
    PROVE  alu_unit(instr, rs1_data, rs2_data, pc) \in Word
<1> DEFINE a == IF alu_s1_PC(instr) THEN pc ELSE rs1_data
           b == IF alu_s2_imm(instr) THEN instr.imm ELSE rs2_data
<1>1. a \in Word /\ b \in Word /\ BitNot(a) \in Word
  <2>1. instr.imm \in Word
    BY DEF Instruction
  <2> QED BY <2>1, WordFacts
<1>2. alu_unit(instr, rs1_data, rs2_data, pc) = alu(AluOp(instr), IF alu_s1_inv(instr) THEN BitNot(a) ELSE a, b)
  BY Zenon DEF alu_unit
<1>3. AluOp(instr) \in {"NONE", "ADD", "SUB", "AND", "OR", "XOR", "LTI", "LTU"}
  BY DEF AluOp
<1> HIDE DEF a, b
<1> QED BY <1>1, <1>2, <1>3, AluIsWord

(* The operands and the result of an instruction are words. *)
LEMMA ComputedType ==
    ASSUME NEW Regs, NEW registers \in [Regs -> Word], NEW instr \in Instruction(Regs),
           NEW old \in Word, NEW pc \in Word
    PROVE  /\ Source1(instr, registers) \in Word /\ Source2(instr, registers, old) \in Word
           /\ Computed(instr, registers, old, pc) \in Word
           /\ Wrap(pc + 1) \in Word
<1>1. Source1(instr, registers) \in Word /\ Source2(instr, registers, old) \in Word
  BY WordFacts DEF Source1, Source2, Source, Instruction
<1>2. Computed(instr, registers, old, pc) \in Word
  BY <1>1, UnitIsWord DEF Computed
<1>3. Wrap(pc + 1) \in Word
  BY WordFacts
<1> QED BY <1>1, <1>2, <1>3

(* Behind every instruction is an instruction. *)
LEMMA SuccessorType ==
    ASSUME NEW Regs, NEW registers \in [Regs -> Word], NEW instr \in Instruction(Regs), NEW pc \in Word
    PROVE  Successor(instr, registers, pc) \in Word
  BY ComputedType, WordFacts DEF Successor, Target

(* Only an instruction on a control register has to do with its old value. *)
LEMMA OldIsForCsrs ==
    ASSUME NEW instr, ~is_csr(instr), NEW regs, NEW old, NEW pc
    PROVE  /\ Source2(instr, regs, old) = Source2(instr, regs, 0)
           /\ Computed(instr, regs, old, pc) = Computed(instr, regs, 0, pc)
  BY DEF Source2, Computed

(* The operation of the unit, for each operation of an instruction, is the one
   its manual names. *)
LEMMA ComputedIs ==
    ASSUME NEW Regs, NEW registers \in [Regs -> Word], registers[0] = 0,
           NEW instr \in Instruction(Regs), NEW old, NEW pc \in Word
    PROVE  LET x1 == registers[instr.rs1]
               x2 == registers[instr.rs2]
           IN  Computed(instr, registers, old, pc) =
                   CASE instr.op = "ADD"   -> Wrap(x1 + x2)
                     [] instr.op = "SUB"   -> Wrap(x1 - x2)
                     [] instr.op = "AND"   -> BitAnd(x1, x2)
                     [] instr.op = "OR"    -> BitOr(x1, x2)
                     [] instr.op = "XOR"   -> BitXor(x1, x2)
                     [] instr.op = "SLT"   -> Flag(Signed(x1) < Signed(x2))
                     [] instr.op = "SLTU"  -> Flag(x1 < x2)
                     [] instr.op = "SLTIU" -> Flag(x1 < instr.imm)
                     [] instr.op = "LUI"   -> instr.imm
                     [] instr.op \in {"ADDI", "LW", "SW", "JALR"}       -> Wrap(x1 + instr.imm)
                     [] instr.op \in {"AUIPC", "JAL"} \cup BranchOps    -> Wrap(pc + instr.imm)
                     [] OTHER -> Computed(instr, registers, old, pc)
<1> DEFINE x1 == registers[instr.rs1]
           x2 == registers[instr.rs2]
<1> USE DEF alu_unit, alu, AluOp, alu_s1_PC, alu_s2_imm, alu_s1_inv, use_rs1, use_rs2, is_csr,
            RegOps, ImmOps, UpperOps, BranchOps, JumpOps, CsrOps
<1>1. use_rs1(instr) => Source1(instr, registers) = x1
  BY DEF Source1, Source
<1>2. use_rs2(instr) => Source2(instr, registers, old) = x2
  BY DEF Source2, Source
<1> HIDE DEF x1, x2
<1>3. CASE instr.op \in RegOps
  <2>1. Computed(instr, registers, old, pc) = alu(AluOp(instr), x1, x2)
    BY <1>1, <1>2, <1>3 DEF Computed
  <2> QED BY <1>3, <2>1 DEF x1, x2
<1>4. CASE instr.op \in ImmOps \cup {"LW", "SW", "JALR"}
  <2>1. Computed(instr, registers, old, pc) = alu(AluOp(instr), x1, instr.imm)
    BY <1>1, <1>4 DEF Computed
  <2> QED BY <1>4, <2>1 DEF x1, x2
<1>5. CASE instr.op = "LUI"
  <2>1. Computed(instr, registers, old, pc) = Wrap(0 + instr.imm)
    BY <1>5 DEF Computed, Source1, Source
  <2>2. instr.imm \in Word /\ instr.imm \in Int
    BY WordFacts DEF Instruction
  <2>3. 0 + instr.imm = instr.imm
    BY <2>2
  <2>4. Computed(instr, registers, old, pc) = instr.imm
    BY <2>1, <2>2, <2>3, WordFacts
  <2> QED BY <1>5, <2>4
<1>6. CASE instr.op \in {"AUIPC", "JAL"} \cup BranchOps
  <2>1. Computed(instr, registers, old, pc) = Wrap(pc + instr.imm)
    BY <1>6 DEF Computed
  <2> QED BY <1>6, <2>1
<1> QED BY <1>3, <1>4, <1>5, <1>6

(* A branch is taken when its manual says so. *)
LEMMA TakenIs ==
    ASSUME NEW Regs, NEW registers \in [Regs -> Word], registers[0] = 0,
           NEW instr \in Instruction(Regs)
    PROVE  LET x1 == registers[instr.rs1]
               x2 == registers[instr.rs2]
           IN  /\ instr.op = "BEQ"  => (Taken(instr, registers) <=> x1 = x2)
               /\ instr.op = "BNE"  => (Taken(instr, registers) <=> x1 # x2)
               /\ instr.op = "BLT"  => (Taken(instr, registers) <=> Signed(x1) < Signed(x2))
               /\ instr.op = "BGE"  => (Taken(instr, registers) <=> Signed(x1) >= Signed(x2))
               /\ instr.op = "BLTU" => (Taken(instr, registers) <=> x1 < x2)
               /\ instr.op = "BGEU" => (Taken(instr, registers) <=> x1 >= x2)
               /\ instr.op \in JumpOps => Taken(instr, registers)
               /\ instr.op \notin BranchOps \cup JumpOps => ~Taken(instr, registers)
<1>1. CASE instr.op \in BranchOps
  <2>1. Source1(instr, registers) = registers[instr.rs1] /\ Source2(instr, registers, 0) = registers[instr.rs2]
    BY <1>1 DEF Source1, Source2, Source, is_csr, use_rs1, use_rs2, BranchOps, CsrOps, RegOps, ImmOps
  <2> QED BY <1>1, <2>1 DEF Taken, is_branch, br_taken, BranchOps, JumpOps
<1>2. CASE instr.op \in JumpOps
  BY <1>2 DEF Taken, is_branch, br_taken, BranchOps, JumpOps
<1>3. CASE instr.op \notin BranchOps \cup JumpOps
  BY <1>3 DEF Taken, is_branch, BranchOps, JumpOps
<1> QED BY <1>1, <1>2, <1>3

(* A CSR instruction whose result may be forwarded computes the old value. *)
LEMMA OldValueComputed ==
    ASSUME NEW Regs, NEW registers \in [Regs -> Word],
           NEW instr \in Instruction(Regs), is_csr(instr), ComputesOldValue(instr),
           NEW old \in IF instr.imm \in Counters THEN Word ELSE {0}, NEW pc
    PROVE  Computed(instr, registers, old, pc) = old
<1>1. Source2(instr, registers, old) = old
  BY DEF Source2
<1>2. Source1(instr, registers) \in IF instr.rs1 = 0 THEN {0} ELSE Word
  BY WordFacts DEF Source1, Source, Instruction
<1>3. alu_unit(instr, Source1(instr, registers), old, 0) = old
  BY <1>2 DEF ComputesOldValue
<1>4. ~alu_s1_PC(instr)
  BY DEF is_csr, CsrOps, alu_s1_PC, BranchOps
<1> QED BY <1>1, <1>3, <1>4 DEF Computed, alu_unit

(* What an instruction writes to rd, when memory is m and its control register
   reads as old. *)
Effect(instr, registers, m, old, pc) ==
    CASE is_load(instr)        -> m[Target(instr, registers, pc)]
      [] is_csr(instr)         -> old
      [] instr.op \in JumpOps  -> Wrap(pc + 1)
      [] OTHER                 -> Computed(instr, registers, old, pc)

Stored(instr, registers, m, pc) ==
    IF is_store(instr)
    THEN [m EXCEPT ![Target(instr, registers, pc)] = Source2(instr, registers, 0)]
    ELSE m
==============================================================================
