----------------------------- MODULE InOrderProofs -----------------------------
(***************************************************************************)
(* Proofs about project1's pipeline, for every program, register file and  *)
(* word size: its control first, then that it is the sequential machine.   *)
(***************************************************************************)
EXTENDS InOrderPipeline, InstructionProofs

(* Every stage keeps that: it runs after the one in front of it. *)
LEMMA WaitsNext == OnlyDecodeWaits /\ [Next]_vars => OnlyDecodeWaits'
<1> SUFFICES ASSUME OnlyDecodeWaits, [Next]_vars PROVE OnlyDecodeWaits'
  OBVIOUS
<1>1. CASE wb_stage
  BY <1>1 DEF wb_stage, OnlyDecodeWaits, pop
<1>2. CASE mem_stage
  BY <1>2 DEF mem_stage, OnlyDecodeWaits, pop
<1>3. CASE ex_stage
  BY <1>3 DEF ex_stage, OnlyDecodeWaits, pop
<1>4. CASE id_stage
  BY <1>4 DEF id_stage, OnlyDecodeWaits
<1>5. CASE if_stage
  BY <1>5 DEF if_stage, OnlyDecodeWaits
<1>6. CASE UNCHANGED vars
  BY <1>6 DEF vars, OnlyDecodeWaits
<1> QED
  BY <1>1, <1>2, <1>3, <1>4, <1>5, <1>6 DEF Next, Done

(* Each stage finds the register in front of it empty, because the stage that
   empties it ran just before in the same cycle (Core::tick). *)
THEOREM StagesMoveOn == Spec => []OnlyDecodeWaits
<1>1. Init => OnlyDecodeWaits
  BY DEF Init, OnlyDecodeWaits
<1> QED
  BY <1>1, WaitsNext, PTL DEF Spec

(* What execute does to fetch: it drops what was fetched and the lock, or it
   touches neither. *)
LEMMA FlushUnlocks ==
    ASSUME ex_stage, id_ex.valid, ~ex_mem.valid
    PROVE  \/ if_id' = if_id /\ fetch_stalled' = fetch_stalled
           \/ ~if_id'.valid /\ fetch_stalled' = FALSE /\ mispredicted(id_ex.data)
<1>1. /\ if_id' = IF mispredicted(id_ex.data) THEN pop(if_id) ELSE if_id
      /\ fetch_stalled' = unlocked_by_flush(mispredicted(id_ex.data))
  BY Zenon DEF ex_stage
<1>2. CASE mispredicted(id_ex.data)
  <2>1. if_id' = pop(if_id) /\ fetch_stalled' = FALSE
    BY <1>1, <1>2, Zenon DEF unlocked_by_flush
  <2> QED
    BY <1>2, <2>1 DEF pop
<1>3. CASE ~mispredicted(id_ex.data)
  BY <1>1, <1>3, Zenon DEF unlocked_by_flush
<1> QED
  BY <1>2, <1>3

(* Why nothing gets behind the exit: from fetch on, the exit holds the lock
   that keeps fetch from pushing, and the stages behind it have emptied. *)
ExitHoldsLock ==
    /\ ExitIn(if_id) => fetch_stalled
    /\ ExitIn(id_ex) => fetch_stalled
    /\ ExitIn(ex_mem) => fetch_stalled
    /\ ExitIn(mem_wb) => fetch_stalled

ExitInv == ExitHoldsLock /\ NothingBehindExit

(* The lock and the order of the stages behind the exit: at the start, *)
LEMMA ExitInvInit == Init => ExitInv
BY DEF Init, ExitInv, ExitHoldsLock, NothingBehindExit, ExitIn, NewReg

(* and in every step. *)
LEMMA ExitInvNext == ExitInv /\ [Next]_vars => ExitInv'
<1> SUFFICES ASSUME ExitInv, [Next]_vars PROVE ExitInv'
  OBVIOUS
<1> USE DEF ExitInv, ExitHoldsLock, NothingBehindExit, ExitIn
<1>1. CASE wb_stage
  BY <1>1 DEF wb_stage, pop
<1>2. CASE mem_stage
  BY <1>2 DEF mem_stage, pop, push
<1>3. CASE ex_stage
  <2>1. CASE id_ex.valid /\ ~ex_mem.valid
    <3>1. /\ ex_mem'.valid
          /\ ex_mem'.data.instr = id_ex.data.instr
          /\ ~id_ex'.valid
          /\ UNCHANGED mem_wb
      BY <1>3, <2>1 DEF ex_stage, push, pop
    <3>2. ~ExitIn(mem_wb)
      BY <2>1
    <3>3. \/ if_id' = if_id /\ fetch_stalled' = fetch_stalled
          \/ ~if_id'.valid /\ mispredicted(id_ex.data)
      BY <1>3, <2>1, FlushUnlocks
    <3>4. mispredicted(id_ex.data) => ~is_exit(id_ex.data.instr)
      BY DEF mispredicted, is_branch, is_exit, BranchOps, JumpOps
    <3> QED
      BY <2>1, <3>1, <3>2, <3>3, <3>4
  <2>2. CASE ~(id_ex.valid /\ ~ex_mem.valid)
    BY <1>3, <2>2 DEF ex_stage
  <2> QED
    BY <2>1, <2>2
<1>4. CASE id_stage
  <2>1. CASE decoding
    <3>1. UNCHANGED <<ex_mem, mem_wb>>
      BY <1>4 DEF id_stage
    <3>2. ~ExitIn(ex_mem) /\ ~ExitIn(mem_wb)
      BY <2>1 DEF decoding
    <3>3. fetch_stalled' = (fetch_stalled /\ ~unlocks_fetch(if_id.data.instr))
      BY <1>4, <2>1 DEF id_stage
    <3>4. \/ UNCHANGED <<id_ex, if_id>>
          \/ id_ex'.data.instr = if_id.data.instr /\ ~if_id'.valid
      BY <1>4, <2>1 DEF id_stage, push, pop
    <3> QED
      BY <2>1, <3>1, <3>2, <3>3, <3>4 DEF decoding, unlocks_fetch
  <2>2. CASE ~decoding
    BY <1>4, <2>2 DEF id_stage
  <2> QED
    BY <2>1, <2>2
<1>5. CASE if_stage
  BY <1>5 DEF if_stage, fetching, push
<1>6. CASE UNCHANGED vars
  BY <1>6 DEF vars
<1> QED
  BY <1>1, <1>2, <1>3, <1>4, <1>5, <1>6 DEF Next, Done

(* No instruction follows the exit into the pipeline (id_stage, if_stage). *)
THEOREM ExitIsLast == Spec => []NothingBehindExit
<1>1. ExitInv => NothingBehindExit
  BY DEF ExitInv
<1> QED
  BY <1>1, ExitInvInit, ExitInvNext, PTL DEF Spec

(* The lock that fetch takes behind every instruction is never left without an
   instruction that will release it (fetch_stalled_): the safety half of "the
   core does not hang". *)
THEOREM LockIsOwned == Spec => []FetchLockHasOwner
<1>1. Init => FetchLockHasOwner
  BY DEF Init, FetchLockHasOwner
<1>2. FetchLockHasOwner /\ [Next]_vars => FetchLockHasOwner'
  <2> SUFFICES ASSUME FetchLockHasOwner, [Next]_vars PROVE FetchLockHasOwner'
    OBVIOUS
  <2> USE DEF FetchLockHasOwner, ExitIn
  <2>1. CASE wb_stage
    BY <2>1 DEF wb_stage, pop
  <2>2. CASE mem_stage
    BY <2>2 DEF mem_stage, pop, push
  <2>3. CASE ex_stage
    <3>1. CASE id_ex.valid /\ ~ex_mem.valid
      <4>1. /\ ex_mem'.valid
            /\ ex_mem'.data.instr = id_ex.data.instr
            /\ UNCHANGED <<mem_wb, exited>>
        BY <2>3, <3>1 DEF ex_stage, push
      <4>2. \/ if_id' = if_id /\ fetch_stalled' = fetch_stalled
            \/ ~fetch_stalled'
        BY <2>3, <3>1, FlushUnlocks
      <4> QED
        BY <3>1, <4>1, <4>2
    <3>2. CASE ~(id_ex.valid /\ ~ex_mem.valid)
      BY <2>3, <3>2 DEF ex_stage
    <3> QED
      BY <3>1, <3>2
  <2>4. CASE id_stage
    <3>1. CASE decoding
      <4>1. UNCHANGED <<ex_mem, mem_wb, exited>>
        BY <2>4 DEF id_stage
      <4>2. fetch_stalled' => is_exit(if_id.data.instr)
        BY <2>4, <3>1 DEF id_stage, unlocks_fetch
      <4>3. \/ UNCHANGED <<id_ex, if_id>>
            \/ id_ex'.valid /\ id_ex'.data.instr = if_id.data.instr
        BY <2>4, <3>1 DEF id_stage, push
      <4> QED
        BY <3>1, <4>1, <4>2, <4>3 DEF decoding
    <3>2. CASE ~decoding
      BY <2>4, <3>2 DEF id_stage
    <3> QED
      BY <3>1, <3>2
  <2>5. CASE if_stage
    <3>1. CASE fetching
      BY <2>5, <3>1 DEF if_stage, push
    <3>2. CASE ~fetching
      BY <2>5, <3>2 DEF if_stage
    <3> QED
      BY <3>1, <3>2
  <2>6. CASE UNCHANGED vars
    BY <2>6 DEF vars
  <2> QED
    BY <2>1, <2>2, <2>3, <2>4, <2>5, <2>6 DEF Next, Done
<1> QED
  BY <1>1, <1>2, PTL DEF Spec

------------------------------------------------------------------------------
(* The registers as the instruction in decode should find them: with what the
   one in EX/MEM is going to write. *)
Pending ==
    IF ex_mem.valid
    THEN WrittenTo(Registers, ex_mem.data.instr,
                   mem_result(ex_mem.data.instr, ex_mem.data.result, ex_mem.data.rs2_data))
    ELSE Registers

(* The oldest instruction that execute, or decode, has not passed. *)
DecodePC  == IF if_id.valid THEN if_id.data.PC ELSE PC
ExecutePC == IF id_ex.valid THEN id_ex.data.PC ELSE DecodePC

IsFetched(reg) == reg.valid => reg.data.PC \in Word /\ reg.data.instr = code[reg.data.PC]

TypeInv ==
    /\ code \in Programs
    /\ PC \in Word
    /\ mem \in [Word -> Word]
    /\ reg_file \in [Reg -> Word] /\ reg_file[0] = 0
    /\ IsFetched(if_id) /\ IsFetched(id_ex) /\ IsFetched(ex_mem)
    /\ mem_wb.valid => mem_wb.data.instr \in Instruction(Reg) /\ mem_wb.data.result \in Word

FetchedNext == if_id.valid => PC = Link(if_id.data.PC)

(* Decode has read the operands the program gives the instruction, and fetched
   behind it what comes next unless it is a branch that will be taken. *)
DecodedRight ==
    id_ex.valid =>
        LET d == id_ex.data
        IN  /\ d.rs1_data = Source1(d.instr, Pending)
            /\ d.rs2_data = Source2(d.instr, Pending, 0)
            /\ DecodePC = IF d.instr.op = "JAL" THEN Wrap(d.PC + d.instr.imm) ELSE Link(d.PC)

(* Execute has computed what the program says, and behind it is its successor. *)
ExecutedRight ==
    ex_mem.valid =>
        LET d == ex_mem.data
        IN  /\ d.result = IF d.instr.op \in JumpOps THEN Link(d.PC)
                          ELSE Computed(d.instr, Registers, 0, d.PC)
            /\ d.rs2_data = Source2(d.instr, Registers, 0)
            /\ ExecutePC = Successor(d.instr, Registers, d.PC)

ExitedEmpty ==
    exited => /\ fetch_stalled
              /\ ~if_id.valid /\ ~id_ex.valid /\ ~ex_mem.valid /\ ~mem_wb.valid

IInv ==
    /\ TypeInv
    /\ FetchedNext
    /\ DecodedRight
    /\ ExecutedRight
    /\ ExitInv
    /\ ExitedEmpty
    /\ OnlyDecodeWaits

------------------------------------------------------------------------------
(* The registers the programmer sees are words, and register 0 is zero. *)
LEMMA RegistersType ==
    ASSUME TypeInv
    PROVE  /\ Registers \in [Reg -> Word] /\ Registers[0] = 0
           /\ mem_wb.valid => Registers = WrittenTo(reg_file, mem_wb.data.instr, mem_wb.data.result)
           /\ ~mem_wb.valid => Registers = reg_file
<1>1. mem_wb.valid => Registers = WrittenTo(reg_file, mem_wb.data.instr, mem_wb.data.result)
  BY DEF Registers, regfile_write, WrittenTo
<1>2. CASE mem_wb.valid
  BY <1>1, <1>2, WrittenType, RegAssumption DEF TypeInv
<1>3. CASE ~mem_wb.valid
  BY <1>1, <1>3 DEF Registers, TypeInv
<1> QED BY <1>1, <1>2, <1>3

(* Whatever is fetched is an instruction of the program. *)
LEMMA FetchedIsInstruction ==
    ASSUME TypeInv, NEW pc \in Word
    PROVE  code[pc] \in Instruction(Reg)
  BY ProgramsAssumption DEF TypeInv

(* The pipeline is empty at the start. *)
LEMMA IInvInit == Init => IInv
<1> SUFFICES ASSUME Init PROVE IInv
  OBVIOUS
<1>1. TypeInv
  BY WordFacts, RegAssumption, MemoriesAssumption DEF Init, TypeInv, NewReg, IsFetched
<1>2. FetchedNext /\ DecodedRight /\ ExecutedRight /\ ExitedEmpty
  BY DEF Init, NewReg, FetchedNext, DecodedRight, ExecutedRight, ExitedEmpty
<1>3. ExitInv /\ OnlyDecodeWaits
  BY ExitInvInit DEF Init, OnlyDecodeWaits
<1> QED BY <1>1, <1>2, <1>3 DEF IInv


(* What execute has left for the memory stage is of the right types. *)
LEMMA ExecutedType ==
    ASSUME IInv, ex_mem.valid
    PROVE  LET d == ex_mem.data
           IN  /\ d.instr \in Instruction(Reg) /\ d.PC \in Word
               /\ d.rs2_data \in Word
               /\ d.result \in Word
               /\ mem_result(d.instr, d.result, d.rs2_data) \in Word
               /\ Pending \in [Reg -> Word] /\ Pending[0] = 0
               /\ \A r \in Reg : Pending[r] =
                      IF use_rd(d.instr) /\ r = d.instr.rd /\ r # 0
                      THEN mem_result(d.instr, d.result, d.rs2_data) ELSE Registers[r]
<1> DEFINE d == ex_mem.data
           value == mem_result(d.instr, d.result, d.rs2_data)
<1>1. d.instr \in Instruction(Reg) /\ d.PC \in Word
  BY FetchedIsInstruction DEF IInv, TypeInv, IsFetched
<1>2. Registers \in [Reg -> Word] /\ Registers[0] = 0
  BY RegistersType DEF IInv
<1>3. /\ d.result = IF d.instr.op \in JumpOps THEN Link(d.PC) ELSE Computed(d.instr, Registers, 0, d.PC)
      /\ d.rs2_data = Source2(d.instr, Registers, 0)
  BY DEF IInv, ExecutedRight
<1>4. d.rs2_data \in Word /\ d.result \in Word
  <2>1. 0 \in Word
    BY WordFacts
  <2> HIDE DEF d
  <2>2. /\ Source2(d.instr, Registers, 0) \in Word
        /\ Computed(d.instr, Registers, 0, d.PC) \in Word
        /\ Wrap(d.PC + 1) \in Word
    BY <1>1, <1>2, <2>1, ComputedType
  <2> QED BY <1>3, <2>2 DEF Link, d
<1>6. value \in Word
  BY <1>4 DEF mem_result, IInv, TypeInv
<1>7. Pending = WrittenTo(Registers, d.instr, value)
  BY DEF Pending
<1> HIDE DEF d, value
<1>8. /\ Pending \in [Reg -> Word] /\ Pending[0] = 0
      /\ \A r \in Reg : Pending[r] = IF use_rd(d.instr) /\ r = d.instr.rd /\ r # 0 THEN value ELSE Registers[r]
  BY <1>1, <1>2, <1>6, <1>7, WrittenType, RegAssumption
<1> QED BY <1>1, <1>4, <1>6, <1>8 DEF d, value

(* Nothing but the register file changes, and what it is going to hold is in it. *)
LEMMA WritebackKeeps ==
    ASSUME IInv, wb_stage
    PROVE  /\ Registers' = Registers
           /\ UNCHANGED <<code, mem, PC, if_id, id_ex, ex_mem, fetch_stalled>>
           /\ ~mem_wb'.valid
           /\ Pending' = Pending
           /\ reg_file' = Registers
<1>1. UNCHANGED <<code, mem, PC, if_id, id_ex, ex_mem, fetch_stalled>>
  BY DEF wb_stage
<1>2. ~mem_wb'.valid
  BY DEF wb_stage, pop
<1>3. reg_file' = Registers
  BY DEF wb_stage, Registers
<1>4. Registers' = Registers
  BY <1>2, <1>3 DEF Registers
<1>5. Pending' = Pending
  BY <1>1, <1>4 DEF Pending, mem_result
<1> QED BY <1>1, <1>2, <1>3, <1>4, <1>5

(* Write-back moves a result from the register in front of it to the register
   file, and the programmer sees no difference. *)
LEMMA WritebackInv ==
    ASSUME IInv, wb_stage
    PROVE  TypeInv' /\ FetchedNext' /\ DecodedRight' /\ ExecutedRight' /\ ExitedEmpty'
<1>1. TypeInv'
  BY WritebackKeeps, RegistersType DEF IInv, TypeInv, IsFetched
<1>2. FetchedNext' /\ DecodedRight' /\ ExecutedRight'
  BY WritebackKeeps DEF IInv, FetchedNext, DecodedRight, ExecutedRight, DecodePC, ExecutePC
<1>3. ExitedEmpty'
  <2> SUFFICES ASSUME exited' PROVE ExitedEmpty'
    BY DEF ExitedEmpty
  <2>1. ExitIn(mem_wb)
    BY DEF wb_stage, ExitIn
  <2> QED
    BY <2>1, WritebackKeeps DEF IInv, ExitInv, ExitHoldsLock, NothingBehindExit, ExitedEmpty
<1> QED BY <1>1, <1>2, <1>3

(* The memory stage writes what Pending foresaw. *)
LEMMA MemoryKeeps ==
    ASSUME IInv, mem_stage
    PROVE  /\ UNCHANGED <<code, reg_file, PC, if_id, id_ex, fetch_stalled, exited>>
           /\ ~mem_wb.valid /\ Registers = reg_file
           /\ ~ex_mem'.valid
           /\ ex_mem.valid => mem_wb'.valid /\ mem_wb'.data.instr = ex_mem.data.instr /\ ~exited
           /\ ~ex_mem.valid => UNCHANGED <<mem, mem_wb>>
           /\ Registers' = Pending
           /\ Pending' = Pending
<1>1. ~mem_wb.valid /\ Registers = reg_file
  BY DEF mem_stage, IInv, OnlyDecodeWaits, Registers
<1>2. UNCHANGED <<code, reg_file, PC, if_id, id_ex, fetch_stalled, exited>>
  BY DEF mem_stage
<1>3. CASE ex_mem.valid
  <2> DEFINE d == ex_mem.data
             value == mem_result(d.instr, d.result, d.rs2_data)
  <2>1. mem_wb' = push([instr |-> d.instr, PC |-> d.PC, result |-> value]) /\ ~ex_mem'.valid
    BY <1>1, <1>3 DEF mem_stage, pop
  <2>2. mem_wb'.valid /\ mem_wb'.data.instr = d.instr /\ mem_wb'.data.result = value
    BY <2>1 DEF push
  <2>3. Registers' = WrittenTo(reg_file, d.instr, value)
    BY <1>2, <2>2 DEF Registers, regfile_write, WrittenTo
  <2>4. Pending = WrittenTo(reg_file, d.instr, value)
    BY <1>1, <1>3 DEF Pending
  <2>5. Pending' = Registers'
    BY <2>1 DEF Pending
  <2>6. ~exited
    BY <1>3 DEF IInv, ExitedEmpty
  <2> HIDE DEF d, value
  <2> QED BY <1>1, <1>2, <1>3, <2>1, <2>2, <2>3, <2>4, <2>5, <2>6 DEF d
<1>4. CASE ~ex_mem.valid
  <2>1. UNCHANGED <<ex_mem, mem_wb, mem>>
    BY <1>1, <1>4 DEF mem_stage
  <2>2. Registers' = Registers
    BY <1>2, <2>1 DEF Registers, regfile_write
  <2>3. Pending' = Registers' /\ Pending = Registers
    BY <1>4, <2>1 DEF Pending
  <2> QED BY <1>1, <1>2, <1>4, <2>1, <2>2, <2>3
<1> QED BY <1>3, <1>4

(* The memory stage makes the result of EX/MEM the next one to be written. *)
LEMMA MemoryInv ==
    ASSUME IInv, mem_stage
    PROVE  TypeInv' /\ FetchedNext' /\ DecodedRight' /\ ExecutedRight' /\ ExitedEmpty'
<1>1. TypeInv'
  <2>1. CASE ex_mem.valid
    <3>1. mem_wb'.data.instr \in Instruction(Reg) /\ mem_wb'.data.result \in Word
      BY <2>1, ExecutedType, MemoryKeeps DEF mem_stage, push
    <3>2. mem' \in [Word -> Word]
      BY <2>1, ExecutedType, MemoryKeeps DEF mem_stage, IInv, TypeInv
    <3> QED BY <3>1, <3>2, MemoryKeeps DEF IInv, TypeInv, IsFetched
  <2>2. CASE ~ex_mem.valid
    BY <2>2, MemoryKeeps DEF IInv, TypeInv, IsFetched
  <2> QED BY <2>1, <2>2
<1>2. FetchedNext' /\ DecodedRight' /\ ExecutedRight'
  BY MemoryKeeps DEF IInv, FetchedNext, DecodedRight, ExecutedRight, DecodePC
<1>3. ExitedEmpty'
  BY MemoryKeeps DEF IInv, ExitedEmpty
<1> QED BY <1>1, <1>2, <1>3

(* Execute hands on what the unit computed, and sends fetch to a branch's target. *)
LEMMA ExecuteStep ==
    ASSUME IInv, ex_stage, id_ex.valid
    PROVE  LET d == id_ex.data
           IN  /\ ~ex_mem.valid /\ Pending = Registers
               /\ UNCHANGED <<code, mem, reg_file, mem_wb, exited>>
               /\ Registers' = Registers
               /\ ~id_ex'.valid
               /\ ex_mem'.valid
               /\ ex_mem'.data.instr = d.instr /\ ex_mem'.data.PC = d.PC
               /\ ex_mem'.data.rs2_data = Source2(d.instr, Registers, 0)
               /\ ex_mem'.data.result = IF d.instr.op \in JumpOps THEN Link(d.PC)
                                        ELSE Computed(d.instr, Registers, 0, d.PC)
               /\ DecodePC' = Successor(d.instr, Registers, d.PC)
               /\ \/ UNCHANGED <<if_id, PC>>
                  \/ ~if_id'.valid /\ PC' = Successor(d.instr, Registers, d.PC)
<1> DEFINE d == id_ex.data
<1>1. ~ex_mem.valid /\ Pending = Registers
  BY DEF IInv, ex_stage, OnlyDecodeWaits, Pending
<1>2. UNCHANGED <<code, mem, reg_file, mem_wb, exited>>
  BY DEF ex_stage
<1>3. Registers' = Registers
  BY <1>2 DEF Registers, regfile_write
<1>4. /\ ex_mem' = push([instr |-> d.instr, rs2_data |-> d.rs2_data, PC |-> d.PC,
                       result |-> IF d.instr.op \in JumpOps THEN Link(d.PC) ELSE ex_result(d)])
      /\ id_ex' = pop(id_ex)
      /\ PC' = IF mispredicted(d) THEN ex_result(d) ELSE PC
      /\ if_id' = IF mispredicted(d) THEN pop(if_id) ELSE if_id
  BY <1>1, Zenon DEF ex_stage
<1>5. d.rs1_data = Source1(d.instr, Registers) /\ d.rs2_data = Source2(d.instr, Registers, 0)
  BY <1>1 DEF IInv, DecodedRight
<1>6. ex_result(d) = Computed(d.instr, Registers, 0, d.PC)
  BY <1>5 DEF ex_result, Computed
<1>7. d.PC \in Word /\ d.instr \in Instruction(Reg)
  BY FetchedIsInstruction DEF IInv, TypeInv, IsFetched
<1>8. /\ DecodePC' = Successor(d.instr, Registers, d.PC)
      /\ \/ UNCHANGED <<if_id, PC>>
         \/ ~if_id'.valid /\ PC' = Successor(d.instr, Registers, d.PC)
  <2>1. CASE mispredicted(d)
    <3>1. ~if_id'.valid /\ PC' = Computed(d.instr, Registers, 0, d.PC)
      BY <1>4, <1>6, <2>1 DEF pop
    <3>2. Successor(d.instr, Registers, d.PC) = Computed(d.instr, Registers, 0, d.PC)
      BY <1>5, <2>1 DEF mispredicted, Successor, Taken, Target, Link
    <3> QED BY <3>1, <3>2 DEF DecodePC
  <2>2. CASE ~mispredicted(d)
    <3>1. UNCHANGED <<if_id, PC>>
      BY <1>4, <2>2
    <3>2. DecodePC' = IF d.instr.op = "JAL" THEN Wrap(d.PC + d.instr.imm) ELSE Link(d.PC)
      BY <3>1 DEF IInv, DecodedRight, DecodePC
    <3>3. CASE d.instr.op = "JAL"
      <4>1. Computed(d.instr, Registers, 0, d.PC) = Wrap(d.PC + d.instr.imm)
        BY <3>3 DEF Computed, alu_unit, alu, AluOp, alu_s1_PC, alu_s2_imm, alu_s1_inv,
                    BranchOps, JumpOps, ImmOps, UpperOps
      <4> QED BY <3>1, <3>2, <3>3, <4>1 DEF Successor, Taken, Target, Link, is_branch, br_taken, JumpOps
    <3>4. CASE d.instr.op # "JAL"
      <4>1. Successor(d.instr, Registers, d.PC) = Link(d.PC)
        BY <1>5, <1>6, <2>2, <3>4 DEF mispredicted, Successor, Taken, Target, Link
      <4> QED BY <3>1, <3>2, <3>4, <4>1
    <3> QED BY <3>3, <3>4
  <2> QED BY <2>1, <2>2
<1>9. ex_mem'.valid /\ ~id_ex'.valid /\ ex_mem'.data = [instr |-> d.instr, rs2_data |-> d.rs2_data, PC |-> d.PC,
                       result |-> IF d.instr.op \in JumpOps THEN Link(d.PC) ELSE ex_result(d)]
  BY <1>4 DEF push, pop
<1> HIDE DEF d
<1> QED BY <1>1, <1>2, <1>3, <1>5, <1>6, <1>8, <1>9 DEF d

(* What it computed is what the program says, because the operands were right. *)
LEMMA ExecuteInv ==
    ASSUME IInv, ex_stage
    PROVE  TypeInv' /\ FetchedNext' /\ DecodedRight' /\ ExecutedRight' /\ ExitedEmpty'
<1>1. CASE id_ex.valid
  <2> DEFINE d == id_ex.data
  <2>1. d.PC \in Word /\ d.instr = code[d.PC] /\ d.instr \in Instruction(Reg)
    BY <1>1, FetchedIsInstruction DEF IInv, TypeInv, IsFetched
  <2>2. Registers \in [Reg -> Word]
    BY RegistersType DEF IInv
  <2>3. Successor(d.instr, Registers, d.PC) \in Word
    BY <2>1, <2>2, SuccessorType
  <2>4. TypeInv'
    BY <1>1, <2>1, <2>3, ExecuteStep DEF IInv, TypeInv, IsFetched
  <2>5. FetchedNext' /\ DecodedRight'
    BY <1>1, ExecuteStep DEF IInv, FetchedNext, DecodedRight
  <2>6. ExecutePC' = Successor(d.instr, Registers, d.PC)
    BY <1>1, ExecuteStep DEF ExecutePC
  <2>7. ExecutedRight'
    BY <1>1, <2>6, ExecuteStep DEF ExecutedRight
  <2>8. ExitedEmpty'
    BY <1>1, ExecuteStep DEF IInv, ExitedEmpty
  <2> QED BY <2>4, <2>5, <2>7, <2>8
<1>2. CASE ~id_ex.valid
  <2>1. UNCHANGED <<code, mem, reg_file, PC, if_id, id_ex, ex_mem, mem_wb, fetch_stalled, exited>>
    BY <1>2 DEF ex_stage
  <2>2. Registers' = Registers /\ Pending' = Pending /\ DecodePC' = DecodePC /\ ExecutePC' = ExecutePC
    BY <2>1 DEF Registers, Pending, regfile_write, mem_result, DecodePC, ExecutePC
  <2> QED
    BY <2>1, <2>2 DEF IInv, TypeInv, IsFetched, FetchedNext, DecodedRight, ExecutedRight, ExitedEmpty
<1> QED BY <1>1, <1>2

(* A value that is forwarded is what the register will hold, whichever of the
   three places it comes from. *)
LEMMA ForwardedRight ==
    ASSUME IInv, stage = "id", decoding, CsrsForwardRight,
           ~check_data_hazards(if_id.data.instr),
           NEW r \in Reg, Uses(if_id.data.instr, r)
    PROVE  data_forwarding(r) = Pending[r]
<1>1. r # 0
  BY DEF Uses
<1>2. Registers[r] = IF produces(mem_wb, r) THEN mem_wb.data.result ELSE reg_file[r]
  <2>1. CASE mem_wb.valid
    <3>1. Registers = WrittenTo(reg_file, mem_wb.data.instr, mem_wb.data.result)
      BY <2>1, RegistersType DEF IInv
    <3>2. Registers[r] = IF use_rd(mem_wb.data.instr) /\ r = mem_wb.data.instr.rd /\ r # 0
                         THEN mem_wb.data.result ELSE reg_file[r]
      BY <2>1, <3>1, WrittenType, RegAssumption DEF IInv, TypeInv
    <3> QED BY <1>1, <2>1, <3>2 DEF produces
  <2>2. CASE ~mem_wb.valid
    BY <2>2, RegistersType DEF IInv, produces
  <2> QED BY <2>1, <2>2
<1>3. CASE produces(ex_mem, r)
  <2> DEFINE d == ex_mem.data
  <2>1. ex_mem.valid /\ use_rd(d.instr) /\ d.instr.rd = r
    BY <1>3 DEF produces
  <2>2. Pending[r] = mem_result(d.instr, d.result, d.rs2_data)
    BY <1>1, <2>1, ExecutedType
  <2>3. ~is_load(d.instr)
    BY <2>1 DEF Uses, check_data_hazards
  <2>4. CASE is_csr(d.instr)
    <3>1. /\ ExecutePC = Successor(d.instr, Registers, d.PC)
          /\ d.result = IF d.instr.op \in JumpOps THEN Link(d.PC) ELSE Computed(d.instr, Registers, 0, d.PC)
          /\ d.rs2_data = Source2(d.instr, Registers, 0)
      BY <2>1 DEF IInv, ExecutedRight
    <3>2. d.PC \in Word /\ d.instr = code[d.PC] /\ code \in Programs
      BY <2>1 DEF IInv, TypeInv, IsFetched
    <3>3. ExecutePC = if_id.data.PC /\ if_id.data.instr = code[if_id.data.PC]
      BY DEF IInv, OnlyDecodeWaits, ExecutePC, DecodePC, decoding, TypeInv, IsFetched
    <3>4. ~is_branch(d.instr) /\ d.instr.op \notin JumpOps
      BY <2>4 DEF is_csr, is_branch, CsrOps, BranchOps, JumpOps
    <3>5. if_id.data.instr = code[Wrap(d.PC + 1)]
      BY <3>1, <3>3, <3>4 DEF Successor, Taken, Target, Link
    <3>6. ComputesOldValue(d.instr)
      BY <2>1, <2>4, <3>2, <3>5 DEF CsrsForwardRight
    <3>7. d.rs2_data = 0 /\ Source2(d.instr, Registers, 0) = 0
      BY <2>4, <3>1 DEF Source2
    <3>8. Source1(d.instr, Registers) \in IF d.instr.rs1 = 0 THEN {0} ELSE Word
      BY <2>1, RegistersType, ComputedType, ExecutedType DEF IInv, Source1, Source
    <3>9. alu_unit(d.instr, Source1(d.instr, Registers), 0, 0) = 0
      BY <3>6, <3>8, WordFacts DEF ComputesOldValue
    <3>10. ~alu_s1_PC(d.instr)
      BY <2>4 DEF is_csr, CsrOps, alu_s1_PC, BranchOps
    <3>11. d.result = 0
      BY <3>1, <3>4, <3>7, <3>9, <3>10 DEF Computed, alu_unit
    <3> QED BY <1>3, <2>2, <2>3, <2>4, <3>7, <3>11 DEF data_forwarding, mem_result
  <2>5. CASE ~is_csr(d.instr)
    BY <1>3, <2>2, <2>3, <2>5 DEF data_forwarding, mem_result
  <2> QED BY <2>4, <2>5
<1>4. CASE ~produces(ex_mem, r)
  <2>1. Pending[r] = Registers[r]
    BY <1>1, <1>4, ExecutedType DEF produces, Pending
  <2> QED BY <1>2, <1>4, <2>1 DEF data_forwarding
<1> QED BY <1>3, <1>4

(* Decode hands on the operands, from the register file or forwarded, *)
LEMMA DecodeStep ==
    ASSUME IInv, CsrsForwardRight, id_stage, decoding, ~check_data_hazards(if_id.data.instr)
    PROVE  LET d == if_id.data
           IN  /\ id_ex'.valid /\ id_ex'.data.instr = d.instr /\ id_ex'.data.PC = d.PC
               /\ id_ex'.data.rs1_data = Source1(d.instr, Pending)
               /\ id_ex'.data.rs2_data = Source2(d.instr, Pending, 0)
               /\ ~if_id'.valid
               /\ PC' = IF d.instr.op = "JAL" THEN Wrap(d.PC + d.instr.imm) ELSE Link(d.PC)
<1> DEFINE d == if_id.data
<1>1. /\ id_ex' = push([instr |-> d.instr, PC |-> d.PC,
                        rs1_data |-> operand(use_rs1(d.instr), d.instr.rs1),
                        rs2_data |-> operand2(d.instr)])
      /\ if_id' = pop(if_id)
      /\ PC' = IF d.instr.op = "JAL" THEN Wrap(d.PC + d.instr.imm) ELSE PC
  BY DEF id_stage
<1>2. PC = Link(d.PC)
  BY DEF IInv, FetchedNext, decoding
<1>3. d.instr \in Instruction(Reg)
  BY FetchedIsInstruction DEF IInv, TypeInv, IsFetched, decoding
<1>4. d.instr.rs1 \in Reg /\ d.instr.rs2 \in Reg
  BY <1>3 DEF Instruction
<1>5. \A r \in Reg : Uses(d.instr, r) => data_forwarding(r) = Pending[r]
  BY ForwardedRight DEF id_stage
<1>6. operand(use_rs1(d.instr), d.instr.rs1) = Source1(d.instr, Pending)
  BY <1>4, <1>5 DEF operand, Source1, Source, Uses
<1>7. operand2(d.instr) = Source2(d.instr, Pending, 0)
  BY <1>4, <1>5 DEF operand2, operand, Source2, Source, Uses
<1> HIDE DEF d
<1> QED BY <1>1, <1>2, <1>6, <1>7 DEF push, pop, d

(* or it keeps the instruction for a cycle, *)
LEMMA DecodeWaits ==
    ASSUME id_stage, ~decoding \/ check_data_hazards(if_id.data.instr)
    PROVE  UNCHANGED <<PC, id_ex, if_id>>
<1>1. CASE ~decoding
  BY <1>1, Zenon DEF id_stage
<1>2. CASE decoding
  <2>1. check_data_hazards(if_id.data.instr)
    BY <1>2
  <2>2. if_id.data.instr.op # "JAL"
    BY <2>1 DEF check_data_hazards, use_rs1, use_rs2, RegOps, ImmOps, BranchOps, CsrOps
  <2>3. UNCHANGED <<id_ex, if_id>>
    BY <1>2, <2>1, Zenon DEF id_stage
  <2>4. PC' = IF if_id.data.instr.op = "JAL" THEN Wrap(if_id.data.PC + if_id.data.instr.imm) ELSE PC
    BY <1>2, Zenon DEF id_stage
  <2> QED BY <2>2, <2>3, <2>4
<1> QED BY <1>1, <1>2

(* and in neither case touches what is ahead. *)
LEMMA DecodeKeeps ==
    ASSUME IInv, CsrsForwardRight, id_stage
    PROVE  ExecutePC' = ExecutePC
<1>1. CASE decoding /\ ~check_data_hazards(if_id.data.instr)
  BY <1>1, DecodeStep DEF ExecutePC, DecodePC, decoding
<1>2. CASE ~decoding \/ check_data_hazards(if_id.data.instr)
  BY <1>2, DecodeWaits DEF ExecutePC, DecodePC
<1> QED BY <1>1, <1>2

(* The operands are those of the program, and fetch is at what comes next. *)
LEMMA DecodeInv ==
    ASSUME IInv, CsrsForwardRight, id_stage
    PROVE  TypeInv' /\ FetchedNext' /\ DecodedRight' /\ ExecutedRight' /\ ExitedEmpty'
<1>1. UNCHANGED <<code, mem, reg_file, ex_mem, mem_wb, exited>>
  BY DEF id_stage
<1>2. Registers' = Registers /\ Pending' = Pending
  BY <1>1 DEF Registers, Pending, regfile_write, mem_result
<1>3. CASE decoding /\ ~check_data_hazards(if_id.data.instr)
  <2> DEFINE d == if_id.data
  <2>1. d.PC \in Word /\ d.instr = code[d.PC] /\ d.instr \in Instruction(Reg)
    BY <1>3, FetchedIsInstruction DEF IInv, TypeInv, IsFetched, decoding
  <2>2. PC' \in Word
    <3>1. d.PC + 1 \in Int /\ d.PC + d.instr.imm \in Int
      <4>1. d.PC \in Int /\ d.instr.imm \in Int
        BY <2>1, WordFacts DEF Instruction
      <4> HIDE DEF d
      <4> QED BY <4>1
    <3>2. PC' = IF d.instr.op = "JAL" THEN Wrap(d.PC + d.instr.imm) ELSE Link(d.PC)
      BY <1>3, DecodeStep
    <3> HIDE DEF d
    <3> QED BY <3>1, <3>2, WordFacts DEF Link
  <2>3. TypeInv'
    BY <1>1, <1>3, <2>1, <2>2, DecodeStep DEF IInv, TypeInv, IsFetched
  <2>4. ExecutePC' = ExecutePC
    BY DecodeKeeps
  <2>5. FetchedNext' /\ DecodedRight'
    BY <1>2, <1>3, DecodeStep DEF FetchedNext, DecodedRight, DecodePC
  <2>6. ExecutedRight'
    BY <1>1, <1>2, <2>4 DEF IInv, ExecutedRight
  <2>7. ExitedEmpty'
    BY <1>1, <1>3 DEF IInv, ExitedEmpty, decoding
  <2> QED BY <2>3, <2>5, <2>6, <2>7
<1>4. CASE ~decoding \/ check_data_hazards(if_id.data.instr)
  <2>2. UNCHANGED <<PC, id_ex, if_id>>
    BY <1>4, DecodeWaits
  <2>3. ExecutePC' = ExecutePC /\ DecodePC' = DecodePC
    BY <2>2 DEF ExecutePC, DecodePC
  <2>4. ExitedEmpty'
    <3>1. decoding \/ UNCHANGED fetch_stalled
      BY Zenon DEF id_stage
    <3> QED BY <1>1, <2>2, <3>1 DEF IInv, ExitedEmpty, decoding
  <2> QED
    BY <1>1, <1>2, <2>2, <2>3, <2>4
       DEF IInv, TypeInv, IsFetched, FetchedNext, DecodedRight, ExecutedRight
<1> QED BY <1>3, <1>4

(* Fetch takes the instruction at the PC, and goes on to the one behind it. *)
LEMMA FetchInv ==
    ASSUME IInv, if_stage
    PROVE  TypeInv' /\ FetchedNext' /\ DecodedRight' /\ ExecutedRight' /\ ExitedEmpty'
<1>1. UNCHANGED <<code, mem, reg_file, id_ex, ex_mem, mem_wb, exited>>
  BY DEF if_stage
<1>2. Registers' = Registers /\ Pending' = Pending
  BY <1>1 DEF Registers, Pending, regfile_write, mem_result
<1>3. CASE fetching
  <2>1. if_id'.valid /\ if_id'.data = [instr |-> code[PC], PC |-> PC] /\ PC' = Link(PC)
    BY <1>3 DEF if_stage, push, Link
  <2>2. PC' \in Word
    BY <2>1, WordFacts DEF Link, IInv, TypeInv
  <2>3. DecodePC' = DecodePC /\ ExecutePC' = ExecutePC
    BY <1>1, <1>3, <2>1 DEF DecodePC, ExecutePC, fetching
  <2>4. ~exited
    BY <1>3 DEF fetching, IInv, ExitedEmpty
  <2> QED
    BY <1>1, <1>2, <2>1, <2>2, <2>3, <2>4
       DEF IInv, TypeInv, IsFetched, FetchedNext, DecodedRight, ExecutedRight, ExitedEmpty
<1>4. CASE ~fetching
  <2>1. UNCHANGED <<if_id, PC, fetch_stalled>>
    BY <1>4 DEF if_stage
  <2>2. DecodePC' = DecodePC /\ ExecutePC' = ExecutePC
    BY <1>1, <2>1 DEF DecodePC, ExecutePC
  <2> QED
    BY <1>1, <1>2, <2>1, <2>2
       DEF IInv, TypeInv, IsFetched, FetchedNext, DecodedRight, ExecutedRight, ExitedEmpty
<1> QED BY <1>3, <1>4

(* Every stage keeps the invariant. *)
LEMMA IInvNext == ASSUME IInv, CsrsForwardRight, [Next]_vars PROVE IInv'
<1>1. TypeInv' /\ FetchedNext' /\ DecodedRight' /\ ExecutedRight' /\ ExitedEmpty'
  <2>1. CASE UNCHANGED vars
    <3>1. Registers' = Registers /\ Pending' = Pending /\ DecodePC' = DecodePC /\ ExecutePC' = ExecutePC
      BY <2>1 DEF vars, Registers, Pending, regfile_write, mem_result, DecodePC, ExecutePC
    <3> QED
      BY <2>1, <3>1 DEF vars, IInv, TypeInv, IsFetched, FetchedNext, DecodedRight, ExecutedRight, ExitedEmpty
  <2> QED BY <2>1, WritebackInv, MemoryInv, ExecuteInv, DecodeInv, FetchInv DEF Next, Done
<1>2. ExitInv' /\ OnlyDecodeWaits'
  BY ExitInvNext, WaitsNext DEF IInv
<1> QED BY <1>1, <1>2 DEF IInv

------------------------------------------------------------------------------
(* The machine of SequentialISA computes with the same arithmetic. *)
LEMMA SameArithmetic ==
    /\ ISA!Word = Word
    /\ \A a : ISA!Wrap(a) = Wrap(a) /\ ISA!Signed(a) = Signed(a) /\ ISA!Flag(a) = Flag(a)
    /\ \A a, b : /\ ISA!BitAnd(a, b) = BitAnd(a, b)
               /\ ISA!BitOr(a, b) = BitOr(a, b)
               /\ ISA!BitXor(a, b) = BitXor(a, b)
<1>1. \A a : ISA!Wrap(a) = Wrap(a) /\ ISA!Signed(a) = Signed(a) /\ ISA!Flag(a) = Flag(a)
  BY DEF ISA!Wrap, Wrap, ISA!Signed, Signed, ISA!Flag, Flag, ISA!WordSize, WordSize
<1>2. \A a, b : ISA!BitAnd(a, b) = BitAnd(a, b) /\ ISA!BitXor(a, b) = BitXor(a, b)
  BY DEF ISA!BitAnd, BitAnd, ISA!BitXor, BitXor, ISA!FromBits, FromBits, ISA!Bit, Bit
<1>3. \A a : ISA!BitNot(a) = BitNot(a)
  BY DEF ISA!BitNot, BitNot, ISA!WordSize, WordSize
<1>4. \A a, b : ISA!BitOr(a, b) = BitOr(a, b)
  BY <1>2, <1>3, Zenon DEF ISA!BitOr, BitOr
<1> QED BY <1>1, <1>2, <1>4 DEF ISA!Word, Word, ISA!WordSize, WordSize

(* The core starts as the machine does. *)
LEMMA InitRefines == Init => ISA!Init
<1> SUFFICES ASSUME Init PROVE ISA!Init
  OBVIOUS
<1>1. NextPC = 0 /\ Registers = [r \in Reg |-> 0] /\ Exited = FALSE
  BY DEF Init, NewReg, NextPC, Registers, Exited
<1>2. mem \in [Word -> Word]
  BY MemoriesAssumption DEF Init
<1> QED BY <1>1, <1>2, SameArithmetic DEF ISA!Init

(* The stages other than memory's do nothing that the programmer sees. *)
LEMMA OthersStutter ==
    ASSUME IInv, IInv', CsrsForwardRight, wb_stage \/ ex_stage \/ id_stage \/ if_stage
    PROVE  UNCHANGED <<code, NextPC, Registers, mem, Exited>>
<1> DEFINE Seen == IF ex_mem.valid THEN ex_mem.data.PC ELSE ExecutePC
<1>1. NextPC = Seen /\ NextPC' = Seen'
  BY DEF NextPC, ExecutePC, DecodePC
<1> HIDE DEF Seen
<1>2. CASE wb_stage
  <2>1. Seen' = Seen
    BY <1>2, WritebackKeeps DEF Seen, ExecutePC, DecodePC
  <2>2. Exited' = Exited
    BY <1>2, WritebackKeeps DEF Exited, wb_stage
  <2> QED BY <1>1, <1>2, <2>1, <2>2, WritebackKeeps
<1>3. CASE ex_stage
  <2>1. UNCHANGED <<code, mem, Registers, Exited>>
    BY <1>3 DEF ex_stage, Registers, regfile_write, Exited
  <2>2. Seen' = Seen
    <3>1. CASE id_ex.valid
      BY <1>3, <3>1, ExecuteStep DEF Seen, ExecutePC
    <3>2. CASE ~id_ex.valid
      BY <1>3, <3>2 DEF ex_stage, Seen, ExecutePC, DecodePC
    <3> QED BY <3>1, <3>2
  <2> QED BY <1>1, <2>1, <2>2
<1>4. CASE id_stage
  <2>1. UNCHANGED <<code, mem, Registers, Exited, ex_mem>>
    BY <1>4 DEF id_stage, Registers, regfile_write, Exited
  <2>2. ExecutePC' = ExecutePC
    BY <1>4, DecodeKeeps
  <2> QED BY <1>1, <2>1, <2>2 DEF Seen
<1>5. CASE if_stage
  <2>1. UNCHANGED <<code, mem, Registers, Exited, ex_mem, id_ex>>
    BY <1>5 DEF if_stage, Registers, regfile_write, Exited
  <2>2. DecodePC' = DecodePC
    BY <1>5 DEF if_stage, fetching, push, DecodePC
  <2> QED BY <1>1, <2>1, <2>2 DEF Seen, ExecutePC
<1> QED BY <1>2, <1>3, <1>4, <1>5

(* What the memory stage does, in the terms of the program: the instruction in
   EX/MEM is the one it is at, and has its effect. *)
LEMMA MemoryStep ==
    ASSUME IInv, ex_mem.valid, mem_stage
    PROVE  /\ NextPC \in Word /\ code[NextPC] \in Instruction(Reg)
           /\ Registers \in [Reg -> Word] /\ Registers[0] = 0
           /\ ~Exited /\ Exited' = is_exit(code[NextPC])
           /\ code' = code
           /\ NextPC' = Successor(code[NextPC], Registers, NextPC)
           /\ Registers' = WrittenTo(Registers, code[NextPC],
                                     Effect(code[NextPC], Registers, mem, 0, NextPC))
           /\ mem' = Stored(code[NextPC], Registers, mem, NextPC)
<1> DEFINE d == ex_mem.data
           i == ex_mem.data.instr
<1>1. NextPC = d.PC /\ NextPC \in Word /\ code[NextPC] = i /\ i \in Instruction(Reg)
  BY ExecutedType DEF NextPC, IInv, TypeInv, IsFetched
<1>2. Registers \in [Reg -> Word] /\ Registers[0] = 0
  BY RegistersType DEF IInv
<1>3. ~Exited /\ Exited' = is_exit(i) /\ code' = code
  BY MemoryKeeps DEF Exited, is_exit
<1>4. NextPC' = ExecutePC
  BY MemoryKeeps DEF NextPC, ExecutePC, DecodePC
<1>5. /\ d.result = IF i.op \in JumpOps THEN Link(NextPC) ELSE Computed(i, Registers, 0, NextPC)
      /\ d.rs2_data = Source2(i, Registers, 0)
      /\ ExecutePC = Successor(i, Registers, NextPC)
  BY <1>1 DEF IInv, ExecutedRight
<1>6. Registers' = WrittenTo(Registers, i, mem_result(i, d.result, d.rs2_data))
  BY MemoryKeeps DEF Pending
<1>7. mem_result(i, d.result, d.rs2_data) = Effect(i, Registers, mem, 0, NextPC)
  <2>1. is_load(i) \/ is_csr(i) => i.op \notin JumpOps
    BY DEF is_load, is_csr, CsrOps, JumpOps
  <2>2. is_csr(i) => Source2(i, Registers, 0) = 0 /\ ~is_load(i)
    BY DEF Source2, is_load, is_csr, CsrOps
  <2> HIDE DEF d, i
  <2> QED BY <1>5, <2>1, <2>2 DEF mem_result, Effect, Target, Link
<1>8. mem' = Stored(i, Registers, mem, NextPC)
  <2>1. mem' = IF is_store(i) THEN [mem EXCEPT ![d.result] = d.rs2_data] ELSE mem
    BY MemoryKeeps DEF mem_stage
  <2>2. is_store(i) => i.op \notin JumpOps
    BY DEF is_store, JumpOps
  <2> HIDE DEF d, i
  <2> QED BY <1>5, <2>1, <2>2 DEF Stored, Target
<1> HIDE DEF d, i
<1> QED BY <1>1, <1>2, <1>3, <1>4, <1>5, <1>6, <1>7, <1>8

(* And that is a step of the sequential machine. *)
LEMMA MemoryRefines ==
    ASSUME IInv, ex_mem.valid, mem_stage
    PROVE  ISA!Step
<1> DEFINE i  == ISA!I
           x1 == ISA!x1
           x2 == ISA!x2
<1>1. /\ i \in Instruction(Reg) /\ i.op \in Ops
      /\ x1 = Registers[i.rs1] /\ x2 = Registers[i.rs2]
  BY MemoryStep DEF ISA!I, ISA!x1, ISA!x2, Instruction
<1>2. NextPC' = Successor(i, Registers, NextPC)
  BY MemoryStep DEF ISA!I
<1>3. Registers' = WrittenTo(Registers, i, Effect(i, Registers, mem, 0, NextPC))
  BY MemoryStep DEF ISA!I
<1>4. mem' = Stored(i, Registers, mem, NextPC)
  BY MemoryStep DEF ISA!I
<1>5. ~Exited /\ Exited' = (i.op = "ECALL") /\ UNCHANGED code
  BY MemoryStep DEF ISA!I, is_exit
<1>6. ISA!Link = Wrap(NextPC + 1)
  BY SameArithmetic DEF ISA!Link
<1>7. \A value : use_rd(i) => ISA!Written(value) = WrittenTo(Registers, i, value)
  BY Zenon DEF ISA!Written, WrittenTo
<1>8. ~use_rd(i) => Registers' = Registers
  BY <1>3 DEF WrittenTo
<1>9. i.op \notin BranchOps \cup JumpOps => NextPC' = ISA!Link
  BY <1>1, <1>2, <1>6, MemoryStep, TakenIs, RegAssumption DEF Successor
<1>10. ~is_store(i) => UNCHANGED mem
  BY <1>4 DEF Stored
<1> DEFINE computed == Computed(i, Registers, 0, NextPC)
<1>11. /\ i.op \in {"LW", "SW", "JALR"} => computed = ISA!Wrap(x1 + i.imm)
       /\ i.op \in {"JAL"} \cup BranchOps => computed = ISA!Wrap(NextPC + i.imm)
       /\ i.op \in RegOps \cup ImmOps \cup UpperOps => computed = ISA!Result
  <2>1. computed =
           CASE i.op = "ADD"   -> Wrap(x1 + x2)
             [] i.op = "SUB"   -> Wrap(x1 - x2)
             [] i.op = "AND"   -> BitAnd(x1, x2)
             [] i.op = "OR"    -> BitOr(x1, x2)
             [] i.op = "XOR"   -> BitXor(x1, x2)
             [] i.op = "SLT"   -> Flag(Signed(x1) < Signed(x2))
             [] i.op = "SLTU"  -> Flag(x1 < x2)
             [] i.op = "SLTIU" -> Flag(x1 < i.imm)
             [] i.op = "LUI"   -> i.imm
             [] i.op \in {"ADDI", "LW", "SW", "JALR"}    -> Wrap(x1 + i.imm)
             [] i.op \in {"AUIPC", "JAL"} \cup BranchOps -> Wrap(NextPC + i.imm)
             [] OTHER -> computed
    BY <1>1, MemoryStep, ComputedIs, RegAssumption
  <2> HIDE DEF i, x1, x2, computed
  <2>2. /\ i.op \in {"LW", "SW", "JALR"} => computed = Wrap(x1 + i.imm)
        /\ i.op \in {"JAL"} \cup BranchOps => computed = Wrap(NextPC + i.imm)
    BY <2>1 DEF BranchOps
  <2>3. i.op \in RegOps \cup ImmOps \cup UpperOps => computed = ISA!Result
    BY <2>1, SameArithmetic DEF RegOps, ImmOps, UpperOps, BranchOps, ISA!Result, i, x1, x2
  <2> QED BY <2>2, <2>3, SameArithmetic
<1>12. i.op \in BranchOps => (Taken(i, Registers) <=> ISA!Taken)
  <2>1. /\ i.op = "BEQ"  => (Taken(i, Registers) <=> x1 = x2)
        /\ i.op = "BNE"  => (Taken(i, Registers) <=> x1 # x2)
        /\ i.op = "BLT"  => (Taken(i, Registers) <=> Signed(x1) < Signed(x2))
        /\ i.op = "BGE"  => (Taken(i, Registers) <=> Signed(x1) >= Signed(x2))
        /\ i.op = "BLTU" => (Taken(i, Registers) <=> x1 < x2)
        /\ i.op = "BGEU" => (Taken(i, Registers) <=> x1 >= x2)
    BY <1>1, MemoryStep, TakenIs, RegAssumption
  <2> QED BY <2>1, SameArithmetic DEF ISA!Taken, BranchOps
<1> HIDE DEF i, x1, x2, computed
<1> USE DEF use_rd, is_load, is_store, is_csr, Effect, Target, Stored, computed, i, x1, x2,
            RegOps, ImmOps, UpperOps, BranchOps, JumpOps, CsrOps
<1>13. CASE i.op \in RegOps \cup ImmOps \cup UpperOps
  <2>1. Registers' = ISA!Written(ISA!Result)
    BY <1>3, <1>7, <1>11, <1>13
  <2> QED BY <1>5, <1>9, <1>10, <1>13, <2>1 DEF ISA!Step, ISA!Compute
<1>14. CASE i.op = "LW"
  <2>1. Registers' = ISA!Written(mem[ISA!Wrap(x1 + i.imm)])
    BY <1>3, <1>7, <1>11, <1>14
  <2> QED BY <1>5, <1>9, <1>10, <1>14, <2>1 DEF ISA!Step, ISA!Load
<1>15. CASE i.op = "SW"
  <2>1. Source2(i, Registers, 0) = x2
    BY <1>1, <1>15, MemoryStep DEF Source2, Source, use_rs2
  <2>2. mem' = [mem EXCEPT ![ISA!Wrap(x1 + i.imm)] = x2]
    BY <1>4, <1>11, <1>15, <2>1
  <2> QED BY <1>5, <1>8, <1>9, <1>15, <2>2 DEF ISA!Step, ISA!Store
<1>16. CASE i.op \in BranchOps
  <2>1. NextPC' = IF ISA!Taken THEN ISA!Wrap(NextPC + i.imm) ELSE ISA!Link
    BY <1>2, <1>6, <1>11, <1>12, <1>16 DEF Successor
  <2> QED BY <1>5, <1>8, <1>10, <1>16, <2>1 DEF ISA!Step, ISA!Branch
<1>17. CASE i.op \in JumpOps
  <2>1. Taken(i, Registers)
    BY <1>1, <1>17, MemoryStep, TakenIs, RegAssumption
  <2>2. NextPC' = IF i.op = "JAL" THEN ISA!Wrap(NextPC + i.imm) ELSE ISA!Wrap(x1 + i.imm)
    BY <1>2, <1>11, <1>17, <2>1 DEF Successor
  <2>3. Registers' = ISA!Written(ISA!Link)
    BY <1>3, <1>6, <1>7, <1>17
  <2> QED BY <1>5, <1>10, <1>17, <2>2, <2>3 DEF ISA!Step, ISA!Jump
<1>18. CASE i.op \in CsrOps
  <2>1. Registers' = ISA!Written(0) /\ 0 \in IF i.imm \in Counters THEN ISA!Word ELSE {0}
    BY <1>3, <1>7, <1>18, WordFacts, SameArithmetic
  <2> QED BY <1>5, <1>9, <1>10, <1>18, <2>1 DEF ISA!Step, ISA!Csr
<1>19. CASE i.op \in {"FENCE", "ECALL"}
  BY <1>5, <1>8, <1>9, <1>10, <1>19 DEF ISA!Step, ISA!Fence, ISA!Exit
<1> QED BY <1>1, <1>13, <1>14, <1>15, <1>16, <1>17, <1>18, <1>19 DEF Ops

(* The memory stage is a step of the machine, and the other stages stutter. *)
LEMMA StepRefines == ASSUME IInv, IInv', CsrsForwardRight, [Next]_vars PROVE [ISA!Step]_(ISA!vars)
<1>1. CASE mem_stage
  <2>1. CASE ex_mem.valid
    BY <1>1, <2>1, MemoryRefines
  <2>2. CASE ~ex_mem.valid
    <3>1. UNCHANGED <<code, mem, ex_mem, PC, if_id, id_ex, reg_file, mem_wb, exited>>
      BY <1>1, <2>2 DEF mem_stage
    <3>2. UNCHANGED <<NextPC, Registers, Exited>>
      BY <3>1 DEF NextPC, Registers, regfile_write, Exited
    <3> QED BY <3>1, <3>2 DEF ISA!vars
  <2> QED BY <2>1, <2>2
<1>2. CASE wb_stage \/ ex_stage \/ id_stage \/ if_stage
  BY <1>2, OthersStutter DEF ISA!vars
<1>3. CASE UNCHANGED vars
  BY <1>3 DEF vars, ISA!vars, NextPC, Registers, regfile_write, Exited
<1> QED BY <1>1, <1>2, <1>3 DEF Next, Done

(* README.md: "The ISA of this processor is the standard RV32-I".  For every
   program whose CSR instructions are forwarded right, the core has the effects
   of the machine that runs one instruction at a time (Core::tick). *)
THEOREM Refinement == ASSUME CsrsForwardRight PROVE Spec => ImplementsISA
<1>1. Init => IInv /\ ISA!Init
  BY IInvInit, InitRefines
<1>2. IInv /\ [Next]_vars => IInv'
  BY IInvNext
<1>3. IInv /\ IInv' /\ [Next]_vars => [ISA!Step]_(ISA!vars)
  BY StepRefines
<1> QED BY <1>1, <1>2, <1>3, PTL DEF Spec, ImplementsISA, ISA!Spec
==============================================================================
