------------------------- MODULE GSharePipelineProofs -------------------------
(***************************************************************************)
(* Proofs about project2's pipeline, for every program, register file,     *)
(* word size and predictor: the prediction of a branch is there when the   *)
(* branch is resolved, and the core is the sequential machine.             *)
(***************************************************************************)
EXTENDS GSharePipeline, InstructionProofs

Fetched  == [instr : Instruction(Reg), PC : Word]
Decoded  == [instr : Instruction(Reg), rs1_data : Word, rs2_data : Word, PC : Word]
Executed == [instr : Instruction(Reg), rs2_data : Word, result : Word, PC : Word]
Passed   == [instr : Instruction(Reg), result : Word, PC : Word]

Register(Data) == [valid : BOOLEAN, data : Data, valid_next : BOOLEAN, data_next : Data]

TypeInv ==
    /\ code \in Programs
    /\ mem \in [Word -> Word]
    /\ reg_file \in [Reg -> Word]
    /\ PC \in Word
    /\ if_id \in Register(Fetched)
    /\ id_ex \in Register(Decoded)
    /\ ex_mem \in Register(Executed)
    /\ mem_wb \in Register(Passed)
    /\ fetch_stalled \in BOOLEAN /\ pipeline_stalled \in BOOLEAN /\ exited \in BOOLEAN
    /\ instrs \in Word
    /\ BTB \in [BTBIndex -> BTB_entry]

------------------------------------------------------------------------------
(* What the operations of a pipeline register do to its two halves. *)
Latched(reg, new) ==
    /\ (new.valid <=> reg.valid_next) /\ new.data = reg.data_next
    /\ (new.valid_next <=> reg.valid_next) /\ new.data_next = reg.data_next

Pushed(reg, new, data) ==
    /\ (new.valid <=> reg.valid) /\ new.data = reg.data
    /\ new.valid_next /\ new.data_next = data

Popped(reg, new) ==
    /\ (new.valid <=> reg.valid) /\ new.data = reg.data
    /\ ~new.valid_next /\ new.data_next = reg.data_next

Flushed(reg, new) ==
    /\ ~new.valid /\ new.data = reg.data
    /\ ~new.valid_next /\ new.data_next = reg.data_next

(* push, pop, flush and latch do this, and keep the type. *)
LEMMA RegisterSteps ==
    ASSUME NEW Data, NEW reg \in Register(Data)
    PROVE  /\ \A data \in Data : push(reg, data) \in Register(Data) /\ Pushed(reg, push(reg, data), data)
           /\ pop(reg) \in Register(Data) /\ Popped(reg, pop(reg))
           /\ flush(reg) \in Register(Data) /\ Flushed(reg, flush(reg))
           /\ latch(reg) \in Register(Data) /\ Latched(reg, latch(reg))
  BY DEF Register, push, pop, flush, latch, Pushed, Popped, Flushed, Latched

(* Every PC has its row and its tag. *)
LEMMA RowIndex ==
    ASSUME NEW pc \in Word
    PROVE  btb_index(pc) \in BTBIndex /\ btb_tag(pc) \in Word
  BY BtbSizeAssumption, WordFacts DEF btb_index, btb_tag, BTBIndex, Word

(* The PC that fetch goes to is a word. *)
LEMMA PredictType ==
    ASSUME TypeInv, NEW pc \in Word
    PROVE  predict(pc) \in Word /\ Fallthrough(pc) \in Word
<1>1. Fallthrough(pc) \in Word
  BY WordFacts DEF Fallthrough
<1>2. BTB[btb_index(pc)].target \in Word
  BY RowIndex DEF TypeInv, BTB_entry
<1> QED BY <1>1, <1>2 DEF predict

(* At the start the state is in its types. *)
LEMMA TypeInit == Init => TypeInv
<1> SUFFICES ASSUME Init PROVE TypeInv
  OBVIOUS
<1>1. 0 \in Word /\ 0 \in Reg
  BY WordFacts, RegAssumption
<1>2. NoInstr \in Instruction(Reg)
  BY <1>1 DEF NoInstr, Instruction, Ops
<1>3. /\ if_id \in Register(Fetched) /\ id_ex \in Register(Decoded)
      /\ ex_mem \in Register(Executed) /\ mem_wb \in Register(Passed)
  BY <1>1, <1>2 DEF Init, NewReg, Register, Fetched, Decoded, Executed, Passed
<1>4. BTB \in [BTBIndex -> BTB_entry]
  BY <1>1 DEF Init, PredictorInit, BTB_entry
<1> QED BY <1>1, <1>3, <1>4, MemoriesAssumption DEF Init, TypeInv

(* Whatever is fetched is an instruction of the program. *)
LEMMA FetchedIsInstruction ==
    ASSUME TypeInv, NEW pc \in Word
    PROVE  code[pc] \in Instruction(Reg)
  BY ProgramsAssumption DEF TypeInv

(* The two halves of each register hold what its stage pushes. *)
LEMMA RegisterFields ==
    ASSUME TypeInv
    PROVE  /\ if_id.data \in Fetched /\ if_id.data_next \in Fetched
           /\ id_ex.data \in Decoded /\ id_ex.data_next \in Decoded
           /\ ex_mem.data \in Executed /\ ex_mem.data_next \in Executed
           /\ mem_wb.data \in Passed /\ mem_wb.data_next \in Passed
  BY DEF TypeInv, Register

(* What each stage does to the registers. *)
LEMMA LatchStep ==
    ASSUME TypeInv, latch_registers
    PROVE  /\ TypeInv'
           /\ UNCHANGED <<code, mem, reg_file, PC, fetch_stalled, exited, instrs, predictor>>
           /\ Latched(if_id, if_id') /\ Latched(id_ex, id_ex')
           /\ Latched(ex_mem, ex_mem') /\ Latched(mem_wb, mem_wb')
           /\ ~pipeline_stalled'
<1>1. UNCHANGED <<code, mem, reg_file, PC, fetch_stalled, exited, instrs, predictor>>
  BY DEF latch_registers
<1>2. /\ if_id' = latch(if_id) /\ id_ex' = latch(id_ex) /\ ex_mem' = latch(ex_mem) /\ mem_wb' = latch(mem_wb)
      /\ pipeline_stalled' = FALSE
  BY DEF latch_registers
<1>3. /\ if_id \in Register(Fetched) /\ id_ex \in Register(Decoded)
      /\ ex_mem \in Register(Executed) /\ mem_wb \in Register(Passed)
  BY DEF TypeInv
<1>4. TypeInv'
  BY <1>1, <1>2, <1>3, RegisterSteps
     DEF TypeInv, predictor, Register, Fetched, Decoded, Executed, Passed, BTBIndex, BTB_entry
<1> QED BY <1>1, <1>2, <1>3, <1>4, RegisterSteps

(* Write-back takes its instruction, and writes the register file. *)
LEMMA WritebackStep ==
    ASSUME TypeInv, wb_stage
    PROVE  /\ TypeInv'
           /\ UNCHANGED <<code, mem, PC, if_id, id_ex, ex_mem, fetch_stalled, pipeline_stalled, predictor>>
           /\ IF mem_wb.valid
              THEN /\ Popped(mem_wb, mem_wb')
                   /\ reg_file' = WrittenTo(reg_file, mem_wb.data.instr, mem_wb.data.result)
                   /\ (exited' <=> is_exit(mem_wb.data.instr))
              ELSE UNCHANGED <<mem_wb, reg_file, exited>>
<1>1. UNCHANGED <<code, mem, PC, if_id, id_ex, ex_mem, fetch_stalled, pipeline_stalled, predictor>>
  BY DEF wb_stage
<1>2. mem_wb \in Register(Passed) /\ mem_wb.data \in Passed
  BY RegisterFields DEF TypeInv
<1>3. CASE mem_wb.valid
  <2>1. /\ mem_wb' = pop(mem_wb)
        /\ reg_file' = WrittenTo(reg_file, mem_wb.data.instr, mem_wb.data.result)
        /\ exited' = is_exit(mem_wb.data.instr)
        /\ instrs' = Wrap(instrs + 1)
    BY <1>3 DEF wb_stage, regfile_write, WrittenTo
  <2>2. instrs' \in Word /\ exited' \in BOOLEAN
    BY <2>1, WordFacts DEF TypeInv, is_exit
  <2>3. reg_file' \in [Reg -> Word]
    BY <1>2, <2>1 DEF TypeInv, Passed, WrittenTo
  <2>4. TypeInv'
    BY <1>1, <1>2, <2>1, <2>2, <2>3, RegisterSteps
       DEF TypeInv, predictor, Register, Fetched, Decoded, Executed, Passed, BTBIndex, BTB_entry
  <2> QED BY <1>1, <1>2, <1>3, <2>1, <2>4, RegisterSteps
<1>4. CASE ~mem_wb.valid
  <2>1. UNCHANGED <<reg_file, instrs, exited, mem_wb>>
    BY <1>4 DEF wb_stage
  <2>2. TypeInv'
    BY <1>1, <2>1
       DEF TypeInv, predictor, Register, Fetched, Decoded, Executed, Passed, BTBIndex, BTB_entry
  <2> QED BY <1>1, <1>4, <2>1, <2>2
<1> QED BY <1>3, <1>4

(* The memory stage moves its instruction on, with the result of a load. *)
LEMMA MemoryStep ==
    ASSUME TypeInv, mem_stage
    PROVE  /\ TypeInv'
           /\ UNCHANGED <<code, reg_file, PC, if_id, id_ex, control, predictor>>
           /\ IF ex_mem.valid
              THEN LET d == ex_mem.data
                   IN  /\ Popped(ex_mem, ex_mem')
                       /\ Pushed(mem_wb, mem_wb', [instr |-> d.instr, PC |-> d.PC,
                                    result |-> mem_result(d.instr, d.result, d.rs2_data)])
                       /\ mem' = IF is_store(d.instr) THEN [mem EXCEPT ![d.result] = d.rs2_data] ELSE mem
              ELSE UNCHANGED <<mem_wb, ex_mem, mem>>
<1>1. UNCHANGED <<code, reg_file, PC, if_id, id_ex, control, predictor>>
  BY DEF mem_stage
<1>2. ex_mem \in Register(Executed) /\ mem_wb \in Register(Passed)
  BY DEF TypeInv
<1>3. CASE ex_mem.valid
  <2> DEFINE d == ex_mem.data
             passed == [instr |-> d.instr, PC |-> d.PC, result |-> mem_result(d.instr, d.result, d.rs2_data)]
  <2>1. /\ mem_wb' = push(mem_wb, passed) /\ ex_mem' = pop(ex_mem)
        /\ mem' = IF is_store(d.instr) THEN [mem EXCEPT ![d.result] = d.rs2_data] ELSE mem
    BY <1>3 DEF mem_stage
  <2>2. d.instr \in Instruction(Reg) /\ d.rs2_data \in Word /\ d.result \in Word /\ d.PC \in Word
    BY RegisterFields DEF Executed
  <2> HIDE DEF d
  <2>3. mem_result(d.instr, d.result, d.rs2_data) \in Word
    BY <2>2 DEF mem_result, TypeInv
  <2>4. passed \in Passed
    BY <2>2, <2>3 DEF Passed
  <2>5. mem' \in [Word -> Word]
    BY <2>1, <2>2 DEF TypeInv
  <2> HIDE DEF passed
  <2>6. /\ mem_wb' \in Register(Passed) /\ ex_mem' \in Register(Executed)
        /\ Popped(ex_mem, ex_mem') /\ Pushed(mem_wb, mem_wb', passed)
    BY <1>2, <2>1, <2>4, RegisterSteps
  <2>7. TypeInv'
    BY <1>1, <2>5, <2>6
       DEF TypeInv, control, predictor, Register, Fetched, Decoded, Executed, Passed, BTBIndex, BTB_entry
  <2> QED BY <1>1, <1>3, <2>1, <2>6, <2>7 DEF d, passed
<1>4. CASE ~ex_mem.valid
  <2>1. UNCHANGED <<mem_wb, ex_mem, mem>>
    BY <1>4 DEF mem_stage
  <2>2. TypeInv'
    BY <1>1, <2>1
       DEF TypeInv, control, predictor, Register, Fetched, Decoded, Executed, Passed, BTBIndex, BTB_entry
  <2> QED BY <1>1, <1>4, <2>1, <2>2
<1> QED BY <1>3, <1>4

(* The operands that execute computes with, and where it sends fetch. *)
Forwarded(used, r, data) == IF used THEN data_forwarding(r, data) ELSE data

Operand1 == Forwarded(use_rs1(id_ex.data.instr), id_ex.data.instr.rs1, id_ex.data.rs1_data)
Operand2 == Forwarded(use_rs2(id_ex.data.instr), id_ex.data.instr.rs2, id_ex.data.rs2_data)
Outcome  == alu_unit(id_ex.data.instr, Operand1, Operand2, id_ex.data.PC)

ResolvedPC ==
    IF br_taken(id_ex.data.instr, Operand1, Operand2) THEN Outcome ELSE Fallthrough(id_ex.data.PC)

Redirects == is_branch(id_ex.data.instr) /\ ResolvedPC # if_id.data.PC

(* Execute moves its instruction on with what it computed, sends fetch to where
   a mispredicted branch goes, and may claim a row of the BTB for it. *)
LEMMA ExecuteStep ==
    ASSUME TypeInv, ex_stage
    PROVE  /\ TypeInv'
           /\ UNCHANGED <<code, mem, reg_file, mem_wb, control>>
           /\ IF id_ex.valid
              THEN LET d == id_ex.data
                   IN  /\ Popped(id_ex, id_ex')
                       /\ Pushed(ex_mem, ex_mem',
                             [instr |-> d.instr, rs2_data |-> Operand2, PC |-> d.PC,
                              result |-> IF d.instr.op \in JumpOps THEN Fallthrough(d.PC) ELSE Outcome])
                       /\ IF Redirects
                          THEN PC' = ResolvedPC /\ Flushed(if_id, if_id')
                          ELSE UNCHANGED <<PC, if_id>>
                       /\ \/ UNCHANGED BTB
                          \/ /\ is_branch(d.instr)
                             /\ BTB' = [BTB EXCEPT ![btb_index(d.PC)] =
                                          [valid |-> TRUE, tag |-> btb_tag(d.PC), target |-> ResolvedPC]]
              ELSE UNCHANGED <<id_ex, ex_mem, PC, if_id, predictor>>
<1>1. UNCHANGED <<code, mem, reg_file, mem_wb, control>>
  BY DEF ex_stage
<1>2. /\ if_id \in Register(Fetched) /\ id_ex \in Register(Decoded)
      /\ ex_mem \in Register(Executed) /\ mem_wb \in Register(Passed)
  BY DEF TypeInv
<1>3. CASE id_ex.valid
  <2> DEFINE d == id_ex.data
             executed == [instr |-> d.instr, rs2_data |-> Operand2, PC |-> d.PC,
                          result |-> IF d.instr.op \in JumpOps THEN Fallthrough(d.PC) ELSE Outcome]
             row == [valid |-> TRUE, tag |-> btb_tag(d.PC), target |-> ResolvedPC]
  <2>1. /\ ex_mem' = push(ex_mem, executed)
        /\ id_ex' = pop(id_ex)
        /\ IF is_branch(d.instr) THEN resolve(d.instr, Operand1, Operand2, Outcome, d.PC)
                                 ELSE UNCHANGED <<PC, if_id, predictor>>
    BY <1>3, Zenon DEF ex_stage, Operand1, Operand2, Outcome, Forwarded
  <2>2. d.instr \in Instruction(Reg) /\ d.rs1_data \in Word /\ d.rs2_data \in Word /\ d.PC \in Word
    BY RegisterFields DEF Decoded
  <2>3. Operand1 \in Word /\ Operand2 \in Word
    <3>1. ex_mem.data.result \in Word /\ mem_wb.data.result \in Word
      BY RegisterFields DEF Executed, Passed
    <3> QED BY <2>2, <3>1 DEF Operand1, Operand2, Forwarded, data_forwarding
  <2>4. Outcome \in Word
    BY <2>2, <2>3, UnitIsWord DEF Outcome
  <2>5. Fallthrough(d.PC) \in Word /\ ResolvedPC \in Word
    BY <2>2, <2>4, PredictType DEF ResolvedPC
  <2>6. executed \in Executed
    BY <2>2, <2>3, <2>4, <2>5 DEF Executed
  <2>7. row \in BTB_entry /\ btb_index(d.PC) \in BTBIndex
    BY <2>2, <2>5, RowIndex DEF BTB_entry
  <2>8. IF Redirects THEN PC' = ResolvedPC /\ if_id' = flush(if_id) ELSE UNCHANGED <<PC, if_id>>
    BY <2>1, Zenon DEF resolve, Redirects, ResolvedPC
  <2>9. UNCHANGED BTB \/ (is_branch(d.instr) /\ BTB' = [BTB EXCEPT ![btb_index(d.PC)] = row])
    <3>1. CASE is_branch(d.instr)
      <4>1. resolve(d.instr, Operand1, Operand2, Outcome, d.PC)
        BY <2>1, <3>1
      <4>2. UNCHANGED predictor \/ update(d.PC, ResolvedPC, br_taken(d.instr, Operand1, Operand2))
        BY <4>1, Zenon DEF resolve, ResolvedPC
      <4>3. UNCHANGED BTB \/ BTB' = [BTB EXCEPT ![btb_index(d.PC)] = row]
        BY <4>2 DEF predictor, update
      <4> QED BY <3>1, <4>3
    <3>2. CASE ~is_branch(d.instr)
      BY <2>1, <3>2 DEF predictor
    <3> QED BY <3>1, <3>2
  <2> HIDE DEF executed, row, d
  <2>10. /\ ex_mem' \in Register(Executed) /\ Pushed(ex_mem, ex_mem', executed)
         /\ id_ex' \in Register(Decoded) /\ Popped(id_ex, id_ex')
    BY <1>2, <2>1, <2>6, RegisterSteps
  <2>11. /\ PC' \in Word /\ if_id' \in Register(Fetched)
         /\ IF Redirects THEN PC' = ResolvedPC /\ Flushed(if_id, if_id') ELSE UNCHANGED <<PC, if_id>>
    BY <1>2, <2>5, <2>8, RegisterSteps DEF TypeInv
  <2>12. BTB' \in [BTBIndex -> BTB_entry]
    <3>1. BTB \in [BTBIndex -> BTB_entry]
      BY DEF TypeInv
    <3> QED BY <2>7, <2>9, <3>1
  <2>13. TypeInv'
    BY <1>1, <1>2, <2>10, <2>11, <2>12
       DEF TypeInv, control, Register, Fetched, Decoded, Executed, Passed, BTBIndex, BTB_entry
  <2> QED BY <1>1, <1>3, <2>9, <2>10, <2>11, <2>13 DEF executed, row, d
<1>4. CASE ~id_ex.valid
  <2>1. UNCHANGED <<id_ex, ex_mem, PC, if_id, predictor>>
    BY <1>4 DEF ex_stage
  <2>2. TypeInv'
    BY <1>1, <2>1
       DEF TypeInv, control, predictor, Register, Fetched, Decoded, Executed, Passed, BTBIndex, BTB_entry
  <2> QED BY <1>1, <1>4, <2>1, <2>2
<1> QED BY <1>3, <1>4

Decodes == decoding /\ ~check_data_hazards(if_id.data.instr)

(* Decode moves its instruction on with the operands read, or stalls fetch. *)
LEMMA DecodeStep ==
    ASSUME TypeInv, id_stage
    PROVE  /\ TypeInv'
           /\ UNCHANGED <<code, mem, reg_file, PC, ex_mem, mem_wb, exited, predictor>>
           /\ (fetch_stalled' <=> fetch_stalled \/ (decoding /\ is_exit(if_id.data.instr)))
           /\ (pipeline_stalled' <=> pipeline_stalled \/ (decoding /\ ~Decodes))
           /\ IF Decodes
              THEN /\ Popped(if_id, if_id')
                   /\ Pushed(id_ex, id_ex', [instr |-> if_id.data.instr, PC |-> if_id.data.PC,
                                            rs1_data |-> operand1(if_id.data.instr),
                                            rs2_data |-> operand2(if_id.data.instr)])
              ELSE UNCHANGED <<if_id, id_ex>>
<1>1. UNCHANGED <<code, mem, reg_file, PC, ex_mem, mem_wb, exited, instrs, predictor>>
  BY DEF id_stage
<1>2. if_id \in Register(Fetched) /\ id_ex \in Register(Decoded)
  BY DEF TypeInv
<1>3. CASE decoding
  <2> DEFINE instr == if_id.data.instr
             decoded == [instr |-> instr, PC |-> if_id.data.PC,
                         rs1_data |-> operand1(instr), rs2_data |-> operand2(instr)]
  <2>1. /\ fetch_stalled' = (fetch_stalled \/ is_exit(instr))
        /\ pipeline_stalled' = check_data_hazards(instr)
        /\ IF check_data_hazards(instr)
           THEN UNCHANGED <<if_id, id_ex>>
           ELSE id_ex' = push(id_ex, decoded) /\ if_id' = pop(if_id)
    BY <1>3, Zenon DEF id_stage, locks_fetch
  <2>2. check_data_hazards(instr) \in BOOLEAN /\ is_exit(instr) \in BOOLEAN
    BY DEF check_data_hazards, is_exit
  <2>3. instr \in Instruction(Reg) /\ if_id.data.PC \in Word
    BY RegisterFields DEF Fetched
  <2>4. operand1(instr) \in Word /\ operand2(instr) \in Word
    <3>1. instr.rs1 \in Reg /\ instr.rs2 \in Reg
      BY <2>3 DEF Instruction
    <3>2. \A addr : get_csr(addr) \in Word
      <4>1. 0 \in Word /\ instrs \in Word /\ instrs - 1 + 5 \in Int
        BY WordFacts DEF TypeInv
      <4> QED BY <4>1, WordFacts DEF get_csr, MCYCLE, MINSTRET
    <3> QED BY <3>1, <3>2, WordFacts DEF operand1, operand2, TypeInv
  <2>5. decoded \in Decoded
    BY <2>3, <2>4 DEF Decoded
  <2> HIDE DEF decoded
  <2>6. /\ id_ex' \in Register(Decoded) /\ if_id' \in Register(Fetched)
        /\ IF check_data_hazards(instr)
           THEN UNCHANGED <<if_id, id_ex>>
           ELSE Pushed(id_ex, id_ex', decoded) /\ Popped(if_id, if_id')
    BY <1>2, <2>1, <2>5, RegisterSteps
  <2>7. fetch_stalled' \in BOOLEAN /\ pipeline_stalled' \in BOOLEAN
    BY <2>1, <2>2
  <2>8. TypeInv'
    BY <1>1, <2>6, <2>7
       DEF TypeInv, predictor, Register, Fetched, Decoded, Executed, Passed, BTBIndex, BTB_entry
  <2>9. fetch_stalled' = (fetch_stalled \/ (decoding /\ is_exit(instr)))
    BY <1>3, <2>1, Zenon
  <2>10. pipeline_stalled' = (pipeline_stalled \/ (decoding /\ ~Decodes))
    <3>1. ~pipeline_stalled
      BY <1>3 DEF decoding
    <3>2. Decodes = ~check_data_hazards(instr)
      BY <1>3, <2>2 DEF Decodes
    <3> HIDE DEF instr
    <3> QED BY <1>3, <2>1, <2>2, <3>1, <3>2, Zenon
  <2>11. Decodes <=> ~check_data_hazards(instr)
    BY <1>3 DEF Decodes
  <2> HIDE DEF instr
  <2> QED BY <1>1, <2>6, <2>8, <2>9, <2>10, <2>11 DEF decoded, instr
<1>4. CASE ~decoding
  <2>1. UNCHANGED <<fetch_stalled, pipeline_stalled, if_id, id_ex>>
    BY <1>4, Zenon DEF id_stage
  <2>2. TypeInv'
    BY <1>1, <2>1
       DEF TypeInv, predictor, Register, Fetched, Decoded, Executed, Passed, BTBIndex, BTB_entry
  <2>3. ~Decodes
    BY <1>4 DEF Decodes
  <2> QED BY <1>1, <1>4, <2>1, <2>2, <2>3 DEF TypeInv
<1> QED BY <1>3, <1>4

(* Fetch takes the instruction at the PC, unless it is stalled. *)
LEMMA FetchStep ==
    ASSUME TypeInv, if_stage
    PROVE  /\ TypeInv'
           /\ UNCHANGED <<code, mem, reg_file, id_ex, ex_mem, mem_wb, control, predictor>>
           /\ IF fetch_stalled \/ pipeline_stalled
              THEN UNCHANGED <<if_id, PC>>
              ELSE /\ Pushed(if_id, if_id', [instr |-> code[PC], PC |-> PC])
                   /\ PC' = next_fetch_PC
<1>1. UNCHANGED <<code, mem, reg_file, id_ex, ex_mem, mem_wb, control, predictor>>
  BY DEF if_stage
<1>2. CASE fetch_stalled \/ pipeline_stalled
  <2>1. UNCHANGED <<if_id, PC>>
    BY <1>2 DEF if_stage
  <2>2. TypeInv'
    BY <1>1, <2>1
       DEF TypeInv, control, predictor, Register, Fetched, Decoded, Executed, Passed, BTBIndex, BTB_entry
  <2> QED BY <1>1, <1>2, <2>1, <2>2
<1>3. CASE ~(fetch_stalled \/ pipeline_stalled)
  <2> DEFINE fetched == [instr |-> code[PC], PC |-> PC]
  <2>1. if_id' = push(if_id, fetched) /\ PC' = next_fetch_PC
    BY <1>3 DEF if_stage
  <2>2. fetched \in Fetched
    BY FetchedIsInstruction DEF TypeInv, Fetched
  <2> HIDE DEF fetched
  <2>3. if_id' \in Register(Fetched) /\ Pushed(if_id, if_id', fetched)
    BY <2>1, <2>2, RegisterSteps DEF TypeInv
  <2>4. PC' \in Word
    BY <2>1, PredictType DEF next_fetch_PC, TypeInv
  <2>5. TypeInv'
    BY <1>1, <2>3, <2>4
       DEF TypeInv, control, predictor, Register, Fetched, Decoded, Executed, Passed, BTBIndex, BTB_entry
  <2> QED BY <1>1, <1>3, <2>1, <2>3, <2>5 DEF fetched
<1> QED BY <1>2, <1>3

------------------------------------------------------------------------------
(* What the halves of the registers have to do with each other while a cycle
   goes on: each stage leaves behind what the next one needs. *)
InStep(reg) == (reg.valid <=> reg.valid_next) /\ reg.data = reg.data_next

Halves ==
    /\ stage \in {"wb", "mem", "ex", "id"} => ~pipeline_stalled /\ InStep(if_id)
    /\ stage \in {"wb", "mem", "ex"} => InStep(id_ex)
    /\ stage \in {"wb", "mem"} => InStep(ex_mem)
    /\ stage = "wb" => InStep(mem_wb)
    /\ stage = "mem" => ~mem_wb.valid_next
    /\ stage = "ex" =>
           /\ ~ex_mem.valid_next
           /\ (mem_wb.valid_next <=> ex_mem.valid)
           /\ (ex_mem.valid => mem_wb.data_next.instr = ex_mem.data.instr)
    /\ stage = "id" =>
           /\ ~id_ex.valid_next
           /\ (ex_mem.valid_next <=> id_ex.valid)
           /\ (id_ex.valid => ex_mem.data_next.instr = id_ex.data.instr)
    /\ stage = "if" => ~if_id.valid_next \/ pipeline_stalled

(* Fetch stays locked from the cycle the exit is decoded, and nothing is behind
   the exit. *)
ExitIn(reg) == reg.valid_next /\ is_exit(reg.data_next.instr)

ExitInv ==
    /\ ExitIn(id_ex) \/ ExitIn(ex_mem) \/ ExitIn(mem_wb) \/ exited => fetch_stalled
    /\ fetch_stalled => ~if_id.valid_next /\ (id_ex.valid_next => is_exit(id_ex.data_next.instr))
    /\ ExitIn(ex_mem) => ~id_ex.valid_next
    /\ ExitIn(mem_wb) => ~id_ex.valid_next /\ ~ex_mem.valid_next
    /\ exited => ~id_ex.valid_next /\ ~ex_mem.valid_next /\ ~mem_wb.valid_next

(* Unless it is the exit, what has been decoded has something fetched behind it. *)
FetchedBehind ==
    /\ stage \in {"latch", "wb", "mem", "ex"} /\ id_ex.valid_next =>
           is_exit(id_ex.data_next.instr) \/ if_id.valid_next
    /\ stage = "if" /\ id_ex.valid_next => ~pipeline_stalled

ControlInv == TypeInv /\ Halves /\ ExitInv /\ FetchedBehind

(* The pipeline is empty at the start. *)
LEMMA ControlInit == Init => ControlInv
<1> SUFFICES ASSUME Init PROVE ControlInv
  OBVIOUS
<1>1. Halves /\ ExitInv /\ FetchedBehind
  BY DEF Init, NewReg, Halves, ExitInv, ExitIn, is_exit, FetchedBehind
<1> QED BY <1>1, TypeInit DEF ControlInv

(* Every stage leaves the halves and the exit's lock in order, and stalls nobody
   who has something behind him. *)
LEMMA ControlNext == ControlInv /\ [Next]_vars => ControlInv'
<1> SUFFICES ASSUME ControlInv, [Next]_vars PROVE ControlInv'
  OBVIOUS
<1>0. TypeInv
  BY DEF ControlInv
<1>1. CASE latch_registers
  <2>1. stage = "latch" /\ stage' = "wb" /\ ~exited
    BY <1>1 DEF latch_registers
  <2>5. Halves'
    BY <1>0, <1>1, <2>1, LatchStep
       DEF ControlInv, Halves, InStep, ExitInv, ExitIn, is_exit, FetchedBehind, Latched
  <2>6. ExitInv'
    BY <1>0, <1>1, <2>1, LatchStep
       DEF ControlInv, Halves, InStep, ExitInv, ExitIn, is_exit, FetchedBehind, Latched
  <2>7. FetchedBehind'
    BY <1>0, <1>1, <2>1, LatchStep
       DEF ControlInv, Halves, InStep, ExitInv, ExitIn, is_exit, FetchedBehind, Latched
  <2> QED BY <1>0, <1>1, <2>5, <2>6, <2>7, LatchStep DEF ControlInv
<1>2. CASE wb_stage
  <2>1. stage = "wb" /\ stage' = "mem"
    BY <1>2 DEF wb_stage
  <2>5. Halves'
    BY <1>0, <1>2, <2>1, WritebackStep
       DEF ControlInv, Halves, InStep, ExitInv, ExitIn, is_exit, FetchedBehind, Popped
  <2>6. ExitInv'
    BY <1>0, <1>2, <2>1, WritebackStep
       DEF ControlInv, Halves, InStep, ExitInv, ExitIn, is_exit, FetchedBehind, Popped
  <2>7. FetchedBehind'
    BY <1>0, <1>2, <2>1, WritebackStep
       DEF ControlInv, Halves, InStep, ExitInv, ExitIn, is_exit, FetchedBehind, Popped
  <2> QED BY <1>0, <1>2, <2>5, <2>6, <2>7, WritebackStep DEF ControlInv
<1>3. CASE mem_stage
  <2>1. stage = "mem" /\ stage' = "ex"
    BY <1>3 DEF mem_stage
  <2>5. Halves'
    BY <1>0, <1>3, <2>1, MemoryStep
       DEF ControlInv, Halves, InStep, ExitInv, ExitIn, is_exit, FetchedBehind, Popped, Pushed, control
  <2>6. ExitInv'
    BY <1>0, <1>3, <2>1, MemoryStep
       DEF ControlInv, Halves, InStep, ExitInv, ExitIn, is_exit, FetchedBehind, Popped, Pushed, control
  <2>7. FetchedBehind'
    BY <1>0, <1>3, <2>1, MemoryStep
       DEF ControlInv, Halves, InStep, ExitInv, ExitIn, is_exit, FetchedBehind, Popped, Pushed, control
  <2> QED BY <1>0, <1>3, <2>5, <2>6, <2>7, MemoryStep DEF ControlInv
<1>4. CASE ex_stage
  <2>1. stage = "ex" /\ stage' = "id"
    BY <1>4 DEF ex_stage
  <2>5. Halves'
    BY <1>0, <1>4, <2>1, ExecuteStep
       DEF ControlInv, Halves, InStep, ExitInv, ExitIn, is_exit, FetchedBehind, Popped, Pushed, Flushed, control
  <2>6. ExitInv'
    BY <1>0, <1>4, <2>1, ExecuteStep
       DEF ControlInv, Halves, InStep, ExitInv, ExitIn, is_exit, FetchedBehind, Popped, Pushed, Flushed, control
  <2>7. FetchedBehind'
    BY <1>0, <1>4, <2>1, ExecuteStep
       DEF ControlInv, Halves, InStep, ExitInv, ExitIn, is_exit, FetchedBehind, Popped, Pushed, Flushed, control
  <2> QED BY <1>0, <1>4, <2>5, <2>6, <2>7, ExecuteStep DEF ControlInv
<1>5. CASE id_stage
  <2>1. stage = "id" /\ stage' = "if"
    BY <1>5 DEF id_stage
  <2>2. is_exit(if_id.data.instr) /\ decoding => Decodes
    BY DEF Decodes, check_data_hazards, is_exit, is_load, is_csr, use_rs1, use_rs2,
           RegOps, ImmOps, BranchOps, CsrOps
  <2>3. decoding <=> if_id.valid /\ ~pipeline_stalled
    BY DEF decoding
  <2>5. Halves'
    BY <1>0, <1>5, <2>1, <2>2, <2>3, DecodeStep
       DEF ControlInv, Halves, InStep, ExitInv, ExitIn, is_exit, FetchedBehind, Popped, Pushed, Decodes
  <2>6. ExitInv'
    BY <1>0, <1>5, <2>1, <2>2, <2>3, DecodeStep
       DEF ControlInv, Halves, InStep, ExitInv, ExitIn, is_exit, FetchedBehind, Popped, Pushed, Decodes
  <2>7. FetchedBehind'
    BY <1>0, <1>5, <2>1, <2>2, <2>3, DecodeStep
       DEF ControlInv, Halves, InStep, ExitInv, ExitIn, is_exit, FetchedBehind, Popped, Pushed, Decodes
  <2> QED BY <1>0, <1>5, <2>5, <2>6, <2>7, DecodeStep DEF ControlInv
<1>6. CASE if_stage
  <2>1. stage = "if" /\ stage' = "latch"
    BY <1>6 DEF if_stage
  <2>5. Halves'
    BY <1>0, <1>6, <2>1, FetchStep
       DEF ControlInv, Halves, InStep, ExitInv, ExitIn, is_exit, FetchedBehind, Pushed, control
  <2>6. ExitInv'
    BY <1>0, <1>6, <2>1, FetchStep
       DEF ControlInv, Halves, InStep, ExitInv, ExitIn, is_exit, FetchedBehind, Pushed, control
  <2>7. FetchedBehind'
    BY <1>0, <1>6, <2>1, FetchStep
       DEF ControlInv, Halves, InStep, ExitInv, ExitIn, is_exit, FetchedBehind, Pushed, control
  <2> QED BY <1>0, <1>6, <2>5, <2>6, <2>7, FetchStep DEF ControlInv
<1>7. CASE UNCHANGED vars
  <2>1. TypeInv'
    BY <1>0, <1>7
       DEF vars, registers, control, predictor, TypeInv, Register, Fetched, Decoded, Executed, Passed, BTBIndex, BTB_entry
  <2> QED
    BY <1>7, <2>1
       DEF vars, registers, control, predictor, ControlInv, Halves, InStep, ExitInv, ExitIn, is_exit, FetchedBehind
<1> QED BY <1>1, <1>2, <1>3, <1>4, <1>5, <1>6, <1>7 DEF Next, Done

(* The state of the core stays in its types, for every program, register file
   and predictor (core.cpp). *)
THEOREM TypeCorrect == Spec => []TypeInv
<1>1. ControlInv => TypeInv
  BY DEF ControlInv
<1> QED BY <1>1, ControlInit, ControlNext, PTL DEF Spec

(* The prediction that branch_unit compares with is the one for its branch:
   the instruction fetched behind it is in if_id. *)
THEOREM PredictionIsThere == Spec => []PredictionIsBehindBranch
<1>1. ControlInv => PredictionIsBehindBranch
  <2>1. \A instr : is_branch(instr) => ~is_exit(instr)
    BY DEF is_branch, is_exit, BranchOps, JumpOps
  <2> QED BY <2>1 DEF ControlInv, Halves, InStep, FetchedBehind, PredictionIsBehindBranch
<1> QED BY <1>1, ControlInit, ControlNext, PTL DEF Spec

------------------------------------------------------------------------------
(* The oldest instruction that decode, or execute, has not passed. *)
DecodePC  == IF if_id.valid_next THEN if_id.data_next.PC ELSE PC
ExecutePC == IF id_ex.valid_next THEN id_ex.data_next.PC ELSE DecodePC

(* Fetch goes where the program may go: behind an instruction that is no branch
   it goes to the next one, because only branches have a row of the BTB. *)
IsFetched(reg) == reg.valid_next => reg.data_next.instr = code[reg.data_next.PC]

OnlyBranchesHit == \A pc \in Word : btb_hit(pc) => is_branch(code[pc])

FetchedNext ==
    if_id.valid_next => is_branch(if_id.data_next.instr) \/ PC = Fallthrough(if_id.data_next.PC)

DecodedNext ==
    id_ex.valid_next => is_branch(id_ex.data_next.instr) \/ DecodePC = Fallthrough(id_ex.data_next.PC)

PathInv ==
    /\ IsFetched(if_id) /\ IsFetched(id_ex) /\ IsFetched(ex_mem)
    /\ OnlyBranchesHit
    /\ FetchedNext
    /\ DecodedNext

(* Index and tag together are the PC. *)
LEMMA IndexAndTag ==
    ASSUME NEW pc \in Nat, NEW branch_PC \in Nat,
           btb_index(pc) = btb_index(branch_PC), btb_tag(pc) = btb_tag(branch_PC)
    PROVE  pc = branch_PC
  BY BtbSizeAssumption DEF btb_index, btb_tag

(* No row is valid at the start. *)
LEMMA PathInit == Init => PathInv
<1> SUFFICES ASSUME Init PROVE PathInv
  OBVIOUS
<1>1. \A pc \in Word : ~btb_hit(pc)
  <2>1. \A i \in BTBIndex : ~BTB[i].valid
    BY DEF Init, PredictorInit
  <2> QED BY <2>1, RowIndex DEF btb_hit
<1> QED BY <1>1 DEF Init, NewReg, PathInv, IsFetched, OnlyBranchesHit, FetchedNext, DecodedNext

(* A stage that leaves the instructions and the BTB where they are. *)
LEMMA PathKept ==
    ASSUME PathInv,
           UNCHANGED <<code, PC, BTB>>,
           if_id'.valid_next => if_id.valid_next, if_id'.data_next = if_id.data_next,
           id_ex.valid_next => (if_id'.valid_next <=> if_id.valid_next),
           id_ex'.valid_next => id_ex.valid_next, id_ex'.data_next = id_ex.data_next,
           ex_mem'.valid_next => ex_mem.valid_next, ex_mem'.data_next = ex_mem.data_next
    PROVE  PathInv'
<1>1. OnlyBranchesHit'
  BY DEF PathInv, OnlyBranchesHit, btb_hit
<1> QED BY <1>1 DEF PathInv, IsFetched, FetchedNext, DecodedNext, DecodePC

(* Every stage keeps the instructions in flight on a path that fetch may take. *)
LEMMA PathNext == ControlInv /\ PathInv /\ [Next]_vars => PathInv'
<1> SUFFICES ASSUME ControlInv, PathInv, [Next]_vars PROVE PathInv'
  OBVIOUS
<1>0. TypeInv
  BY DEF ControlInv
<1>1. CASE latch_registers
  BY <1>0, <1>1, LatchStep, PathKept DEF Latched, predictor
<1>2. CASE wb_stage
  BY <1>0, <1>2, WritebackStep, PathKept DEF predictor
<1>3. CASE mem_stage
  BY <1>0, <1>3, MemoryStep, PathKept DEF Popped, predictor
<1>4. CASE ex_stage
  <2>1. stage = "ex"
    BY <1>4 DEF ex_stage
  <2>2. CASE id_ex.valid
    <3> DEFINE d == id_ex.data
    <3>1. d.instr = code[d.PC] /\ d.PC \in Word
      BY <1>0, <2>1, <2>2, RegisterFields DEF ControlInv, Halves, InStep, PathInv, IsFetched, Decoded
    <3>2. /\ Popped(id_ex, id_ex')
          /\ ex_mem'.data_next.instr = d.instr /\ ex_mem'.data_next.PC = d.PC
          /\ code' = code
      BY <1>0, <1>4, <2>2, ExecuteStep DEF Pushed
    <3>3. UNCHANGED <<PC, if_id>> \/ Flushed(if_id, if_id')
      BY <1>0, <1>4, <2>2, ExecuteStep
    <3>4. OnlyBranchesHit'
      <4> SUFFICES ASSUME NEW pc \in Word, btb_hit(pc)' PROVE is_branch(code[pc])
        BY <3>2 DEF OnlyBranchesHit
      <4>1. CASE UNCHANGED BTB
        BY <4>1 DEF btb_hit, PathInv, OnlyBranchesHit
      <4>2. CASE /\ is_branch(d.instr)
                 /\ BTB' = [BTB EXCEPT ![btb_index(d.PC)] =
                              [valid |-> TRUE, tag |-> btb_tag(d.PC), target |-> ResolvedPC]]
        <5>1. BTB \in [BTBIndex -> BTB_entry] /\ btb_index(pc) \in BTBIndex /\ btb_index(d.PC) \in BTBIndex
          BY <1>0, <3>1, RowIndex DEF TypeInv
        <5>2. CASE btb_index(pc) = btb_index(d.PC)
          <6>1. BTB'[btb_index(pc)].tag = btb_tag(d.PC)
            BY <4>2, <5>1, <5>2
          <6>2. btb_tag(pc) = btb_tag(d.PC)
            BY <6>1 DEF btb_hit, btb_index, btb_tag
          <6>3. pc \in Nat /\ d.PC \in Nat
            BY <3>1 DEF Word
          <6> QED BY <3>1, <4>2, <5>2, <6>2, <6>3, IndexAndTag
        <5>3. CASE btb_index(pc) # btb_index(d.PC)
          <6>1. BTB'[btb_index(pc)] = BTB[btb_index(pc)]
            BY <4>2, <5>1, <5>3
          <6> QED BY <6>1 DEF btb_hit, PathInv, OnlyBranchesHit
        <5> QED BY <5>2, <5>3
      <4> QED BY <1>0, <1>4, <2>2, <4>1, <4>2, ExecuteStep
    <3> HIDE DEF d
    <3> QED BY <3>1, <3>2, <3>3, <3>4 DEF PathInv, IsFetched, FetchedNext, DecodedNext, Popped, Flushed
  <2>3. CASE ~id_ex.valid
    BY <1>0, <1>4, <2>3, ExecuteStep, PathKept DEF predictor
  <2> QED BY <2>2, <2>3
<1>5. CASE id_stage
  <2>1. UNCHANGED <<code, PC, BTB, ex_mem>>
    BY <1>0, <1>5, DecodeStep DEF predictor
  <2>2. CASE Decodes
    <3>1. /\ if_id.valid_next /\ ~if_id'.valid_next
          /\ id_ex'.data_next.instr = if_id.data_next.instr /\ id_ex'.data_next.PC = if_id.data_next.PC
      BY <1>0, <1>5, <2>2, DecodeStep
         DEF id_stage, ControlInv, Halves, InStep, Decodes, decoding, Popped, Pushed
    <3>2. OnlyBranchesHit'
      BY <2>1 DEF PathInv, OnlyBranchesHit, btb_hit
    <3> QED BY <2>1, <3>1, <3>2 DEF PathInv, IsFetched, FetchedNext, DecodedNext, DecodePC
  <2>3. CASE ~Decodes
    BY <1>0, <1>5, <2>1, <2>3, DecodeStep, PathKept
  <2> QED BY <2>2, <2>3
<1>6. CASE if_stage
  <2>1. UNCHANGED <<code, BTB, id_ex, ex_mem>>
    BY <1>0, <1>6, FetchStep DEF predictor
  <2>2. CASE fetch_stalled \/ pipeline_stalled
    BY <1>0, <1>6, <2>1, <2>2, FetchStep, PathKept
  <2>3. CASE ~(fetch_stalled \/ pipeline_stalled)
    <3>1. /\ ~if_id.valid_next
          /\ if_id'.valid_next /\ if_id'.data_next.instr = code[PC] /\ if_id'.data_next.PC = PC
          /\ PC' = next_fetch_PC
      BY <1>0, <1>6, <2>3, FetchStep DEF if_stage, ControlInv, Halves, Pushed
    <3>2. is_branch(code[PC]) \/ next_fetch_PC = Fallthrough(PC)
      BY <1>0 DEF next_fetch_PC, predict, PathInv, OnlyBranchesHit, TypeInv
    <3>3. OnlyBranchesHit'
      BY <2>1 DEF PathInv, OnlyBranchesHit, btb_hit
    <3> QED BY <2>1, <3>1, <3>2, <3>3 DEF PathInv, IsFetched, FetchedNext, DecodedNext, DecodePC
  <2> QED BY <2>2, <2>3
<1>7. CASE UNCHANGED vars
  BY <1>7, PathKept DEF vars, registers, predictor
<1> QED BY <1>1, <1>2, <1>3, <1>4, <1>5, <1>6, <1>7 DEF Next, Done

------------------------------------------------------------------------------
(* A value that decode read is the register's, unless the write-back of this
   cycle has overtaken it; execute gets that one from MEM/WB. *)
Overtaken(r) == stage \in {"mem", "ex"} /\ r # 0 /\ produces(mem_wb, r)

Held(used, r, data) ==
    IF used THEN Overtaken(r) \/ data = reg_file[r] ELSE data = 0

OldValues(instr) == IF instr.imm \in Counters THEN Word ELSE {0}

OperandsRead ==
    id_ex.valid_next =>
        LET d == id_ex.data_next
        IN  /\ Held(use_rs1(d.instr), d.instr.rs1, d.rs1_data)
            /\ IF is_csr(d.instr)
               THEN d.rs2_data \in OldValues(d.instr)
               ELSE Held(use_rs2(d.instr), d.instr.rs2, d.rs2_data)

(* The instruction ahead of the one in ID/EX, if it is in EX/MEM. *)
AheadValid == IF stage = "ex" THEN ex_mem.valid ELSE ex_mem.valid_next
AheadInstr == IF stage = "ex" THEN ex_mem.data.instr ELSE ex_mem.data_next.instr

(* What the unit computed for it is what it will write to its register. *)
ComputesResult(instr) == ~is_load(instr) /\ (is_csr(instr) => ComputesOldValue(instr))

ForwardsRight ==
    id_ex.valid_next /\ AheadValid /\ use_rd(AheadInstr)
        /\ Uses(id_ex.data_next.instr, AheadInstr.rd) => ComputesResult(AheadInstr)

(* What MEM/WB still offers has been written, *)
Written ==
    stage \in {"mem", "ex"} /\ mem_wb.valid /\ use_rd(mem_wb.data.instr) /\ mem_wb.data.instr.rd # 0 =>
        reg_file[mem_wb.data.instr.rd] = mem_wb.data.result

(* and what EX/MEM still offers is about to be. *)
MovedOn ==
    stage = "ex" /\ ex_mem.valid /\ ComputesResult(ex_mem.data.instr) =>
        mem_wb.data_next.result = ex_mem.data.result

(* Execute has computed what the program says, and its successor is behind it. *)
ExecutedRight ==
    ex_mem.valid_next =>
        LET d == ex_mem.data_next
        IN  /\ is_csr(d.instr) => d.rs2_data \in OldValues(d.instr)
            /\ d.rs2_data = Source2(d.instr, Registers, d.rs2_data)
            /\ d.result = IF d.instr.op \in JumpOps THEN Fallthrough(d.PC)
                          ELSE Computed(d.instr, Registers, d.rs2_data, d.PC)
            /\ ExecutePC = Successor(d.instr, Registers, d.PC)

DataInv ==
    /\ reg_file[0] = 0
    /\ OperandsRead
    /\ ForwardsRight
    /\ Written
    /\ MovedOn
    /\ ExecutedRight

IInv == ControlInv /\ PathInv /\ DataInv

(* Nothing is in flight at the start. *)
LEMMA DataInit == Init => DataInv
  BY RegAssumption
     DEF Init, NewReg, DataInv, OperandsRead, ForwardsRight, Written, MovedOn, ExecutedRight

(* The registers the programmer sees are words, and register 0 is zero. *)
LEMMA RegistersType ==
    ASSUME TypeInv, reg_file[0] = 0
    PROVE  /\ Registers \in [Reg -> Word] /\ Registers[0] = 0
           /\ (~mem_wb.valid_next => Registers = reg_file)
           /\ (mem_wb.valid_next =>
                  LET d == mem_wb.data_next
                  IN  /\ Registers = WrittenTo(reg_file, d.instr, d.result)
                      /\ \A r \in Reg : Registers[r] =
                             IF use_rd(d.instr) /\ r = d.instr.rd /\ r # 0 THEN d.result ELSE reg_file[r])
<1> DEFINE d == mem_wb.data_next
<1>1. d.instr \in Instruction(Reg) /\ d.result \in Word
  BY RegisterFields DEF Passed
<1>2. reg_file \in [Reg -> Word]
  BY DEF TypeInv
<1>3. mem_wb.valid_next => Registers = WrittenTo(reg_file, d.instr, d.result)
  BY DEF Registers, regfile_write, WrittenTo
<1>4. ~mem_wb.valid_next => Registers = reg_file
  BY DEF Registers
<1> HIDE DEF d
<1>5. CASE mem_wb.valid_next
  BY <1>1, <1>2, <1>3, <1>5, WrittenType, RegAssumption DEF d
<1>6. CASE ~mem_wb.valid_next
  BY <1>2, <1>4, <1>6
<1> QED BY <1>5, <1>6

(* What the instruction in ID/EX computes with is what the program gives it. *)
LEMMA OperandsAre ==
    ASSUME IInv, stage = "ex", id_ex.valid
    PROVE  LET instr == id_ex.data.instr
           IN  /\ Operand1 = Source1(instr, Registers)
               /\ Operand2 = Source2(instr, Registers, Operand2)
               /\ is_csr(instr) => Operand2 \in OldValues(instr)
<1> DEFINE d == id_ex.data
<1>1. d = id_ex.data_next /\ id_ex.valid_next /\ d.instr \in Instruction(Reg)
  BY RegisterFields DEF IInv, ControlInv, Halves, InStep, Decoded
<1>2. \A used \in BOOLEAN, r \in Reg : \A data :
          /\ (used => Uses(d.instr, r) \/ r = 0)
          /\ Held(used, r, data)
          => Forwarded(used, r, data) = Source(used, r, Registers)
  <2> SUFFICES ASSUME NEW r \in Reg, NEW data, Uses(d.instr, r) \/ r = 0, Held(TRUE, r, data)
               PROVE  data_forwarding(r, data) = IF r # 0 THEN Registers[r] ELSE 0
    BY DEF Forwarded, Source, Held
  <2>1. TypeInv /\ reg_file[0] = 0
    BY DEF IInv, ControlInv, DataInv
  <2>2. CASE r = 0
    BY <2>1, <2>2 DEF data_forwarding, Held, Overtaken
  <2>3. CASE r # 0 /\ produces(ex_mem, r)
    <3>1. ex_mem.valid /\ use_rd(ex_mem.data.instr) /\ ex_mem.data.instr.rd = r
      BY <2>3 DEF produces
    <3>2. ComputesResult(ex_mem.data.instr)
      BY <1>1, <2>3, <3>1 DEF IInv, DataInv, ForwardsRight, AheadValid, AheadInstr
    <3>3. mem_wb.data_next.result = ex_mem.data.result
      BY <3>1, <3>2 DEF IInv, DataInv, MovedOn
    <3>4. mem_wb.valid_next /\ mem_wb.data_next.instr = ex_mem.data.instr
      BY <3>1 DEF IInv, ControlInv, Halves
    <3>5. Registers[r] = mem_wb.data_next.result
      BY <2>1, <2>3, <3>1, <3>4, RegistersType
    <3> QED BY <2>3, <3>3, <3>5 DEF data_forwarding
  <2>4. CASE r # 0 /\ ~produces(ex_mem, r)
    <3>1. Registers[r] = reg_file[r]
      <4>1. CASE mem_wb.valid_next
        <5>1. ex_mem.valid /\ mem_wb.data_next.instr = ex_mem.data.instr
          BY <4>1 DEF IInv, ControlInv, Halves
        <5>2. ~(use_rd(mem_wb.data_next.instr) /\ r = mem_wb.data_next.instr.rd)
          BY <2>4, <5>1 DEF produces
        <5> QED BY <2>1, <4>1, <5>2, RegistersType
      <4>2. CASE ~mem_wb.valid_next
        BY <2>1, <4>2, RegistersType
      <4> QED BY <4>1, <4>2
    <3>2. CASE produces(mem_wb, r)
      <4>1. reg_file[r] = mem_wb.data.result
        BY <2>4, <3>2 DEF produces, IInv, DataInv, Written
      <4> QED BY <2>4, <3>1, <3>2, <4>1 DEF data_forwarding
    <3>3. CASE ~produces(mem_wb, r)
      BY <2>4, <3>1, <3>3 DEF data_forwarding, Held, Overtaken
    <3> QED BY <3>2, <3>3
  <2> QED BY <2>2, <2>3, <2>4
<1>3. /\ Held(use_rs1(d.instr), d.instr.rs1, d.rs1_data)
      /\ IF is_csr(d.instr)
         THEN d.rs2_data \in OldValues(d.instr)
         ELSE Held(use_rs2(d.instr), d.instr.rs2, d.rs2_data)
  BY <1>1 DEF IInv, DataInv, OperandsRead
<1>4. d.instr.rs1 \in Reg /\ d.instr.rs2 \in Reg /\ use_rs1(d.instr) \in BOOLEAN /\ use_rs2(d.instr) \in BOOLEAN
  BY <1>1 DEF Instruction, use_rs1, use_rs2
<1>5. /\ (use_rs1(d.instr) => Uses(d.instr, d.instr.rs1) \/ d.instr.rs1 = 0)
      /\ (use_rs2(d.instr) => Uses(d.instr, d.instr.rs2) \/ d.instr.rs2 = 0)
  BY DEF Uses
<1> HIDE DEF d
<1>6. Forwarded(use_rs1(d.instr), d.instr.rs1, d.rs1_data) = Source(use_rs1(d.instr), d.instr.rs1, Registers)
  BY <1>2, <1>3, <1>4, <1>5
<1>7. CASE is_csr(d.instr)
  <2>1. ~use_rs2(d.instr)
    BY <1>7 DEF is_csr, use_rs2, CsrOps, RegOps, BranchOps
  <2> QED BY <1>3, <1>6, <1>7, <2>1 DEF d, Operand1, Operand2, Source1, Source2, Forwarded
<1>8. CASE ~is_csr(d.instr)
  <2>1. Forwarded(use_rs2(d.instr), d.instr.rs2, d.rs2_data) = Source(use_rs2(d.instr), d.instr.rs2, Registers)
    BY <1>2, <1>3, <1>4, <1>5, <1>8
  <2> QED BY <1>6, <1>8, <2>1 DEF d, Operand1, Operand2, Source1, Source2
<1> QED BY <1>7, <1>8

(* Execute computes what the program says, and leaves its successor behind it:
   in if_id, or at the PC it redirects fetch to. *)
LEMMA ExecutedInv ==
    ASSUME IInv, ex_stage
    PROVE  ExecutedRight'
<1>0. TypeInv /\ stage = "ex"
  BY DEF IInv, ControlInv, ex_stage
<1>1. CASE id_ex.valid
  <2> DEFINE d == id_ex.data
             i == id_ex.data.instr
             e == ex_mem'.data_next
  <2>1. /\ e.instr = i /\ e.PC = d.PC /\ e.rs2_data = Operand2
        /\ e.result = IF i.op \in JumpOps THEN Fallthrough(d.PC) ELSE Outcome
        /\ ~id_ex'.valid_next
        /\ IF Redirects THEN PC' = ResolvedPC /\ ~if_id'.valid_next ELSE UNCHANGED <<PC, if_id>>
    BY <1>0, <1>1, ExecuteStep DEF Pushed, Popped, Flushed
  <2>2. Registers' = Registers
    BY <1>0, ExecuteStep DEF Registers, regfile_write
  <2>3. /\ Operand1 = Source1(i, Registers)
        /\ Operand2 = Source2(i, Registers, Operand2)
        /\ is_csr(i) => Operand2 \in OldValues(i)
    BY <1>0, <1>1, OperandsAre
  <2>4. Outcome = Computed(i, Registers, Operand2, d.PC)
    BY <2>3 DEF Outcome, Computed
  <2>5. ExecutePC' = DecodePC'
    BY <2>1 DEF ExecutePC
  <2>6. ExecutePC' = Successor(i, Registers, d.PC)
    <3>1. CASE is_branch(i)
      <4>1. ~is_csr(i) /\ ~is_exit(i)
        BY <3>1 DEF is_branch, is_csr, is_exit, BranchOps, JumpOps, CsrOps
      <4>2. Operand2 = Source2(i, Registers, 0) /\ Outcome = Target(i, Registers, d.PC)
        BY <2>3, <2>4, <4>1, OldIsForCsrs DEF Target
      <4>3. ResolvedPC = Successor(i, Registers, d.PC)
        BY <2>3, <3>1, <4>2 DEF ResolvedPC, Successor, Taken, Fallthrough
      <4>4. CASE Redirects
        BY <2>1, <2>5, <4>3, <4>4 DEF DecodePC
      <4>5. CASE ~Redirects
        <5>1. ResolvedPC = if_id.data.PC
          BY <3>1, <4>5 DEF Redirects
        <5>2. if_id.valid_next /\ if_id.data_next.PC = if_id.data.PC
          BY <1>0, <1>1, <4>1 DEF IInv, ControlInv, FetchedBehind, Halves, InStep
        <5> QED BY <2>1, <2>5, <4>3, <4>5, <5>1, <5>2 DEF DecodePC
      <4> QED BY <4>4, <4>5
    <3>2. CASE ~is_branch(i)
      <4>1. UNCHANGED <<PC, if_id>>
        BY <2>1, <3>2 DEF Redirects
      <4>2. DecodePC = Fallthrough(d.PC)
        BY <1>0, <1>1, <3>2 DEF IInv, ControlInv, Halves, InStep, PathInv, DecodedNext
      <4> QED BY <2>5, <3>2, <4>1, <4>2 DEF DecodePC, Successor, Taken, Fallthrough
    <3> QED BY <3>1, <3>2
  <2> HIDE DEF d, i, e
  <2>7. ExecutedRight' = (ex_mem'.valid_next =>
            /\ is_csr(e.instr) => e.rs2_data \in OldValues(e.instr)
            /\ e.rs2_data = Source2(e.instr, Registers', e.rs2_data)
            /\ e.result = IF e.instr.op \in JumpOps THEN Fallthrough(e.PC)
                          ELSE Computed(e.instr, Registers', e.rs2_data, e.PC)
            /\ ExecutePC' = Successor(e.instr, Registers', e.PC))
    BY Zenon DEF ExecutedRight, e
  <2> QED BY <2>1, <2>2, <2>3, <2>4, <2>6, <2>7
<1>2. CASE ~id_ex.valid
  <2>1. ~ex_mem'.valid_next
    BY <1>0, <1>2, ExecuteStep DEF IInv, ControlInv, Halves
  <2> QED BY <2>1 DEF ExecutedRight
<1> QED BY <1>1, <1>2

(* Execute's result stands while the stages around it go on. *)
LEMMA ExecutedKept ==
    ASSUME DataInv,
           ex_mem'.valid_next => ex_mem.valid_next, ex_mem'.data_next = ex_mem.data_next,
           ex_mem'.valid_next => Registers' = Registers /\ ExecutePC' = ExecutePC
    PROVE  ExecutedRight'
  BY DEF DataInv, ExecutedRight

(* Write-back changes nothing that the programmer sees. *)
LEMMA WritebackKeeps ==
    ASSUME ControlInv, reg_file[0] = 0, wb_stage
    PROVE  Registers' = Registers
<1>1. stage = "wb" /\ TypeInv
  BY DEF ControlInv, wb_stage
<1>2. (mem_wb.valid <=> mem_wb.valid_next) /\ mem_wb.data = mem_wb.data_next
  BY <1>1 DEF ControlInv, Halves, InStep
<1>3. CASE mem_wb.valid
  <2>1. reg_file' = WrittenTo(reg_file, mem_wb.data.instr, mem_wb.data.result) /\ ~mem_wb'.valid_next
    BY <1>1, <1>3, WritebackStep DEF Popped
  <2> QED BY <1>2, <1>3, <2>1 DEF Registers, regfile_write, WrittenTo
<1>4. CASE ~mem_wb.valid
  BY <1>1, <1>4, WritebackStep DEF Registers, regfile_write
<1> QED BY <1>3, <1>4

(* The registers' ticks change no half that is looked at next. *)
LEMMA LatchData == ASSUME IInv, latch_registers PROVE DataInv'
<1>1. /\ stage = "latch" /\ stage' = "wb" /\ TypeInv /\ DataInv
      /\ UNCHANGED <<PC, reg_file>>
      /\ Latched(if_id, if_id') /\ Latched(id_ex, id_ex')
      /\ Latched(ex_mem, ex_mem') /\ Latched(mem_wb, mem_wb')
  BY LatchStep DEF IInv, ControlInv, latch_registers
<1>2. Registers' = Registers /\ ExecutePC' = ExecutePC
  BY <1>1 DEF Latched, Registers, regfile_write, ExecutePC, DecodePC
<1>3. ExecutedRight'
  BY <1>1, <1>2, ExecutedKept DEF Latched
<1>4. OperandsRead' /\ ForwardsRight'
  BY <1>1 DEF Latched, DataInv, OperandsRead, Held, Overtaken, ForwardsRight, AheadValid, AheadInstr
<1> QED BY <1>1, <1>3, <1>4 DEF DataInv, Written, MovedOn

(* Write-back overtakes the operands that decode read before it. *)
LEMMA WritebackData == ASSUME IInv, wb_stage PROVE DataInv'
<1>1. /\ stage = "wb" /\ stage' = "mem" /\ TypeInv /\ DataInv /\ ControlInv
      /\ UNCHANGED <<PC, if_id, id_ex, ex_mem>>
  BY WritebackStep DEF IInv, ControlInv, wb_stage
<1>2. Registers' = Registers /\ ExecutePC' = ExecutePC
  BY <1>1, WritebackKeeps DEF DataInv, ExecutePC, DecodePC
<1>3. ExecutedRight'
  BY <1>1, <1>2, ExecutedKept
<1>4. ForwardsRight'
  BY <1>1 DEF DataInv, ForwardsRight, AheadValid, AheadInstr
<1>5. reg_file'[0] = 0 /\ Written' /\ OperandsRead'
  <2> DEFINE w == mem_wb.data
  <2>1. /\ w.instr \in Instruction(Reg) /\ w.result \in Word
        /\ reg_file \in [Reg -> Word] /\ reg_file[0] = 0
    BY <1>1, RegisterFields DEF Passed, TypeInv, DataInv
  <2>3. mem_wb'.data = w /\ (mem_wb'.valid <=> mem_wb.valid)
    BY <1>1, WritebackStep DEF Popped
  <2>4. /\ reg_file'[0] = 0
        /\ \A r \in Reg : reg_file'[r] =
               IF mem_wb.valid /\ use_rd(w.instr) /\ r = w.instr.rd /\ r # 0 THEN w.result ELSE reg_file[r]
    <3>1. CASE mem_wb.valid
      <4>1. reg_file' = WrittenTo(reg_file, w.instr, w.result)
        BY <1>1, <3>1, WritebackStep
      <4> HIDE DEF w
      <4> QED BY <2>1, <3>1, <4>1, WrittenType, RegAssumption
    <3>2. CASE ~mem_wb.valid
      BY <1>1, <2>1, <3>2, WritebackStep
    <3> QED BY <3>1, <3>2
  <2> HIDE DEF w
  <2>5. Written'
    BY <2>1, <2>3, <2>4 DEF Written, Instruction
  <2>6. \A r \in Reg : Overtaken(r)' \/ reg_file'[r] = reg_file[r]
    BY <1>1, <2>3, <2>4 DEF Overtaken, produces
  <2>7. id_ex.data_next.instr \in Instruction(Reg)
    BY <1>1, RegisterFields DEF Decoded
  <2>8. OperandsRead'
    BY <1>1, <2>6, <2>7 DEF DataInv, OperandsRead, Held, Overtaken, Instruction
  <2> QED BY <2>4, <2>5, <2>8
<1> QED BY <1>1, <1>3, <1>4, <1>5 DEF DataInv, MovedOn

(* The result that the memory stage passes on is the one that execute offered. *)
LEMMA MemoryData == ASSUME IInv, mem_stage PROVE DataInv'
<1>1. /\ stage = "mem" /\ stage' = "ex" /\ TypeInv /\ DataInv /\ ControlInv
      /\ UNCHANGED <<reg_file, PC, if_id, id_ex>>
  BY MemoryStep DEF IInv, ControlInv, mem_stage
<1>2. (ex_mem.valid <=> ex_mem.valid_next) /\ ex_mem.data = ex_mem.data_next
  BY <1>1 DEF ControlInv, Halves, InStep
<1>3. /\ ~ex_mem'.valid_next
      /\ (ex_mem'.valid <=> ex_mem.valid) /\ ex_mem'.data = ex_mem.data
      /\ (mem_wb'.valid <=> mem_wb.valid) /\ mem_wb'.data = mem_wb.data
  BY <1>1, <1>2, MemoryStep DEF Popped, Pushed
<1>4. ExecutedRight'
  BY <1>3 DEF ExecutedRight
<1>5. OperandsRead' /\ Written'
  BY <1>1, <1>3 DEF DataInv, OperandsRead, Held, Overtaken, produces, Written
<1>6. ForwardsRight'
  BY <1>1, <1>2, <1>3 DEF DataInv, ForwardsRight, AheadValid, AheadInstr
<1>7. MovedOn'
  <2> SUFFICES ASSUME ex_mem.valid, ComputesResult(ex_mem.data.instr)
               PROVE  mem_wb'.data_next.result = ex_mem.data.result
    BY <1>3 DEF MovedOn
  <2> DEFINE d == ex_mem.data
  <2>1. mem_wb'.data_next.result = mem_result(d.instr, d.result, d.rs2_data)
    BY <1>1, MemoryStep DEF Pushed
  <2>2. /\ is_csr(d.instr) => d.rs2_data \in OldValues(d.instr)
        /\ d.result = IF d.instr.op \in JumpOps THEN Fallthrough(d.PC)
                      ELSE Computed(d.instr, Registers, d.rs2_data, d.PC)
    BY <1>1, <1>2 DEF DataInv, ExecutedRight
  <2>3. ~is_load(d.instr) /\ (is_csr(d.instr) => ComputesOldValue(d.instr))
    BY DEF ComputesResult
  <2>4. d.instr \in Instruction(Reg) /\ Registers \in [Reg -> Word]
    BY <1>1, RegisterFields, RegistersType DEF Executed, DataInv
  <2> HIDE DEF d
  <2>5. CASE is_csr(d.instr)
    <3>1. d.instr.op \notin JumpOps
      BY <2>5 DEF is_csr, CsrOps, JumpOps
    <3>2. d.result = d.rs2_data
      BY <2>2, <2>3, <2>4, <2>5, <3>1, OldValueComputed DEF OldValues
    <3> QED BY <2>1, <2>3, <2>5, <3>2 DEF mem_result, d
  <2>6. CASE ~is_csr(d.instr)
    BY <2>1, <2>3, <2>6 DEF mem_result, d
  <2> QED BY <2>5, <2>6
<1> QED BY <1>1, <1>4, <1>5, <1>6, <1>7 DEF DataInv

(* Execute's own part of the invariant is ExecutedInv. *)
LEMMA ExecuteData == ASSUME IInv, ex_stage PROVE DataInv'
<1>1. /\ stage = "ex" /\ stage' = "id" /\ TypeInv /\ DataInv /\ ControlInv
      /\ UNCHANGED reg_file
  BY ExecuteStep DEF IInv, ControlInv, ex_stage
<1>2. ~id_ex'.valid_next
  BY <1>1, ExecuteStep DEF ControlInv, Halves, InStep, Popped
<1>3. ExecutedRight'
  BY ExecutedInv
<1> QED BY <1>1, <1>2, <1>3 DEF DataInv, OperandsRead, ForwardsRight, Written, MovedOn

(* Fetch touches no operand. *)
LEMMA FetchData == ASSUME IInv, if_stage PROVE DataInv'
<1>1. /\ stage = "if" /\ stage' = "latch" /\ TypeInv /\ DataInv /\ ControlInv
      /\ UNCHANGED <<reg_file, id_ex, ex_mem, mem_wb>>
  BY FetchStep DEF IInv, ControlInv, if_stage
<1>2. DecodePC' = DecodePC
  <2>1. CASE fetch_stalled \/ pipeline_stalled
    BY <1>1, <2>1, FetchStep DEF DecodePC
  <2>2. CASE ~(fetch_stalled \/ pipeline_stalled)
    BY <1>1, <2>2, FetchStep DEF DecodePC, Pushed, ControlInv, Halves
  <2> QED BY <2>1, <2>2
<1>3. Registers' = Registers /\ ExecutePC' = ExecutePC
  BY <1>1, <1>2 DEF Registers, regfile_write, ExecutePC
<1>4. ExecutedRight'
  BY <1>1, <1>3, ExecutedKept
<1> QED
  BY <1>1, <1>4
     DEF DataInv, OperandsRead, Held, Overtaken, ForwardsRight, AheadValid, AheadInstr, Written, MovedOn

(* Decode lets nobody through whose operand the instruction ahead of it has not
   got yet. *)
LEMMA DecodeForwards ==
    ASSUME IInv, CsrsForwardRight, stage = "id", Decodes, ex_mem.valid_next,
           use_rd(ex_mem.data_next.instr), Uses(if_id.data.instr, ex_mem.data_next.instr.rd)
    PROVE  ComputesResult(ex_mem.data_next.instr)
<1> DEFINE d == ex_mem.data_next
<1>1. id_ex.valid /\ d.instr = id_ex.data.instr /\ ~id_ex.valid_next
  BY DEF IInv, ControlInv, Halves
<1>2. ~is_load(d.instr)
  BY <1>1 DEF Decodes, check_data_hazards, Uses
<1>3. CASE is_csr(d.instr)
  <2>1. ~is_branch(d.instr)
    BY <1>3 DEF is_csr, is_branch, CsrOps, BranchOps, JumpOps
  <2>2. ExecutePC = Wrap(d.PC + 1) /\ d.instr = code[d.PC]
    BY <2>1 DEF IInv, DataInv, ExecutedRight, Successor, Taken, PathInv, IsFetched
  <2>3. if_id.valid /\ if_id.valid_next /\ if_id.data = if_id.data_next
    BY DEF Decodes, decoding, IInv, ControlInv, Halves, InStep
  <2>4. if_id.data.instr = code[Wrap(d.PC + 1)]
    BY <1>1, <2>2, <2>3 DEF ExecutePC, DecodePC, IInv, PathInv, IsFetched
  <2>5. d.PC \in Word /\ code \in Programs
    BY RegisterFields DEF IInv, ControlInv, TypeInv, Executed
  <2>6. ComputesOldValue(d.instr)
    BY <1>3, <2>2, <2>4, <2>5 DEF CsrsForwardRight
  <2> QED BY <1>2, <2>6 DEF ComputesResult
<1>4. CASE ~is_csr(d.instr)
  BY <1>2, <1>4 DEF ComputesResult
<1> QED BY <1>3, <1>4

(* Decode reads what the registers hold. *)
LEMMA DecodeData == ASSUME IInv, CsrsForwardRight, id_stage PROVE DataInv'
<1>1. /\ stage = "id" /\ stage' = "if" /\ TypeInv /\ DataInv /\ ControlInv
      /\ UNCHANGED <<PC, reg_file, ex_mem, mem_wb>>
  BY DecodeStep DEF IInv, ControlInv, id_stage
<1>2. CASE Decodes
  <2> DEFINE i == if_id.data.instr
  <2>1. /\ if_id.valid_next /\ if_id.data = if_id.data_next /\ ~id_ex.valid_next
    BY <1>1, <1>2 DEF Decodes, decoding, ControlInv, Halves, InStep
  <2>2. /\ ~if_id'.valid_next /\ id_ex'.valid_next
        /\ id_ex'.data_next.instr = i /\ id_ex'.data_next.PC = if_id.data.PC
        /\ id_ex'.data_next.rs1_data = operand1(i) /\ id_ex'.data_next.rs2_data = operand2(i)
    BY <1>1, <1>2, DecodeStep DEF Popped, Pushed
  <2>3. Registers' = Registers /\ ExecutePC' = ExecutePC
    BY <1>1, <2>1, <2>2 DEF Registers, regfile_write, ExecutePC, DecodePC
  <2>4. ExecutedRight'
    BY <1>1, <2>3, ExecutedKept
  <2>5. operand1(i) = IF use_rs1(i) THEN reg_file[i.rs1] ELSE 0
    BY DEF operand1
  <2>6. IF is_csr(i)
        THEN operand2(i) \in OldValues(i)
        ELSE operand2(i) = IF use_rs2(i) THEN reg_file[i.rs2] ELSE 0
    <3>1. CASE is_csr(i)
      <4>1. operand2(i) = get_csr(i.imm)
        BY <3>1 DEF operand2
      <4>2. 0 \in Word /\ instrs \in Word /\ instrs - 1 + 5 \in Int
        BY <1>1, WordFacts DEF TypeInv
      <4>3. get_csr(i.imm) \in OldValues(i)
        BY <4>2, WordFacts DEF get_csr, OldValues, Counters, MCYCLE, MINSTRET
      <4> QED BY <3>1, <4>1, <4>3
    <3>2. CASE ~is_csr(i)
      BY <3>2 DEF operand2
    <3> QED BY <3>1, <3>2
  <2>7. OperandsRead'
    <3> HIDE DEF i
    <3> QED BY <1>1, <2>2, <2>5, <2>6 DEF OperandsRead, Held, OldValues
  <2>8. ForwardsRight'
    BY <1>1, <1>2, <2>2, DecodeForwards DEF ForwardsRight, AheadValid, AheadInstr
  <2> QED BY <1>1, <2>4, <2>7, <2>8 DEF DataInv, Written, MovedOn
<1>3. CASE ~Decodes
  <2>1. UNCHANGED <<if_id, id_ex>> /\ ~id_ex'.valid_next
    BY <1>1, <1>3, DecodeStep DEF ControlInv, Halves
  <2>2. Registers' = Registers /\ ExecutePC' = ExecutePC
    BY <1>1, <2>1 DEF Registers, regfile_write, ExecutePC, DecodePC
  <2>3. ExecutedRight'
    BY <1>1, <2>2, ExecutedKept
  <2> QED BY <1>1, <2>1, <2>3 DEF DataInv, OperandsRead, ForwardsRight, Written, MovedOn
<1> QED BY <1>2, <1>3

(* The invariant holds at the start, *)
LEMMA IInvInit == Init => IInv
  BY ControlInit, PathInit, DataInit DEF IInv

(* and every stage keeps it. *)
LEMMA IInvNext == ASSUME IInv, CsrsForwardRight, [Next]_vars PROVE IInv'
<1>1. ControlInv' /\ PathInv'
  BY ControlNext, PathNext DEF IInv
<1>2. DataInv'
  <2>1. CASE UNCHANGED vars
    <3>1. DataInv
      BY DEF IInv
    <3> QED BY <2>1, <3>1
       DEF vars, registers, DataInv, OperandsRead, Held, Overtaken, produces, ForwardsRight, AheadValid,
           AheadInstr, Written, MovedOn, ExecutedRight, ExecutePC, DecodePC, Registers, regfile_write
  <2> QED
    BY <2>1, LatchData, WritebackData, MemoryData, ExecuteData, DecodeData, FetchData DEF Next, Done
<1> QED BY <1>1, <1>2 DEF IInv

(* A value that data_forwarding takes from EX/MEM is the one that its
   instruction writes. *)
THEOREM ForwardsWhatIsWritten == ASSUME CsrsForwardRight PROVE Spec => []ForwardedIsWritten
<1>1. IInv => ForwardedIsWritten
  <2> SUFFICES ASSUME IInv, stage = "ex", id_ex.valid,
                      NEW r \in Reg, Uses(id_ex.data.instr, r), produces(ex_mem, r)
               PROVE  mem_wb.data_next.result = ex_mem.data.result
    BY DEF ForwardedIsWritten, Uses
  <2>1. id_ex.valid_next /\ id_ex.data = id_ex.data_next
    BY DEF IInv, ControlInv, Halves, InStep
  <2>2. ex_mem.valid /\ ComputesResult(ex_mem.data.instr)
    BY <2>1 DEF produces, IInv, DataInv, ForwardsRight, AheadValid, AheadInstr
  <2> QED BY <2>2 DEF IInv, DataInv, MovedOn
<1>2. IInv /\ [Next]_vars => IInv'
  BY IInvNext
<1> QED BY <1>1, <1>2, IInvInit, PTL DEF Spec

------------------------------------------------------------------------------
(* The machine of SequentialISA computes with the same arithmetic. *)
LEMMA SameArithmetic ==
    /\ ISA!Word = Word
    /\ \A a : ISA!Wrap(a) = Wrap(a) /\ ISA!Signed(a) = Signed(a) /\ ISA!Flag(a) = Flag(a)
    /\ \A a, b : /\ ISA!BitAnd(a, b) = BitAnd(a, b)
               /\ ISA!BitOr(a, b) = BitOr(a, b)
               /\ ISA!BitXor(a, b) = BitXor(a, b)
<1>1. \A a : ISA!Wrap(a) = Wrap(a) /\ ISA!Signed(a) = Signed(a) /\ ISA!Flag(a) = Flag(a)
  BY DEF ISA!Wrap, Wrap, ISA!Signed, Signed, ISA!Flag, Flag, ISA!WordSize, WordSize
<1>2. \A a, b : ISA!BitAnd(a, b) = BitAnd(a, b) /\ ISA!BitXor(a, b) = BitXor(a, b)
  BY DEF ISA!BitAnd, BitAnd, ISA!BitXor, BitXor, ISA!FromBits, FromBits, ISA!Bit, Bit
<1>3. \A a : ISA!BitNot(a) = BitNot(a)
  BY DEF ISA!BitNot, BitNot, ISA!WordSize, WordSize
<1>4. \A a, b : ISA!BitOr(a, b) = BitOr(a, b)
  BY <1>2, <1>3, Zenon DEF ISA!BitOr, BitOr
<1> QED BY <1>1, <1>2, <1>4 DEF ISA!Word, Word, ISA!WordSize, WordSize

(* The core starts as the machine does. *)
LEMMA InitRefines == Init => ISA!Init
<1> SUFFICES ASSUME Init PROVE ISA!Init
  OBVIOUS
<1>1. NextPC = 0 /\ Registers = [r \in Reg |-> 0] /\ Exited = FALSE
  BY DEF Init, NewReg, NextPC, Registers, Exited
<1>2. mem \in [Word -> Word]
  BY MemoriesAssumption DEF Init
<1> QED BY <1>1, <1>2, SameArithmetic DEF ISA!Init

(* The stages other than memory's do nothing that the programmer sees. *)
LEMMA OthersStutter ==
    ASSUME IInv, latch_registers \/ wb_stage \/ ex_stage \/ id_stage \/ if_stage
    PROVE  UNCHANGED <<code, NextPC, Registers, mem, Exited>>
<1> DEFINE Seen == IF ex_mem.valid_next THEN ex_mem.data_next.PC ELSE ExecutePC
<1>1. NextPC = Seen /\ NextPC' = Seen'
  BY DEF NextPC, ExecutePC, DecodePC
<1>0. TypeInv /\ ControlInv
  BY DEF IInv, ControlInv
<1> HIDE DEF Seen
<1>2. CASE latch_registers
  <2>1. UNCHANGED <<code, mem, Registers, Exited>>
    <3>1. UNCHANGED <<code, mem, Registers>>
      BY <1>0, <1>2, LatchStep DEF Latched, Registers, regfile_write
    <3>2. exited' = exited /\ (mem_wb'.valid_next <=> mem_wb.valid_next) /\ mem_wb'.data_next = mem_wb.data_next
      BY <1>0, <1>2, LatchStep DEF Latched
    <3>3. CASE mem_wb.valid_next
      BY <3>1, <3>2, <3>3 DEF Exited
    <3>4. CASE ~mem_wb.valid_next
      BY <3>1, <3>2, <3>4 DEF Exited
    <3> QED BY <3>3, <3>4
  <2>2. Seen' = Seen
    BY <1>0, <1>2, LatchStep DEF Latched, Seen, ExecutePC, DecodePC
  <2> QED BY <1>1, <2>1, <2>2
<1>3. CASE wb_stage
  <2>1. UNCHANGED <<code, mem, Registers>>
    BY <1>0, <1>3, WritebackStep, WritebackKeeps DEF IInv, DataInv
  <2>2. Seen' = Seen
    BY <1>0, <1>3, WritebackStep DEF Seen, ExecutePC, DecodePC
  <2>3. Exited' = Exited
    <3>1. stage = "wb"
      BY <1>3 DEF wb_stage
    <3>2. (mem_wb.valid <=> mem_wb.valid_next) /\ mem_wb.data = mem_wb.data_next
      BY <1>0, <3>1 DEF ControlInv, Halves, InStep
    <3>3. CASE mem_wb.valid
      <4>1. (exited' <=> is_exit(mem_wb.data.instr)) /\ ~mem_wb'.valid_next
        BY <1>0, <1>3, <3>3, WritebackStep DEF Popped
      <4>2. ~exited
        BY <1>0, <3>2, <3>3 DEF ControlInv, ExitInv
      <4>3. exited' \in BOOLEAN
        BY <1>0, <1>3, WritebackStep DEF TypeInv
      <4> QED BY <3>2, <3>3, <4>1, <4>2, <4>3 DEF Exited
    <3>4. CASE ~mem_wb.valid
      BY <1>0, <1>3, <3>4, WritebackStep DEF Exited
    <3> QED BY <3>3, <3>4
  <2> QED BY <1>1, <2>1, <2>2, <2>3
<1>4. CASE ex_stage
  <2>1. UNCHANGED <<code, mem, Registers, Exited>>
    BY <1>0, <1>4, ExecuteStep DEF control, Registers, regfile_write, Exited
  <2>2. Seen' = Seen
    <3>1. stage = "ex"
      BY <1>4 DEF ex_stage
    <3>2. CASE id_ex.valid
      BY <1>0, <1>4, <3>1, <3>2, ExecuteStep DEF ControlInv, Halves, InStep, Pushed, Seen, ExecutePC
    <3>3. CASE ~id_ex.valid
      BY <1>0, <1>4, <3>3, ExecuteStep DEF Seen, ExecutePC, DecodePC
    <3> QED BY <3>2, <3>3
  <2> QED BY <1>1, <2>1, <2>2
<1>5. CASE id_stage
  <2>1. UNCHANGED <<code, mem, Registers, Exited, ex_mem>>
    BY <1>0, <1>5, DecodeStep DEF Registers, regfile_write, Exited
  <2>2. ExecutePC' = ExecutePC
    <3>1. stage = "id"
      BY <1>5 DEF id_stage
    <3>2. CASE Decodes
      BY <1>0, <1>5, <3>1, <3>2, DecodeStep
         DEF Decodes, decoding, ControlInv, Halves, InStep, Popped, Pushed, ExecutePC, DecodePC
    <3>3. CASE ~Decodes
      BY <1>0, <1>5, <3>3, DecodeStep DEF ExecutePC, DecodePC
    <3> QED BY <3>2, <3>3
  <2> QED BY <1>1, <2>1, <2>2 DEF Seen
<1>6. CASE if_stage
  <2>1. UNCHANGED <<code, mem, Registers, Exited, ex_mem, id_ex>>
    BY <1>0, <1>6, FetchStep DEF control, Registers, regfile_write, Exited
  <2>2. DecodePC' = DecodePC
    <3>1. stage = "if"
      BY <1>6 DEF if_stage
    <3>2. CASE fetch_stalled \/ pipeline_stalled
      BY <1>0, <1>6, <3>2, FetchStep DEF DecodePC
    <3>3. CASE ~(fetch_stalled \/ pipeline_stalled)
      BY <1>0, <1>6, <3>1, <3>3, FetchStep DEF DecodePC, Pushed, ControlInv, Halves
    <3> QED BY <3>2, <3>3
  <2> QED BY <1>1, <2>1, <2>2 DEF Seen, ExecutePC
<1> QED BY <1>2, <1>3, <1>4, <1>5, <1>6

(* What the memory stage does, in the terms of the program: the instruction in
   EX/MEM is the one it is at, and has its effect. *)
LEMMA MemoryEffect ==
    ASSUME IInv, ex_mem.valid, mem_stage
    PROVE  /\ NextPC \in Word /\ code[NextPC] \in Instruction(Reg)
           /\ Registers \in [Reg -> Word] /\ Registers[0] = 0
           /\ ~Exited /\ Exited' = is_exit(code[NextPC])
           /\ code' = code
           /\ NextPC' = Successor(code[NextPC], Registers, NextPC)
           /\ \E old \in OldValues(code[NextPC]) :
                 Registers' = WrittenTo(Registers, code[NextPC],
                                        Effect(code[NextPC], Registers, mem, old, NextPC))
           /\ mem' = Stored(code[NextPC], Registers, mem, NextPC)
<1> DEFINE d == ex_mem.data
           i == ex_mem.data.instr
<1>0. /\ TypeInv /\ ControlInv /\ stage = "mem"
      /\ ex_mem.valid_next /\ ex_mem.data_next = d
      /\ ~mem_wb.valid_next
  BY DEF IInv, ControlInv, mem_stage, Halves, InStep
<1>1. NextPC = d.PC /\ NextPC \in Word /\ code[NextPC] = i /\ i \in Instruction(Reg)
  BY <1>0, RegisterFields DEF NextPC, Executed, IInv, PathInv, IsFetched
<1>2. Registers \in [Reg -> Word] /\ Registers[0] = 0 /\ Registers = reg_file
  BY <1>0, RegistersType DEF IInv, DataInv
<1>3. /\ UNCHANGED <<code, reg_file, PC, if_id, id_ex, exited>>
      /\ ~ex_mem'.valid_next /\ mem_wb'.valid_next
      /\ mem_wb'.data_next.instr = i
      /\ mem_wb'.data_next.result = mem_result(i, d.result, d.rs2_data)
      /\ mem' = IF is_store(i) THEN [mem EXCEPT ![d.result] = d.rs2_data] ELSE mem
  BY <1>0, MemoryStep DEF control, Popped, Pushed
<1>4. ~Exited /\ Exited' = is_exit(i)
  <2>1. ~exited /\ exited' = exited
    BY <1>0, <1>3 DEF ControlInv, ExitInv
  <2> QED BY <1>0, <1>3, <2>1 DEF Exited, is_exit
<1>5. NextPC' = ExecutePC
  BY <1>3 DEF NextPC, ExecutePC, DecodePC
<1>6. /\ is_csr(i) => d.rs2_data \in OldValues(i)
      /\ d.rs2_data = Source2(i, Registers, d.rs2_data)
      /\ d.result = IF i.op \in JumpOps THEN Fallthrough(NextPC)
                    ELSE Computed(i, Registers, d.rs2_data, NextPC)
      /\ ExecutePC = Successor(i, Registers, NextPC)
  BY <1>0, <1>1 DEF IInv, DataInv, ExecutedRight
<1>7. Registers' = WrittenTo(Registers, i, mem_result(i, d.result, d.rs2_data))
  BY <1>2, <1>3 DEF Registers, regfile_write, WrittenTo
<1> HIDE DEF d, i
<1>8. ~is_csr(i) => /\ Computed(i, Registers, d.rs2_data, NextPC) = Computed(i, Registers, 0, NextPC)
                   /\ Source2(i, Registers, d.rs2_data) = Source2(i, Registers, 0)
  BY OldIsForCsrs
<1>9. is_load(i) \/ is_csr(i) \/ is_store(i) => i.op \notin JumpOps
  BY DEF is_load, is_csr, is_store, CsrOps, JumpOps
<1>10. mem_result(i, d.result, d.rs2_data) = Effect(i, Registers, mem, d.rs2_data, NextPC)
  <2>1. is_load(i) => ~is_csr(i)
    BY DEF is_load, is_csr, CsrOps
  <2> QED BY <1>6, <1>8, <1>9, <2>1 DEF mem_result, Effect, Target, Fallthrough
<1>11. \E old \in OldValues(i) : Registers' = WrittenTo(Registers, i, Effect(i, Registers, mem, old, NextPC))
  <2>1. CASE is_csr(i)
    BY <1>6, <1>7, <1>10, <2>1
  <2>2. CASE ~is_csr(i)
    <3>1. Effect(i, Registers, mem, 0, NextPC) = Effect(i, Registers, mem, d.rs2_data, NextPC)
      BY <1>8, <2>2 DEF Effect
    <3>2. 0 \in OldValues(i)
      BY WordFacts DEF OldValues
    <3> QED BY <1>7, <1>10, <3>1, <3>2
  <2> QED BY <2>1, <2>2
<1>12. mem' = Stored(i, Registers, mem, NextPC)
  <2>1. is_store(i) => ~is_csr(i)
    BY DEF is_store, is_csr, CsrOps
  <2> QED BY <1>3, <1>6, <1>8, <1>9, <2>1 DEF Stored, Target
<1> QED BY <1>1, <1>2, <1>3, <1>4, <1>5, <1>6, <1>11, <1>12

(* And that is a step of the sequential machine. *)
LEMMA MemoryRefines ==
    ASSUME IInv, ex_mem.valid, mem_stage
    PROVE  ISA!Step
<1> DEFINE i  == ISA!I
           x1 == ISA!x1
           x2 == ISA!x2
<1>0. PICK old \in OldValues(i) :
          /\ Registers' = WrittenTo(Registers, i, Effect(i, Registers, mem, old, NextPC))
  BY MemoryEffect DEF ISA!I
<1>1. /\ i \in Instruction(Reg) /\ i.op \in Ops
      /\ x1 = Registers[i.rs1] /\ x2 = Registers[i.rs2]
  BY MemoryEffect DEF ISA!I, ISA!x1, ISA!x2, Instruction
<1>2. NextPC' = Successor(i, Registers, NextPC)
  BY MemoryEffect DEF ISA!I
<1>4. mem' = Stored(i, Registers, mem, NextPC)
  BY MemoryEffect DEF ISA!I
<1>5. ~Exited /\ Exited' = (i.op = "ECALL") /\ UNCHANGED code
  BY MemoryEffect DEF ISA!I, is_exit
<1>6. ISA!Link = Wrap(NextPC + 1)
  BY SameArithmetic DEF ISA!Link
<1>7. \A value : use_rd(i) => ISA!Written(value) = WrittenTo(Registers, i, value)
  BY Zenon DEF ISA!Written, WrittenTo
<1>8. ~use_rd(i) => Registers' = Registers
  BY <1>0 DEF WrittenTo
<1>9. i.op \notin BranchOps \cup JumpOps => NextPC' = ISA!Link
  BY <1>1, <1>2, <1>6, MemoryEffect, TakenIs, RegAssumption DEF Successor
<1>10. ~is_store(i) => UNCHANGED mem
  BY <1>4 DEF Stored
<1> DEFINE computed == Computed(i, Registers, 0, NextPC)
<1>3. ~is_csr(i) => Computed(i, Registers, old, NextPC) = computed
  BY OldIsForCsrs
<1>11. /\ i.op \in {"LW", "SW", "JALR"} => computed = ISA!Wrap(x1 + i.imm)
       /\ i.op \in {"JAL"} \cup BranchOps => computed = ISA!Wrap(NextPC + i.imm)
       /\ i.op \in RegOps \cup ImmOps \cup UpperOps => computed = ISA!Result
  <2>1. computed =
           CASE i.op = "ADD"   -> Wrap(x1 + x2)
             [] i.op = "SUB"   -> Wrap(x1 - x2)
             [] i.op = "AND"   -> BitAnd(x1, x2)
             [] i.op = "OR"    -> BitOr(x1, x2)
             [] i.op = "XOR"   -> BitXor(x1, x2)
             [] i.op = "SLT"   -> Flag(Signed(x1) < Signed(x2))
             [] i.op = "SLTU"  -> Flag(x1 < x2)
             [] i.op = "SLTIU" -> Flag(x1 < i.imm)
             [] i.op = "LUI"   -> i.imm
             [] i.op \in {"ADDI", "LW", "SW", "JALR"}    -> Wrap(x1 + i.imm)
             [] i.op \in {"AUIPC", "JAL"} \cup BranchOps -> Wrap(NextPC + i.imm)
             [] OTHER -> computed
    BY <1>1, MemoryEffect, ComputedIs, RegAssumption
  <2> HIDE DEF i, x1, x2, computed
  <2>2. /\ i.op \in {"LW", "SW", "JALR"} => computed = Wrap(x1 + i.imm)
        /\ i.op \in {"JAL"} \cup BranchOps => computed = Wrap(NextPC + i.imm)
    BY <2>1 DEF BranchOps
  <2>3. i.op \in RegOps \cup ImmOps \cup UpperOps => computed = ISA!Result
    BY <2>1, SameArithmetic DEF RegOps, ImmOps, UpperOps, BranchOps, ISA!Result, i, x1, x2
  <2> QED BY <2>2, <2>3, SameArithmetic
<1>12. i.op \in BranchOps => (Taken(i, Registers) <=> ISA!Taken)
  <2>1. /\ i.op = "BEQ"  => (Taken(i, Registers) <=> x1 = x2)
        /\ i.op = "BNE"  => (Taken(i, Registers) <=> x1 # x2)
        /\ i.op = "BLT"  => (Taken(i, Registers) <=> Signed(x1) < Signed(x2))
        /\ i.op = "BGE"  => (Taken(i, Registers) <=> Signed(x1) >= Signed(x2))
        /\ i.op = "BLTU" => (Taken(i, Registers) <=> x1 < x2)
        /\ i.op = "BGEU" => (Taken(i, Registers) <=> x1 >= x2)
    BY <1>1, MemoryEffect, TakenIs, RegAssumption
  <2> QED BY <2>1, SameArithmetic DEF ISA!Taken, BranchOps
<1> HIDE DEF i, x1, x2, computed
<1> USE DEF use_rd, is_load, is_store, is_csr, Effect, Target, Stored, computed, i, x1, x2,
            RegOps, ImmOps, UpperOps, BranchOps, JumpOps, CsrOps
<1>13. CASE i.op \in RegOps \cup ImmOps \cup UpperOps
  <2>1. Registers' = ISA!Written(ISA!Result)
    BY <1>0, <1>3, <1>7, <1>11, <1>13
  <2> QED BY <1>5, <1>9, <1>10, <1>13, <2>1 DEF ISA!Step, ISA!Compute
<1>14. CASE i.op = "LW"
  <2>1. Registers' = ISA!Written(mem[ISA!Wrap(x1 + i.imm)])
    BY <1>0, <1>3, <1>7, <1>11, <1>14
  <2> QED BY <1>5, <1>9, <1>10, <1>14, <2>1 DEF ISA!Step, ISA!Load
<1>15. CASE i.op = "SW"
  <2>1. Source2(i, Registers, 0) = x2
    BY <1>1, <1>15, MemoryEffect DEF Source2, Source, use_rs2
  <2>2. mem' = [mem EXCEPT ![ISA!Wrap(x1 + i.imm)] = x2]
    BY <1>4, <1>11, <1>15, <2>1
  <2> QED BY <1>5, <1>8, <1>9, <1>15, <2>2 DEF ISA!Step, ISA!Store
<1>16. CASE i.op \in BranchOps
  <2>1. NextPC' = IF ISA!Taken THEN ISA!Wrap(NextPC + i.imm) ELSE ISA!Link
    BY <1>2, <1>6, <1>11, <1>12, <1>16 DEF Successor
  <2> QED BY <1>5, <1>8, <1>10, <1>16, <2>1 DEF ISA!Step, ISA!Branch
<1>17. CASE i.op \in JumpOps
  <2>1. Taken(i, Registers)
    BY <1>1, <1>17, MemoryEffect, TakenIs, RegAssumption
  <2>2. NextPC' = IF i.op = "JAL" THEN ISA!Wrap(NextPC + i.imm) ELSE ISA!Wrap(x1 + i.imm)
    BY <1>2, <1>11, <1>17, <2>1 DEF Successor
  <2>3. Registers' = ISA!Written(ISA!Link)
    BY <1>0, <1>6, <1>7, <1>17
  <2> QED BY <1>5, <1>10, <1>17, <2>2, <2>3 DEF ISA!Step, ISA!Jump
<1>18. CASE i.op \in CsrOps
  <2>1. Registers' = ISA!Written(old) /\ old \in IF i.imm \in Counters THEN ISA!Word ELSE {0}
    BY <1>0, <1>7, <1>18, SameArithmetic DEF OldValues
  <2> QED BY <1>5, <1>9, <1>10, <1>18, <2>1 DEF ISA!Step, ISA!Csr
<1>19. CASE i.op \in {"FENCE", "ECALL"}
  BY <1>5, <1>8, <1>9, <1>10, <1>19 DEF ISA!Step, ISA!Fence, ISA!Exit
<1> QED BY <1>1, <1>13, <1>14, <1>15, <1>16, <1>17, <1>18, <1>19 DEF Ops

(* The memory stage is a step of the machine, and the other stages stutter. *)
LEMMA StepRefines == ASSUME IInv, [Next]_vars PROVE [ISA!Step]_(ISA!vars)
<1>1. CASE mem_stage
  <2>1. CASE ex_mem.valid
    BY <1>1, <2>1, MemoryRefines
  <2>2. CASE ~ex_mem.valid
    <3>1. UNCHANGED <<code, mem, ex_mem, PC, if_id, id_ex, reg_file, mem_wb, exited>>
      BY <1>1, <2>2, MemoryStep DEF control, IInv, ControlInv
    <3>2. UNCHANGED <<NextPC, Registers, Exited>>
      BY <3>1 DEF NextPC, Registers, regfile_write, Exited
    <3> QED BY <3>1, <3>2 DEF ISA!vars
  <2> QED BY <2>1, <2>2
<1>2. CASE latch_registers \/ wb_stage \/ ex_stage \/ id_stage \/ if_stage
  BY <1>2, OthersStutter DEF ISA!vars
<1>3. CASE UNCHANGED vars
  BY <1>3 DEF vars, registers, control, ISA!vars, NextPC, Registers, regfile_write, Exited
<1> QED BY <1>1, <1>2, <1>3 DEF Next, Done

(* README.md: "The ISA of this processor is the standard RV32-I".  For every
   program whose CSR instructions are forwarded right, and with any predictions,
   the core has the effects of the machine that runs one instruction at a time
   (Core::tick). *)
THEOREM Refinement == ASSUME CsrsForwardRight PROVE Spec => ImplementsISA
<1>1. Init => IInv /\ ISA!Init
  BY IInvInit, InitRefines
<1>2. IInv /\ [Next]_vars => IInv'
  BY IInvNext
<1>3. IInv /\ [Next]_vars => [ISA!Step]_(ISA!vars)
  BY StepRefines
<1> QED BY <1>1, <1>2, <1>3, PTL DEF Spec, ImplementsISA, ISA!Spec
==============================================================================
