---------------------------- MODULE GSharePipeline ----------------------------
(***************************************************************************)
(* The five-stage core of project2 (core.cpp, execute.cpp, gshare.cpp).    *)
(*                                                                         *)
(* A cycle of the simulator first ticks the four pipeline registers, which *)
(* makes what the stages pushed in the last cycle current, and then runs   *)
(* the stages from write-back down to fetch (Core::tick).  Each is one     *)
(* action here, in that order, so a stage sees what the later stages did   *)
(* in the same cycle: the branch in execute is resolved before the         *)
(* instruction behind it is decoded, and a stall in decode holds back      *)
(* fetch and nobody else.                                                  *)
(***************************************************************************)
EXTENDS Decode, GShare

CONSTANTS Reg,           \* the registers, 0 among them
          Programs,      \* the programs: each an instruction for every PC
          Memories,      \* the initial contents of data memory
          GshareModes    \* the values of the command line's -g flag

ASSUME RegAssumption      == 0 \in Reg
ASSUME ProgramsAssumption == Programs \subseteq [Word -> Instruction(Reg)]
ASSUME MemoriesAssumption == Memories \subseteq [Word -> Word]
ASSUME ModesAssumption    == GshareModes \subseteq {0, 1}

VARIABLES code,              \* program memory
          mem,               \* data memory
          reg_file,          \* reg_file_
          PC,                \* PC_
          if_id,             \* if_id_
          id_ex,             \* id_ex_
          ex_mem,            \* ex_mem_
          mem_wb,            \* mem_wb_
          fetch_stalled,     \* fetch_stalled_
          pipeline_stalled,  \* pipeline_stalled_
          exited,            \* exited_
          instrs,            \* perf_stats_.instrs, its low word
          gshare_enabled,    \* gshare_enabled
          stage              \* the part of the cycle that runs next

registers == <<if_id, id_ex, ex_mem, mem_wb>>
control   == <<fetch_stalled, pipeline_stalled, exited, instrs>>
vars == <<code, mem, reg_file, PC, registers, control, gshare_enabled, predictor, stage>>

(***************************************************************************)
(* The register between two stages (pipeline_reg.h) has two phases: stages *)
(* read the current half, push and pop change the next half, and the       *)
(* register's own tick moves next to current.  The data of one nobody has  *)
(* pushed to is not initialised.                                           *)
(***************************************************************************)
NewReg(noData) == [valid |-> FALSE, data |-> noData, valid_next |-> FALSE, data_next |-> noData]

push(reg, data) == [reg EXCEPT !.data_next = data, !.valid_next = TRUE]

pop(reg) == [reg EXCEPT !.valid_next = FALSE]

(* reset *)
flush(reg) == [reg EXCEPT !.valid = FALSE, !.valid_next = FALSE]

(* tick *)
latch(reg) == [reg EXCEPT !.data = reg.data_next, !.valid = reg.valid_next]

NoInstr == [op |-> "FENCE", rd |-> 0, rs1 |-> 0, rs2 |-> 0, imm |-> 0]

Init ==
    /\ code \in Programs
    /\ mem \in Memories
    /\ reg_file = [r \in Reg |-> 0]
    /\ PC = 0
    /\ if_id = NewReg([instr |-> NoInstr, PC |-> 0])
    /\ id_ex = NewReg([instr |-> NoInstr, rs1_data |-> 0, rs2_data |-> 0, PC |-> 0])
    /\ ex_mem = NewReg([instr |-> NoInstr, rs2_data |-> 0, result |-> 0, PC |-> 0])
    /\ mem_wb = NewReg([instr |-> NoInstr, result |-> 0, PC |-> 0])
    /\ fetch_stalled = FALSE
    /\ pipeline_stalled = FALSE
    /\ exited = FALSE
    /\ instrs = 0
    /\ gshare_enabled \in GshareModes
    /\ PredictorInit
    /\ stage = "latch"

(* The registers' ticks and the start of Core::tick.  The run ends with the
   cycle in which the exit instruction was written back. *)
latch_registers ==
    /\ stage = "latch" /\ stage' = "wb"
    /\ ~exited
    /\ if_id' = latch(if_id)
    /\ id_ex' = latch(id_ex)
    /\ ex_mem' = latch(ex_mem)
    /\ mem_wb' = latch(mem_wb)
    /\ pipeline_stalled' = FALSE
    /\ UNCHANGED <<code, mem, reg_file, PC, fetch_stalled, exited, instrs, gshare_enabled, predictor>>

(***************************************************************************)
(* wb_stage                                                                *)
(***************************************************************************)
regfile_write(instr, result) ==
    IF use_rd(instr) /\ instr.rd # 0 THEN [reg_file EXCEPT ![instr.rd] = result] ELSE reg_file

wb_stage ==
    /\ stage = "wb" /\ stage' = "mem"
    /\ IF mem_wb.valid
       THEN /\ reg_file' = regfile_write(mem_wb.data.instr, mem_wb.data.result)
            /\ instrs' = Wrap(instrs + 1)
            /\ exited' = is_exit(mem_wb.data.instr)
            /\ mem_wb' = pop(mem_wb)
       ELSE UNCHANGED <<reg_file, instrs, exited, mem_wb>>
    /\ UNCHANGED <<code, mem, PC, if_id, id_ex, ex_mem, fetch_stalled, pipeline_stalled,
                   gshare_enabled, predictor>>

(***************************************************************************)
(* mem_stage.  A load or a control register gives rd a value that execute  *)
(* did not compute.  set_csr takes only writes that it ignores.            *)
(***************************************************************************)
mem_result(instr, result, rs2_data) ==
    CASE is_load(instr) -> mem[result]
      [] is_csr(instr)  -> rs2_data
      [] OTHER          -> result

mem_stage ==
    /\ stage = "mem" /\ stage' = "ex"
    /\ IF ex_mem.valid
       THEN LET d == ex_mem.data
            IN  /\ mem_wb' = push(mem_wb, [instr |-> d.instr, PC |-> d.PC,
                                    result |-> mem_result(d.instr, d.result, d.rs2_data)])
                /\ ex_mem' = pop(ex_mem)
                /\ mem' = IF is_store(d.instr) THEN [mem EXCEPT ![d.result] = d.rs2_data] ELSE mem
       ELSE UNCHANGED <<mem_wb, ex_mem, mem>>
    /\ UNCHANGED <<code, reg_file, PC, if_id, id_ex, control, gshare_enabled, predictor>>

(***************************************************************************)
(* ex_stage                                                                *)
(***************************************************************************)
produces(reg, r) == reg.valid /\ use_rd(reg.data.instr) /\ reg.data.instr.rd = r

(* Mutated: the older of two writers in flight wins. *)
data_forwarding_oldest_first(r, data) ==
    IF r = 0 THEN data
    ELSE IF produces(mem_wb, r) THEN mem_wb.data.result
    ELSE IF produces(ex_mem, r) THEN ex_mem.data.result
    ELSE data

data_forwarding(r, data) ==
    IF r = 0 THEN data
    ELSE IF produces(ex_mem, r) THEN ex_mem.data.result
    ELSE IF produces(mem_wb, r) THEN mem_wb.data.result
    ELSE data

(* A mispredicted branch redirects fetch and empties if_id, where the only
   younger instruction is.  The prediction is what was fetched next. *)
resolve(instr, rs1_data, rs2_data, target, branch_PC) ==
    LET taken   == br_taken(instr, rs1_data, rs2_data)
        next_PC == IF taken THEN target ELSE Fallthrough(branch_PC)
    IN  /\ IF next_PC # if_id.data.PC
           THEN PC' = next_PC /\ if_id' = flush(if_id)
           ELSE UNCHANGED <<PC, if_id>>
        /\ IF gshare_enabled = 1
           THEN update(branch_PC, next_PC, taken)
           ELSE UNCHANGED predictor

ex_stage ==
    /\ stage = "ex" /\ stage' = "id"
    /\ IF id_ex.valid
       THEN LET d   == id_ex.data
                rs1_data == IF use_rs1(d.instr) THEN data_forwarding(d.instr.rs1, d.rs1_data)
                                                ELSE d.rs1_data
                rs2_data == IF use_rs2(d.instr) THEN data_forwarding(d.instr.rs2, d.rs2_data)
                                                ELSE d.rs2_data
                rd_data  == alu_unit(d.instr, rs1_data, rs2_data, d.PC)
            IN  /\ ex_mem' = push(ex_mem,
                       [instr |-> d.instr, rs2_data |-> rs2_data, PC |-> d.PC,
                        result |-> IF d.instr.op \in JumpOps THEN Fallthrough(d.PC) ELSE rd_data])
                /\ id_ex' = pop(id_ex)
                /\ IF is_branch(d.instr)
                   THEN resolve(d.instr, rs1_data, rs2_data, rd_data, d.PC)
                   ELSE UNCHANGED <<PC, if_id, predictor>>
       ELSE UNCHANGED <<ex_mem, id_ex, PC, if_id, predictor>>
    /\ UNCHANGED <<code, mem, reg_file, mem_wb, control, gshare_enabled>>

(***************************************************************************)
(* id_stage                                                                *)
(***************************************************************************)
(* Mutated: the second operand is not checked. *)
check_data_hazards_rs1_only(instr) ==
    id_ex.valid /\ is_load(id_ex.data.instr) /\ use_rs1(instr) /\ id_ex.data.instr.rd = instr.rs1

check_data_hazards(instr) ==
    /\ id_ex.valid
    /\ LET ex_instr == id_ex.data.instr
       IN  \/ is_load(ex_instr) /\ use_rs1(instr) /\ ex_instr.rd = instr.rs1
           \/ is_load(ex_instr) /\ use_rs2(instr) /\ ex_instr.rd = instr.rs2
           \/ is_csr(ex_instr) /\ is_csr(instr) /\ ex_instr.imm = instr.imm

get_csr(addr) ==
    CASE addr = MCYCLE   -> Wrap(instrs - 1 + 5)
      [] addr = MINSTRET -> instrs
      [] OTHER           -> 0

(* regfile_read *)
operand1(instr) == IF use_rs1(instr) THEN reg_file[instr.rs1] ELSE 0

operand2(instr) ==
    IF is_csr(instr) THEN get_csr(instr.imm)
    ELSE IF use_rs2(instr) THEN reg_file[instr.rs2] ELSE 0

(* Mutated: decode locks fetch behind a branch, as project1 does, and nobody
   unlocks it. *)
locks_fetch_on_branch(instr) == is_exit(instr) \/ is_branch(instr)

locks_fetch(instr) == is_exit(instr)

decoding == if_id.valid /\ ~pipeline_stalled

id_stage ==
    /\ stage = "id" /\ stage' = "if"
    /\ IF decoding
       THEN LET instr == if_id.data.instr
            IN  /\ fetch_stalled' = (fetch_stalled \/ locks_fetch(instr))
                /\ pipeline_stalled' = check_data_hazards(instr)
                /\ IF check_data_hazards(instr)
                   THEN UNCHANGED <<if_id, id_ex>>
                   ELSE /\ id_ex' = push(id_ex, [instr |-> instr, PC |-> if_id.data.PC,
                                                 rs1_data |-> operand1(instr),
                                                 rs2_data |-> operand2(instr)])
                        /\ if_id' = pop(if_id)
       ELSE UNCHANGED <<fetch_stalled, pipeline_stalled, if_id, id_ex>>
    /\ UNCHANGED <<code, mem, reg_file, PC, ex_mem, mem_wb, exited, instrs, gshare_enabled, predictor>>

(***************************************************************************)
(* if_stage                                                                *)
(***************************************************************************)
next_fetch_PC == IF gshare_enabled = 1 THEN predict(PC) ELSE Fallthrough(PC)

if_stage ==
    /\ stage = "if" /\ stage' = "latch"
    /\ IF fetch_stalled \/ pipeline_stalled
       THEN UNCHANGED <<if_id, PC>>
       ELSE /\ if_id' = push(if_id, [instr |-> code[PC], PC |-> PC])
            /\ PC' = next_fetch_PC
    /\ UNCHANGED <<code, mem, reg_file, id_ex, ex_mem, mem_wb, control, gshare_enabled, predictor>>

(* The simulator has returned. *)
Done == exited /\ stage = "latch" /\ UNCHANGED vars

Next ==
    \/ latch_registers
    \/ wb_stage
    \/ mem_stage
    \/ ex_stage
    \/ id_stage
    \/ if_stage
    \/ Done

(* ProcessorImpl::run ticks the platform until the exit. *)
Spec == Init /\ [][Next]_vars /\ WF_vars(Next)

------------------------------------------------------------------------------
(* branch_unit takes the PC in if_id for the prediction of the branch, and
   does not look at if_id's valid bit: whenever a branch is in execute, if_id
   must hold what was fetched right behind it, whatever stalls and flushes
   came before. *)
PredictionIsBehindBranch ==
    stage = "ex" /\ id_ex.valid /\ is_branch(id_ex.data.instr) => if_id.valid

(* A value that execute takes from EX/MEM is the value that instruction will
   write: a load is not a source there, because decode kept its user one cycle
   behind (check_data_hazards, data_forwarding). *)
ForwardedIsWritten ==
    LET instr   == id_ex.data.instr
        sources == {r \in Reg : \/ use_rs1(instr) /\ instr.rs1 = r
                                \/ use_rs2(instr) /\ instr.rs2 = r}
    IN  stage = "ex" /\ id_ex.valid =>
            \A r \in sources \ {0} :
                produces(ex_mem, r) => mem_wb.data_next.result = ex_mem.data.result

(* The machine the programmer sees: an instruction counts as done when the
   memory stage has run, so its result may still be on its way to the register
   file, and the next one is the oldest that has not come that far. *)
NextPC ==
    CASE ex_mem.valid_next -> ex_mem.data_next.PC
      [] ~ex_mem.valid_next /\ id_ex.valid_next -> id_ex.data_next.PC
      [] ~ex_mem.valid_next /\ ~id_ex.valid_next /\ if_id.valid_next -> if_id.data_next.PC
      [] OTHER -> PC

Registers ==
    IF mem_wb.valid_next
    THEN regfile_write(mem_wb.data_next.instr, mem_wb.data_next.result)
    ELSE reg_file

Exited == exited \/ (mem_wb.valid_next /\ is_exit(mem_wb.data_next.instr))

ISA == INSTANCE SequentialISA WITH pc <- NextPC, regs <- Registers, exited <- Exited

(* The programs whose CSR instructions are forwarded right: execute forwards
   what the unit computed, and not the control register's old value, which rd
   is to get.  MCCsrWrite shows what happens in the others. *)
CsrsForwardRight ==
    \A p \in Programs, a \in Word :
        is_csr(p[a]) /\ Uses(p[Wrap(a + 1)], p[a].rd) => ComputesOldValue(p[a])

(* README.md: "The ISA of this processor is the standard RV32-I".  With or
   without the predictor, whatever is in flight together, each instruction has
   the effect it has alone and in program order, no instruction of a wrong path
   has any, and the exit is the last one (Core::tick and its stages). *)
ImplementsISA == ISA!Spec

(* The core never hangs: until the exit is written back, instructions keep
   being written back (fetch_stalled_ is never released once it is set, and a
   stall in decode must end). *)
KeepsRetiring == []<>(exited \/ (stage = "wb" /\ mem_wb.valid))
==============================================================================
