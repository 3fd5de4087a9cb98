--------------------------- MODULE InOrderPipeline ---------------------------
(***************************************************************************)
(* The five-stage core of project1 (core.cpp, execute.cpp, pipeline.h).    *)
(*                                                                         *)
(* Core::tick runs the stages from write-back down to fetch, each one      *)
(* action here, and the pipeline registers have one phase: what a stage    *)
(* pushes is there for the stages that run after it in the same cycle.     *)
(* Fetch locks itself behind every instruction, and decode unlocks it.     *)
(* Operands are forwarded in decode.                                       *)
(***************************************************************************)
EXTENDS Decode

CONSTANTS Reg,       \* the registers, 0 among them
          Programs,  \* the programs: each an instruction for every PC
          Memories   \* the initial contents of data memory

ASSUME RegAssumption      == 0 \in Reg
ASSUME ProgramsAssumption == Programs \subseteq [Word -> Instruction(Reg)]
ASSUME MemoriesAssumption == Memories \subseteq [Word -> Word]

VARIABLES code,           \* program memory
          mem,            \* data memory
          reg_file,       \* reg_file_
          PC,             \* PC_
          if_id,          \* if_id_
          id_ex,          \* id_ex_
          ex_mem,         \* ex_mem_
          mem_wb,         \* mem_wb_
          fetch_stalled,  \* fetch_stalled_
          exited,         \* exited_
          stage           \* the part of the cycle that runs next

vars == <<code, mem, reg_file, PC, if_id, id_ex, ex_mem, mem_wb, fetch_stalled, exited, stage>>

(* pipeline.h *)
NewReg(noData) == [valid |-> FALSE, data |-> noData]

push(data) == [valid |-> TRUE, data |-> data]

(* Mutated: the register keeps what was taken from it. *)
pop_kept(reg) == reg

(* pop and reset *)
pop(reg) == [valid |-> FALSE, data |-> reg.data]

NoInstr == [op |-> "FENCE", rd |-> 0, rs1 |-> 0, rs2 |-> 0, imm |-> 0]

Init ==
    /\ code \in Programs
    /\ mem \in Memories
    /\ reg_file = [r \in Reg |-> 0]
    /\ PC = 0
    /\ if_id = NewReg([instr |-> NoInstr, PC |-> 0])
    /\ id_ex = NewReg([instr |-> NoInstr, rs1_data |-> 0, rs2_data |-> 0, PC |-> 0])
    /\ ex_mem = NewReg([instr |-> NoInstr, rs2_data |-> 0, result |-> 0, PC |-> 0])
    /\ mem_wb = NewReg([instr |-> NoInstr, result |-> 0, PC |-> 0])
    /\ fetch_stalled = FALSE
    /\ exited = FALSE
    /\ stage = "wb"

(***************************************************************************)
(* wb_stage.  The run ends with the cycle in which the exit instruction    *)
(* was written back.                                                       *)
(***************************************************************************)
regfile_write(instr, result) ==
    IF use_rd(instr) /\ instr.rd # 0 THEN [reg_file EXCEPT ![instr.rd] = result] ELSE reg_file

wb_stage ==
    /\ stage = "wb" /\ stage' = "mem"
    /\ ~exited
    /\ IF mem_wb.valid
       THEN /\ reg_file' = regfile_write(mem_wb.data.instr, mem_wb.data.result)
            /\ exited' = is_exit(mem_wb.data.instr)
            /\ mem_wb' = pop(mem_wb)
       ELSE UNCHANGED <<reg_file, exited, mem_wb>>
    /\ UNCHANGED <<code, mem, PC, if_id, id_ex, ex_mem, fetch_stalled>>

(***************************************************************************)
(* mem_stage.  set_csr takes only writes that it ignores.                  *)
(***************************************************************************)
mem_result(instr, result, rs2_data) ==
    CASE is_load(instr) -> mem[result]
      [] is_csr(instr)  -> rs2_data
      [] OTHER          -> result

mem_stage ==
    /\ stage = "mem" /\ stage' = "ex"
    /\ IF ex_mem.valid /\ ~mem_wb.valid
       THEN LET d == ex_mem.data
            IN  /\ mem_wb' = push([instr |-> d.instr, PC |-> d.PC,
                                    result |-> mem_result(d.instr, d.result, d.rs2_data)])
                /\ ex_mem' = pop(ex_mem)
                /\ mem' = IF is_store(d.instr) THEN [mem EXCEPT ![d.result] = d.rs2_data] ELSE mem
       ELSE UNCHANGED <<mem_wb, ex_mem, mem>>
    /\ UNCHANGED <<code, reg_file, PC, if_id, id_ex, fetch_stalled, exited>>

(***************************************************************************)
(* ex_stage.  Decode has already redirected fetch for a JAL.  Another      *)
(* taken branch does it here, and drops what was fetched behind it.        *)
(***************************************************************************)
Link(link_PC) == Wrap(link_PC + 1)

(* Mutated: the branch drops the instruction and leaves its lock on fetch. *)
unlocked_by_flush_never(flushed) == fetch_stalled

unlocked_by_flush(flushed) == IF flushed THEN FALSE ELSE fetch_stalled

ex_result(d) == alu_unit(d.instr, d.rs1_data, d.rs2_data, d.PC)

mispredicted(d) ==
    /\ is_branch(d.instr) /\ d.instr.op # "JAL"
    /\ br_taken(d.instr, d.rs1_data, d.rs2_data)
    /\ ex_result(d) # Link(d.PC)

ex_stage ==
    /\ stage = "ex" /\ stage' = "id"
    /\ IF id_ex.valid /\ ~ex_mem.valid
       THEN LET d       == id_ex.data
                flushed == mispredicted(d)
            IN  /\ ex_mem' = push([instr |-> d.instr, rs2_data |-> d.rs2_data, PC |-> d.PC,
                       result |-> IF d.instr.op \in JumpOps THEN Link(d.PC) ELSE ex_result(d)])
                /\ id_ex' = pop(id_ex)
                /\ PC' = IF flushed THEN ex_result(d) ELSE PC
                /\ if_id' = IF flushed THEN pop(if_id) ELSE if_id
                /\ fetch_stalled' = unlocked_by_flush(flushed)
       ELSE UNCHANGED <<ex_mem, id_ex, PC, if_id, fetch_stalled>>
    /\ UNCHANGED <<code, mem, reg_file, mem_wb, exited>>

(***************************************************************************)
(* id_stage.  Fetch is unlocked, and redirected by a JAL, before the data  *)
(* hazards are checked: an instruction that waits for a load does it again *)
(* in each cycle it waits.                                                 *)
(***************************************************************************)
check_data_hazards(instr) ==
    /\ ex_mem.valid
    /\ is_load(ex_mem.data.instr)
    /\ \/ use_rs1(instr) /\ ex_mem.data.instr.rd = instr.rs1
       \/ use_rs2(instr) /\ ex_mem.data.instr.rd = instr.rs2

produces(reg, r) == reg.valid /\ use_rd(reg.data.instr) /\ reg.data.instr.rd = r

data_forwarding(r) ==
    IF produces(ex_mem, r) THEN ex_mem.data.result
    ELSE IF produces(mem_wb, r) THEN mem_wb.data.result
    ELSE reg_file[r]

(* Mutated: a write to register 0 is forwarded like any other. *)
operand_any(used, r) == IF used THEN data_forwarding(r) ELSE 0

(* regfile_read *)
operand(used, r) == IF used /\ r # 0 THEN data_forwarding(r) ELSE 0

(* get_csr.  The counters, which the cycles and instructions so far would
   decide, are left out. *)
operand2(instr) == IF is_csr(instr) THEN 0 ELSE operand(use_rs2(instr), instr.rs2)

(* Mutated: an exit unlocks fetch as any other instruction does. *)
unlocks_fetch_always(instr) == TRUE

unlocks_fetch(instr) == ~is_exit(instr)

decoding == if_id.valid /\ ~id_ex.valid

id_stage ==
    /\ stage = "id" /\ stage' = "if"
    /\ IF decoding
       THEN LET instr == if_id.data.instr
            IN  /\ fetch_stalled' = (fetch_stalled /\ ~unlocks_fetch(instr))
                /\ PC' = IF instr.op = "JAL" THEN Wrap(if_id.data.PC + instr.imm) ELSE PC
                /\ IF check_data_hazards(instr)
                   THEN UNCHANGED <<id_ex, if_id>>
                   ELSE /\ id_ex' = push([instr |-> instr, PC |-> if_id.data.PC,
                                                 rs1_data |-> operand(use_rs1(instr), instr.rs1),
                                                 rs2_data |-> operand2(instr)])
                        /\ if_id' = pop(if_id)
       ELSE UNCHANGED <<fetch_stalled, PC, id_ex, if_id>>
    /\ UNCHANGED <<code, mem, reg_file, ex_mem, mem_wb, exited>>

(***************************************************************************)
(* if_stage                                                                *)
(***************************************************************************)
fetching == ~fetch_stalled /\ ~if_id.valid

if_stage ==
    /\ stage = "if" /\ stage' = "wb"
    /\ IF fetching
       THEN /\ if_id' = push([instr |-> code[PC], PC |-> PC])
            /\ PC' = Wrap(PC + 1)
            /\ fetch_stalled' = TRUE
       ELSE UNCHANGED <<if_id, PC, fetch_stalled>>
    /\ UNCHANGED <<code, mem, reg_file, id_ex, ex_mem, mem_wb, exited>>

(* The simulator has returned. *)
Done == exited /\ stage = "wb" /\ UNCHANGED vars

Next ==
    \/ wb_stage
    \/ mem_stage
    \/ ex_stage
    \/ id_stage
    \/ if_stage
    \/ Done

(* ProcessorImpl::run ticks the platform until the exit. *)
Spec == Init /\ [][Next]_vars /\ WF_vars(Next)

------------------------------------------------------------------------------
(* reg holds the instruction that ends the program. *)
ExitIn(reg) == reg.valid /\ is_exit(reg.data.instr)

(* The lock on fetch always has an owner that will release it, or is the last
   one: the instruction fetch locked itself behind is still undecoded, or an
   exit is on its way to write-back.  A flush that drops the owner releases
   its lock (fetch_stalled_ in id_stage, if_stage and branch_unit). *)
FetchLockHasOwner ==
    fetch_stalled => \/ if_id.valid
                     \/ ExitIn(id_ex) \/ ExitIn(ex_mem) \/ ExitIn(mem_wb)
                     \/ exited

(* Nothing younger than the exit is in flight: fetch stays locked from the
   cycle the exit is decoded, however long it waits (id_stage, if_stage). *)
NothingBehindExit ==
    /\ ExitIn(id_ex) => ~if_id.valid
    /\ ExitIn(ex_mem) => ~if_id.valid /\ ~id_ex.valid
    /\ ExitIn(mem_wb) => ~if_id.valid /\ ~id_ex.valid /\ ~ex_mem.valid

(* The emptiness that a stage asks of the register in front of it is always
   there: only a load that decode waits for ever stops an instruction, as the
   later stages have all moved on when an earlier one runs (the guards of
   mem_stage, ex_stage and id_stage, and the assertion in pipeline.h's push). *)
OnlyDecodeWaits ==
    /\ stage = "mem" => ~mem_wb.valid
    /\ stage = "ex" => ~ex_mem.valid
    /\ stage = "id" => ~id_ex.valid

(* The machine the programmer sees: an instruction counts as done when the
   memory stage has run. *)
NextPC ==
    CASE ex_mem.valid -> ex_mem.data.PC
      [] ~ex_mem.valid /\ id_ex.valid -> id_ex.data.PC
      [] ~ex_mem.valid /\ ~id_ex.valid /\ if_id.valid -> if_id.data.PC
      [] OTHER -> PC

Registers == IF mem_wb.valid THEN regfile_write(mem_wb.data.instr, mem_wb.data.result) ELSE reg_file

Exited == exited \/ (mem_wb.valid /\ is_exit(mem_wb.data.instr))

ISA == INSTANCE SequentialISA WITH pc <- NextPC, regs <- Registers, exited <- Exited

(* The programs whose CSR instructions are forwarded right: execute forwards
   what the unit computed, and not the control register's old value, which rd
   is to get.  MCCsrWrite shows what happens in the others. *)
CsrsForwardRight ==
    \A p \in Programs, a \in Word :
        is_csr(p[a]) /\ Uses(p[Wrap(a + 1)], p[a].rd) => ComputesOldValue(p[a])

(* README.md: "The ISA of this processor is the standard RV32-I".  Whatever is
   in flight together, each instruction has the effect it has alone and in
   program order, no instruction of a wrong path has any, and the exit is the
   last one (Core::tick and its stages). *)
ImplementsISA == ISA!Spec

(* The core never hangs: until the exit is written back, instructions keep
   being written back (fetch_stalled_, the waits in decode). *)
KeepsRetiring == []<>(exited \/ (stage = "wb" /\ mem_wb.valid))
==============================================================================
