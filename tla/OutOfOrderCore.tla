---------------------------- MODULE OutOfOrderCore ----------------------------
(***************************************************************************)
(* The out-of-order core of project3 (core.cpp, ooo.cpp) with its reorder  *)
(* buffer, reservation stations, alias table, checkpoints, units and bus.  *)
(* Loads and stores are LoadStoreQueue's.                                  *)
(*                                                                         *)
(* A cycle is a round of the stages.  First the registers of the front end *)
(* and the instruction cache tick, then the units, and then the core runs  *)
(* commit, writeback, execute, issue, decode and fetch; execute is the     *)
(* flush, the bus and the scheduling.                                      *)
(*                                                                         *)
(* An instruction is known by its PC, which with the program says what     *)
(* decode makes of it.  Several bodies are TODO in the source: the operand *)
(* reads, the stations' update, the bus, scheduling and pipeline_flush do  *)
(* what the comments and hints in their places say.                        *)
(***************************************************************************)
EXTENDS ReorderBuffer, ReservationStation, RegisterAlias, FunctionalUnit, ClockedRegs, Decode

CONSTANTS Reg,              \* the registers, 0 among them
          Programs,         \* the programs: each an instruction for every PC
          FETCH_LATENCIES   \* how many cycles the instruction cache may take

(* Instructions are known by their PC, and all values are words.  Loads and
   stores are LoadStoreQueue's. *)
ASSUME CoreAssumption ==
    /\ Instr = Word /\ Value = Word /\ RS_Instr = Word /\ RS_Value = Word
    /\ 0 \in Reg
    /\ Programs \subseteq [Word -> Instruction(Reg)]
    /\ \A p \in Programs, a \in Word : ~is_load(p[a]) /\ ~is_store(p[a])
    /\ FETCH_LATENCIES \subseteq Nat
    /\ CHECKPOINT_SIZE \in Nat \ {0}

ALU_LATENCY == 2
BRU_LATENCY == 2
SFU_LATENCY == 3

VARIABLES code,            \* program memory
          reg_file,        \* reg_file_
          PC,              \* PC_
          fetch_pending,   \* fetch_req_sent_ and fetch_pending_pc_
          icache,          \* the request in the instruction cache
          decode_queue,    \* decode_queue_
          issue_queue,     \* issue_queue_
          fetch_lock,      \* fetch_lock_
          exit_pending,    \* exit_pending_
          RAT,             \* RAT_
          checkpoints,     \* checkpoints_
          FUs,             \* ALU_, BRU_ and SFU_
          CDB,             \* CDB_
          flush,           \* flush_pending_, flush_rob_ and flush_pc_
          exited,          \* exited_
          stage            \* the part of the cycle that runs next

ROB       == <<store, head_index, tail_index, count, phase_bit>>
front     == <<PC, fetch_pending, icache, decode_queue, exit_pending>>
back      == <<reg_file, exited>>
renaming  == <<RAT, checkpoints>>
core_vars == <<code, front, issue_queue, fetch_lock, renaming, ROB, RS_vars, FUs, CDB, flush, back, stage>>

NoRequest == [sent |-> FALSE]
NoAnswer  == [busy |-> FALSE]
NoFlush   == [pending |-> FALSE]
EmptyBus  == [empty |-> TRUE]

FUType(instr) ==
    CASE is_branch(instr) -> "BRU"
      [] is_csr(instr)    -> "SFU"
      [] OTHER            -> "ALU"

Units == {"ALU", "BRU", "SFU"}

(* decode of project3 leaves no register to write to an instruction that names
   register 0. *)
writes(instr) == use_rd(instr) /\ instr.rd # 0

CoreInit ==
    /\ Init /\ RS_Init
    /\ code \in Programs
    /\ reg_file = [r \in Reg |-> 0]
    /\ PC = 0
    /\ fetch_pending = NoRequest /\ icache = NoAnswer
    /\ decode_queue = EmptyFifo /\ issue_queue = EmptyFifo
    /\ fetch_lock = NewVal(FALSE) /\ exit_pending = FALSE
    /\ RAT = EmptyTable(Reg) /\ checkpoints = NoCheckpoints
    /\ FUs = [u \in Units |-> NewUnit] /\ CDB = EmptyBus
    /\ flush = NoFlush
    /\ exited = FALSE
    /\ stage = "registers"

(***************************************************************************)
(* The instruction cache and the registers of the front end tick.          *)
(***************************************************************************)
registers_tick ==
    /\ ~exited
    /\ stage = "registers" /\ stage' = "units"
    /\ icache' = IF icache.busy /\ icache.wait > 0 THEN [icache EXCEPT !.wait = @ - 1] ELSE icache
    /\ decode_queue' = fifo_tick(decode_queue)
    /\ issue_queue' = fifo_tick(issue_queue)
    /\ fetch_lock' = val_tick(fetch_lock)
    /\ UNCHANGED <<code, PC, fetch_pending, exit_pending, renaming, ROB, RS_vars, FUs, CDB, flush, back>>

(***************************************************************************)
(* ALU::tick, BRU::tick and SFU::tick, with Core::update_branch.           *)
(***************************************************************************)
Latency(u) == CASE u = "ALU" -> ALU_LATENCY [] u = "BRU" -> BRU_LATENCY [] u = "SFU" -> SFU_LATENCY

execute_alu_op(input) ==
    alu_unit(code[input.instr], input.rs1_value, input.rs2_value, input.instr)

execute_br_op(input) == br_taken(code[input.instr], input.rs1_value, input.rs2_value)

NextOf(pc) == Wrap(pc + 1)

br_target(input) == IF execute_br_op(input) THEN execute_alu_op(input) ELSE NextOf(input.instr)

(* The registers that count cycles and instructions are left out: the others
   read as zero, and set_csr ignores what is written to them. *)
get_csr == 0

result(u) ==
    CASE u = "ALU" -> execute_alu_op(FUs[u].input)
      [] u = "BRU" -> NextOf(FUs[u].input.instr)
      [] u = "SFU" -> get_csr

(* BP::predict never predicts a branch as taken. *)
predicted_PC(pc) == NextOf(pc)

(* A flush already asked for gives way to that of an older branch only. *)
update_branch(target, pc, rob_tag) ==
    IF predicted_PC(pc) # target
    THEN /\ IF flush.pending => is_rob_younger(flush.rob, rob_tag)
            THEN /\ flush' = [pending |-> TRUE, rob |-> rob_tag, pc |-> target]
                 /\ fetch_lock' = val_write(fetch_lock, TRUE)
            ELSE UNCHANGED <<flush, fetch_lock>>
         /\ UNCHANGED checkpoints
    ELSE /\ checkpoints' = release(checkpoints, rob_tag)
         /\ UNCHANGED <<flush, fetch_lock>>

units_tick ==
    /\ stage = "units" /\ stage' = "commit"
    /\ FUs' = [u \in Units |->
                  fu_tick(FUs[u], Latency(u), IF FUs[u].input.valid THEN result(u) ELSE 0)]
    /\ IF completes(FUs["BRU"], BRU_LATENCY)
       THEN LET input == FUs["BRU"].input
            IN  update_branch(br_target(input), input.instr, input.rob_tag)
       ELSE UNCHANGED <<flush, fetch_lock, checkpoints>>
    /\ UNCHANGED <<code, front, issue_queue, RAT, ROB, RS_vars, CDB, back>>

(***************************************************************************)
(* commit: the head of the reorder buffer retires when it is complete.     *)
(***************************************************************************)
head_tag   == store[head_index].tag
head_instr == code[store[head_index].instr]

retiring == ~empty /\ store[head_index].ready

commit ==
    /\ stage = "commit" /\ stage' = "writeback"
    /\ IF retiring
       THEN /\ pop
            /\ IF writes(head_instr)
               THEN /\ reg_file' = [reg_file EXCEPT ![head_instr.rd] = store[head_index].result]
                    /\ RAT' = clear_mapping(RAT, head_instr.rd, head_tag)
                    /\ checkpoints' = clear_RAT_mapping(checkpoints, head_instr.rd, head_tag)
               ELSE UNCHANGED <<reg_file, renaming>>
            /\ exited' = is_exit(head_instr)
       ELSE UNCHANGED <<ROB, renaming, back>>
    /\ UNCHANGED <<code, front, issue_queue, fetch_lock, RS_vars, FUs, CDB, flush>>

(***************************************************************************)
(* writeback: what is on the bus goes to the stations and to the buffer.   *)
(***************************************************************************)
writeback ==
    /\ stage = "writeback" /\ stage' = "flush"
    /\ IF CDB.empty
       THEN UNCHANGED <<ROB, RS_vars, CDB>>
       ELSE /\ update_operands(CDB.rob_tag, CDB.value)
            /\ update(CDB.rob_tag, CDB.value)
            /\ CDB' = EmptyBus
    /\ UNCHANGED <<code, front, issue_queue, fetch_lock, renaming, FUs, flush, back>>

(***************************************************************************)
(* execute, first: pipeline_flush.                                         *)
(***************************************************************************)
ROB_invalidate(rob_tag) ==
    IF removed_by(rob_tag) = 0 THEN UNCHANGED ROB ELSE invalidate(rob_tag)

CDB_invalidate(rob_tag) ==
    CDB' = IF ~CDB.empty /\ is_rob_younger(CDB.rob_tag, rob_tag) THEN EmptyBus ELSE CDB

pipeline_flush ==
    /\ RAT' = restore(checkpoints, flush.rob, RAT)
    /\ checkpoints' = cut_checkpoints(checkpoints, flush.rob)
    /\ ROB_invalidate(flush.rob)
    /\ RS_invalidate(flush.rob)
    /\ CDB_invalidate(flush.rob)
    /\ FUs' = [u \in Units |-> fu_invalidate(FUs[u], flush.rob)]
    /\ decode_queue' = EmptyFifo
    /\ issue_queue' = EmptyFifo
    /\ exit_pending' = FALSE
    /\ fetch_lock' = val_write(fetch_lock, FALSE)
    /\ PC' = flush.pc
    /\ flush' = NoFlush

flush_stage ==
    /\ stage = "flush" /\ stage' = "bus"
    /\ \/ /\ flush.pending
          /\ pipeline_flush
          /\ UNCHANGED <<code, fetch_pending, icache, back>>
       \/ /\ ~flush.pending
          /\ UNCHANGED <<code, front, issue_queue, fetch_lock, renaming, ROB, RS_vars, FUs, CDB, flush, back>>

(***************************************************************************)
(* execute, second: the bus takes the result of the first unit that has    *)
(* one.                                                                    *)
(***************************************************************************)
Finished == {u \in Units : ~fu_empty(FUs[u])}

first_of(us) == CHOOSE u \in us : u = "ALU" \/ (u = "BRU" /\ "ALU" \notin us) \/ us = {"SFU"}

bus ==
    /\ stage = "bus" /\ stage' = "schedule"
    /\ IF CDB.empty /\ Finished # {}
       THEN LET u == first_of(Finished)
            IN  /\ CDB' = [empty |-> FALSE, rob_tag |-> FUs[u].output.rob_tag, value |-> FUs[u].output.value]
                /\ FUs' = [FUs EXCEPT ![u] = fu_pop(@)]
       ELSE UNCHANGED <<CDB, FUs>>
    /\ UNCHANGED <<code, front, issue_queue, fetch_lock, renaming, ROB, RS_vars, flush, back>>

(***************************************************************************)
(* execute, third: one after the other, the entries that have their        *)
(* operands and whose unit is free go to it.                               *)
(***************************************************************************)
unit_of(index) == FUType(code[RS_store[index].instr])

Schedulable == {i \in Busy : operands_ready(i) /\ ~fu_full(FUs[unit_of(i)])}

schedule(index) ==
    /\ stage = "schedule"
    /\ index \in Schedulable /\ \A i \in Schedulable : index <= i
    /\ LET e == RS_store[index]
       IN  FUs' = [FUs EXCEPT ![unit_of(index)] = fu_push(@, e.instr, e.rd_rob, e.rs1_data, e.rs2_data)]
    /\ RS_release(index)
    /\ UNCHANGED <<code, front, issue_queue, fetch_lock, renaming, ROB, CDB, flush, back, stage>>

scheduled ==
    /\ stage = "schedule" /\ stage' = "issue"
    /\ Schedulable = {}
    /\ UNCHANGED <<code, front, issue_queue, fetch_lock, renaming, ROB, RS_vars, FUs, CDB, flush, back>>

(***************************************************************************)
(* issue: rename, take a checkpoint at a branch, and wait in a station.    *)
(***************************************************************************)
at_tag(rob_tag) == store[rob_tag % ROB_SIZE]

(* Mutated: a complete result that has not retired is not looked at. *)
waits_for_always(used, r) == IF used /\ exists(RAT, r) THEN RAT[r] ELSE INVALID_ROB

waits_for(used, r) ==
    IF used /\ exists(RAT, r) /\ ~at_tag(RAT[r]).ready THEN RAT[r] ELSE INVALID_ROB

operand(used, r) ==
    CASE ~used \/ waits_for(used, r) # INVALID_ROB -> 0
      [] used /\ ~exists(RAT, r)                   -> reg_file[r]
      [] OTHER                                     -> at_tag(RAT[r]).result

structural_hazard == full \/ RS_full

issue ==
    /\ stage = "issue" /\ stage' = "decode"
    /\ IF fifo_empty(issue_queue) \/ structural_hazard
       THEN UNCHANGED <<ROB, RS_vars, renaming, issue_queue>>
       ELSE LET pc    == fifo_data(issue_queue)
                instr == code[pc]
            IN  /\ allocate(pc)
                /\ RAT' = IF writes(instr) THEN rat_set(RAT, instr.rd, next_tag) ELSE RAT
                /\ IF is_branch(instr)
                   THEN /\ free(checkpoints) # {}
                        /\ checkpoints' = save(checkpoints, next_tag, RAT')
                   ELSE UNCHANGED checkpoints
                /\ RS_issue([valid |-> TRUE, rd_rob |-> next_tag, instr |-> pc,
                             rs1_rob  |-> waits_for(use_rs1(instr), instr.rs1),
                             rs2_rob  |-> waits_for(use_rs2(instr), instr.rs2),
                             rs1_data |-> operand(use_rs1(instr), instr.rs1),
                             rs2_data |-> operand(use_rs2(instr), instr.rs2)])
                /\ issue_queue' = fifo_pop(issue_queue)
    /\ UNCHANGED <<code, front, fetch_lock, FUs, CDB, flush, back>>

(***************************************************************************)
(* decode: an exit ends the fetching.                                      *)
(***************************************************************************)
decode ==
    /\ stage = "decode" /\ stage' = "fetch"
    /\ IF fifo_empty(decode_queue) \/ fifo_full(issue_queue)
       THEN UNCHANGED <<decode_queue, issue_queue, exit_pending, fetch_lock>>
       ELSE LET pc == fifo_data(decode_queue)
            IN  /\ issue_queue' = fifo_push(issue_queue, pc)
                /\ decode_queue' = fifo_pop(decode_queue)
                /\ IF is_exit(code[pc])
                   THEN exit_pending' = TRUE /\ fetch_lock' = val_write(fetch_lock, TRUE)
                   ELSE UNCHANGED <<exit_pending, fetch_lock>>
    /\ UNCHANGED <<code, PC, fetch_pending, icache, renaming, ROB, RS_vars, FUs, CDB, flush, back>>

(***************************************************************************)
(* fetch: one request at a time; an answer for a PC that a flush has left  *)
(* is dropped.                                                             *)
(***************************************************************************)
fetching == ~fetch_lock.data /\ ~fifo_full(decode_queue) /\ ~exit_pending

(* Mutated: every answer is taken. *)
still_wanted_always(pc) == TRUE

still_wanted(pc) == pc = PC

send_request ==
    /\ \E latency \in FETCH_LATENCIES : icache' = [busy |-> TRUE, addr |-> PC, wait |-> latency]
    /\ fetch_pending' = [sent |-> TRUE, pc |-> PC]
    /\ UNCHANGED <<PC, decode_queue>>

take_answer ==
    LET current_PC == fetch_pending.pc
    IN  /\ icache' = NoAnswer
        /\ fetch_pending' = NoRequest
        /\ IF still_wanted(current_PC)
           THEN /\ PC' = predicted_PC(current_PC)
                /\ decode_queue' = fifo_push(decode_queue, icache.addr)
           ELSE UNCHANGED <<PC, decode_queue>>

fetch ==
    /\ stage = "fetch" /\ stage' = "registers"
    /\ \/ fetching /\ ~fetch_pending.sent /\ send_request
       \/ fetching /\ fetch_pending.sent /\ icache.wait = 0 /\ take_answer
       \/ /\ ~fetching \/ (fetch_pending.sent /\ icache.wait > 0)
          /\ UNCHANGED <<PC, fetch_pending, icache, decode_queue>>
    /\ UNCHANGED <<code, issue_queue, exit_pending, fetch_lock, renaming, ROB, RS_vars, FUs, CDB, flush, back>>

(* The simulator has returned, at the end of the cycle with the exit. *)
Done == exited /\ stage = "registers" /\ UNCHANGED core_vars

CoreNext ==
    \/ registers_tick
    \/ units_tick
    \/ commit
    \/ writeback
    \/ flush_stage
    \/ bus
    \/ \E index \in Station : schedule(index)
    \/ scheduled
    \/ issue
    \/ decode
    \/ fetch
    \/ Done

(* ProcessorImpl::run ticks the platform until the exit. *)
CoreSpec == CoreInit /\ [][CoreNext]_core_vars /\ WF_core_vars(CoreNext)

------------------------------------------------------------------------------
(* The youngest of the n oldest instructions of the window that writes r. *)
LastWriter(r, n) ==
    LET ks == {k \in 0 .. n - 1 : LET i == code[store[Slot(k)].instr] IN writes(i) /\ i.rd = r}
    IN  IF ks = {} THEN INVALID_ROB ELSE store[Slot(Max(ks))].tag

(* How far from the head the instruction with this tag is. *)
PlaceOf(rob_tag) == (rob_tag - head_tag) % (2 * ROB_SIZE)

(* The alias table names the youngest writer of each register that is in
   flight, and a checkpoint the youngest up to its branch: after any commits,
   wrong paths and restores, and although tags come round again (issue,
   commit's clear_mapping and clear_RAT_mapping, pipeline_flush). *)
RatIsLatestWriter ==
    /\ \A r \in Reg : RAT[r] = LastWriter(r, count)
    /\ \A c \in CheckpointIndex : checkpoints[c].valid =>
          \A r \in Reg : checkpoints[c].rat[r] = LastWriter(r, PlaceOf(checkpoints[c].rob_tag) + 1)

(* The branches that have not been found right or been flushed behind yet. *)
OpenBranches ==
    {RS_store[i].rd_rob : i \in {b \in Busy : unit_of(b) = "BRU"}}
        \cup (IF FUs["BRU"].input.valid THEN {FUs["BRU"].input.rob_tag} ELSE {})
        \cup (IF flush.pending THEN {flush.rob} ELSE {})

(* Each branch that may still be mispredicted has one checkpoint and nothing
   else has: none is leaked, and none is shared, so that a flush restores its
   own branch's table (issue, update_branch, pipeline_flush). *)
CheckpointsAreOwned ==
    LET saved_at == {c \in CheckpointIndex : checkpoints[c].valid}
    IN  /\ {checkpoints[c].rob_tag : c \in saved_at} = OpenBranches
        /\ Cardinality(saved_at) = Cardinality(OpenBranches)

(* Where a result is, or will be made, under its tag. *)
Carriers ==
    {<<"station", i, RS_store[i].rd_rob>> : i \in Busy}
        \cup {<<"input", u, FUs[u].input.rob_tag>> : u \in {v \in Units : fu_full(FUs[v])}}
        \cup {<<"output", u, FUs[u].output.rob_tag>> : u \in Finished}
        \cup {<<"bus", 0, CDB.rob_tag>> : b \in {x \in {CDB} : ~x.empty}}

(* Each instruction of the window that is not complete is in exactly one place
   on its way to completion, and nothing else is on its way: no result is lost
   between stations, units and bus, and a flush leaves none that could
   complete an instruction that has been given its tag again (execute,
   pipeline_flush, FunctionalUnit::invalidate). *)
OneResultEach ==
    LET expected == {store[i].tag : i \in {j \in LiveIndices : ~store[j].ready}}
    IN  /\ {c[3] : c \in Carriers} = expected
        /\ Cardinality(Carriers) = Cardinality(expected)

(* An operand of the instruction with this tag: it waits for the last writer
   of its register while that is not complete, and has its value otherwise. *)
RightOperand(rob_tag, r, waits, data) ==
    LET writer == LastWriter(r, PlaceOf(rob_tag))
    IN  CASE writer = INVALID_ROB -> waits = INVALID_ROB /\ data = reg_file[r]
          [] writer # INVALID_ROB /\ at_tag(writer).ready ->
                 waits = INVALID_ROB /\ data = at_tag(writer).result
          [] OTHER -> waits = writer

(* What a station waits for or holds is what its registers will be when all
   older instructions have retired: a result is not missed between rename and
   broadcast, nor taken from an instruction that is younger or was flushed
   (issue, writeback, update_operands). *)
StationsHaveOperands ==
    \A i \in Busy :
        LET e == RS_store[i]
            instr == code[e.instr]
        IN  /\ use_rs1(instr) => RightOperand(e.rd_rob, instr.rs1, e.rs1_rob, e.rs1_data)
            /\ use_rs2(instr) => RightOperand(e.rd_rob, instr.rs2, e.rs2_rob, e.rs2_data)

(* The oldest instruction that has not retired. *)
Queued(q) == (IF q.popped THEN <<>> ELSE q.buffer) \o q.pushed

NextPC ==
    LET waiting == Queued(issue_queue) \o Queued(decode_queue)
    IN  IF ~empty THEN store[head_index].instr ELSE IF waiting # <<>> THEN Head(waiting) ELSE PC

ISA == INSTANCE SequentialISA
           WITH Counters <- {}, pc <- NextPC, regs <- reg_file, mem <- [a \in Word |-> 0]

(* project3's README.md: "a cycle-level out-of-order RISC-V (RV32I) simulator".
   Executed out of order and along wrong paths, with registers renamed and
   restored, instructions retire with the effect they have alone and in program
   order (Core::tick). *)
ImplementsISA == ISA!Spec

(* Until the exit has retired, instructions go on retiring: nobody waits for
   a result that does not come, or for a station, a checkpoint or a lock that
   nobody gives back (Core::tick). *)
KeepsRetiring == []<>(exited \/ (stage = "commit" /\ retiring))
==============================================================================
