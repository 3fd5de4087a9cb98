# Verification of the processor simulators

The repository holds three cycle-level simulators of a 32-bit RISC-V processor
in C++, under `src/projects/`:

- **project1**: a five-stage in-order pipeline that stalls fetch behind every
  instruction and forwards operands in decode;
- **project2**: the same pipeline with two-phase pipeline registers, forwarding
  in execute and a gshare branch predictor;
- **project3**: an out-of-order core with a reorder buffer, reservation
  stations, a load/store queue, two caches and a memory. Several bodies of this
  one are left as `TODO` in the source.

Some code is there three times (`common/`, `decode.cpp`, the ALU). A definition
is mapped to one copy; differences that matter are noted below.

## 1. Inventory

### The parts, their state and their operations

| part | code | state | operations | hard to get right | what makes it correct |
|---|---|---|---|---|---|
| five-stage core | `project1/src/core.cpp`, `execute.cpp`, `pipeline.h` | register file, PC, four registers between stages, the fetch lock, exit flag | the five stages, run from write-back to fetch in each `Core::tick` | stages see what later ones did in the same cycle; a flush must release the lock of the instruction it drops; JAL acts before the hazard check | the effect of each instruction is the one it has alone and in order; the core goes on to the exit and not beyond |
| predicting core | `project2/src/core.cpp`, `execute.cpp`, `pipeline_reg.h` | the same, and two halves of each pipeline register, the stall flag of the cycle | `PipelineReg::tick` of the four registers, then the five stages | the prediction of a branch is whatever was fetched next; forwarded values must be final; a load-use stall | the same, with any prediction |
| predictor | `project2/src/gshare.cpp` | BTB, BHT, BHR | `predict` (fetch), `update` (a branch resolved in execute) | aliasing in both tables, saturation | never redirects what nobody checks |
| decoder, ALU, trace | `*/src/decode.cpp`, `execute.cpp`, `ALU.cpp`, `BRU.cpp` | none | `decode`, `op_string`, `alu_unit`, `branch_unit` | five immediate formats put together in two ways, signs, widths, shifts, tables kept twice | agrees with RV32I |
| reorder buffer | `project3/src/ROB.cpp`, `types.h` | ring of entries, head, tail, count, phase bit | `allocate` (issue), `update` (result bus), `invalidate` (flush), `pop` (commit) | wraps, tags that come round again, stale results, flushes across the wrap | a window of instructions in program order |
| data cache | `project3/src/cache.cpp`, `cache_repl.h` | tags, lines, LRU order, one outstanding miss, one buffered answer, four channels | `Cache::tick`: answer, fill, write, read hit, read miss | full channels, writes racing a fill, the victim chosen early | looks like an array of bytes that serves in order |
| memory | `project3/src/memory.cpp` | bytes, two ports | `Memory::tick`, one request a port | back-pressure | in order |
| load/store queue and unit | `project3/src/LSQ.cpp`, `LSU.cpp` | entries Pending, Issued, Writeback, Committed, Voided | `allocate`, `tick`, `update_address`, `update_data`, `commit`, `invalidate` | forwarding between entries in any order, answers to loads that were flushed, stores that outlive their tag | a load gets the last older store's value |
| reservation stations, result bus, alias table, checkpoints, units | `project3/src/RS.cpp`, `CDB.h`, `RAT.h`, `checkpoints.h`, `FU.h` | entries waiting for operands, register mappings, copies of the mappings for each branch | issue, dispatch, writeback, flush | a result, a flush and a commit in one cycle; tags that come round again | an operand comes from the last older writer |
| front end | `project3/src/core.cpp`, `BP.cpp`, `common/fifo_reg.h`, `val_reg.h` | PC, one fetch in flight, two queues, the fetch lock | `fetch`, `decode`, `update_branch` | a flush while a fetch is in flight; exit on a wrong path | instructions of the right path, each once |
| platform | `project3/common/simobject.h`, `ringqueue.h` | objects, packets in flight, places reserved in channels | `tick`, `send`, `reset` | delays, packets for the same cycle, reset with packets in flight | in order, never over capacity |
| memory devices | `*/common/mem.cpp` | pages, address ranges | `read`, `write`, image loading | ranges and page borders | the last byte written |

### How they interact

`ProcessorImpl::run` calls `SimPlatform::tick` until `Core::check_exit`; the
platform ticks every object once, in the order of their creation. Inside a core
the stages call each other's state directly (there are no threads): a branch in
execute empties the register behind decode and writes the PC, decode sets the
stall that fetch reads, the load/store queue calls its unit and the unit calls
back. In project3 the cache, the memory and the load/store unit talk through
channels of two packets; a packet sent with delay 0 is there for the objects
that tick later in the same cycle. `Core::tick` runs commit, writeback, execute,
issue, decode, fetch in that order; a mispredicted branch leaves a flush for the
next `execute`.

Nothing is persisted and nothing is lost on the way, so crash and delivery
hazards do not arise. What is hard here is order within a cycle, state that is
stale one cycle later, indices and tags that wrap, and back-pressure.
`PROJECT.json` lists the hazards, each at its line.

## 2. Modules

| module | models | role |
|---|---|---|
| `Alu`, `Decode` | the arithmetic; what `decode` says of each operation, as the pipelines' models need it | operators |
| `InstrWord` | instruction words, their fields, the extensions of `bitmanip.h` | operators |
| `InstrDecode`, `InOrderDecode` | `Core::decode` of project2 and project1, from the bits of a word | operators |
| `InstrExecute` | `Core::decode` of project3 where it differs; one instruction on each core, from its word to its register, its next PC, its control register or its loaded value | operators |
| `InstrTrace` | `op_string` and the operands a trace line lists | operators |
| `RV32I` | the manual: encoding and meaning of each instruction | reference |
| `GShare`, `GShareSystem` | project2's predictor; the predictor trained by any branches | component |
| `GSharePipeline` | project2's core with the predictor, and its pipeline register (`pipeline_reg.h`) | composition |
| `InOrderPipeline` | project1's core | component |
| `SequentialISA` | the machine a program sees: one instruction at a time | abstract specification of the three cores |
| `RobTag` | tags of the reorder buffer and `is_rob_younger` | operators |
| `ReorderBuffer` | project3 `ROB.cpp`, `ROB.h`, the pop in `Core::commit` | component |
| `InstrWindow` | what the ring promises: a sequence of instructions with their results | abstract specification |
| `ReservationStation` | `RS.cpp`, `RS.h`: entries and the stack of free ones | component |
| `RegisterAlias` | `RAT.h`, `checkpoints.h` | operators |
| `FunctionalUnit` | `FU.h` and the guards of the units' ticks | operators |
| `ClockedRegs` | `fifo_reg.h`, `val_reg.h` | operators |
| `OutOfOrderCore` | project3 `core.cpp` and `ooo.cpp` around the last six: every stage of the cycle | composition |
| `LoadStoreQueue` | project3's load/store queue and unit, on the window that `ReorderBuffer` implements and the `FlatMemory` that `Cache` implements | composition |
| `MemoryOrder` | what a program is promised of loads and stores | abstract specification |
| `Cache` | project3's data cache, memory port and channels | composition |
| `FlatMemory` | an array of bytes that serves requests in order | abstract specification |
| `SimPlatform` | channels, reservations, events and the timing wheel of `simobject.h` | operators on the platform's state |
| `Ram` | `RAM` of `mem.cpp`: pages, the last page, both loaders | operators |
| `MemorySystem` | `memory.cpp` with both ports, the caches' side of them, over the last two | composition |
| `PortedMemory` | one array of bytes behind ports that serve in order | abstract specification |
| `InstructionProofs` | lemmas on words, bits and instructions that both pipelines' proofs use | proofs |
| `OutOfOrderCoreProofs` (with `ReorderBuffer` and `ReservationStation`), `CacheProofs`, `MemorySystemProofs`, `LoadStoreQueueProofs`, `GShareProofs`, `GSharePipelineProofs`, `InOrderProofs` | the theorems about the module each is named for | proofs |
| `MC...` | constants for TLC; `MCPrograms` holds the programs the in-order pipelines run; `MCLoadStoreQueue` keeps a program to one mix of instructions; `MCInstructions` runs one instruction after the other | model checking |

Variables and operators keep the names of the source where there is one
(`tail_index`, `is_rob_younger`, `check_data_hazards`, `pending_rsp`). One action
is one method: of the ring, `allocate`, `update`, `invalidate`, `pop`; of a
core, each stage; of the cache, the whole of `Cache::tick`, with its parts as
disjuncts; of the load/store queue, one object's turn in a cycle. A variable
`stage` or `tick` holds the place in the cycle, so the order within a cycle is
the order of the code and cannot be chosen by the model. `LoadStoreQueue` is the
exception: it leaves open how many cycles the cache, the units and the bus take,
and so the order of its actions. The statistics and the debug output are left
out. Where an object is called in the middle of what another does (tables,
units, channels, pages), its methods are operators from its state to its state,
and the caller's action puts the result in the primed variable.

An operator whose comment begins with `Mutated:` is a plausible mistake in the
operator below it. No model uses it: put in the other's place, it violates the
property that `PROJECT.json` names with it, which shows that the property would
notice.

### What is abstracted

- A PC counts instructions where the code counts bytes (`PC >> 2`, `PC + 4`).
- In the cores an instruction is a record of its operation and fields. That
  `decode` makes of a word what those models assume is a part of
  `DecodesTheEncoding`.
- Memory in the pipelines is one word for each address. The place of a byte or
  half word is in `Cache` and `LoadStoreQueue`, its extension in `InstrExecute`.
- The cores' shifts by the word's width or more are undefined in C++; the
  machines the simulators are built for take the low five bits of the count, and
  so does `alu_shifted` in `InstrExecute`. `ResultsAreRV32I` says nothing of another
  build in that case: that counts above 31 come out right rests on this.
- The pipelines' registers hold `XLEN` bits with wrapping arithmetic; XLEN is a
  constant.
- CSRs that ignore writes are all one, `MSTATUS`, and read as zero. The programs do
  not read the counters of cycles and instructions, which only `GSharePipeline`
  models. What those read depends on stalls: `get_csr` is evaluated in decode, and the number of retired
  instructions is the reader's position less the instructions in front of it,
  fewer behind a bubble. The comment at project2 `execute.cpp:242` calls it
  stall-independent.
- `get_csr` and `set_csr` abort the simulation for an address they do not know
  (project1 `execute.cpp:281-314`, project2 `execute.cpp:266-289`). The programs name
  known ones only, and the aborts are left out.
- `PipelineReg` data that nobody has pushed is not initialised in the code; in the model
  it is a fixed record. No valid bit is set before a push, and the one reader
  that ignores the valid bit is covered by `PredictionIsBehindBranch`.
- The body of `ReorderBuffer::update` is a TODO. Its guard is the code's, and it
  is modelled to set what `Core::commit` reads: `ready` and the value.
- In `OutOfOrderCore` the reads of operands at issue, the stations' update, the
  bus, the scheduling and `pipeline_flush` are TODO. They do what the comments
  and hints in their places say: the bus takes the first unit's result in the
  order ALU, BRU, SFU, entries are scheduled by index. `BP::predict` is a
  TODO that returns false, and is modelled as that. The instruction cache is a
  latency out of `FETCH_LATENCIES`.
- The inputs of the functional units are not initialised in the code, and `reset`
  does not clear them: they start empty here, as on zeroed memory.
- In `MemorySystem` a cache is its side of the memory port: one read outstanding,
  one packet a cycle. All packets of a behaviour take the same latency, which in
  the code is 0: every sender of project3 passes no delay. The wheel, which other latencies
  use, is checked as a part of the library alone. `LinkedList::push_back` inserts before the last
  element, as in the code: with a latency above 0 two packets sent for one channel
  in one cycle would change places, but nobody sends two.
- The LRU time stamps are an order of the ways: only their order is ever used.
- The byte enables of a write are its first bytes, as `LSU::issue_store` builds
  them.
- In `LoadStoreQueue` the reorder buffer is a sequence with consecutive tags (what
  `ImplementsWindow` and `TagsAreConsecutive` establish), and a reservation
  station is the flag `waiting`. A branch stands for every instruction that uses
  neither queue nor unit. A result goes from the unit over the bus to the reorder
  buffer in one step; what a flush does to it on the way is the same in the unit
  and on the bus. A loaded value is its bytes: sign extension is left out, and
  so are stores to the console. `head_index_` is left out: nothing but its own
  update reads it.
- `is_ready_store`, `is_ready_load` and the condition of load-to-load forwarding
  are TODO in the source. They are modelled from the comments above them and from
  the assertions in `LoadStoreQueue::tick` and `analyze_load_dependencies`. So
  are the calls to queue and unit in `Core::issue`, `commit` and
  `pipeline_flush`.

## 3. The runs

| run | what it asks | bounds, and why they are enough |
|---|---|---|
| `pipeline` | the prediction compared is the branch's own; a forwarded value is final; the core implements `SequentialISA`; it never hangs | all programs of four instructions over nine (arithmetic, load, store, two branches, both jumps, CSR read), and one for every operation on operands of both signs, also with destination x0; 3-bit words, so that programs loop and addresses wrap; predictor off and on, with tables small enough to alias. Five stages hold no more than four neighbours together. |
| `in_order` | the fetch lock has an owner; nothing follows the exit; only decode waits; implements `SequentialISA`; never hangs | the same programs |
| `gshare` | types (the counters saturate); only branches are redirected; no branch goes to another's target | two BTB rows for eight PCs, so all rows are shared, and four counters with two bits of history |
| `instructions` | a word decodes to what was assembled; results, next PCs and control registers are RV32I's; loads are extended; the trace names the instruction | words of 32 bits for encodings; each immediate bit alone, none and all; registers that show swapped fields; six values at the ends of the ranges; the three cores side by side |
| `ooo` | the valid slots are the window; tags count up; comparison is program order; the free list; alias table and checkpoints name the last writers; checkpoints are not leaked; each result is made once; stations wait for or hold the right value; the ring implements `InstrWindow`, the core `SequentialISA`; it never hangs | programs of four instructions that rename three registers, jump, loop and mispredict, and one for every operation; four slots, two stations and two checkpoints, as many of these as stations like `config.h`: the ring wraps and its phase flips, tags come round, and each of the three is full at times; fetch takes one or three cycles, so that flushes meet it |
| `cache` | a held line, and one on its way, is what memory will hold; no line twice; a fill is expected; implements `FlatMemory`; requests keep being served | two sets of two ways, three lines for the one set, so lines are evicted and come back; channels of two packets as in the code; words of two bytes, lines of two words. The memory serves a request in every cycle, so the channels to and from it never fill: those guards are in the model but the code as it is never meets them |
| `platform` | a place is reserved for each packet in flight; answers are in time; implements `PortedMemory` | a wheel of two cycles and latencies 0, 1 and 3: at once, within a turn and beyond it; pages of two blocks, the second page not there at first; a binary image and a hex file with both kinds of offset records |
| `lsq` | the counter of slots; every slot has an owner; an answer finds its slot; implements `MemoryOrder`; the queue empties | either loads of a byte, stores of the word around it, and branches; or loads of a word, two stores of a byte in it, without branches. Eight tags, at most three instructions in flight, of which a voided load that waits for its answer counts as one (`FewInFlight`), three slots, channels of one packet: tags wrap and are given again beside a voided load, slots are reused out of order, a second flush comes while the answer of the first is out, and a load has two stores to be forwarded from or wait for. `TimelySpec` leaves out the steps of `TagMisread` and `StoreOvertaken`, see below |
| `csr_forwarding` | must fail: `ImplementsISA` for programs with CSRRW | three instructions, all programs of four |
| `cache_bytes` | must fail: `ImplementsFlatMemory` for bytes at the end of a line | reads and writes of one byte at offsets 1 to 3 |
| `lsq_second_flush` | must fail: `AnswersHaveTheirSlot` when no step is left out | two branches and a load |
| `lsq_old_store` | must fail: `ImplementsMemoryOrder` when a committed store waits long | a window of two, so that few instructions make it move on; the queue sends what it can before anything else happens |

The checked programs of `pipeline` and `in_order` contain CSR instructions only
where the ALU result equals the old value of the register, so that the first
finding below does not hide everything else.

`LoadStoreQueue` has every step of the code. Two comparisons of tags in it are made as
if both were in the window, though voided loads and committed stores stay in the queue
after they have left it, and at three kinds of steps that tells:

- `TagMisread`, in two forms: a flush takes a voided load to be younger than its
  branch and frees the slot that the answer comes to (`frees_voided`); a commit finds
  another entry with the head's tag before the head's own, a voided load or a store that
  has waited for a lap (`commits_another`);
- `StoreOvertaken`: an instruction is issued while a committed store waits that is
  `ROB_SIZE` older or more, and so does not compare as older.

The code keeps none of them from happening. `lsq` checks all behaviours without them:
instructions are issued and flushed beside voided loads, tags and slots are given
again while an answer is out, and all that a second flush may not do is to
take the voided load for its own. `lsq_second_flush` leaves out nothing and fails by
`frees_voided`; `lsq_old_store` leaves out misread tags and fails by `StoreOvertaken`. That
`AnswersHaveTheirSlot` and `EntriesAreOwned` break at a misread tag and at
nothing else is proved (`OnlyMisreadTags`). `CountIsRight` needs no such
exception: its run has the same bounds, its proof has none.

### What the failing runs show

1. **A CSR instruction forwards the wrong value** (`csr_forwarding`).
   `data_forwarding` (project2 `core.cpp:244`) takes the ALU result from EX/MEM,
   which for a CSR instruction is the value to write to the control register;
   what rd gets is the old value (`execute.cpp:212`). The instruction right
   behind it, if it uses rd, computes with the wrong one. Project1 has the same
   pattern (`core.cpp:203`).
2. **Bytes at the end of a line read as zero** (`cache_bytes`).
   `read_word_from_line` (project3 `cache.cpp:244`) gives 0 when the four bytes
   from the requested one reach over the line, and `write_word_to_line` skips the
   held line in the same case.
3. **A second flush frees a slot that waits for an answer** (`lsq_second_flush`).
   `LoadStoreQueue::invalidate` (`LSQ.cpp:357`) keeps entries that are Issued, and
   clears those an earlier flush made Voided. The answer then finds a free slot,
   whose instruction `LSU::tick` dereferences, or another load's. Related, at
   `LSQ.cpp:321`: `find_by_rob` may find a voided entry under a tag that was given
   again, and `commit` then frees that one and forgets the store it was meant for:
   `commits_another`, which the passing run leaves out.
4. **A flush erases a committed store** (`lsq_old_store`). The store's tag outlives
   its window: more than `ROB_SIZE` instructions later it counts as younger than
   a branch (`LSQ.cpp:355`).

### Also seen while modelling

- `CheckpointsAreOwned` says which branches hold a checkpoint: those in the
  stations and the one in the branch unit. That can be one more than there are
  stations, and `config.h` gives both eight; `Core::issue` aborts when none is
  free. `WhenSaveFails` says when, for any sizes: at a branch behind as many
  unresolved branches as there are checkpoints, so with eight of both when seven
  stations hold a branch and the unit works on one more. The programs of the run
  fill both its checkpoints and never need a third. A CSRRW with three
  branches on its result behind it does: two wait in the stations, the result sends the
  first one to the unit, and the third is issued before that is done. Eight take
  an operand that is slower, a load's for instance, and loads are not in that model.
  The check for hazards at the top of `Core::issue` is a TODO; it is modelled
  for the ring and the stations, and could count checkpoints as well.
- project1's README asks for the zmmul extension, and its ALU and trace know the
  multiplications, but `decode` looks at func7 for two values only and never yields one.
- JALR to an odd address: project1 clears the low bit of the target, project2 and
  project3 do not. `ResultsAreRV32I` excludes it for those two.
- project1 leaves func7 above the count of an immediate shift; the shift of the
  host takes the low five bits and hides it.

### Fairness

The simulators run in one thread: `ProcessorImpl::run` ticks the platform until
the program has exited, so `WF_vars(Next)` is what the code guarantees and all
that the pipelines and the out-of-order core need: the stages are run in turn,
and whatever latency the instruction cache takes is finite. In `Cache` the environment may also leave the load/store
unit busy in a cycle; `SF_vars(LSU_takes)` says that its output is free
again and again, as the bus takes a result in every cycle (`Core::execute`). No
fairness is assumed of the requests: `KeepsServing` allows them to stop.
In `LoadStoreQueue` it is `WF_vars(Proceed)`: the machine goes on with what it has;
new instructions and mispredictions may come or not.

No passing run has a deadlock by TLC's check; a finished program
stutters in `Done`, for the simulator has returned.

## 4. The proofs

All theorems hold for every value of the constants that satisfies the named
assumptions. Where a theorem has a further hypothesis, it is a formula over constants,
which TLC evaluates on the passing run, or, for the load/store queue, names the steps that a
behaviour does not take.

**Reorder buffer** (first part of `OutOfOrderCoreProofs`), for every size of the ring. The inductive
invariant says that the head and the tail are `count` apart, that a slot is
valid exactly when its distance from the head is less than `count`, and that the
tag in a valid slot is the head's tag plus that distance, modulo twice the size;
the phase bit is then determined. None of the checked invariants is inductive
alone: the flush is only right because tags and distances agree, and tags agree
only because the valid slots are the window. The last part shows that
each operation maps to one of `InstrWindow` or to a stutter.

**Predictor** (`GShareProofs`): a valid row's index and tag name a branch; since
index and tag together determine the PC, a hit at a PC that is no branch is
impossible. For the same reason a row that a branch hits was last written by that
branch, and holds its target if it has only one (`SteadyBranchesKeepTheirTarget`).

**The five-stage pipelines** (`InOrderProofs`, `GSharePipelineProofs`, with the
arithmetic in `InstructionProofs`), for every program, memory, register set and
word size, and in project2 with every size of the predictor's tables:

- Control first. In project1 `OnlyDecodeWaits` follows the place in the cycle;
  `NothingBehindExit` and `FetchLockHasOwner` need to know that an exit in flight
  keeps the lock, which needs that nothing follows it, which needs that the
  registers in front have been emptied, so they are one invariant (`ExitInv`). In
  project2 the corresponding `ControlInv` says which halves of the pipeline
  registers are full at which place of the cycle (`Halves`), that nothing is
  behind an exit, and that a branch in EX has its successor in `if_id`
  (`FetchedBehind`). From the last, `PredictionIsBehindBranch`.
- Then the path (`PathInv`): each register holds the instruction that the one
  ahead of it leads to, or, behind a branch, what was predicted; only branches
  hit the BTB, so behind anything else it is the next one.
- Then the data (`DataInv`): a decoded operand is the register's, or that of an
  instruction ahead that will still be forwarded; a result in EX/MEM or MEM/WB is
  what the instruction has on the registers as they will be by then. From it,
  `ForwardedIsWritten`.
- `ImplementsISA` maps a step of the memory stage, where stores take effect, to
  one of the sequential machine whose registers already have what MEM/WB will
  write (its `Pending`), and every other stage to a stutter.

Refinement and `ForwardedIsWritten` need `CsrsForwardRight`: the value that a CSR
instruction forwards is the one it writes. The code does not ensure it, which is
the first finding (`csr_forwarding` refutes `ImplementsISA` without it), and
`MCInOrderPipeline` and `MCGSharePipeline` assume it, so TLC confirms it of the
programs of the passing runs.

**Reservation stations** (in `OutOfOrderCoreProofs`): the stack of indices is
injective, what is above its top are the free entries, and the top counts the
entries in use. `release` needs the count to know that the top is above zero;
the rebuild after a flush needs that the free and the used indices together are
as many as there are entries, so cardinalities carry that proof.

**Out-of-order core** (`OutOfOrderCoreProofs`), for every number of stations, slots
and checkpoints, every register set and word size, every latency of the instruction
cache and every program without loads and stores (`CoreAssumption`, which says
what instructions and values are and leaves loads and stores to `LoadStoreQueue`).

- The argument is about the window, the sequence that the ring implements. What the
  core keeps about an instruction is said in terms of its place there: its operands
  are those of the last older writers (`Reads`), its result and its successor follow
  from them (`Gives`, `Leads`). The window does four things only. It grows at its
  end, an instruction completes, what is behind a branch is cut off, the first one
  leaves; lemmas about windows say what each of these leaves right, and one
  lemma for each step of the core applies them.
- The invariant (`CoreInv`) is one formula, for the parts hold each other up: an
  operand is right because the alias table was right at issue (`TableIs`) and because
  the result it waits for comes once (`CarriersAreRight`); the table is right after a
  flush because the checkpoint was kept right by every retirement since
  (`SavedIs`), and is there because the branches that are still open have one
  each (`CheckpointsAreRight`); a result comes once because a flush leaves none on
  its way for a tag that is given again; and the tags compare as program order
  because the ring is the window. `RatIsLatestWriter`, `CheckpointsAreOwned`,
  `OneResultEach` and `StationsHaveOperands` follow from it.
- It also shows that the guards the callees rely on hold: the ring's `update` and
  `invalidate` get the tag of an instruction that is there. Whether `save` finds a
  checkpoint is another matter: no two carriers have the same tag, so the checkpoints in use
  are as many as the branches in stations and unit, and `WhenSaveFails` follows by
  counting them, for more checkpoints than stations, as many or fewer.
- For `ImplementsISA` the invariant adds the path (`PathInv`): behind each instruction of
  the window, and of the queues in front of it, comes the one it leads to, or what was
  predicted, as long as it is a branch that has not been found right. The head
  has nothing older than itself, so its operands are the register file's and its
  branch has been decided: its retirement is a step of the sequential machine, and every
  other step of the core a stutter.

**Cache** (`CacheProofs`): `NoLineTwice` holds because the line that is
outstanding is in no way of its set from the miss to the fill, as nothing is
looked up in between; `FillIsExpected` because there is at most one fetch in the
channel to the memory and none while a line is on its way back. Neither needs
a bound on sets, ways, lines or channels. For `LinesAgreeWithMemory` and the
refinement of `FlatMemory` the invariant (`CacheInv`) adds that a held line is one
of memory's (`KnownLines`), that the outstanding miss is for the read that comes
first in the queue (`MissIsRead`), and that nothing is behind a fetch in the
channel to the memory (`FetchIsLast`): a write that came after it would be in
memory and not in the line that comes. Both need `RequestsFit`, that no request
reaches over the end of its line with the word around it; `MCCache` assumes it of
the passing run's requests, and `cache_bytes` shows what happens without.

**Memory and platform** (`MemorySystemProofs`), for every capacity of a channel, size
of the timing wheel, size of a page, latency, set of requests and program:
`ReservationsAreInFlight`, `AnsweredInTime` and the refinement of `PortedMemory`. The argument is about the view of a channel (`View`): what has
arrived, what is reserved, what was sent in this tick, and what is due in one, two, ...
cycles. `SendEffect`, `PopEffect`, `FireEffect` and `AdvanceEffect` say what each
operation of the platform does to the view of its channel, and that it does nothing to
the others; behind them the wheel, the lists and their order are no longer needed.

- `push_back` puts a new event before the last one. That this never reorders a
  channel needs that no two packets of one channel are due in the same cycle, and that
  the list of a tick has at most two events, for different channels: this is part of the
  invariant (`ChanOk`, `Ready`, `ImmOk`) and follows from who ticks when.
- An event's bucket is the clock plus the cycles it waits, modulo the wheel, and the
  bucket of the clock is searched in every cycle (`RegOk`): so nothing is early, however
  many turns it waits, and nothing stays behind.
- `PortOk` is the invariant of a port. Its data are all the requests and all the
  answers, arrived or not (`All`): at most one is a read, nothing is asked
  behind it, and a port that waits has its read or its answer somewhere
  (`Order`). `Ages` gives the age of the read by where it is: the cycles its packet
  still waits, or its place in the memory's queue, which the writes ahead of it leave
  one in each cycle.

For the refinement (`PortedRefinement`) the invariant (`RefInv`) adds that every packet
bound for the memory is one of the port's requests and that `ram` is pages of the right
size (`DataOk`); nothing is needed of the note of the last page, which is only used
for the index it has (`PageOf`).

- `byte_of` is the byte at an address, in a page or, before there is one, in a new one.
  `get` changes no byte, whatever pages it makes (`GetByte`); a write changes
  the one it is for (`WriteByte`). The loops over a block are counted up (`UpTo`), so
  `read`, `write` and the service of a port do the obvious thing to `byte_of` (`ReadIs`,
  `Stored`, `TurnBytes`).
- At first the bytes are the program (`LoadersAreRight`). `image_byte` and `hex_byte` say,
  without loops, what the two images hold; `ProgramAssumption` only says that `Program` names
  that, and that the two files of a program agree where there are addresses.
- A tick of the memory is `Serve` of the ports at which something has arrived
  (`ServeIs`). The instruction port, which is served first, only reads, so both
  read before anything is written. A request is asked when its cache sends it and an
  answer taken when the cache pops it; every other step is a stutter.

**Load/store queue** (`LoadStoreQueueProofs`), for every number of slots, size of
ring and window, capacity of the channels and program.

`CounterIsRight` holds of every behaviour, misread tags and overtaken stores
included: `release_entry` is only called on slots in use and `allocate` only finds a
free one, and `CounterInv` says no more than that the packets name slots. (An
answer that finds its slot free stops the program, where the model does not take it; one
that finds another entry there is taken, where an assertion would stop it.)

`OnlyMisreadTags` says in which behaviours slots and instructions own each other and a
load that was sent has one request or answer on its way: in those with no
`TagMisread` step, and no others. That each such step breaks it is
`MisreadsTell`. That nothing else does is the inductive invariant (`IInv`):

- `OwnerInv`: an instruction in flight has its slot, under its tag, in a state that
  fits (waiting, sent, ready);
- `LeftInv`: a slot whose instruction is gone is a committed store's or a voided
  load's, whatever tag it has;
- `UnitInv`: what the unit takes in or gives out belongs to an instruction
  that waits for it;
- `ChannelInv`, `PacketInv`: each read in a channel belongs to a slot that waits for
  it, and has its address and size.

It says nothing of how old the stores and voided loads are: of what a flush takes to be
younger only voided loads must stay, and those are what `frees_voided` looks at.

For the refinement (`OrderIsImplemented`) the bytes that a load should get are
described by three sequences of writers behind memory: the requests on their way to
it, the committed stores that are still in the queue, and the older stores of the
window. `IsPlace` numbers the live entries in program order, so that the scans over
the slots, which compare tags and know no places, return the first or the last one
that qualifies. That needs `AgeInv`: a committed store is so young that it compares as older
than all of the window, which is where the theorem's hypothesis `StoresInTime` is used; voided
loads are not live, and have nothing to forward. The invariant adds `ValueInv`: what an entry, an answer, a read in a
channel or the unit's output holds, or will hold, is what the three leave.

- Committing a store moves it from the third sequence to the second, sending it from
  the second to the first, and the memory takes it from there; none of these changes
  what a younger load finds. A flush takes away only what is younger than any load
  that stays.
- A load is forwarded what the last older store that overlaps it left, when that store
  covers it; it is sent to memory only when no older store in the queue overlaps it.
- Completion, a misprediction, issue and retirement are the steps of the same names
  in `MemoryOrder`; every other step is a stutter. The abstract memory is the
  concrete one with the first two sequences applied, so a store reaches it at
  retirement, not when the cache gets it.

**Assumptions.** Besides ranges of sizes and types of programs, `PowerLaw` in `Alu`
says that 2^(k+1) is twice 2^k, which the provers' arithmetic does not know, and
`BhrSizeAssumption` in `GShare` that a power of two is a positive number.
`NullAssumption` in `LoadStoreQueue` says that "no slot", which the code writes -1
(`LSQ.cpp:183`), is no slot's index. TLC evaluates all of them.

**Induction** over the data is out of the prover's reach in general, for the
library's induction theorems take an operator as a parameter. Where a table is
filled recursively over an interval (the sums of `FromBits`, the scans over the
queue's slots, the loops of the loaders) the proofs take the least index at which it is
wrong instead (`LeastNumber`, from the well-foundedness of the numbers; `UpTo`).

**Only model-checked**:

- the instructions (`MCInstructions`): RV32I is a finite table, of which the run
  evaluates every entry;
- all liveness, which with ENABLED is out of the prover's reach.

## 5. Not modelled, and why

- Loads and stores inside `OutOfOrderCore`: together with stations, table and
  units they are beyond what TLC can enumerate in minutes. They are in
  `LoadStoreQueue`, which has the same window, tags and flushes; that the two
  agree on them (`issue`, `commit` and `pipeline_flush` call the queue in TODO
  bodies) is by reading.
- Overwriting a program's own code: program memory is constant in the pipelines.
- `MemoryUnit`'s translation, `ADecoder` and `RamMemDevice`: the simulators attach
  one RAM to all addresses and no device, with translation off.
- `RAM::clear` on a memory with pages and `SimPlatform::reset` with packets in
  flight: each is called once, before anything is there. (`clear` would leave the
  table with freed pages, `reset` the reservations of the packets it deletes.)
- project1's and project2's copy of the platform: they send nothing.
- The branch predictor of project3 beyond `predict` returning false: its bodies
  are TODO.
- The containers, allocators, string helpers, statistics, the layout of the
  traces and argument parsing hold none of the processor's behaviour.

## 6. What would come next

Models: one load in `OutOfOrderCore`, to see whether its latency brings nine branches
together.
