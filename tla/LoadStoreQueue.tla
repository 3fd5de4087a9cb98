---------------------------- MODULE LoadStoreQueue ----------------------------
(***************************************************************************)
(* The load/store queue and unit of project3 (LSQ.cpp, LSU.cpp), between   *)
(* the window of the reorder buffer and the data cache.                    *)
(*                                                                         *)
(* The reorder buffer is what ReorderBuffer is shown to implement: a       *)
(* sequence of instructions with consecutive tags.  The cache is what      *)
(* Cache is shown to implement: FlatMemory, two queues around an array of  *)
(* bytes.  How long the cache, the units and the bus take is left open: an *)
(* action is one object's turn in a cycle in which it does something, and  *)
(* they come in any order.                                                 *)
(*                                                                         *)
(* An instruction is a load or a store of size bytes at an address, or a   *)
(* branch.  Addresses and stored bytes are known to the unit when it       *)
(* computes them, and are the instruction's own.                           *)
(***************************************************************************)
EXTENDS RobTag, SequencesExt

CONSTANTS NUM_LSQS,        \* config.h: NUM_LSQS
          WINDOW,          \* how many instructions are in flight: at most ROB_SIZE
          CAPACITY,        \* of a channel
          Address, Byte,
          Instr,           \* the instructions
          NULL             \* no value

ASSUME QueueAssumption == {NUM_LSQS, CAPACITY} \subseteq Nat \ {0} /\ WINDOW \in 1 .. ROB_SIZE

(* No value is no slot: a scan over the slots begins with none (oldest_idx). *)
ASSUME NullAssumption == NULL \notin 0 .. NUM_LSQS - 1

ASSUME MemoryAssumption == Address \subseteq Int /\ 0 \in Byte

ASSUME InstrAssumption ==
    \A instr \in Instr :
        \/ instr.op = "branch"
        \/ /\ instr.op \in {"load", "store"}
           /\ instr.addr \in Int /\ instr.size \in Nat \ {0}
           /\ instr.addr .. instr.addr + instr.size - 1 \subseteq Address
           /\ instr.op = "store" => instr.data \in [0 .. instr.size - 1 -> Byte]

VARIABLES window,     \* the reorder buffer, oldest first, with the stations' part of it
          head_tag,   \* ReorderBuffer::head_tag
          store,      \* LoadStoreQueue::store_
          tail_index, \* tail_index_
          count,      \* count_
          input,      \* input_ of the load/store unit
          output,     \* output_ of the load/store unit
          ram, core_req, core_rsp  \* memory behind the cache, and its channels

rob   == <<window, head_tag>>
lsq   == <<store, tail_index, count>>
unit  == <<input, output>>
dcache == <<ram, core_req, core_rsp>>
vars  == <<rob, lsq, unit, dcache>>

Slot == 0 .. NUM_LSQS - 1

tag_of(k) == (head_tag + k - 1) % (2 * ROB_SIZE)

is_load(instr)  == instr.op = "load"
is_store(instr) == instr.op = "store"
is_lsu(instr)   == is_load(instr) \/ is_store(instr)

Reach(instr) == instr.addr .. instr.addr + instr.size - 1

Read(s) == [is_write |-> FALSE, user |-> s,
            addr |-> store[s].instr.addr, size |-> store[s].instr.size]
Write(s) == [is_write |-> TRUE, addr |-> store[s].instr.addr, size |-> store[s].instr.size,
             data |-> store[s].data]

Mem == INSTANCE FlatMemory
           WITH Depth <- CAPACITY, Requests <- {}, bytes <- ram, asked <- core_req, answers <- core_rsp

NoEntry  == [valid |-> FALSE]
NoInput  == [valid |-> FALSE]
NoOutput == [valid |-> FALSE]

(* The window is empty, at any place of the ring. *)
Init ==
    /\ window = <<>> /\ head_tag \in Tag
    /\ store = [s \in Slot |-> NoEntry] /\ tail_index = 0 /\ count = 0
    /\ input = NoInput /\ output = NoOutput
    /\ ram = [a \in Address |-> 0] /\ core_req = <<>> /\ core_rsp = <<>>

Valid     == {s \in Slot : store[s].valid}
Voided    == {s \in Valid : store[s].state = "Voided"}
Committed == {s \in Valid : store[s].state = "Committed"}

(***************************************************************************)
(* release_entry; head_index_ is only ever read to find itself.            *)
(***************************************************************************)
release_entry(s) ==
    /\ store' = [store EXCEPT ![s] = NoEntry]
    /\ count' = count - 1
    /\ UNCHANGED tail_index

(***************************************************************************)
(* Core::issue: a memory instruction takes the first free slot from the    *)
(* tail on.                                                                *)
(***************************************************************************)
slot_at(i) == i % NUM_LSQS

first_free == Min({i \in tail_index .. tail_index + NUM_LSQS - 1 : slot_at(i) \notin Valid})

allocate(rob_tag, instr) ==
    /\ store' = [store EXCEPT ![slot_at(first_free)] =
                    [valid |-> TRUE, state |-> "Pending", addr_valid |-> FALSE, data |-> NULL,
                     rob_tag |-> rob_tag, instr |-> instr]]
    /\ tail_index' = slot_at(first_free + 1)
    /\ count' = count + 1

issue(instr) ==
    /\ Len(window) < WINDOW
    /\ is_lsu(instr) => count # NUM_LSQS
    /\ window' = Append(window, [instr |-> instr, waiting |-> TRUE, ready |-> FALSE, result |-> NULL,
                                 lsq_idx |-> IF is_lsu(instr) THEN slot_at(first_free) ELSE NULL])
    /\ IF is_lsu(instr) THEN allocate(tag_of(Len(window) + 1), instr) ELSE UNCHANGED lsq
    /\ UNCHANGED <<head_tag, unit, dcache>>

(***************************************************************************)
(* Core::execute gives a waiting instruction to the unit once its operands *)
(* are there, in any order.                                                *)
(***************************************************************************)
dispatch(k) ==
    /\ is_lsu(window[k].instr) /\ window[k].waiting
    /\ ~input.valid
    /\ input' = [valid |-> TRUE, rob_tag |-> tag_of(k),
                 instr |-> window[k].instr, lsq_idx |-> window[k].lsq_idx]
    /\ window' = [window EXCEPT ![k].waiting = FALSE]
    /\ UNCHANGED <<head_tag, lsq, output, dcache>>

(***************************************************************************)
(* LSU::tick: an answer of the cache goes first; update_data drops it if   *)
(* its entry was voided.                                                   *)
(***************************************************************************)
update_data(s, value) ==
    /\ store' = [store EXCEPT ![s].data = value, ![s].state = "Writeback"]
    /\ UNCHANGED <<tail_index, count>>

send(rob_tag, value) == output' = [valid |-> TRUE, rob_tag |-> rob_tag, value |-> value]

answered == core_rsp # <<>> /\ ~output.valid

take_answer ==
    /\ answered
    /\ LET s == Head(core_rsp).user
       IN  /\ store[s].valid
           /\ IF store[s].state = "Voided"
              THEN release_entry(s) /\ UNCHANGED output
              ELSE update_data(s, Head(core_rsp).data) /\ send(store[s].rob_tag, Head(core_rsp).data)
    /\ Mem!Take
    /\ UNCHANGED <<rob, input>>

(* A store's address and data, or a load's address. *)
compute_address ==
    /\ input.valid /\ ~output.valid /\ ~answered
    /\ input' = NoInput
    /\ LET s == input.lsq_idx
       IN  \/ /\ is_store(input.instr)
              /\ store' = [store EXCEPT ![s].addr_valid = TRUE, ![s].data = input.instr.data,
                                        ![s].state = "Writeback"]
              /\ send(input.rob_tag, NULL)
           \/ /\ is_load(input.instr)
              /\ store' = [store EXCEPT ![s].addr_valid = TRUE]
              /\ UNCHANGED output
    /\ UNCHANGED <<rob, tail_index, count, dcache>>

(***************************************************************************)
(* LoadStoreQueue::tick: the oldest entry that can go to memory.           *)
(***************************************************************************)
is_ready_store(entry) == is_store(entry.instr) /\ entry.state = "Committed"
is_ready_load(entry)  == is_load(entry.instr) /\ entry.state = "Pending" /\ entry.addr_valid

Actionable == {s \in Valid : is_ready_store(store[s]) \/ is_ready_load(store[s])}

IsYounger == {p \in Valid \X Valid : is_rob_younger(store[p[1]].rob_tag, store[p[2]].rob_tag)}
IsOlder   == {p \in Valid \X Valid : is_rob_younger(store[p[2]].rob_tag, store[p[1]].rob_tag)}

(* A scan over the slots keeps the entry it has unless the next one goes
   before it. *)
scan(entries, before) ==
    LET best[i \in 0 .. NUM_LSQS] ==
            IF i = 0 THEN NULL
            ELSE IF /\ i - 1 \in entries
                    /\ best[i - 1] = NULL \/ <<i - 1, best[i - 1]>> \in before
                 THEN i - 1 ELSE best[i - 1]
    IN  best[NUM_LSQS]

select_oldest_actionable == scan(Actionable, IsOlder)

Older(s) == {o \in Valid \ {s} : is_rob_younger(store[s].rob_tag, store[o].rob_tag)}

overlaps(s, o) == Reach(store[s].instr) \cap Reach(store[o].instr) # {}
covers(s, o)   == Reach(store[s].instr) \subseteq Reach(store[o].instr)

(* Older stores a load waits for: those with no address yet, and those it
   overlaps and cannot be forwarded from.
   Mutated: a store with no address yet is passed. *)
Blocking_known(s) ==
    {o \in Older(s) : /\ is_store(store[o].instr) /\ store[o].addr_valid
                      /\ overlaps(s, o) /\ ~(store[o].data # NULL /\ covers(s, o))}

Blocking(s) ==
    {o \in Older(s) : /\ is_store(store[o].instr)
                      /\ \/ ~store[o].addr_valid
                         \/ overlaps(s, o) /\ ~(store[o].data # NULL /\ covers(s, o))}

(* What a load may be forwarded from: stores that cover it, and loads of the
   same bytes that have theirs. *)
Sources(s) ==
    {o \in Older(s) : /\ store[o].data # NULL
                      /\ IF is_load(store[o].instr)
                         THEN Reach(store[o].instr) = Reach(store[s].instr)
                         ELSE covers(s, o)}

youngest(entries) == scan(entries, IsYounger)

forwarded(s, o) ==
    [i \in 0 .. store[s].instr.size - 1 |->
        store[o].data[store[s].instr.addr - store[o].instr.addr + i]]

issue_store(s) ==
    /\ Mem!Ask(Write(s))
    /\ release_entry(s)
    /\ UNCHANGED output

issue_load(s) ==
    /\ Blocking(s) = {}
    /\ IF Sources(s) # {}
       THEN LET value == forwarded(s, youngest(Sources(s)))
            IN  /\ ~output.valid
                /\ update_data(s, value) /\ send(store[s].rob_tag, value)
                /\ UNCHANGED dcache
       ELSE /\ Mem!Ask(Read(s))
            /\ store' = [store EXCEPT ![s].state = "Issued"]
            /\ UNCHANGED <<tail_index, count, output>>

LSQ_tick ==
    /\ LET s == select_oldest_actionable
       IN  /\ s # NULL
           /\ \/ is_store(store[s].instr) /\ issue_store(s)
              \/ is_load(store[s].instr) /\ issue_load(s)
    /\ UNCHANGED <<rob, input>>

(***************************************************************************)
(* The unit's output goes over the bus to the reorder buffer, which takes  *)
(* it for a live instruction that is not complete (Core::execute, and      *)
(* Core::writeback in the next cycle).                                     *)
(***************************************************************************)
broadcast ==
    /\ output.valid
    /\ output' = NoOutput
    /\ window' = [k \in DOMAIN window |->
                     IF tag_of(k) = output.rob_tag /\ ~window[k].ready
                     THEN [window[k] EXCEPT !.ready = TRUE, !.result = output.value]
                     ELSE window[k]]
    /\ UNCHANGED <<head_tag, lsq, input, dcache>>

(***************************************************************************)
(* Core::commit retires the head of the window, and tells the queue.       *)
(***************************************************************************)
find_by_rob(rob_tag) == {s \in Valid : store[s].rob_tag = rob_tag}

LSQ_commit(rob_tag) ==
    IF find_by_rob(rob_tag) = {}
    THEN UNCHANGED lsq
    ELSE LET s == Min(find_by_rob(rob_tag))
         IN  IF is_store(store[s].instr)
             THEN store' = [store EXCEPT ![s].state = "Committed"] /\ UNCHANGED <<tail_index, count>>
             ELSE release_entry(s)

commit ==
    /\ window # <<>> /\ Head(window).ready
    /\ window' = Tail(window)
    /\ head_tag' = (head_tag + 1) % (2 * ROB_SIZE)
    /\ IF is_lsu(Head(window).instr) THEN LSQ_commit(head_tag) ELSE UNCHANGED lsq
    /\ UNCHANGED <<unit, dcache>>

(***************************************************************************)
(* A branch was predicted rightly, or is not and everything younger goes   *)
(* (Core::update_branch, then Core::pipeline_flush before the branch's own *)
(* result is on the bus).                                                  *)
(***************************************************************************)
unresolved(k) == window[k].instr.op = "branch" /\ ~window[k].ready

resolved(k) == [window EXCEPT ![k].ready = TRUE]

predicted(k) ==
    /\ unresolved(k)
    /\ window' = resolved(k)
    /\ UNCHANGED <<head_tag, lsq, unit, dcache>>

(* What a flush leaves of an entry that is younger.
   Mutated: the slot of a load in flight is freed.
   Mutated: the slot waits for an answer to what was never sent. *)
after_flush_freed(entry) == NoEntry

after_flush_voided(entry) == [entry EXCEPT !.state = "Voided"]

after_flush(entry) ==
    IF entry.state = "Issued" THEN [entry EXCEPT !.state = "Voided"] ELSE NoEntry

(* LoadStoreQueue::invalidate.  Mutated: only the older entries are counted. *)
recount_older(entries, rob_tag) ==
    Cardinality({s \in Slot : entries[s].valid /\ ~is_rob_younger(entries[s].rob_tag, rob_tag)})

recount(entries, rob_tag) == Cardinality({s \in Slot : entries[s].valid})

LSQ_invalidate(rob_tag) ==
    /\ store' = [s \in Slot |-> IF s \in Valid /\ is_rob_younger(store[s].rob_tag, rob_tag)
                                THEN after_flush(store[s]) ELSE store[s]]
    /\ count' = recount(store', rob_tag)
    /\ UNCHANGED tail_index

(* FunctionalUnit::invalidate *)
LSU_invalidate(rob_tag) ==
    /\ input'  = IF input.valid /\ is_rob_younger(input.rob_tag, rob_tag) THEN NoInput ELSE input
    /\ output' = IF output.valid /\ is_rob_younger(output.rob_tag, rob_tag) THEN NoOutput ELSE output

mispredicted(k) ==
    /\ unresolved(k)
    /\ window' = SubSeq(resolved(k), 1, k)
    /\ LSQ_invalidate(tag_of(k))
    /\ LSU_invalidate(tag_of(k))
    /\ UNCHANGED <<head_tag, dcache>>

(* The data cache serves its next request. *)
dcache_tick ==
    /\ Mem!Write \/ Mem!Read
    /\ UNCHANGED <<rob, lsq, unit>>

(* What the machine does with the instructions it has. *)
Proceed ==
    \/ \E k \in DOMAIN window : dispatch(k)
    \/ \E k \in DOMAIN window : predicted(k)
    \/ take_answer
    \/ compute_address
    \/ LSQ_tick
    \/ broadcast
    \/ commit
    \/ dcache_tick

Next ==
    \/ \E instr \in Instr : issue(instr)
    \/ \E k \in DOMAIN window : mispredicted(k)
    \/ Proceed

(* The platform goes on ticking.  Nothing makes new instructions come. *)
Spec == Init /\ [][Next]_vars /\ WF_vars(Proceed)

(***************************************************************************)
(* Two tags are compared as if both were in the window (RobTag), but what a *)
(* flush voided and stores that have retired stay in the queue after it.   *)
(* These are the steps at which that tells.  Nothing in the code keeps     *)
(* them from happening, and the specification has them; the theorems and   *)
(* the runs name the ones that they leave out.                             *)
(***************************************************************************)
(* invalidate takes a voided load to be younger than the branch, and frees the
   slot that its answer comes to. *)
frees_voided(k) == \E s \in Voided : is_rob_younger(store[s].rob_tag, tag_of(k))

(* find_by_rob comes to another entry with the head's tag before the head's. *)
commits_another ==
    /\ is_lsu(Head(window).instr)
    /\ \E s \in find_by_rob(head_tag) : s < Head(window).lsq_idx

TagMisread ==
    \/ \E k \in DOMAIN window : mispredicted(k) /\ frees_voided(k)
    \/ commit /\ commits_another

(* An instruction is issued so long after a store that the store, which waits
   to be sent, compares as the younger one. *)
StoreOvertaken ==
    /\ \E instr \in Instr : issue(instr)
    /\ \E s \in Committed : ~is_rob_younger(tag_of(Len(window) + 1), store[s].rob_tag)

TagsReadRight == [][~TagMisread]_vars
StoresInTime  == [][~StoreOvertaken]_vars

------------------------------------------------------------------------------
(* The counter that full() looks at is the number of slots in use, through
   releases in any order and flushes that void: allocate finds a slot and does
   not abort, and no slot is lost (allocate, release_entry, invalidate). *)
CountIsRight == count = Cardinality(Valid)

(* Each instruction of the window has its own slot, under its own tag, and a
   slot that no instruction of the window has is a committed store's or a
   voided load's, which will free it (allocate, commit, invalidate). *)
EntriesAreOwned ==
    LET Owners == {k \in DOMAIN window : is_lsu(window[k].instr)}
        Owned  == {window[k].lsq_idx : k \in Owners}
    IN  /\ \A k \in Owners :
              LET s == window[k].lsq_idx
              IN  s \in Valid /\ store[s].rob_tag = tag_of(k) /\ store[s].instr = window[k].instr
        /\ Cardinality(Owned) = Cardinality(Owners)
        /\ Valid \ Owned = Committed \cup Voided

(* Each read on its way through the cache has a slot of its own that waits for
   it: an answer finds the load that asked, or what a flush left of it
   (issue_load, LSU::tick, and "keep slot until late response arrives",
   invalidate). *)
AnswersHaveTheirSlot ==
    LET packets == core_rsp \o core_req
        reads   == {i \in DOMAIN packets : i <= Len(core_rsp) \/ ~packets[i].is_write}
    IN  /\ \A i, j \in reads : packets[i].user = packets[j].user => i = j
        /\ {packets[i].user : i \in reads} = {s \in Valid : store[s].state \in {"Issued", "Voided"}}

(* Memory as it will be when the stores that have retired are done: a byte is
   the youngest one's that is in the queue, or else on its way to the cache. *)
RetiredMemory ==
    [a \in Address |->
        LET stores == {s \in Committed : a \in Reach(store[s].instr)}
            writes == {i \in DOMAIN core_req : core_req[i].is_write /\ a \in Mem!Reach(core_req[i])}
        IN  IF stores # {} THEN LET s == youngest(stores) IN store[s].data[a - store[s].instr.addr]
            ELSE IF writes # {} THEN core_req[Max(writes)].data[a - core_req[Max(writes)].addr]
            ELSE ram[a]]

Results == [k \in DOMAIN window |-> [instr |-> window[k].instr, ready |-> window[k].ready,
                                     result |-> window[k].result]]

Order == INSTANCE MemoryOrder
             WITH Capacity <- ROB_SIZE, NoValue <- NULL, bytes <- RetiredMemory, window <- Results

(* Forwarded from a store, from a load, or read from the cache behind younger
   and older accesses and through flushes, a load gets what the last older
   stores wrote, and stores reach memory in program order (LSQ.cpp, LSU.cpp). *)
ImplementsMemoryOrder == Order!Spec

(* Loads that wait for stores, stores that wait for their commit and answers
   that wait for the unit do not wait for each other for ever, and nothing is
   left behind: instructions go on committing until there are none, and then
   the queue is empty too (LoadStoreQueue::tick, LSU::tick, invalidate). *)
NothingIsStuck == []<>(window = <<>> /\ Valid = {}) \/ []<><<commit>>_vars
==============================================================================
