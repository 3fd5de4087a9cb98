--------------------------------- MODULE Cache ---------------------------------
(***************************************************************************)
(* The data cache of project3 (cache.cpp, cache_repl.h), the memory behind *)
(* it (memory.cpp) and the channels between them (simobject.h).            *)
(*                                                                         *)
(* The cache is set-associative, writes through, allocates on a read miss  *)
(* only, and has one miss outstanding.  In a cycle the platform ticks the  *)
(* memory, the cache, the load/store queue, which sends requests, and the  *)
(* load/store unit, which takes answers.  A packet is sent with delay 0,   *)
(* so it is in the channel when the next object ticks.                     *)
(*                                                                         *)
(* A word is WORD bytes.  The byte enables of a write are its first size   *)
(* bytes (LSU::issue_store), and size is what the reader named by user     *)
(* will use of the word it gets.                                           *)
(***************************************************************************)
EXTENDS Integers, SequencesExt

CONSTANTS WORD,            \* sizeof(uint32_t)
          MEM_BLOCK_SIZE,  \* config.h: bytes in a line
          SETS,            \* Cache::set_count
          WAYS,            \* num_ways_
          LINES,           \* lines of memory
          CAPACITY,        \* of a channel (SimChannel)
          Byte,            \* the values of a byte, 0 among them
          Requests         \* what the load/store queue sends

Address == 0 .. LINES * MEM_BLOCK_SIZE - 1
Offset  == 0 .. MEM_BLOCK_SIZE - 1
InWord  == 0 .. WORD - 1
Set     == 0 .. SETS - 1
Way     == 0 .. WAYS - 1
Word    == [InWord -> Byte]

ASSUME SizesAssumption ==
    /\ {WORD, MEM_BLOCK_SIZE, SETS, WAYS, LINES, CAPACITY} \subseteq Nat \ {0}
    /\ WORD <= MEM_BLOCK_SIZE
    /\ 0 \in Byte

ASSUME RequestsAssumption ==
    \A req \in Requests :
        /\ req.is_write \in BOOLEAN
        /\ req.size \in 1 .. WORD
        /\ req.addr \in Address /\ req.addr + req.size - 1 \in Address
        /\ req.is_write => req.data \in Word

VARIABLES ram,          \* ram_
          tag_store,    \* tag_store_
          data_store,   \* data_store_
          recency,      \* timestamps_: the ways of a set, least recently used first
          mshr,         \* mshr_
          pending_rsp,  \* pending_rsp_, if pending_core_rsp_
          core_req, core_rsp, mem_req, mem_rsp,  \* the channels
          tick          \* the object that ticks next

cache    == <<tag_store, data_store, recency, mshr, pending_rsp>>
channels == <<core_req, core_rsp, mem_req, mem_rsp>>
vars     == <<ram, cache, channels, tick>>

full(channel) == Len(channel) >= CAPACITY

set_index(addr)   == (addr \div MEM_BLOCK_SIZE) % SETS
line_tag(addr)    == (addr \div MEM_BLOCK_SIZE) \div SETS
line_offset(addr) == addr % MEM_BLOCK_SIZE
line_addr(addr)   == addr - line_offset(addr)

NoLine == [o \in Offset |-> 0]
NoMiss == [valid |-> FALSE]
NoRsp  == [valid |-> FALSE]

Init ==
    /\ ram \in [Address -> {0}]
    /\ tag_store = [s \in Set |-> [w \in Way |-> [valid |-> FALSE, tag |-> 0]]]
    /\ data_store = [s \in Set |-> [w \in Way |-> NoLine]]
    /\ recency = [s \in Set |-> [i \in 1 .. WAYS |-> i - 1]]
    /\ mshr = NoMiss
    /\ pending_rsp = NoRsp
    /\ core_req = <<>> /\ core_rsp = <<>> /\ mem_req = <<>> /\ mem_rsp = <<>>
    /\ tick = "memory"

(***************************************************************************)
(* Memory::tick: one request a cycle, in order.                            *)
(***************************************************************************)
(* The bytes of a request. *)
Reach(req) == req.addr .. req.addr + req.size - 1

(* Mutated: the byte enables are ignored. *)
written_whole_word(bytes, req) ==
    [a \in Address |-> IF a \in req.addr .. req.addr + WORD - 1
                       THEN req.data[a - req.addr] ELSE bytes[a]]

written(bytes, req) ==
    [a \in Address |-> IF a \in Reach(req) THEN req.data[a - req.addr] ELSE bytes[a]]

line_at(bytes, addr) == [o \in Offset |-> bytes[addr + o]]

memory_tick ==
    /\ tick = "memory" /\ tick' = "cache"
    /\ IF mem_req = <<>>
       THEN UNCHANGED <<ram, mem_req, mem_rsp>>
       ELSE LET req == Head(mem_req)
            IN  \/ /\ req.is_write
                   /\ ram' = written(ram, req)
                   /\ mem_req' = Tail(mem_req)
                   /\ UNCHANGED mem_rsp
                \/ /\ ~req.is_write /\ ~full(mem_rsp)
                   /\ mem_rsp' = Append(mem_rsp, line_at(ram, req.addr))
                   /\ mem_req' = Tail(mem_req)
                   /\ UNCHANGED ram
                \/ /\ ~req.is_write /\ full(mem_rsp)
                   /\ UNCHANGED <<ram, mem_req, mem_rsp>>
    /\ UNCHANGED <<cache, core_req, core_rsp>>

(***************************************************************************)
(* The parts of Cache::tick.                                               *)
(***************************************************************************)
(* Mutated: only the first way is looked at. *)
hit_ways_first_only(addr) ==
    LET s == set_index(addr)
    IN  {w \in {0} : tag_store[s][w].valid /\ tag_store[s][w].tag = line_tag(addr)}

(* lookup *)
hit_ways(addr) ==
    LET s == set_index(addr)
    IN  {w \in Way : tag_store[s][w].valid /\ tag_store[s][w].tag = line_tag(addr)}

(* pick_victim_way: the first way that is not valid, or the least recently
   used. *)
pick_victim_way(s) ==
    LET invalid == {w \in Way : ~tag_store[s][w].valid}
    IN  IF invalid # {} THEN Min(invalid) ELSE Head(recency[s])

(* on_access and on_fill *)
touch(s, way) ==
    [recency EXCEPT ![s] = Append(SelectSeq(@, LAMBDA w : w # way), way)]

(* A word that would reach over the end of the line reads as zero, and is not
   written. *)
fits(addr) == line_offset(addr) + WORD <= MEM_BLOCK_SIZE

read_word_from_line(line, addr) ==
    IF fits(addr) THEN [i \in InWord |-> line[line_offset(addr) + i]] ELSE [i \in InWord |-> 0]

(* Mutated: a write does not change the line that holds its address. *)
write_around_line(line, req) == line

write_word_to_line(line, req) ==
    IF fits(req.addr)
    THEN [o \in Offset |-> IF o - line_offset(req.addr) \in 0 .. req.size - 1
                           THEN req.data[o - line_offset(req.addr)] ELSE line[o]]
    ELSE line

answer(req, line) ==
    [valid |-> TRUE, user |-> req.user, size |-> req.size,
     data |-> read_word_from_line(line, req.addr)]

(* Step 1: a buffered answer goes out before anything else is done.
   Mutated: it stays in its buffer. *)
respond_again ==
    /\ pending_rsp.valid
    /\ core_rsp' = IF full(core_rsp) THEN core_rsp ELSE Append(core_rsp, pending_rsp)
    /\ UNCHANGED <<tag_store, data_store, recency, mshr, pending_rsp, core_req, mem_req, mem_rsp>>

respond ==
    /\ pending_rsp.valid
    /\ IF full(core_rsp)
       THEN UNCHANGED <<core_rsp, pending_rsp>>
       ELSE core_rsp' = Append(core_rsp, pending_rsp) /\ pending_rsp' = NoRsp
    /\ UNCHANGED <<tag_store, data_store, recency, mshr, core_req, mem_req, mem_rsp>>

(* Step 2: a miss waits for its line, and everything behind it waits too.
   Mutated: the outstanding miss is not looked at. *)
waiting_never == FALSE

waiting == mshr.valid

fill ==
    /\ ~pending_rsp.valid /\ waiting
    /\ IF mem_rsp = <<>>
       THEN UNCHANGED <<cache, channels>>
       ELSE /\ tag_store' = [tag_store EXCEPT ![mshr.set][mshr.way] =
                                [valid |-> TRUE, tag |-> mshr.tag]]
            /\ data_store' = [data_store EXCEPT ![mshr.set][mshr.way] = Head(mem_rsp)]
            /\ recency' = touch(mshr.set, mshr.way)
            /\ pending_rsp' = answer(mshr.req, Head(mem_rsp))
            /\ mshr' = NoMiss
            /\ mem_rsp' = Tail(mem_rsp)
            /\ UNCHANGED <<core_req, core_rsp, mem_req>>

(* Step 3a: through to memory, and into the line if there is one. *)
write(req) ==
    /\ req.is_write
    /\ IF full(mem_req)
       THEN UNCHANGED <<cache, channels>>
       ELSE /\ mem_req' = Append(mem_req, req)
            /\ LET s == set_index(req.addr)
               IN  IF hit_ways(req.addr) = {}
                   THEN UNCHANGED <<data_store, recency>>
                   ELSE LET way == Min(hit_ways(req.addr))
                        IN  /\ data_store' = [data_store EXCEPT ![s][way] =
                                                 write_word_to_line(@, req)]
                            /\ recency' = touch(s, way)
            /\ core_req' = Tail(core_req)
            /\ UNCHANGED <<tag_store, mshr, pending_rsp, core_rsp, mem_rsp>>

(* Step 3b *)
read_hit(req) ==
    /\ ~req.is_write /\ hit_ways(req.addr) # {}
    /\ IF full(core_rsp)
       THEN UNCHANGED <<cache, channels>>
       ELSE LET s   == set_index(req.addr)
                way == Min(hit_ways(req.addr))
            IN  /\ core_rsp' = Append(core_rsp, answer(req, data_store[s][way]))
                /\ recency' = touch(s, way)
                /\ core_req' = Tail(core_req)
                /\ UNCHANGED <<tag_store, data_store, mshr, pending_rsp, mem_req, mem_rsp>>

(* Step 3c: the victim is chosen when the line is asked for. *)
read_miss(req) ==
    /\ ~req.is_write /\ hit_ways(req.addr) = {}
    /\ IF full(mem_req)
       THEN UNCHANGED <<cache, channels>>
       ELSE LET s == set_index(req.addr)
            IN  /\ mem_req' = Append(mem_req, [is_write |-> FALSE, addr |-> line_addr(req.addr)])
                /\ mshr' = [valid |-> TRUE, req |-> req, set |-> s,
                            way |-> pick_victim_way(s), tag |-> line_tag(req.addr)]
                /\ core_req' = Tail(core_req)
                /\ UNCHANGED <<tag_store, data_store, recency, pending_rsp, core_rsp, mem_rsp>>

next_request ==
    /\ ~pending_rsp.valid /\ ~waiting
    /\ IF core_req = <<>>
       THEN UNCHANGED <<cache, channels>>
       ELSE \/ write(Head(core_req))
            \/ read_hit(Head(core_req))
            \/ read_miss(Head(core_req))

cache_tick ==
    /\ tick = "cache" /\ tick' = "LSQ"
    /\ respond \/ fill \/ next_request
    /\ UNCHANGED ram

(***************************************************************************)
(* The load/store queue sends at most one request a cycle (LSQ::tick), and *)
(* the load/store unit takes an answer if its output is free (LSU::tick).  *)
(***************************************************************************)
LSQ_tick ==
    /\ tick = "LSQ" /\ tick' = "LSU"
    /\ \/ UNCHANGED core_req
       \/ /\ ~full(core_req)
          /\ \E req \in Requests : core_req' = Append(core_req, req)
    /\ UNCHANGED <<ram, cache, core_rsp, mem_req, mem_rsp>>

LSU_takes ==
    /\ tick = "LSU" /\ tick' = "memory"
    /\ core_rsp # <<>>
    /\ core_rsp' = Tail(core_rsp)
    /\ UNCHANGED <<ram, cache, core_req, mem_req, mem_rsp>>

LSU_is_busy ==
    /\ tick = "LSU" /\ tick' = "memory"
    /\ UNCHANGED <<ram, cache, channels>>

Next ==
    \/ memory_tick
    \/ cache_tick
    \/ LSQ_tick
    \/ LSU_takes
    \/ LSU_is_busy

(* The platform ticks for ever, and the unit's output is free again and again
   (the CDB takes one result a cycle, Core::execute). *)
Spec == Init /\ [][Next]_vars /\ WF_vars(Next) /\ SF_vars(LSU_takes)

------------------------------------------------------------------------------
(* Memory as the next request will find it: a byte is the last one's that
   writes it of those under way, or else the one there is. *)
Writes(a) == {i \in DOMAIN mem_req : mem_req[i].is_write /\ a \in Reach(mem_req[i])}

Memory ==
    [a \in Address |-> IF Writes(a) = {} THEN ram[a]
                       ELSE LET last == mem_req[Max(Writes(a))] IN last.data[a - last.addr]]

(* Each request fits in its line with the word around it. *)
RequestsFit == \A req \in Requests : fits(req.addr)

(* Every line the cache holds, and the one on its way to it, is what memory
   will hold when the writes under way have arrived: writes that hit, misses
   that cross writes to the line they fetch, evictions with writes behind them
   (Cache::tick, Memory::tick). *)
LinesAgreeWithMemory ==
    /\ \A s \in Set, w \in Way :
          tag_store[s][w].valid =>
              data_store[s][w] = line_at(Memory, (tag_store[s][w].tag * SETS + s) * MEM_BLOCK_SIZE)
    /\ mem_rsp # <<>> => Head(mem_rsp) = line_at(Memory, line_addr(mshr.req.addr))

(* No line is in two ways of its set: a write would reach only one of them
   (lookup, pick_victim_way). *)
NoLineTwice ==
    \A s \in Set, v, w \in Way :
        tag_store[s][v].valid /\ tag_store[s][w].valid
            /\ tag_store[s][v].tag = tag_store[s][w].tag => v = w

(* The reads in the channel to memory. *)
Fetches == {i \in DOMAIN mem_req : ~mem_req[i].is_write}

(* A line that memory returns or was asked for belongs to the one miss that is
   outstanding: "Unexpected memory response without a pending miss context" is
   never reached (Cache::tick). *)
FillIsExpected ==
    IF ~mshr.valid THEN Fetches = {} /\ mem_rsp = <<>>
    ELSE \/ /\ mem_rsp = <<>>
            /\ \E i \in Fetches : Fetches = {i} /\ mem_req[i].addr = line_addr(mshr.req.addr)
         \/ Fetches = {} /\ Len(mem_rsp) = 1

Answer(rsp) == [user |-> rsp.user, data |-> [i \in 0 .. rsp.size - 1 |-> rsp.data[i]]]

Asked == (IF mshr.valid THEN <<mshr.req>> ELSE <<>>) \o core_req

Answers ==
    [i \in DOMAIN core_rsp |-> Answer(core_rsp[i])]
        \o (IF pending_rsp.valid THEN <<Answer(pending_rsp)>> ELSE <<>>)

Flat == INSTANCE FlatMemory
            WITH Depth <- CAPACITY + 1, bytes <- Memory, asked <- Asked, answers <- Answers

(* Through hits, misses, evictions and full channels the load/store unit sees
   an array of bytes that serves its requests in order: no answer is lost,
   doubled, swapped or stale (Cache::tick, Memory::tick). *)
ImplementsFlatMemory == Flat!Spec

(* The cache never gets stuck on full channels or on a fill that does not
   come: while requests wait, they go on being taken (Cache::tick). *)
KeepsServing ==
    \/ <>[](core_req = <<>>)
    \/ []<><<core_req # <<>> /\ core_req' = Tail(core_req)>>_vars
==============================================================================
