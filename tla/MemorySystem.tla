----------------------------- MODULE MemorySystem -----------------------------
(***************************************************************************)
(* The memory of project3 with its two ports (memory.cpp), the caches at   *)
(* them, and the platform that carries packets between them and ticks them *)
(* in the order they were created: the memory, the instruction cache, the  *)
(* data cache (processor.cpp, core.cpp).                                   *)
(*                                                                         *)
(* Of a cache this is the side that faces the memory (cache.cpp): it waits *)
(* for the answer to one read at a time and sends nothing meanwhile, it    *)
(* sends at most one request a cycle, and when it sends one is up to the   *)
(* core, so it is left open here.  The caches of project3 send with delay  *)
(* 0; latency, which all packets of a behaviour take, is in Delays.        *)
(***************************************************************************)
EXTENDS SimPlatform, Ram

CONSTANTS MEM_BLOCK_SIZE,
          Address,     \* the addresses in use, of whole pages
          Image,       \* the program: a sequence of bytes, for STARTUP_ADDR,
          STARTUP_ADDR,
          HexFile,     \* and as a sequence of records
          Program,     \* what it leaves at each address
          Requests,    \* a function on the ports: what its cache may ask
          Delays       \* the latencies of a packet

Port  == {"imem", "dmem"}
Block == 0 .. MEM_BLOCK_SIZE - 1

(* A port p has four channels: the cache's mem_req <<p, "to_memory">>, bound
   to the memory's <<p, "req">>, and <<p, "rsp">>, bound to the cache's mem_rsp
   <<p, "to_cache">>. *)
Channels == Port \X {"to_memory", "req", "rsp", "to_cache"}
Bindings == [ch \in Port \X {"to_memory", "rsp"} |->
                IF ch[2] = "to_memory" THEN <<ch[1], "req">> ELSE <<ch[1], "to_cache">>]

ASSUME BindingAssumption == Channel = Channels /\ sink = Bindings

ASSUME MemoryAssumption ==
    /\ MEM_BLOCK_SIZE \in Nat \ {0}
    /\ Delays \subseteq Nat /\ Address \subseteq Nat
    /\ \A p \in Port : \A req \in Requests[p] :
           /\ req.is_write \in BOOLEAN /\ req.addr \in Nat
           /\ req.is_write => req.byteen \subseteq Block
    /\ \A req \in Requests["imem"] : ~req.is_write
    /\ \A p \in Port : \A req \in Requests[p] : \A i \in Block :
           (~req.is_write \/ i \in req.byteen) => req.addr + i \in Address

(* What the two images are to leave at an address: what a page that is new has there,
   unless the image has a byte for it.  Of the records of a file it is the last one that
   counts, and to the address of a record is added what the last record before it says
   that has key 2 or 4. *)
fresh_byte(a) == fresh_page[page_offset(a)]

image_byte(a) ==
    IF a - STARTUP_ADDR \in 0 .. Len(Image) - 1
    THEN Image[a - STARTUP_ADDR + 1] ELSE fresh_byte(a)

marks(n)  == {i \in 1 .. n : HexFile[i].key \in {2, 4}}
offset(n) ==
    IF marks(n) = {} THEN 0
    ELSE LET mark == HexFile[Max(marks(n))]
         IN  mark.value * (IF mark.key = 2 THEN 16 ELSE 65536)

start(i) == HexFile[i].addr + offset(i - 1)
holders(a, n) ==
    {i \in 1 .. n : HexFile[i].key = 0 /\ a - start(i) \in 0 .. Len(HexFile[i].data) - 1}

hex_byte(a, n) ==
    IF holders(a, n) = {} THEN fresh_byte(a)
    ELSE LET i == Max(holders(a, n)) IN HexFile[i].data[a - start(i) + 1]

ASSUME ImageAssumption ==
    /\ STARTUP_ADDR \in Nat /\ Len(Image) \in Nat /\ Len(HexFile) \in Nat
    /\ \A i \in 1 .. Len(HexFile) :
           /\ HexFile[i].key = 0 => HexFile[i].addr \in Nat /\ Len(HexFile[i].data) \in Nat
           /\ HexFile[i].key \in {2, 4} => HexFile[i].value \in Nat

ASSUME ProgramAssumption ==
    /\ Program = [a \in Address |-> image_byte(a)]
    /\ \A a \in Address : Program[a] = hex_byte(a, Len(HexFile))

VARIABLES sim,      \* the platform
          ram,      \* ram_
          waiting,  \* mshr_.valid of the cache at a port
          latency,  \* of a packet
          age,      \* how many cycles ago the cache at a port sent the read it waits for
          tick      \* the object that ticks next, or the clock

vars == <<sim, ram, waiting, latency, age, tick>>

(* Memory::reset drains what was received. *)
memory_reset(s) ==
    [s EXCEPT !.storage = [ch \in Endpoint |-> IF ch[2] = "req" THEN <<>> ELSE @[ch]]]

Init ==
    /\ sim = memory_reset(reset(NewPlatform))
    /\ ram \in {loadBinImage(NewRam, Image, STARTUP_ADDR), loadHexImage(NewRam, HexFile)}
    /\ waiting = [p \in Port |-> FALSE]
    /\ latency \in Delays
    /\ age = [p \in Port |-> 0]
    /\ tick = "memory"

(***************************************************************************)
(* Memory::tick: the request at the head of each port, the instruction     *)
(* port first.  A state of the memory is a pair of the platform and ram_.  *)
(***************************************************************************)
write_enabled(r, req) == stored(r, req.data, req.addr, MEM_BLOCK_SIZE, req.byteen)

service_port(m, p) ==
    LET req == peek(m.sim, <<p, "req">>)
    IN  IF empty(m.sim, <<p, "req">>) THEN m
        ELSE IF req.is_write
        THEN [sim |-> pop(m.sim, <<p, "req">>), ram |-> write_enabled(m.ram, req)]
        ELSE IF full(m.sim, <<p, "rsp">>) THEN m
        ELSE [sim |-> pop(send(m.sim, <<p, "rsp">>, read(m.ram, req.addr, MEM_BLOCK_SIZE), latency),
                          <<p, "req">>),
              ram |-> touched(m.ram, req.addr, MEM_BLOCK_SIZE)]

memory_tick ==
    /\ tick = "memory" /\ tick' = "imem"
    /\ LET m == service_port(service_port([sim |-> fire_immediate_events(sim), ram |-> ram],
                                          "imem"), "dmem")
       IN  sim' = fire_immediate_events(m.sim) /\ ram' = m.ram
    /\ UNCHANGED <<waiting, latency, age>>

(***************************************************************************)
(* Cache::tick, as the memory sees it.                                     *)
(***************************************************************************)
take_fill(p) ==
    /\ waiting[p] /\ ~empty(sim, <<p, "to_cache">>)
    /\ sim' = pop(sim, <<p, "to_cache">>)
    /\ waiting' = [waiting EXCEPT ![p] = FALSE]
    /\ age' = [age EXCEPT ![p] = 0]

send_request(p, req) ==
    /\ ~waiting[p] /\ empty(sim, <<p, "to_cache">>) /\ ~full(sim, <<p, "to_memory">>)
    /\ sim' = fire_immediate_events(send(sim, <<p, "to_memory">>, req, latency))
    /\ waiting' = [waiting EXCEPT ![p] = ~req.is_write]
    /\ UNCHANGED age

(* A cache that waits does nothing until there is an answer; one that does not
   wait may find no request of the core's, or need nothing of the memory. *)
stand_by(p) ==
    /\ waiting[p] => empty(sim, <<p, "to_cache">>)
    /\ UNCHANGED <<sim, waiting, age>>

cache_tick(p) ==
    /\ tick = p /\ tick' = (IF p = "imem" THEN "dmem" ELSE "clock")
    /\ \/ take_fill(p)
       \/ \E req \in Requests[p] : send_request(p, req)
       \/ stand_by(p)
    /\ UNCHANGED <<ram, latency>>

clock_tick ==
    /\ tick = "clock" /\ tick' = "memory"
    /\ sim' = advance(sim)
    /\ age' = [p \in Port |-> IF waiting[p] THEN age[p] + 1 ELSE 0]
    /\ UNCHANGED <<ram, waiting, latency>>

Next == memory_tick \/ (\E p \in Port : cache_tick(p)) \/ clock_tick

Spec == Init /\ [][Next]_vars

--------------------------------------------------------------------------------
(* Packets on the way to a channel, the first to arrive first. *)
bound_for(evts, ch) == {i \in DOMAIN evts : endpoint(evts[i].channel) = ch}

due_in(n, ch) ==
    LET bucket == sim.reg_events[(sim.cycles + n) % WHEEL_SIZE]
    IN  among(bucket, {i \in bound_for(bucket, ch) : bucket[i].cycles = n})

in_flight(ch) ==
    among(sim.imm_events, bound_for(sim.imm_events, ch))
    \o FlattenSeq([n \in 1 .. latency |-> due_in(n, ch)])

packets(ch) ==
    LET evts == in_flight(ch)
    IN  sim.storage[ch] \o [i \in DOMAIN evts |-> evts[i].pkt]

(* A channel holds a reservation for every packet on its way, no more and no
   less, and packets and reservations together fit: the assertions of
   receive_packet ("pending count underflow") and of RingQueue ("full") hold
   whatever the delay and wherever the wheel stands. *)
ReservationsAreInFlight ==
    \A ch \in Endpoint :
        /\ sim.pending[ch] = Len(in_flight(ch))
        /\ occupancy(sim, ch) <= CAPACITY

(* A read is answered in time: the packets take their latency each way, or a
   cycle together when they take none, and a request waits in the memory only
   for the requests before it.  The instruction port has no others, so there
   the answer is never early or late (SimPlatform::tick, Memory::tick). *)
round_trip == IF latency = 0 THEN 1 ELSE 2 * latency

AnsweredInTime ==
    \A p \in Port :
        /\ waiting[p] => age[p] <= round_trip + (IF p = "imem" THEN 0 ELSE CAPACITY - 1)
        /\ tick = p /\ sim.storage[<<p, "to_cache">>] # <<>> => age[p] >= round_trip

(* The memory, its pages made on the first access, its note of the last page
   and the channels are one array of bytes that serves every port in order and
   answers each read once, and either loader leaves the program in it
   (memory.cpp, RAM, simobject.h). *)
byte_at(a) ==
    IF page_index(a) \in DOMAIN ram.pages THEN ram.pages[page_index(a)][page_offset(a)]
    ELSE fresh_byte(a)

Ported == INSTANCE PortedMemory WITH
    Depth <- CAPACITY,
    bytes <- [a \in Address |-> byte_at(a)],
    asked <- [p \in Port |-> packets(<<p, "req">>)],
    answers <- [p \in Port |-> packets(<<p, "to_cache">>)]

ImplementsPortedMemory == Ported!Spec
==============================================================================
