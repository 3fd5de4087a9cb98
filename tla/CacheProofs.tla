----------------------------- MODULE CacheProofs -----------------------------
(***************************************************************************)
(* For every size of the cache and its channels and for every request: no  *)
(* line is held twice, and every line that memory returns belongs to the   *)
(* miss that is outstanding.  While a miss is outstanding the cache looks  *)
(* nothing up, so the line it waits for is still in no way of its set when *)
(* it comes, and no second one is asked for.                               *)
(***************************************************************************)
EXTENDS Cache, SequenceTheorems, WellFoundedInduction, TLAPS

Arrays == tag_store \in [Set -> [Way -> [valid : BOOLEAN, tag : Int]]]

Holds(s, w, tag) == tag_store[s][w].valid /\ tag_store[s][w].tag = tag

(* The line that is outstanding is in no way of its set. *)
OutstandingIsAbsent ==
    mshr.valid => /\ mshr.set \in Set /\ mshr.tag \in Int
                  /\ \A w \in Way : ~Holds(mshr.set, w, mshr.tag)

Unique == \A s \in Set, v, w \in Way, tag \in Int : Holds(s, v, tag) /\ Holds(s, w, tag) => v = w

(* The requests in the channel to the cache are the queue's. *)
Queued == core_req \in Seq(Requests)

LineInv == Arrays /\ Queued /\ OutstandingIsAbsent /\ Unique

------------------------------------------------------------------------------
LEMMA LineIsUnique == LineInv => NoLineTwice
BY DEF LineInv, Arrays, Unique, Holds, NoLineTwice

LEMMA LineInvInit == Init => LineInv
BY DEF Init, LineInv, Arrays, Queued, OutstandingIsAbsent, Unique, Holds, NoMiss

(* Only a miss and a fill change what is held or outstanding. *)
LEMMA LinesStay == LineInv /\ UNCHANGED <<tag_store, mshr>> /\ Queued' => LineInv'
BY DEF LineInv, Arrays, OutstandingIsAbsent, Unique, Holds

LEMMA RequestsLeave ==
    ASSUME Queued, core_req # <<>>, core_req' = Tail(core_req)
    PROVE  Queued' /\ Head(core_req) \in Requests
BY DEF Queued

LEMMA IndexAndTag ==
    ASSUME NEW addr \in Address
    PROVE  set_index(addr) \in Set /\ line_tag(addr) \in Int
<1>1. MEM_BLOCK_SIZE \in Nat \ {0} /\ SETS \in Nat \ {0} /\ addr \in Int
    BY SizesAssumption DEF Address
<1>2. addr \div MEM_BLOCK_SIZE \in Int
    BY <1>1
<1> QED
    BY <1>1, <1>2 DEF set_index, line_tag, Set

(* A miss makes a line outstanding that lookup has not found. *)
LEMMA MissInv ==
    ASSUME LineInv, core_req # <<>>, read_miss(Head(core_req))
    PROVE  LineInv'
<1> DEFINE req == Head(core_req)
<1>1. CASE full(mem_req)
    BY <1>1, LinesStay DEF read_miss, cache, channels, LineInv, Queued
<1>2. CASE ~full(mem_req)
    <2>1. /\ core_req' = Tail(core_req) /\ tag_store' = tag_store
          /\ mshr' = [valid |-> TRUE, req |-> req, set |-> set_index(req.addr),
                      way |-> pick_victim_way(set_index(req.addr)), tag |-> line_tag(req.addr)]
        BY <1>2 DEF read_miss
    <2>2. Queued' /\ req \in Requests
        BY <2>1, RequestsLeave DEF LineInv
    <2>3. set_index(req.addr) \in Set /\ line_tag(req.addr) \in Int
        BY <2>2, RequestsAssumption, IndexAndTag
    <2>4. \A w \in Way : ~Holds(set_index(req.addr), w, line_tag(req.addr))
        BY DEF read_miss, hit_ways, Holds
    <2>5. OutstandingIsAbsent'
        BY <2>1, <2>3, <2>4 DEF OutstandingIsAbsent, Holds
    <2>6. Arrays' /\ Unique'
        BY <2>1 DEF LineInv, Arrays, Unique, Holds
    <2> QED
        BY <2>2, <2>5, <2>6 DEF LineInv
<1> QED
    BY <1>1, <1>2

(* A fill puts the outstanding line in one way, and it was in none. *)
LEMMA FillInv ==
    ASSUME LineInv, fill
    PROVE  LineInv'
<1>1. CASE mem_rsp = <<>>
    BY <1>1, LinesStay DEF fill, cache, channels, LineInv, Queued
<1>2. CASE mem_rsp # <<>>
    <2>1. /\ tag_store' = [tag_store EXCEPT ![mshr.set][mshr.way] =
                              [valid |-> TRUE, tag |-> mshr.tag]]
          /\ mshr' = NoMiss /\ core_req' = core_req
        BY <1>2 DEF fill
    <2>2. mshr.set \in Set /\ mshr.tag \in Int
        BY DEF fill, waiting, LineInv, OutstandingIsAbsent
    <2>3. \A s \in Set, w \in Way :
             tag_store'[s][w] = IF s = mshr.set /\ w = mshr.way
                                THEN [valid |-> TRUE, tag |-> mshr.tag] ELSE tag_store[s][w]
        BY <2>1 DEF LineInv, Arrays
    <2>4. Arrays'
        BY <2>1, <2>2 DEF LineInv, Arrays
    <2>5. Queued' /\ OutstandingIsAbsent'
        BY <2>1 DEF LineInv, Queued, OutstandingIsAbsent, NoMiss
    <2>6. \A w \in Way : ~Holds(mshr.set, w, mshr.tag)
        BY DEF fill, waiting, LineInv, OutstandingIsAbsent
    <2>7. Unique'
        <3> SUFFICES ASSUME NEW s \in Set, NEW v \in Way, NEW w \in Way, NEW tag \in Int,
                            Holds(s, v, tag)', Holds(s, w, tag)'
                     PROVE  v = w
            BY DEF Unique
        <3>1. CASE s # mshr.set
            BY <3>1, <2>3 DEF LineInv, Unique, Holds
        <3>2. CASE s = mshr.set /\ v # mshr.way /\ w # mshr.way
            BY <3>2, <2>3 DEF LineInv, Unique, Holds
        <3>3. CASE s = mshr.set /\ (v = mshr.way \/ w = mshr.way)
            BY <3>3, <2>3, <2>6 DEF Holds
        <3> QED
            BY <3>1, <3>2, <3>3
    <2> QED
        BY <2>4, <2>5, <2>7 DEF LineInv
<1> QED
    BY <1>1, <1>2

LEMMA LineInvNext == LineInv /\ [Next]_vars => LineInv'
<1> SUFFICES ASSUME LineInv, [Next]_vars PROVE LineInv'
    OBVIOUS
<1>1. CASE memory_tick
    BY <1>1, LinesStay DEF memory_tick, cache, LineInv, Queued
<1>2. CASE cache_tick
    <2>1. CASE respond
        BY <2>1, LinesStay DEF respond, LineInv, Queued
    <2>2. CASE fill
        BY <2>2, FillInv
    <2>3. CASE next_request
        <3>1. CASE core_req = <<>>
            BY <2>3, <3>1, LinesStay DEF next_request, cache, channels, LineInv, Queued
        <3>2. CASE core_req # <<>> /\ write(Head(core_req))
            <4>1. UNCHANGED <<tag_store, mshr>> /\ core_req' \in {core_req, Tail(core_req)}
                BY <3>2 DEF write, cache, channels
            <4> QED
                BY <3>2, <4>1, LinesStay, RequestsLeave DEF LineInv, Queued
        <3>3. CASE core_req # <<>> /\ read_hit(Head(core_req))
            <4>1. UNCHANGED <<tag_store, mshr>> /\ core_req' \in {core_req, Tail(core_req)}
                BY <3>3 DEF read_hit, cache, channels
            <4> QED
                BY <3>3, <4>1, LinesStay, RequestsLeave DEF LineInv, Queued
        <3>4. CASE core_req # <<>> /\ read_miss(Head(core_req))
            BY <3>4, MissInv
        <3> QED
            BY <2>3, <3>1, <3>2, <3>3, <3>4 DEF next_request
    <2> QED
        BY <1>2, <2>1, <2>2, <2>3 DEF cache_tick
<1>3. CASE LSQ_tick
    <2>1. UNCHANGED <<tag_store, mshr>>
        BY <1>3 DEF LSQ_tick, cache
    <2>2. Queued'
        BY <1>3 DEF LSQ_tick, LineInv, Queued
    <2> QED
        BY <2>1, <2>2, LinesStay
<1>4. CASE LSU_takes
    BY <1>4, LinesStay DEF LSU_takes, cache, LineInv, Queued
<1>5. CASE LSU_is_busy
    BY <1>5, LinesStay DEF LSU_is_busy, cache, channels, LineInv, Queued
<1>6. CASE UNCHANGED vars
    BY <1>6, LinesStay DEF vars, cache, channels, LineInv, Queued
<1> QED
    BY <1>1, <1>2, <1>3, <1>4, <1>5, <1>6 DEF Next

(* For every geometry of the cache, every capacity of its channels and every
   request: no line is in two ways of its set, so that a write that hits
   reaches the only copy (lookup, pick_victim_way, Cache::tick). *)
THEOREM LineOnce == Spec => []NoLineTwice
<1>1. Spec => []LineInv
    BY LineInvInit, LineInvNext, PTL DEF Spec
<1> QED
    BY <1>1, LineIsUnique, PTL

------------------------------------------------------------------------------
(* What is in the channels between the cache and the memory. *)
OnTheWay    == Requests \cup [is_write : {FALSE}, addr : Int]
MemRequests == mem_req \in Seq(OnTheWay)
OneLine     == mem_rsp = <<>> \/ \E line : mem_rsp = <<line>>

FetchInv == Queued /\ MemRequests /\ OneLine /\ mshr.valid \in BOOLEAN /\ FillIsExpected

LEMMA FillStays ==
    FetchInv /\ UNCHANGED <<mem_req, mem_rsp, mshr>> /\ Queued' => FetchInv'
BY DEF FetchInv, MemRequests, OneLine, FillIsExpected, Fetches

LEMMA FetchInvInit == Init => FetchInv
BY DEF Init, FetchInv, Queued, MemRequests, OneLine, FillIsExpected, Fetches, NoMiss

(* A write behind the requests to memory leaves the fetches where they are. *)
LEMMA WriteFill ==
    ASSUME FetchInv, core_req # <<>>, write(Head(core_req))
    PROVE  FetchInv'
<1> DEFINE req == Head(core_req)
<1>1. CASE full(mem_req)
    BY <1>1, FillStays DEF write, cache, channels, FetchInv, Queued
<1>2. CASE ~full(mem_req)
    <2>1. /\ core_req' = Tail(core_req) /\ mem_req' = Append(mem_req, req) /\ req.is_write
          /\ mshr' = mshr /\ mem_rsp' = mem_rsp
        BY <1>2 DEF write
    <2>2. Queued' /\ req \in Requests
        BY <2>1, RequestsLeave DEF FetchInv
    <2>3. MemRequests'
        <3>1. req \in OnTheWay
            BY <2>2 DEF OnTheWay
        <3> QED
            BY <2>1, <3>1 DEF FetchInv, MemRequests
    <2>4. /\ Len(mem_req') = Len(mem_req) + 1 /\ Len(mem_req) \in Nat
          /\ mem_req'[Len(mem_req) + 1] = req
          /\ \A i \in 1 .. Len(mem_req) : mem_req'[i] = mem_req[i]
          /\ DOMAIN mem_req = 1 .. Len(mem_req) /\ DOMAIN mem_req' = 1 .. Len(mem_req')
        BY <2>1, <2>2 DEF FetchInv, MemRequests
    <2>5. Fetches' = Fetches
        BY <2>1, <2>4 DEF Fetches
    <2>6. \A i \in Fetches : mem_req'[i] = mem_req[i]
        BY <2>4 DEF Fetches
    <2>7. FillIsExpected'
        BY <2>1, <2>5, <2>6 DEF FetchInv, FillIsExpected, line_addr, line_offset
    <2> QED
        BY <2>1, <2>2, <2>3, <2>7 DEF FetchInv, OneLine
<1> QED
    BY <1>1, <1>2

(* A miss finds no fetch under way and sends the only one. *)
LEMMA MissFill ==
    ASSUME FetchInv, ~waiting, core_req # <<>>, read_miss(Head(core_req))
    PROVE  FetchInv'
<1> DEFINE req   == Head(core_req)
           fetch == [is_write |-> FALSE, addr |-> line_addr(req.addr)]
<1>1. CASE full(mem_req)
    BY <1>1, FillStays DEF read_miss, cache, channels, FetchInv, Queued
<1>2. CASE ~full(mem_req)
    <2>1. /\ core_req' = Tail(core_req) /\ mem_req' = Append(mem_req, fetch) /\ mem_rsp' = mem_rsp
          /\ mshr' = [valid |-> TRUE, req |-> req, set |-> set_index(req.addr),
                      way |-> pick_victim_way(set_index(req.addr)), tag |-> line_tag(req.addr)]
        BY <1>2 DEF read_miss
    <2>2. Queued' /\ req \in Requests
        BY <2>1, RequestsLeave DEF FetchInv
    <2>3. line_addr(req.addr) \in Int
        <3>1. req.addr \in Int /\ MEM_BLOCK_SIZE \in Nat \ {0}
            BY <2>2, RequestsAssumption, SizesAssumption DEF Address
        <3> QED
            BY <3>1 DEF line_addr, line_offset
    <2>4. fetch \in OnTheWay
        BY <2>3 DEF OnTheWay
    <2>5. MemRequests'
        BY <2>1, <2>4 DEF FetchInv, MemRequests
    <2>6. /\ Len(mem_req') = Len(mem_req) + 1 /\ Len(mem_req) \in Nat
          /\ mem_req'[Len(mem_req) + 1] = fetch
          /\ \A i \in 1 .. Len(mem_req) : mem_req'[i] = mem_req[i]
          /\ DOMAIN mem_req = 1 .. Len(mem_req) /\ DOMAIN mem_req' = 1 .. Len(mem_req')
        BY <2>1, <2>4 DEF FetchInv, MemRequests
    <2>7. Fetches = {} /\ mem_rsp = <<>>
        BY DEF FetchInv, FillIsExpected, waiting
    <2>8. Fetches' = {Len(mem_req) + 1}
        BY <2>6, <2>7 DEF Fetches
    <2>9. FillIsExpected'
        BY <2>1, <2>6, <2>7, <2>8 DEF FillIsExpected, line_addr, line_offset
    <2> QED
        BY <2>1, <2>2, <2>5, <2>9 DEF FetchInv, OneLine
<1> QED
    BY <1>1, <1>2

(* Memory takes the first request: a write brings the fetch one place forward,
   and the fetch becomes the line on its way back. *)
LEMMA MemoryFill ==
    ASSUME FetchInv, memory_tick
    PROVE  FetchInv'
<1> DEFINE req == Head(mem_req)
<1>1. UNCHANGED <<mshr, core_req>>
    BY DEF memory_tick, cache
<1>2. CASE UNCHANGED <<mem_req, mem_rsp>>
    BY <1>1, <1>2, FillStays DEF FetchInv, Queued
<1>3. CASE mem_req # <<>> /\ mem_req' = Tail(mem_req)
    <2>1. /\ DOMAIN mem_req = 1 .. Len(mem_req) /\ Len(mem_req) \in Nat \ {0}
          /\ Len(mem_req') = Len(mem_req) - 1 /\ DOMAIN mem_req' = 1 .. Len(mem_req')
          /\ \A i \in 1 .. Len(mem_req) - 1 : mem_req'[i] = mem_req[i + 1]
          /\ req = mem_req[1] /\ MemRequests'
        BY <1>3 DEF FetchInv, MemRequests
    <2>2. \A i \in Int : i \in Fetches' <=> i >= 1 /\ i + 1 \in Fetches
        BY <2>1 DEF Fetches
    <2>3. Fetches \subseteq 1 .. Len(mem_req) /\ Fetches' \subseteq 1 .. Len(mem_req) - 1
        BY <2>1 DEF Fetches
    <2>4. CASE req.is_write /\ mem_rsp' = mem_rsp
        <3>1. 1 \notin Fetches
            BY <2>1, <2>4 DEF Fetches
        <3>2. Fetches = {} => Fetches' = {}
            BY <2>2, <2>3
        <3>3. \A i \in Fetches : Fetches = {i} =>
                 Fetches' = {i - 1} /\ mem_req'[i - 1] = mem_req[i]
            <4> SUFFICES ASSUME NEW i \in Fetches, Fetches = {i}
                         PROVE  Fetches' = {i - 1} /\ mem_req'[i - 1] = mem_req[i]
                OBVIOUS
            <4>1. i \in 2 .. Len(mem_req)
                BY <2>1, <2>3, <3>1
            <4>2. i - 1 \in 1 .. Len(mem_req) - 1 /\ (i - 1) + 1 = i
                BY <2>1, <4>1
            <4>3. \A j \in Fetches' : j \in Int /\ j + 1 = i
                BY <2>1, <2>2, <2>3
            <4>4. i - 1 \in Fetches' /\ \A j \in Fetches' : j = i - 1
                BY <2>2, <4>2, <4>3
            <4> QED
                BY <2>1, <4>2, <4>4
        <3>4. FillIsExpected'
            <4>1. CASE Fetches = {}
                BY <1>1, <2>4, <3>2, <4>1 DEF FetchInv, FillIsExpected
            <4>2. CASE Fetches # {}
                <5>1. PICK i \in Fetches : Fetches = {i} /\ mem_req[i].addr = line_addr(mshr.req.addr)
                    BY <4>2 DEF FetchInv, FillIsExpected
                <5>2. mshr.valid /\ mem_rsp = <<>>
                    BY <4>2 DEF FetchInv, FillIsExpected
                <5>3. i - 1 \in Fetches' /\ Fetches' = {i - 1} /\ mem_req'[i - 1] = mem_req[i]
                    BY <3>3, <5>1
                <5> QED
                    BY <1>1, <2>4, <5>1, <5>2, <5>3 DEF FillIsExpected, line_addr, line_offset
            <4> QED
                BY <4>1, <4>2
        <3> QED
            BY <1>1, <2>1, <2>4, <3>4 DEF FetchInv, Queued, OneLine
    <2>5. CASE ~req.is_write /\ mem_rsp' = Append(mem_rsp, line_at(ram, req.addr))
        <3>1. 1 \in Fetches
            BY <2>1, <2>5 DEF Fetches
        <3>2. Fetches = {1} /\ mem_rsp = <<>> /\ mshr.valid
            BY <3>1 DEF FetchInv, FillIsExpected
        <3>3. Fetches' = {}
            BY <2>2, <2>3, <3>2
        <3>4. mem_rsp' = <<line_at(ram, req.addr)>> /\ Len(mem_rsp') = 1
            BY <2>5, <3>2
        <3>5. FillIsExpected'
            BY <1>1, <3>2, <3>3, <3>4 DEF FillIsExpected
        <3> QED
            BY <1>1, <2>1, <3>4, <3>5 DEF FetchInv, Queued, OneLine
    <2> QED
        BY <1>3, <2>4, <2>5 DEF memory_tick
<1> QED
    BY <1>2, <1>3 DEF memory_tick

LEMMA FillFill ==
    ASSUME FetchInv, fill
    PROVE  FetchInv'
<1>1. CASE mem_rsp = <<>>
    BY <1>1, FillStays DEF fill, cache, channels, FetchInv, Queued
<1>2. CASE mem_rsp # <<>>
    <2>1. mshr' = NoMiss /\ mem_rsp' = Tail(mem_rsp) /\ UNCHANGED <<core_req, mem_req>>
        BY <1>2 DEF fill
    <2>2. Fetches = {}
        BY <1>2 DEF FetchInv, FillIsExpected
    <2>3. mem_rsp' = <<>>
        BY <1>2, <2>1 DEF FetchInv, OneLine
    <2>4. FillIsExpected'
        BY <2>1, <2>2, <2>3 DEF FillIsExpected, Fetches, NoMiss
    <2> QED
        BY <2>1, <2>3, <2>4 DEF FetchInv, Queued, MemRequests, OneLine, NoMiss
<1> QED
    BY <1>1, <1>2

LEMMA FetchInvNext == FetchInv /\ [Next]_vars => FetchInv'
<1> SUFFICES ASSUME FetchInv, [Next]_vars PROVE FetchInv'
    OBVIOUS
<1>1. CASE memory_tick
    BY <1>1, MemoryFill
<1>2. CASE cache_tick
    <2>1. CASE respond
        BY <2>1, FillStays DEF respond, FetchInv, Queued
    <2>2. CASE fill
        BY <2>2, FillFill
    <2>3. CASE next_request
        <3>1. CASE core_req = <<>>
            BY <2>3, <3>1, FillStays DEF next_request, cache, channels, FetchInv, Queued
        <3>2. CASE core_req # <<>> /\ write(Head(core_req))
            BY <3>2, WriteFill
        <3>3. CASE core_req # <<>> /\ read_hit(Head(core_req))
            <4>1. UNCHANGED <<mem_req, mem_rsp, mshr>> /\ core_req' \in {core_req, Tail(core_req)}
                BY <3>3 DEF read_hit, cache, channels
            <4> QED
                BY <3>3, <4>1, FillStays, RequestsLeave DEF FetchInv, Queued
        <3>4. CASE core_req # <<>> /\ read_miss(Head(core_req))
            BY <2>3, <3>4, MissFill DEF next_request
        <3> QED
            BY <2>3, <3>1, <3>2, <3>3, <3>4 DEF next_request
    <2> QED
        BY <1>2, <2>1, <2>2, <2>3 DEF cache_tick
<1>3. CASE LSQ_tick
    <2>1. UNCHANGED <<mem_req, mem_rsp, mshr>>
        BY <1>3 DEF LSQ_tick, cache
    <2>2. Queued'
        BY <1>3 DEF LSQ_tick, FetchInv, Queued
    <2> QED
        BY <2>1, <2>2, FillStays
<1>4. CASE LSU_takes
    BY <1>4, FillStays DEF LSU_takes, cache, FetchInv, Queued
<1>5. CASE LSU_is_busy
    BY <1>5, FillStays DEF LSU_is_busy, cache, channels, FetchInv, Queued
<1>6. CASE UNCHANGED vars
    BY <1>6, FillStays DEF vars, cache, channels, FetchInv, Queued
<1> QED
    BY <1>1, <1>2, <1>3, <1>4, <1>5, <1>6 DEF Next

(* For every geometry of the cache, every capacity of its channels and every
   request: memory returns a line only to the miss that asked for it, and there
   is never a second fetch, so "Unexpected memory response without a pending
   miss context" is not reached (Cache::tick, Memory::tick). *)
THEOREM OneFetch == Spec => []FillIsExpected
<1>1. FetchInv => FillIsExpected
    BY DEF FetchInv
<1>2. Spec => []FetchInv
    BY FetchInvInit, FetchInvNext, PTL DEF Spec
<1> QED
    BY <1>1, <1>2, PTL

------------------------------------------------------------------------------
(* A set of positions in a queue has a last one. *)
LEMMA LastPosition ==
    ASSUME NEW n \in Nat, NEW S \in SUBSET (1 .. n), S # {}
    PROVE  Max(S) \in S /\ \A i \in S : i <= Max(S)
<1> DEFINE Behind == {n - i : i \in S}
<1>1. Behind \subseteq Nat /\ Behind # {}
    <2>1. \A i \in S : n - i \in Nat
        OBVIOUS
    <2> QED
        BY <2>1
<1>2. PICK b \in Behind : \A c \in Behind : ~ (<<c, b>> \in OpToRel(<, Nat))
    <2> HIDE DEF Behind
    <2> QED
        BY <1>1, NatLessThanWellFounded, WFMin
<1>3. PICK m \in S : b = n - m
    OBVIOUS
<1>4. \A i \in S : m >= i
    <2> SUFFICES ASSUME NEW i \in S PROVE m >= i
        OBVIOUS
    <2>1. n - i \in Behind /\ n - i \in Nat /\ b \in Nat
        BY <1>1
    <2>2. ~ (n - i < b)
        <3> HIDE DEF Behind
        <3> QED
            BY <1>2, <2>1 DEF OpToRel
    <2> QED
        BY <1>3, <2>2
<1>5. Max(S) \in S /\ \A i \in S : Max(S) >= i
    BY <1>4 DEF Max
<1> QED
    BY <1>5

LEMMA LastIs ==
    ASSUME NEW S \in SUBSET Int, NEW m \in S, \A i \in S : i <= m
    PROVE  Max(S) = m
<1>1. m \in S /\ \A i \in S : m >= i
    OBVIOUS
<1>2. Max(S) \in S /\ \A i \in S : Max(S) >= i
    BY <1>1 DEF Max
<1>3. Max(S) \in Int /\ m \in Int /\ Max(S) >= m /\ Max(S) <= m
    BY <1>2
<1> QED
    BY <1>3

------------------------------------------------------------------------------
(* What a request does to the writes under way. *)
LastWrite(a) == mem_req[Max(Writes(a))]

LEMMA MemoryAt ==
    /\ Memory = [a \in Address |-> Memory[a]]
    /\ \A a \in Address : Memory[a] = IF Writes(a) = {} THEN ram[a] ELSE LastWrite(a).data[a - LastWrite(a).addr]
BY DEF Memory, LastWrite

(* The cache's request comes behind them. *)
LEMMA Sent ==
    ASSUME MemRequests, ram' = ram, NEW req \in OnTheWay, mem_req' = Append(mem_req, req)
    PROVE  Memory' = IF req.is_write THEN written(Memory, req) ELSE Memory
<1> DEFINE n == Len(mem_req) + 1
<1>1. /\ n \in Nat \ {0} /\ mem_req'[n] = req /\ DOMAIN mem_req = 1 .. n - 1 /\ DOMAIN mem_req' = 1 .. n
      /\ \A i \in 1 .. n - 1 : mem_req'[i] = mem_req[i]
    BY DEF MemRequests
<1>2. ASSUME NEW a \in Address
      PROVE  Memory'[a] = IF req.is_write /\ a \in Reach(req) THEN req.data[a - req.addr] ELSE Memory[a]
    <2>1. CASE req.is_write /\ a \in Reach(req)
        <3>1. n \in Writes(a)' /\ Writes(a)' \in SUBSET Int /\ \A i \in Writes(a)' : i <= n
            BY <1>1, <2>1 DEF Writes, Reach
        <3>2. Max(Writes(a)') = n
            <4> HIDE DEF n
            <4> QED
                BY <3>1, LastIs
        <3>3. LastWrite(a)' = req
            BY <1>1, <3>2 DEF LastWrite
        <3>4. Memory'[a] = LastWrite(a)'.data[a - LastWrite(a)'.addr]
            BY <3>1 DEF Memory, LastWrite
        <3> QED
            BY <2>1, <3>3, <3>4
    <2>2. CASE ~(req.is_write /\ a \in Reach(req))
        <3>1. Writes(a)' = Writes(a)
            <4>1. \A i : i \in Writes(a)' <=> i \in 1 .. n /\ mem_req'[i].is_write /\ a \in Reach(mem_req'[i])
                BY <1>1 DEF Writes, Reach
            <4>2. \A i : i \in Writes(a) <=> i \in 1 .. n - 1 /\ mem_req[i].is_write /\ a \in Reach(mem_req[i])
                BY <1>1 DEF Writes
            <4>3. n \notin Writes(a)'
                BY <1>1, <2>2, <4>1
            <4>4. \A i \in 1 .. n - 1 : i \in Writes(a)' <=> i \in Writes(a)
                BY <1>1, <4>1, <4>2
            <4>5. \A i \in 1 .. n : i = n \/ i \in 1 .. n - 1
                BY <1>1
            <4> QED
                BY <4>1, <4>2, <4>3, <4>4, <4>5
        <3>2. CASE Writes(a) = {}
            BY <3>1, <3>2, <2>2 DEF Memory
        <3>3. CASE Writes(a) # {}
            <4>1. Max(Writes(a)) \in 1 .. n - 1
                <5>1. Writes(a) \in SUBSET (1 .. n - 1) /\ n - 1 \in Nat
                    BY <1>1 DEF Writes
                <5> HIDE DEF n
                <5> QED
                    BY <3>3, <5>1, LastPosition
            <4>2. LastWrite(a)' = LastWrite(a)
                BY <1>1, <3>1, <4>1 DEF LastWrite
            <4> QED
                BY <2>2, <3>1, <3>3, <4>2 DEF Memory, LastWrite
        <3> QED
            BY <3>2, <3>3
    <2> QED
        BY <2>1, <2>2
<1>3. /\ Memory' = [a \in Address |-> Memory'[a]]
      /\ Memory = [a \in Address |-> Memory[a]]
    BY DEF Memory
<1>4. req.is_write \in BOOLEAN
    BY RequestsAssumption DEF OnTheWay
<1>5. CASE req.is_write
    BY <1>2, <1>3, <1>5 DEF written
<1>6. CASE ~req.is_write
    BY <1>2, <1>3, <1>6
<1> QED
    BY <1>4, <1>5, <1>6

(* Memory takes the first of them: what it writes was there to be found. *)
LEMMA Served ==
    ASSUME MemRequests, mem_req # <<>>, mem_req' = Tail(mem_req),
           ram' = IF Head(mem_req).is_write THEN written(ram, Head(mem_req)) ELSE ram
    PROVE  Memory' = Memory
<1> DEFINE n   == Len(mem_req)
           req == Head(mem_req)
<1>1. /\ n \in Nat \ {0} /\ mem_req[1] = req /\ DOMAIN mem_req = 1 .. n /\ DOMAIN mem_req' = 1 .. n - 1
      /\ \A i \in 1 .. n - 1 : mem_req'[i] = mem_req[i + 1]
      /\ req \in OnTheWay
    BY DEF MemRequests
<1>2. ASSUME NEW a \in Address
      PROVE  Memory'[a] = Memory[a]
    <2>1. \A i : i \in Writes(a)' <=> i \in 1 .. n - 1 /\ mem_req[i + 1].is_write /\ a \in Reach(mem_req[i + 1])
        BY <1>1 DEF Writes, Reach
    <2>2. \A i : i \in Writes(a) <=> i \in 1 .. n /\ mem_req[i].is_write /\ a \in Reach(mem_req[i])
        BY <1>1 DEF Writes
    <2>3. CASE Writes(a)' # {}
        <3>1. Writes(a)' \in SUBSET (1 .. n - 1) /\ n - 1 \in Nat
            BY <1>1, <2>1
        <3>2. Max(Writes(a)') \in Writes(a)' /\ \A i \in Writes(a)' : i <= Max(Writes(a)')
            <4> HIDE DEF n
            <4> QED
                BY <2>3, <3>1, LastPosition
        <3> DEFINE m == Max(Writes(a)')
        <3> HIDE DEF m
        <3>3. m \in 1 .. n - 1 /\ m + 1 \in Writes(a)
            BY <1>1, <2>1, <2>2, <3>1, <3>2 DEF m
        <3>4. \A i \in Writes(a) : i <= m + 1
            <4> SUFFICES ASSUME NEW i \in Writes(a), i # 1 PROVE i <= m + 1
                BY <1>1, <2>2, <3>3
            <4>1. i - 1 \in 1 .. n - 1 /\ (i - 1) + 1 = i
                BY <1>1, <2>2
            <4>2. i - 1 \in Writes(a)'
                BY <2>1, <2>2, <4>1
            <4>3. i - 1 <= m
                BY <3>2, <4>2 DEF m
            <4> QED
                BY <3>3, <4>1, <4>3
        <3>5. Max(Writes(a)) = m + 1
            <4>1. Writes(a) \in SUBSET Int
                BY <2>2
            <4> QED
                BY <3>3, <3>4, <4>1, LastIs
        <3>6. LastWrite(a)' = LastWrite(a)
            BY <1>1, <3>3, <3>5 DEF LastWrite, m
        <3>7. Writes(a) # {}
            BY <3>3
        <3>8. Memory'[a] = LastWrite(a)'.data[a - LastWrite(a)'.addr]
            BY <2>3 DEF Memory, LastWrite
        <3>9. Memory[a] = LastWrite(a).data[a - LastWrite(a).addr]
            BY <3>7 DEF Memory, LastWrite
        <3> QED
            BY <3>6, <3>8, <3>9
    <2>4. CASE Writes(a)' = {}
        <3>1. \A i \in Writes(a) : i = 1
            <4> SUFFICES ASSUME NEW i \in Writes(a), i # 1 PROVE FALSE
                OBVIOUS
            <4>1. i - 1 \in 1 .. n - 1 /\ (i - 1) + 1 = i
                BY <1>1, <2>2
            <4> QED
                BY <2>1, <2>2, <2>4, <4>1
        <3>2. 1 \in Writes(a) <=> req.is_write /\ a \in Reach(req)
            BY <1>1, <2>2
        <3>3. Memory'[a] = ram'[a]
            BY <2>4 DEF Memory
        <3>4. CASE req.is_write /\ a \in Reach(req)
            <4>1. Writes(a) = {1}
                BY <3>1, <3>2, <3>4
            <4>2. Max(Writes(a)) = 1
                <5>1. Writes(a) \in SUBSET Int /\ 1 \in Writes(a) /\ \A i \in Writes(a) : i <= 1
                    BY <4>1
                <5> QED
                    BY <5>1, LastIs
            <4>3. Memory[a] = req.data[a - req.addr]
                BY <1>1, <4>1, <4>2 DEF Memory
            <4> QED
                BY <3>3, <3>4, <4>3 DEF written
        <3>5. CASE ~(req.is_write /\ a \in Reach(req))
            <4>1. Writes(a) = {}
                BY <3>1, <3>2, <3>5
            <4>2. Memory[a] = ram[a]
                BY <4>1 DEF Memory
            <4>3. ram'[a] = ram[a]
                BY <3>5 DEF written
            <4> QED
                BY <3>3, <4>2, <4>3
        <3> QED
            BY <3>4, <3>5
    <2> QED
        BY <2>3, <2>4
<1>3. Memory' = [a \in Address |-> Memory'[a]] /\ Memory = [a \in Address |-> Memory[a]]
    BY DEF Memory
<1> QED
    BY <1>2, <1>3

------------------------------------------------------------------------------
(* Lines and places in a line. *)
LineNo(addr) == addr \div MEM_BLOCK_SIZE

LEMMA Sizes ==
    /\ MEM_BLOCK_SIZE \in Nat \ {0} /\ SETS \in Nat \ {0} /\ LINES \in Nat \ {0}
    /\ WORD \in Nat \ {0} /\ WORD <= MEM_BLOCK_SIZE /\ CAPACITY \in Nat \ {0}
BY SizesAssumption

(* A number is a multiple of d and a rest in one way only. *)
LEMMA OneQuotient ==
    ASSUME NEW d \in Nat \ {0}, NEW p \in Int, NEW q \in Int,
           NEW r \in 0 .. d - 1, NEW t \in 0 .. d - 1, p * d + r = q * d + t
    PROVE  p = q /\ r = t
<1>1. ASSUME NEW a \in Int, NEW b \in Int, a < b PROVE a * d + d <= b * d
    <2>1. (b - a) * d >= 1 * d
        BY <1>1
    <2>2. b * d = a * d + (b - a) * d
        OBVIOUS
    <2>3. a * d \in Int /\ b * d \in Int /\ (b - a) * d \in Int
        OBVIOUS
    <2> QED
        BY <2>1, <2>2, <2>3
<1>2. p * d \in Int /\ q * d \in Int
    OBVIOUS
<1>3. CASE p < q
    BY <1>1, <1>2, <1>3
<1>4. CASE q < p
    BY <1>1, <1>2, <1>4
<1>5. CASE p = q
    BY <1>2, <1>5
<1> QED
    BY <1>3, <1>4, <1>5

LEMMA Division ==
    ASSUME NEW d \in Nat \ {0}, NEW n \in Int
    PROVE  n \div d \in Int /\ n % d \in 0 .. d - 1 /\ n = (n \div d) * d + (n % d)
<1>1. n \div d \in Int /\ n % d \in 0 .. d - 1
    OBVIOUS
<1>2. n = d * (n \div d) + (n % d)
    OBVIOUS
<1> QED
    BY <1>1, <1>2

LEMMA AddressOfPlace ==
    ASSUME NEW n \in 0 .. LINES - 1, NEW o \in Offset
    PROVE  n * MEM_BLOCK_SIZE + o \in Address
<1>1. (n + 1) * MEM_BLOCK_SIZE <= LINES * MEM_BLOCK_SIZE
    BY Sizes
<1>2. (n + 1) * MEM_BLOCK_SIZE = n * MEM_BLOCK_SIZE + MEM_BLOCK_SIZE /\ n * MEM_BLOCK_SIZE \in Nat
    BY Sizes
<1>3. LINES * MEM_BLOCK_SIZE \in Nat
    BY Sizes
<1> QED
    BY <1>1, <1>2, <1>3, Sizes DEF Address, Offset

LEMMA PlaceOfAddress ==
    ASSUME NEW addr \in Address
    PROVE  /\ addr \in Nat
           /\ LineNo(addr) \in 0 .. LINES - 1
           /\ line_offset(addr) \in Offset
           /\ line_addr(addr) = LineNo(addr) * MEM_BLOCK_SIZE
           /\ addr = line_addr(addr) + line_offset(addr)
           /\ LineNo(addr) = line_tag(addr) * SETS + set_index(addr)
           /\ set_index(addr) \in Set /\ line_tag(addr) \in Int
<1>1. LINES * MEM_BLOCK_SIZE \in Nat
    BY Sizes
<1>2. addr \in Nat /\ addr < LINES * MEM_BLOCK_SIZE
    BY <1>1 DEF Address
<1>3. /\ LineNo(addr) \in Int /\ line_offset(addr) \in 0 .. MEM_BLOCK_SIZE - 1
      /\ addr = LineNo(addr) * MEM_BLOCK_SIZE + line_offset(addr)
    BY <1>2, Sizes, Division DEF LineNo, line_offset
<1>4. LineNo(addr) < LINES
    <2> SUFFICES ASSUME LineNo(addr) >= LINES PROVE FALSE
        BY <1>3, Sizes
    <2>1. LineNo(addr) * MEM_BLOCK_SIZE >= LINES * MEM_BLOCK_SIZE
        BY <1>3, Sizes
    <2>2. LineNo(addr) * MEM_BLOCK_SIZE \in Int
        BY <1>3, Sizes
    <2> QED
        BY <1>1, <1>2, <1>3, <2>1, <2>2, Sizes
<1>5. LineNo(addr) >= 0
    <2> SUFFICES ASSUME LineNo(addr) <= -1 PROVE FALSE
        BY <1>3
    <2>1. LineNo(addr) * MEM_BLOCK_SIZE <= (-1) * MEM_BLOCK_SIZE
        BY <1>3, Sizes
    <2>2. LineNo(addr) * MEM_BLOCK_SIZE \in Int
        BY <1>3, Sizes
    <2> QED
        BY <1>2, <1>3, <2>1, <2>2, Sizes
<1>6. LineNo(addr) = line_tag(addr) * SETS + set_index(addr)
    BY <1>3, Sizes, Division DEF LineNo, line_tag, set_index
<1>7. line_addr(addr) = LineNo(addr) * MEM_BLOCK_SIZE
    <2>1. LineNo(addr) * MEM_BLOCK_SIZE \in Int
        BY <1>3, Sizes
    <2> QED
        BY <1>2, <1>3, <2>1, Sizes DEF line_addr
<1>8. addr = line_addr(addr) + line_offset(addr)
    BY <1>3, <1>7
<1> QED
    BY <1>2, <1>3, <1>4, <1>5, <1>6, <1>7, <1>8, IndexAndTag, Sizes DEF Offset

LEMMA RequestFacts ==
    ASSUME NEW req \in Requests
    PROVE  /\ req.is_write \in BOOLEAN /\ req.addr \in Address /\ req.size \in 1 .. WORD
           /\ req.is_write => req.data \in Word
           /\ \A i \in 0 .. req.size - 1 : req.addr + i \in Address
<1>1. req.addr \in Address /\ req.addr + req.size - 1 \in Address /\ req.size \in 1 .. WORD
    BY RequestsAssumption
<1>2. LINES * MEM_BLOCK_SIZE \in Nat
    BY Sizes
<1>3. \A i \in 0 .. req.size - 1 : req.addr + i \in Address
    BY <1>1, <1>2, Sizes DEF Address
<1> QED
    BY <1>1, <1>3, RequestsAssumption

(* A request that fits reaches one line only, at its own place. *)
LEMMA ReachInLine ==
    ASSUME RequestsFit, NEW req \in Requests, NEW n \in 0 .. LINES - 1, NEW o \in Offset
    PROVE  LET a == n * MEM_BLOCK_SIZE + o
               i == o - line_offset(req.addr)
           IN  /\ a \in Reach(req) <=> n = LineNo(req.addr) /\ i \in 0 .. req.size - 1
               /\ a \in Reach(req) => a - req.addr = i
<1> DEFINE a    == n * MEM_BLOCK_SIZE + o
           k    == LineNo(req.addr)
           off  == line_offset(req.addr)
           i    == o - off
           base == k * MEM_BLOCK_SIZE
<1>1. /\ k \in 0 .. LINES - 1 /\ off \in 0 .. MEM_BLOCK_SIZE - 1 /\ req.addr = base + off
      /\ req.size \in 1 .. WORD /\ off + WORD <= MEM_BLOCK_SIZE /\ req.addr \in Nat
    BY RequestFacts, PlaceOfAddress DEF RequestsFit, fits, Offset
<1>2. base \in Int /\ a \in Int /\ o \in 0 .. MEM_BLOCK_SIZE - 1 /\ n * MEM_BLOCK_SIZE \in Int
    BY <1>1, Sizes DEF Offset
<1> HIDE DEF k, off
<1>3. ASSUME n = k
      PROVE  (a \in Reach(req) <=> i \in 0 .. req.size - 1) /\ a - req.addr = i
    <2>1. a = base + o
        BY <1>3
    <2> HIDE DEF a, base
    <2> QED
        BY <1>1, <1>2, <2>1, Sizes DEF Reach
<1>4. ASSUME a \in Reach(req)
      PROVE  n = k
    <2> DEFINE j == a - req.addr
    <2>1. j \in 0 .. req.size - 1 /\ a = base + (off + j)
        <3> HIDE DEF a, base
        <3> QED
            BY <1>1, <1>2, <1>4, Sizes DEF Reach
    <2>2. off + j \in 0 .. MEM_BLOCK_SIZE - 1
        <3> HIDE DEF j
        <3> QED
            BY <1>1, <2>1, Sizes
    <2> HIDE DEF j
    <2>3. n * MEM_BLOCK_SIZE + o = k * MEM_BLOCK_SIZE + (off + j)
        BY <2>1
    <2> QED
        BY <1>1, <1>2, <2>2, <2>3, Sizes, OneQuotient
<1> QED
    BY <1>3, <1>4 DEF k, off

(* What a write does to a line of memory, held or not. *)
LEMMA LineAfterWrite ==
    ASSUME RequestsFit, NEW req \in Requests, NEW n \in 0 .. LINES - 1, NEW bytes
    PROVE  line_at(written(bytes, req), n * MEM_BLOCK_SIZE) =
               IF n = LineNo(req.addr) THEN write_word_to_line(line_at(bytes, n * MEM_BLOCK_SIZE), req)
               ELSE line_at(bytes, n * MEM_BLOCK_SIZE)
<1> DEFINE i(o) == o - line_offset(req.addr)
           a(o) == n * MEM_BLOCK_SIZE + o
<1>1. ASSUME NEW o \in Offset
      PROVE  written(bytes, req)[a(o)] = IF n = LineNo(req.addr) /\ i(o) \in 0 .. req.size - 1
                                         THEN req.data[i(o)] ELSE bytes[a(o)]
    <2>1. a(o) \in Address
        BY AddressOfPlace
    <2>2. /\ a(o) \in Reach(req) <=> n = LineNo(req.addr) /\ i(o) \in 0 .. req.size - 1
          /\ a(o) \in Reach(req) => a(o) - req.addr = i(o)
        BY ReachInLine
    <2>3. written(bytes, req)[a(o)] = IF a(o) \in Reach(req) THEN req.data[a(o) - req.addr]
                                      ELSE bytes[a(o)]
        BY <2>1 DEF written
    <2> QED
        BY <2>2, <2>3
<1>2. fits(req.addr)
    BY DEF RequestsFit
<1> QED
    BY <1>1, <1>2 DEF line_at, write_word_to_line

(* What a read takes from a line is what memory has at its address. *)
LEMMA ReadFromLine ==
    ASSUME RequestsFit, NEW req \in Requests, NEW bytes \in [Address -> Byte]
    PROVE  LET word == read_word_from_line(line_at(bytes, line_addr(req.addr)), req.addr)
           IN  /\ word \in Word
               /\ \A i \in 0 .. req.size - 1 : word[i] = bytes[req.addr + i]
<1> DEFINE line == line_at(bytes, line_addr(req.addr))
           word == read_word_from_line(line, req.addr)
           off  == line_offset(req.addr)
<1>1. /\ fits(req.addr) /\ req.addr \in Nat /\ off \in 0 .. MEM_BLOCK_SIZE - 1
      /\ req.addr = line_addr(req.addr) + off /\ req.size \in 1 .. WORD
      /\ line_addr(req.addr) = LineNo(req.addr) * MEM_BLOCK_SIZE /\ LineNo(req.addr) \in 0 .. LINES - 1
    BY RequestFacts, PlaceOfAddress DEF RequestsFit, Offset
<1>2. line_addr(req.addr) \in Int
    BY <1>1, Sizes
<1>3. ASSUME NEW i \in InWord
      PROVE  /\ word[i] = bytes[req.addr + i] /\ req.addr + i \in Address
    <2>1. off + i \in Offset
        <3>1. off + WORD <= MEM_BLOCK_SIZE
            BY <1>1 DEF fits
        <3> HIDE DEF off
        <3> QED
            BY <1>1, <3>1, Sizes DEF InWord, Offset
    <2>2. word[i] = line[off + i]
        BY <1>1 DEF read_word_from_line
    <2>3. line[off + i] = bytes[line_addr(req.addr) + (off + i)]
        BY <2>1 DEF line_at
    <2>4. line_addr(req.addr) + (off + i) = req.addr + i
        <3> HIDE DEF off
        <3> QED
            BY <1>1, <1>2, Sizes DEF InWord
    <2>5. line_addr(req.addr) + (off + i) \in Address
        BY <1>1, <2>1, AddressOfPlace
    <2> QED
        BY <2>2, <2>3, <2>4, <2>5
<1>4. word = [i \in InWord |-> word[i]]
    BY <1>1 DEF read_word_from_line
<1>5. word \in Word
    BY <1>3, <1>4 DEF Word
<1>6. \A i \in 0 .. req.size - 1 : i \in InWord
    BY <1>1, Sizes DEF InWord
<1> QED
    BY <1>3, <1>5, <1>6

------------------------------------------------------------------------------
(* What is held, what is on its way, and what each has of memory. *)
Users == {req.user : req \in Requests}
Rsp   == [valid : {TRUE}, user : Users, size : 1 .. WORD, data : Word]

Typed ==
    /\ ram \in [Address -> Byte]
    /\ core_rsp \in Seq(Rsp)
    /\ pending_rsp = NoRsp \/ pending_rsp \in Rsp
    /\ Len(core_req) <= CAPACITY /\ Len(core_rsp) <= CAPACITY

DataArray == data_store = [s \in Set |-> [w \in Way |-> data_store[s][w]]]

Held(s, w) == tag_store[s][w].tag * SETS + s

KnownLines == \A s \in Set, w \in Way : tag_store[s][w].valid => Held(s, w) \in 0 .. LINES - 1

MissIsRead ==
    mshr.valid => /\ mshr.req \in Requests /\ ~mshr.req.is_write
                  /\ mshr.set = set_index(mshr.req.addr) /\ mshr.tag = line_tag(mshr.req.addr)

(* The cache sends nothing behind a fetch until the line is there. *)
FetchIsLast == \A i \in Fetches : i = Len(mem_req)

HeldInv   == DataArray /\ KnownLines /\ MissIsRead /\ FetchIsLast /\ LinesAgreeWithMemory
CacheInv  == LineInv /\ FetchInv /\ Typed /\ HeldInv

LEMMA CacheInvInit == Init => CacheInv
<1> SUFFICES ASSUME Init PROVE CacheInv
    OBVIOUS
<1>1. LineInv /\ FetchInv
    BY LineInvInit, FetchInvInit
<1>2. Typed
    BY Sizes, SizesAssumption DEF Init, Typed
<1>3. DataArray
    BY DEF Init, DataArray
<1>4. KnownLines /\ MissIsRead /\ FetchIsLast /\ LinesAgreeWithMemory
    BY DEF Init, KnownLines, MissIsRead, FetchIsLast, LinesAgreeWithMemory, Fetches, NoMiss
<1> QED
    BY <1>1, <1>2, <1>3, <1>4 DEF CacheInv, HeldInv

LEMMA MemoryIsBytes ==
    ASSUME MemRequests, ram \in [Address -> Byte]
    PROVE  Memory \in [Address -> Byte]
<1>1. ASSUME NEW a \in Address
      PROVE  Memory[a] \in Byte
    <2>1. CASE Writes(a) = {}
        BY <2>1 DEF Memory
    <2>2. CASE Writes(a) # {}
        <3>1. Len(mem_req) \in Nat /\ Writes(a) \in SUBSET (1 .. Len(mem_req))
            BY DEF MemRequests, Writes
        <3>2. Max(Writes(a)) \in Writes(a)
            BY <2>2, <3>1, LastPosition
        <3>3. /\ LastWrite(a) \in Requests /\ LastWrite(a).is_write /\ a \in Reach(LastWrite(a))
            <4> DEFINE m == Max(Writes(a))
            <4> HIDE DEF m
            <4>1. m \in 1 .. Len(mem_req) /\ mem_req[m].is_write /\ a \in Reach(mem_req[m])
                BY <3>1, <3>2 DEF Writes, m
            <4>2. mem_req[m] \in OnTheWay
                BY <4>1 DEF MemRequests
            <4>3. mem_req[m] \in Requests
                BY <4>1, <4>2 DEF OnTheWay
            <4> QED
                BY <4>1, <4>3 DEF LastWrite, m
        <3>4. LastWrite(a).data \in Word /\ LastWrite(a).size \in 1 .. WORD /\ LastWrite(a).addr \in Int
            <4> DEFINE req == LastWrite(a)
            <4> HIDE DEF req
            <4>1. req \in Requests /\ req.is_write
                BY <3>3 DEF req
            <4>2. req.data \in Word /\ req.size \in 1 .. WORD /\ req.addr \in Address
                BY <4>1, RequestFacts
            <4>3. req.addr \in Int
                BY <4>2, PlaceOfAddress
            <4> QED
                BY <4>2, <4>3 DEF req
        <3>5. a - LastWrite(a).addr \in InWord
            BY <3>3, <3>4, PlaceOfAddress, Sizes DEF Reach, InWord
        <3> QED
            BY <2>2, <3>4, <3>5 DEF Memory, LastWrite, Word
    <2> QED
        BY <2>1, <2>2
<1>2. Memory = [a \in Address |-> Memory[a]]
    BY DEF Memory
<1> QED
    BY <1>1, <1>2

LEMMA MemoryStays == UNCHANGED <<ram, mem_req>> => Memory' = Memory
BY DEF Memory, Writes, Reach

LEMMA HeldStays ==
    ASSUME HeldInv, UNCHANGED <<ram, tag_store, data_store, mshr, mem_req, mem_rsp>>
    PROVE  HeldInv'
<1>1. Memory' = Memory
    BY MemoryStays
<1>2. DataArray' /\ KnownLines' /\ MissIsRead' /\ FetchIsLast'
    BY DEF HeldInv, DataArray, KnownLines, Held, MissIsRead, FetchIsLast, Fetches, set_index, line_tag
<1>3. LinesAgreeWithMemory'
    BY <1>1 DEF HeldInv, LinesAgreeWithMemory, line_at, line_addr, line_offset
<1> QED
    BY <1>2, <1>3 DEF HeldInv

------------------------------------------------------------------------------
(* The queues of the array of bytes. *)
Ans(q) == [i \in DOMAIN q |-> Answer(q[i])]
AnsSet == {Answer(rsp) : rsp \in Rsp}

LEMMA AnswersFollow ==
    ASSUME NEW q \in Seq(Rsp)
    PROVE  /\ Ans(q) \in Seq(AnsSet) /\ Len(Ans(q)) = Len(q)
           /\ \A rsp \in Rsp : Ans(Append(q, rsp)) = Append(Ans(q), Answer(rsp))
           /\ q # <<>> => Ans(q) # <<>> /\ Ans(Tail(q)) = Tail(Ans(q))
<1>1. Ans(q) \in Seq(AnsSet) /\ Len(Ans(q)) = Len(q)
    BY DEF Ans, AnsSet
<1>2. ASSUME NEW rsp \in Rsp
      PROVE  Ans(Append(q, rsp)) = Append(Ans(q), Answer(rsp))
    BY <1>1 DEF Ans, AnsSet
<1>3. ASSUME q # <<>>
      PROVE  Ans(q) # <<>> /\ Ans(Tail(q)) = Tail(Ans(q))
    BY <1>1, <1>3 DEF Ans
<1> QED
    BY <1>1, <1>2, <1>3

LEMMA AskedIs ==
    ASSUME Queued, mshr.valid => mshr.req \in Requests
    PROVE  /\ ~mshr.valid => Asked = core_req
           /\ mshr.valid => /\ Asked # <<>> /\ Head(Asked) = mshr.req /\ Tail(Asked) = core_req
                            /\ Len(Asked) = Len(core_req) + 1
                            /\ \A req \in Requests : Append(Asked, req) = <<mshr.req>> \o Append(core_req, req)
<1>1. CASE ~mshr.valid
    BY <1>1 DEF Asked, Queued
<1>2. CASE mshr.valid
    <2>1. Asked = <<mshr.req>> \o core_req
        BY <1>2 DEF Asked
    <2> QED
        BY <1>2, <2>1 DEF Queued
<1> QED
    BY <1>1, <1>2

AnsOf(q, rsp) == Ans(q) \o (IF rsp.valid THEN <<Answer(rsp)>> ELSE <<>>)

LEMMA AnswersAre == Answers = AnsOf(core_rsp, pending_rsp)
BY DEF Answers, AnsOf, Ans

LEMMA AnswersWith ==
    ASSUME NEW q \in Seq(Rsp), NEW rsp \in Rsp
    PROVE  AnsOf(q, rsp) = Append(Ans(q), Answer(rsp))
<1>1. Ans(q) \in Seq(AnsSet)
    BY AnswersFollow
<1>2. Answer(rsp) \in AnsSet
    BY DEF AnsSet
<1>3. Append(Ans(q), Answer(rsp)) = Ans(q) \o <<Answer(rsp)>>
    BY <1>1, <1>2, AppendIsConcat
<1>4. rsp.valid
    BY DEF Rsp
<1> QED
    BY <1>3, <1>4 DEF AnsOf

LEMMA AnswersWithout ==
    ASSUME NEW q \in Seq(Rsp), NEW rsp, ~rsp.valid
    PROVE  AnsOf(q, rsp) = Ans(q)
<1>1. Ans(q) \in Seq(AnsSet)
    BY AnswersFollow
<1>2. Ans(q) \o <<>> = Ans(q)
    BY <1>1, ConcatEmptySeq
<1> QED
    BY <1>2 DEF AnsOf

------------------------------------------------------------------------------
(* Each action, on what is held and on the array of bytes. *)
FlatStep == [Flat!Next]_(Flat!vars)

LEMMA QueuesStay ==
    /\ UNCHANGED <<mshr, core_req>> => Asked' = Asked
    /\ UNCHANGED <<core_rsp, pending_rsp>> => Answers' = Answers
BY DEF Asked, Answers, Answer

LEMMA Unseen == Memory' = Memory /\ Asked' = Asked /\ Answers' = Answers => FlatStep
BY DEF FlatStep, Flat!vars

LEMMA NothingMoves ==
    ASSUME CacheInv, UNCHANGED <<ram, cache, channels>>
    PROVE  Typed' /\ HeldInv' /\ FlatStep
<1>1. UNCHANGED <<ram, tag_store, data_store, mshr, mem_req, mem_rsp, core_req, core_rsp, pending_rsp>>
    BY DEF cache, channels
<1>2. Typed'
    BY <1>1 DEF CacheInv, Typed
<1>3. HeldInv'
    BY <1>1, HeldStays DEF CacheInv
<1>4. FlatStep
    BY <1>1, MemoryStays, QueuesStay, Unseen
<1> QED
    BY <1>2, <1>3, <1>4

(* Memory takes the first request, and returns the line that was asked for as
   all the writes before have left it. *)
LEMMA MemoryServes ==
    ASSUME CacheInv, memory_tick
    PROVE  Typed' /\ HeldInv' /\ FlatStep
<1> DEFINE req == Head(mem_req)
           n   == Len(mem_req)
<1>1. UNCHANGED <<tag_store, data_store, mshr, pending_rsp, core_req, core_rsp>>
    BY DEF memory_tick, cache
<1>2. CASE UNCHANGED <<ram, mem_req, mem_rsp>>
    <2>1. Typed'
        BY <1>1, <1>2 DEF CacheInv, Typed
    <2>2. HeldInv'
        BY <1>1, <1>2, HeldStays DEF CacheInv
    <2> QED
        BY <1>1, <1>2, <2>1, <2>2, MemoryStays, QueuesStay, Unseen
<1>3. CASE /\ mem_req # <<>> /\ mem_req' = Tail(mem_req)
           /\ \/ req.is_write /\ ram' = written(ram, req) /\ mem_rsp' = mem_rsp
              \/ ~req.is_write /\ ram' = ram /\ mem_rsp' = Append(mem_rsp, line_at(ram, req.addr))
    <2>1. /\ n \in Nat \ {0} /\ DOMAIN mem_req = 1 .. n /\ DOMAIN mem_req' = 1 .. n - 1
          /\ \A i \in 1 .. n - 1 : mem_req'[i] = mem_req[i + 1]
          /\ req = mem_req[1] /\ req \in OnTheWay /\ Len(mem_req') = n - 1
        BY <1>3 DEF CacheInv, FetchInv, MemRequests
    <2>2. Memory' = Memory
        <3>1. ram' = IF req.is_write THEN written(ram, req) ELSE ram
            BY <1>3
        <3> QED
            BY <1>3, <3>1, Served DEF CacheInv, FetchInv
    <2>3. ram' \in [Address -> Byte]
        <3>1. CASE req.is_write
            <4>1. req \in Requests
                BY <2>1, <3>1 DEF OnTheWay
            <4>2. req.data \in Word /\ req.size \in 1 .. WORD /\ req.addr \in Address
                BY <3>1, <4>1, RequestFacts
            <4>3. req.addr \in Int
                BY <4>2, PlaceOfAddress
            <4> HIDE DEF req
            <4>4. \A a \in Address : a \in Reach(req) => req.data[a - req.addr] \in Byte
                <5> SUFFICES ASSUME NEW a \in Address, a \in Reach(req)
                             PROVE  req.data[a - req.addr] \in Byte
                    OBVIOUS
                <5>1. a - req.addr \in InWord
                    BY <4>2, <4>3, PlaceOfAddress, Sizes DEF Reach, InWord
                <5> QED
                    BY <4>2, <5>1 DEF Word
            <4>5. written(ram, req) \in [Address -> Byte]
                BY <4>4 DEF CacheInv, Typed, written
            <4> QED
                BY <1>3, <3>1, <4>5 DEF req
        <3> QED
            BY <1>3, <3>1 DEF CacheInv, Typed
    <2>4. Typed'
        BY <1>1, <2>3 DEF CacheInv, Typed
    <2>5. DataArray' /\ KnownLines' /\ MissIsRead'
        BY <1>1 DEF CacheInv, HeldInv, DataArray, KnownLines, Held, MissIsRead, set_index, line_tag
    <2>6. FetchIsLast'
        <3> SUFFICES ASSUME NEW i \in Fetches' PROVE i = Len(mem_req')
            BY DEF FetchIsLast
        <3>1. i \in 1 .. n - 1 /\ ~mem_req[i + 1].is_write /\ i + 1 \in 1 .. n
            BY <2>1 DEF Fetches
        <3>2. i + 1 \in Fetches
            BY <2>1, <3>1 DEF Fetches
        <3>3. i + 1 = n
            BY <3>2 DEF CacheInv, HeldInv, FetchIsLast
        <3>4. i \in Int /\ n \in Int /\ Len(mem_req') = n - 1
            BY <2>1, <3>1
        <3> HIDE DEF n
        <3> QED
            BY <3>3, <3>4
    <2>7. \A s \in Set, w \in Way : tag_store'[s][w].valid =>
             data_store'[s][w] = line_at(Memory', (tag_store'[s][w].tag * SETS + s) * MEM_BLOCK_SIZE)
        BY <1>1, <2>2 DEF CacheInv, HeldInv, LinesAgreeWithMemory
    <2>8. mem_rsp' # <<>> => Head(mem_rsp') = line_at(Memory', line_addr(mshr'.req.addr))
        <3>1. CASE req.is_write
            BY <1>1, <1>3, <2>2, <3>1 DEF CacheInv, HeldInv, LinesAgreeWithMemory
        <3>2. CASE ~req.is_write
            <4>1. 1 \in Fetches /\ n = 1
                <5>1. 1 \in Fetches
                    BY <2>1, <3>2 DEF Fetches
                <5> QED
                    BY <5>1 DEF CacheInv, HeldInv, FetchIsLast
            <4>2. mshr.valid /\ mem_rsp = <<>> /\ req.addr = line_addr(mshr.req.addr)
                BY <2>1, <4>1 DEF CacheInv, FetchInv, FillIsExpected
            <4>3. mem_rsp' = <<line_at(ram, req.addr)>>
                BY <1>3, <3>2, <4>2
            <4>4. \A a \in Address : Memory'[a] = ram[a]
                <5>1. \A a : Writes(a)' = {}
                    BY <2>1, <4>1 DEF Writes
                <5> QED
                    BY <1>3, <3>2, <5>1 DEF Memory
            <4>5. \A o \in Offset : line_addr(mshr.req.addr) + o \in Address
                <5>1. mshr.req.addr \in Address
                    BY <4>2, RequestFacts DEF CacheInv, HeldInv, MissIsRead
                <5> QED
                    BY <5>1, PlaceOfAddress, AddressOfPlace
            <4>6. line_at(Memory', line_addr(mshr.req.addr)) = line_at(ram, line_addr(mshr.req.addr))
                BY <4>4, <4>5 DEF line_at
            <4> QED
                BY <1>1, <4>2, <4>3, <4>6
        <3> QED
            BY <3>1, <3>2
    <2>9. LinesAgreeWithMemory'
        BY <2>7, <2>8 DEF LinesAgreeWithMemory, line_at, line_addr, line_offset
    <2> QED
        BY <1>1, <2>2, <2>4, <2>5, <2>6, <2>9, QueuesStay, Unseen DEF HeldInv
<1> QED
    BY <1>2, <1>3 DEF memory_tick

(* The answer to a read that finds its line as memory has it. *)
LEMMA AnswerIsRight ==
    ASSUME RequestsFit, NEW req \in Requests, NEW bytes \in [Address -> Byte]
    PROVE  LET rsp == answer(req, line_at(bytes, line_addr(req.addr)))
           IN  /\ rsp \in Rsp
               /\ Answer(rsp) = [user |-> req.user,
                                 data |-> [i \in 0 .. req.size - 1 |-> bytes[req.addr + i]]]
<1> DEFINE word == read_word_from_line(line_at(bytes, line_addr(req.addr)), req.addr)
           rsp  == answer(req, line_at(bytes, line_addr(req.addr)))
<1>1. word \in Word /\ \A i \in 0 .. req.size - 1 : word[i] = bytes[req.addr + i]
    BY ReadFromLine
<1>2. rsp = [valid |-> TRUE, user |-> req.user, size |-> req.size, data |-> word]
    BY DEF answer
<1>3. req.user \in Users /\ req.size \in 1 .. WORD
    BY RequestFacts DEF Users
<1> HIDE DEF word, rsp
<1>4. rsp \in Rsp
    BY <1>1, <1>2, <1>3 DEF Rsp
<1>5. [i \in 0 .. req.size - 1 |-> word[i]] = [i \in 0 .. req.size - 1 |-> bytes[req.addr + i]]
    BY <1>1
<1>6. Answer(rsp) = [user |-> req.user, data |-> [i \in 0 .. req.size - 1 |-> word[i]]]
    BY <1>2 DEF Answer
<1> QED
    BY <1>4, <1>5, <1>6 DEF rsp

LEMMA FlatReads ==
    ASSUME Asked # <<>>, ~Head(Asked).is_write, Len(Answers) \in 0 .. CAPACITY, Memory' = Memory,
           Asked' = Tail(Asked),
           Answers' = Append(Answers,
               [user |-> Head(Asked).user,
                data |-> [i \in 0 .. Head(Asked).size - 1 |-> Memory[Head(Asked).addr + i]]])
    PROVE  FlatStep
<1>1. Flat!Read
    BY Sizes DEF Flat!Read
<1> QED
    BY <1>1 DEF FlatStep, Flat!Next

(* A buffered answer moves on. *)
LEMMA RespondsLater ==
    ASSUME CacheInv, respond, UNCHANGED ram
    PROVE  Typed' /\ HeldInv' /\ FlatStep
<1>1. UNCHANGED <<tag_store, data_store, mshr, core_req, mem_req, mem_rsp>>
    BY DEF respond
<1>2. HeldInv'
    BY <1>1, HeldStays DEF CacheInv
<1>3. CASE full(core_rsp)
    BY <1>1, <1>3, NothingMoves DEF respond, cache, channels
<1>4. CASE ~full(core_rsp)
    <2>1. core_rsp' = Append(core_rsp, pending_rsp) /\ pending_rsp' = NoRsp /\ pending_rsp \in Rsp
        BY <1>4 DEF respond, CacheInv, Typed, NoRsp
    <2>2. Len(core_rsp) < CAPACITY /\ Len(core_rsp) \in Nat
        BY <1>4, Sizes DEF full, CacheInv, Typed
    <2>3. Typed'
        BY <1>1, <2>1, <2>2, Sizes DEF CacheInv, Typed
    <2>4. Answers' = Answers
        <3>1. core_rsp \in Seq(Rsp) /\ core_rsp' \in Seq(Rsp) /\ ~pending_rsp'.valid
            BY <2>1, <2>3 DEF CacheInv, Typed, NoRsp
        <3>2. Answers = Append(Ans(core_rsp), Answer(pending_rsp))
            BY <2>1, <3>1, AnswersAre, AnswersWith
        <3>3. Answers' = Ans(core_rsp')
            <4>1. Answers' = AnsOf(core_rsp', pending_rsp')
                BY DEF Answers, AnsOf, Ans, Answer
            <4> QED
                BY <3>1, <4>1, AnswersWithout
        <3>4. Ans(Append(core_rsp, pending_rsp)) = Append(Ans(core_rsp), Answer(pending_rsp))
            BY <2>1, AnswersFollow DEF CacheInv, Typed
        <3> QED
            BY <2>1, <3>2, <3>3, <3>4
    <2> QED
        BY <1>1, <1>2, <2>3, <2>4, MemoryStays, QueuesStay, Unseen
<1> QED
    BY <1>3, <1>4

(* The line that comes is the one that was missed, and goes where no other way
   holds it. *)
LEMMA Fills ==
    ASSUME RequestsFit, CacheInv, fill, UNCHANGED ram
    PROVE  Typed' /\ HeldInv' /\ FlatStep
<1> DEFINE req  == mshr.req
           line == Head(mem_rsp)
<1>1. CASE mem_rsp = <<>>
    BY <1>1, NothingMoves DEF fill
<1>2. CASE mem_rsp # <<>>
    <2>1. /\ tag_store' = [tag_store EXCEPT ![mshr.set][mshr.way] = [valid |-> TRUE, tag |-> mshr.tag]]
          /\ data_store' = [data_store EXCEPT ![mshr.set][mshr.way] = line]
          /\ pending_rsp' = answer(req, line)
          /\ mshr' = NoMiss /\ mem_rsp' = Tail(mem_rsp)
          /\ UNCHANGED <<core_req, core_rsp, mem_req>>
        BY <1>2 DEF fill
    <2>2. /\ mshr.valid /\ ~pending_rsp.valid /\ req \in Requests /\ ~req.is_write
          /\ mshr.set = set_index(req.addr) /\ mshr.tag = line_tag(req.addr)
        BY DEF fill, waiting, CacheInv, HeldInv, MissIsRead
    <2>3. /\ mshr.set \in Set /\ mshr.tag \in Int
          /\ mshr.tag * SETS + mshr.set = LineNo(req.addr) /\ LineNo(req.addr) \in 0 .. LINES - 1
          /\ line_addr(req.addr) = LineNo(req.addr) * MEM_BLOCK_SIZE
        BY <2>2, RequestFacts, PlaceOfAddress
    <2>4. Memory' = Memory
        BY <2>1, MemoryStays
    <2>5. line = line_at(Memory, line_addr(req.addr))
        BY <1>2 DEF CacheInv, HeldInv, LinesAgreeWithMemory
    <2>6. Memory \in [Address -> Byte]
        BY MemoryIsBytes DEF CacheInv, FetchInv, Typed
    <2>7. /\ pending_rsp' \in Rsp
          /\ Answer(pending_rsp') = [user |-> req.user,
                                     data |-> [i \in 0 .. req.size - 1 |-> Memory[req.addr + i]]]
        BY <2>1, <2>2, <2>5, <2>6, AnswerIsRight
    <2>8. Typed'
        BY <2>1, <2>7 DEF CacheInv, Typed
    <2>9. \A s \in Set, w \in Way :
             /\ tag_store'[s][w] = IF s = mshr.set /\ w = mshr.way
                                   THEN [valid |-> TRUE, tag |-> mshr.tag] ELSE tag_store[s][w]
             /\ data_store'[s][w] = IF s = mshr.set /\ w = mshr.way THEN line ELSE data_store[s][w]
        <3>1. \A s \in Set, w \in Way :
                 tag_store'[s][w] = IF s = mshr.set /\ w = mshr.way
                                    THEN [valid |-> TRUE, tag |-> mshr.tag] ELSE tag_store[s][w]
            BY <2>1 DEF CacheInv, LineInv, Arrays
        <3> HIDE DEF line
        <3>2. \A s \in Set, w \in Way :
                 data_store'[s][w] = IF s = mshr.set /\ w = mshr.way THEN line ELSE data_store[s][w]
            BY <2>1 DEF CacheInv, HeldInv, DataArray
        <3> QED
            BY <3>1, <3>2 DEF line
    <2>10. DataArray'
        <3> HIDE DEF line
        <3> QED
            BY <2>1 DEF CacheInv, HeldInv, DataArray
    <2>11. KnownLines'
        BY <2>3, <2>9 DEF CacheInv, HeldInv, KnownLines, Held
    <2>12. MissIsRead' /\ FetchIsLast'
        <3>1. MissIsRead'
            BY <2>1 DEF MissIsRead, NoMiss
        <3>2. FetchIsLast'
            BY <2>1 DEF CacheInv, HeldInv, FetchIsLast, Fetches
        <3> QED
            BY <3>1, <3>2
    <2>13. mem_rsp' = <<>>
        <3>1. PICK x : mem_rsp = <<x>>
            BY <1>2 DEF CacheInv, FetchInv, OneLine
        <3>2. mem_rsp' = Tail(mem_rsp)
            BY <2>1
        <3> QED
            BY <3>1, <3>2
    <2>14. LinesAgreeWithMemory'
        <3>1. ASSUME NEW s \in Set, NEW w \in Way, tag_store'[s][w].valid
              PROVE  data_store'[s][w] =
                        line_at(Memory', (tag_store'[s][w].tag * SETS + s) * MEM_BLOCK_SIZE)
            <4>1. CASE s = mshr.set /\ w = mshr.way
                BY <2>3, <2>4, <2>5, <2>9, <4>1
            <4>2. CASE ~(s = mshr.set /\ w = mshr.way)
                BY <2>4, <2>9, <3>1, <4>2 DEF CacheInv, HeldInv, LinesAgreeWithMemory
            <4> QED
                BY <4>1, <4>2
        <3> QED
            BY <2>13, <3>1 DEF LinesAgreeWithMemory, line_at
    <2>15. FlatStep
        <3>1. Asked # <<>> /\ Head(Asked) = req /\ Tail(Asked) = core_req
            BY <2>2, AskedIs DEF CacheInv, FetchInv
        <3>2. Asked' = core_req
            BY <2>1 DEF Asked, NoMiss, CacheInv, FetchInv, Queued
        <3>3. Answers = Ans(core_rsp)
            BY <2>2, AnswersAre, AnswersWithout DEF CacheInv, Typed
        <3>4. Answers' = Append(Ans(core_rsp), Answer(pending_rsp'))
            <4>1. Answers' = AnsOf(core_rsp, pending_rsp')
                BY <2>1 DEF Answers, AnsOf, Ans, Answer
            <4> QED
                BY <2>7, <4>1, AnswersWith DEF CacheInv, Typed
        <3>5. Len(Ans(core_rsp)) \in 0 .. CAPACITY
            BY AnswersFollow DEF CacheInv, Typed
        <3> QED
            BY <2>2, <2>4, <2>7, <3>1, <3>2, <3>3, <3>4, <3>5, FlatReads
    <2> QED
        BY <2>8, <2>10, <2>11, <2>12, <2>14, <2>15 DEF HeldInv
<1> QED
    BY <1>1, <1>2

(* lookup finds one way. *)
LEMMA OneWay ==
    ASSUME LineInv, NEW addr \in Address, NEW w \in hit_ways(addr)
    PROVE  Min(hit_ways(addr)) = w
<1>1. /\ set_index(addr) \in Set /\ line_tag(addr) \in Int
      /\ \A v \in hit_ways(addr) : v \in Way /\ Holds(set_index(addr), v, line_tag(addr))
    BY IndexAndTag DEF hit_ways, Holds
<1>2. \A v \in hit_ways(addr) : v = w
    BY <1>1 DEF LineInv, Unique
<1>3. w \in Int
    BY <1>1 DEF Way
<1>4. hit_ways(addr) = {w}
    BY <1>2
<1> QED
    BY <1>3, <1>4 DEF Min

(* No way holds the line: only memory gets the bytes.  A way does: it is the
   only one, and it gets them too. *)
LEMMA Writing ==
    ASSUME RequestsFit, CacheInv, ~waiting, core_req # <<>>, write(Head(core_req)), UNCHANGED ram
    PROVE  Typed' /\ HeldInv' /\ FlatStep
<1> DEFINE req == Head(core_req)
           n   == LineNo(req.addr)
           s0  == set_index(req.addr)
           w0  == Min(hit_ways(req.addr))
<1>1. CASE full(mem_req)
    BY <1>1, NothingMoves DEF write
<1>2. CASE ~full(mem_req)
    <2>1. /\ req.is_write /\ mem_req' = Append(mem_req, req) /\ core_req' = Tail(core_req)
          /\ data_store' = IF hit_ways(req.addr) = {} THEN data_store
                           ELSE [data_store EXCEPT ![s0][w0] = write_word_to_line(@, req)]
          /\ UNCHANGED <<tag_store, mshr, pending_rsp, core_rsp, mem_rsp>>
        BY <1>2 DEF write
    <2>2. req \in Requests /\ Len(core_req') = Len(core_req) - 1 /\ Len(core_req) \in Nat
        BY <2>1 DEF CacheInv, LineInv, Queued
    <2>3. /\ n \in 0 .. LINES - 1 /\ s0 \in Set /\ line_tag(req.addr) \in Int
          /\ n = line_tag(req.addr) * SETS + s0
        BY <2>2, RequestFacts, PlaceOfAddress
    <2>4. Memory' = written(Memory, req)
        <3>1. req \in OnTheWay
            BY <2>2 DEF OnTheWay
        <3> QED
            BY <2>1, <3>1, Sent DEF CacheInv, FetchInv
    <2>5. Typed'
        BY <2>1, <2>2, Sizes DEF CacheInv, Typed
    <2>6. \A s \in Set, w \in Way :
             Holds(s, w, line_tag(req.addr)) /\ s = s0 <=> s = s0 /\ w \in hit_ways(req.addr)
        BY DEF Holds, hit_ways
    <2>7. ASSUME NEW s \in Set, NEW w \in Way, tag_store[s][w].valid, Held(s, w) = n
          PROVE  s = s0 /\ w = w0 /\ hit_ways(req.addr) # {}
        <3>1. tag_store[s][w].tag \in Int
            BY DEF CacheInv, LineInv, Arrays
        <3>2. s = s0 /\ tag_store[s][w].tag = line_tag(req.addr)
            <4>1. tag_store[s][w].tag * SETS + s = line_tag(req.addr) * SETS + s0
                BY <2>3, <2>7 DEF Held
            <4> DEFINE t  == tag_store[s][w].tag
                       t0 == line_tag(req.addr)
            <4> HIDE DEF s0, t, t0
            <4>2. s \in 0 .. SETS - 1 /\ s0 \in 0 .. SETS - 1 /\ t \in Int /\ t0 \in Int
                BY <2>3, <3>1 DEF Set, t, t0
            <4>3. t * SETS + s = t0 * SETS + s0
                BY <4>1 DEF t, t0
            <4>4. s = s0 /\ t = t0
                BY <4>2, <4>3, Sizes, OneQuotient
            <4> QED
                BY <4>4 DEF t, t0
        <3>3. w \in hit_ways(req.addr)
            BY <2>7, <3>2 DEF hit_ways
        <3>4. w0 = w
            BY <2>2, <3>3, RequestFacts, OneWay DEF CacheInv
        <3> QED
            BY <3>2, <3>3, <3>4
    <2>8. ASSUME hit_ways(req.addr) # {}
          PROVE  w0 \in Way /\ tag_store[s0][w0].valid /\ Held(s0, w0) = n
        <3>1. PICK w \in Way : w \in hit_ways(req.addr)
            BY <2>8 DEF hit_ways
        <3>2. tag_store[s0][w].valid /\ Held(s0, w) = n
            BY <2>3, <3>1 DEF hit_ways, Held
        <3>3. w = w0
            BY <2>3, <2>7, <3>1, <3>2
        <3> QED
            BY <3>1, <3>2, <3>3
    <2>9. ASSUME NEW s \in Set, NEW w \in Way, tag_store[s][w].valid
          PROVE  data_store'[s][w] = IF Held(s, w) = n THEN write_word_to_line(data_store[s][w], req)
                                     ELSE data_store[s][w]
        <3> HIDE DEF s0, w0, n, req
        <3>1. CASE Held(s, w) = n
            <4>1. s = s0 /\ w = w0 /\ hit_ways(req.addr) # {}
                BY <2>7, <2>9, <3>1
            <4>2. data_store' = [data_store EXCEPT ![s0][w0] = write_word_to_line(@, req)]
                BY <2>1, <4>1
            <4> QED
                BY <3>1, <4>1, <4>2 DEF CacheInv, HeldInv, DataArray
        <3>2. CASE Held(s, w) # n
            <4>1. CASE hit_ways(req.addr) = {}
                BY <2>1, <3>2, <4>1
            <4>2. CASE hit_ways(req.addr) # {}
                <5>1. ~(s = s0 /\ w = w0)
                    BY <2>8, <3>2, <4>2
                <5>2. data_store' = [data_store EXCEPT ![s0][w0] = write_word_to_line(@, req)]
                    BY <2>1, <4>2
                <5> QED
                    BY <3>2, <5>1, <5>2 DEF CacheInv, HeldInv, DataArray
            <4> QED
                BY <4>1, <4>2
        <3> QED
            BY <3>1, <3>2
    <2>10. DataArray'
        <3> HIDE DEF s0, w0, n, req
        <3>1. CASE hit_ways(req.addr) = {}
            BY <2>1, <3>1 DEF CacheInv, HeldInv, DataArray
        <3>2. CASE hit_ways(req.addr) # {}
            BY <2>1, <3>2 DEF CacheInv, HeldInv, DataArray
        <3> QED
            BY <3>1, <3>2
    <2>11. KnownLines' /\ MissIsRead'
        BY <2>1 DEF CacheInv, HeldInv, KnownLines, Held, MissIsRead, set_index, line_tag, waiting
    <2>12. Fetches = {} /\ mem_rsp = <<>>
        BY DEF CacheInv, FetchInv, FillIsExpected, waiting
    <2>13. FetchIsLast'
        <3>1. Fetches' = {}
            BY <2>1, <2>2, <2>12 DEF Fetches, CacheInv, FetchInv, MemRequests, OnTheWay
        <3> QED
            BY <3>1 DEF FetchIsLast
    <2>14. LinesAgreeWithMemory'
        <3>1. ASSUME NEW s \in Set, NEW w \in Way, tag_store[s][w].valid
              PROVE  data_store'[s][w] = line_at(Memory', Held(s, w) * MEM_BLOCK_SIZE)
            <4>1. Held(s, w) \in 0 .. LINES - 1
                BY <3>1 DEF CacheInv, HeldInv, KnownLines
            <4>2. data_store[s][w] = line_at(Memory, Held(s, w) * MEM_BLOCK_SIZE)
                BY <3>1 DEF CacheInv, HeldInv, LinesAgreeWithMemory, Held
            <4> HIDE DEF req, n
            <4>3. line_at(written(Memory, req), Held(s, w) * MEM_BLOCK_SIZE) =
                      IF Held(s, w) = n
                      THEN write_word_to_line(line_at(Memory, Held(s, w) * MEM_BLOCK_SIZE), req)
                      ELSE line_at(Memory, Held(s, w) * MEM_BLOCK_SIZE)
                BY <2>2, <4>1, LineAfterWrite DEF n
            <4> QED
                BY <2>4, <2>9, <3>1, <4>2, <4>3
        <3> QED
            BY <2>1, <2>12, <3>1 DEF LinesAgreeWithMemory, line_at, Held
    <2>15. FlatStep
        <3>1. Asked = core_req
            BY AskedIs DEF waiting, CacheInv, FetchInv
        <3>2. Asked' = Tail(core_req)
            BY <2>1 DEF Asked, waiting, CacheInv, FetchInv, Queued
        <3>3. Answers' = Answers
            BY <2>1, QueuesStay
        <3>4. Flat!Write
            BY <2>1, <2>4, <3>1, <3>2, <3>3 DEF Flat!Write, Flat!Reach, written, Reach
        <3> QED
            BY <3>4 DEF FlatStep, Flat!Next
    <2> QED
        BY <2>5, <2>10, <2>11, <2>13, <2>14, <2>15 DEF HeldInv
<1> QED
    BY <1>1, <1>2

(* A line that is held answers at once. *)
LEMMA ReadsHeld ==
    ASSUME RequestsFit, CacheInv, ~waiting, ~pending_rsp.valid, core_req # <<>>,
           read_hit(Head(core_req)), UNCHANGED ram
    PROVE  Typed' /\ HeldInv' /\ FlatStep
<1> DEFINE req == Head(core_req)
           s0  == set_index(req.addr)
           w0  == Min(hit_ways(req.addr))
           rsp == answer(req, data_store[s0][w0])
<1>1. CASE full(core_rsp)
    BY <1>1, NothingMoves DEF read_hit
<1>2. CASE ~full(core_rsp)
    <2>1. /\ ~req.is_write /\ hit_ways(req.addr) # {}
          /\ core_rsp' = Append(core_rsp, rsp) /\ core_req' = Tail(core_req)
          /\ UNCHANGED <<tag_store, data_store, mshr, pending_rsp, mem_req, mem_rsp>>
        BY <1>2 DEF read_hit
    <2>2. req \in Requests /\ Len(core_req') = Len(core_req) - 1 /\ Len(core_req) \in Nat
        BY <2>1 DEF CacheInv, LineInv, Queued
    <2>3. /\ LineNo(req.addr) = line_tag(req.addr) * SETS + s0 /\ s0 \in Set
          /\ line_addr(req.addr) = LineNo(req.addr) * MEM_BLOCK_SIZE
        BY <2>2, RequestFacts, PlaceOfAddress
    <2>4. data_store[s0][w0] = line_at(Memory, line_addr(req.addr))
        <3>1. w0 \in hit_ways(req.addr)
            <4>1. PICK w \in hit_ways(req.addr) : TRUE
                BY <2>1
            <4>2. w0 = w
                BY <2>2, RequestFacts, OneWay DEF CacheInv
            <4> QED
                BY <4>2
        <3>2. w0 \in Way /\ tag_store[s0][w0].valid /\ tag_store[s0][w0].tag = line_tag(req.addr)
            BY <3>1 DEF hit_ways
        <3> HIDE DEF w0
        <3> QED
            BY <2>3, <3>2 DEF CacheInv, HeldInv, LinesAgreeWithMemory
    <2>5. Memory \in [Address -> Byte]
        BY MemoryIsBytes DEF CacheInv, FetchInv, Typed
    <2>6. /\ rsp \in Rsp
          /\ Answer(rsp) = [user |-> req.user, data |-> [i \in 0 .. req.size - 1 |-> Memory[req.addr + i]]]
        BY <2>2, <2>4, <2>5, AnswerIsRight
    <2>7. Len(core_rsp) < CAPACITY /\ Len(core_rsp) \in Nat
        BY <1>2, Sizes DEF full, CacheInv, Typed
    <2>8. Typed'
        <3> HIDE DEF rsp
        <3> QED
            BY <2>1, <2>2, <2>6, <2>7, Sizes DEF CacheInv, Typed
    <2>9. HeldInv'
        BY <2>1, HeldStays DEF CacheInv
    <2>10. Memory' = Memory
        BY <2>1, MemoryStays
    <2>11. FlatStep
        <3>1. Asked = core_req
            BY AskedIs DEF waiting, CacheInv, FetchInv
        <3>2. Asked' = Tail(core_req)
            BY <2>1 DEF Asked, waiting, CacheInv, FetchInv, Queued
        <3>3. Answers = Ans(core_rsp)
            BY AnswersAre, AnswersWithout DEF CacheInv, Typed
        <3>4. Answers' = Append(Ans(core_rsp), Answer(rsp))
            <4>1. Answers' = AnsOf(core_rsp', pending_rsp)
                BY <2>1 DEF Answers, AnsOf, Ans, Answer
            <4>2. core_rsp' \in Seq(Rsp)
                BY <2>8 DEF Typed
            <4>3. Answers' = Ans(core_rsp')
                BY <4>1, <4>2, AnswersWithout
            <4>4. Ans(Append(core_rsp, rsp)) = Append(Ans(core_rsp), Answer(rsp))
                BY <2>6, AnswersFollow DEF CacheInv, Typed
            <4> QED
                BY <2>1, <4>3, <4>4
        <3>5. Len(Ans(core_rsp)) \in 0 .. CAPACITY
            BY AnswersFollow DEF CacheInv, Typed
        <3> HIDE DEF rsp
        <3> QED
            BY <2>1, <2>6, <2>10, <3>1, <3>2, <3>3, <3>4, <3>5, FlatReads
    <2> QED
        BY <2>8, <2>9, <2>11
<1> QED
    BY <1>1, <1>2

(* A miss is not seen: the request it takes is still the next one. *)
LEMMA Misses ==
    ASSUME RequestsFit, CacheInv, ~waiting, core_req # <<>>, read_miss(Head(core_req)), UNCHANGED ram
    PROVE  Typed' /\ HeldInv' /\ FlatStep
<1> DEFINE req   == Head(core_req)
           fetch == [is_write |-> FALSE, addr |-> line_addr(req.addr)]
           n     == Len(mem_req) + 1
<1>1. CASE full(mem_req)
    BY <1>1, NothingMoves DEF read_miss
<1>2. CASE ~full(mem_req)
    <2>1. /\ ~req.is_write /\ mem_req' = Append(mem_req, fetch) /\ core_req' = Tail(core_req)
          /\ mshr' = [valid |-> TRUE, req |-> req, set |-> set_index(req.addr),
                      way |-> pick_victim_way(set_index(req.addr)), tag |-> line_tag(req.addr)]
          /\ UNCHANGED <<tag_store, data_store, pending_rsp, core_rsp, mem_rsp>>
        BY <1>2 DEF read_miss
    <2>2. req \in Requests /\ Len(core_req') = Len(core_req) - 1 /\ Len(core_req) \in Nat
        BY <2>1 DEF CacheInv, LineInv, Queued
    <2>3. fetch \in OnTheWay
        <3>1. line_addr(req.addr) \in Int
            BY <2>2, RequestFacts, PlaceOfAddress, Sizes
        <3> QED
            BY <3>1 DEF OnTheWay
    <2>4. Memory' = Memory
        <3>1. ~fetch.is_write
            OBVIOUS
        <3> HIDE DEF fetch
        <3> QED
            BY <2>1, <2>3, <3>1, Sent DEF CacheInv, FetchInv
    <2>5. Typed'
        BY <2>1, <2>2, Sizes DEF CacheInv, Typed
    <2>6. DataArray' /\ KnownLines'
        BY <2>1 DEF CacheInv, HeldInv, DataArray, KnownLines, Held
    <2>7. MissIsRead'
        BY <2>1, <2>2 DEF MissIsRead, set_index, line_tag
    <2>8. Fetches = {} /\ mem_rsp = <<>>
        BY DEF CacheInv, FetchInv, FillIsExpected, waiting
    <2>9. FetchIsLast'
        <3>1. /\ Len(mem_req') = n /\ n \in Nat /\ DOMAIN mem_req = 1 .. n - 1 /\ DOMAIN mem_req' = 1 .. n
              /\ \A i \in 1 .. n - 1 : mem_req'[i] = mem_req[i]
            BY <2>1, <2>3 DEF CacheInv, FetchInv, MemRequests
        <3>2. \A i \in 1 .. n - 1 : i \notin Fetches'
            BY <2>8, <3>1 DEF Fetches
        <3>3. \A i \in 1 .. n : i = n \/ i \in 1 .. n - 1
            BY <3>1
        <3>4. Fetches' \subseteq 1 .. n
            BY <3>1 DEF Fetches
        <3> QED
            BY <3>1, <3>2, <3>3, <3>4 DEF FetchIsLast
    <2>10. LinesAgreeWithMemory'
        BY <2>1, <2>4, <2>8 DEF CacheInv, HeldInv, LinesAgreeWithMemory, line_at
    <2>11. FlatStep
        <3>1. Asked = core_req
            BY AskedIs DEF waiting, CacheInv, FetchInv
        <3>2. Asked' = <<req>> \o Tail(core_req)
            BY <2>1 DEF Asked
        <3>3. Asked' = Asked
            BY <3>1, <3>2 DEF CacheInv, FetchInv, Queued
        <3> QED
            BY <2>1, <2>4, <3>3, QueuesStay, Unseen
    <2> QED
        BY <2>5, <2>6, <2>7, <2>9, <2>10, <2>11 DEF HeldInv
<1> QED
    BY <1>1, <1>2

LEMMA CacheTicks ==
    ASSUME RequestsFit, CacheInv, cache_tick
    PROVE  Typed' /\ HeldInv' /\ FlatStep
<1>1. UNCHANGED ram
    BY DEF cache_tick
<1>2. CASE respond
    BY <1>1, <1>2, RespondsLater
<1>3. CASE fill
    BY <1>1, <1>3, Fills
<1>4. CASE next_request
    <2>1. CASE core_req = <<>>
        BY <1>1, <1>4, <2>1, NothingMoves DEF next_request
    <2>2. CASE core_req # <<>> /\ write(Head(core_req))
        BY <1>1, <1>4, <2>2, Writing DEF next_request
    <2>3. CASE core_req # <<>> /\ read_hit(Head(core_req))
        BY <1>1, <1>4, <2>3, ReadsHeld DEF next_request
    <2>4. CASE core_req # <<>> /\ read_miss(Head(core_req))
        BY <1>1, <1>4, <2>4, Misses DEF next_request
    <2> QED
        BY <1>4, <2>1, <2>2, <2>3, <2>4 DEF next_request
<1> QED
    BY <1>2, <1>3, <1>4 DEF cache_tick

(* The load/store queue asks. *)
LEMMA Asks ==
    ASSUME CacheInv, LSQ_tick
    PROVE  Typed' /\ HeldInv' /\ FlatStep
<1>1. UNCHANGED <<ram, tag_store, data_store, mshr, pending_rsp, core_rsp, mem_req, mem_rsp>>
    BY DEF LSQ_tick, cache
<1>2. HeldInv'
    BY <1>1, HeldStays DEF CacheInv
<1>3. CASE UNCHANGED core_req
    <2>1. Typed'
        BY <1>1, <1>3 DEF CacheInv, Typed
    <2> QED
        BY <1>1, <1>2, <1>3, <2>1, MemoryStays, QueuesStay, Unseen
<1>4. CASE ~full(core_req) /\ \E req \in Requests : core_req' = Append(core_req, req)
    <2>1. PICK req \in Requests : core_req' = Append(core_req, req)
        BY <1>4
    <2>2. Len(core_req) \in Nat /\ Len(core_req) < CAPACITY /\ Len(core_req') = Len(core_req) + 1
        BY <1>4, <2>1, Sizes DEF full, CacheInv, FetchInv, Queued
    <2>3. Typed'
        BY <1>1, <2>2, Sizes DEF CacheInv, Typed
    <2>4. mshr.valid \in BOOLEAN /\ (mshr.valid => mshr.req \in Requests)
        BY DEF CacheInv, FetchInv, HeldInv, MissIsRead
    <2>5. Len(Asked) < CAPACITY + 1
        <3>1. CASE mshr.valid
            BY <2>2, <2>4, <3>1, AskedIs, Sizes DEF CacheInv, FetchInv
        <3>2. CASE ~mshr.valid
            BY <2>2, <2>4, <3>2, AskedIs, Sizes DEF CacheInv, FetchInv
        <3> QED
            BY <3>1, <3>2
    <2>6. Asked' = Append(Asked, req)
        <3>1. CASE mshr.valid
            <4>1. Asked' = <<mshr.req>> \o Append(core_req, req)
                BY <1>1, <2>1, <3>1 DEF Asked
            <4>2. Append(Asked, req) = <<mshr.req>> \o Append(core_req, req)
                BY <2>4, <3>1, AskedIs DEF CacheInv, FetchInv
            <4> QED
                BY <4>1, <4>2
        <3>2. CASE ~mshr.valid
            <4>1. Asked = core_req
                BY <3>2, AskedIs DEF CacheInv, FetchInv
            <4>2. Asked' = <<>> \o core_req'
                BY <1>1, <3>2 DEF Asked
            <4>3. core_req' \in Seq(Requests)
                BY <2>1 DEF CacheInv, FetchInv, Queued
            <4> QED
                BY <2>1, <4>1, <4>2, <4>3, ConcatEmptySeq
        <3> QED
            BY <3>1, <3>2
    <2>7. Flat!Ask(req)
        BY <1>1, <2>5, <2>6, MemoryStays, QueuesStay DEF Flat!Ask
    <2> QED
        BY <1>2, <2>3, <2>7 DEF FlatStep, Flat!Next
<1> QED
    BY <1>3, <1>4 DEF LSQ_tick

(* The unit takes an answer. *)
LEMMA Takes ==
    ASSUME CacheInv, LSU_takes
    PROVE  Typed' /\ HeldInv' /\ FlatStep
<1>1. /\ UNCHANGED <<ram, tag_store, data_store, mshr, pending_rsp, core_req, mem_req, mem_rsp>>
      /\ core_rsp # <<>> /\ core_rsp' = Tail(core_rsp)
    BY DEF LSU_takes, cache
<1>2. HeldInv'
    BY <1>1, HeldStays DEF CacheInv
<1>3. core_rsp \in Seq(Rsp) /\ core_rsp' \in Seq(Rsp) /\ Len(core_rsp') = Len(core_rsp) - 1
    BY <1>1 DEF CacheInv, Typed
<1>4. Typed'
    BY <1>1, <1>3, Sizes DEF CacheInv, Typed
<1>5. Ans(core_rsp) \in Seq(AnsSet) /\ Ans(core_rsp) # <<>> /\ Ans(core_rsp') = Tail(Ans(core_rsp))
    BY <1>1, <1>3, AnswersFollow
<1>6. Answers = AnsOf(core_rsp, pending_rsp) /\ Answers' = AnsOf(core_rsp', pending_rsp)
    <2>1. Answers' = AnsOf(core_rsp', pending_rsp)
        BY <1>1 DEF Answers, AnsOf, Ans, Answer
    <2> QED
        BY <2>1, AnswersAre
<1>7. Answers # <<>> /\ Answers' = Tail(Answers)
    <2>1. CASE pending_rsp = NoRsp
        <3>1. ~pending_rsp.valid
            BY <2>1 DEF NoRsp
        <3> QED
            BY <1>3, <1>5, <1>6, <3>1, AnswersWithout
    <2>2. CASE pending_rsp \in Rsp
        <3>1. Answers = Append(Ans(core_rsp), Answer(pending_rsp))
              /\ Answers' = Append(Tail(Ans(core_rsp)), Answer(pending_rsp))
            BY <1>3, <1>5, <1>6, <2>2, AnswersWith
        <3>2. Answer(pending_rsp) \in AnsSet
            BY <2>2 DEF AnsSet
        <3> QED
            BY <1>5, <3>1, <3>2, HeadTailAppend, AppendProperties
    <2> QED
        BY <2>1, <2>2 DEF CacheInv, Typed
<1>8. Flat!Take
    BY <1>1, <1>7, MemoryStays, QueuesStay DEF Flat!Take
<1> QED
    BY <1>2, <1>4, <1>8 DEF FlatStep, Flat!Next

LEMMA CacheSteps ==
    ASSUME RequestsFit, CacheInv, [Next]_vars
    PROVE  CacheInv' /\ FlatStep
<1>1. LineInv' /\ FetchInv'
    BY LineInvNext, FetchInvNext DEF CacheInv
<1>2. Typed' /\ HeldInv' /\ FlatStep
    <2>1. CASE memory_tick
        BY <2>1, MemoryServes
    <2>2. CASE cache_tick
        BY <2>2, CacheTicks
    <2>3. CASE LSQ_tick
        BY <2>3, Asks
    <2>4. CASE LSU_takes
        BY <2>4, Takes
    <2>5. CASE LSU_is_busy \/ UNCHANGED vars
        BY <2>5, NothingMoves DEF LSU_is_busy, vars
    <2> QED
        BY <2>1, <2>2, <2>3, <2>4, <2>5 DEF Next
<1> QED
    BY <1>1, <1>2 DEF CacheInv

LEMMA FlatInit == Init => Flat!Init
<1> SUFFICES ASSUME Init PROVE Flat!Init
    OBVIOUS
<1>1. CacheInv
    BY CacheInvInit
<1>2. Memory \in [Address -> Byte]
    BY <1>1, MemoryIsBytes DEF CacheInv, FetchInv, Typed
<1>3. Asked = <<>> /\ Answers = <<>>
    BY DEF Init, Asked, Answers, NoMiss, NoRsp
<1> QED
    BY <1>2, <1>3 DEF Flat!Init

(* For every geometry of the cache, every capacity of its channels and all
   requests that fit in their lines: a line that is held, and one that comes
   back, is what memory will be when the writes under way have arrived, however
   hits, misses and evictions cross them (Cache::tick, Memory::tick). *)
THEOREM LinesAreRight ==
    ASSUME RequestsFit
    PROVE  Spec => []LinesAgreeWithMemory
<1>1. CacheInv => LinesAgreeWithMemory
    BY DEF CacheInv, HeldInv
<1>2. CacheInv /\ [Next]_vars => CacheInv'
    BY CacheSteps
<1> QED
    BY <1>1, <1>2, CacheInvInit, PTL DEF Spec

(* For the same caches and requests, each step is a step of an array of bytes
   that serves in order, or is not seen: a write takes effect and a read gets
   its bytes when the cache takes them, whatever is late (Cache::tick,
   Memory::tick). *)
THEOREM Refinement ==
    ASSUME RequestsFit
    PROVE  Spec => ImplementsFlatMemory
<1>1. CacheInv /\ [Next]_vars => CacheInv' /\ FlatStep
    BY CacheSteps
<1> QED
    BY <1>1, CacheInvInit, FlatInit, PTL DEF Spec, ImplementsFlatMemory, Flat!Spec, FlatStep
==============================================================================
