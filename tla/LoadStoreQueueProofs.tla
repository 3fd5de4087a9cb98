------------------------- MODULE LoadStoreQueueProofs -------------------------
(***************************************************************************)
(* For every number of slots, size of the reorder buffer and of its        *)
(* window, and for every program: the counter of the load/store queue is   *)
(* right; the queue, the window and the cache go together exactly as long  *)
(* as no tag is misread; and until then, and while no store is overtaken,  *)
(* the loads and stores of the window are what MemoryOrder says of them.   *)
(***************************************************************************)
EXTENDS LoadStoreQueue, SequenceTheorems, FiniteSetTheorems, WellFoundedInduction, TLAPS

Loads  == {instr \in Instr : is_load(instr)}
Stores == {instr \in Instr : is_store(instr)}

Bytes(instr) == [0 .. instr.size - 1 -> Byte]
Value        == {NULL} \cup UNION {Bytes(instr) : instr \in Loads \cup Stores}

InFlight == [instr : Instr, waiting : BOOLEAN, ready : BOOLEAN, result : Value, lsq_idx : Slot \cup {NULL}]
Entry    == [valid : {TRUE}, state : {"Pending", "Issued", "Writeback", "Committed", "Voided"},
             addr_valid : BOOLEAN, data : Value, rob_tag : Tag, instr : Loads \cup Stores]
Input    == [valid : {TRUE}, rob_tag : Tag, instr : Loads \cup Stores, lsq_idx : Slot]
Output   == [valid : {TRUE}, rob_tag : Tag, value : Value]
ReadReq  == [is_write : {FALSE}, user : Slot, addr : Int, size : Nat]
WriteReq == {[is_write |-> TRUE, addr |-> instr.addr, size |-> instr.size, data |-> instr.data] :
                 instr \in Stores}
Rsp      == [user : Slot, data : Value]

TypeInv ==
    /\ window \in Seq(InFlight) /\ Len(window) <= WINDOW /\ head_tag \in Tag
    /\ store \in [Slot -> {NoEntry} \cup Entry] /\ tail_index \in Slot
    /\ input \in {NoInput} \cup Input /\ output \in {NoOutput} \cup Output
    /\ ram \in [Address -> Byte] /\ core_req \in Seq(ReadReq \cup WriteReq) /\ core_rsp \in Seq(Rsp)

(* An entry on its own: only loads are sent and voided, only stores are
   committed, and the data is the instruction's. *)
EntryInv ==
    \A s \in Valid :
        LET entry == store[s]
        IN  /\ entry.state \in {"Issued", "Voided"} => is_load(entry.instr)
            /\ entry.state = "Committed" => is_store(entry.instr)
            /\ is_store(entry.instr) /\ entry.state \in {"Writeback", "Committed"}
                   => entry.data = entry.instr.data
            /\ entry.data # NULL => entry.data \in Bytes(entry.instr)
            /\ is_load(entry.instr) /\ entry.state \in {"Pending", "Issued", "Voided"} => entry.data = NULL

Owners == {k \in DOMAIN window : is_lsu(window[k].instr)}

(* An instruction in flight and its entry. *)
OwnerInv ==
    \A k \in Owners :
        LET s == window[k].lsq_idx
        IN  /\ s \in Valid /\ store[s].rob_tag = tag_of(k) /\ store[s].instr = window[k].instr
            /\ store[s].state \in {"Pending", "Issued", "Writeback"}
            /\ window[k].waiting => store[s].state = "Pending" /\ ~store[s].addr_valid /\ ~window[k].ready
            /\ window[k].ready => store[s].state = "Writeback"

(* An entry without an instruction in flight is a committed store's or a voided
   load's. *)
LeftInv ==
    \A s \in Valid : store[s].state \in {"Pending", "Issued", "Writeback"}
                         => \E k \in Owners : window[k].lsq_idx = s

(* What is in the unit belongs to an instruction in flight. *)
UnitInv ==
    /\ input.valid =>
           \E k \in Owners :
               LET s == window[k].lsq_idx
               IN  /\ input.rob_tag = tag_of(k) /\ input.instr = window[k].instr /\ input.lsq_idx = s
                   /\ ~window[k].waiting /\ ~window[k].ready
                   /\ store[s].state = "Pending" /\ ~store[s].addr_valid
    /\ output.valid =>
           \E k \in Owners :
               /\ output.rob_tag = tag_of(k)
               /\ ~window[k].waiting /\ ~window[k].ready
               /\ store[window[k].lsq_idx].state = "Writeback"

(* A read on its way asks for what its slot's load reads, or has got it. *)
PacketInv ==
    /\ \A i \in DOMAIN core_req :
           ~core_req[i].is_write => /\ core_req[i].addr = store[core_req[i].user].instr.addr
                                    /\ core_req[i].size = store[core_req[i].user].instr.size
    /\ \A i \in DOMAIN core_rsp : core_rsp[i].data \in Bytes(store[core_rsp[i].user].instr)

(* AnswersHaveTheirSlot, with the two channels apart. *)
Waits == {s \in Valid : store[s].state \in {"Issued", "Voided"}}

ReadsAsked == {i \in DOMAIN core_req : ~core_req[i].is_write}

ChannelInv ==
    /\ \A i, j \in DOMAIN core_rsp : core_rsp[i].user = core_rsp[j].user => i = j
    /\ \A i, j \in ReadsAsked : core_req[i].user = core_req[j].user => i = j
    /\ \A i \in DOMAIN core_rsp, j \in ReadsAsked : core_rsp[i].user # core_req[j].user
    /\ \A i \in DOMAIN core_rsp : core_rsp[i].user \in Waits
    /\ \A j \in ReadsAsked : core_req[j].user \in Waits
    /\ \A s \in Waits : \/ \E i \in DOMAIN core_rsp : core_rsp[i].user = s
                        \/ \E j \in ReadsAsked : core_req[j].user = s

IInv == /\ TypeInv /\ EntryInv /\ OwnerInv /\ LeftInv /\ UnitInv /\ PacketInv
        /\ ChannelInv /\ CountIsRight

------------------------------------------------------------------------------
(* Tags, modulo twice the size of the ring. *)
LEMMA Sizes ==
    /\ ROB_SIZE \in Nat \ {0} /\ NUM_LSQS \in Nat \ {0} /\ CAPACITY \in Nat \ {0}
    /\ WINDOW \in 1 .. ROB_SIZE
BY RobSizeAssumption, QueueAssumption

LEMMA Ring ==
    ASSUME NEW h \in Tag, NEW j \in 0 .. 2 * ROB_SIZE - 1
    PROVE  /\ (h + j) % (2 * ROB_SIZE) = IF h + j < 2 * ROB_SIZE THEN h + j ELSE h + j - 2 * ROB_SIZE
           /\ (h + j) % (2 * ROB_SIZE) \in Tag
<1> DEFINE m == 2 * ROB_SIZE
           r == (h + j) % m
<1>1. m \in Nat \ {0} /\ h \in 0 .. m - 1 /\ j \in 0 .. m - 1
    BY Sizes DEF Tag
<1>2. r = (IF h + j < m THEN h + j ELSE h + j - m) /\ r \in 0 .. m - 1
    <2> HIDE DEF m
    <2> QED
        BY <1>1
<1> QED
    BY <1>2 DEF Tag

LEMMA Apart ==
    ASSUME NEW x \in Tag, NEW y \in Tag
    PROVE  (x - y) % (2 * ROB_SIZE) = IF x < y THEN x - y + 2 * ROB_SIZE ELSE x - y
<1> DEFINE m == 2 * ROB_SIZE
<1>1. m \in Nat \ {0} /\ x \in 0 .. m - 1 /\ y \in 0 .. m - 1
    BY Sizes DEF Tag
<1>2. (x - y) % m = IF x < y THEN x - y + m ELSE x - y
    <2> HIDE DEF m
    <2> QED
        BY <1>1
<1> QED
    BY <1>2

LEMMA TagIs ==
    ASSUME head_tag \in Tag, NEW k \in 1 .. 2 * ROB_SIZE
    PROVE  /\ tag_of(k) = IF head_tag + k - 1 < 2 * ROB_SIZE THEN head_tag + k - 1
                          ELSE head_tag + k - 1 - 2 * ROB_SIZE
           /\ tag_of(k) \in Tag
<1>1. k - 1 \in 0 .. 2 * ROB_SIZE - 1 /\ head_tag + k - 1 = head_tag + (k - 1)
    BY Sizes DEF Tag
<1>2. tag_of(k) = (head_tag + (k - 1)) % (2 * ROB_SIZE)
    BY <1>1 DEF tag_of
<1> HIDE DEF tag_of
<1> QED
    BY <1>1, <1>2, Ring

LEMMA TagsOf ==
    ASSUME head_tag \in Tag
    PROVE  /\ \A k \in 1 .. 2 * ROB_SIZE : tag_of(k) \in Tag
           /\ \A j, k \in 1 .. 2 * ROB_SIZE : tag_of(j) = tag_of(k) => j = k
           /\ \A j, k \in 1 .. ROB_SIZE : is_rob_younger(tag_of(j), tag_of(k)) <=> j > k
<1>1. \A k \in 1 .. 2 * ROB_SIZE :
         /\ tag_of(k) = IF head_tag + k - 1 < 2 * ROB_SIZE THEN head_tag + k - 1
                        ELSE head_tag + k - 1 - 2 * ROB_SIZE
         /\ tag_of(k) \in Tag
    BY TagIs
<1> HIDE DEF tag_of
<1>2. \A j, k \in 1 .. 2 * ROB_SIZE : tag_of(j) = tag_of(k) => j = k
    BY <1>1, Sizes DEF Tag
<1>3. ASSUME NEW j \in 1 .. ROB_SIZE, NEW k \in 1 .. ROB_SIZE
      PROVE  is_rob_younger(tag_of(j), tag_of(k)) <=> j > k
    <2>1. j \in 1 .. 2 * ROB_SIZE /\ k \in 1 .. 2 * ROB_SIZE
        BY Sizes
    <2>2. (tag_of(j) - tag_of(k)) % (2 * ROB_SIZE) = IF j >= k THEN j - k ELSE j - k + 2 * ROB_SIZE
        <3>1. (tag_of(j) - tag_of(k)) % (2 * ROB_SIZE)
                = IF tag_of(j) < tag_of(k) THEN tag_of(j) - tag_of(k) + 2 * ROB_SIZE ELSE tag_of(j) - tag_of(k)
            BY <1>1, <2>1, Apart
        <3> DEFINE r == (tag_of(j) - tag_of(k)) % (2 * ROB_SIZE)
        <3> HIDE DEF r
        <3>2. r = IF tag_of(j) < tag_of(k) THEN tag_of(j) - tag_of(k) + 2 * ROB_SIZE ELSE tag_of(j) - tag_of(k)
            BY <3>1 DEF r
        <3>3. r = IF j >= k THEN j - k ELSE j - k + 2 * ROB_SIZE
            BY <1>1, <2>1, <3>2, Sizes DEF Tag
        <3> QED
            BY <3>3 DEF r
    <2> QED
        BY <2>2, Sizes DEF is_rob_younger
<1> QED
    BY <1>1, <1>2, <1>3

(* A store that left the window age instructions ago. *)
LEMMA OldTag ==
    ASSUME head_tag \in Tag, NEW tag \in Tag, NEW age \in 1 .. ROB_SIZE,
           head_tag = (tag + age) % (2 * ROB_SIZE), NEW k \in 1 .. ROB_SIZE, age + k <= ROB_SIZE + 1
    PROVE  /\ ~is_rob_younger(tag, tag_of(k)) /\ tag # tag_of(k)
           /\ is_rob_younger(tag_of(k), tag) <=> age + k <= ROB_SIZE
<1>1. /\ tag_of(k) = IF head_tag + k - 1 < 2 * ROB_SIZE THEN head_tag + k - 1
                     ELSE head_tag + k - 1 - 2 * ROB_SIZE
      /\ tag_of(k) \in Tag
    BY Sizes, TagIs
<1>2. head_tag = IF tag + age < 2 * ROB_SIZE THEN tag + age ELSE tag + age - 2 * ROB_SIZE
    <2>1. age \in 0 .. 2 * ROB_SIZE - 1
        BY Sizes
    <2> QED
        BY <2>1, Ring
<1> HIDE DEF tag_of
<1>3. /\ (tag_of(k) - tag) % (2 * ROB_SIZE)
            = IF tag_of(k) < tag THEN tag_of(k) - tag + 2 * ROB_SIZE ELSE tag_of(k) - tag
      /\ (tag - tag_of(k)) % (2 * ROB_SIZE)
            = IF tag < tag_of(k) THEN tag - tag_of(k) + 2 * ROB_SIZE ELSE tag - tag_of(k)
    BY <1>1, Apart
<1> DEFINE d == (tag_of(k) - tag) % (2 * ROB_SIZE)
           e == (tag - tag_of(k)) % (2 * ROB_SIZE)
<1>4. /\ is_rob_younger(tag_of(k), tag) <=> d > 0 /\ d < ROB_SIZE
      /\ is_rob_younger(tag, tag_of(k)) <=> e > 0 /\ e < ROB_SIZE
    BY DEF is_rob_younger
<1> HIDE DEF d, e
<1>5. /\ d = IF tag_of(k) < tag THEN tag_of(k) - tag + 2 * ROB_SIZE ELSE tag_of(k) - tag
      /\ e = IF tag < tag_of(k) THEN tag - tag_of(k) + 2 * ROB_SIZE ELSE tag - tag_of(k)
    BY <1>3 DEF d, e
<1>6. d = age + k - 1 /\ e = 2 * ROB_SIZE - (age + k - 1)
    BY <1>1, <1>2, <1>5, Sizes DEF Tag
<1> QED
    BY <1>1, <1>2, <1>4, <1>6, Sizes DEF Tag

(* The head moves on. *)
LEMMA Advance ==
    ASSUME NEW h \in Tag, NEW j \in 0 .. 2 * ROB_SIZE - 2
    PROVE  (((h + 1) % (2 * ROB_SIZE)) + j) % (2 * ROB_SIZE) = (h + (j + 1)) % (2 * ROB_SIZE)
<1> DEFINE m == 2 * ROB_SIZE
           g == (h + 1) % m
<1>1. m \in Nat \ {0} /\ h \in 0 .. m - 1 /\ j \in 0 .. m - 2 /\ m >= 2
    BY Sizes DEF Tag
<1>2. (g + j) % m = (h + (j + 1)) % m
    <2>1. g = (IF h + 1 < m THEN h + 1 ELSE 0) /\ g \in 0 .. m - 1
        <3> HIDE DEF m
        <3> QED
            BY <1>1
    <2> HIDE DEF g, m
    <2>2. (g + j) % m = IF g + j < m THEN g + j ELSE g + j - m
        BY <1>1, <2>1
    <2>3. (h + (j + 1)) % m = IF h + j + 1 < m THEN h + j + 1 ELSE h + j + 1 - m
        BY <1>1
    <2> QED
        BY <1>1, <2>1, <2>2, <2>3
<1> QED
    BY <1>2

LEMMA NextTag ==
    ASSUME head_tag \in Tag, head_tag' = (head_tag + 1) % (2 * ROB_SIZE)
    PROVE  /\ head_tag' \in Tag
           /\ \A k \in 1 .. ROB_SIZE : tag_of(k)' = tag_of(k + 1)
           /\ \A tag \in Tag, age \in 0 .. ROB_SIZE - 1 :
                 head_tag = (tag + age) % (2 * ROB_SIZE) => head_tag' = (tag + (age + 1)) % (2 * ROB_SIZE)
           /\ \A n \in 0 .. ROB_SIZE - 1 : (head_tag' + n) % (2 * ROB_SIZE) = (head_tag + (n + 1)) % (2 * ROB_SIZE)
<1>1. 1 \in 0 .. 2 * ROB_SIZE - 1 /\ 0 .. ROB_SIZE - 1 \subseteq 0 .. 2 * ROB_SIZE - 2
    BY Sizes
<1>2. head_tag' \in Tag
    BY <1>1, Ring
<1>3. ASSUME NEW n \in 0 .. ROB_SIZE - 1
      PROVE  (head_tag' + n) % (2 * ROB_SIZE) = (head_tag + (n + 1)) % (2 * ROB_SIZE)
    BY <1>1, Advance
<1>4. ASSUME NEW k \in 1 .. ROB_SIZE
      PROVE  tag_of(k)' = tag_of(k + 1)
    <2>1. head_tag' + k - 1 = head_tag' + (k - 1) /\ head_tag + (k + 1) - 1 = head_tag + ((k - 1) + 1)
          /\ k - 1 \in 0 .. ROB_SIZE - 1
        BY <1>2, Sizes DEF Tag
    <2>2. (head_tag' + (k - 1)) % (2 * ROB_SIZE) = (head_tag + ((k - 1) + 1)) % (2 * ROB_SIZE)
        BY <1>3, <2>1
    <2>3. tag_of(k)' = (head_tag' + k - 1) % (2 * ROB_SIZE) /\ tag_of(k + 1) = (head_tag + (k + 1) - 1) % (2 * ROB_SIZE)
        BY DEF tag_of
    <2> QED
        BY <2>1, <2>2, <2>3
<1>5. ASSUME NEW tag \in Tag, NEW age \in 0 .. ROB_SIZE - 1, head_tag = (tag + age) % (2 * ROB_SIZE)
      PROVE  head_tag' = (tag + (age + 1)) % (2 * ROB_SIZE)
    <2> DEFINE m == 2 * ROB_SIZE
               r == (tag + age) % m
    <2>1. m \in Nat \ {0} /\ tag \in 0 .. m - 1 /\ age \in 0 .. m - 2 /\ m >= 2
        BY Sizes DEF Tag
    <2>2. (r + 1) % m = (tag + (age + 1)) % m
        <3>1. r = (IF tag + age < m THEN tag + age ELSE tag + age - m) /\ r \in 0 .. m - 1
            <4> HIDE DEF m
            <4> QED
                BY <2>1
        <3> HIDE DEF r, m
        <3>2. (r + 1) % m = IF r + 1 < m THEN r + 1 ELSE 0
            BY <2>1, <3>1
        <3>3. (tag + (age + 1)) % m = IF tag + age + 1 < m THEN tag + age + 1 ELSE tag + age + 1 - m
            BY <2>1
        <3> QED
            BY <2>1, <3>1, <3>2, <3>3
    <2> QED
        BY <1>5, <2>2
<1> QED
    BY <1>2, <1>3, <1>4, <1>5

------------------------------------------------------------------------------
(* Least numbers, the scan over the slots and the free slot. *)
LEMMA LeastNumber ==
    ASSUME NEW S, S \subseteq Nat, S # {}
    PROVE  \E m \in S : \A n \in S : m <= n
<1>1. PICK m \in S : \A n \in S : ~ (<<n, m>> \in OpToRel(<, Nat))
    BY NatLessThanWellFounded, WFMin
<1>2. ASSUME NEW n \in S PROVE m <= n
    <2>1. ~ (n < m)
        BY <1>1 DEF OpToRel
    <2> QED
        BY <2>1
<1> QED
    BY <1>2

IsScan(best, entries, before, n) ==
    best = [i \in 0 .. n |->
               IF i = 0 THEN NULL
               ELSE IF /\ i - 1 \in entries
                       /\ best[i - 1] = NULL \/ <<i - 1, best[i - 1]>> \in before
                    THEN i - 1 ELSE best[i - 1]]

LEMMA ScanExists ==
    ASSUME NEW entries, NEW before, NEW n \in Nat
    PROVE  \E best : IsScan(best, entries, before, n)
<1> DEFINE Missing == {m \in Nat : ~ \E best : IsScan(best, entries, before, m)}
<1> SUFFICES ASSUME Missing # {} PROVE FALSE
    OBVIOUS
<1>1. PICK m \in Missing : \A l \in Missing : m <= l
    <2> HIDE DEF Missing
    <2>1. Missing \subseteq Nat
        BY DEF Missing
    <2> QED
        BY <2>1, LeastNumber
<1>2. CASE m = 0
    <2>1. IsScan([i \in 0 .. 0 |-> NULL], entries, before, 0)
        BY DEF IsScan
    <2> QED
        BY <1>1, <1>2, <2>1
<1>3. CASE m # 0
    <2>1. m \in Nat /\ m - 1 \in Nat /\ m - 1 \notin Missing
        BY <1>1, <1>3
    <2>2. PICK best : IsScan(best, entries, before, m - 1)
        BY <2>1
    <2> DEFINE last == IF /\ m - 1 \in entries
                          /\ best[m - 1] = NULL \/ <<m - 1, best[m - 1]>> \in before
                       THEN m - 1 ELSE best[m - 1]
               longer == [i \in 0 .. m |-> IF i = m THEN last ELSE best[i]]
    <2>3. IsScan(longer, entries, before, m)
        <3> SUFFICES ASSUME NEW i \in 0 .. m
                     PROVE  longer[i] = IF i = 0 THEN NULL
                                        ELSE IF /\ i - 1 \in entries
                                                /\ longer[i - 1] = NULL \/ <<i - 1, longer[i - 1]>> \in before
                                             THEN i - 1 ELSE longer[i - 1]
            BY Zenon DEF IsScan
        <3>1. CASE i = m
            <4>1. i - 1 \in 0 .. m /\ i - 1 # m
                BY <1>3, <2>1, <3>1
            <4>2. longer[i - 1] = best[m - 1] /\ longer[i] = last
                BY <2>1, <3>1, <4>1
            <4> QED
                BY <1>3, <3>1, <4>2
        <3>2. CASE i # m
            <4>1. best[i] = IF i = 0 THEN NULL
                            ELSE IF /\ i - 1 \in entries
                                    /\ best[i - 1] = NULL \/ <<i - 1, best[i - 1]>> \in before
                                 THEN i - 1 ELSE best[i - 1]
                <5>1. i \in 0 .. m - 1
                    BY <2>1, <3>2
                <5> QED
                    BY <2>2, <5>1 DEF IsScan
            <4>2. longer[i] = best[i] /\ (i # 0 => longer[i - 1] = best[i - 1])
                BY <2>1, <3>2
            <4> QED
                BY <4>1, <4>2
        <3> QED
            BY <3>1, <3>2
    <2> QED
        BY <1>1, <2>3
<1> QED
    BY <1>2, <1>3

(* A scan gives one of the entries, if there is one. *)
LEMMA ScanFinds ==
    ASSUME NEW entries \in SUBSET Slot, NEW before
    PROVE  /\ scan(entries, before) # NULL => scan(entries, before) \in entries
           /\ entries # {} => scan(entries, before) \in entries
<1> DEFINE Best == CHOOSE best : IsScan(best, entries, before, NUM_LSQS)
<1>1. IsScan(Best, entries, before, NUM_LSQS)
    BY ScanExists, Sizes
<1>2. scan(entries, before) = Best[NUM_LSQS]
    BY Zenon DEF scan, IsScan
<1> HIDE DEF Best
<1> DEFINE Fine(i) == /\ Best[i] = NULL \/ Best[i] \in entries
                      /\ (\E s \in entries : s < i) => Best[i] \in entries
           Wrong == {i \in 0 .. NUM_LSQS : ~Fine(i)}
<1>3. Wrong = {}
    <2> SUFFICES ASSUME Wrong # {} PROVE FALSE
        OBVIOUS
    <2>1. PICK m \in Wrong : \A l \in Wrong : m <= l
        <3>1. Wrong \subseteq Nat
            BY Sizes
        <3> HIDE DEF Wrong
        <3> QED
            BY <3>1, LeastNumber
    <2>2. m \in 0 .. NUM_LSQS /\ ~Fine(m)
        BY <2>1
    <2>3. Best[m] = IF m = 0 THEN NULL
                    ELSE IF /\ m - 1 \in entries
                            /\ Best[m - 1] = NULL \/ <<m - 1, Best[m - 1]>> \in before
                         THEN m - 1 ELSE Best[m - 1]
        BY <1>1, <2>2 DEF IsScan
    <2>4. CASE m = 0
        BY <2>2, <2>3, <2>4 DEF Slot
    <2>5. CASE m # 0
        <3>1. m - 1 \in 0 .. NUM_LSQS /\ ~ (m <= m - 1)
            BY <2>2, <2>5, Sizes
        <3>2. Fine(m - 1)
            BY <2>1, <3>1
        <3>3. \A s \in entries : s < m <=> (s < m - 1 \/ s = m - 1)
            BY <2>2, Sizes DEF Slot
        <3> QED
            BY <2>2, <2>3, <2>5, <3>2, <3>3
    <2> QED
        BY <2>4, <2>5
<1>4. Fine(NUM_LSQS)
    BY <1>3, Sizes
<1>5. \A s \in entries : s < NUM_LSQS
    BY Sizes DEF Slot
<1> QED
    BY <1>2, <1>4, <1>5

LEMMA SlotAt == ASSUME NEW i \in Int PROVE slot_at(i) \in Slot
BY Sizes DEF slot_at, Slot

(* While the counter says so, there is a free slot. *)
LEMMA FirstFree ==
    ASSUME tail_index \in Slot, CountIsRight, count # NUM_LSQS
    PROVE  slot_at(first_free) \in Slot \ Valid /\ slot_at(first_free + 1) \in Slot
<1>1. PICK s \in Slot : s \notin Valid
    <2>1. Cardinality(Slot) = NUM_LSQS
        BY FS_Interval, Sizes DEF Slot
    <2>2. Valid # Slot
        BY <2>1 DEF CountIsRight
    <2> QED
        BY <2>2 DEF Valid
<1> DEFINE Free == {i \in tail_index .. tail_index + NUM_LSQS - 1 : slot_at(i) \notin Valid}
           i == IF s >= tail_index THEN s ELSE s + NUM_LSQS
<1>2. i \in tail_index .. tail_index + NUM_LSQS - 1 /\ slot_at(i) = s
    BY Sizes DEF Slot, slot_at
<1>3. Free # {} /\ Free \subseteq Nat
    <2>1. i \in Free
        BY <1>1, <1>2
    <2> QED
        BY <2>1, Sizes DEF Slot
<1>4. first_free \in Free
    <2> HIDE DEF Free
    <2>1. \E m \in Free : \A n \in Free : m <= n
        BY <1>3, LeastNumber
    <2>2. Min(Free) \in Free
        BY <2>1 DEF Min
    <2> QED
        BY <2>2 DEF first_free, Free
<1>5. first_free \in Int /\ first_free + 1 \in Int /\ slot_at(first_free) \notin Valid
    BY <1>3, <1>4
<1> QED
    BY <1>5, SlotAt

------------------------------------------------------------------------------
(* Instructions, entries and the window. *)
LEMMA InstrFacts ==
    /\ \A instr \in Loads \cup Stores :
          /\ instr \in Instr /\ instr.addr \in Int /\ instr.size \in Nat \ {0}
          /\ Reach(instr) \subseteq Address
    /\ \A instr \in Instr : is_lsu(instr) <=> instr \in Loads \cup Stores
    /\ \A instr \in Loads : is_load(instr) /\ ~is_store(instr)
    /\ \A instr \in Stores : is_store(instr) /\ ~is_load(instr) /\ instr.data \in Bytes(instr)
BY InstrAssumption DEF Loads, Stores, is_load, is_store, is_lsu, Reach, Bytes

LEMMA EntryFacts ==
    ASSUME TypeInv
    PROVE  /\ Valid \subseteq Slot /\ IsFiniteSet(Valid)
           /\ \A s \in Valid : store[s] \in Entry
           /\ \A s \in Slot \ Valid : store[s] = NoEntry
<1>1. /\ Valid \subseteq Slot
      /\ \A s \in Valid : store[s] \in Entry
      /\ \A s \in Slot \ Valid : store[s] = NoEntry
    <2>1. (\A entry \in Entry : entry.valid) /\ ~NoEntry.valid
        BY DEF Entry, NoEntry
    <2> QED
        BY <2>1 DEF TypeInv, Valid
<1>2. IsFiniteSet(Slot)
    BY FS_Interval, Sizes DEF Slot
<1> QED
    BY <1>1, <1>2, FS_Subset

(* What a step may do to one slot. *)
LEMMA Replaced ==
    ASSUME TypeInv, NEW s \in Valid, NEW entry \in Entry, store' = [store EXCEPT ![s] = entry]
    PROVE  /\ store' \in [Slot -> {NoEntry} \cup Entry] /\ Valid' = Valid
           /\ store'[s] = entry /\ \A o \in Slot \ {s} : store'[o] = store[o]
<1>1. s \in Slot /\ store \in [Slot -> {NoEntry} \cup Entry]
    BY EntryFacts DEF TypeInv
<1>2. /\ store' \in [Slot -> {NoEntry} \cup Entry]
      /\ store'[s] = entry /\ \A o \in Slot \ {s} : store'[o] = store[o]
    BY <1>1
<1>3. Valid' = Valid
    BY <1>1, <1>2 DEF Valid, Entry
<1> QED
    BY <1>2, <1>3

LEMMA Released ==
    ASSUME TypeInv, CountIsRight, NEW s \in Valid, release_entry(s)
    PROVE  /\ store' \in [Slot -> {NoEntry} \cup Entry] /\ Valid' = Valid \ {s}
           /\ \A o \in Slot \ {s} : store'[o] = store[o]
           /\ tail_index' = tail_index /\ CountIsRight'
<1>1. s \in Slot /\ store \in [Slot -> {NoEntry} \cup Entry] /\ IsFiniteSet(Valid)
    BY EntryFacts DEF TypeInv
<1>2. /\ store' \in [Slot -> {NoEntry} \cup Entry]
      /\ store'[s] = NoEntry /\ \A o \in Slot \ {s} : store'[o] = store[o]
    BY <1>1 DEF release_entry
<1>3. Valid' = Valid \ {s}
    BY <1>1, <1>2 DEF Valid, NoEntry
<1>4. count' = Cardinality(Valid) - 1 /\ tail_index' = tail_index
    BY DEF release_entry, CountIsRight
<1>5. Cardinality(Valid \ {s}) = Cardinality(Valid) - 1
    BY <1>1, FS_RemoveElement
<1> QED
    BY <1>2, <1>3, <1>4, <1>5 DEF CountIsRight

LEMMA Allocated ==
    ASSUME TypeInv, CountIsRight, count # NUM_LSQS, NEW tag \in Tag, NEW instr \in Loads \cup Stores,
           allocate(tag, instr)
    PROVE  LET s == slot_at(first_free)
           IN  /\ s \in Slot \ Valid /\ tail_index' \in Slot
               /\ store' \in [Slot -> {NoEntry} \cup Entry] /\ Valid' = Valid \cup {s}
               /\ store'[s] = [valid |-> TRUE, state |-> "Pending", addr_valid |-> FALSE, data |-> NULL,
                               rob_tag |-> tag, instr |-> instr]
               /\ \A o \in Slot \ {s} : store'[o] = store[o]
               /\ CountIsRight'
<1> DEFINE s == slot_at(first_free)
           entry == [valid |-> TRUE, state |-> "Pending", addr_valid |-> FALSE, data |-> NULL,
                     rob_tag |-> tag, instr |-> instr]
<1>1. s \in Slot \ Valid /\ slot_at(first_free + 1) \in Slot
    BY FirstFree DEF TypeInv
<1>2. entry \in Entry
    BY DEF Entry, Value
<1>3. /\ store' = [store EXCEPT ![s] = entry]
      /\ tail_index' = slot_at(first_free + 1) /\ count' = count + 1
    BY DEF allocate
<1> HIDE DEF s, entry
<1>4. store \in [Slot -> {NoEntry} \cup Entry] /\ IsFiniteSet(Valid)
    BY EntryFacts DEF TypeInv
<1>5. /\ store' \in [Slot -> {NoEntry} \cup Entry]
      /\ store'[s] = entry /\ \A o \in Slot \ {s} : store'[o] = store[o]
    BY <1>1, <1>2, <1>3, <1>4
<1>6. Valid' = Valid \cup {s}
    BY <1>1, <1>2, <1>4, <1>5 DEF Valid, Entry
<1>7. Cardinality(Valid \cup {s}) = Cardinality(Valid) + 1
    BY <1>1, <1>4, FS_AddElement
<1>8. CountIsRight'
    BY <1>3, <1>6, <1>7 DEF CountIsRight
<1> QED
    BY <1>1, <1>3, <1>5, <1>6, <1>8 DEF s, entry

LEMMA WindowFacts ==
    ASSUME TypeInv
    PROVE  /\ Len(window) \in 0 .. WINDOW /\ DOMAIN window = 1 .. Len(window)
           /\ DOMAIN window \subseteq 1 .. ROB_SIZE /\ Owners \subseteq DOMAIN window
           /\ \A k \in DOMAIN window :
                 /\ window[k] \in InFlight
                 /\ tag_of(k) \in Tag
                 /\ k \in Owners <=> window[k].instr \in Loads \cup Stores
           /\ \A j, k \in DOMAIN window : tag_of(j) = tag_of(k) => j = k
           /\ \A j, k \in DOMAIN window : is_rob_younger(tag_of(j), tag_of(k)) <=> j > k
<1>1. /\ Len(window) \in 0 .. WINDOW /\ DOMAIN window = 1 .. Len(window)
      /\ \A k \in DOMAIN window : window[k] \in InFlight
    BY Sizes DEF TypeInv
<1>2. DOMAIN window \subseteq 1 .. ROB_SIZE /\ DOMAIN window \subseteq 1 .. 2 * ROB_SIZE
    BY <1>1, Sizes
<1>3. head_tag \in Tag
    BY DEF TypeInv
<1>4. \A k \in DOMAIN window : k \in Owners <=> window[k].instr \in Loads \cup Stores
    BY <1>1, InstrFacts DEF Owners, InFlight
<1> HIDE DEF tag_of, is_rob_younger
<1> QED
    BY <1>1, <1>2, <1>3, <1>4, TagsOf DEF Owners

(* A step that leaves the instructions of the window and their slots alone. *)
SameWindow ==
    /\ window' \in Seq(InFlight) /\ Len(window') = Len(window) /\ head_tag' = head_tag
    /\ \A k \in DOMAIN window : window'[k].instr = window[k].instr /\ window'[k].lsq_idx = window[k].lsq_idx

LEMMA SameOwners ==
    ASSUME TypeInv, SameWindow
    PROVE  /\ Owners' = Owners /\ DOMAIN window' = DOMAIN window
           /\ \A k : tag_of(k)' = tag_of(k)
BY DEF TypeInv, SameWindow, Owners, tag_of

------------------------------------------------------------------------------
(* dispatch: the unit's input belongs to the instruction. *)
LEMMA DispatchKeeps ==
    ASSUME IInv, NEW k \in DOMAIN window, dispatch(k)
    PROVE  IInv'
<1> DEFINE s == window[k].lsq_idx
<1>1. /\ TypeInv /\ EntryInv /\ OwnerInv /\ LeftInv /\ UnitInv /\ PacketInv /\ ChannelInv /\ CountIsRight
      /\ UNCHANGED <<head_tag, store, tail_index, count, output, ram, core_req, core_rsp>>
    BY DEF IInv, dispatch, lsq, dcache
<1>2. k \in Owners /\ window[k].waiting /\ window[k] \in InFlight /\ tag_of(k) \in Tag
      /\ window[k].instr \in Loads \cup Stores
    BY <1>1, WindowFacts DEF dispatch, Owners
<1>3. /\ s \in Valid /\ s \in Slot /\ store[s].state = "Pending" /\ ~store[s].addr_valid /\ ~window[k].ready
    BY <1>1, <1>2, EntryFacts DEF OwnerInv
<1>4. /\ window' \in Seq(InFlight) /\ Len(window') = Len(window)
      /\ \A j \in DOMAIN window :
            /\ window'[j].instr = window[j].instr /\ window'[j].lsq_idx = window[j].lsq_idx
            /\ window'[j].ready <=> window[j].ready
            /\ window'[j].waiting <=> (window[j].waiting /\ j # k)
    <2>1. window' = [window EXCEPT ![k] = [window[k] EXCEPT !.waiting = FALSE]]
        BY DEF dispatch
    <2>2. /\ [window[k] EXCEPT !.waiting = FALSE] \in InFlight
          /\ [window[k] EXCEPT !.waiting = FALSE].instr = window[k].instr
          /\ [window[k] EXCEPT !.waiting = FALSE].lsq_idx = window[k].lsq_idx
          /\ [window[k] EXCEPT !.waiting = FALSE].ready <=> window[k].ready
          /\ ~[window[k] EXCEPT !.waiting = FALSE].waiting
        BY <1>2 DEF InFlight
    <2> DEFINE item == [window[k] EXCEPT !.waiting = FALSE]
    <2> HIDE DEF item
    <2>3. window \in Seq(InFlight) /\ window' = [window EXCEPT ![k] = item] /\ item \in InFlight
        BY <1>1, <2>1, <2>2 DEF TypeInv, item
    <2>4. window' \in Seq(InFlight) /\ Len(window') = Len(window)
          /\ \A j \in DOMAIN window : window'[j] = IF j = k THEN item ELSE window[j]
        BY <2>3
    <2> QED
        BY <2>2, <2>4 DEF item
<1>5. /\ SameWindow /\ Owners' = Owners /\ DOMAIN window' = DOMAIN window /\ \A j : tag_of(j)' = tag_of(j)
    BY <1>1, <1>4, SameOwners DEF SameWindow
<1>6. Valid' = Valid /\ Committed' = Committed /\ Voided' = Voided /\ Waits' = Waits /\ ReadsAsked' = ReadsAsked
    BY <1>1 DEF Valid, Committed, Voided, Waits, ReadsAsked
<1>7. input' = [valid |-> TRUE, rob_tag |-> tag_of(k), instr |-> window[k].instr, lsq_idx |-> s]
    BY DEF dispatch
<1> HIDE DEF s, tag_of
<1>8. TypeInv'
    BY <1>1, <1>2, <1>3, <1>4, <1>7 DEF TypeInv, Input
<1>9. EntryInv' /\ PacketInv' /\ ChannelInv' /\ CountIsRight'
    BY <1>1, <1>6 DEF EntryInv, PacketInv, ChannelInv, CountIsRight
<1>10. OwnerInv'
    BY <1>1, <1>4, <1>5, <1>6, WindowFacts DEF OwnerInv
<1>11. LeftInv'
    BY <1>1, <1>4, <1>5, <1>6, WindowFacts, SMTT(60) DEF LeftInv
<1>12. UnitInv'
    <2>1. input'.rob_tag = tag_of(k) /\ input'.instr = window[k].instr /\ input'.lsq_idx = s
        BY <1>7
    <2>2. \A j \in Owners : j \in DOMAIN window
        BY <1>1, WindowFacts
    <2> QED
        BY <1>1, <1>2, <1>3, <1>4, <1>5, <2>1, <2>2 DEF UnitInv, s
<1> QED
    BY <1>8, <1>9, <1>10, <1>11, <1>12 DEF IInv

(* predicted: a branch has no entry. *)
LEMMA PredictedKeeps ==
    ASSUME IInv, NEW k \in DOMAIN window, predicted(k)
    PROVE  IInv'
<1>1. /\ TypeInv /\ EntryInv /\ OwnerInv /\ LeftInv /\ UnitInv /\ PacketInv /\ ChannelInv /\ CountIsRight
      /\ UNCHANGED <<head_tag, store, tail_index, count, input, output, ram, core_req, core_rsp>>
    BY DEF IInv, predicted, lsq, unit, dcache
<1>2. k \notin Owners /\ window[k] \in InFlight
    BY <1>1, WindowFacts DEF predicted, unresolved, Owners, is_lsu, is_load, is_store
<1>3. /\ window' \in Seq(InFlight) /\ Len(window') = Len(window)
      /\ \A j \in DOMAIN window :
            /\ window'[j].instr = window[j].instr /\ window'[j].lsq_idx = window[j].lsq_idx
            /\ window'[j].ready <=> (window[j].ready \/ j = k)
            /\ window'[j].waiting <=> window[j].waiting
    <2> DEFINE item == [window[k] EXCEPT !.ready = TRUE]
    <2>1. window' = [window EXCEPT ![k] = item] /\ window \in Seq(InFlight)
        BY <1>1 DEF predicted, resolved, TypeInv
    <2>2. /\ item \in InFlight /\ item.instr = window[k].instr /\ item.lsq_idx = window[k].lsq_idx
          /\ item.ready /\ (item.waiting <=> window[k].waiting)
        BY <1>2 DEF InFlight
    <2> HIDE DEF item
    <2>3. window' \in Seq(InFlight) /\ Len(window') = Len(window)
          /\ \A j \in DOMAIN window : window'[j] = IF j = k THEN item ELSE window[j]
        BY <2>1, <2>2
    <2> QED
        BY <2>2, <2>3
<1>4. /\ SameWindow /\ Owners' = Owners /\ DOMAIN window' = DOMAIN window /\ \A j : tag_of(j)' = tag_of(j)
    BY <1>1, <1>3, SameOwners DEF SameWindow
<1>5. Valid' = Valid /\ Committed' = Committed /\ Voided' = Voided /\ Waits' = Waits /\ ReadsAsked' = ReadsAsked
    BY <1>1 DEF Valid, Committed, Voided, Waits, ReadsAsked
<1>6. \A j \in Owners : j \in DOMAIN window /\ j # k
    BY <1>1, <1>2, WindowFacts
<1> HIDE DEF tag_of
<1>7. TypeInv'
    BY <1>1, <1>3 DEF TypeInv
<1>8. EntryInv' /\ PacketInv' /\ ChannelInv' /\ CountIsRight'
    BY <1>1, <1>5 DEF EntryInv, PacketInv, ChannelInv, CountIsRight
<1>9. OwnerInv'
    BY <1>1, <1>3, <1>4, <1>5, <1>6 DEF OwnerInv
<1>10. LeftInv'
    BY <1>1, <1>3, <1>4, <1>5, <1>6 DEF LeftInv
<1>11. UnitInv'
    BY <1>1, <1>3, <1>4, <1>6 DEF UnitInv
<1> QED
    BY <1>7, <1>8, <1>9, <1>10, <1>11 DEF IInv

(* broadcast: the instruction whose entry has its data is ready. *)
LEMMA BroadcastKeeps ==
    ASSUME IInv, broadcast
    PROVE  IInv'
<1>1. /\ TypeInv /\ EntryInv /\ OwnerInv /\ LeftInv /\ UnitInv /\ PacketInv /\ ChannelInv /\ CountIsRight
      /\ UNCHANGED <<head_tag, store, tail_index, count, input, ram, core_req, core_rsp>>
    BY DEF IInv, broadcast, lsq, dcache
<1>2. PICK k \in Owners : /\ output.rob_tag = tag_of(k)
                          /\ ~window[k].waiting /\ ~window[k].ready
                          /\ store[window[k].lsq_idx].state = "Writeback"
    BY <1>1 DEF UnitInv, broadcast
<1>3. k \in DOMAIN window /\ \A j \in DOMAIN window : tag_of(j) = output.rob_tag <=> j = k
    BY <1>1, <1>2, WindowFacts
<1>4. output.value \in Value
    <2>1. (\A o \in Output : o.valid /\ o.value \in Value) /\ ~NoOutput.valid
        BY DEF Output, NoOutput
    <2> QED
        BY <1>1, <2>1 DEF TypeInv, broadcast
<1> HIDE DEF tag_of
<1>5. /\ window' \in Seq(InFlight) /\ Len(window') = Len(window)
      /\ \A j \in DOMAIN window :
            /\ window'[j].instr = window[j].instr /\ window'[j].lsq_idx = window[j].lsq_idx
            /\ window'[j].ready <=> (window[j].ready \/ j = k)
            /\ window'[j].waiting <=> window[j].waiting
    <2> DEFINE item == [window[k] EXCEPT !.ready = TRUE, !.result = output.value]
    <2>1. window' = [j \in DOMAIN window |-> IF j = k THEN item ELSE window[j]] /\ window \in Seq(InFlight)
        BY <1>1, <1>2, <1>3 DEF broadcast, TypeInv
    <2>2. /\ item \in InFlight /\ item.instr = window[k].instr /\ item.lsq_idx = window[k].lsq_idx
          /\ item.ready /\ (item.waiting <=> window[k].waiting)
        BY <1>1, <1>3, <1>4, WindowFacts DEF InFlight
    <2> HIDE DEF item
    <2>3. window' \in Seq(InFlight) /\ Len(window') = Len(window)
          /\ \A j \in DOMAIN window : window'[j] = IF j = k THEN item ELSE window[j]
        BY <2>1, <2>2
    <2> QED
        BY <2>2, <2>3
<1>6. /\ SameWindow /\ Owners' = Owners /\ DOMAIN window' = DOMAIN window /\ \A j : tag_of(j)' = tag_of(j)
    BY <1>1, <1>5, SameOwners DEF SameWindow
<1>7. Valid' = Valid /\ Committed' = Committed /\ Voided' = Voided /\ Waits' = Waits /\ ReadsAsked' = ReadsAsked
    BY <1>1 DEF Valid, Committed, Voided, Waits, ReadsAsked
<1>8. \A j \in Owners : j \in DOMAIN window
    BY <1>1, WindowFacts
<1>9. output' = NoOutput /\ ~output'.valid
    BY DEF broadcast, NoOutput
<1>10. TypeInv'
    BY <1>1, <1>5, <1>9 DEF TypeInv
<1>11. EntryInv' /\ PacketInv' /\ ChannelInv' /\ CountIsRight'
    BY <1>1, <1>7 DEF EntryInv, PacketInv, ChannelInv, CountIsRight
<1>12. OwnerInv'
    BY <1>1, <1>2, <1>5, <1>6, <1>7, <1>8 DEF OwnerInv
<1>13. LeftInv'
    BY <1>1, <1>5, <1>6, <1>7, <1>8 DEF LeftInv
<1>14. UnitInv'
    BY <1>1, <1>2, <1>5, <1>6, <1>8, <1>9 DEF UnitInv
<1> QED
    BY <1>10, <1>11, <1>12, <1>13, <1>14 DEF IInv

------------------------------------------------------------------------------
(* The cache. *)
LEMMA RequestFacts ==
    /\ \A req \in ReadReq : ~req.is_write /\ req.user \in Slot
    /\ \A req \in WriteReq : /\ req.is_write
                             /\ \E instr \in Stores : req.addr = instr.addr /\ req.size = instr.size
                                                      /\ req.data = instr.data
    /\ \A rsp \in Rsp : rsp.user \in Slot /\ rsp.data \in Value
<1>1. \A req \in ReadReq : ~req.is_write /\ req.user \in Slot
    BY DEF ReadReq
<1>2. \A req \in WriteReq : /\ req.is_write
                            /\ \E instr \in Stores : req.addr = instr.addr /\ req.size = instr.size
                                                     /\ req.data = instr.data
    BY DEF WriteReq
<1>3. \A rsp \in Rsp : rsp.user \in Slot /\ rsp.data \in Value
    BY DEF Rsp
<1> QED
    BY <1>1, <1>2, <1>3

LEMMA ChannelFacts ==
    ASSUME TypeInv
    PROVE  /\ Len(core_req) \in Nat /\ DOMAIN core_req = 1 .. Len(core_req)
           /\ Len(core_rsp) \in Nat /\ DOMAIN core_rsp = 1 .. Len(core_rsp)
           /\ \A i \in DOMAIN core_req : core_req[i] \in ReadReq \cup WriteReq
           /\ \A i \in DOMAIN core_rsp : core_rsp[i] \in Rsp
BY DEF TypeInv

LEMMA TailFacts ==
    ASSUME NEW S, NEW q \in Seq(S), q # <<>>
    PROVE  /\ Tail(q) \in Seq(S) /\ Len(Tail(q)) = Len(q) - 1 /\ Len(q) >= 1
           /\ DOMAIN Tail(q) = 1 .. Len(q) - 1
           /\ \A i \in 1 .. Len(q) - 1 : Tail(q)[i] = q[i + 1]
           /\ Head(q) = q[1] /\ Head(q) \in S
OBVIOUS

LEMMA AppendFacts ==
    ASSUME NEW S, NEW q \in Seq(S), NEW x \in S
    PROVE  /\ Append(q, x) \in Seq(S) /\ Len(Append(q, x)) = Len(q) + 1
           /\ DOMAIN Append(q, x) = 1 .. Len(q) + 1
           /\ \A i \in 1 .. Len(q) : Append(q, x)[i] = q[i]
           /\ Append(q, x)[Len(q) + 1] = x
OBVIOUS

LEMMA WriteKeeps ==
    ASSUME IInv, Mem!Write, UNCHANGED <<rob, lsq, unit>>
    PROVE  IInv'
<1>1. /\ TypeInv /\ EntryInv /\ OwnerInv /\ LeftInv /\ UnitInv /\ PacketInv /\ ChannelInv /\ CountIsRight
      /\ UNCHANGED <<window, head_tag, store, tail_index, count, input, output, core_rsp>>
    BY DEF IInv, rob, lsq, unit, Mem!Write
<1>2. /\ core_req # <<>> /\ Head(core_req).is_write /\ core_req' = Tail(core_req)
      /\ core_req \in Seq(ReadReq \cup WriteReq)
    BY <1>1 DEF Mem!Write, TypeInv
<1>3. /\ core_req' \in Seq(ReadReq \cup WriteReq) /\ DOMAIN core_req' = 1 .. Len(core_req) - 1
      /\ Len(core_req) \in Nat /\ Len(core_req) >= 1
      /\ \A i \in 1 .. Len(core_req) - 1 : core_req'[i] = core_req[i + 1]
      /\ core_req[1] = Head(core_req) /\ Head(core_req) \in ReadReq \cup WriteReq
      /\ DOMAIN core_req = 1 .. Len(core_req)
    BY <1>2, TailFacts
<1>4. ram' \in [Address -> Byte]
    <2>1. PICK instr \in Stores : Head(core_req).addr = instr.addr /\ Head(core_req).size = instr.size
                                  /\ Head(core_req).data = instr.data
        BY <1>2, <1>3, RequestFacts
    <2>2. instr.data \in [0 .. instr.size - 1 -> Byte] /\ instr.addr \in Int /\ instr.size \in Nat
        BY InstrFacts DEF Bytes
    <2>3. \A a \in Mem!Reach(Head(core_req)) : Head(core_req).data[a - Head(core_req).addr] \in Byte
        BY <2>1, <2>2 DEF Mem!Reach
    <2>4. ram \in [Address -> Byte]
        BY <1>1 DEF TypeInv
    <2> QED
        BY <2>3, <2>4 DEF Mem!Write
<1>5. /\ Valid' = Valid /\ Committed' = Committed /\ Voided' = Voided /\ Waits' = Waits /\ Owners' = Owners
      /\ \A k : tag_of(k)' = tag_of(k)
    BY <1>1 DEF Valid, Committed, Voided, Waits, Owners, tag_of
<1>6. /\ \A i \in ReadsAsked' : i + 1 \in ReadsAsked /\ i \in Nat /\ core_req'[i] = core_req[i + 1]
      /\ \A i \in ReadsAsked : i - 1 \in ReadsAsked' /\ core_req'[i - 1] = core_req[i]
    <2>1. \A i \in ReadsAsked : i \in 2 .. Len(core_req) /\ i - 1 \in 1 .. Len(core_req) - 1 /\ (i - 1) + 1 = i
        BY <1>2, <1>3 DEF ReadsAsked
    <2>2. \A i \in ReadsAsked' : i \in 1 .. Len(core_req) - 1 /\ i + 1 \in 1 .. Len(core_req)
        BY <1>3 DEF ReadsAsked
    <2> QED
        BY <1>3, <2>1, <2>2 DEF ReadsAsked
<1> HIDE DEF tag_of
<1>7. TypeInv'
    BY <1>1, <1>3, <1>4 DEF TypeInv
<1>8. EntryInv' /\ OwnerInv' /\ LeftInv' /\ UnitInv' /\ CountIsRight'
    BY <1>1, <1>5 DEF EntryInv, OwnerInv, LeftInv, UnitInv, CountIsRight
<1>9. PacketInv'
    BY <1>1, <1>3 DEF PacketInv
<1>10. ChannelInv'
    <2>1. \A i, j \in ReadsAsked' : core_req'[i].user = core_req'[j].user => i = j
        <3> SUFFICES ASSUME NEW i \in ReadsAsked', NEW j \in ReadsAsked', core_req'[i].user = core_req'[j].user
                     PROVE  i = j
            OBVIOUS
        <3>1. i + 1 = j + 1 /\ i \in Nat /\ j \in Nat
            BY <1>1, <1>6 DEF ChannelInv
        <3> QED
            BY <3>1
    <2> QED
        BY <1>1, <1>5, <1>6, <2>1 DEF ChannelInv
<1> QED
    BY <1>7, <1>8, <1>9, <1>10 DEF IInv

LEMMA ReadKeeps ==
    ASSUME IInv, Mem!Read, UNCHANGED <<rob, lsq, unit>>
    PROVE  IInv'
<1>1. /\ TypeInv /\ EntryInv /\ OwnerInv /\ LeftInv /\ UnitInv /\ PacketInv /\ ChannelInv /\ CountIsRight
      /\ UNCHANGED <<window, head_tag, store, tail_index, count, input, output, ram>>
    BY DEF IInv, rob, lsq, unit, Mem!Read
<1> DEFINE req == core_req[1]
           rsp == [user |-> req.user, data |-> [i \in 0 .. req.size - 1 |-> ram[req.addr + i]]]
           n == Len(core_rsp)
<1>2. /\ core_req # <<>> /\ ~Head(core_req).is_write /\ core_req' = Tail(core_req)
      /\ core_req \in Seq(ReadReq \cup WriteReq) /\ core_rsp \in Seq(Rsp)
    BY <1>1 DEF Mem!Read, TypeInv
<1>3. /\ core_req' \in Seq(ReadReq \cup WriteReq) /\ DOMAIN core_req' = 1 .. Len(core_req) - 1
      /\ Len(core_req) \in Nat /\ Len(core_req) >= 1
      /\ \A i \in 1 .. Len(core_req) - 1 : core_req'[i] = core_req[i + 1]
      /\ Head(core_req) = req /\ ~req.is_write
      /\ DOMAIN core_req = 1 .. Len(core_req)
    BY <1>2, TailFacts
<1>4. core_rsp' = Append(core_rsp, rsp)
    BY <1>3 DEF Mem!Read
<1>5. /\ Valid' = Valid /\ Committed' = Committed /\ Voided' = Voided /\ Waits' = Waits /\ Owners' = Owners
      /\ \A k : tag_of(k)' = tag_of(k)
    BY <1>1 DEF Valid, Committed, Voided, Waits, Owners, tag_of
<1>6. req.user \in Waits /\ 1 \in ReadsAsked
    BY <1>1, <1>3 DEF ChannelInv, ReadsAsked
<1>7. req.user \in Valid /\ store[req.user].instr \in Loads
    <2>1. store[req.user] \in Entry /\ is_load(store[req.user].instr)
        BY <1>1, <1>6, EntryFacts DEF Waits, EntryInv
    <2> QED
        BY <1>6, <2>1, InstrFacts DEF Waits, Entry
<1>8. rsp.data \in Bytes(store[req.user].instr) /\ rsp.user = req.user
    <2> DEFINE instr == store[req.user].instr
    <2>1. req.addr = instr.addr /\ req.size = instr.size
        BY <1>1, <1>3 DEF PacketInv
    <2>2. instr.addr \in Int /\ instr.size \in Nat /\ Reach(instr) \subseteq Address
        BY <1>7, InstrFacts
    <2>3. ram \in [Address -> Byte]
        BY <1>1 DEF TypeInv
    <2> HIDE DEF instr
    <2>4. \A i \in 0 .. req.size - 1 : ram[req.addr + i] \in Byte
        BY <2>1, <2>2, <2>3 DEF Reach
    <2>5. rsp.data \in Bytes(instr)
        BY <2>1, <2>4 DEF Bytes
    <2> QED
        BY <2>5 DEF instr
<1>9. rsp \in Rsp
    <2>1. req.user \in Slot /\ rsp.data \in Value
        BY <1>1, <1>7, <1>8, EntryFacts DEF Value
    <2> QED
        BY <2>1 DEF Rsp
<1> HIDE DEF rsp
<1>10. /\ core_rsp' \in Seq(Rsp) /\ DOMAIN core_rsp' = 1 .. n + 1 /\ n \in Nat /\ DOMAIN core_rsp = 1 .. n
       /\ \A i \in 1 .. n : core_rsp'[i] = core_rsp[i]
       /\ core_rsp'[n + 1] = rsp
    BY <1>2, <1>4, <1>9, AppendFacts
<1>11. /\ \A i \in ReadsAsked' : i + 1 \in ReadsAsked /\ i \in Nat /\ i + 1 # 1 /\ core_req'[i] = core_req[i + 1]
       /\ \A i \in ReadsAsked : i # 1 => i - 1 \in ReadsAsked' /\ core_req'[i - 1] = core_req[i]
    <2>1. \A i \in ReadsAsked : i # 1 => i - 1 \in 1 .. Len(core_req) - 1 /\ (i - 1) + 1 = i
        BY <1>3 DEF ReadsAsked
    <2>2. \A i \in ReadsAsked' : i \in 1 .. Len(core_req) - 1 /\ i + 1 \in 1 .. Len(core_req) /\ i + 1 # 1
        BY <1>3 DEF ReadsAsked
    <2> QED
        BY <1>3, <2>1, <2>2 DEF ReadsAsked
<1>12. \A i \in DOMAIN core_rsp' : \/ i \in 1 .. n /\ core_rsp'[i] = core_rsp[i]
                                   \/ i = n + 1 /\ core_rsp'[i] = rsp
    BY <1>10
<1> HIDE DEF tag_of, n, req
<1>13. TypeInv'
    BY <1>1, <1>3, <1>10 DEF TypeInv
<1>14. EntryInv' /\ OwnerInv' /\ LeftInv' /\ UnitInv' /\ CountIsRight'
    BY <1>1, <1>5 DEF EntryInv, OwnerInv, LeftInv, UnitInv, CountIsRight
<1>15. PacketInv'
    <2>1. \A i \in DOMAIN core_req' : i + 1 \in DOMAIN core_req /\ core_req'[i] = core_req[i + 1]
        BY <1>3
    <2>2. \A i \in DOMAIN core_rsp' : core_rsp'[i].data \in Bytes(store[core_rsp'[i].user].instr)
        BY <1>1, <1>8, <1>10, <1>12 DEF PacketInv
    <2> QED
        BY <1>1, <2>1, <2>2 DEF PacketInv
<1>16. ChannelInv'
    <2>1. \A i, j \in ReadsAsked' : core_req'[i].user = core_req'[j].user => i = j
        <3> SUFFICES ASSUME NEW i \in ReadsAsked', NEW j \in ReadsAsked', core_req'[i].user = core_req'[j].user
                     PROVE  i = j
            OBVIOUS
        <3>1. i + 1 = j + 1 /\ i \in Nat /\ j \in Nat
            BY <1>1, <1>11 DEF ChannelInv
        <3> QED
            BY <3>1
    <2>2. \A i \in DOMAIN core_rsp : core_rsp[i].user # req.user
        BY <1>1, <1>6 DEF ChannelInv, req
    <2>3. \A i, j \in DOMAIN core_rsp' : core_rsp'[i].user = core_rsp'[j].user => i = j
        BY <1>1, <1>8, <1>10, <1>12, <2>2 DEF ChannelInv
    <2>4. \A j \in ReadsAsked' : core_req'[j].user # req.user
        BY <1>1, <1>6, <1>11 DEF ChannelInv, req
    <2>5. \A i \in DOMAIN core_rsp', j \in ReadsAsked' : core_rsp'[i].user # core_req'[j].user
        BY <1>1, <1>8, <1>10, <1>11, <1>12, <2>4 DEF ChannelInv
    <2>6. /\ \A i \in DOMAIN core_rsp' : core_rsp'[i].user \in Waits
          /\ \A j \in ReadsAsked' : core_req'[j].user \in Waits
        BY <1>1, <1>6, <1>8, <1>10, <1>11, <1>12 DEF ChannelInv
    <2>7. ASSUME NEW s \in Waits
          PROVE  \/ \E i \in DOMAIN core_rsp' : core_rsp'[i].user = s
                 \/ \E j \in ReadsAsked' : core_req'[j].user = s
        <3>1. CASE \E i \in DOMAIN core_rsp : core_rsp[i].user = s
            BY <1>10, <3>1
        <3>2. CASE s = req.user
            BY <1>8, <1>10, <3>2
        <3>3. CASE s # req.user /\ \E j \in ReadsAsked : core_req[j].user = s
            BY <1>11, <3>3 DEF req
        <3> QED
            BY <1>1, <3>1, <3>2, <3>3 DEF ChannelInv
    <2> QED
        BY <1>5, <2>1, <2>3, <2>5, <2>6, <2>7 DEF ChannelInv
<1> QED
    BY <1>13, <1>14, <1>15, <1>16 DEF IInv

------------------------------------------------------------------------------
(* An instruction in flight gets its value: its entry waits for the commit. *)
Settles(k, entry, value) ==
    /\ entry \in Entry /\ value \in Value
    /\ entry.instr = window[k].instr /\ entry.rob_tag = tag_of(k) /\ entry.state = "Writeback"
    /\ is_store(entry.instr) => entry.data = entry.instr.data
    /\ entry.data # NULL => entry.data \in Bytes(entry.instr)
    /\ store' = [store EXCEPT ![window[k].lsq_idx] = entry]
    /\ output' = [valid |-> TRUE, rob_tag |-> tag_of(k), value |-> value]
    /\ \/ input' = NoInput
       \/ input' = input /\ ~ (/\ store[window[k].lsq_idx].state = "Pending"
                               /\ ~store[window[k].lsq_idx].addr_valid)

LEMMA Settled ==
    ASSUME IInv, NEW k \in Owners, NEW entry, NEW value, Settles(k, entry, value),
           ~window[k].waiting, ~window[k].ready, UNCHANGED <<window, head_tag>>
    PROVE  LET s == window[k].lsq_idx
           IN  /\ store' \in [Slot -> {NoEntry} \cup Entry]
               /\ input' \in {NoInput} \cup Input /\ output' \in {NoOutput} \cup Output
               /\ EntryInv' /\ OwnerInv' /\ LeftInv' /\ UnitInv'
               /\ Valid' = Valid /\ s \in Valid /\ Waits' = Waits \ {s}
               /\ \A o \in Valid : store'[o].instr = store[o].instr
<1> DEFINE s == window[k].lsq_idx
<1>1. TypeInv /\ EntryInv /\ OwnerInv /\ LeftInv /\ UnitInv
    BY DEF IInv
<1>2. /\ s \in Valid /\ store[s].instr = window[k].instr /\ store[s].rob_tag = tag_of(k)
      /\ store[s].state \in {"Pending", "Issued", "Writeback"}
    BY <1>1 DEF OwnerInv
<1>3. \A j \in Owners : window[j].lsq_idx = s <=> j = k
    <2>1. \A j \in Owners : store[window[j].lsq_idx].rob_tag = tag_of(j)
        BY <1>1 DEF OwnerInv
    <2> HIDE DEF tag_of
    <2> QED
        BY <1>1, <1>2, <2>1, WindowFacts
<1>4. /\ store' \in [Slot -> {NoEntry} \cup Entry] /\ Valid' = Valid
      /\ store'[s] = entry /\ \A o \in Slot \ {s} : store'[o] = store[o]
    <2>1. entry \in Entry /\ store' = [store EXCEPT ![s] = entry]
        BY DEF Settles
    <2> HIDE DEF s
    <2> QED
        BY <1>1, <1>2, <2>1, Replaced
<1>5. /\ Owners' = Owners /\ DOMAIN window' = DOMAIN window /\ \A j : tag_of(j)' = tag_of(j)
      /\ Valid \subseteq Slot /\ Owners \subseteq DOMAIN window
    BY <1>1, WindowFacts, EntryFacts DEF Owners, tag_of
<1>6. tag_of(k) \in Tag
    BY <1>1, WindowFacts
<1> DEFINE tag == tag_of(k)
<1> HIDE DEF tag
<1>7. /\ entry.instr = window[k].instr /\ entry.rob_tag = tag /\ entry.state = "Writeback"
      /\ is_store(entry.instr) => entry.data = entry.instr.data
      /\ entry.data # NULL => entry.data \in Bytes(entry.instr)
      /\ output' = [valid |-> TRUE, rob_tag |-> tag, value |-> value]
      /\ value \in Value
      /\ \/ input' = NoInput
         \/ input' = input /\ ~ (store[s].state = "Pending" /\ ~store[s].addr_valid)
      /\ tag \in Tag /\ tag = tag_of(k)
    BY <1>6 DEF Settles, tag
<1> HIDE DEF s, tag_of
<1>8. output' \in Output /\ output'.valid /\ output'.rob_tag = tag
    BY <1>7 DEF Output
<1>9. input' \in {NoInput} \cup Input
    BY <1>1, <1>7 DEF TypeInv
<1>10. EntryInv'
    BY <1>1, <1>4, <1>5, <1>7 DEF EntryInv
<1>11. /\ Committed' = Committed /\ Voided' = Voided /\ Waits' = Waits \ {s}
    BY <1>2, <1>4, <1>5, <1>7 DEF Committed, Voided, Waits
<1>12. OwnerInv'
    <2> SUFFICES ASSUME NEW j \in Owners
                 PROVE  LET o == window[j].lsq_idx
                        IN  /\ o \in Valid /\ store'[o].rob_tag = tag_of(j) /\ store'[o].instr = window[j].instr
                            /\ store'[o].state \in {"Pending", "Issued", "Writeback"}
                            /\ window[j].waiting => store'[o].state = "Pending" /\ ~store'[o].addr_valid
                                                    /\ ~window[j].ready
                            /\ window[j].ready => store'[o].state = "Writeback"
        BY <1>4, <1>5 DEF OwnerInv
    <2>1. CASE j = k
        BY <1>2, <1>4, <1>7, <2>1 DEF s
    <2>2. CASE j # k
        <3>1. window[j].lsq_idx \in Slot \ {s}
            BY <1>1, <1>3, <1>5, <2>2 DEF OwnerInv
        <3> QED
            BY <1>1, <1>4, <3>1 DEF OwnerInv
    <2> QED
        BY <2>1, <2>2
<1>13. LeftInv'
    <2>1. \A o \in Valid : store'[o].state \in {"Pending", "Issued", "Writeback"}
                               => \E j \in Owners : window[j].lsq_idx = o
        BY <1>1, <1>2, <1>4, <1>5 DEF LeftInv, s
    <2> QED
        BY <1>4, <1>5, <2>1 DEF LeftInv
<1>14. UnitInv'
    <2>1. CASE input' = NoInput
        <3>1. ~input'.valid
            BY <2>1 DEF NoInput
        <3> QED
            BY <1>4, <1>5, <1>7, <1>8, <3>1 DEF UnitInv, s
    <2>2. CASE input' = input /\ ~ (store[s].state = "Pending" /\ ~store[s].addr_valid)
        <3>1. ASSUME input.valid
              PROVE  \E j \in Owners :
                         LET o == window[j].lsq_idx
                         IN  /\ input.rob_tag = tag_of(j) /\ input.instr = window[j].instr /\ input.lsq_idx = o
                             /\ ~window[j].waiting /\ ~window[j].ready
                             /\ store'[o].state = "Pending" /\ ~store'[o].addr_valid
            <4>1. PICK j \in Owners :
                       /\ input.rob_tag = tag_of(j) /\ input.instr = window[j].instr
                       /\ input.lsq_idx = window[j].lsq_idx
                       /\ ~window[j].waiting /\ ~window[j].ready
                       /\ store[window[j].lsq_idx].state = "Pending" /\ ~store[window[j].lsq_idx].addr_valid
                BY <1>1, <3>1 DEF UnitInv
            <4>2. window[j].lsq_idx \in Slot \ {s}
                BY <1>1, <1>5, <2>2, <4>1 DEF OwnerInv
            <4> QED
                BY <1>4, <4>1, <4>2
        <3> QED
            BY <1>4, <1>5, <1>7, <1>8, <2>2, <3>1 DEF UnitInv, s
    <2> QED
        BY <1>7, <2>1, <2>2
<1>15. \A o \in Valid : store'[o].instr = store[o].instr
    BY <1>2, <1>4, <1>5, <1>7
<1> QED
    BY <1>2, <1>4, <1>8, <1>9, <1>10, <1>11, <1>12, <1>13, <1>14, <1>15 DEF s

(* The unit takes a store's data, or a load's address. *)
LEMMA ComputeKeeps ==
    ASSUME IInv, compute_address
    PROVE  IInv'
<1>1. /\ TypeInv /\ EntryInv /\ OwnerInv /\ LeftInv /\ UnitInv /\ PacketInv /\ ChannelInv /\ CountIsRight
      /\ UNCHANGED <<window, head_tag, tail_index, count, ram, core_req, core_rsp>>
      /\ input' = NoInput /\ input.valid
    BY DEF IInv, compute_address, rob, dcache
<1>2. PICK k \in Owners :
           /\ input.rob_tag = tag_of(k) /\ input.instr = window[k].instr /\ input.lsq_idx = window[k].lsq_idx
           /\ ~window[k].waiting /\ ~window[k].ready
           /\ store[window[k].lsq_idx].state = "Pending" /\ ~store[window[k].lsq_idx].addr_valid
    BY <1>1 DEF UnitInv
<1> DEFINE s == window[k].lsq_idx
           instr == window[k].instr
<1>3. /\ s \in Valid /\ s \in Slot /\ store[s] \in Entry /\ store[s].instr = instr
      /\ store[s].rob_tag = tag_of(k) /\ instr \in Loads \cup Stores
    BY <1>1, WindowFacts, EntryFacts DEF OwnerInv
<1>4. /\ ReadsAsked' = ReadsAsked /\ \A i \in DOMAIN core_rsp : core_rsp[i].user \in Valid
      /\ \A i \in ReadsAsked : core_req[i].user \in Valid
    BY <1>1 DEF ReadsAsked, ChannelInv, Waits
<1> HIDE DEF s, instr, tag_of
<1>5. CASE is_store(instr)
    <2> DEFINE entry == [store[s] EXCEPT !.addr_valid = TRUE, !.data = instr.data, !.state = "Writeback"]
    <2>1. instr \in Stores /\ instr.data \in Bytes(instr) /\ instr.data \in Value
        BY <1>3, <1>5, InstrFacts DEF Value
    <2>2. /\ entry \in Entry /\ entry.instr = instr /\ entry.rob_tag = tag_of(k) /\ entry.state = "Writeback"
          /\ entry.data = instr.data
        BY <1>3, <2>1 DEF Entry
    <2>3. /\ store' = [store EXCEPT ![s] = entry]
          /\ output' = [valid |-> TRUE, rob_tag |-> tag_of(k), value |-> NULL]
        <3>1. ~is_load(input.instr)
            BY <1>2, <2>1, InstrFacts DEF instr
        <3>2. /\ store' = [store EXCEPT ![s].addr_valid = TRUE, ![s].data = instr.data, ![s].state = "Writeback"]
              /\ output' = [valid |-> TRUE, rob_tag |-> tag_of(k), value |-> NULL]
            BY <1>2, <3>1 DEF compute_address, send, s, instr
        <3> QED
            BY <1>1, <1>3, <3>2 DEF TypeInv
    <2> HIDE DEF entry
    <2>4. Settles(k, entry, NULL)
        BY <1>1, <2>1, <2>2, <2>3 DEF Settles, Value, s, instr
    <2>5. /\ store' \in [Slot -> {NoEntry} \cup Entry]
          /\ input' \in {NoInput} \cup Input /\ output' \in {NoOutput} \cup Output
          /\ EntryInv' /\ OwnerInv' /\ LeftInv' /\ UnitInv'
          /\ Valid' = Valid /\ Waits' = Waits \ {s}
          /\ \A o \in Valid : store'[o].instr = store[o].instr
        BY <1>1, <1>2, <2>4, Settled DEF s
    <2>6. Waits' = Waits
        BY <1>2, <2>5 DEF Waits, s
    <2>7. PacketInv'
        BY <1>1, <1>4, <2>5 DEF PacketInv, ReadsAsked
    <2> QED
        BY <1>1, <1>4, <2>5, <2>6, <2>7 DEF IInv, TypeInv, ChannelInv, CountIsRight
<1>6. CASE is_load(instr)
    <2> DEFINE entry == [store[s] EXCEPT !.addr_valid = TRUE]
    <2>1. ~is_store(instr)
        BY <1>3, <1>6, InstrFacts
    <2>2. /\ entry \in Entry /\ entry.instr = instr /\ entry.rob_tag = tag_of(k) /\ entry.state = store[s].state
          /\ entry.data = store[s].data
        BY <1>3 DEF Entry
    <2>3. store' = [store EXCEPT ![s] = entry] /\ output' = output
        <3>1. store' = [store EXCEPT ![s].addr_valid = TRUE] /\ output' = output
            BY <1>2, <2>1 DEF compute_address, s, instr
        <3> QED
            BY <1>1, <1>3, <3>1 DEF TypeInv
    <2> HIDE DEF entry
    <2>4. /\ store' \in [Slot -> {NoEntry} \cup Entry] /\ Valid' = Valid
          /\ store'[s] = entry /\ \A o \in Slot \ {s} : store'[o] = store[o]
        BY <1>1, <1>3, <2>2, <2>3, Replaced
    <2>5. /\ Valid \subseteq Slot
          /\ \A o \in Valid : /\ store'[o].state = store[o].state /\ store'[o].instr = store[o].instr
                              /\ store'[o].data = store[o].data /\ store'[o].rob_tag = store[o].rob_tag
                              /\ o # s => (store'[o].addr_valid <=> store[o].addr_valid)
        BY <1>1, <1>3, <2>2, <2>4, EntryFacts
    <2>6. /\ Committed' = Committed /\ Voided' = Voided /\ Waits' = Waits
          /\ Owners' = Owners /\ DOMAIN window' = DOMAIN window
        BY <1>1, <2>4, <2>5 DEF Committed, Voided, Waits, Owners
    <2>7. \A j \in Owners : window[j].lsq_idx = s => j = k
        <3>1. \A j \in Owners : store[window[j].lsq_idx].rob_tag = tag_of(j)
            BY <1>1 DEF OwnerInv
        <3> QED
            BY <1>1, <1>3, <3>1, WindowFacts
    <2>8. \A j : tag_of(j)' = tag_of(j)
        BY <1>1 DEF tag_of
    <2>9. TypeInv' /\ CountIsRight'
        BY <1>1, <2>3, <2>4 DEF TypeInv, CountIsRight
    <2>10. EntryInv'
        BY <1>1, <2>4, <2>5 DEF EntryInv
    <2>11. OwnerInv'
        BY <1>1, <1>2, <2>4, <2>5, <2>6, <2>7, <2>8 DEF OwnerInv
    <2>12. LeftInv'
        BY <1>1, <2>4, <2>5, <2>6 DEF LeftInv
    <2>13. UnitInv'
        <3>1. ~input'.valid
            BY <1>1 DEF NoInput
        <3>2. \A j \in Owners : window[j].lsq_idx \in Valid
            BY <1>1 DEF OwnerInv
        <3> QED
            BY <1>1, <2>3, <2>5, <2>6, <2>8, <3>1, <3>2 DEF UnitInv
    <2>14. PacketInv' /\ ChannelInv'
        BY <1>1, <1>4, <2>5, <2>6 DEF PacketInv, ChannelInv, ReadsAsked
    <2> QED
        BY <2>9, <2>10, <2>11, <2>12, <2>13, <2>14 DEF IInv
<1> QED
    BY <1>2, <1>5, <1>6 DEF compute_address, instr

(* An entry that no instruction in flight has leaves its slot. *)
LEMMA LeftSlotIsFreed ==
    ASSUME IInv, NEW s \in Valid, store[s].state \in {"Voided", "Committed"}, release_entry(s),
           UNCHANGED <<window, head_tag, input, output>>
    PROVE  /\ store' \in [Slot -> {NoEntry} \cup Entry] /\ tail_index' \in Slot
           /\ EntryInv' /\ OwnerInv' /\ LeftInv' /\ UnitInv' /\ CountIsRight'
           /\ Valid' = Valid \ {s} /\ Waits' = Waits \ {s}
           /\ \A o \in Valid \ {s} : store'[o] = store[o]
<1>1. TypeInv /\ EntryInv /\ OwnerInv /\ LeftInv /\ UnitInv /\ CountIsRight
    BY DEF IInv
<1>2. /\ store' \in [Slot -> {NoEntry} \cup Entry] /\ Valid' = Valid \ {s}
      /\ \A o \in Slot \ {s} : store'[o] = store[o]
      /\ tail_index' \in Slot /\ CountIsRight'
    BY <1>1, Released DEF TypeInv
<1>3. /\ Valid \subseteq Slot /\ Owners \subseteq DOMAIN window
      /\ Owners' = Owners /\ DOMAIN window' = DOMAIN window /\ \A j : tag_of(j)' = tag_of(j)
    BY <1>1, EntryFacts, WindowFacts DEF Owners, tag_of
<1>4. \A j \in Owners : window[j].lsq_idx \in Valid /\ window[j].lsq_idx # s
    BY <1>1 DEF OwnerInv
<1>5. \A o \in Valid \ {s} : store'[o] = store[o]
    BY <1>2, <1>3
<1>6. Committed' \subseteq Committed /\ Voided' \subseteq Voided /\ Waits' = Waits \ {s}
    BY <1>2, <1>5 DEF Committed, Voided, Waits
<1> HIDE DEF tag_of
<1>7. EntryInv'
    BY <1>1, <1>2, <1>5 DEF EntryInv
<1>8. OwnerInv'
    BY <1>1, <1>2, <1>3, <1>4, <1>5 DEF OwnerInv
<1>9. LeftInv'
    BY <1>1, <1>2, <1>3, <1>5 DEF LeftInv
<1>10. UnitInv'
    BY <1>1, <1>3, <1>4, <1>5 DEF UnitInv
<1> QED
    BY <1>2, <1>5, <1>6, <1>7, <1>8, <1>9, <1>10

(* The oldest answer has left the channel. *)
LEMMA AnswerTaken ==
    ASSUME TypeInv, PacketInv, ChannelInv, core_rsp # <<>>, core_rsp' = Tail(core_rsp), core_req' = core_req,
           Waits' = Waits \ {core_rsp[1].user},
           \A o \in Waits \ {core_rsp[1].user} : store'[o].instr = store[o].instr
    PROVE  /\ core_req' \in Seq(ReadReq \cup WriteReq) /\ core_rsp' \in Seq(Rsp)
           /\ PacketInv' /\ ChannelInv'
<1> DEFINE s == core_rsp[1].user
<1>1. /\ core_rsp' \in Seq(Rsp) /\ DOMAIN core_rsp' = 1 .. Len(core_rsp) - 1
      /\ Len(core_rsp) \in Nat /\ Len(core_rsp) >= 1 /\ DOMAIN core_rsp = 1 .. Len(core_rsp)
      /\ \A i \in 1 .. Len(core_rsp) - 1 : core_rsp'[i] = core_rsp[i + 1]
    <2>1. core_rsp \in Seq(Rsp)
        BY DEF TypeInv
    <2> QED
        BY <2>1, TailFacts
<1>2. /\ \A i \in DOMAIN core_rsp' : /\ i + 1 \in DOMAIN core_rsp /\ i + 1 # 1 /\ i \in Nat
                                    /\ core_rsp'[i] = core_rsp[i + 1]
      /\ \A i \in DOMAIN core_rsp : i # 1 => /\ i - 1 \in DOMAIN core_rsp'
                                             /\ core_rsp'[i - 1] = core_rsp[i]
      /\ 1 \in DOMAIN core_rsp
    <2>1. \A i \in 2 .. Len(core_rsp) : i - 1 \in 1 .. Len(core_rsp) - 1 /\ (i - 1) + 1 = i
        BY <1>1
    <2> QED
        BY <1>1, <2>1
<1>3. ReadsAsked' = ReadsAsked
    BY DEF ReadsAsked
<1>4. /\ \A i \in DOMAIN core_rsp' : core_rsp'[i].user \in Waits \ {s}
      /\ \A j \in ReadsAsked : core_req[j].user \in Waits \ {s}
    BY <1>2 DEF ChannelInv
<1> HIDE DEF s
<1>5. PacketInv'
    <2>1. \A j \in DOMAIN core_req : ~core_req[j].is_write => j \in ReadsAsked
        BY DEF ReadsAsked
    <2> QED
        BY <1>2, <1>4, <2>1 DEF PacketInv, s
<1>6. \A i, j \in DOMAIN core_rsp' : core_rsp'[i].user = core_rsp'[j].user => i = j
    <2> SUFFICES ASSUME NEW i \in DOMAIN core_rsp', NEW j \in DOMAIN core_rsp',
                        core_rsp'[i].user = core_rsp'[j].user
                 PROVE  i = j
        OBVIOUS
    <2>1. i + 1 = j + 1 /\ i \in Nat /\ j \in Nat
        BY <1>2 DEF ChannelInv
    <2> QED
        BY <2>1
<1>7. \A o \in Waits \ {s} : \/ \E i \in DOMAIN core_rsp' : core_rsp'[i].user = o
                             \/ \E j \in ReadsAsked : core_req[j].user = o
    BY <1>2 DEF ChannelInv, s
<1>8. ChannelInv'
    BY <1>2, <1>3, <1>4, <1>6, <1>7 DEF ChannelInv, s
<1>9. core_req \in Seq(ReadReq \cup WriteReq)
    BY DEF TypeInv
<1> QED
    BY <1>1, <1>5, <1>8, <1>9

LEMMA TakeKeeps ==
    ASSUME IInv, take_answer
    PROVE  IInv'
<1> DEFINE s == core_rsp[1].user
           value == core_rsp[1].data
<1>1. /\ TypeInv /\ EntryInv /\ OwnerInv /\ LeftInv /\ UnitInv /\ PacketInv /\ ChannelInv /\ CountIsRight
      /\ UNCHANGED <<window, head_tag, input, ram, core_req>>
      /\ core_rsp # <<>> /\ core_rsp' = Tail(core_rsp)
    BY DEF IInv, take_answer, rob, Mem!Take
<1>2. Head(core_rsp) = core_rsp[1] /\ 1 \in DOMAIN core_rsp /\ core_rsp[1] \in Rsp
    BY <1>1 DEF TypeInv
<1>3. s \in Waits /\ s \in Valid /\ s \in Slot /\ store[s] \in Entry /\ value \in Value
      /\ value \in Bytes(store[s].instr)
    BY <1>1, <1>2, EntryFacts, RequestFacts DEF ChannelInv, Waits, PacketInv
<1>4. IF store[s].state = "Voided"
      THEN release_entry(s) /\ UNCHANGED output
      ELSE update_data(s, value) /\ send(store[s].rob_tag, value)
    BY <1>2 DEF take_answer
<1> HIDE DEF s, value
<1>5. CASE store[s].state = "Voided"
    <2>1. release_entry(s) /\ output' = output
        BY <1>4, <1>5
    <2>2. /\ store' \in [Slot -> {NoEntry} \cup Entry] /\ tail_index' \in Slot
          /\ EntryInv' /\ OwnerInv' /\ LeftInv' /\ UnitInv' /\ CountIsRight'
          /\ Valid' = Valid \ {s} /\ Waits' = Waits \ {s}
          /\ \A o \in Valid \ {s} : store'[o] = store[o]
        BY <1>1, <1>3, <1>5, <2>1, LeftSlotIsFreed
    <2>3. \A o \in Waits \ {s} : store'[o].instr = store[o].instr
        BY <2>2 DEF Waits
    <2>4. /\ core_req' \in Seq(ReadReq \cup WriteReq) /\ core_rsp' \in Seq(Rsp)
          /\ PacketInv' /\ ChannelInv'
        BY <1>1, <2>2, <2>3, AnswerTaken DEF s
    <2> QED
        BY <1>1, <2>1, <2>2, <2>4 DEF IInv, TypeInv
<1>6. CASE store[s].state # "Voided"
    <2> DEFINE entry == [store[s] EXCEPT !.data = value, !.state = "Writeback"]
    <2>1. store[s].state = "Issued"
        BY <1>3, <1>6 DEF Waits
    <2>2. PICK k \in Owners : window[k].lsq_idx = s
        BY <1>1, <1>3, <2>1 DEF LeftInv
    <2>3. /\ ~window[k].waiting /\ ~window[k].ready
          /\ store[s].rob_tag = tag_of(k) /\ store[s].instr = window[k].instr
        BY <1>1, <2>1, <2>2 DEF OwnerInv
    <2>4. is_load(store[s].instr)
        BY <1>1, <1>3, <2>1 DEF EntryInv
    <2>5. ~is_store(store[s].instr)
        BY <2>4 DEF is_load, is_store
    <2>6. /\ entry \in Entry /\ entry.instr = store[s].instr /\ entry.rob_tag = store[s].rob_tag
          /\ entry.state = "Writeback" /\ entry.data = value
        BY <1>3 DEF Entry
    <2>7. /\ store' = [store EXCEPT ![s] = entry] /\ tail_index' = tail_index /\ count' = count
          /\ output' = [valid |-> TRUE, rob_tag |-> store[s].rob_tag, value |-> value]
        <3>1. update_data(s, value) /\ send(store[s].rob_tag, value)
            BY <1>4, <1>6
        <3> QED
            BY <1>1, <1>3, <3>1 DEF update_data, send, TypeInv
    <2> HIDE DEF entry, tag_of
    <2>8. Settles(k, entry, value)
        BY <1>1, <1>3, <2>1, <2>2, <2>3, <2>5, <2>6, <2>7 DEF Settles
    <2>9. /\ store' \in [Slot -> {NoEntry} \cup Entry]
          /\ input' \in {NoInput} \cup Input /\ output' \in {NoOutput} \cup Output
          /\ EntryInv' /\ OwnerInv' /\ LeftInv' /\ UnitInv'
          /\ Valid' = Valid /\ Waits' = Waits \ {s}
          /\ \A o \in Valid : store'[o].instr = store[o].instr
        BY <1>1, <2>2, <2>3, <2>8, Settled
    <2>10. \A o \in Waits \ {s} : store'[o].instr = store[o].instr
        BY <2>9 DEF Waits
    <2>11. /\ core_req' \in Seq(ReadReq \cup WriteReq) /\ core_rsp' \in Seq(Rsp)
           /\ PacketInv' /\ ChannelInv'
        BY <1>1, <2>9, <2>10, AnswerTaken DEF s
    <2> QED
        BY <1>1, <2>7, <2>9, <2>11 DEF IInv, TypeInv, CountIsRight
<1> QED
    BY <1>5, <1>6

------------------------------------------------------------------------------
(* A request is sent to the cache: a write, or a read for a slot that starts to
   wait. *)
LEMMA RequestSent ==
    ASSUME TypeInv, PacketInv, ChannelInv, NEW req \in ReadReq \cup WriteReq,
           core_req' = Append(core_req, req), core_rsp' = core_rsp,
           \/ req \in WriteReq /\ Waits' = Waits
           \/ /\ req \in ReadReq /\ req.user \notin Waits /\ Waits' = Waits \cup {req.user}
              /\ req.addr = store'[req.user].instr.addr /\ req.size = store'[req.user].instr.size,
           \A o \in Waits : store'[o].instr = store[o].instr
    PROVE  /\ core_req' \in Seq(ReadReq \cup WriteReq) /\ core_rsp' \in Seq(Rsp)
           /\ PacketInv' /\ ChannelInv'
<1> DEFINE n == Len(core_req)
<1>1. /\ core_req' \in Seq(ReadReq \cup WriteReq) /\ DOMAIN core_req' = 1 .. n + 1
      /\ \A i \in 1 .. n : core_req'[i] = core_req[i] /\ i # n + 1
      /\ core_req'[n + 1] = req /\ n \in Nat /\ DOMAIN core_req = 1 .. n
    <2>1. core_req \in Seq(ReadReq \cup WriteReq)
        BY DEF TypeInv
    <2> QED
        BY <2>1, AppendFacts
<1> HIDE DEF n
<1>2. core_rsp' \in Seq(Rsp)
    BY DEF TypeInv
<1>3. /\ \A j \in ReadsAsked : core_req[j].user \in Waits /\ j \in DOMAIN core_req
      /\ \A i \in DOMAIN core_rsp : core_rsp[i].user \in Waits
    BY DEF ChannelInv, ReadsAsked
<1>4. CASE req \in WriteReq /\ Waits' = Waits
    <2>1. req.is_write
        BY <1>4, RequestFacts
    <2>2. ReadsAsked' = ReadsAsked /\ \A j \in ReadsAsked : core_req'[j] = core_req[j]
        BY <1>1, <2>1 DEF ReadsAsked
    <2>3. ChannelInv'
        BY <1>3, <1>4, <2>2 DEF ChannelInv
    <2>4. PacketInv'
        BY <1>3, <2>2 DEF PacketInv, ReadsAsked
    <2> QED
        BY <1>1, <1>2, <2>3, <2>4
<1>5. CASE /\ req \in ReadReq /\ req.user \notin Waits /\ Waits' = Waits \cup {req.user}
           /\ req.addr = store'[req.user].instr.addr /\ req.size = store'[req.user].instr.size
    <2>1. ~req.is_write
        BY <1>5, RequestFacts
    <2>2. /\ ReadsAsked' = ReadsAsked \cup {n + 1}
          /\ \A j \in ReadsAsked : core_req'[j] = core_req[j] /\ j # n + 1
        BY <1>1, <2>1 DEF ReadsAsked
    <2>3. ChannelInv'
        BY <1>1, <1>3, <1>5, <2>2 DEF ChannelInv
    <2>4. PacketInv'
        <3>1. \A j \in ReadsAsked' : /\ core_req'[j].addr = store'[core_req'[j].user].instr.addr
                                     /\ core_req'[j].size = store'[core_req'[j].user].instr.size
            BY <1>1, <1>3, <1>5, <2>2 DEF PacketInv, ReadsAsked
        <3> QED
            BY <1>3, <3>1 DEF PacketInv, ReadsAsked
    <2> QED
        BY <1>1, <1>2, <2>3, <2>4
<1> QED
    BY <1>4, <1>5

(* The entry that is chosen. *)
LEMMA Selected ==
    ASSUME TypeInv, select_oldest_actionable # NULL
    PROVE  select_oldest_actionable \in Actionable
<1>1. Actionable \subseteq Slot
    BY EntryFacts DEF Actionable
<1> QED
    BY <1>1, ScanFinds DEF select_oldest_actionable

(* A committed store goes to the cache. *)
LEMMA StoreKeeps ==
    ASSUME IInv, NEW s \in Actionable, is_store(store[s].instr), issue_store(s), UNCHANGED <<rob, input>>
    PROVE  IInv'
<1>1. /\ TypeInv /\ EntryInv /\ OwnerInv /\ LeftInv /\ UnitInv /\ PacketInv /\ ChannelInv /\ CountIsRight
      /\ UNCHANGED <<window, head_tag, input, output, ram, core_rsp>>
      /\ core_req' = Append(core_req, Write(s)) /\ release_entry(s)
    BY DEF IInv, rob, issue_store, Mem!Ask
<1>2. s \in Valid /\ store[s] \in Entry /\ store[s].state = "Committed"
    <2>1. ~is_load(store[s].instr)
        BY DEF is_load, is_store
    <2> QED
        BY <1>1, <2>1, EntryFacts DEF Actionable, is_ready_store, is_ready_load
<1>3. Write(s) \in WriteReq
    <2> DEFINE instr == store[s].instr
    <2>1. instr \in Stores /\ store[s].data = instr.data
        BY <1>1, <1>2, InstrFacts DEF EntryInv, Entry
    <2> QED
        BY <2>1 DEF Write, WriteReq
<1>4. /\ store' \in [Slot -> {NoEntry} \cup Entry] /\ tail_index' \in Slot
      /\ EntryInv' /\ OwnerInv' /\ LeftInv' /\ UnitInv' /\ CountIsRight'
      /\ Valid' = Valid \ {s} /\ Waits' = Waits \ {s}
      /\ \A o \in Valid \ {s} : store'[o] = store[o]
    BY <1>1, <1>2, LeftSlotIsFreed
<1>5. Waits' = Waits /\ s \notin Waits
    BY <1>2, <1>4 DEF Waits
<1>6. \A o \in Waits : store'[o].instr = store[o].instr
    BY <1>4, <1>5 DEF Waits
<1>7. /\ core_req' \in Seq(ReadReq \cup WriteReq) /\ core_rsp' \in Seq(Rsp)
      /\ PacketInv' /\ ChannelInv'
    BY <1>1, <1>3, <1>5, <1>6, RequestSent
<1> QED
    BY <1>1, <1>4, <1>7 DEF IInv, TypeInv

(* The bytes that a load takes from another entry are all there. *)
LEMMA ForwardedIsThere ==
    ASSUME IInv, NEW s \in Valid, is_load(store[s].instr), NEW o \in Sources(s)
    PROVE  forwarded(s, o) \in Bytes(store[s].instr) /\ forwarded(s, o) \in Value
<1> DEFINE to == store[s].instr
           from == store[o].instr
<1>1. o \in Valid /\ store[o].data # NULL /\ Reach(to) \subseteq Reach(from)
    BY DEF Sources, Older, covers
<1>2. store[o].data \in Bytes(from) /\ store[s] \in Entry /\ store[o] \in Entry
    BY <1>1, EntryFacts DEF IInv, EntryInv
<1>3. /\ to \in Loads \cup Stores
      /\ to.addr \in Int /\ to.size \in Nat \ {0} /\ from.addr \in Int /\ from.size \in Nat \ {0}
    BY <1>2, InstrFacts DEF Entry
<1> HIDE DEF to, from
<1>4. \A i \in 0 .. to.size - 1 : to.addr - from.addr + i \in 0 .. from.size - 1
    <2> SUFFICES ASSUME NEW i \in 0 .. to.size - 1
                 PROVE  to.addr - from.addr + i \in 0 .. from.size - 1
        OBVIOUS
    <2>1. to.addr + i \in from.addr .. from.addr + from.size - 1
        BY <1>1, <1>3 DEF Reach
    <2> QED
        BY <1>3, <2>1
<1>5. forwarded(s, o) = [i \in 0 .. to.size - 1 |-> store[o].data[to.addr - from.addr + i]]
    BY DEF forwarded, to, from
<1>6. forwarded(s, o) \in Bytes(to)
    BY <1>2, <1>4, <1>5 DEF Bytes
<1> QED
    BY <1>3, <1>6 DEF Value, to

(* A load takes its bytes from another entry, or asks the cache. *)
LEMMA LoadKeeps ==
    ASSUME IInv, NEW s \in Actionable, is_load(store[s].instr), issue_load(s), UNCHANGED <<rob, input>>
    PROVE  IInv'
<1>1. /\ TypeInv /\ EntryInv /\ OwnerInv /\ LeftInv /\ UnitInv /\ PacketInv /\ ChannelInv /\ CountIsRight
      /\ UNCHANGED <<window, head_tag, input>>
    BY DEF IInv, rob
<1>2. ~is_store(store[s].instr)
    BY DEF is_load, is_store
<1>3. s \in Valid /\ s \in Slot /\ store[s] \in Entry /\ store[s].state = "Pending" /\ store[s].addr_valid
    BY <1>1, <1>2, EntryFacts DEF Actionable, is_ready_store, is_ready_load
<1>4. PICK k \in Owners : window[k].lsq_idx = s
    BY <1>1, <1>3 DEF LeftInv
<1>5. /\ ~window[k].waiting /\ ~window[k].ready
      /\ store[s].rob_tag = tag_of(k) /\ store[s].instr = window[k].instr
    BY <1>1, <1>3, <1>4 DEF OwnerInv
<1>6. s \notin Waits
    BY <1>3 DEF Waits
<1>7. CASE Sources(s) # {}
    <2> DEFINE o == youngest(Sources(s))
               value == forwarded(s, o)
               entry == [store[s] EXCEPT !.data = value, !.state = "Writeback"]
    <2>1. o \in Sources(s)
        <3>1. Sources(s) \subseteq Slot
            BY <1>1, EntryFacts DEF Sources, Older
        <3> QED
            BY <1>7, <3>1, ScanFinds DEF youngest
    <2>2. value \in Bytes(store[s].instr) /\ value \in Value
        BY <1>3, <2>1, ForwardedIsThere
    <2>3. update_data(s, value) /\ send(store[s].rob_tag, value) /\ UNCHANGED <<ram, core_req, core_rsp>>
        BY <1>7 DEF issue_load, dcache
    <2> HIDE DEF o, value
    <2>4. /\ entry \in Entry /\ entry.instr = store[s].instr /\ entry.rob_tag = store[s].rob_tag
          /\ entry.state = "Writeback" /\ entry.data = value
        BY <1>3, <2>2 DEF Entry
    <2>5. /\ store' = [store EXCEPT ![s] = entry] /\ tail_index' = tail_index /\ count' = count
          /\ output' = [valid |-> TRUE, rob_tag |-> store[s].rob_tag, value |-> value]
        BY <1>1, <1>3, <2>3 DEF update_data, send, TypeInv
    <2> HIDE DEF entry, tag_of
    <2>6. Settles(k, entry, value)
        BY <1>1, <1>2, <1>3, <1>4, <1>5, <2>2, <2>4, <2>5 DEF Settles
    <2>7. /\ store' \in [Slot -> {NoEntry} \cup Entry]
          /\ input' \in {NoInput} \cup Input /\ output' \in {NoOutput} \cup Output
          /\ EntryInv' /\ OwnerInv' /\ LeftInv' /\ UnitInv'
          /\ Valid' = Valid /\ Waits' = Waits \ {s}
          /\ \A p \in Valid : store'[p].instr = store[p].instr
        BY <1>1, <1>4, <1>5, <2>6, Settled
    <2>8. Waits' = Waits /\ ReadsAsked' = ReadsAsked
        BY <1>6, <2>3, <2>7 DEF ReadsAsked
    <2>9. \A p \in Waits : store'[p].instr = store[p].instr
        BY <2>7 DEF Waits
    <2>10. PacketInv' /\ ChannelInv'
        BY <1>1, <2>3, <2>8, <2>9 DEF PacketInv, ChannelInv, ReadsAsked
    <2> QED
        BY <1>1, <2>3, <2>5, <2>7, <2>10 DEF IInv, TypeInv, CountIsRight
<1>8. CASE Sources(s) = {}
    <2> DEFINE entry == [store[s] EXCEPT !.state = "Issued"]
    <2>1. /\ core_req' = Append(core_req, Read(s)) /\ UNCHANGED <<tail_index, count, output, ram, core_rsp>>
          /\ store' = [store EXCEPT ![s].state = "Issued"]
        BY <1>8 DEF issue_load, Mem!Ask
    <2>2. /\ entry \in Entry /\ entry.instr = store[s].instr /\ entry.rob_tag = store[s].rob_tag
          /\ entry.state = "Issued" /\ entry.data = store[s].data
        BY <1>3 DEF Entry
    <2>3. store' = [store EXCEPT ![s] = entry]
        BY <1>1, <1>3, <2>1 DEF TypeInv
    <2> HIDE DEF entry, tag_of
    <2>4. /\ store' \in [Slot -> {NoEntry} \cup Entry] /\ Valid' = Valid
          /\ store'[s] = entry /\ \A p \in Slot \ {s} : store'[p] = store[p]
        BY <1>1, <1>3, <2>2, <2>3, Replaced
    <2>5. /\ Valid \subseteq Slot /\ Owners \subseteq DOMAIN window
          /\ Owners' = Owners /\ DOMAIN window' = DOMAIN window /\ \A j : tag_of(j)' = tag_of(j)
        BY <1>1, EntryFacts, WindowFacts DEF Owners, tag_of
    <2>6. /\ \A p \in Valid : store'[p].instr = store[p].instr /\ store'[p].rob_tag = store[p].rob_tag
                              /\ store'[p].data = store[p].data
          /\ \A p \in Valid \ {s} : store'[p] = store[p]
        BY <2>2, <2>4, <2>5
    <2>7. Committed' = Committed /\ Voided' = Voided /\ Waits' = Waits \cup {s}
        BY <1>3, <2>2, <2>4, <2>5 DEF Committed, Voided, Waits
    <2>8. EntryInv'
        <3>1. entry.data = NULL /\ is_load(entry.instr)
            BY <1>1, <1>3, <2>2 DEF EntryInv
        <3>2. ~is_store(entry.instr)
            BY <3>1 DEF is_load, is_store
        <3> QED
            BY <1>1, <2>2, <2>4, <2>6, <3>1, <3>2 DEF EntryInv
    <2>9. \A j \in Owners : window[j].lsq_idx \in Valid /\ (window[j].lsq_idx = s => j = k)
        <3>1. \A j \in Owners : store[window[j].lsq_idx].rob_tag = tag_of(j) /\ window[j].lsq_idx \in Valid
            BY <1>1 DEF OwnerInv
        <3> QED
            BY <1>1, <1>5, <2>5, <3>1, WindowFacts
    <2>10. OwnerInv'
        BY <1>1, <1>5, <2>2, <2>4, <2>5, <2>6, <2>9 DEF OwnerInv
    <2>11. LeftInv'
        <3>1. \A p \in Valid : store'[p].state \in {"Pending", "Issued", "Writeback"}
                                   => \E j \in Owners : window[j].lsq_idx = p
            BY <1>1, <1>4, <2>6 DEF LeftInv
        <3> QED
            BY <1>1, <2>4, <2>5, <2>6, <3>1 DEF LeftInv
    <2>12. UnitInv'
        <3>1. ASSUME input.valid
              PROVE  \E j \in Owners :
                         LET p == window[j].lsq_idx
                         IN  /\ input.rob_tag = tag_of(j) /\ input.instr = window[j].instr /\ input.lsq_idx = p
                             /\ ~window[j].waiting /\ ~window[j].ready
                             /\ store'[p].state = "Pending" /\ ~store'[p].addr_valid
            <4>1. PICK j \in Owners :
                       /\ input.rob_tag = tag_of(j) /\ input.instr = window[j].instr
                       /\ input.lsq_idx = window[j].lsq_idx
                       /\ ~window[j].waiting /\ ~window[j].ready
                       /\ store[window[j].lsq_idx].state = "Pending" /\ ~store[window[j].lsq_idx].addr_valid
                BY <1>1, <3>1 DEF UnitInv
            <4>2. window[j].lsq_idx \in Valid \ {s}
                BY <1>3, <2>9, <4>1
            <4> QED
                BY <2>6, <4>1, <4>2
        <3>2. ASSUME output.valid
              PROVE  \E j \in Owners : /\ output.rob_tag = tag_of(j)
                                       /\ ~window[j].waiting /\ ~window[j].ready
                                       /\ store'[window[j].lsq_idx].state = "Writeback"
            <4>1. PICK j \in Owners : /\ output.rob_tag = tag_of(j)
                                      /\ ~window[j].waiting /\ ~window[j].ready
                                      /\ store[window[j].lsq_idx].state = "Writeback"
                BY <1>1, <3>2 DEF UnitInv
            <4>2. window[j].lsq_idx \in Valid \ {s}
                BY <1>3, <2>9, <4>1
            <4> QED
                BY <2>6, <4>1, <4>2
        <3> QED
            BY <1>1, <2>1, <2>5, <3>1, <3>2 DEF UnitInv
    <2>13. /\ Read(s) \in ReadReq /\ Read(s).user = s
           /\ Read(s).addr = store'[s].instr.addr /\ Read(s).size = store'[s].instr.size
        <3>1. store[s].instr \in Loads
            BY <1>2, <1>3, InstrFacts DEF Entry
        <3>2. Read(s) \in ReadReq
            BY <1>3, <3>1, InstrFacts DEF Read, ReadReq
        <3>3. Read(s).user = s /\ Read(s).addr = store[s].instr.addr /\ Read(s).size = store[s].instr.size
            BY DEF Read
        <3> QED
            BY <2>2, <2>4, <3>2, <3>3
    <2>14. \A p \in Waits : store'[p].instr = store[p].instr
        BY <2>6 DEF Waits
    <2>15. /\ core_req' \in Seq(ReadReq \cup WriteReq) /\ core_rsp' \in Seq(Rsp)
           /\ PacketInv' /\ ChannelInv'
        BY <1>1, <1>6, <2>1, <2>7, <2>13, <2>14, RequestSent
    <2> QED
        BY <1>1, <2>1, <2>4, <2>8, <2>10, <2>11, <2>12, <2>15 DEF IInv, TypeInv, CountIsRight
<1> QED
    BY <1>7, <1>8

------------------------------------------------------------------------------
(* A new instruction: a free slot and a tag that no entry has. *)
LEMMA IssueKeeps ==
    ASSUME IInv, NEW instr \in Instr, issue(instr)
    PROVE  IInv'
<1> DEFINE n == Len(window)
           item == [instr |-> instr, waiting |-> TRUE, ready |-> FALSE, result |-> NULL,
                    lsq_idx |-> IF is_lsu(instr) THEN slot_at(first_free) ELSE NULL]
           f == slot_at(first_free)
           tag == tag_of(n + 1)
<1>1. /\ TypeInv /\ EntryInv /\ OwnerInv /\ LeftInv /\ UnitInv /\ PacketInv /\ ChannelInv /\ CountIsRight
      /\ UNCHANGED <<head_tag, input, output, ram, core_req, core_rsp>>
      /\ window' = Append(window, item) /\ n < WINDOW
    BY DEF IInv, issue, unit, dcache
<1>2. /\ n \in Nat /\ n + 1 \in 1 .. ROB_SIZE /\ DOMAIN window = 1 .. n
      /\ head_tag \in Tag /\ tag \in Tag
    <2>1. n \in Nat /\ n + 1 \in 1 .. ROB_SIZE /\ n + 1 \in 1 .. 2 * ROB_SIZE /\ head_tag \in Tag
          /\ DOMAIN window = 1 .. n
        BY <1>1, Sizes DEF TypeInv
    <2> QED
        BY <2>1, TagsOf
<1>4. CASE is_lsu(instr)
    <2>1. instr \in Loads \cup Stores /\ count # NUM_LSQS /\ allocate(tag, instr)
        BY <1>4, InstrFacts DEF issue
    <2> DEFINE entry == [valid |-> TRUE, state |-> "Pending", addr_valid |-> FALSE, data |-> NULL,
                         rob_tag |-> tag, instr |-> instr]
    <2> HIDE DEF tag
    <2>2. /\ f \in Slot \ Valid /\ tail_index' \in Slot
          /\ store' \in [Slot -> {NoEntry} \cup Entry] /\ Valid' = Valid \cup {f}
          /\ store'[f] = entry
          /\ \A o \in Slot \ {f} : store'[o] = store[o]
          /\ CountIsRight'
        BY <1>1, <1>2, <2>1, Allocated
    <2>3. /\ entry.state = "Pending" /\ ~entry.addr_valid /\ entry.data = NULL /\ entry.rob_tag = tag
          /\ entry.instr = instr
        OBVIOUS
    <2>4. /\ item \in InFlight /\ item.instr = instr /\ item.waiting /\ ~item.ready /\ item.lsq_idx = f
        BY <1>4, <2>2 DEF InFlight, Value
    <2> HIDE DEF item, f, entry
    <2>5. /\ window' \in Seq(InFlight) /\ Len(window') = n + 1 /\ DOMAIN window' = 1 .. n + 1
          /\ \A j \in DOMAIN window : window'[j] = window[j] /\ j # n + 1
          /\ window'[n + 1] = item
        <3>1. window \in Seq(InFlight)
            BY <1>1 DEF TypeInv
        <3> QED
            BY <1>1, <1>2, <2>4, <3>1, AppendFacts
    <2>6. /\ Valid \subseteq Slot /\ Owners \subseteq DOMAIN window /\ f \notin Valid
          /\ \A o \in Valid : store'[o] = store[o]
        BY <1>1, <2>2, EntryFacts, WindowFacts
    <2>7. Owners' = Owners \cup {n + 1} /\ n + 1 \notin Owners
        BY <1>2, <1>4, <2>4, <2>5, <2>6 DEF Owners
    <2>8. Waits' = Waits
        BY <2>2, <2>3, <2>6 DEF Waits
    <2>9. \A j : tag_of(j)' = tag_of(j)
        BY <1>1 DEF tag_of
    <2>10. tag = tag_of(n + 1)
        BY DEF tag
    <2> HIDE DEF tag_of
    <2>11. TypeInv'
        <3>1. Len(window') <= WINDOW
            BY <1>1, <1>2, <2>5, Sizes
        <3> QED
            BY <1>1, <2>2, <2>5, <3>1 DEF TypeInv
    <2>12. EntryInv'
        <3>1. \A o \in Valid' : o = f \/ o \in Valid
            BY <2>2
        <3>2. /\ \A o \in Valid :
                    /\ store'[o].state \in {"Issued", "Voided"} => is_load(store'[o].instr)
                    /\ store'[o].state = "Committed" => is_store(store'[o].instr)
                    /\ is_store(store'[o].instr) /\ store'[o].state \in {"Writeback", "Committed"}
                           => store'[o].data = store'[o].instr.data
                    /\ store'[o].data # NULL => store'[o].data \in Bytes(store'[o].instr)
                    /\ is_load(store'[o].instr) /\ store'[o].state \in {"Pending", "Issued", "Voided"}
                           => store'[o].data = NULL
            BY <1>1, <2>6 DEF EntryInv
        <3> QED
            BY <2>2, <2>3, <3>1, <3>2 DEF EntryInv
    <2>13. OwnerInv'
        <3>1. ASSUME NEW j \in Owners
              PROVE  LET o == window'[j].lsq_idx
                     IN  /\ o \in Valid' /\ store'[o].rob_tag = tag_of(j) /\ store'[o].instr = window'[j].instr
                         /\ store'[o].state \in {"Pending", "Issued", "Writeback"}
                         /\ window'[j].waiting => store'[o].state = "Pending" /\ ~store'[o].addr_valid
                                                  /\ ~window'[j].ready
                         /\ window'[j].ready => store'[o].state = "Writeback"
            BY <1>1, <2>2, <2>5, <2>6 DEF OwnerInv
        <3>2. LET o == window'[n + 1].lsq_idx
              IN  /\ o \in Valid' /\ store'[o].rob_tag = tag_of(n + 1) /\ store'[o].instr = window'[n + 1].instr
                  /\ store'[o].state \in {"Pending", "Issued", "Writeback"}
                  /\ window'[n + 1].waiting => store'[o].state = "Pending" /\ ~store'[o].addr_valid
                                               /\ ~window'[n + 1].ready
                  /\ window'[n + 1].ready => store'[o].state = "Writeback"
            BY <2>2, <2>3, <2>4, <2>5, <2>10
        <3> SUFFICES ASSUME NEW j \in Owners'
                     PROVE  LET o == window'[j].lsq_idx
                            IN  /\ o \in Valid' /\ store'[o].rob_tag = tag_of(j)' /\ store'[o].instr = window'[j].instr
                                /\ store'[o].state \in {"Pending", "Issued", "Writeback"}
                                /\ window'[j].waiting => store'[o].state = "Pending" /\ ~store'[o].addr_valid
                                                         /\ ~window'[j].ready
                                /\ window'[j].ready => store'[o].state = "Writeback"
            BY DEF OwnerInv
        <3>3. j \in Owners \/ j = n + 1
            BY <2>7
        <3> QED
            BY <2>9, <3>1, <3>2, <3>3
    <2>14. LeftInv'
        <3>1. \A s \in Valid' : store'[s].state \in {"Pending", "Issued", "Writeback"}
                                    => \E j \in Owners' : window'[j].lsq_idx = s
            <4>1. ASSUME NEW s \in Valid, store[s].state \in {"Pending", "Issued", "Writeback"}
                  PROVE  \E j \in Owners' : window'[j].lsq_idx = s
                BY <1>1, <2>5, <2>6, <2>7, <4>1 DEF LeftInv
            <4>2. n + 1 \in Owners' /\ window'[n + 1].lsq_idx = f
                BY <2>4, <2>5, <2>7
            <4> QED
                BY <2>2, <2>6, <4>1, <4>2
        <3> QED
            BY <3>1 DEF LeftInv
    <2>15. UnitInv'
        <3>1. \A j \in Owners : /\ window'[j] = window[j] /\ j \in Owners'
                                /\ store'[window[j].lsq_idx] = store[window[j].lsq_idx]
            BY <1>1, <2>5, <2>6, <2>7 DEF OwnerInv
        <3>2. ASSUME input.valid
              PROVE  \E j \in Owners' :
                         LET o == window'[j].lsq_idx
                         IN  /\ input.rob_tag = tag_of(j) /\ input.instr = window'[j].instr /\ input.lsq_idx = o
                             /\ ~window'[j].waiting /\ ~window'[j].ready
                             /\ store'[o].state = "Pending" /\ ~store'[o].addr_valid
            <4>1. PICK j \in Owners :
                       /\ input.rob_tag = tag_of(j) /\ input.instr = window[j].instr
                       /\ input.lsq_idx = window[j].lsq_idx
                       /\ ~window[j].waiting /\ ~window[j].ready
                       /\ store[window[j].lsq_idx].state = "Pending" /\ ~store[window[j].lsq_idx].addr_valid
                BY <1>1, <3>2 DEF UnitInv
            <4> QED
                BY <3>1, <4>1
        <3>3. ASSUME output.valid
              PROVE  \E j \in Owners' : /\ output.rob_tag = tag_of(j)
                                        /\ ~window'[j].waiting /\ ~window'[j].ready
                                        /\ store'[window'[j].lsq_idx].state = "Writeback"
            <4>1. PICK j \in Owners : /\ output.rob_tag = tag_of(j)
                                      /\ ~window[j].waiting /\ ~window[j].ready
                                      /\ store[window[j].lsq_idx].state = "Writeback"
                BY <1>1, <3>3 DEF UnitInv
            <4> QED
                BY <3>1, <4>1
        <3> QED
            BY <1>1, <2>9, <3>2, <3>3 DEF UnitInv
    <2>16. PacketInv' /\ ChannelInv'
        <3>1. /\ \A i \in DOMAIN core_rsp : core_rsp[i].user \in Valid
              /\ \A i \in DOMAIN core_req : ~core_req[i].is_write => core_req[i].user \in Valid
              /\ ReadsAsked' = ReadsAsked
            BY <1>1 DEF ChannelInv, Waits, ReadsAsked
        <3> QED
            BY <1>1, <2>6, <2>8, <3>1 DEF PacketInv, ChannelInv
    <2> QED
        BY <2>2, <2>11, <2>12, <2>13, <2>14, <2>15, <2>16 DEF IInv
<1>5. CASE ~is_lsu(instr)
    <2>1. UNCHANGED <<store, tail_index, count>>
        BY <1>5 DEF issue, lsq
    <2>2. item \in InFlight /\ item.instr = instr
        BY <1>5 DEF InFlight, Value
    <2> HIDE DEF item, tag
    <2>3. /\ window' \in Seq(InFlight) /\ Len(window') = n + 1 /\ DOMAIN window' = 1 .. n + 1
          /\ \A j \in DOMAIN window : window'[j] = window[j] /\ j # n + 1
          /\ window'[n + 1] = item
        <3>1. window \in Seq(InFlight)
            BY <1>1 DEF TypeInv
        <3> QED
            BY <1>1, <1>2, <2>2, <3>1, AppendFacts
    <2>4. Owners \subseteq DOMAIN window
        BY <1>1, WindowFacts
    <2>5. Owners' = Owners
        BY <1>2, <1>5, <2>2, <2>3 DEF Owners
    <2>6. /\ Valid' = Valid /\ Waits' = Waits
          /\ ReadsAsked' = ReadsAsked /\ \A j : tag_of(j)' = tag_of(j)
        BY <1>1, <2>1 DEF Valid, Waits, ReadsAsked, tag_of
    <2> HIDE DEF tag_of
    <2>7. TypeInv'
        <3>1. Len(window') <= WINDOW
            BY <1>1, <1>2, <2>3, Sizes
        <3> QED
            BY <1>1, <2>1, <2>3, <3>1 DEF TypeInv
    <2>8. EntryInv' /\ PacketInv' /\ ChannelInv' /\ CountIsRight'
        BY <1>1, <2>1, <2>6 DEF EntryInv, PacketInv, ChannelInv, CountIsRight
    <2>9. OwnerInv'
        BY <1>1, <2>1, <2>3, <2>4, <2>5, <2>6 DEF OwnerInv
    <2>10. LeftInv'
        BY <1>1, <2>1, <2>3, <2>4, <2>5, <2>6 DEF LeftInv
    <2>11. UnitInv'
        BY <1>1, <2>1, <2>3, <2>4, <2>5, <2>6 DEF UnitInv
    <2> QED
        BY <2>7, <2>8, <2>9, <2>10, <2>11 DEF IInv
<1> QED
    BY <1>4, <1>5

------------------------------------------------------------------------------
(* The head of the window retires: the entry under its tag is its own. *)
LEMMA HeadEntry ==
    ASSUME IInv, window # <<>>, Head(window).ready, is_lsu(Head(window).instr), ~commits_another
    PROVE  /\ 1 \in Owners /\ window[1].lsq_idx \in Valid
           /\ store[window[1].lsq_idx].state = "Writeback"
           /\ store[window[1].lsq_idx].instr = Head(window).instr
           /\ store[window[1].lsq_idx].rob_tag = head_tag
           /\ Min(find_by_rob(head_tag)) = window[1].lsq_idx /\ find_by_rob(head_tag) # {}
<1> DEFINE s == window[1].lsq_idx
<1>1. TypeInv /\ OwnerInv /\ LeftInv
    BY DEF IInv
<1>2. 1 \in DOMAIN window /\ Head(window) = window[1] /\ head_tag \in Tag
    BY <1>1 DEF TypeInv
<1>3. 1 \in Owners
    BY <1>2 DEF Owners
<1>4. /\ s \in Valid /\ store[s].rob_tag = tag_of(1) /\ store[s].state = "Writeback"
      /\ store[s].instr = window[1].instr
    BY <1>1, <1>2, <1>3 DEF OwnerInv
<1>5. tag_of(1) = head_tag
    BY <1>2, Sizes, TagIs DEF Tag
<1> HIDE DEF s, tag_of
<1>6. s \in find_by_rob(head_tag) /\ find_by_rob(head_tag) \subseteq Slot
    BY <1>1, <1>4, <1>5, EntryFacts DEF find_by_rob
<1>7. \A o \in find_by_rob(head_tag) : ~ (o < s)
    BY <1>2 DEF commits_another, s
<1>8. Min(find_by_rob(head_tag)) = s
    <2>1. \A o \in find_by_rob(head_tag) : o \in Int /\ s <= o
        BY <1>6, <1>7 DEF Slot
    <2> QED
        BY <1>6, <2>1 DEF Min
<1> QED
    BY <1>2, <1>3, <1>4, <1>5, <1>6, <1>8 DEF s

(* What is left when the head has gone, whatever became of its entry. *)
LEMMA HeadGone ==
    ASSUME IInv, window # <<>>, Head(window).ready,
           window' = Tail(window), head_tag' = (head_tag + 1) % (2 * ROB_SIZE), UNCHANGED <<input, output>>,
           NEW s,
           IF 1 \in Owners THEN s = window[1].lsq_idx ELSE s \notin Valid,
           Valid \ {s} \subseteq Valid', Valid' \subseteq Valid,
           \A o \in Valid \ {s} : store'[o] = store[o],
           s \in Valid' => /\ store'[s].state = "Committed" /\ store'[s].rob_tag = head_tag
    PROVE  /\ window' \in Seq(InFlight) /\ Len(window') <= WINDOW /\ head_tag' \in Tag
           /\ OwnerInv' /\ LeftInv' /\ UnitInv'
<1> DEFINE n == Len(window)
<1>1. TypeInv /\ OwnerInv /\ LeftInv /\ UnitInv
    BY DEF IInv
<1>2. /\ n \in 1 .. ROB_SIZE /\ n <= WINDOW /\ DOMAIN window = 1 .. n /\ head_tag \in Tag /\ Head(window) = window[1]
      /\ window' \in Seq(InFlight) /\ Len(window') = n - 1 /\ DOMAIN window' = 1 .. n - 1
      /\ \A j \in 1 .. n - 1 : window'[j] = window[j + 1]
    <2>1. window \in Seq(InFlight) /\ n <= WINDOW /\ head_tag \in Tag
        BY <1>1 DEF TypeInv
    <2> QED
        BY <2>1, Sizes, TailFacts
<1>3. /\ head_tag' \in Tag
      /\ \A j \in 1 .. ROB_SIZE : tag_of(j)' = tag_of(j + 1)
      /\ \A tag \in Tag, age \in 0 .. ROB_SIZE - 1 :
            head_tag = (tag + age) % (2 * ROB_SIZE) => head_tag' = (tag + (age + 1)) % (2 * ROB_SIZE)
    BY <1>2, NextTag
<1> HIDE DEF n, tag_of
<1>4. /\ \A j \in Owners' : j \in 1 .. ROB_SIZE /\ j + 1 \in Owners /\ j + 1 # 1 /\ window'[j] = window[j + 1]
      /\ \A j \in Owners : j # 1 => j - 1 \in Owners' /\ window'[j - 1] = window[j]
                                    /\ tag_of(j - 1)' = tag_of(j)
    <2>1. \A j \in 2 .. n : j - 1 \in 1 .. n - 1 /\ (j - 1) + 1 = j /\ j - 1 \in 1 .. ROB_SIZE
        BY <1>2, Sizes
    <2>2. \A j \in 1 .. n - 1 : j + 1 \in 1 .. n /\ j + 1 # 1 /\ j \in 1 .. ROB_SIZE
        BY <1>2, Sizes
    <2>3. \A j \in Owners' : j \in 1 .. ROB_SIZE /\ j + 1 \in Owners /\ j + 1 # 1 /\ window'[j] = window[j + 1]
        BY <1>2, <2>2 DEF Owners
    <2>4. \A j \in Owners : j # 1 => j \in 2 .. n
        BY <1>2 DEF Owners
    <2>5. \A j \in 2 .. n : j \in Owners => j - 1 \in Owners' /\ window'[j - 1] = window[j]
        BY <1>2, <2>1 DEF Owners
    <2>6. \A j \in 2 .. n : tag_of(j - 1)' = tag_of(j)
        <3> SUFFICES ASSUME NEW j \in 2 .. n PROVE tag_of(j - 1)' = tag_of(j)
            OBVIOUS
        <3>1. tag_of(j - 1)' = tag_of((j - 1) + 1) /\ (j - 1) + 1 = j
            BY <1>3, <2>1
        <3> QED
            BY <3>1
    <2> QED
        BY <2>3, <2>4, <2>5, <2>6
<1>5. \A j \in Owners : j # 1 => window[j].lsq_idx \in Valid \ {s}
    <2> SUFFICES ASSUME NEW j \in Owners, j # 1, window[j].lsq_idx = s PROVE FALSE
        BY <1>1 DEF OwnerInv
    <2>1. s \in Valid /\ store[s].rob_tag = tag_of(j)
        BY <1>1 DEF OwnerInv
    <2>2. 1 \in Owners /\ store[s].rob_tag = tag_of(1)
        BY <1>1, <2>1 DEF OwnerInv
    <2> QED
        BY <1>1, <2>1, <2>2, WindowFacts
<1>6. OwnerInv'
    <2> SUFFICES ASSUME NEW j \in Owners'
                 PROVE  LET o == window'[j].lsq_idx
                        IN  /\ o \in Valid' /\ store'[o].rob_tag = tag_of(j)' /\ store'[o].instr = window'[j].instr
                            /\ store'[o].state \in {"Pending", "Issued", "Writeback"}
                            /\ window'[j].waiting => store'[o].state = "Pending" /\ ~store'[o].addr_valid
                                                     /\ ~window'[j].ready
                            /\ window'[j].ready => store'[o].state = "Writeback"
        BY DEF OwnerInv
    <2>1. PICK k \in Owners : /\ window'[j] = window[k] /\ tag_of(j)' = tag_of(k)
                              /\ window[k].lsq_idx \in Valid \ {s}
        BY <1>3, <1>4, <1>5
    <2>2. store'[window[k].lsq_idx] = store[window[k].lsq_idx] /\ window[k].lsq_idx \in Valid'
        BY <2>1
    <2> DEFINE p == window[k].lsq_idx
    <2>3. /\ store[p].rob_tag = tag_of(k) /\ store[p].instr = window[k].instr
          /\ store[p].state \in {"Pending", "Issued", "Writeback"}
          /\ window[k].waiting => store[p].state = "Pending" /\ ~store[p].addr_valid /\ ~window[k].ready
          /\ window[k].ready => store[p].state = "Writeback"
        BY <1>1 DEF OwnerInv
    <2>4. window'[j] = window[k] /\ window'[j].lsq_idx = p /\ store'[p] = store[p] /\ p \in Valid'
          /\ tag_of(j)' = tag_of(k)
        BY <2>1, <2>2
    <2> HIDE DEF p
    <2> QED
        BY <2>3, <2>4
<1>7. LeftInv'
    <2>1. ASSUME NEW o \in Valid', store'[o].state \in {"Pending", "Issued", "Writeback"}
          PROVE  \E j \in Owners' : window'[j].lsq_idx = o
        <3>1. o \in Valid \ {s} /\ store'[o] = store[o]
            BY <2>1
        <3>2. PICK j \in Owners : window[j].lsq_idx = o
            BY <1>1, <2>1, <3>1 DEF LeftInv
        <3>3. j # 1
            BY <3>1, <3>2
        <3> QED
            BY <1>4, <3>2, <3>3
    <2> QED
        BY <2>1 DEF LeftInv
<1>8. UnitInv'
    <2>1. \A j \in Owners : ~window[j].ready =>
              /\ \E i \in Owners' : window'[i] = window[j] /\ tag_of(i)' = tag_of(j)
              /\ store'[window[j].lsq_idx] = store[window[j].lsq_idx]
        BY <1>2, <1>4, <1>5, ZenonT(60)
    <2>2. ASSUME input.valid
          PROVE  \E j \in Owners' :
                     LET o == window'[j].lsq_idx
                     IN  /\ input.rob_tag = tag_of(j)' /\ input.instr = window'[j].instr /\ input.lsq_idx = o
                         /\ ~window'[j].waiting /\ ~window'[j].ready
                         /\ store'[o].state = "Pending" /\ ~store'[o].addr_valid
        <3>1. PICK j \in Owners :
                   /\ input.rob_tag = tag_of(j) /\ input.instr = window[j].instr
                   /\ input.lsq_idx = window[j].lsq_idx
                   /\ ~window[j].waiting /\ ~window[j].ready
                   /\ store[window[j].lsq_idx].state = "Pending" /\ ~store[window[j].lsq_idx].addr_valid
            BY <1>1, <2>2 DEF UnitInv
        <3>2. PICK i \in Owners' : window'[i] = window[j] /\ tag_of(i)' = tag_of(j)
            BY <2>1, <3>1
        <3>3. input.rob_tag = tag_of(i)' /\ input.instr = window'[i].instr /\ input.lsq_idx = window'[i].lsq_idx
            BY <3>1, <3>2
        <3>4. /\ ~window'[i].waiting /\ ~window'[i].ready
              /\ store'[window'[i].lsq_idx].state = "Pending" /\ ~store'[window'[i].lsq_idx].addr_valid
            BY <2>1, <3>1, <3>2
        <3> WITNESS i \in Owners'
        <3> QED
            BY <3>3, <3>4
    <2>3. ASSUME output.valid
          PROVE  \E j \in Owners' : /\ output.rob_tag = tag_of(j)'
                                    /\ ~window'[j].waiting /\ ~window'[j].ready
                                    /\ store'[window'[j].lsq_idx].state = "Writeback"
        <3>1. PICK j \in Owners : /\ output.rob_tag = tag_of(j)
                                  /\ ~window[j].waiting /\ ~window[j].ready
                                  /\ store[window[j].lsq_idx].state = "Writeback"
            BY <1>1, <2>3 DEF UnitInv
        <3>2. PICK i \in Owners' : window'[i] = window[j] /\ tag_of(i)' = tag_of(j)
            BY <2>1, <3>1
        <3>3. output.rob_tag = tag_of(i)'
            BY <3>1, <3>2
        <3>4. ~window'[i].waiting /\ ~window'[i].ready /\ store'[window'[i].lsq_idx].state = "Writeback"
            BY <2>1, <3>1, <3>2
        <3> WITNESS i \in Owners'
        <3> QED
            BY <3>3, <3>4
    <2> QED
        BY <2>2, <2>3 DEF UnitInv
<1> QED
    BY <1>2, <1>3, <1>6, <1>7, <1>8, Sizes

LEMMA CommitKeeps ==
    ASSUME IInv, commit, ~commits_another
    PROVE  IInv'
<1>1. /\ TypeInv /\ EntryInv /\ OwnerInv /\ LeftInv /\ UnitInv /\ PacketInv /\ ChannelInv /\ CountIsRight
      /\ UNCHANGED <<input, output, ram, core_req, core_rsp>>
      /\ window # <<>> /\ Head(window).ready /\ window' = Tail(window)
      /\ head_tag' = (head_tag + 1) % (2 * ROB_SIZE)
    BY DEF IInv, commit, unit, dcache
<1>2. 1 \in DOMAIN window /\ Head(window) = window[1] /\ (1 \in Owners <=> is_lsu(Head(window).instr))
    BY <1>1 DEF TypeInv, Owners
<1>3. /\ ReadsAsked' = ReadsAsked /\ \A i \in DOMAIN core_rsp : core_rsp[i].user \in Waits
      /\ \A i \in DOMAIN core_req : ~core_req[i].is_write => core_req[i].user \in Waits
    BY <1>1 DEF ReadsAsked, ChannelInv
<1>4. CASE ~is_lsu(Head(window).instr)
    <2>1. UNCHANGED <<store, tail_index, count>>
        BY <1>4 DEF commit, lsq
    <2>2. Valid' = Valid /\ Waits' = Waits
        BY <2>1 DEF Valid, Waits
    <2>3. PICK s : s \notin Slot
        <3>1. NUM_LSQS \notin Slot
            BY Sizes DEF Slot
        <3> QED
            BY <3>1
    <2>4. s \notin Valid
        BY <1>1, <2>3, EntryFacts
    <2>5. /\ window' \in Seq(InFlight) /\ Len(window') <= WINDOW /\ head_tag' \in Tag
          /\ OwnerInv' /\ LeftInv' /\ UnitInv'
        BY <1>1, <1>2, <1>4, <2>1, <2>2, <2>4, HeadGone
    <2> QED
        BY <1>1, <1>3, <2>1, <2>2, <2>5
        DEF IInv, TypeInv, EntryInv, PacketInv, ChannelInv, CountIsRight
<1>5. CASE is_lsu(Head(window).instr)
    <2> DEFINE s == window[1].lsq_idx
    <2>1. /\ 1 \in Owners /\ s \in Valid /\ store[s].state = "Writeback"
          /\ store[s].instr = Head(window).instr /\ store[s].rob_tag = head_tag
          /\ Min(find_by_rob(head_tag)) = s /\ find_by_rob(head_tag) # {}
        BY <1>1, <1>5, HeadEntry
    <2>2. IF is_store(store[s].instr)
          THEN store' = [store EXCEPT ![s].state = "Committed"] /\ UNCHANGED <<tail_index, count>>
          ELSE release_entry(s)
        BY <1>5, <2>1 DEF commit, LSQ_commit
    <2>3. s \in Slot /\ store[s] \in Entry /\ s \notin Waits
        BY <1>1, <2>1, EntryFacts DEF Waits
    <2>4. s = window[1].lsq_idx
        OBVIOUS
    <2> HIDE DEF s
    <2>5. CASE is_store(store[s].instr)
        <3> DEFINE entry == [store[s] EXCEPT !.state = "Committed"]
        <3>1. store' = [store EXCEPT ![s] = entry] /\ UNCHANGED <<tail_index, count>>
            BY <1>1, <2>2, <2>3, <2>5 DEF TypeInv
        <3>2. /\ entry \in Entry /\ entry.instr = store[s].instr /\ entry.rob_tag = store[s].rob_tag
              /\ entry.state = "Committed" /\ entry.data = store[s].data
            BY <2>3 DEF Entry
        <3> HIDE DEF entry
        <3>3. /\ store' \in [Slot -> {NoEntry} \cup Entry] /\ Valid' = Valid
              /\ store'[s] = entry /\ \A o \in Slot \ {s} : store'[o] = store[o]
            BY <1>1, <2>1, <3>1, <3>2, Replaced
        <3>4. /\ \A o \in Valid \ {s} : store'[o] = store[o]
              /\ \A o \in Valid : store'[o].instr = store[o].instr
            BY <1>1, <3>2, <3>3, EntryFacts
        <3>5. Waits' = Waits
            BY <2>3, <3>2, <3>3, <3>4 DEF Waits
        <3>6. /\ window' \in Seq(InFlight) /\ Len(window') <= WINDOW /\ head_tag' \in Tag
              /\ OwnerInv' /\ LeftInv' /\ UnitInv'
            <4>1. s \in Valid' => store'[s].state = "Committed" /\ store'[s].rob_tag = head_tag
                BY <2>1, <3>2, <3>3
            <4> QED
                BY <1>1, <2>1, <2>4, <3>3, <3>4, <4>1, HeadGone
        <3>7. EntryInv'
            <4>1. /\ store'[s].state = "Committed" /\ store'[s].instr = store[s].instr
                  /\ store'[s].data = store[s].data
                BY <3>2, <3>3
            <4> QED
                BY <1>1, <2>1, <2>5, <3>3, <3>4, <4>1 DEF EntryInv
        <3>8. PacketInv' /\ ChannelInv'
            <4>1. Waits \subseteq Valid
                BY DEF Waits
            <4> QED
                BY <1>1, <1>3, <3>4, <3>5, <4>1 DEF PacketInv, ChannelInv
        <3>9. CountIsRight'
            BY <1>1, <3>1, <3>3 DEF CountIsRight
        <3> QED
            BY <1>1, <3>1, <3>3, <3>6, <3>7, <3>8, <3>9 DEF IInv, TypeInv
    <2>6. CASE ~is_store(store[s].instr)
        <3>1. /\ store' \in [Slot -> {NoEntry} \cup Entry] /\ Valid' = Valid \ {s}
              /\ \A o \in Slot \ {s} : store'[o] = store[o]
              /\ tail_index' = tail_index /\ CountIsRight'
            BY <1>1, <2>1, <2>2, <2>6, Released
        <3>2. \A o \in Valid \ {s} : store'[o] = store[o]
            BY <1>1, <3>1, EntryFacts
        <3>3. Waits' = Waits /\ Waits \subseteq Valid \ {s}
            BY <2>3, <3>1, <3>2 DEF Waits
        <3>4. /\ window' \in Seq(InFlight) /\ Len(window') <= WINDOW /\ head_tag' \in Tag
              /\ OwnerInv' /\ LeftInv' /\ UnitInv'
            BY <1>1, <2>1, <2>4, <3>1, <3>2, HeadGone
        <3>5. EntryInv'
            BY <1>1, <3>1, <3>2 DEF EntryInv
        <3>6. PacketInv' /\ ChannelInv'
            BY <1>1, <1>3, <3>2, <3>3 DEF PacketInv, ChannelInv
        <3> QED
            BY <1>1, <3>1, <3>4, <3>5, <3>6 DEF IInv, TypeInv
    <2> QED
        BY <2>5, <2>6
<1> QED
    BY <1>4, <1>5

------------------------------------------------------------------------------
(* A flush: what goes is what the branch's younger instructions had. *)
LEMMA FlushKeeps ==
    ASSUME IInv, NEW k \in DOMAIN window, mispredicted(k), ~frees_voided(k)
    PROVE  IInv'
<1> DEFINE n == Len(window)
           tag == tag_of(k)
           Flushed == {s \in Valid : is_rob_younger(store[s].rob_tag, tag)}
<1>1. /\ TypeInv /\ EntryInv /\ OwnerInv /\ LeftInv /\ UnitInv /\ PacketInv /\ ChannelInv /\ CountIsRight
      /\ UNCHANGED <<head_tag, tail_index, ram, core_req, core_rsp>>
    BY DEF IInv, mispredicted, LSQ_invalidate, dcache
<1>2. /\ n \in Nat /\ k \in 1 .. n /\ n <= WINDOW /\ n <= ROB_SIZE /\ DOMAIN window = 1 .. n /\ head_tag \in Tag
      /\ window \in Seq(InFlight) /\ k \notin Owners /\ window[k] \in InFlight
    BY <1>1, Sizes, WindowFacts DEF TypeInv, mispredicted, unresolved, Owners, is_lsu, is_load, is_store
<1>3. /\ window' \in Seq(InFlight) /\ Len(window') = k /\ DOMAIN window' = 1 .. k
      /\ \A j \in 1 .. k : j # k => window'[j] = window[j]
      /\ window'[k].instr = window[k].instr
    <2> DEFINE item == [window[k] EXCEPT !.ready = TRUE]
               marked == [window EXCEPT ![k] = item]
    <2>1. window' = SubSeq(marked, 1, k)
        BY DEF mispredicted, resolved
    <2>2. item \in InFlight /\ item.instr = window[k].instr
        BY <1>2 DEF InFlight
    <2> HIDE DEF item
    <2>3. marked \in Seq(InFlight) /\ Len(marked) = n
          /\ \A j \in 1 .. n : marked[j] = IF j = k THEN item ELSE window[j]
        BY <1>2, <2>2
    <2> HIDE DEF marked, n
    <2>4. /\ window' \in Seq(InFlight) /\ Len(window') = k /\ DOMAIN window' = 1 .. k
          /\ \A j \in 1 .. k : window'[j] = marked[j]
        BY <1>2, <2>1, <2>3
    <2> QED
        BY <1>2, <2>2, <2>3, <2>4
<1>4. Owners \subseteq 1 .. n /\ Owners' = {j \in Owners : j < k} /\ \A j \in Owners' : window'[j] = window[j]
    BY <1>2, <1>3 DEF Owners
<1>5. \A j : tag_of(j)' = tag_of(j)
    BY <1>1 DEF tag_of
<1>6. \A j \in DOMAIN window : is_rob_younger(tag_of(j), tag) <=> j > k
    BY <1>1, WindowFacts
<1>7. tag \in Tag /\ tag = tag_of(k)
    BY <1>1, WindowFacts
<1> HIDE DEF tag, Flushed, n, tag_of, is_rob_younger
<1>8. /\ \A s \in Slot : store'[s] = IF s \in Flushed THEN after_flush(store[s]) ELSE store[s]
      /\ store' = [s \in Slot |-> IF s \in Flushed THEN after_flush(store[s]) ELSE store[s]]
      /\ count' = Cardinality({s \in Slot : store'[s].valid})
    BY <1>7 DEF mispredicted, LSQ_invalidate, recount, Flushed
<1>9. /\ Flushed \subseteq Valid /\ Valid \subseteq Slot
      /\ \A s \in Valid : store[s] \in Entry
      /\ \A s \in Flushed : is_rob_younger(store[s].rob_tag, tag)
      /\ \A s \in Valid \ Flushed : ~is_rob_younger(store[s].rob_tag, tag)
    BY <1>1, EntryFacts DEF Flushed
<1>10. \A s \in Flushed : store[s].state # "Voided"
    BY <1>7, <1>9 DEF frees_voided, Voided
<1>11. \A j \in Owners : window[j].lsq_idx \in Flushed <=> j > k
    <2>1. \A j \in Owners : window[j].lsq_idx \in Valid /\ store[window[j].lsq_idx].rob_tag = tag_of(j)
        BY <1>1 DEF OwnerInv
    <2> QED
        BY <1>2, <1>4, <1>6, <1>9, <2>1, ZenonT(60)
<1>13. /\ \A s \in Flushed : /\ store[s].state = "Issued" =>
                                    /\ store'[s] \in Entry /\ store'[s].state = "Voided"
                                    /\ store'[s].instr = store[s].instr /\ store'[s].rob_tag = store[s].rob_tag
                                    /\ store'[s].data = store[s].data
                             /\ store[s].state # "Issued" => store'[s] = NoEntry
       /\ \A s \in Slot \ Flushed : store'[s] = store[s]
       /\ store' \in [Slot -> {NoEntry} \cup Entry]
    <2>1. ASSUME NEW s \in Flushed, store[s].state = "Issued"
          PROVE  /\ store'[s] \in Entry /\ store'[s].state = "Voided"
                 /\ store'[s].instr = store[s].instr /\ store'[s].rob_tag = store[s].rob_tag
                 /\ store'[s].data = store[s].data
        <3>1. store'[s] = [store[s] EXCEPT !.state = "Voided"] /\ store[s] \in Entry
            BY <1>8, <1>9, <2>1 DEF after_flush
        <3> QED
            BY <3>1 DEF Entry
    <2>2. ASSUME NEW s \in Flushed, store[s].state # "Issued"
          PROVE  store'[s] = NoEntry
        BY <1>8, <1>9, <2>2 DEF after_flush
    <2>3. \A s \in Slot \ Flushed : store'[s] = store[s]
        BY <1>8
    <2>4. \A s \in Slot : store'[s] \in {NoEntry} \cup Entry
        BY <1>1, <2>1, <2>2, <2>3 DEF TypeInv
    <2>5. store' \in [Slot -> {NoEntry} \cup Entry]
        BY <1>8, <2>4
    <2> QED
        BY <2>1, <2>2, <2>3, <2>5
<1>14. Valid' = {s \in Valid : s \in Flushed => store[s].state = "Issued"}
    <2>1. (\A entry \in Entry : entry.valid) /\ ~NoEntry.valid
        BY DEF Entry, NoEntry
    <2> QED
        BY <1>9, <1>13, <2>1 DEF Valid
<1>15. Waits' = Waits /\ Waits \subseteq Valid /\ \A s \in Waits : store'[s].instr = store[s].instr
    BY <1>9, <1>10, <1>13, <1>14 DEF Waits
<1>16. EntryInv'
    <2> SUFFICES ASSUME NEW s \in Valid'
                 PROVE  /\ store'[s].state \in {"Issued", "Voided"} => is_load(store'[s].instr)
                        /\ store'[s].state = "Committed" => is_store(store'[s].instr)
                        /\ is_store(store'[s].instr) /\ store'[s].state \in {"Writeback", "Committed"}
                               => store'[s].data = store'[s].instr.data
                        /\ store'[s].data # NULL => store'[s].data \in Bytes(store'[s].instr)
                        /\ is_load(store'[s].instr) /\ store'[s].state \in {"Pending", "Issued", "Voided"}
                               => store'[s].data = NULL
        BY DEF EntryInv
    <2>1. CASE s \in Flushed
        BY <1>1, <1>9, <1>13, <1>14, <2>1 DEF EntryInv
    <2>2. CASE s \notin Flushed
        BY <1>1, <1>9, <1>13, <1>14, <2>2 DEF EntryInv
    <2> QED
        BY <2>1, <2>2
<1>17. \A j \in Owners' : /\ j \in Owners /\ window[j].lsq_idx \in Valid' /\ window'[j] = window[j]
                          /\ store'[window[j].lsq_idx] = store[window[j].lsq_idx]
    <2>1. \A j \in Owners' : j \in Owners /\ window[j].lsq_idx \notin Flushed /\ window'[j] = window[j]
        <3>1. \A j \in Owners' : j \in Owners /\ j < k /\ window'[j] = window[j]
            BY <1>4
        <3>2. \A j \in Owners : j < k => ~ (j > k)
            BY <1>2, <1>4
        <3> QED
            BY <1>11, <3>1, <3>2
    <2>2. \A j \in Owners : window[j].lsq_idx \in Valid
        BY <1>1 DEF OwnerInv
    <2> QED
        BY <1>9, <1>13, <1>14, <2>1, <2>2
<1>18. OwnerInv'
    <2> SUFFICES ASSUME NEW j \in Owners'
                 PROVE  LET o == window'[j].lsq_idx
                        IN  /\ o \in Valid' /\ store'[o].rob_tag = tag_of(j)' /\ store'[o].instr = window'[j].instr
                            /\ store'[o].state \in {"Pending", "Issued", "Writeback"}
                            /\ window'[j].waiting => store'[o].state = "Pending" /\ ~store'[o].addr_valid
                                                     /\ ~window'[j].ready
                            /\ window'[j].ready => store'[o].state = "Writeback"
        BY DEF OwnerInv
    <2> QED
        BY <1>1, <1>5, <1>17 DEF OwnerInv
<1>19. LeftInv'
    <2>1. ASSUME NEW s \in Valid', store'[s].state \in {"Pending", "Issued", "Writeback"}
          PROVE  \E j \in Owners' : window'[j].lsq_idx = s
        <3>1. s \in Valid \ Flushed /\ store'[s] = store[s]
            BY <1>9, <1>13, <1>14, <2>1
        <3>2. PICK j \in Owners : window[j].lsq_idx = s
            BY <1>1, <2>1, <3>1 DEF LeftInv
        <3>3. j < k
            BY <1>2, <1>4, <1>11, <3>1, <3>2
        <3> QED
            BY <1>4, <3>2, <3>3
    <2> QED
        BY <2>1 DEF LeftInv
<1>20. /\ input' = (IF input.valid /\ is_rob_younger(input.rob_tag, tag) THEN NoInput ELSE input)
       /\ output' = (IF output.valid /\ is_rob_younger(output.rob_tag, tag) THEN NoOutput ELSE output)
       /\ ~NoInput.valid /\ ~NoOutput.valid
    BY DEF mispredicted, LSU_invalidate, tag, NoInput, NoOutput
<1>21. UnitInv'
    <2>1. \A j \in Owners : ~is_rob_younger(tag_of(j), tag) => j \in Owners'
        BY <1>2, <1>4, <1>6
    <2>2. ASSUME input'.valid
          PROVE  \E j \in Owners' :
                     LET o == window'[j].lsq_idx
                     IN  /\ input'.rob_tag = tag_of(j)' /\ input'.instr = window'[j].instr /\ input'.lsq_idx = o
                         /\ ~window'[j].waiting /\ ~window'[j].ready
                         /\ store'[o].state = "Pending" /\ ~store'[o].addr_valid
        <3>1. input' = input /\ input.valid /\ ~is_rob_younger(input.rob_tag, tag)
            BY <1>20, <2>2
        <3>2. PICK j \in Owners :
                   /\ input.rob_tag = tag_of(j) /\ input.instr = window[j].instr
                   /\ input.lsq_idx = window[j].lsq_idx
                   /\ ~window[j].waiting /\ ~window[j].ready
                   /\ store[window[j].lsq_idx].state = "Pending" /\ ~store[window[j].lsq_idx].addr_valid
            BY <1>1, <3>1 DEF UnitInv
        <3>3. j \in Owners'
            BY <2>1, <3>1, <3>2
        <3>4. tag_of(j)' = tag_of(j)
            BY <1>5
        <3> WITNESS j \in Owners'
        <3> QED
            BY <1>17, <3>1, <3>2, <3>3, <3>4
    <2>3. ASSUME output'.valid
          PROVE  \E j \in Owners' : /\ output'.rob_tag = tag_of(j)'
                                    /\ ~window'[j].waiting /\ ~window'[j].ready
                                    /\ store'[window'[j].lsq_idx].state = "Writeback"
        <3>1. output' = output /\ output.valid /\ ~is_rob_younger(output.rob_tag, tag)
            BY <1>20, <2>3
        <3>2. PICK j \in Owners : /\ output.rob_tag = tag_of(j)
                                  /\ ~window[j].waiting /\ ~window[j].ready
                                  /\ store[window[j].lsq_idx].state = "Writeback"
            BY <1>1, <3>1 DEF UnitInv
        <3>3. j \in Owners'
            BY <2>1, <3>1, <3>2
        <3>4. tag_of(j)' = tag_of(j)
            BY <1>5
        <3> WITNESS j \in Owners'
        <3> QED
            BY <1>17, <3>1, <3>2, <3>3, <3>4
    <2> QED
        BY <2>2, <2>3 DEF UnitInv
<1>22. PacketInv' /\ ChannelInv'
    <2>1. /\ ReadsAsked' = ReadsAsked /\ \A i \in DOMAIN core_rsp : core_rsp[i].user \in Waits
          /\ \A i \in DOMAIN core_req : ~core_req[i].is_write => core_req[i].user \in Waits
        BY <1>1 DEF ReadsAsked, ChannelInv
    <2> QED
        BY <1>1, <1>15, <2>1 DEF PacketInv, ChannelInv
<1>23. CountIsRight'
    BY <1>8 DEF CountIsRight, Valid
<1>24. TypeInv'
    <2>1. Len(window') <= WINDOW
        BY <1>2, <1>3, Sizes
    <2>2. input' \in {NoInput} \cup Input /\ output' \in {NoOutput} \cup Output
        BY <1>1, <1>20 DEF TypeInv
    <2> QED
        BY <1>1, <1>3, <1>13, <2>1, <2>2 DEF TypeInv
<1> QED
    BY <1>16, <1>18, <1>19, <1>21, <1>22, <1>23, <1>24 DEF IInv

------------------------------------------------------------------------------
LEMMA InitInv == Init => IInv
<1> SUFFICES ASSUME Init PROVE IInv
    OBVIOUS
<1>1. /\ window = <<>> /\ head_tag \in Tag /\ store = [s \in Slot |-> NoEntry]
      /\ tail_index = 0 /\ count = 0 /\ input = NoInput /\ output = NoOutput
      /\ ram = [a \in Address |-> 0] /\ core_req = <<>> /\ core_rsp = <<>>
    BY DEF Init
<1>2. ~NoEntry.valid /\ ~NoInput.valid /\ ~NoOutput.valid
    BY DEF NoEntry, NoInput, NoOutput
<1>3. Valid = {} /\ Committed = {} /\ Voided = {} /\ Waits = {} /\ Owners = {} /\ ReadsAsked = {}
    BY <1>1, <1>2 DEF Valid, Committed, Voided, Waits, Owners, ReadsAsked
<1>4. TypeInv
    BY <1>1, Sizes, MemoryAssumption DEF TypeInv, Slot
<1>5. CountIsRight
    BY <1>1, <1>3, FS_EmptySet DEF CountIsRight
<1>6. EntryInv /\ OwnerInv /\ LeftInv /\ UnitInv
    BY <1>1, <1>2, <1>3 DEF EntryInv, OwnerInv, LeftInv, UnitInv
<1>7. PacketInv /\ ChannelInv
    BY <1>1, <1>3 DEF PacketInv, ChannelInv
<1> QED
    BY <1>4, <1>5, <1>6, <1>7 DEF IInv

LEMMA NextInv ==
    ASSUME IInv, [Next]_vars, [~TagMisread]_vars
    PROVE  IInv'
<1>1. ASSUME NEW instr \in Instr, issue(instr) PROVE IInv'
    BY <1>1, IssueKeeps
<1>2. ASSUME NEW k \in DOMAIN window, mispredicted(k), ~TagMisread PROVE IInv'
    BY <1>2, FlushKeeps DEF TagMisread
<1>3. ASSUME NEW k \in DOMAIN window, dispatch(k) PROVE IInv'
    BY <1>3, DispatchKeeps
<1>4. ASSUME NEW k \in DOMAIN window, predicted(k) PROVE IInv'
    BY <1>4, PredictedKeeps
<1>5. CASE take_answer
    BY <1>5, TakeKeeps
<1>6. CASE compute_address
    BY <1>6, ComputeKeeps
<1>7. CASE LSQ_tick
    <2>1. /\ select_oldest_actionable \in Actionable /\ UNCHANGED <<rob, input>>
          /\ \/ /\ is_store(store[select_oldest_actionable].instr)
                /\ issue_store(select_oldest_actionable)
             \/ /\ is_load(store[select_oldest_actionable].instr)
                /\ issue_load(select_oldest_actionable)
        BY <1>7, Selected DEF LSQ_tick, IInv
    <2> QED
        BY <2>1, StoreKeeps, LoadKeeps
<1>8. CASE broadcast
    BY <1>8, BroadcastKeeps
<1>9. CASE commit /\ ~TagMisread
    BY <1>9, CommitKeeps DEF TagMisread
<1>10. CASE dcache_tick
    BY <1>10, WriteKeeps, ReadKeeps DEF dcache_tick
<1>11. CASE UNCHANGED vars
    BY <1>11
    DEF vars, rob, lsq, unit, dcache, IInv, TypeInv, EntryInv, OwnerInv, LeftInv, UnitInv, PacketInv,
        ChannelInv, CountIsRight, Owners, Valid, Committed, Voided, Waits, ReadsAsked, tag_of
<1> QED
    BY <1>1, <1>2, <1>3, <1>4, <1>5, <1>6, <1>7, <1>8, <1>9, <1>10, <1>11 DEF Next, Proceed

(* The inductive invariant holds until a tag is misread (Next). *)
THEOREM Invariant == Spec /\ TagsReadRight => []IInv
<1>1. IInv /\ [Next]_vars /\ [~TagMisread]_vars => IInv'
    BY NextInv
<1> QED
    BY <1>1, InitInv, PTL DEF Spec, TagsReadRight

(* Every instruction in flight has a slot of its own under its own tag, and
   every other slot in use is a committed store's or a voided load's. *)
LEMMA OwnedAll == IInv => EntriesAreOwned
<1> SUFFICES ASSUME IInv PROVE EntriesAreOwned
    OBVIOUS
<1> DEFINE Owned == {window[k].lsq_idx : k \in Owners}
<1>1. TypeInv /\ OwnerInv /\ LeftInv
    BY DEF IInv
<1>2. /\ \A k \in Owners :
            LET s == window[k].lsq_idx
            IN  s \in Valid /\ store[s].rob_tag = tag_of(k) /\ store[s].instr = window[k].instr
      /\ Owners \subseteq 1 .. Len(window) /\ Len(window) \in Nat
    BY <1>1, WindowFacts DEF OwnerInv
<1>3. Cardinality(Owned) = Cardinality(Owners)
    <2> DEFINE slot == [k \in Owners |-> window[k].lsq_idx]
    <2>1. \A j, k \in Owners : window[j].lsq_idx = window[k].lsq_idx => j = k
        BY <1>1, <1>2, WindowFacts
    <2>2. slot \in Bijection(Owners, Owned)
        BY <2>1 DEF Bijection, Injection, Surjection, IsInjective
    <2>3. IsFiniteSet(Owners)
        <3>1. IsFiniteSet(1 .. Len(window))
            BY <1>2, FS_Interval
        <3> QED
            BY <1>2, <3>1, FS_Subset
    <2> QED
        BY <2>2, <2>3, FS_Bijection DEF ExistsBijection
<1>4. Valid \ Owned = Committed \cup Voided
    <2>1. \A s \in Owned : s \in Valid /\ store[s].state \in {"Pending", "Issued", "Writeback"}
        BY <1>1 DEF OwnerInv
    <2>2. \A s \in Valid : store[s].state \in {"Pending", "Issued", "Writeback"} => s \in Owned
        BY <1>1 DEF LeftInv
    <2>3. \A s \in Valid : store[s].state \in {"Pending", "Issued", "Writeback", "Committed", "Voided"}
        BY <1>1, EntryFacts DEF Entry
    <2> QED
        BY <2>1, <2>2, <2>3 DEF Committed, Voided
<1> QED
    BY <1>2, <1>3, <1>4 DEF EntriesAreOwned, Owners

(* Every read on its way has a slot of its own that waits for it, and no slot
   waits for what was not asked. *)
LEMMA SlotsWait == IInv => AnswersHaveTheirSlot
<1> SUFFICES ASSUME IInv PROVE AnswersHaveTheirSlot
    OBVIOUS
<1> DEFINE n == Len(core_rsp)
           packets == core_rsp \o core_req
           reads == {i \in DOMAIN packets : i <= n \/ ~packets[i].is_write}
<1>1. TypeInv /\ ChannelInv
    BY DEF IInv
<1>2. /\ n \in Nat /\ DOMAIN core_rsp = 1 .. n /\ Len(core_req) \in Nat /\ DOMAIN core_req = 1 .. Len(core_req)
      /\ DOMAIN packets = 1 .. n + Len(core_req)
      /\ \A i \in 1 .. n : packets[i] = core_rsp[i]
      /\ \A i \in n + 1 .. n + Len(core_req) : packets[i] = core_req[i - n]
    BY <1>1 DEF TypeInv
<1> HIDE DEF n, packets
<1>3. /\ \A i \in reads : \/ i \in DOMAIN core_rsp /\ packets[i].user = core_rsp[i].user
                          \/ /\ i \in Nat /\ i > n /\ i - n \in ReadsAsked
                             /\ packets[i].user = core_req[i - n].user
      /\ \A i \in DOMAIN core_rsp : i \in reads /\ packets[i].user = core_rsp[i].user
      /\ \A j \in ReadsAsked : j + n \in reads /\ packets[j + n].user = core_req[j].user
    <2>1. \A i \in n + 1 .. n + Len(core_req) : i - n \in 1 .. Len(core_req) /\ i > n /\ i \in Nat
        BY <1>2
    <2>2. \A j \in 1 .. Len(core_req) : /\ j + n \in n + 1 .. n + Len(core_req) /\ (j + n) - n = j
                                        /\ j + n \in 1 .. n + Len(core_req)
        BY <1>2
    <2>3. \A i \in 1 .. n + Len(core_req) : i \in 1 .. n \/ i \in n + 1 .. n + Len(core_req)
        BY <1>2
    <2>4. \A i \in 1 .. n : i \in 1 .. n + Len(core_req) /\ i <= n
        BY <1>2
    <2>5. \A i \in reads : \/ i \in DOMAIN core_rsp /\ packets[i].user = core_rsp[i].user
                           \/ /\ i \in Nat /\ i > n /\ i - n \in ReadsAsked
                              /\ packets[i].user = core_req[i - n].user
        <3> SUFFICES ASSUME NEW i \in reads
                     PROVE  \/ i \in DOMAIN core_rsp /\ packets[i].user = core_rsp[i].user
                            \/ /\ i \in Nat /\ i > n /\ i - n \in ReadsAsked
                               /\ packets[i].user = core_req[i - n].user
            OBVIOUS
        <3>1. CASE i \in 1 .. n
            BY <1>2, <3>1
        <3>2. CASE i \in n + 1 .. n + Len(core_req)
            BY <1>2, <2>1, <3>2 DEF ReadsAsked
        <3> QED
            BY <1>2, <2>3, <3>1, <3>2
    <2>6. \A j \in ReadsAsked : j + n \in reads /\ packets[j + n].user = core_req[j].user
        BY <1>2, <2>2 DEF ReadsAsked
    <2> QED
        BY <1>2, <2>4, <2>5, <2>6
<1> HIDE DEF reads
<1>4. \A i, j \in reads : packets[i].user = packets[j].user => i = j
    <2> SUFFICES ASSUME NEW i \in reads, NEW j \in reads, packets[i].user = packets[j].user
                 PROVE  i = j
        OBVIOUS
    <2>1. CASE i \in DOMAIN core_rsp /\ j \in DOMAIN core_rsp
        BY <1>1, <1>3, <2>1 DEF ChannelInv
    <2>2. CASE i \notin DOMAIN core_rsp /\ j \notin DOMAIN core_rsp
        <3>1. i \in Nat /\ j \in Nat /\ i - n = j - n
            BY <1>1, <1>3, <2>2 DEF ChannelInv
        <3> QED
            BY <1>2, <3>1
    <2>3. CASE (i \in DOMAIN core_rsp) # (j \in DOMAIN core_rsp)
        BY <1>1, <1>3, <2>3 DEF ChannelInv
    <2> QED
        BY <2>1, <2>2, <2>3
<1>5. {packets[i].user : i \in reads} = Waits
    <2>1. \A i \in reads : packets[i].user \in Waits
        BY <1>1, <1>3 DEF ChannelInv
    <2>2. \A s \in Waits : \E i \in reads : packets[i].user = s
        BY <1>1, <1>3 DEF ChannelInv
    <2> QED
        BY <2>1, <2>2
<1> QED
    BY <1>4, <1>5, Zenon DEF AnswersHaveTheirSlot, Waits, reads, packets, n

------------------------------------------------------------------------------
(***************************************************************************)
(* The counter needs none of this.  Of an entry it is enough to know its   *)
(* valid bit, and of a request and an answer that they name a slot; so it  *)
(* is right whatever tags say, also after a slot was freed too early, when *)
(* an answer comes to another entry than the one that asked.               *)
(***************************************************************************)
HasValid(entry) ==
    entry = [f \in DOMAIN entry |-> entry[f]] /\ "valid" \in DOMAIN entry /\ entry.valid \in BOOLEAN

NamesSlot(packet) == packet.user \in Slot

SlotsRight ==
    /\ store = [s \in Slot |-> store[s]] /\ \A s \in Slot : HasValid(store[s])
    /\ tail_index \in Slot /\ CountIsRight

ReadsNamed   == \E P : core_req \in Seq(P) /\ \A req \in P : req.is_write \/ NamesSlot(req)
AnswersNamed == \E P : core_rsp \in Seq(P) /\ \A rsp \in P : NamesSlot(rsp)

CounterInv == SlotsRight /\ ReadsNamed /\ AnswersNamed

LEMMA ValidStays ==
    ASSUME NEW entry, HasValid(entry), NEW v, NEW w, NEW x
    PROVE  /\ HasValid([entry EXCEPT !.state = v])
           /\ [entry EXCEPT !.state = v].valid = entry.valid
           /\ HasValid([entry EXCEPT !.addr_valid = v])
           /\ [entry EXCEPT !.addr_valid = v].valid = entry.valid
           /\ HasValid([entry EXCEPT !.data = v, !.state = w])
           /\ [entry EXCEPT !.data = v, !.state = w].valid = entry.valid
           /\ HasValid([entry EXCEPT !.addr_valid = v, !.data = w, !.state = x])
           /\ [entry EXCEPT !.addr_valid = v, !.data = w, !.state = x].valid = entry.valid
BY DEF HasValid

(* A step that gives entries other fields. *)
KeepsValid ==
    /\ store' = [s \in Slot |-> store'[s]]
    /\ \A s \in Slot : HasValid(store'[s]) /\ store'[s].valid = store[s].valid
    /\ UNCHANGED <<tail_index, count>>

LEMMA CountKept ==
    ASSUME CounterInv, KeepsValid
    PROVE  SlotsRight'
<1>1. Valid' = Valid
    BY DEF KeepsValid, Valid
<1> QED
    BY <1>1 DEF CounterInv, KeepsValid, SlotsRight, CountIsRight

(* One entry with other fields. *)
LEMMA OneEntryKept ==
    ASSUME CounterInv, NEW s, NEW entry, store' = [store EXCEPT ![s] = entry],
           s \in Slot => HasValid(entry) /\ entry.valid = store[s].valid, UNCHANGED <<tail_index, count>>
    PROVE  KeepsValid
<1>1. store = [o \in Slot |-> store[o]] /\ \A o \in Slot : HasValid(store[o])
    BY DEF CounterInv, SlotsRight, ReadsNamed, AnswersNamed
<1>2. store' = [o \in Slot |-> store'[o]] /\ \A o \in Slot : store'[o] = IF o = s THEN entry ELSE store[o]
    BY <1>1
<1> HIDE DEF HasValid
<1> QED
    BY <1>1, <1>2 DEF KeepsValid

LEMMA SlotFreed ==
    ASSUME CounterInv, NEW s \in Valid, release_entry(s)
    PROVE  SlotsRight'
<1>1. /\ store = [o \in Slot |-> store[o]] /\ \A o \in Slot : HasValid(store[o])
      /\ tail_index \in Slot /\ count = Cardinality(Valid)
      /\ s \in Slot /\ Valid \subseteq Slot /\ HasValid(NoEntry) /\ ~NoEntry.valid
    BY DEF CounterInv, SlotsRight, ReadsNamed, AnswersNamed, CountIsRight, Valid, NoEntry, HasValid
<1>2. /\ store' = [o \in Slot |-> store'[o]] /\ \A o \in Slot : store'[o] = IF o = s THEN NoEntry ELSE store[o]
      /\ count' = count - 1 /\ tail_index' = tail_index
    BY <1>1 DEF release_entry
<1> HIDE DEF HasValid
<1>3. \A o \in Slot : HasValid(store'[o])
    BY <1>1, <1>2
<1>4. Valid' = Valid \ {s}
    BY <1>1, <1>2 DEF Valid
<1>5. IsFiniteSet(Valid)
    <2>1. IsFiniteSet(Slot)
        BY FS_Interval, Sizes DEF Slot
    <2> QED
        BY <1>1, <2>1, FS_Subset
<1>6. Cardinality(Valid \ {s}) = Cardinality(Valid) - 1
    BY <1>5, FS_RemoveElement
<1> QED
    BY <1>1, <1>2, <1>3, <1>4, <1>6 DEF SlotsRight, CountIsRight

LEMMA SlotTaken ==
    ASSUME CounterInv, count # NUM_LSQS, NEW tag, NEW instr, allocate(tag, instr)
    PROVE  SlotsRight'
<1> DEFINE s == slot_at(first_free)
           entry == [valid |-> TRUE, state |-> "Pending", addr_valid |-> FALSE, data |-> NULL,
                     rob_tag |-> tag, instr |-> instr]
<1>1. /\ store = [o \in Slot |-> store[o]] /\ \A o \in Slot : HasValid(store[o])
      /\ tail_index \in Slot /\ CountIsRight /\ Valid \subseteq Slot
    BY DEF CounterInv, SlotsRight, ReadsNamed, AnswersNamed, Valid
<1>2. s \in Slot \ Valid /\ slot_at(first_free + 1) \in Slot
    BY <1>1, FirstFree
<1>3. HasValid(entry) /\ entry.valid
    BY DEF HasValid
<1>4. /\ store' = [store EXCEPT ![s] = entry]
      /\ tail_index' = slot_at(first_free + 1) /\ count' = count + 1
    BY DEF allocate
<1> HIDE DEF s, entry, HasValid
<1>5. store' = [o \in Slot |-> store'[o]] /\ \A o \in Slot : store'[o] = IF o = s THEN entry ELSE store[o]
    BY <1>1, <1>4
<1>6. Valid' = Valid \cup {s}
    BY <1>1, <1>2, <1>3, <1>5 DEF Valid
<1>7. IsFiniteSet(Valid)
    <2>1. IsFiniteSet(Slot)
        BY FS_Interval, Sizes DEF Slot
    <2> QED
        BY <1>1, <2>1, FS_Subset
<1>8. Cardinality(Valid \cup {s}) = Cardinality(Valid) + 1
    BY <1>2, <1>7, FS_AddElement
<1>9. \A o \in Slot : HasValid(store'[o])
    BY <1>1, <1>3, <1>5
<1> QED
    BY <1>1, <1>2, <1>4, <1>5, <1>6, <1>8, <1>9 DEF SlotsRight, CountIsRight

(* Requests and answers that name a slot go on doing so. *)
LEMMA ReadAsked ==
    ASSUME CounterInv, NEW s, Mem!Ask(Read(s)), s \in Slot
    PROVE  ReadsNamed' /\ AnswersNamed'
<1>1. PICK P : core_req \in Seq(P) /\ \A req \in P : req.is_write \/ NamesSlot(req)
    BY DEF CounterInv, SlotsRight, ReadsNamed, AnswersNamed
<1>2. core_req' = Append(core_req, Read(s)) /\ core_rsp' = core_rsp
    BY DEF Mem!Ask
<1>3. NamesSlot(Read(s))
    BY DEF NamesSlot, Read
<1> DEFINE Q == P \cup {Read(s)}
<1>4. core_req' \in Seq(Q) /\ \A req \in Q : req.is_write \/ NamesSlot(req)
    BY <1>1, <1>2, <1>3
<1> QED
    BY <1>2, <1>4 DEF CounterInv, ReadsNamed, AnswersNamed

LEMMA WriteAsked ==
    ASSUME CounterInv, NEW s, Mem!Ask(Write(s))
    PROVE  ReadsNamed' /\ AnswersNamed'
<1>1. PICK P : core_req \in Seq(P) /\ \A req \in P : req.is_write \/ NamesSlot(req)
    BY DEF CounterInv, SlotsRight, ReadsNamed, AnswersNamed
<1>2. core_req' = Append(core_req, Write(s)) /\ core_rsp' = core_rsp
    BY DEF Mem!Ask
<1>3. Write(s).is_write
    BY DEF Write
<1> DEFINE Q == P \cup {Write(s)}
<1>4. core_req' \in Seq(Q) /\ \A req \in Q : req.is_write \/ NamesSlot(req)
    BY <1>1, <1>2, <1>3
<1> QED
    BY <1>2, <1>4 DEF CounterInv, ReadsNamed, AnswersNamed

LEMMA Answered ==
    ASSUME CounterInv, Mem!Write \/ Mem!Read
    PROVE  ReadsNamed' /\ AnswersNamed'
<1>1. PICK P : core_req \in Seq(P) /\ \A req \in P : req.is_write \/ NamesSlot(req)
    BY DEF CounterInv, SlotsRight, ReadsNamed, AnswersNamed
<1>2. PICK A : core_rsp \in Seq(A) /\ \A rsp \in A : NamesSlot(rsp)
    BY DEF CounterInv, SlotsRight, ReadsNamed, AnswersNamed
<1>3. core_req # <<>> /\ core_req' = Tail(core_req)
    BY DEF Mem!Write, Mem!Read
<1>4. Tail(core_req) \in Seq(P) /\ Head(core_req) \in P
    BY <1>1, <1>3
<1>5. CASE core_rsp' = core_rsp
    BY <1>1, <1>2, <1>3, <1>4, <1>5 DEF ReadsNamed, AnswersNamed
<1>6. CASE Mem!Read
    <2> DEFINE rsp == [user |-> Head(core_req).user,
                       data |-> [i \in 0 .. Head(core_req).size - 1 |-> ram[Head(core_req).addr + i]]]
               B == A \cup {rsp}
    <2>1. core_rsp' = Append(core_rsp, rsp) /\ NamesSlot(Head(core_req))
        BY <1>1, <1>4, <1>6 DEF Mem!Read
    <2>2. NamesSlot(rsp)
        BY <2>1 DEF NamesSlot
    <2> HIDE DEF rsp
    <2>3. core_rsp' \in Seq(B) /\ \A r \in B : NamesSlot(r)
        BY <1>2, <2>1, <2>2
    <2> QED
        BY <1>1, <1>3, <1>4, <2>3 DEF ReadsNamed, AnswersNamed
<1> QED
    BY <1>5, <1>6 DEF Mem!Write

LEMMA AnswerNames ==
    ASSUME CounterInv, core_rsp # <<>>
    PROVE  /\ Head(core_rsp).user \in Slot
           /\ \E P : Tail(core_rsp) \in Seq(P) /\ \A rsp \in P : NamesSlot(rsp)
<1>1. PICK P : core_rsp \in Seq(P) /\ \A rsp \in P : NamesSlot(rsp)
    BY DEF CounterInv, SlotsRight, ReadsNamed, AnswersNamed
<1>2. Head(core_rsp) \in P /\ Tail(core_rsp) \in Seq(P)
    BY <1>1
<1> QED
    BY <1>1, <1>2 DEF NamesSlot

LEMMA CounterNext == CounterInv /\ [Next]_vars => CounterInv'
<1> SUFFICES ASSUME CounterInv, [Next]_vars PROVE CounterInv'
    OBVIOUS
<1>1. /\ store = [s \in Slot |-> store[s]] /\ \A s \in Slot : HasValid(store[s])
      /\ tail_index \in Slot /\ CountIsRight /\ Valid \subseteq Slot /\ \A s \in Valid : store[s].valid
    BY DEF CounterInv, SlotsRight, Valid
<1>2. ASSUME UNCHANGED lsq PROVE SlotsRight'
    BY <1>2 DEF CounterInv, SlotsRight, CountIsRight, Valid, lsq
<1>3. ASSUME UNCHANGED core_req PROVE ReadsNamed'
    BY <1>3 DEF CounterInv, ReadsNamed
<1>4. ASSUME UNCHANGED core_rsp PROVE AnswersNamed'
    BY <1>4 DEF CounterInv, AnswersNamed
<1>5. ASSUME NEW s, NEW entry, store' = [store EXCEPT ![s] = entry],
             s \in Slot => HasValid(entry) /\ entry.valid = store[s].valid, UNCHANGED <<tail_index, count>>
      PROVE  SlotsRight'
    BY <1>5, OneEntryKept, CountKept
<1>6. ASSUME NEW s, NEW value, update_data(s, value) PROVE SlotsRight'
    <2> DEFINE entry == [store[s] EXCEPT !.data = value, !.state = "Writeback"]
    <2>1. store' = [store EXCEPT ![s] = entry] /\ UNCHANGED <<tail_index, count>>
        BY <1>1, <1>6 DEF update_data
    <2>2. ASSUME s \in Slot PROVE HasValid(entry) /\ entry.valid = store[s].valid
        <3>1. HasValid(store[s])
            BY <1>1, <2>2
        <3> QED
            BY <3>1 DEF HasValid
    <2> HIDE DEF entry
    <2> QED
        BY <1>5, <2>1, <2>2
<1>7. ASSUME NEW instr \in Instr, issue(instr) PROVE CounterInv'
    <2>1. UNCHANGED <<core_req, core_rsp>>
        BY <1>7 DEF issue, dcache
    <2>2. CASE is_lsu(instr)
        BY <1>3, <1>4, <1>7, <2>1, <2>2, SlotTaken DEF issue, CounterInv
    <2>3. CASE ~is_lsu(instr)
        BY <1>2, <1>3, <1>4, <1>7, <2>1, <2>3 DEF issue, CounterInv
    <2> QED
        BY <2>2, <2>3
<1>8. ASSUME NEW k \in DOMAIN window, dispatch(k) \/ predicted(k) PROVE CounterInv'
    <2>1. UNCHANGED lsq /\ UNCHANGED core_req /\ UNCHANGED core_rsp
        BY <1>8 DEF dispatch, predicted, dcache
    <2> QED
        BY <1>2, <1>3, <1>4, <2>1 DEF CounterInv
<1>9. CASE broadcast
    <2>1. UNCHANGED lsq /\ UNCHANGED core_req /\ UNCHANGED core_rsp
        BY <1>9 DEF broadcast, dcache
    <2> QED
        BY <1>2, <1>3, <1>4, <2>1 DEF CounterInv
<1>10. ASSUME NEW k \in DOMAIN window, mispredicted(k) PROVE CounterInv'
    <2> DEFINE tag == tag_of(k)
               Goes(s) == s \in Valid /\ is_rob_younger(store[s].rob_tag, tag)
    <2>1. /\ store' = [s \in Slot |-> IF Goes(s) THEN after_flush(store[s]) ELSE store[s]]
          /\ count' = Cardinality({s \in Slot : store'[s].valid})
          /\ UNCHANGED tail_index /\ UNCHANGED core_req /\ UNCHANGED core_rsp
        BY <1>10 DEF mispredicted, LSQ_invalidate, recount, dcache
    <2>2. ASSUME NEW s \in Slot PROVE HasValid(store'[s])
        <3>1. HasValid(NoEntry)
            BY DEF HasValid, NoEntry
        <3>2. HasValid(store[s]) /\ HasValid([store[s] EXCEPT !.state = "Voided"])
            BY <1>1, ValidStays
        <3>3. store'[s] \in {NoEntry, store[s], [store[s] EXCEPT !.state = "Voided"]}
            BY <2>1 DEF after_flush
        <3> QED
            BY <3>1, <3>2, <3>3
    <2> HIDE DEF Goes, HasValid
    <2>3. store' = [s \in Slot |-> store'[s]]
        BY <2>1
    <2>4. SlotsRight'
        BY <1>1, <2>1, <2>2, <2>3 DEF SlotsRight, CountIsRight, Valid
    <2> QED
        BY <1>3, <1>4, <2>1, <2>4 DEF CounterInv
<1>11. CASE take_answer
    <2> DEFINE s == Head(core_rsp).user
    <2>1. /\ core_rsp # <<>> /\ store[s].valid
          /\ UNCHANGED core_req /\ core_rsp' = Tail(core_rsp)
          /\ release_entry(s) \/ update_data(s, Head(core_rsp).data)
        BY <1>11 DEF take_answer, answered, Mem!Take
    <2>2. s \in Slot /\ \E P : Tail(core_rsp) \in Seq(P) /\ \A rsp \in P : NamesSlot(rsp)
        BY <2>1, AnswerNames
    <2>3. s \in Valid
        BY <2>1, <2>2 DEF Valid
    <2>4. SlotsRight'
        BY <1>6, <2>1, <2>3, SlotFreed
    <2> QED
        BY <1>3, <2>1, <2>2, <2>4 DEF CounterInv, AnswersNamed
<1>12. CASE compute_address
    <2> DEFINE s == input.lsq_idx
    <2>1. UNCHANGED core_req /\ UNCHANGED core_rsp /\ UNCHANGED <<tail_index, count>>
        BY <1>12 DEF compute_address, dcache
    <2>2. SlotsRight'
        <3> DEFINE filled == [store[s] EXCEPT !.addr_valid = TRUE, !.data = input.instr.data,
                                              !.state = "Writeback"]
                   known  == [store[s] EXCEPT !.addr_valid = TRUE]
        <3>1. store' = [store EXCEPT ![s] = filled] \/ store' = [store EXCEPT ![s] = known]
            BY <1>1, <1>12 DEF compute_address
        <3>2. ASSUME s \in Slot
              PROVE  /\ HasValid(filled) /\ filled.valid = store[s].valid
                     /\ HasValid(known) /\ known.valid = store[s].valid
            <4>1. HasValid(store[s])
                BY <1>1, <3>2
            <4> QED
                BY <4>1 DEF HasValid
        <3> HIDE DEF filled, known, s
        <3> QED
            BY <1>5, <2>1, <3>1, <3>2
    <2> QED
        BY <1>3, <1>4, <2>1, <2>2 DEF CounterInv
<1>13. CASE LSQ_tick
    <2> DEFINE s == select_oldest_actionable
    <2>1. s # NULL /\ (issue_store(s) \/ issue_load(s))
        BY <1>13 DEF LSQ_tick
    <2>2. s \in Valid /\ s \in Slot
        <3>1. Actionable \in SUBSET Slot /\ Actionable \subseteq Valid
            BY <1>1 DEF Actionable
        <3> QED
            BY <1>1, <2>1, <3>1, ScanFinds DEF select_oldest_actionable
    <2> HIDE DEF s
    <2>3. CASE issue_store(s)
        BY <2>2, <2>3, SlotFreed, WriteAsked DEF issue_store, CounterInv
    <2>4. CASE issue_load(s)
        <3>1. CASE Sources(s) # {}
            <4>1. \E value : update_data(s, value)
                BY <2>4, <3>1 DEF issue_load
            <4>2. UNCHANGED core_req /\ UNCHANGED core_rsp
                BY <2>4, <3>1 DEF issue_load, dcache
            <4> QED
                BY <1>3, <1>4, <1>6, <4>1, <4>2 DEF CounterInv
        <3>2. CASE Sources(s) = {}
            <4> DEFINE entry == [store[s] EXCEPT !.state = "Issued"]
            <4>1. /\ Mem!Ask(Read(s)) /\ UNCHANGED <<tail_index, count>>
                  /\ store' = [store EXCEPT ![s] = entry]
                BY <1>1, <2>4, <3>2 DEF issue_load
            <4>2. HasValid(entry) /\ entry.valid = store[s].valid
                BY <1>1, <2>2, ValidStays
            <4> HIDE DEF entry
            <4>3. SlotsRight'
                BY <1>5, <4>1, <4>2
            <4> QED
                BY <2>2, <4>1, <4>3, ReadAsked DEF CounterInv
        <3> QED
            BY <3>1, <3>2
    <2> QED
        BY <2>1, <2>3, <2>4
<1>14. CASE commit
    <2>1. UNCHANGED core_req /\ UNCHANGED core_rsp
        BY <1>14 DEF commit, dcache
    <2>2. SlotsRight'
        <3>1. CASE UNCHANGED lsq
            BY <1>2, <3>1
        <3> DEFINE Found == find_by_rob(head_tag)
                   s == Min(Found)
        <3>2. CASE Found # {} /\ LSQ_commit(head_tag)
            <4>1. Found \subseteq Valid /\ Found \subseteq Slot /\ Found \subseteq Nat
                BY <1>1, Sizes DEF find_by_rob, Slot
            <4> HIDE DEF Found
            <4>2. s \in Found
                <5>1. \E m \in Found : \A n \in Found : m <= n
                    BY <3>2, <4>1, LeastNumber
                <5> QED
                    BY <5>1 DEF Min
            <4> DEFINE entry == [store[s] EXCEPT !.state = "Committed"]
            <4>3. \/ store' = [store EXCEPT ![s] = entry] /\ UNCHANGED <<tail_index, count>>
                  \/ release_entry(s)
                BY <3>2, <1>1 DEF LSQ_commit, Found
            <4>4. s \in Valid /\ s \in Slot /\ HasValid(store[s])
                BY <1>1, <4>1, <4>2
            <4>5. HasValid(entry) /\ entry.valid = store[s].valid
                BY <4>4, ValidStays
            <4> HIDE DEF entry, s
            <4> QED
                BY <1>5, <4>3, <4>4, <4>5, SlotFreed
        <3> QED
            BY <1>14, <3>1, <3>2 DEF commit, LSQ_commit
    <2> QED
        BY <1>3, <1>4, <2>1, <2>2 DEF CounterInv
<1>15. CASE dcache_tick
    <2>1. UNCHANGED lsq /\ (Mem!Write \/ Mem!Read)
        BY <1>15 DEF dcache_tick
    <2> QED
        BY <1>2, <2>1, Answered DEF CounterInv
<1>16. CASE UNCHANGED vars
    <2>1. UNCHANGED lsq /\ UNCHANGED core_req /\ UNCHANGED core_rsp
        BY <1>16 DEF vars, dcache
    <2> QED
        BY <1>2, <1>3, <1>4, <2>1 DEF CounterInv
<1> QED
    BY <1>7, <1>8, <1>9, <1>10, <1>11, <1>12, <1>13, <1>14, <1>15, <1>16 DEF Next, Proceed

(* The counter of full() is the number of slots in use, in every state of the
   queue: after a slot was freed before its answer came, too, where the asserts
   of LSU::tick would stop the program and the specification goes on. *)
THEOREM CounterIsRight == Spec => []CountIsRight
<1>1. Init => CounterInv
    <2> SUFFICES ASSUME Init PROVE CounterInv
        OBVIOUS
    <2>1. HasValid(NoEntry) /\ ~NoEntry.valid
        BY DEF HasValid, NoEntry
    <2>2. Valid = {}
        BY <2>1 DEF Init, Valid
    <2>3. SlotsRight
        <3> HIDE DEF HasValid
        <3>1. /\ store = [s \in Slot |-> store[s]] /\ \A s \in Slot : HasValid(store[s])
              /\ tail_index \in Slot
            BY <2>1, Sizes DEF Init, Slot
        <3>2. CountIsRight
            BY <2>2, FS_EmptySet DEF Init, CountIsRight
        <3> QED
            BY <3>1, <3>2 DEF SlotsRight
    <2>4. ReadsNamed /\ AnswersNamed
        <3>1. core_req \in Seq({}) /\ core_rsp \in Seq({})
            BY DEF Init
        <3> QED
            BY <3>1 DEF ReadsNamed, AnswersNamed
    <2> QED
        BY <2>3, <2>4 DEF CounterInv
<1>2. CounterInv => CountIsRight
    BY DEF CounterInv, SlotsRight
<1> QED
    BY <1>1, <1>2, CounterNext, PTL DEF Spec

------------------------------------------------------------------------------
(* A misread tag tells at once: a slot has lost its read, or an entry its
   instruction. *)
LEMMA MisreadsTell ==
    ASSUME IInv, TagMisread, EntriesAreOwned', AnswersHaveTheirSlot'
    PROVE  FALSE
<1>1. TypeInv /\ OwnerInv /\ EntriesAreOwned /\ AnswersHaveTheirSlot
    BY OwnedAll, SlotsWait DEF IInv
<1>2. Valid \subseteq Slot /\ Valid' \subseteq Slot /\ \A s \in Slot : s \in Valid' <=> store'[s].valid
    BY DEF Valid
<1>3. ASSUME NEW k \in DOMAIN window, frees_voided(k), mispredicted(k) PROVE FALSE
    <2>1. PICK s \in Voided : is_rob_younger(store[s].rob_tag, tag_of(k))
        BY <1>3 DEF frees_voided
    <2>2. s \in Valid /\ s \in Slot /\ store[s].state = "Voided"
        BY <1>2, <2>1 DEF Voided
    <2>3. store'[s] = NoEntry
        BY <1>3, <2>1, <2>2 DEF mispredicted, LSQ_invalidate, after_flush
    <2>4. s \notin Valid'
        BY <1>2, <2>3 DEF NoEntry
    <2> DEFINE packets == core_rsp \o core_req
               reads == {i \in DOMAIN packets : i <= Len(core_rsp) \/ ~packets[i].is_write}
    <2>5. s \in {packets[i].user : i \in reads}
        BY <1>1, <2>2 DEF AnswersHaveTheirSlot
    <2>6. core_rsp' = core_rsp /\ core_req' = core_req
        BY <1>3 DEF mispredicted, dcache
    <2>7. {packets[i].user : i \in reads}' \subseteq Valid'
        BY <1>1 DEF AnswersHaveTheirSlot
    <2> QED
        BY <2>4, <2>5, <2>6, <2>7
<1>4. ASSUME commits_another, commit PROVE FALSE
    <2> DEFINE s == window[1].lsq_idx
               m == Min(find_by_rob(head_tag))
    <2>1. 1 \in DOMAIN window /\ Head(window) = window[1] /\ head_tag \in Tag /\ window[1].ready
        BY <1>1, <1>4 DEF TypeInv, commit
    <2>2. 1 \in Owners /\ is_lsu(window[1].instr)
        BY <1>4, <2>1 DEF Owners, commits_another
    <2>3. /\ s \in Valid /\ s \in Slot /\ store[s].rob_tag = tag_of(1)
          /\ store[s].state = "Writeback"
        BY <1>1, <1>2, <2>1, <2>2 DEF OwnerInv
    <2>4. PICK o \in find_by_rob(head_tag) : o < s
        BY <1>4, <2>1 DEF commits_another
    <2>5. m # s
        <3>1. find_by_rob(head_tag) \subseteq Nat
            <4>1. find_by_rob(head_tag) \subseteq Valid
                BY DEF find_by_rob
            <4>2. Slot \subseteq Nat
                BY Sizes DEF Slot
            <4> QED
                BY <1>2, <4>1, <4>2
        <3>2. \E l \in find_by_rob(head_tag) : \A n \in find_by_rob(head_tag) : l <= n
            BY <2>4, <3>1, LeastNumber
        <3>3. m <= o /\ m \in Nat /\ o \in Nat /\ s \in Nat
            BY <2>3, <2>4, <3>1, <3>2, Sizes DEF Min, Slot
        <3> QED
            BY <2>4, <3>3
    <2>6. store'[s] = store[s]
        <3>1. store \in [Slot -> {NoEntry} \cup Entry] /\ find_by_rob(head_tag) # {}
            BY <1>1, <2>4 DEF TypeInv
        <3>2. LSQ_commit(head_tag)
            BY <1>4, <2>1, <2>2 DEF commit
        <3> HIDE DEF m, s
        <3>3. (\E entry : store' = [store EXCEPT ![m] = entry]) \/ release_entry(m)
            BY <3>1, <3>2 DEF LSQ_commit, m
        <3> QED
            BY <2>3, <2>5, <3>1, <3>3 DEF release_entry
    <2>7. s \in Valid' /\ s \notin Committed' /\ s \notin Voided'
        BY <1>2, <2>3, <2>6 DEF Valid, Committed, Voided
    <2>8. PICK j \in Owners' : window'[j].lsq_idx = s
        <3>1. s \in {window[k].lsq_idx : k \in Owners}'
            BY <2>7 DEF EntriesAreOwned, Owners
        <3> QED
            BY <3>1
    <2>9. j + 1 \in Owners /\ window[j + 1].lsq_idx = s /\ j + 1 # 1
        <3>1. window' = Tail(window) /\ window \in Seq(InFlight) /\ window # <<>>
            BY <1>1, <1>4 DEF commit, TypeInv
        <3>2. j \in 1 .. Len(window) - 1 /\ window'[j] = window[j + 1]
            BY <3>1, TailFacts DEF Owners
        <3>3. j + 1 \in DOMAIN window /\ j + 1 # 1
            BY <3>1, <3>2
        <3> QED
            BY <2>8, <3>2, <3>3 DEF Owners
    <2>10. store[s].rob_tag = tag_of(j + 1)
        BY <1>1, <2>9 DEF OwnerInv
    <2> QED
        BY <1>1, <2>1, <2>3, <2>9, <2>10, WindowFacts
<1> QED
    BY <1>3, <1>4 DEF TagMisread

(* The queue and the window, and the queue and the cache, go together up to the
   first misread tag and no further: nothing else in issue, commit, invalidate,
   LSU::tick or LoadStoreQueue::tick can part them, and each misread does. *)
THEOREM OnlyMisreadTags ==
    Spec => ([](EntriesAreOwned /\ AnswersHaveTheirSlot) <=> TagsReadRight)
<1>1. IInv /\ [Next]_vars /\ [~TagMisread]_vars => IInv'
    BY NextInv
<1>2. IInv => EntriesAreOwned /\ AnswersHaveTheirSlot
    BY OwnedAll, SlotsWait
<1>3. IInv /\ [Next]_vars /\ (EntriesAreOwned /\ AnswersHaveTheirSlot)' => [~TagMisread]_vars
    BY MisreadsTell
<1> QED
    BY <1>1, <1>2, <1>3, InitInv, PTL DEF Spec, TagsReadRight

------------------------------------------------------------------------------
(***************************************************************************)
(* Loads and stores in order.  Three sequences of writers stand between    *)
(* the memory array and a load: the requests on their way to the cache,    *)
(* the stores that have committed and are still in the queue, and the      *)
(* older stores of the window.  Each is a sequence numbered from its       *)
(* oldest, and what counts is its last writer of a byte; tags give the     *)
(* entries of the queue that order.  ValueInv says that every value on its *)
(* way to a load, in an entry, an answer, a request or the unit's output,  *)
(* is the one those three leave.                                           *)
(***************************************************************************)

(* The byte that the last of some numbered writers leaves at an address, where
   there was one before the first of them. *)
LastOf(writers, byte, before) == IF writers = {} THEN before ELSE byte[Max(writers)]

Asked(reqs, n, a) == {i \in 1 .. n : reqs[i].is_write /\ a \in Reach(reqs[i])}
Served(memory, reqs, n, a) ==
    LastOf(Asked(reqs, n, a), [i \in 1 .. n |-> reqs[i].data[a - reqs[i].addr]], memory[a])

WritesTo(instr, a) == is_store(instr) /\ a \in Reach(instr)
Older_stores(items, k, a) == {j \in 1 .. k - 1 : WritesTo(items[j].instr, a)}
Seen(memory, items, k, a) ==
    LastOf(Older_stores(items, k, a),
           [j \in 1 .. k - 1 |-> items[j].instr.data[a - items[j].instr.addr]], memory[a])

LEMMA GreatestNumber ==
    ASSUME NEW n \in Nat, NEW S, S \subseteq 1 .. n, S # {}
    PROVE  Max(S) \in S /\ \A x \in S : x <= Max(S)
<1> DEFINE T == {n - x : x \in S}
<1>1. T \subseteq Nat /\ T # {}
    <2>1. \A x \in S : n - x \in Nat
        OBVIOUS
    <2> QED
        BY <2>1
<1>2. PICK m \in T : \A l \in T : m <= l
    <2> HIDE DEF T
    <2> QED
        BY <1>1, LeastNumber
<1>3. PICK x \in S : m = n - x
    BY <1>2
<1>4. \A y \in S : x >= y
    <2> SUFFICES ASSUME NEW y \in S PROVE x >= y
        OBVIOUS
    <2>1. n - x <= n - y
        BY <1>2, <1>3
    <2> QED
        BY <2>1
<1>5. Max(S) \in S /\ \A y \in S : Max(S) >= y
    BY <1>4, Zenon DEF Max
<1> QED
    BY <1>5

LEMMA LastAt ==
    ASSUME NEW W, W \subseteq Nat, NEW i \in W, \A j \in W : j <= i, NEW byte, NEW before
    PROVE  LastOf(W, byte, before) = byte[i]
<1>1. Max(W) \in W /\ i <= Max(W)
    <2>1. i \in W /\ \A j \in W : i >= j
        OBVIOUS
    <2>2. Max(W) \in W /\ \A j \in W : Max(W) >= j
        BY <2>1, Zenon DEF Max
    <2> QED
        BY <2>2
<1>2. i \in Nat /\ Max(W) \in Nat /\ Max(W) <= i
    BY <1>1
<1>3. Max(W) = i
    BY <1>1, <1>2
<1> QED
    BY <1>3 DEF LastOf

(* The first of them has been done. *)
FirstDone(n, V, moved, after, W, byte, before) ==
    /\ n \in Nat /\ V \subseteq 1 .. n /\ W \subseteq 1 .. n + 1
    /\ \A i \in 1 .. n : i \in V <=> i + 1 \in W
    /\ \A i \in V : moved[i] = byte[i + 1]
    /\ after = IF 1 \in W THEN byte[1] ELSE before

LEMMA LastShifted ==
    ASSUME NEW n, NEW V, NEW moved, NEW after, NEW W, NEW byte, NEW before,
           FirstDone(n, V, moved, after, W, byte, before)
    PROVE  LastOf(V, moved, after) = LastOf(W, byte, before)
<1> USE DEF FirstDone
<1>1. n \in Nat /\ V \subseteq Nat /\ W \subseteq Nat /\ \A i \in V : i + 1 \in W /\ i \in Nat
    OBVIOUS
<1>2. \A j \in W : j = 1 \/ (j - 1 \in V /\ (j - 1) + 1 = j)
    <2> SUFFICES ASSUME NEW j \in W, j # 1 PROVE j - 1 \in V /\ (j - 1) + 1 = j
        OBVIOUS
    <2>1. j - 1 \in 1 .. n /\ (j - 1) + 1 = j
        OBVIOUS
    <2> QED
        BY <2>1
<1>3. \A i \in V : moved[i] = byte[i + 1]
    OBVIOUS
<1>4. after = IF 1 \in W THEN byte[1] ELSE before
    OBVIOUS
<1>5. V # {} => \E i \in V : \A j \in V : j <= i
    BY GreatestNumber
<1> HIDE DEF FirstDone
<1>6. CASE V = {}
    <2>1. \A j \in W : j = 1
        BY <1>2, <1>6
    <2>2. CASE 1 \in W
        <3>1. \A j \in W : j <= 1
            <4> SUFFICES ASSUME NEW j \in W PROVE j <= 1
                OBVIOUS
            <4>1. j = 1
                BY <2>1
            <4> QED
                BY <4>1
        <3> DEFINE l == 1
        <3>2. l \in W /\ \A j \in W : j <= l
            BY <2>2, <3>1
        <3> HIDE DEF l
        <3>3. LastOf(W, byte, before) = byte[l]
            BY <1>1, <3>2, LastAt
        <3> QED
            BY <1>4, <1>6, <2>2, <3>3 DEF LastOf, l
    <2>3. CASE 1 \notin W
        <3>1. W = {}
            BY <2>1, <2>3
        <3> QED
            BY <1>4, <1>6, <3>1 DEF LastOf
    <2> QED
        BY <2>2, <2>3
<1>7. CASE V # {}
    <2>1. PICK i \in V : \A j \in V : j <= i
        BY <1>5, <1>7
    <2>2. i + 1 \in W /\ i \in Nat
        BY <1>1
    <2>3. \A j \in W : j <= i + 1
        <3> SUFFICES ASSUME NEW j \in W, j # 1 PROVE j <= i + 1
            BY <2>2
        <3>1. j - 1 <= i /\ j \in Nat
            BY <1>1, <1>2, <2>1
        <3> QED
            BY <2>2, <3>1
    <2> DEFINE l == i + 1
    <2>4. l \in W /\ \A j \in W : j <= l
        BY <2>2, <2>3
    <2>5. moved[i] = byte[l]
        BY <1>3, <2>1
    <2> HIDE DEF l
    <2>6. LastOf(W, byte, before) = byte[l]
        BY <1>1, <2>4, LastAt
    <2>7. LastOf(V, moved, after) = moved[i]
        BY <1>1, <2>1, LastAt
    <2> QED
        BY <2>5, <2>6, <2>7
<1> QED
    BY <1>6, <1>7

LEMMA ServedFacts ==
    ASSUME NEW n \in Nat, NEW a, NEW memory, NEW reqs
    PROVE  /\ \A m \in 0 .. n : \A other : (\A i \in 1 .. m : other[i] = reqs[i])
                                          => Served(memory, other, m, a) = Served(memory, reqs, m, a)
           /\ Served(memory, reqs, n + 1, a) =
                  IF reqs[n + 1].is_write /\ a \in Reach(reqs[n + 1])
                  THEN reqs[n + 1].data[a - reqs[n + 1].addr] ELSE Served(memory, reqs, n, a)
           /\ \A other, after :
                 /\ \A i \in 1 .. n : other[i] = reqs[i + 1]
                 /\ after[a] = Served(memory, reqs, 1, a)
                 => Served(after, other, n, a) = Served(memory, reqs, n + 1, a)
<1>1. ASSUME NEW m \in 0 .. n, NEW other, \A i \in 1 .. m : other[i] = reqs[i]
      PROVE  Served(memory, other, m, a) = Served(memory, reqs, m, a)
    <2>1. Asked(other, m, a) = Asked(reqs, m, a)
        BY <1>1 DEF Asked
    <2>2. [i \in 1 .. m |-> other[i].data[a - other[i].addr]] = [i \in 1 .. m |-> reqs[i].data[a - reqs[i].addr]]
        BY <1>1
    <2> QED
        BY <2>1, <2>2 DEF Served
<1> DEFINE W == Asked(reqs, n + 1, a)
           byte == [i \in 1 .. n + 1 |-> reqs[i].data[a - reqs[i].addr]]
<1> DEFINE m == n + 1
<1>m. m \in Nat /\ m = n + 1
    OBVIOUS
<1>2. Served(memory, reqs, n + 1, a) =
          IF reqs[n + 1].is_write /\ a \in Reach(reqs[n + 1])
          THEN reqs[n + 1].data[a - reqs[n + 1].addr] ELSE Served(memory, reqs, n, a)
    <2>1. Served(memory, reqs, n + 1, a) = LastOf(W, byte, memory[a]) /\ W \subseteq 1 .. n + 1
        BY DEF Served, Asked
    <2>2. CASE reqs[n + 1].is_write /\ a \in Reach(reqs[n + 1])
        <3>1. n + 1 \in W /\ \A j \in W : j <= n + 1
            BY <2>2 DEF Asked
        <3>2. byte[n + 1] = reqs[n + 1].data[a - reqs[n + 1].addr]
            OBVIOUS
        <3>3. m \in W /\ (\A j \in W : j <= m) /\ W \subseteq Nat
            BY <2>1, <3>1
        <3> HIDE DEF W, byte, m
        <3>4. LastOf(W, byte, memory[a]) = byte[m]
            BY <1>m, <3>3, LastAt
        <3> QED
            BY <1>m, <2>1, <2>2, <3>2, <3>4
    <2>3. CASE ~(reqs[n + 1].is_write /\ a \in Reach(reqs[n + 1]))
        <3>1. W = Asked(reqs, n, a)
            <4>1. \A i : i \in 1 .. n + 1 <=> i \in 1 .. n \/ i = n + 1
                OBVIOUS
            <4>2. \A i : i \in W <=> i \in Asked(reqs, n, a)
                BY <2>3, <4>1 DEF Asked
            <4> QED
                BY <4>2
        <3>2. CASE W = {}
            BY <2>1, <2>3, <3>1, <3>2 DEF LastOf, Served
        <3>3. CASE W # {}
            <4>1. Max(W) \in 1 .. n
                <5>1. W \subseteq 1 .. n
                    BY <3>1 DEF Asked
                <5> HIDE DEF W
                <5> QED
                    BY <3>3, <5>1, GreatestNumber
            <4> QED
                BY <2>1, <2>3, <3>1, <3>3, <4>1 DEF LastOf, Served
        <3> QED
            BY <3>2, <3>3
    <2> QED
        BY <2>2, <2>3
<1>3. ASSUME NEW other, NEW after,
             \A i \in 1 .. n : other[i] = reqs[i + 1],
             after[a] = Served(memory, reqs, 1, a)
      PROVE  Served(after, other, n, a) = Served(memory, reqs, n + 1, a)
    <2> DEFINE V == Asked(other, n, a)
               moved == [i \in 1 .. n |-> other[i].data[a - other[i].addr]]
               first == [i \in 1 .. 1 |-> reqs[i].data[a - reqs[i].addr]]
    <2>1. W \subseteq 1 .. n + 1 /\ V \subseteq 1 .. n
        BY DEF Asked
    <2>2. \A i \in 1 .. n : i \in V <=> i + 1 \in W
        BY <1>3 DEF Asked
    <2>3. \A i \in V : moved[i] = byte[i + 1]
        BY <1>3, <2>1
    <2>4. after[a] = IF 1 \in W THEN byte[1] ELSE memory[a]
        <3>1. 1 \in W <=> 1 \in Asked(reqs, 1, a)
            BY DEF Asked
        <3>2. byte[1] = first[1]
            OBVIOUS
        <3>3. Asked(reqs, 1, a) \subseteq 1 .. 1 /\ 1 \in Nat
            BY DEF Asked
        <3>4. 1 \in Asked(reqs, 1, a) => Served(memory, reqs, 1, a) = first[1]
            <4>1. (\A j \in Asked(reqs, 1, a) : j <= 1) /\ Asked(reqs, 1, a) \subseteq Nat
                BY <3>3
            <4> HIDE DEF first
            <4>2. 1 \in Asked(reqs, 1, a) => LastOf(Asked(reqs, 1, a), first, memory[a]) = first[1]
                BY <3>3, <4>1, LastAt
            <4> QED
                BY <4>2 DEF Served, first
        <3>5. 1 \notin Asked(reqs, 1, a) => Served(memory, reqs, 1, a) = memory[a]
            BY <3>3 DEF Served, LastOf
        <3> QED
            BY <1>3, <3>1, <3>2, <3>4, <3>5
    <2> HIDE DEF V, W, byte, moved
    <2>5. FirstDone(n, V, moved, after[a], W, byte, memory[a])
        BY <2>1, <2>2, <2>3, <2>4 DEF FirstDone
    <2>6. LastOf(V, moved, after[a]) = LastOf(W, byte, memory[a])
        BY <2>5, LastShifted
    <2> QED
        BY <2>6 DEF Served, V, W, byte, moved, m
<1> QED
    BY <1>1, <1>2, <1>3

LEMMA SeenFacts ==
    ASSUME NEW k \in Nat \ {0}, NEW a, NEW memory, NEW items
    PROVE  /\ \A other, after : /\ \A j \in 1 .. k - 1 : other[j].instr = items[j].instr
                                /\ after[a] = memory[a]
                                => Seen(after, other, k, a) = Seen(memory, items, k, a)
           /\ \A other, after :
                 /\ \A j \in 1 .. k - 1 : other[j].instr = items[j + 1].instr
                 /\ after[a] = IF WritesTo(items[1].instr, a)
                               THEN items[1].instr.data[a - items[1].instr.addr] ELSE memory[a]
                 => Seen(after, other, k, a) = Seen(memory, items, k + 1, a)
           /\ Older_stores(items, k, a) = {} => Seen(memory, items, k, a) = memory[a]
           /\ \A j \in Older_stores(items, k, a) :
                 (\A i \in Older_stores(items, k, a) : i <= j)
                     => Seen(memory, items, k, a) = items[j].instr.data[a - items[j].instr.addr]
           /\ Older_stores(items, k, a) # {}
                 => \E j \in Older_stores(items, k, a) : \A i \in Older_stores(items, k, a) : i <= j
<1>1. ASSUME NEW other, NEW after, \A j \in 1 .. k - 1 : other[j].instr = items[j].instr, after[a] = memory[a]
      PROVE  Seen(after, other, k, a) = Seen(memory, items, k, a)
    <2>1. Older_stores(other, k, a) = Older_stores(items, k, a)
        BY <1>1 DEF Older_stores
    <2>2. [j \in 1 .. k - 1 |-> other[j].instr.data[a - other[j].instr.addr]]
            = [j \in 1 .. k - 1 |-> items[j].instr.data[a - items[j].instr.addr]]
        BY <1>1
    <2> QED
        BY <1>1, <2>1, <2>2 DEF Seen
<1>2. ASSUME NEW other, NEW after, \A j \in 1 .. k - 1 : other[j].instr = items[j + 1].instr,
             after[a] = IF WritesTo(items[1].instr, a)
                        THEN items[1].instr.data[a - items[1].instr.addr] ELSE memory[a]
      PROVE  Seen(after, other, k, a) = Seen(memory, items, k + 1, a)
    <2> DEFINE n == k - 1
               V == Older_stores(other, k, a)
               W == Older_stores(items, k + 1, a)
               byte == [j \in 1 .. k |-> items[j].instr.data[a - items[j].instr.addr]]
               moved == [j \in 1 .. n |-> other[j].instr.data[a - other[j].instr.addr]]
    <2>1. n \in Nat /\ k \in Nat /\ (k + 1) - 1 = k /\ k = n + 1
        OBVIOUS
    <2>2. W \subseteq 1 .. k /\ V \subseteq 1 .. n
        BY <2>1 DEF Older_stores
    <2>3. \A j \in 1 .. n : j \in V <=> j + 1 \in W
        BY <1>2 DEF Older_stores
    <2>4. \A i \in V : moved[i] = byte[i + 1]
        BY <1>2, <2>2
    <2>5. after[a] = IF 1 \in W THEN byte[1] ELSE memory[a]
        BY <1>2 DEF Older_stores
    <2>6. Seen(after, other, k, a) = LastOf(V, moved, after[a])
        BY DEF Seen
    <2>7. Seen(memory, items, k + 1, a) = LastOf(W, byte, memory[a])
        BY <2>1 DEF Seen
    <2> HIDE DEF V, W, byte, moved, n
    <2>8. FirstDone(n, V, moved, after[a], W, byte, memory[a])
        BY <2>1, <2>2, <2>3, <2>4, <2>5 DEF FirstDone
    <2>9. LastOf(V, moved, after[a]) = LastOf(W, byte, memory[a])
        BY <2>8, LastShifted
    <2> QED
        BY <2>6, <2>7, <2>9
<1> DEFINE W == Older_stores(items, k, a)
           byte == [j \in 1 .. k - 1 |-> items[j].instr.data[a - items[j].instr.addr]]
           n == k - 1
<1>3. W \subseteq 1 .. n /\ n \in Nat /\ Seen(memory, items, k, a) = LastOf(W, byte, memory[a])
    BY DEF Older_stores, Seen
<1>4. \A j \in W : byte[j] = items[j].instr.data[a - items[j].instr.addr]
    BY <1>3
<1> HIDE DEF byte, W, n
<1>5. /\ W = {} => LastOf(W, byte, memory[a]) = memory[a]
      /\ \A j \in W : (\A i \in W : i <= j) => LastOf(W, byte, memory[a]) = byte[j]
      /\ W # {} => \E j \in W : \A i \in W : i <= j
    <2>1. W \subseteq Nat
        BY <1>3
    <2> QED
        BY <1>3, <2>1, LastAt, GreatestNumber DEF LastOf
<1> QED
    BY <1>1, <1>2, <1>3, <1>4, <1>5 DEF W

------------------------------------------------------------------------------
(* As long as no store is overtaken, one that has committed left the window so
   few instructions ago that it compares as older than all of it. *)
AgeInv ==
    \A s \in Committed : \E age \in 1 .. ROB_SIZE :
        /\ head_tag = (store[s].rob_tag + age) % (2 * ROB_SIZE)
        /\ age + Len(window) <= ROB_SIZE

OrderInv == IInv /\ AgeInv

LEMMA AgeKept ==
    ASSUME AgeInv, head_tag' = head_tag, Len(window) \in Nat, Len(window') \in Nat, Len(window') <= Len(window),
           \A s \in Committed' : store'[s] = store[s]
    PROVE  AgeInv'
<1> SUFFICES ASSUME NEW s \in Committed'
             PROVE  \E age \in 1 .. ROB_SIZE : /\ head_tag' = (store'[s].rob_tag + age) % (2 * ROB_SIZE)
                                               /\ age + Len(window') <= ROB_SIZE
    BY DEF AgeInv
<1>1. s \in Committed /\ store'[s] = store[s]
    BY DEF Committed, Valid
<1>2. PICK age \in 1 .. ROB_SIZE : /\ head_tag = (store[s].rob_tag + age) % (2 * ROB_SIZE)
                                   /\ age + Len(window) <= ROB_SIZE
    BY <1>1 DEF AgeInv
<1>3. age + Len(window') <= ROB_SIZE
    BY <1>2, Sizes
<1> QED
    BY <1>1, <1>2, <1>3

(* An entry that another value is put in, not a committed one. *)
LEMMA OtherEntry ==
    ASSUME NEW s, NEW entry, store' = [store EXCEPT ![s] = entry], store = [o \in Slot |-> store[o]],
           entry.valid => entry.state # "Committed"
    PROVE  \A o \in Committed' : store'[o] = store[o]
<1> SUFFICES ASSUME NEW o \in Committed', store'[o] # store[o] PROVE FALSE
    OBVIOUS
<1>1. o \in Slot /\ store'[o].valid /\ store'[o].state = "Committed"
    BY DEF Committed, Valid
<1>2. store'[o] = entry
    BY <1>1
<1> QED
    BY <1>1, <1>2

LEMMA AgeNext ==
    ASSUME OrderInv, IInv', [Next]_vars, [~TagMisread]_vars, [~StoreOvertaken]_vars
    PROVE  AgeInv'
<1>1. /\ IInv /\ AgeInv /\ TypeInv /\ OwnerInv /\ UnitInv
      /\ store = [s \in Slot |-> store[s]] /\ ~NoEntry.valid
      /\ \A s \in Valid : store[s] \in Entry
    BY EntryFacts DEF OrderInv, IInv, TypeInv, NoEntry
<1> DEFINE n == Len(window)
<1>2. n \in Nat /\ n <= WINDOW /\ head_tag \in Tag /\ Len(window') \in Nat
    BY <1>1 DEF TypeInv, IInv
<1>3. ASSUME UNCHANGED head_tag, Len(window') = n, \A s \in Committed' : store'[s] = store[s]
      PROVE  AgeInv'
    BY <1>1, <1>2, <1>3, AgeKept
<1>4. ASSUME UNCHANGED head_tag, Len(window') = n, UNCHANGED store PROVE AgeInv'
    BY <1>3, <1>4
<1>5. ASSUME UNCHANGED rob, NEW s, NEW entry, store' = [store EXCEPT ![s] = entry],
             entry.valid => entry.state # "Committed"
      PROVE  AgeInv'
    BY <1>1, <1>3, <1>5, OtherEntry DEF rob
<1>6. ASSUME UNCHANGED rob, NEW s, release_entry(s) PROVE AgeInv'
    BY <1>1, <1>5, <1>6 DEF release_entry
<1>7. ASSUME UNCHANGED rob, NEW s \in Valid, NEW value, update_data(s, value) PROVE AgeInv'
    <2> DEFINE entry == [store[s] EXCEPT !.data = value, !.state = "Writeback"]
    <2>1. store' = [store EXCEPT ![s] = entry] /\ entry.state # "Committed"
        BY <1>1, <1>7 DEF update_data, Entry
    <2> HIDE DEF entry
    <2> QED
        BY <1>5, <1>7, <2>1
<1>8. ASSUME NEW instr \in Instr, issue(instr), ~StoreOvertaken PROVE AgeInv'
    <2> DEFINE k == n + 1
    <2>1. /\ k \in 1 .. ROB_SIZE /\ Len(window') = k /\ head_tag' = head_tag
        <3>1. n < WINDOW /\ head_tag' = head_tag /\ Len(window') = n + 1
            BY <1>1, <1>8 DEF issue, TypeInv
        <3> QED
            BY <1>2, <3>1, Sizes
    <2>2. \A s \in Committed : is_rob_younger(tag_of(k), store[s].rob_tag)
        BY <1>8 DEF StoreOvertaken
    <2>3. \A s \in Committed' : store'[s] = store[s]
        <3>1. CASE UNCHANGED store
            BY <3>1
        <3>2. CASE is_lsu(instr)
            <4> DEFINE entry == [valid |-> TRUE, state |-> "Pending", addr_valid |-> FALSE, data |-> NULL,
                                 rob_tag |-> tag_of(k), instr |-> instr]
            <4>1. store' = [store EXCEPT ![slot_at(first_free)] = entry]
                BY <1>8, <3>2 DEF issue, allocate
            <4>2. entry.valid => entry.state # "Committed"
                OBVIOUS
            <4> HIDE DEF entry
            <4> QED
                BY <1>1, <4>1, <4>2, OtherEntry
        <3> QED
            BY <1>8, <3>1, <3>2 DEF issue, lsq
    <2> SUFFICES ASSUME NEW s \in Committed'
                 PROVE  \E age \in 1 .. ROB_SIZE : /\ head_tag' = (store'[s].rob_tag + age) % (2 * ROB_SIZE)
                                                   /\ age + Len(window') <= ROB_SIZE
        BY DEF AgeInv
    <2>4. s \in Committed /\ store'[s] = store[s]
        BY <2>3 DEF Committed, Valid
    <2>5. PICK age \in 1 .. ROB_SIZE : /\ head_tag = (store[s].rob_tag + age) % (2 * ROB_SIZE)
                                       /\ age + n <= ROB_SIZE
        BY <1>1, <2>4 DEF AgeInv
    <2>6. store[s].rob_tag \in Tag
        BY <1>1, <2>4 DEF Committed, Entry
    <2>7. age + k <= ROB_SIZE + 1
        BY <1>2, <2>5, Sizes
    <2> HIDE DEF k
    <2>8. age + k <= ROB_SIZE
        BY <1>2, <2>1, <2>2, <2>4, <2>5, <2>6, <2>7, OldTag
    <2> QED
        BY <2>1, <2>4, <2>5, <2>8
<1>9. ASSUME NEW k \in DOMAIN window, dispatch(k) \/ predicted(k) PROVE AgeInv'
    <2>1. UNCHANGED head_tag /\ UNCHANGED store /\ Len(window') = n
        BY <1>1, <1>9 DEF dispatch, predicted, resolved, lsq, TypeInv
    <2> QED
        BY <1>4, <2>1
<1>10. CASE broadcast
    <2>1. UNCHANGED head_tag /\ UNCHANGED store /\ DOMAIN window' = 1 .. n
        <3>1. UNCHANGED head_tag /\ UNCHANGED store /\ DOMAIN window' = DOMAIN window
            BY <1>10 DEF broadcast, lsq
        <3> QED
            BY <1>1, <3>1 DEF TypeInv
    <2>2. Len(window') = n
        <3>1. window' \in Seq(InFlight)
            BY DEF IInv, TypeInv
        <3> QED
            BY <1>2, <2>1, <3>1
    <2> QED
        BY <1>4, <2>1, <2>2
<1>11. CASE take_answer
    <2> DEFINE s == Head(core_rsp).user
    <2>1. /\ UNCHANGED rob /\ store[s].valid
          /\ release_entry(s) \/ update_data(s, Head(core_rsp).data)
        BY <1>11 DEF take_answer, rob
    <2>2. s \in Valid
        <3>1. core_rsp \in Seq(Rsp) /\ core_rsp # <<>>
            BY <1>1, <1>11 DEF TypeInv, take_answer, answered
        <3>2. s \in Slot
            <4>1. Head(core_rsp) \in Rsp
                BY <3>1
            <4> QED
                BY <4>1 DEF Rsp
        <3> QED
            BY <2>1, <3>2 DEF Valid
    <2> QED
        BY <1>6, <1>7, <2>1, <2>2
<1>12. CASE compute_address
    <2> DEFINE s == input.lsq_idx
               filled == [store[s] EXCEPT !.addr_valid = TRUE, !.data = input.instr.data, !.state = "Writeback"]
               known  == [store[s] EXCEPT !.addr_valid = TRUE]
    <2>1. UNCHANGED rob /\ input.valid
        BY <1>12 DEF compute_address
    <2>2. s \in Valid /\ store[s].state = "Pending"
        BY <1>1, <2>1 DEF UnitInv, OwnerInv
    <2>3. store' = [store EXCEPT ![s] = filled] \/ store' = [store EXCEPT ![s] = known]
        BY <1>1, <1>12 DEF compute_address
    <2>4. filled.state # "Committed" /\ known.state # "Committed"
        BY <1>1, <2>2 DEF Entry
    <2> HIDE DEF filled, known
    <2> QED
        BY <1>5, <2>1, <2>3, <2>4
<1>13. CASE LSQ_tick
    <2> DEFINE s == select_oldest_actionable
    <2>1. UNCHANGED rob /\ (issue_store(s) \/ issue_load(s)) /\ s \in Valid
        BY <1>1, <1>13, Selected DEF LSQ_tick, Actionable
    <2> HIDE DEF s
    <2>2. CASE issue_store(s)
        BY <1>6, <2>1, <2>2 DEF issue_store
    <2>3. CASE issue_load(s)
        <3>1. CASE \E value : update_data(s, value)
            BY <1>7, <2>1, <3>1
        <3> DEFINE entry == [store[s] EXCEPT !.state = "Issued"]
        <3>2. CASE store' = [store EXCEPT ![s].state = "Issued"]
            <4>1. store' = [store EXCEPT ![s] = entry] /\ entry.state # "Committed"
                BY <1>1, <2>1, <3>2 DEF Entry
            <4> HIDE DEF entry
            <4> QED
                BY <1>5, <2>1, <4>1
        <3> QED
            BY <2>3, <3>1, <3>2 DEF issue_load
    <2> QED
        BY <2>1, <2>2, <2>3
<1>14. CASE commit /\ ~TagMisread
    <2>1. /\ window' = Tail(window) /\ window # <<>> /\ head_tag' = (head_tag + 1) % (2 * ROB_SIZE)
          /\ IF is_lsu(Head(window).instr) THEN LSQ_commit(head_tag) ELSE UNCHANGED lsq
          /\ is_lsu(Head(window).instr) => ~commits_another
        BY <1>14 DEF commit, TagMisread
    <2>2. n >= 1 /\ Len(window') = n - 1
        BY <1>1, <2>1 DEF TypeInv
    <2>3. ASSUME NEW s \in Committed', store'[s] # store[s] PROVE store'[s].rob_tag = head_tag
        <3> DEFINE h == window[1].lsq_idx
        <3>1. is_lsu(Head(window).instr) /\ LSQ_commit(head_tag)
            BY <2>1, <2>3 DEF lsq
        <3>2. h \in Valid /\ store[h].rob_tag = head_tag /\ Min(find_by_rob(head_tag)) = h /\ find_by_rob(head_tag) # {}
            BY <1>1, <1>14, <2>1, <3>1, HeadEntry DEF commit
        <3> HIDE DEF h
        <3>3. s \in Slot /\ store'[s].valid
            BY DEF Committed, Valid
        <3>4. CASE release_entry(h)
            BY <1>1, <2>3, <3>3, <3>4 DEF release_entry
        <3>5. CASE store' = [store EXCEPT ![h].state = "Committed"]
            BY <1>1, <2>3, <3>2, <3>3, <3>5 DEF Entry
        <3> QED
            BY <3>1, <3>2, <3>4, <3>5 DEF LSQ_commit
    <2> SUFFICES ASSUME NEW s \in Committed'
                 PROVE  \E age \in 1 .. ROB_SIZE : /\ head_tag' = (store'[s].rob_tag + age) % (2 * ROB_SIZE)
                                                   /\ age + Len(window') <= ROB_SIZE
        BY DEF AgeInv
    <2>4. CASE store'[s] # store[s]
        <3>1. store'[s].rob_tag = head_tag /\ head_tag' = (store'[s].rob_tag + 1) % (2 * ROB_SIZE)
            BY <2>1, <2>3, <2>4
        <3>2. 1 \in 1 .. ROB_SIZE /\ 1 + Len(window') <= ROB_SIZE
            BY <1>2, <2>2, Sizes
        <3> QED
            BY <3>1, <3>2
    <2>5. CASE store'[s] = store[s]
        <3>1. s \in Committed /\ store[s].rob_tag \in Tag
            BY <1>1, <2>5 DEF Committed, Valid, Entry
        <3>2. PICK age \in 1 .. ROB_SIZE : /\ head_tag = (store[s].rob_tag + age) % (2 * ROB_SIZE)
                                           /\ age + n <= ROB_SIZE
            BY <1>1, <3>1 DEF AgeInv
        <3>3. age \in 0 .. ROB_SIZE - 1 /\ age + 1 \in 1 .. ROB_SIZE /\ (age + 1) + Len(window') <= ROB_SIZE
            BY <1>2, <2>2, <3>2, Sizes
        <3>4. head_tag' = (store[s].rob_tag + (age + 1)) % (2 * ROB_SIZE)
            BY <1>2, <2>1, <3>1, <3>2, <3>3, NextTag
        <3> QED
            BY <2>5, <3>3, <3>4
    <2> QED
        BY <2>4, <2>5
<1>15. ASSUME NEW k \in DOMAIN window, mispredicted(k) PROVE AgeInv'
    <2>1. Len(window') <= n /\ head_tag' = head_tag
        <3>1. k \in 1 .. n /\ window' = SubSeq(resolved(k), 1, k) /\ head_tag' = head_tag
            BY <1>1, <1>15 DEF mispredicted, TypeInv
        <3>2. Len(window') = k
            BY <1>1, <1>2, <3>1 DEF resolved, TypeInv
        <3> QED
            BY <1>2, <3>1, <3>2
    <2>2. ASSUME NEW s \in Committed' PROVE store'[s] = store[s]
        <3>1. s \in Slot /\ store'[s].valid /\ store'[s].state = "Committed"
            BY DEF Committed, Valid
        <3>2. \/ store'[s] = store[s]
              \/ s \in Valid /\ store'[s] = after_flush(store[s])
            BY <1>15, <3>1 DEF mispredicted, LSQ_invalidate
        <3>3. CASE s \in Valid /\ store'[s] = after_flush(store[s])
            <4>1. after_flush(store[s]) = NoEntry \/ after_flush(store[s]).state = "Voided"
                BY <1>1, <3>3 DEF after_flush, Entry
            <4> QED
                BY <1>1, <3>1, <3>3, <4>1
        <3> QED
            BY <3>2, <3>3
    <2> QED
        BY <1>1, <1>2, <2>1, <2>2, AgeKept
<1>16. CASE dcache_tick
    <2>1. UNCHANGED head_tag /\ UNCHANGED store /\ Len(window') = n
        BY <1>16 DEF dcache_tick, rob, lsq
    <2> QED
        BY <1>4, <2>1
<1>17. CASE UNCHANGED vars
    <2>1. UNCHANGED head_tag /\ UNCHANGED store /\ Len(window') = n
        BY <1>17 DEF vars, rob, lsq
    <2> QED
        BY <1>4, <2>1
<1> HIDE DEF n
<1> QED
    BY <1>8, <1>9, <1>10, <1>11, <1>12, <1>13, <1>14, <1>15, <1>16, <1>17 DEF Next, Proceed

------------------------------------------------------------------------------
(* The entries that are in program order: those of the window, at their places
   there, and the committed stores before them. *)
Live == Valid \ Voided

(* A voided load may compare as older than an entry, but gives it nothing. *)
OlderLive(s) == Older(s) \ Voided

IsPlace(place) ==
    /\ \A s \in Live : place[s] \in Int
    /\ \A s, o \in Live : /\ is_rob_younger(store[s].rob_tag, store[o].rob_tag) <=> place[s] > place[o]
                          /\ place[s] = place[o] => s = o
    /\ \A k \in Owners : window[k].lsq_idx \in Live \ Committed /\ place[window[k].lsq_idx] = k
    /\ \A s \in Committed : s \in Live /\ place[s] <= 0
    /\ \A s \in Live \ Committed : place[s] \in Owners /\ window[place[s]].lsq_idx = s
    /\ \A k \in Owners : \A o : o \in OlderLive(window[k].lsq_idx) <=> o \in Live /\ place[o] < k

(* No two committed stores have the same tag. *)
TagInv == \A s, o \in Committed : store[s].rob_tag = store[o].rob_tag => s = o

LEMMA Ages ==
    ASSUME NEW h \in Tag, NEW t \in Tag, NEW u \in Tag, NEW a \in 1 .. ROB_SIZE, NEW b \in 1 .. ROB_SIZE,
           h = (t + a) % (2 * ROB_SIZE), h = (u + b) % (2 * ROB_SIZE)
    PROVE  (is_rob_younger(t, u) <=> a < b) /\ (a = b => t = u)
<1>1. a \in 0 .. 2 * ROB_SIZE - 1 /\ b \in 0 .. 2 * ROB_SIZE - 1
    BY Sizes
<1>2. h = IF t + a < 2 * ROB_SIZE THEN t + a ELSE t + a - 2 * ROB_SIZE
    BY <1>1, Ring
<1>3. h = IF u + b < 2 * ROB_SIZE THEN u + b ELSE u + b - 2 * ROB_SIZE
    BY <1>1, Ring
<1> DEFINE d == (t - u) % (2 * ROB_SIZE)
<1>4. is_rob_younger(t, u) <=> d > 0 /\ d < ROB_SIZE
    BY DEF is_rob_younger
<1>5. d = IF t < u THEN t - u + 2 * ROB_SIZE ELSE t - u
    BY Apart
<1> HIDE DEF d
<1>6. d = IF a <= b THEN b - a ELSE 2 * ROB_SIZE + b - a
    BY <1>2, <1>3, <1>5, Sizes DEF Tag
<1>7. a = b => t = u
    BY <1>2, <1>3, Sizes DEF Tag
<1> QED
    BY <1>4, <1>6, <1>7, Sizes

LEMMA Places == ASSUME OrderInv, TagInv PROVE \E place : IsPlace(place)
<1>1. TypeInv /\ EntryInv /\ OwnerInv /\ LeftInv /\ AgeInv
    BY DEF OrderInv, IInv
<1> DEFINE At(s, r) ==
               \/ r \in Owners /\ window[r].lsq_idx = s
               \/ /\ s \in Committed /\ 1 - r \in 1 .. ROB_SIZE
                  /\ head_tag = (store[s].rob_tag + (1 - r)) % (2 * ROB_SIZE)
                  /\ (1 - r) + Len(window) <= ROB_SIZE
           place == [s \in Live |-> CHOOSE r \in Int : At(s, r)]
<1>2. /\ head_tag \in Tag /\ Len(window) \in Nat /\ Len(window) <= ROB_SIZE
      /\ Owners \subseteq 1 .. Len(window) /\ Owners \subseteq 1 .. ROB_SIZE
      /\ \A s \in Valid : store[s].rob_tag \in Tag
                        /\ store[s].state \in {"Pending", "Issued", "Writeback", "Committed", "Voided"}
    <2>1. \A s \in Valid : store[s] \in Entry
        BY <1>1, EntryFacts
    <2>2. \A s \in Valid : store[s].rob_tag \in Tag
                        /\ store[s].state \in {"Pending", "Issued", "Writeback", "Committed", "Voided"}
        BY <2>1 DEF Entry
    <2> QED
        BY <1>1, <2>2, WindowFacts, Sizes DEF TypeInv
<1>3. /\ Live \subseteq Valid /\ Committed \subseteq Live
      /\ \A k \in Owners : /\ window[k].lsq_idx \in Live \ Committed
                           /\ store[window[k].lsq_idx].rob_tag = tag_of(k)
    BY <1>1 DEF Live, Committed, Voided, OwnerInv
<1>4. \A s \in Live : \E r \in Int : At(s, r)
    <2> SUFFICES ASSUME NEW s \in Live PROVE \E r \in Int : At(s, r)
        OBVIOUS
    <2>1. CASE s \in Committed
        <3>1. PICK age \in 1 .. ROB_SIZE : /\ head_tag = (store[s].rob_tag + age) % (2 * ROB_SIZE)
                                           /\ age + Len(window) <= ROB_SIZE
            BY <1>1, <2>1 DEF AgeInv
        <3>2. 1 - (1 - age) = age /\ 1 - age \in Int
            OBVIOUS
        <3>3. At(s, 1 - age)
            BY <2>1, <3>1, <3>2
        <3> QED
            BY <3>2, <3>3
    <2>2. CASE s \notin Committed
        <3>1. s \in Valid /\ store[s].state \in {"Pending", "Issued", "Writeback"}
            BY <1>2, <1>3, <2>2 DEF Live, Committed, Voided
        <3>2. PICK k \in Owners : window[k].lsq_idx = s
            BY <1>1, <3>1 DEF LeftInv
        <3>3. k \in Int /\ At(s, k)
            BY <1>2, <3>2
        <3> QED
            BY <3>3
    <2> QED
        BY <2>1, <2>2
<1>5. \A s \in Live : place[s] \in Int /\ At(s, place[s])
    BY <1>4
<1>6. ASSUME NEW s \in Live, NEW r \in Int, At(s, r), NEW o \in Live, NEW q \in Int, At(o, q)
      PROVE  /\ is_rob_younger(store[s].rob_tag, store[o].rob_tag) <=> r > q
             /\ r = q => s = o
    <2>1. CASE r \in Owners /\ window[r].lsq_idx = s /\ q \in Owners /\ window[q].lsq_idx = o
        <3>1. store[s].rob_tag = tag_of(r) /\ store[o].rob_tag = tag_of(q) /\ r \in DOMAIN window /\ q \in DOMAIN window
            BY <1>1, <1>3, <2>1, WindowFacts
        <3> QED
            BY <1>1, <2>1, <3>1, WindowFacts
    <2>2. CASE /\ r \in Owners /\ window[r].lsq_idx = s
               /\ o \in Committed /\ 1 - q \in 1 .. ROB_SIZE
               /\ head_tag = (store[o].rob_tag + (1 - q)) % (2 * ROB_SIZE)
               /\ (1 - q) + Len(window) <= ROB_SIZE
        <3> DEFINE age == 1 - q
        <3>1. store[s].rob_tag = tag_of(r) /\ store[o].rob_tag \in Tag /\ r \in 1 .. ROB_SIZE /\ r <= Len(window)
            BY <1>2, <1>3, <2>2
        <3>2. age \in 1 .. ROB_SIZE /\ head_tag = (store[o].rob_tag + age) % (2 * ROB_SIZE) /\ r > q
              /\ age + r <= ROB_SIZE /\ age + r <= ROB_SIZE + 1
            BY <1>2, <2>2, <3>1, Sizes
        <3> HIDE DEF age, tag_of, is_rob_younger
        <3>3. is_rob_younger(tag_of(r), store[o].rob_tag)
            BY <1>2, <3>1, <3>2, OldTag
        <3> QED
            BY <3>1, <3>2, <3>3
    <2>3. CASE /\ q \in Owners /\ window[q].lsq_idx = o
               /\ s \in Committed /\ 1 - r \in 1 .. ROB_SIZE
               /\ head_tag = (store[s].rob_tag + (1 - r)) % (2 * ROB_SIZE)
               /\ (1 - r) + Len(window) <= ROB_SIZE
        <3> DEFINE age == 1 - r
        <3>1. store[o].rob_tag = tag_of(q) /\ store[s].rob_tag \in Tag /\ q \in 1 .. ROB_SIZE /\ q <= Len(window)
            BY <1>2, <1>3, <2>3
        <3>2. age \in 1 .. ROB_SIZE /\ head_tag = (store[s].rob_tag + age) % (2 * ROB_SIZE) /\ r < q
              /\ age + q <= ROB_SIZE + 1
            BY <1>2, <2>3, <3>1, Sizes
        <3> HIDE DEF age, tag_of, is_rob_younger
        <3>3. ~is_rob_younger(store[s].rob_tag, tag_of(q))
            BY <1>2, <3>1, <3>2, OldTag
        <3> QED
            BY <3>1, <3>2, <3>3
    <2>4. CASE /\ s \in Committed /\ 1 - r \in 1 .. ROB_SIZE
               /\ head_tag = (store[s].rob_tag + (1 - r)) % (2 * ROB_SIZE)
               /\ o \in Committed /\ 1 - q \in 1 .. ROB_SIZE
               /\ head_tag = (store[o].rob_tag + (1 - q)) % (2 * ROB_SIZE)
        <3> DEFINE a == 1 - r
                   b == 1 - q
                   t == store[s].rob_tag
                   u == store[o].rob_tag
        <3>1. /\ a \in 1 .. ROB_SIZE /\ b \in 1 .. ROB_SIZE /\ t \in Tag /\ u \in Tag
              /\ head_tag = (t + a) % (2 * ROB_SIZE) /\ head_tag = (u + b) % (2 * ROB_SIZE)
            BY <1>2, <1>3, <2>4
        <3>2. (a < b <=> r > q) /\ (a = b <=> r = q)
            OBVIOUS
        <3> HIDE DEF a, b, t, u
        <3>3. (is_rob_younger(t, u) <=> a < b) /\ (a = b => t = u)
            BY <1>2, <3>1, Ages
        <3> QED
            BY <2>4, <3>2, <3>3 DEF TagInv, t, u
    <2> QED
        BY <1>6, <2>1, <2>2, <2>3, <2>4
<1>7. \A s \in Live, r \in Int : At(s, r) => place[s] = r
    <2> SUFFICES ASSUME NEW s \in Live, NEW r \in Int, At(s, r) PROVE place[s] = r
        OBVIOUS
    <2>1. place[s] \in Int /\ At(s, place[s])
        BY <1>5
    <2> HIDE DEF At, place
    <2>2. is_rob_younger(store[s].rob_tag, store[s].rob_tag) <=> place[s] > r
        BY <1>6, <2>1
    <2>3. is_rob_younger(store[s].rob_tag, store[s].rob_tag) <=> r > place[s]
        BY <1>6, <2>1
    <2> QED
        BY <2>1, <2>2, <2>3
<1>8. \A k \in Owners : k \in Int /\ place[window[k].lsq_idx] = k
    <2> SUFFICES ASSUME NEW k \in Owners PROVE k \in Int /\ place[window[k].lsq_idx] = k
        OBVIOUS
    <2>1. k \in Int /\ window[k].lsq_idx \in Live /\ At(window[k].lsq_idx, k)
        BY <1>2, <1>3
    <2> HIDE DEF At, place
    <2> QED
        BY <1>7, <2>1
<1>9. \A s \in Committed : place[s] <= 0
    <2> SUFFICES ASSUME NEW s \in Committed PROVE place[s] <= 0
        OBVIOUS
    <2>1. s \in Live /\ At(s, place[s]) /\ place[s] \in Int
        BY <1>3, <1>5
    <2> HIDE DEF place
    <2>2. 1 - place[s] \in 1 .. ROB_SIZE
        BY <1>3, <2>1
    <2> QED
        BY <2>1, <2>2
<1>10. \A s \in Live \ Committed : place[s] \in Owners /\ window[place[s]].lsq_idx = s
    <2> SUFFICES ASSUME NEW s \in Live \ Committed PROVE place[s] \in Owners /\ window[place[s]].lsq_idx = s
        OBVIOUS
    <2>1. At(s, place[s])
        BY <1>5
    <2> HIDE DEF place
    <2> QED
        BY <2>1
<1>11. ASSUME NEW k \in Owners, NEW o
       PROVE  o \in OlderLive(window[k].lsq_idx) <=> o \in Live /\ place[o] < k
    <2> DEFINE s == window[k].lsq_idx
    <2>1. s \in Live /\ s \in Valid /\ store[s].rob_tag = tag_of(k) /\ place[s] = k /\ k \in Int
        BY <1>3, <1>8
    <2>2. CASE o \in Live
        <3>1. place[o] \in Int /\ At(o, place[o]) /\ At(s, place[s]) /\ place[s] \in Int
            BY <1>5, <2>1, <2>2
        <3> HIDE DEF At, place
        <3>2. is_rob_younger(store[s].rob_tag, store[o].rob_tag) <=> place[s] > place[o]
            BY <1>6, <2>1, <2>2, <3>1
        <3>3. o \in OlderLive(s) <=> o # s /\ is_rob_younger(store[s].rob_tag, store[o].rob_tag)
            BY <1>3, <2>2 DEF OlderLive, Older, Live
        <3> QED
            BY <2>1, <2>2, <3>1, <3>2, <3>3
    <2>3. CASE o \in Voided
        BY <2>3 DEF OlderLive, Live
    <2>4. CASE o \notin Valid
        BY <1>3, <2>4 DEF OlderLive, Older
    <2> QED
        BY <2>2, <2>3, <2>4 DEF Live
<1>12. \A s, o \in Live : /\ is_rob_younger(store[s].rob_tag, store[o].rob_tag) <=> place[s] > place[o]
                          /\ place[s] = place[o] => s = o
    <2> SUFFICES ASSUME NEW s \in Live, NEW o \in Live
                 PROVE  /\ is_rob_younger(store[s].rob_tag, store[o].rob_tag) <=> place[s] > place[o]
                        /\ place[s] = place[o] => s = o
        OBVIOUS
    <2>1. place[s] \in Int /\ At(s, place[s]) /\ place[o] \in Int /\ At(o, place[o])
        BY <1>5
    <2> HIDE DEF At, place
    <2> QED
        BY <1>6, <2>1
<1>13. IsPlace(place)
    <2>1. \A s \in Live : place[s] \in Int
        BY <1>5
    <2> HIDE DEF At, place
    <2> QED
        BY <1>3, <1>8, <1>9, <1>10, <1>11, <1>12, <2>1 DEF IsPlace
<1> HIDE DEF place
<1> QED
    BY <1>13

------------------------------------------------------------------------------
(* A scan gives the first entry in the order it looks for. *)
LEMMA ScanGivesFirst ==
    ASSUME NEW entries \in SUBSET Slot, entries # {}, NEW before, NEW rank,
           \A s \in entries : rank[s] \in Int,
           \A s, o \in entries : <<s, o>> \in before <=> rank[s] < rank[o]
    PROVE  /\ scan(entries, before) \in entries
           /\ \A o \in entries : rank[scan(entries, before)] <= rank[o]
<1> DEFINE Best == CHOOSE best : IsScan(best, entries, before, NUM_LSQS)
<1>1. IsScan(Best, entries, before, NUM_LSQS)
    BY ScanExists, Sizes
<1>2. scan(entries, before) = Best[NUM_LSQS]
    BY Zenon DEF scan, IsScan
<1> HIDE DEF Best
<1>3. NULL \notin entries
    BY NullAssumption DEF Slot
<1> DEFINE Fine(i) == /\ Best[i] = NULL \/ Best[i] \in entries
                      /\ \A s \in entries : s < i => Best[i] \in entries /\ rank[Best[i]] <= rank[s]
           Wrong == {i \in 0 .. NUM_LSQS : ~Fine(i)}
<1>4. Wrong = {}
    <2> SUFFICES ASSUME Wrong # {} PROVE FALSE
        OBVIOUS
    <2>1. PICK m \in Wrong : \A l \in Wrong : m <= l
        <3>1. Wrong \subseteq Nat
            BY Sizes
        <3> HIDE DEF Wrong
        <3> QED
            BY <3>1, LeastNumber
    <2>2. m \in 0 .. NUM_LSQS /\ ~Fine(m)
        BY <2>1
    <2>3. Best[m] = IF m = 0 THEN NULL
                    ELSE IF /\ m - 1 \in entries
                            /\ Best[m - 1] = NULL \/ <<m - 1, Best[m - 1]>> \in before
                         THEN m - 1 ELSE Best[m - 1]
        BY <1>1, <2>2 DEF IsScan
    <2>4. CASE m = 0
        BY <2>2, <2>3, <2>4 DEF Slot
    <2>5. CASE m # 0
        <3> DEFINE p == m - 1
                   b == Best[p]
        <3>1. p \in 0 .. NUM_LSQS /\ ~ (m <= p) /\ \A s \in entries : s < m <=> (s < p \/ s = p)
            BY <2>2, <2>5, Sizes DEF Slot
        <3>2. Fine(p)
            BY <2>1, <3>1
        <3>3. Best[m] = IF p \in entries /\ (b = NULL \/ <<p, b>> \in before) THEN p ELSE b
            BY <2>3, <2>5
        <3> HIDE DEF p
        <3>4. /\ b = NULL \/ b \in entries
              /\ \A s \in entries : s < p => b \in entries /\ rank[b] <= rank[s]
            BY <3>2
        <3> HIDE DEF b
        <3>5. CASE p \notin entries
            BY <2>2, <3>1, <3>3, <3>4, <3>5
        <3>6. CASE p \in entries /\ b = NULL
            BY <1>3, <2>2, <3>1, <3>3, <3>4, <3>6
        <3>7. CASE p \in entries /\ b \in entries
            <4>1. b # NULL
                BY <1>3, <3>7
            <4>2. CASE rank[p] < rank[b]
                <5>1. Best[m] = p
                    BY <3>3, <3>7, <4>2
                <5>2. \A s \in entries : s < p => rank[p] <= rank[s]
                    BY <3>4, <3>7, <4>2
                <5> QED
                    BY <2>2, <3>1, <3>7, <5>1, <5>2
            <4>3. CASE ~(rank[p] < rank[b])
                <5>1. Best[m] = b /\ rank[b] <= rank[p]
                    BY <3>3, <3>7, <4>1, <4>3
                <5> QED
                    BY <2>2, <3>1, <3>4, <3>7, <5>1
            <4> QED
                BY <4>2, <4>3
        <3> QED
            BY <3>4, <3>5, <3>6, <3>7
    <2> QED
        BY <2>4, <2>5
<1>5. Fine(NUM_LSQS)
    BY <1>4, Sizes
<1>6. \A s \in entries : s < NUM_LSQS
    BY Sizes DEF Slot
<1> QED
    BY <1>2, <1>5, <1>6

LEMMA OrderOfLive ==
    ASSUME NEW place, IsPlace(place), NEW entries, entries \subseteq Live
    PROVE  /\ entries \in SUBSET Slot /\ entries \subseteq Valid
           /\ \A s \in entries : place[s] \in Int
           /\ \A s, o \in entries : <<s, o>> \in IsYounger <=> place[s] > place[o]
           /\ \A s, o \in entries : <<s, o>> \in IsOlder <=> place[o] > place[s]
<1>1. entries \subseteq Valid
    BY DEF Live
<1>2. entries \in SUBSET Slot
    BY <1>1 DEF Valid
<1>3. \A s \in Live : place[s] \in Int
    BY DEF IsPlace
<1>4. \A s, o \in Live : is_rob_younger(store[s].rob_tag, store[o].rob_tag) <=> place[s] > place[o]
    BY DEF IsPlace
<1> HIDE DEF is_rob_younger, Live
<1>5. \A s, o \in entries : <<s, o>> \in IsYounger <=> is_rob_younger(store[s].rob_tag, store[o].rob_tag)
    BY <1>1 DEF IsYounger
<1>6. \A s, o \in entries : <<s, o>> \in IsOlder <=> is_rob_younger(store[o].rob_tag, store[s].rob_tag)
    BY <1>1 DEF IsOlder
<1> QED
    BY <1>1, <1>2, <1>3, <1>4, <1>5, <1>6

LEMMA YoungestIs ==
    ASSUME NEW place, IsPlace(place), NEW entries, entries \subseteq Live, entries # {}
    PROVE  /\ youngest(entries) \in entries
           /\ \A o \in entries : place[o] <= place[youngest(entries)]
<1> DEFINE rank == [s \in entries |-> -place[s]]
<1>1. /\ entries \in SUBSET Slot
      /\ \A s \in entries : place[s] \in Int
      /\ \A s, o \in entries : <<s, o>> \in IsYounger <=> place[s] > place[o]
    BY OrderOfLive
<1>2. \A s \in entries : rank[s] = -place[s]
    OBVIOUS
<1> HIDE DEF rank
<1>4. \A s, o \in entries : <<s, o>> \in IsYounger <=> rank[s] < rank[o]
    <2> SUFFICES ASSUME NEW s \in entries, NEW o \in entries
                 PROVE  <<s, o>> \in IsYounger <=> rank[s] < rank[o]
        OBVIOUS
    <2>1. place[s] \in Int /\ place[o] \in Int /\ rank[s] = -place[s] /\ rank[o] = -place[o]
        BY <1>1, <1>2
    <2>2. <<s, o>> \in IsYounger <=> place[s] > place[o]
        BY <1>1
    <2>3. place[s] > place[o] <=> rank[s] < rank[o]
        BY <2>1
    <2> QED
        BY <2>2, <2>3
<1>5. \A s \in entries : rank[s] \in Int
    BY <1>1, <1>2
<1>6. /\ youngest(entries) \in entries
      /\ \A o \in entries : rank[youngest(entries)] <= rank[o]
    BY <1>1, <1>4, <1>5, ScanGivesFirst DEF youngest
<1> QED
    BY <1>1, <1>2, <1>6

LEMMA OldestIs ==
    ASSUME NEW place, IsPlace(place), NEW entries, entries \subseteq Live, entries # {}
    PROVE  /\ scan(entries, IsOlder) \in entries
           /\ \A o \in entries : place[scan(entries, IsOlder)] <= place[o]
<1>1. /\ entries \in SUBSET Slot
      /\ \A s \in entries : place[s] \in Int
      /\ \A s, o \in entries : <<s, o>> \in IsOlder <=> place[o] > place[s]
    BY OrderOfLive
<1>3. \A s, o \in entries : <<s, o>> \in IsOlder <=> place[s] < place[o]
    BY <1>1
<1> QED
    BY <1>1, <1>3, ScanGivesFirst

------------------------------------------------------------------------------
(* What the instruction at place k of the window is to read at an address, and
   its result: what memory holds once all that is older has retired. *)
Finds(k, a) == Seen(RetiredMemory, window, k, a)

Wanted(k) == [i \in 0 .. window[k].instr.size - 1 |-> Finds(k, window[k].instr.addr + i)]

(* Only what has completed has a result. *)
ResultInv == \A k \in DOMAIN window : ~window[k].ready => window[k].result = NULL

(* The data in an entry: a store's own, and what a load is to read. *)
DataInv ==
    /\ \A s \in Valid : is_store(store[s].instr) /\ store[s].data # NULL
                            => store[s].data = store[s].instr.data
    /\ \A k \in Owners : is_load(window[k].instr) /\ store[window[k].lsq_idx].data # NULL
                            => store[window[k].lsq_idx].data = Wanted(k)

(* So is what the unit sends. *)
OutputInv ==
    output.valid =>
        \A k \in Owners : output.rob_tag = tag_of(k)
            => output.value = IF is_load(window[k].instr) THEN Wanted(k) ELSE NULL

(* So is what the cache has answered, and will answer when it has served the
   requests before the read. *)
AnswerInv ==
    \A i \in DOMAIN core_rsp, k \in Owners :
        window[k].lsq_idx = core_rsp[i].user => core_rsp[i].data = Wanted(k)
ReadInv ==
    \A j \in ReadsAsked, k \in Owners :
        window[k].lsq_idx = core_req[j].user
            => \A a \in Reach(window[k].instr) : Served(ram, core_req, j, a) = Finds(k, a)

ValueInv == TagInv /\ ResultInv /\ DataInv /\ OutputInv /\ AnswerInv /\ ReadInv

------------------------------------------------------------------------------
(* A byte of memory when the stores that have retired are done: by the last of
   them in the queue, or by the requests. *)
Reaches(s, a) == a \in Reach(store[s].instr)

LastLeft(s, a) ==
    /\ s \in Committed /\ Reaches(s, a)
    /\ \A o \in Committed : Reaches(o, a) => o = s \/ is_rob_younger(store[s].rob_tag, store[o].rob_tag)

LeftBy(a, value) ==
    \/ \E s \in Committed : LastLeft(s, a) /\ value = store[s].instr.data[a - store[s].instr.addr]
    \/ /\ \A s \in Committed : ~Reaches(s, a)
       /\ value = Served(ram, core_req, Len(core_req), a)

LEMMA RetiredIs ==
    OrderInv /\ TagInv =>
        \A a \in Address : \A value : LeftBy(a, value) <=> value = RetiredMemory[a]
<1> SUFFICES ASSUME OrderInv, TagInv, NEW a \in Address, NEW value
             PROVE  LeftBy(a, value) <=> value = RetiredMemory[a]
    OBVIOUS
<1>1. PICK place : IsPlace(place)
    BY Places
<1>2. TypeInv /\ EntryInv
    BY DEF OrderInv, IInv
<1> DEFINE stores == {s \in Committed : a \in Reach(store[s].instr)}
           writes == {i \in DOMAIN core_req : core_req[i].is_write /\ a \in Mem!Reach(core_req[i])}
<1>3. RetiredMemory[a] =
          IF stores # {} THEN LET s == youngest(stores) IN store[s].data[a - store[s].instr.addr]
          ELSE IF writes # {} THEN core_req[Max(writes)].data[a - core_req[Max(writes)].addr]
          ELSE ram[a]
    BY DEF RetiredMemory
<1>4. stores \subseteq Committed /\ Committed \subseteq Live /\ stores \subseteq Live
    BY <1>1 DEF IsPlace
<1>5. \A s \in stores : store[s].data = store[s].instr.data
    <2>1. \A s \in Committed : s \in Valid /\ store[s].state = "Committed"
        BY DEF Committed
    <2> QED
        BY <1>2, <2>1 DEF EntryInv
<1>6. \A s, o \in Live : /\ is_rob_younger(store[s].rob_tag, store[o].rob_tag) <=> place[s] > place[o]
                         /\ place[s] \in Int /\ place[o] \in Int /\ (place[s] = place[o] => s = o)
    BY <1>1 DEF IsPlace
<1>7. \A s \in stores : LastLeft(s, a) <=> \A o \in stores : place[o] <= place[s]
    <2> SUFFICES ASSUME NEW s \in stores
                 PROVE  LastLeft(s, a) <=> \A o \in stores : place[o] <= place[s]
        OBVIOUS
    <2>1. LastLeft(s, a) <=> \A o \in stores : o = s \/ is_rob_younger(store[s].rob_tag, store[o].rob_tag)
        BY DEF LastLeft, Reaches
    <2>2. \A o \in stores : (o = s \/ is_rob_younger(store[s].rob_tag, store[o].rob_tag)) <=> place[o] <= place[s]
        <3> SUFFICES ASSUME NEW o \in stores
                     PROVE  (o = s \/ is_rob_younger(store[s].rob_tag, store[o].rob_tag)) <=> place[o] <= place[s]
            OBVIOUS
        <3> HIDE DEF is_rob_younger
        <3>1. s \in Live /\ o \in Live
            BY <1>4
        <3> HIDE DEF stores
        <3> QED
            BY <1>6, <3>1
    <2> QED
        BY <2>1, <2>2
<1>8. CASE stores # {}
    <2>1. /\ youngest(stores) \in stores
          /\ \A o \in stores : place[o] <= place[youngest(stores)]
        <3> HIDE DEF stores
        <3> QED
            BY <1>1, <1>4, <1>8, YoungestIs
    <2> DEFINE y == youngest(stores)
    <2>2. y \in stores /\ LastLeft(y, a) /\ RetiredMemory[a] = store[y].instr.data[a - store[y].instr.addr]
        BY <1>3, <1>5, <1>7, <1>8, <2>1
    <2>3. \A s \in Committed : LastLeft(s, a) => s = y
        <3> SUFFICES ASSUME NEW s \in Committed, LastLeft(s, a) PROVE s = y
            OBVIOUS
        <3>1. s \in stores
            BY DEF LastLeft, Reaches
        <3>2. place[s] <= place[y] /\ place[y] <= place[s]
            BY <1>7, <2>1, <2>2, <3>1
        <3>3. s \in Live /\ y \in Live
            BY <1>4, <2>2, <3>1
        <3> HIDE DEF y, stores
        <3> QED
            BY <1>6, <3>2, <3>3
    <2>4. ~\A s \in Committed : ~Reaches(s, a)
        BY <1>4, <2>2 DEF Reaches
    <2>5. y \in Committed
        BY <2>2
    <2> HIDE DEF y, stores
    <2> QED
        BY <2>2, <2>3, <2>4, <2>5 DEF LeftBy
<1>9. CASE stores = {}
    <2>1. \A s \in Committed : ~Reaches(s, a)
        BY <1>9 DEF Reaches
    <2>2. RetiredMemory[a] = Served(ram, core_req, Len(core_req), a)
        <3> DEFINE n == Len(core_req)
        <3>1. n \in Nat /\ DOMAIN core_req = 1 .. n
            BY <1>2, ChannelFacts
        <3>2. writes = Asked(core_req, n, a)
            BY <3>1 DEF Asked, Mem!Reach, Reach
        <3>3. writes # {} => Max(writes) \in 1 .. n
            <4>1. writes \subseteq 1 .. n
                BY <3>1
            <4> HIDE DEF writes, n
            <4> QED
                BY <3>1, <4>1, GreatestNumber
        <3> DEFINE byte == [i \in 1 .. n |-> core_req[i].data[a - core_req[i].addr]]
        <3>4. Served(ram, core_req, n, a) = LastOf(writes, byte, ram[a])
            BY <3>2 DEF Served
        <3>5. writes # {} => byte[Max(writes)] = core_req[Max(writes)].data[a - core_req[Max(writes)].addr]
            BY <3>3
        <3> HIDE DEF writes, n, byte
        <3>6. LastOf(writes, byte, ram[a]) = IF writes = {} THEN ram[a] ELSE byte[Max(writes)]
            BY DEF LastOf
        <3> QED
            BY <1>3, <1>9, <3>4, <3>5, <3>6 DEF n
    <2> QED
        BY <2>1, <2>2 DEF LeftBy, LastLeft
<1> QED
    BY <1>8, <1>9

LEMMA RetiredNext ==
    (OrderInv /\ TagInv => \A a \in Address : \A value : LeftBy(a, value) <=> value = RetiredMemory[a])'
<1>1. OrderInv /\ TagInv => \A a \in Address : \A value : LeftBy(a, value) <=> value = RetiredMemory[a]
    BY RetiredIs
<1> QED
    BY <1>1, PTL

LEMMA RetiredThen ==
    ASSUME OrderInv', TagInv', NEW a \in Address, NEW value, LeftBy(a, value)'
    PROVE  RetiredMemory'[a] = value
<1>1. \A x \in Address : \A v : LeftBy(x, v)' <=> v = RetiredMemory'[x]
    BY RetiredNext
<1> HIDE DEF LeftBy, RetiredMemory
<1> QED
    BY <1>1

LEMMA RetiredMap == /\ RetiredMemory = [a \in Address |-> RetiredMemory[a]]
                    /\ RetiredMemory' = [a \in Address |-> RetiredMemory'[a]]
<1>1. RetiredMemory = [a \in Address |-> RetiredMemory[a]]
    BY DEF RetiredMemory
<1>2. (RetiredMemory = [a \in Address |-> RetiredMemory[a]])'
    BY <1>1, PTL
<1> QED
    BY <1>1, <1>2

SameEntry(s) == store'[s].instr = store[s].instr /\ store'[s].rob_tag = store[s].rob_tag

SameServed == \A a \in Address : Served(ram', core_req', Len(core_req'), a) = Served(ram, core_req, Len(core_req), a)

LEMMA RetiredKept ==
    ASSUME OrderInv, TagInv, OrderInv', TagInv', Committed' = Committed, \A s \in Committed : SameEntry(s), SameServed
    PROVE  RetiredMemory' = RetiredMemory
<1>1. ASSUME NEW a \in Address PROVE RetiredMemory'[a] = RetiredMemory[a]
    <2>1. LeftBy(a, RetiredMemory[a])
        <3> HIDE DEF LeftBy, RetiredMemory
        <3> QED
            BY RetiredIs
    <2> DEFINE value == RetiredMemory[a]
    <2> HIDE DEF value, is_rob_younger, RetiredMemory
    <2>2. LeftBy(a, value)
        BY <2>1 DEF value
    <2>3. \A s \in Committed : Reaches(s, a)' <=> Reaches(s, a)
        BY DEF SameEntry, Reaches
    <2>4. \A s \in Committed : LastLeft(s, a) => LastLeft(s, a)'
        BY <2>3 DEF SameEntry, LastLeft
    <2>5. CASE \E s \in Committed : LastLeft(s, a) /\ value = store[s].instr.data[a - store[s].instr.addr]
        <3>1. PICK s \in Committed : LastLeft(s, a) /\ value = store[s].instr.data[a - store[s].instr.addr]
            BY <2>5
        <3>2. s \in Committed' /\ LastLeft(s, a)' /\ value = store'[s].instr.data[a - store'[s].instr.addr]
            BY <2>4, <3>1 DEF SameEntry
        <3> HIDE DEF LastLeft, Committed, Reaches
        <3>3. \A v : v = value => LeftBy(a, v)'
            BY <3>2 DEF LeftBy
        <3> QED
            BY <3>3, RetiredThen DEF value
    <2>6. CASE (\A s \in Committed : ~Reaches(s, a)) /\ value = Served(ram, core_req, Len(core_req), a)
        <3>1. (\A s \in Committed' : ~Reaches(s, a)') /\ value = Served(ram', core_req', Len(core_req'), a)
            BY <2>3, <2>6 DEF SameServed
        <3> HIDE DEF LastLeft, Committed, Reaches
        <3>3. \A v : v = value => LeftBy(a, v)'
            BY <3>1 DEF LeftBy
        <3> QED
            BY <3>3, RetiredThen DEF value
    <2> QED
        BY <2>2, <2>5, <2>6 DEF LeftBy
<1> QED
    BY <1>1, RetiredMap

(* A store goes from the queue to the channel, the oldest first. *)
LEMMA RetiredSent ==
    ASSUME OrderInv, TagInv, OrderInv', TagInv', NEW s \in Committed, Committed' = Committed \ {s},
           \A o \in Committed \ {s} : SameEntry(o) /\ ~is_rob_younger(store[s].rob_tag, store[o].rob_tag),
           \A a \in Address : Served(ram', core_req', Len(core_req'), a) =
               IF Reaches(s, a) THEN store[s].instr.data[a - store[s].instr.addr]
               ELSE Served(ram, core_req, Len(core_req), a)
    PROVE  RetiredMemory' = RetiredMemory
<1>1. ASSUME NEW a \in Address PROVE RetiredMemory'[a] = RetiredMemory[a]
    <2>1. LeftBy(a, RetiredMemory[a])
        <3> HIDE DEF LeftBy, RetiredMemory
        <3> QED
            BY RetiredIs
    <2> DEFINE value == RetiredMemory[a]
               sent == Served(ram', core_req', Len(core_req'), a)
    <2>2. LeftBy(a, value)
        BY <2>1
    <2>s. sent = IF Reaches(s, a) THEN store[s].instr.data[a - store[s].instr.addr]
                 ELSE Served(ram, core_req, Len(core_req), a)
        OBVIOUS
    <2> HIDE DEF value, sent, is_rob_younger, RetiredMemory
    <2>3. \A o \in Committed' : o \in Committed \ {s} /\ (Reaches(o, a)' <=> Reaches(o, a))
        BY DEF SameEntry, Reaches
    <2>4. \A o \in Committed' : LastLeft(o, a) => LastLeft(o, a)'
        BY <2>3 DEF SameEntry, LastLeft
    <2>5. CASE \E o \in Committed : LastLeft(o, a) /\ value = store[o].instr.data[a - store[o].instr.addr]
        <3>1. PICK o \in Committed : LastLeft(o, a) /\ value = store[o].instr.data[a - store[o].instr.addr]
            BY <2>5
        <3>2. CASE o # s
            <4>1. o \in Committed' /\ LastLeft(o, a)' /\ value = store'[o].instr.data[a - store'[o].instr.addr]
                BY <2>4, <3>1, <3>2 DEF SameEntry
            <4> HIDE DEF LastLeft, Committed, Reaches
            <4>2. \A v : v = value => LeftBy(a, v)'
                BY <4>1 DEF LeftBy
            <4> QED
                BY <4>2, RetiredThen DEF value
        <3>3. CASE o = s
            <4>1. \A p \in Committed' : ~Reaches(p, a)'
                BY <2>3, <3>1, <3>3 DEF LastLeft
            <4>2. value = sent
                BY <2>s, <3>1, <3>3 DEF LastLeft
            <4> HIDE DEF LastLeft, Committed, Reaches
            <4>3. \A v : v = value => LeftBy(a, v)'
                BY <4>1, <4>2 DEF LeftBy, sent
            <4> QED
                BY <4>3, RetiredThen DEF value
        <3> QED
            BY <3>2, <3>3
    <2>6. CASE (\A o \in Committed : ~Reaches(o, a)) /\ value = Served(ram, core_req, Len(core_req), a)
        <3>1. (\A o \in Committed' : ~Reaches(o, a)') /\ value = sent
            BY <2>3, <2>6, <2>s
        <3> HIDE DEF LastLeft, Committed, Reaches
        <3>3. \A v : v = value => LeftBy(a, v)'
            BY <3>1 DEF LeftBy, sent
        <3> QED
            BY <3>3, RetiredThen DEF value
    <2> QED
        BY <2>2, <2>5, <2>6 DEF LeftBy
<1> QED
    BY <1>1, RetiredMap

(* A store commits, younger than those before it. *)
LEMMA RetiredCommitted ==
    ASSUME OrderInv, TagInv, OrderInv', TagInv', NEW s, s \notin Committed, Committed' = Committed \cup {s},
           store'[s].instr = store[s].instr, SameServed,
           \A o \in Committed : SameEntry(o) /\ is_rob_younger(store'[s].rob_tag, store[o].rob_tag)
    PROVE  \A a \in Address :
               RetiredMemory'[a] = IF Reaches(s, a) THEN store[s].instr.data[a - store[s].instr.addr]
                                   ELSE RetiredMemory[a]
<1> SUFFICES ASSUME NEW a \in Address
             PROVE  RetiredMemory'[a] = IF Reaches(s, a) THEN store[s].instr.data[a - store[s].instr.addr]
                                        ELSE RetiredMemory[a]
    OBVIOUS
<1>1. LeftBy(a, RetiredMemory[a])
    <2> HIDE DEF LeftBy, RetiredMemory
    <2> QED
        BY RetiredIs
<1> HIDE DEF is_rob_younger, RetiredMemory
<1>2. Reaches(s, a)' <=> Reaches(s, a)
    BY DEF Reaches
<1>3. \A o \in Committed : Reaches(o, a)' <=> Reaches(o, a)
    BY DEF SameEntry, Reaches
<1>4. CASE Reaches(s, a)
    <2> DEFINE value == store[s].instr.data[a - store[s].instr.addr]
    <2>1. s \in Committed' /\ value = store'[s].instr.data[a - store'[s].instr.addr]
        OBVIOUS
    <2>2. LastLeft(s, a)'
        BY <1>2, <1>4 DEF LastLeft, SameEntry
    <2> HIDE DEF value, LastLeft, Committed, Reaches
    <2>3. \A v : v = value => LeftBy(a, v)'
        BY <2>1, <2>2 DEF LeftBy
    <2> QED
        BY <1>4, <2>3, RetiredThen DEF value
<1>5. CASE ~Reaches(s, a)
    <2> DEFINE value == RetiredMemory[a]
    <2> HIDE DEF value
    <2>1. \A o \in Committed : LastLeft(o, a) => LastLeft(o, a)'
        BY <1>2, <1>3, <1>5 DEF SameEntry, LastLeft
    <2>2. LeftBy(a, value)
        BY <1>1 DEF value
    <2>3. CASE \E o \in Committed : LastLeft(o, a) /\ value = store[o].instr.data[a - store[o].instr.addr]
        <3>1. PICK o \in Committed : LastLeft(o, a) /\ value = store[o].instr.data[a - store[o].instr.addr]
            BY <2>3
        <3>2. o \in Committed' /\ LastLeft(o, a)' /\ value = store'[o].instr.data[a - store'[o].instr.addr]
            BY <2>1, <3>1 DEF SameEntry
        <3> HIDE DEF LastLeft, Committed, Reaches
        <3>3. \A v : v = value => LeftBy(a, v)'
            BY <3>2 DEF LeftBy
        <3> QED
            BY <1>5, <3>3, RetiredThen DEF value
    <2>4. CASE (\A o \in Committed : ~Reaches(o, a)) /\ value = Served(ram, core_req, Len(core_req), a)
        <3>1. (\A o \in Committed' : ~Reaches(o, a)') /\ value = Served(ram', core_req', Len(core_req'), a)
            BY <1>2, <1>3, <1>5, <2>4 DEF SameServed
        <3> HIDE DEF LastLeft, Committed, Reaches
        <3>3. \A v : v = value => LeftBy(a, v)'
            BY <3>1 DEF LeftBy
        <3> QED
            BY <1>5, <3>3, RetiredThen DEF value
    <2> QED
        BY <2>2, <2>3, <2>4 DEF LeftBy
<1> QED
    BY <1>4, <1>5

------------------------------------------------------------------------------
(* What an instruction of the window is to read, by the order of the entries. *)
LEMMA OlderStores ==
    ASSUME OrderInv, NEW place, IsPlace(place), NEW k \in Owners, NEW a
    PROVE  /\ k \in Nat \ {0}
           /\ \A j \in Older_stores(window, k, a) :
                 /\ j \in Owners /\ window[j].lsq_idx \in OlderLive(window[k].lsq_idx)
                 /\ place[window[j].lsq_idx] = j /\ j >= 1
                 /\ WritesTo(store[window[j].lsq_idx].instr, a)
                 /\ store[window[j].lsq_idx].instr = window[j].instr
           /\ \A o \in OlderLive(window[k].lsq_idx) \ Committed :
                 /\ place[o] \in Owners /\ place[o] < k /\ window[place[o]].lsq_idx = o
                 /\ window[place[o]].instr = store[o].instr
                 /\ WritesTo(store[o].instr, a) => place[o] \in Older_stores(window, k, a)
<1>1. TypeInv /\ OwnerInv
    BY DEF OrderInv, IInv
<1>2. Owners \subseteq 1 .. Len(window) /\ DOMAIN window = 1 .. Len(window) /\ Len(window) \in Nat
    BY <1>1, WindowFacts
<1>3. k \in Nat \ {0} /\ k <= Len(window)
    BY <1>2
<1>4. ASSUME NEW j \in Older_stores(window, k, a)
      PROVE  /\ j \in Owners /\ window[j].lsq_idx \in OlderLive(window[k].lsq_idx)
             /\ place[window[j].lsq_idx] = j /\ j >= 1
             /\ WritesTo(store[window[j].lsq_idx].instr, a)
             /\ store[window[j].lsq_idx].instr = window[j].instr
    <2>1. j \in 1 .. k - 1 /\ WritesTo(window[j].instr, a)
        BY DEF Older_stores
    <2>2. j \in 1 .. Len(window) /\ j < k /\ j >= 1
        BY <1>2, <1>3, <2>1
    <2>3. j \in Owners
        BY <1>2, <2>1, <2>2 DEF Owners, WritesTo, is_lsu
    <2>4. window[j].lsq_idx \in Live /\ place[window[j].lsq_idx] = j
        BY <2>3 DEF IsPlace
    <2>5. window[j].lsq_idx \in OlderLive(window[k].lsq_idx)
        BY <2>2, <2>4 DEF IsPlace
    <2>6. store[window[j].lsq_idx].instr = window[j].instr
        BY <1>1, <2>3 DEF OwnerInv
    <2> QED
        BY <2>1, <2>2, <2>3, <2>4, <2>5, <2>6
<1>5. ASSUME NEW o \in OlderLive(window[k].lsq_idx) \ Committed
      PROVE  /\ place[o] \in Owners /\ place[o] < k /\ window[place[o]].lsq_idx = o
             /\ window[place[o]].instr = store[o].instr
             /\ WritesTo(store[o].instr, a) => place[o] \in Older_stores(window, k, a)
    <2>1. o \in Live \ Committed /\ place[o] < k
        BY DEF IsPlace
    <2>2. place[o] \in Owners /\ window[place[o]].lsq_idx = o
        BY <2>1 DEF IsPlace
    <2>3. window[place[o]].instr = store[o].instr
        BY <1>1, <2>2 DEF OwnerInv
    <2> DEFINE j == place[o]
    <2>4. j \in Owners /\ j < k
        BY <2>1, <2>2
    <2>5. window[j].instr = store[o].instr
        BY <2>3
    <2> HIDE DEF j
    <2>6. j \in 1 .. k - 1
        BY <1>2, <1>3, <2>4
    <2>7. WritesTo(store[o].instr, a) => j \in Older_stores(window, k, a)
        BY <2>5, <2>6 DEF Older_stores
    <2> QED
        BY <2>1, <2>2, <2>3, <2>7 DEF j
<1> QED
    BY <1>3, <1>4, <1>5

LEMMA FindsFacts ==
    ASSUME NEW k \in Nat \ {0}, NEW a
    PROVE  /\ Older_stores(window, k, a) = {} => Finds(k, a) = RetiredMemory[a]
           /\ \A j \in Older_stores(window, k, a) :
                 (\A i \in Older_stores(window, k, a) : i <= j)
                     => Finds(k, a) = window[j].instr.data[a - window[j].instr.addr]
BY SeenFacts DEF Finds

LEMMA FindsIs ==
    ASSUME OrderInv, TagInv, NEW place, IsPlace(place), NEW k \in Owners, NEW a \in Address
    PROVE  /\ \A o \in OlderLive(window[k].lsq_idx) :
                 /\ WritesTo(store[o].instr, a)
                 /\ \A p \in OlderLive(window[k].lsq_idx) : WritesTo(store[p].instr, a) => place[p] <= place[o]
                 => Finds(k, a) = store[o].instr.data[a - store[o].instr.addr]
           /\ (\A o \in OlderLive(window[k].lsq_idx) : ~WritesTo(store[o].instr, a))
                 => Finds(k, a) = Served(ram, core_req, Len(core_req), a)
<1> DEFINE W == Older_stores(window, k, a)
           s == window[k].lsq_idx
<1>1. EntryInv
    BY DEF OrderInv, IInv
<1>2. /\ k \in Nat \ {0}
      /\ \A j \in W : /\ j \in Owners /\ window[j].lsq_idx \in OlderLive(s)
                      /\ place[window[j].lsq_idx] = j /\ j >= 1
                      /\ WritesTo(store[window[j].lsq_idx].instr, a)
      /\ \A o \in OlderLive(s) \ Committed : /\ place[o] \in Owners /\ window[place[o]].lsq_idx = o
                                         /\ window[place[o]].instr = store[o].instr
                                         /\ WritesTo(store[o].instr, a) => place[o] \in W
    BY OlderStores
<1>3. \A o \in OlderLive(s) \ Committed : window[place[o]].instr = store[o].instr
    BY OlderStores
<1>4. \A o \in OlderLive(s) \ Committed : WritesTo(store[o].instr, a) => place[o] \in W
    BY OlderStores
<1>5. /\ W = {} => Finds(k, a) = RetiredMemory[a]
      /\ \A j \in W : (\A i \in W : i <= j)
            => Finds(k, a) = window[j].instr.data[a - window[j].instr.addr]
    BY <1>2, FindsFacts
<1>6. \A o \in Committed : o \in OlderLive(s) /\ place[o] <= 0 /\ is_store(store[o].instr) /\ o \in Live
    <2>1. \A o \in Committed : o \in Valid /\ store[o].state = "Committed"
        BY DEF Committed
    <2>2. \A o \in Committed : is_store(store[o].instr)
        BY <1>1, <2>1 DEF EntryInv
    <2>3. \A o \in Committed : o \in Live /\ place[o] <= 0
        BY DEF IsPlace
    <2>4. \A o \in Committed : place[o] \in Int /\ place[o] < k
        BY <1>2, <2>3 DEF IsPlace
    <2>5. \A o \in Committed : o \in OlderLive(s)
        BY <2>3, <2>4 DEF IsPlace
    <2> QED
        BY <2>2, <2>3, <2>5
<1>7. \A o \in Committed : Reaches(o, a) <=> WritesTo(store[o].instr, a)
    BY <1>6 DEF Reaches, WritesTo
<1>8. \A v : LeftBy(a, v) => RetiredMemory[a] = v
    <2> HIDE DEF LeftBy, RetiredMemory
    <2> QED
        BY RetiredIs
<1> HIDE DEF W, s
<1>9. ASSUME NEW o \in OlderLive(s), WritesTo(store[o].instr, a),
             \A p \in OlderLive(s) : WritesTo(store[p].instr, a) => place[p] <= place[o]
      PROVE  Finds(k, a) = store[o].instr.data[a - store[o].instr.addr]
    <2>1. CASE o \notin Committed
        <3>1. place[o] \in W /\ window[place[o]].instr = store[o].instr
            <4>1. o \in OlderLive(s) \ Committed
                BY <1>9, <2>1
            <4>2. WritesTo(store[o].instr, a)
                BY <1>9
            <4> HIDE DEF s
            <4>3. window[place[o]].instr = store[o].instr
                BY <1>3, <4>1
            <4>4. WritesTo(store[o].instr, a) => place[o] \in W
                BY <1>4, <4>1
            <4> QED
                BY <4>2, <4>3, <4>4
        <3>2. \A i \in W : i <= place[o]
            BY <1>2, <1>9
        <3> QED
            BY <1>5, <3>1, <3>2
    <2>2. CASE o \in Committed
        <3>1. W = {}
            <4> SUFFICES ASSUME NEW j \in W PROVE FALSE
                OBVIOUS
            <4>1. place[window[j].lsq_idx] = j /\ j >= 1 /\ j <= place[o]
                BY <1>2, <1>9
            <4>2. place[o] <= 0 /\ place[o] \in Int /\ j \in Int
                <5>1. j \in Owners
                    BY <1>2
                <5>2. j \in Int
                    BY <5>1, WindowFacts DEF OrderInv, IInv
                <5>3. place[o] \in Int
                    BY <1>6, <2>2 DEF IsPlace
                <5> QED
                    BY <1>6, <2>2, <5>2, <5>3
            <4> QED
                BY <4>1, <4>2
        <3>2. LastLeft(o, a)
            <4> SUFFICES ASSUME NEW p \in Committed, Reaches(p, a), p # o
                         PROVE  is_rob_younger(store[o].rob_tag, store[p].rob_tag)
                BY <1>7, <1>9, <2>2 DEF LastLeft
            <4>1. place[p] <= place[o] /\ p \in Live /\ o \in Live
                BY <1>6, <1>7, <1>9, <2>2
            <4>2. place[p] # place[o] /\ place[p] \in Int /\ place[o] \in Int
                BY <4>1 DEF IsPlace
            <4>3. is_rob_younger(store[o].rob_tag, store[p].rob_tag) <=> place[o] > place[p]
                BY <4>1 DEF IsPlace
            <4> HIDE DEF is_rob_younger
            <4> QED
                BY <4>1, <4>2, <4>3
        <3>3. RetiredMemory[a] = store[o].instr.data[a - store[o].instr.addr]
            <4> DEFINE v == store[o].instr.data[a - store[o].instr.addr]
            <4>1. LeftBy(a, v)
                BY <2>2, <3>2, Zenon DEF LeftBy
            <4> HIDE DEF v, LeftBy, RetiredMemory
            <4>2. RetiredMemory[a] = v
                BY <1>8, <4>1
            <4> QED
                BY <4>2 DEF v
        <3> QED
            BY <1>5, <3>1, <3>3
    <2> QED
        BY <2>1, <2>2
<1>10. ASSUME \A o \in OlderLive(s) : ~WritesTo(store[o].instr, a)
      PROVE  Finds(k, a) = Served(ram, core_req, Len(core_req), a)
    <2>1. W = {}
        BY <1>2, <1>10
    <2>2. \A o \in Committed : ~Reaches(o, a)
        BY <1>6, <1>7, <1>10
    <2> DEFINE v == Served(ram, core_req, Len(core_req), a)
    <2>3. LeftBy(a, v)
        BY <2>2 DEF LeftBy
    <2> HIDE DEF v, LeftBy, RetiredMemory
    <2>4. RetiredMemory[a] = v
        BY <1>8, <2>3
    <2> QED
        BY <1>5, <2>1, <2>4 DEF v
<1> QED
    BY <1>9, <1>10 DEF s

LEMMA FindsAlike ==
    ASSUME OrderInv, NEW place, IsPlace(place), NEW k \in Owners, NEW j \in Owners, j < k, NEW a,
           \A o \in OlderLive(window[k].lsq_idx) : WritesTo(store[o].instr, a) => place[o] < j
    PROVE  Finds(k, a) = Finds(j, a)
<1> DEFINE W == Older_stores(window, k, a)
           V == Older_stores(window, j, a)
<1>1. k \in Nat \ {0} /\ j \in Nat \ {0}
    BY OlderStores
<1>2. \A i \in W : i < j
    BY OlderStores
<1>3. W = V
    BY <1>1, <1>2 DEF Older_stores
<1>4. /\ W = {} => Finds(k, a) = RetiredMemory[a]
      /\ \A m \in W : (\A i \in W : i <= m)
            => Finds(k, a) = window[m].instr.data[a - window[m].instr.addr]
    BY <1>1, FindsFacts
<1>6. W # {} => \E m \in W : \A i \in W : i <= m
    <2> DEFINE n == k - 1
    <2>1. n \in Nat /\ W \subseteq 1 .. n
        BY <1>1 DEF Older_stores
    <2> HIDE DEF n, W
    <2> QED
        BY <2>1, GreatestNumber
<1>5. /\ V = {} => Finds(j, a) = RetiredMemory[a]
      /\ \A m \in V : (\A i \in V : i <= m)
            => Finds(j, a) = window[m].instr.data[a - window[m].instr.addr]
    BY <1>1, FindsFacts
<1> HIDE DEF W, V
<1> QED
    BY <1>3, <1>4, <1>5, <1>6

------------------------------------------------------------------------------
(* A step that retires nothing: what is in flight is to read what it was. *)
Steady ==
    /\ RetiredMemory' = RetiredMemory /\ head_tag' = head_tag
    /\ \A j \in DOMAIN window \cap DOMAIN window' : window'[j].instr = window[j].instr

LEMMA FindsKept ==
    ASSUME NEW k \in Nat \ {0}, NEW a, RetiredMemory' = RetiredMemory,
           \A j \in 1 .. k - 1 : window'[j].instr = window[j].instr
    PROVE  Finds(k, a)' = Finds(k, a)
<1> DEFINE memory == RetiredMemory
           after == RetiredMemory'
           other == window'
<1>1. after[a] = memory[a] /\ \A j \in 1 .. k - 1 : other[j].instr = window[j].instr
    OBVIOUS
<1> HIDE DEF memory, after, other
<1>2. Seen(after, other, k, a) = Seen(memory, window, k, a)
    BY <1>1, SeenFacts
<1> QED
    BY <1>2 DEF Finds, memory, after, other

LEMMA StillWanted ==
    ASSUME OrderInv, OrderInv', Steady, NEW k \in Owners' \cap DOMAIN window
    PROVE  /\ k \in Owners /\ window'[k].instr = window[k].instr /\ tag_of(k)' = tag_of(k)
           /\ Wanted(k)' = Wanted(k) /\ \A a : Finds(k, a)' = Finds(k, a)
<1>1. window \in Seq(InFlight) /\ window' \in Seq(InFlight)
    BY DEF OrderInv, IInv, TypeInv
<1>2. k \in DOMAIN window /\ k \in DOMAIN window' /\ is_lsu(window'[k].instr)
    BY DEF Owners
<1>3. k \in Nat \ {0} /\ \A j \in 1 .. k : j \in DOMAIN window /\ j \in DOMAIN window'
    BY <1>1, <1>2
<1>4. \A j \in 1 .. k : window'[j].instr = window[j].instr
    BY <1>3 DEF Steady
<1>5. k \in Owners /\ window'[k].instr = window[k].instr
    BY <1>2, <1>3, <1>4 DEF Owners
<1>6. \A a : Finds(k, a)' = Finds(k, a)
    <2> SUFFICES ASSUME NEW a PROVE Finds(k, a)' = Finds(k, a)
        OBVIOUS
    <2>1. RetiredMemory' = RetiredMemory /\ \A j \in 1 .. k - 1 : window'[j].instr = window[j].instr
        BY <1>3, <1>4 DEF Steady
    <2> HIDE DEF Finds, RetiredMemory
    <2> QED
        BY <1>3, <2>1, FindsKept
<1>7. Wanted(k)' = Wanted(k)
    <2> HIDE DEF Finds
    <2> QED
        BY <1>5, <1>6 DEF Wanted
<1>8. tag_of(k)' = tag_of(k)
    BY DEF Steady, tag_of
<1> QED
    BY <1>5, <1>6, <1>7, <1>8

LEMMA TagKept ==
    ASSUME TagInv, Committed' \subseteq Committed, \A s \in Committed' : store'[s].rob_tag = store[s].rob_tag
    PROVE  TagInv'
BY DEF TagInv

(* What may change besides: an entry gets its data, or the unit, the cache or
   a read its value. *)
GetsData ==
    \A s \in Valid' :
        \/ s \in Valid /\ store'[s].data = store[s].data /\ store'[s].instr = store[s].instr
        \/ store'[s].data = NULL
        \/ is_store(store'[s].instr) /\ ~is_load(store'[s].instr) /\ store'[s].data = store'[s].instr.data
        \/ /\ is_load(store'[s].instr) /\ ~is_store(store'[s].instr)
           /\ \A k \in Owners' : window'[k].lsq_idx = s => store'[s].data = Wanted(k)'

KeepsSlots ==
    /\ \A k \in Owners' \cap DOMAIN window : window'[k].lsq_idx = window[k].lsq_idx
    /\ \A k \in Owners' \ DOMAIN window : window'[k].lsq_idx \notin Valid

GetsOutput ==
    output'.valid =>
        \/ output' = output
        \/ \A k \in Owners' : output'.rob_tag = tag_of(k)'
               => output'.value = IF is_load(window'[k].instr) THEN Wanted(k)' ELSE NULL

GetsAnswer ==
    \A i \in DOMAIN core_rsp' :
        \/ \E j \in DOMAIN core_rsp : core_rsp'[i] = core_rsp[j]
        \/ \A k \in Owners' : window'[k].lsq_idx = core_rsp'[i].user => core_rsp'[i].data = Wanted(k)'

GetsRead ==
    \A j \in ReadsAsked' :
        \/ \E i \in ReadsAsked :
               /\ core_req'[j].user = core_req[i].user
               /\ \A a \in Address : Served(ram', core_req', j, a) = Served(ram, core_req, i, a)
        \/ \A k \in Owners' : window'[k].lsq_idx = core_req'[j].user
               => \A a \in Reach(window'[k].instr) : Served(ram', core_req', j, a) = Finds(k, a)'

LEMMA ValueKept ==
    ASSUME OrderInv, OrderInv', ValueInv, TagInv', ResultInv', Steady,
           KeepsSlots, GetsData, GetsOutput, GetsAnswer, GetsRead
    PROVE  ValueInv'
<1>1. TypeInv /\ OwnerInv /\ UnitInv /\ ChannelInv /\ TypeInv' /\ OwnerInv'
    BY DEF OrderInv, IInv
<1>2. \A k \in Owners' \cap DOMAIN window :
          /\ k \in Owners /\ window'[k].instr = window[k].instr /\ tag_of(k)' = tag_of(k)
          /\ Wanted(k)' = Wanted(k) /\ \A a : Finds(k, a)' = Finds(k, a)
          /\ window'[k].lsq_idx = window[k].lsq_idx
    <2> HIDE DEF Finds, Wanted
    <2> QED
        BY StillWanted DEF KeepsSlots
<1>3. \A k \in Owners' : k \notin DOMAIN window => window'[k].lsq_idx \notin Valid
    BY DEF KeepsSlots
<1>4. \A k \in Owners' : window'[k].lsq_idx \in Valid' /\ store'[window'[k].lsq_idx].instr = window'[k].instr
    BY <1>1 DEF OwnerInv
<1>5. Waits \subseteq Valid
    BY DEF Waits
<1>6. \A k \in Owners' : is_lsu(window'[k].instr) /\ Reach(window'[k].instr) \subseteq Address
    <2>1. \A k \in Owners' : window'[k].instr \in Loads \cup Stores
        <3>1. \A k \in Owners' : k \in DOMAIN window' /\ is_lsu(window'[k].instr)
            BY DEF Owners
        <3>2. window' \in Seq(InFlight)
            BY <1>1 DEF TypeInv
        <3>3. \A k \in DOMAIN window' : window'[k] \in InFlight
            BY <3>2
        <3>4. \A entry \in InFlight : entry.instr \in Instr
            BY DEF InFlight
        <3> QED
            BY <3>1, <3>3, <3>4, InstrFacts
    <2> QED
        BY <2>1, InstrFacts
<1> HIDE DEF Finds, Wanted, OrderInv, IInv, Reach
<1>7. DataInv'
    <2>1. ASSUME NEW s \in Valid', is_store(store'[s].instr), store'[s].data # NULL
          PROVE  store'[s].data = store'[s].instr.data
        BY <2>1 DEF GetsData, ValueInv, DataInv
    <2>2. ASSUME NEW k \in Owners', is_load(window'[k].instr), store'[window'[k].lsq_idx].data # NULL
          PROVE  store'[window'[k].lsq_idx].data = Wanted(k)'
        <3> DEFINE s == window'[k].lsq_idx
        <3>1. s \in Valid' /\ store'[s].instr = window'[k].instr
            BY <1>4
        <3>2. CASE is_store(store'[s].instr) /\ ~is_load(store'[s].instr)
            BY <2>2, <3>1, <3>2
        <3>3. CASE \A j \in Owners' : window'[j].lsq_idx = s => store'[s].data = Wanted(j)'
            BY <3>3
        <3>4. CASE s \in Valid /\ store'[s].data = store[s].data /\ store'[s].instr = store[s].instr
            <4>1. k \in DOMAIN window
                BY <1>3, <3>4
            <4>2. k \in Owners /\ Wanted(k)' = Wanted(k) /\ window[k].lsq_idx = s /\ window[k].instr = window'[k].instr
                BY <1>2, <4>1
            <4>3. store[s].data = Wanted(k)
                BY <2>2, <3>4, <4>2 DEF ValueInv, DataInv
            <4> QED
                BY <3>4, <4>2, <4>3
        <3> QED
            BY <2>2, <3>1, <3>2, <3>3, <3>4 DEF GetsData
    <2> QED
        BY <2>1, <2>2 DEF DataInv
<1>8. OutputInv'
    <2> SUFFICES ASSUME output'.valid, NEW k \in Owners', output'.rob_tag = tag_of(k)'
                 PROVE  output'.value = IF is_load(window'[k].instr) THEN Wanted(k)' ELSE NULL
        BY DEF OutputInv
    <2>1. CASE output' = output
        <3>1. PICK j \in Owners : output.rob_tag = tag_of(j)
            BY <1>1, <2>1 DEF UnitInv
        <3>2. j = k
            <4>1. head_tag \in Tag /\ head_tag' = head_tag /\ j \in 1 .. 2 * ROB_SIZE /\ k \in 1 .. 2 * ROB_SIZE
                <5>1. j \in 1 .. ROB_SIZE
                    BY <1>1, WindowFacts
                <5>2. k \in DOMAIN window' /\ window' \in Seq(InFlight) /\ Len(window') <= WINDOW
                    BY <1>1 DEF TypeInv, Owners
                <5>3. k \in 1 .. ROB_SIZE
                    BY <5>2, Sizes
                <5> QED
                    BY <1>1, <5>1, <5>3, Sizes DEF TypeInv, Steady
            <4>2. tag_of(k)' = tag_of(k)
                BY <4>1 DEF tag_of
            <4> HIDE DEF tag_of
            <4> QED
                BY <2>1, <3>1, <4>1, <4>2, TagsOf
        <3>3. k \in DOMAIN window
            BY <1>1, <3>2, WindowFacts
        <3> QED
            BY <1>2, <2>1, <3>3 DEF ValueInv, OutputInv
    <2> QED
        BY <2>1 DEF GetsOutput
<1>9. AnswerInv'
    <2> SUFFICES ASSUME NEW i \in DOMAIN core_rsp', NEW k \in Owners', window'[k].lsq_idx = core_rsp'[i].user
                 PROVE  core_rsp'[i].data = Wanted(k)'
        BY DEF AnswerInv
    <2>1. CASE \E j \in DOMAIN core_rsp : core_rsp'[i] = core_rsp[j]
        <3>1. PICK j \in DOMAIN core_rsp : core_rsp'[i] = core_rsp[j]
            BY <2>1
        <3>2. core_rsp[j].user \in Valid
            BY <1>1, <1>5 DEF ChannelInv
        <3>3. k \in DOMAIN window
            BY <1>3, <3>1, <3>2
        <3> QED
            BY <1>2, <3>1, <3>3 DEF ValueInv, AnswerInv
    <2> QED
        BY <2>1 DEF GetsAnswer
<1>10. ReadInv'
    <2> SUFFICES ASSUME NEW j \in ReadsAsked', NEW k \in Owners', window'[k].lsq_idx = core_req'[j].user,
                        NEW a \in Reach(window'[k].instr)
                 PROVE  Served(ram', core_req', j, a) = Finds(k, a)'
        BY DEF ReadInv
    <2>1. CASE \E i \in ReadsAsked :
                   /\ core_req'[j].user = core_req[i].user
                   /\ \A b \in Address : Served(ram', core_req', j, b) = Served(ram, core_req, i, b)
        <3>1. PICK i \in ReadsAsked :
                   /\ core_req'[j].user = core_req[i].user
                   /\ \A b \in Address : Served(ram', core_req', j, b) = Served(ram, core_req, i, b)
            BY <2>1
        <3>2. core_req[i].user \in Valid
            BY <1>1, <1>5 DEF ChannelInv
        <3>3. k \in DOMAIN window
            BY <1>3, <3>1, <3>2
        <3>4. k \in Owners /\ window[k].lsq_idx = core_req[i].user /\ a \in Reach(window[k].instr)
            BY <1>2, <3>1, <3>3
        <3>5. Served(ram, core_req, i, a) = Finds(k, a)
            BY <3>4 DEF ValueInv, ReadInv
        <3> QED
            BY <1>2, <1>6, <3>1, <3>3, <3>5
    <2> QED
        BY <2>1 DEF GetsRead
<1> QED
    BY <1>7, <1>8, <1>9, <1>10 DEF ValueInv

------------------------------------------------------------------------------
(* The window as the specification of loads and stores has it. *)
Item == [instr : Instr, ready : BOOLEAN, result : Value]

ItemOf(entry) == [instr |-> entry.instr, ready |-> entry.ready, result |-> entry.result]

LEMMA ResultsFacts ==
    TypeInv => /\ Results \in Seq(Item) /\ Len(Results) = Len(window)
               /\ DOMAIN Results = 1 .. Len(window) /\ Len(window) \in Nat
               /\ window \in Seq(InFlight)
               /\ \A k \in 1 .. Len(window) : Results[k] = ItemOf(window[k])
<1> SUFFICES ASSUME TypeInv
             PROVE  /\ Results \in Seq(Item) /\ Len(Results) = Len(window)
                    /\ DOMAIN Results = 1 .. Len(window) /\ Len(window) \in Nat
                    /\ window \in Seq(InFlight)
                    /\ \A k \in 1 .. Len(window) : Results[k] = ItemOf(window[k])
    OBVIOUS
<1> DEFINE n == Len(window)
<1>1. window \in Seq(InFlight) /\ n \in Nat /\ DOMAIN window = 1 .. n
    BY DEF TypeInv
<1>2. Results = [k \in 1 .. n |-> ItemOf(window[k])]
    BY <1>1 DEF Results, ItemOf
<1>3. \A k \in 1 .. n : ItemOf(window[k]) \in Item
    <2>1. \A k \in 1 .. n : window[k] \in InFlight
        BY <1>1
    <2>2. \A entry \in InFlight : ItemOf(entry) \in Item
        BY DEF InFlight, Item, ItemOf
    <2> QED
        BY <2>1, <2>2
<1> HIDE DEF n, Item, ItemOf, Results
<1>4. Results \in [1 .. n -> Item]
    BY <1>2, <1>3
<1>5. Results \in Seq(Item) /\ Len(Results) = n
    BY <1>1, <1>4
<1> QED
    BY <1>1, <1>2, <1>5 DEF n

LEMMA ResultsNext ==
    TypeInv' => /\ Results' \in Seq(Item) /\ Len(Results') = Len(window')
                /\ DOMAIN Results' = 1 .. Len(window') /\ Len(window') \in Nat
                /\ window' \in Seq(InFlight)
                /\ \A k \in 1 .. Len(window') : Results'[k] = ItemOf(window'[k])
<1>1. TypeInv => /\ Results \in Seq(Item) /\ Len(Results) = Len(window)
                 /\ DOMAIN Results = 1 .. Len(window) /\ Len(window) \in Nat
                 /\ window \in Seq(InFlight)
                 /\ \A k \in 1 .. Len(window) : Results[k] = ItemOf(window[k])
    BY ResultsFacts
<1>2. (TypeInv => /\ Results \in Seq(Item) /\ Len(Results) = Len(window)
                  /\ DOMAIN Results = 1 .. Len(window) /\ Len(window) \in Nat
                  /\ window \in Seq(InFlight)
                  /\ \A k \in 1 .. Len(window) : Results[k] = ItemOf(window[k]))'
    BY <1>1, PTL
<1> QED
    BY <1>2

LEMMA SeenByIs ==
    ASSUME TypeInv, NEW k \in DOMAIN window, NEW a \in Address
    PROVE  Order!SeenBy(k, a) = Finds(k, a)
<1> DEFINE stores == {j \in 1 .. k - 1 : Order!Writes(Results[j].instr, a)}
           W == Older_stores(window, k, a)
           byte == [j \in 1 .. k - 1 |-> window[j].instr.data[a - window[j].instr.addr]]
           n == k - 1
<1>1. k \in Nat \ {0} /\ n \in Nat /\ \A j \in 1 .. n : Results[j].instr = window[j].instr
    <2>1. k \in 1 .. Len(window) /\ Len(window) \in Nat
        BY DEF TypeInv
    <2>2. \A j \in 1 .. n : j \in 1 .. Len(window)
        BY <2>1
    <2> QED
        BY <2>1, <2>2, ResultsFacts DEF ItemOf
<1>2. stores = W
    BY <1>1 DEF Older_stores, WritesTo, is_store, Reach, Order!Writes
<1>3. Finds(k, a) = LastOf(W, byte, RetiredMemory[a])
    BY DEF Finds, Seen
<1>4. Order!SeenBy(k, a) = IF stores = {} THEN RetiredMemory[a]
                           ELSE Order!ByteOf(Results[Max(stores)].instr, a)
    BY DEF Order!SeenBy, Order!Max, Max
<1>5. CASE W = {}
    BY <1>2, <1>3, <1>4, <1>5 DEF LastOf
<1>6. CASE W # {}
    <2>1. W \subseteq 1 .. n
        BY DEF Older_stores
    <2>2. Max(W) \in 1 .. n
        <3> HIDE DEF W, n
        <3> QED
            BY <1>1, <1>6, <2>1, GreatestNumber
    <2> DEFINE m == Max(W)
    <2>3. byte[m] = window[m].instr.data[a - window[m].instr.addr]
        BY <2>2
    <2>4. Order!ByteOf(Results[m].instr, a) = window[m].instr.data[a - window[m].instr.addr]
        BY <1>1, <2>2 DEF Order!ByteOf
    <2> HIDE DEF W, stores, byte
    <2> QED
        BY <1>2, <1>3, <1>4, <1>6, <2>3, <2>4 DEF LastOf
<1> QED
    BY <1>5, <1>6

LEMMA ResultOfIs ==
    ASSUME TypeInv, NEW k \in DOMAIN window
    PROVE  Order!ResultOf(k) = IF is_load(window[k].instr) THEN Wanted(k) ELSE NULL
<1>1. k \in 1 .. Len(window) /\ window[k] \in InFlight
    BY DEF TypeInv
<1>2. Results[k].instr = window[k].instr
    BY <1>1, ResultsFacts DEF ItemOf
<1>3. CASE is_load(window[k].instr)
    <2>1. window[k].instr \in Loads
        BY <1>1, <1>3 DEF InFlight, Loads
    <2>2. /\ window[k].instr.addr \in Int /\ window[k].instr.size \in Nat \ {0}
          /\ Reach(window[k].instr) \subseteq Address
        BY <2>1, InstrFacts
    <2> DEFINE addr == window[k].instr.addr
               size == window[k].instr.size
    <2>3. \A i \in 0 .. size - 1 : addr + i \in Address
        BY <2>2 DEF Reach
    <2>4. \A i \in 0 .. size - 1 : Order!SeenBy(k, addr + i) = Finds(k, addr + i)
        <3> SUFFICES ASSUME NEW i \in 0 .. size - 1
                     PROVE  Order!SeenBy(k, addr + i) = Finds(k, addr + i)
            OBVIOUS
        <3> DEFINE a == addr + i
        <3>1. a \in Address
            BY <2>3
        <3> HIDE DEF a
        <3>2. Order!SeenBy(k, a) = Finds(k, a)
            BY <3>1, SeenByIs
        <3> QED
            BY <3>2 DEF a
    <2>5. Order!ResultOf(k) = [i \in 0 .. size - 1 |-> Order!SeenBy(k, addr + i)]
        BY <1>2, <1>3 DEF Order!ResultOf, is_load
    <2> HIDE DEF Order!SeenBy, Finds
    <2> QED
        BY <1>3, <2>4, <2>5 DEF Wanted
<1>4. CASE ~is_load(window[k].instr)
    BY <1>2, <1>4 DEF Order!ResultOf, is_load
<1> QED
    BY <1>3, <1>4

(* What an action does to the window is a step of that specification, or none. *)
LEMMA MapsSame ==
    ASSUME TypeInv, TypeInv', Len(window') = Len(window),
           \A k \in 1 .. Len(window) : ItemOf(window'[k]) = ItemOf(window[k])
    PROVE  Results' = Results
<1>1. /\ Results \in Seq(Item) /\ Len(Results) = Len(window)
      /\ \A k \in 1 .. Len(window) : Results[k] = ItemOf(window[k])
    BY ResultsFacts
<1>2. /\ Results' \in Seq(Item) /\ Len(Results') = Len(window')
      /\ \A k \in 1 .. Len(window') : Results'[k] = ItemOf(window'[k])
    BY ResultsNext
<1>3. \A k \in 1 .. Len(Results) : Results[k] = Results'[k]
    BY <1>1, <1>2
<1> HIDE DEF Results, Item
<1> QED
    BY <1>1, <1>2, <1>3, SeqEqual

LEMMA MapsIssue ==
    ASSUME TypeInv, TypeInv', NEW instr \in Instr, Len(window) < WINDOW, RetiredMemory' = RetiredMemory,
           NEW entry, window' = Append(window, entry),
           ItemOf(entry) = [instr |-> instr, ready |-> FALSE, result |-> NULL]
    PROVE  Order!Issue(instr)
<1> DEFINE item == [instr |-> instr, ready |-> FALSE, result |-> NULL]
           n == Len(window)
<1>1. /\ Results \in Seq(Item) /\ Len(Results) = n /\ n \in Nat /\ window \in Seq(InFlight)
      /\ \A k \in 1 .. n : Results[k] = ItemOf(window[k])
    BY ResultsFacts
<1>2. /\ Results' \in Seq(Item) /\ Len(Results') = Len(window')
      /\ \A k \in 1 .. Len(window') : Results'[k] = ItemOf(window'[k])
    BY ResultsNext
<1>3. Len(window') = n + 1 /\ window'[n + 1] = entry /\ \A k \in 1 .. n : window'[k] = window[k]
    BY <1>1
<1>4. item \in Item
    BY DEF Item, Value
<1>5. ItemOf(entry) = item
    OBVIOUS
<1> HIDE DEF Results, Item, item, n, ItemOf
<1>6. /\ Append(Results, item) \in Seq(Item) /\ Len(Append(Results, item)) = n + 1
      /\ Append(Results, item)[n + 1] = item
      /\ \A k \in 1 .. n : Append(Results, item)[k] = Results[k]
    BY <1>1, <1>4
<1>7. \A k \in 1 .. n + 1 : k = n + 1 \/ k \in 1 .. n
    BY <1>1
<1>8. \A k \in 1 .. Len(Results') : Results'[k] = Append(Results, item)[k]
    BY <1>1, <1>2, <1>3, <1>5, <1>6, <1>7
<1>9. Results' = Append(Results, item)
    BY <1>2, <1>3, <1>6, <1>8, SeqEqual
<1>10. Len(Results) < ROB_SIZE
    BY <1>1, Sizes DEF n
<1> QED
    BY <1>9, <1>10 DEF Order!Issue, item

Done(k) == [instr |-> window[k].instr, ready |-> TRUE, result |-> Order!ResultOf(k)]

LEMMA CompletedIs ==
    ASSUME TypeInv, NEW k \in DOMAIN window
    PROVE  /\ DOMAIN Order!Completed(k) = 1 .. Len(window)
           /\ Order!Completed(k)[k] = Done(k)
           /\ \A j \in 1 .. Len(window) : j # k => Order!Completed(k)[j] = ItemOf(window[j])
<1> DEFINE n == Len(window)
           result == Order!ResultOf(k)
<1>1. /\ Results \in Seq(Item) /\ Len(Results) = n /\ n \in Nat /\ DOMAIN Results = 1 .. n
      /\ k \in 1 .. n
      /\ \A j \in 1 .. n : Results[j] = ItemOf(window[j])
    BY ResultsFacts DEF TypeInv
<1>2. Order!Completed(k) = [Results EXCEPT ![k].ready = TRUE, ![k].result = result]
    BY DEF Order!Completed
<1> HIDE DEF result, n, Results
<1> HIDE DEF Done
<1>3. /\ DOMAIN Order!Completed(k) = DOMAIN Results
      /\ Order!Completed(k)[k] = [Results[k] EXCEPT !.ready = TRUE, !.result = result]
      /\ \A j \in DOMAIN Results : j # k => Order!Completed(k)[j] = Results[j]
    BY <1>1, <1>2
<1>4. Results[k] = ItemOf(window[k])
    BY <1>1
<1>5. Order!Completed(k)[k] = Done(k)
    <2> DEFINE item == ItemOf(window[k])
               after == [item EXCEPT !.ready = TRUE, !.result = result]
               done == Done(k)
               Names == {"instr", "ready", "result"}
    <2>1. /\ after["instr"] = done["instr"] /\ after["ready"] = done["ready"]
          /\ after["result"] = done["result"]
        BY DEF ItemOf, Done, result
    <2>2. after = [name \in Names |-> after[name]]
        BY DEF ItemOf
    <2>3. done = [name \in Names |-> done[name]]
        BY DEF Done
    <2>4. Order!Completed(k)[k] = after
        BY <1>3, <1>4
    <2> HIDE DEF after, done
    <2>5. [name \in Names |-> after[name]] = [name \in Names |-> done[name]]
        BY <2>1
    <2> QED
        BY <2>2, <2>3, <2>4, <2>5 DEF done
<1> QED
    BY <1>1, <1>3, <1>5 DEF n

LEMMA MapsComplete ==
    ASSUME TypeInv, TypeInv', NEW k \in DOMAIN window, ~window[k].ready, RetiredMemory' = RetiredMemory,
           Len(window') = Len(window),
           \A j \in 1 .. Len(window) : j # k => ItemOf(window'[j]) = ItemOf(window[j]),
           ItemOf(window'[k]) = Done(k)
    PROVE  k \in DOMAIN Results /\ Order!Complete(k)
<1>1. /\ Results \in Seq(Item) /\ Len(Results) = Len(window) /\ Len(window) \in Nat
      /\ k \in 1 .. Len(window) /\ DOMAIN Results = 1 .. Len(window)
      /\ \A j \in 1 .. Len(window) : Results[j] = ItemOf(window[j])
    BY ResultsFacts DEF TypeInv
<1>2. /\ Results' \in Seq(Item) /\ DOMAIN Results' = 1 .. Len(window')
      /\ \A j \in 1 .. Len(window') : Results'[j] = ItemOf(window'[j])
    BY ResultsNext
<1>3. /\ DOMAIN Order!Completed(k) = 1 .. Len(window)
      /\ Order!Completed(k)[k] = Done(k)
      /\ \A j \in 1 .. Len(window) : j # k => Order!Completed(k)[j] = ItemOf(window[j])
    BY CompletedIs
<1>4. ~Results[k].ready
    BY <1>1 DEF ItemOf
<1>f. /\ Results' = [j \in DOMAIN Results' |-> Results'[j]]
      /\ Order!Completed(k) = [j \in DOMAIN Order!Completed(k) |-> Order!Completed(k)[j]]
    <2>1. Results' = [j \in DOMAIN Results' |-> Results'[j]]
        BY <1>2
    <2>2. Order!Completed(k) = [j \in DOMAIN Order!Completed(k) |-> Order!Completed(k)[j]]
        BY <1>1 DEF Order!Completed
    <2> QED
        BY <2>1, <2>2
<1> DEFINE completed == Order!Completed(k)
<1>5. Results' = completed
    <2> HIDE DEF Results, Done, ItemOf, Order!Completed
    <2>1. \A j \in 1 .. Len(window) : Results'[j] = completed[j]
        BY <1>2, <1>3
    <2>2. DOMAIN Results' = DOMAIN completed /\ DOMAIN completed = 1 .. Len(window)
        BY <1>2, <1>3
    <2> HIDE DEF completed
    <2>3. [j \in DOMAIN Results' |-> Results'[j]] = [j \in DOMAIN completed |-> completed[j]]
        BY <2>1, <2>2
    <2> QED
        BY <1>f, <2>3 DEF completed
<1> QED
    BY <1>1, <1>4, <1>5 DEF Order!Complete

LEMMA MapsMispredict ==
    ASSUME TypeInv, TypeInv', NEW k \in DOMAIN window, ~window[k].ready, window[k].instr.op = "branch",
           RetiredMemory' = RetiredMemory, Len(window') = k,
           \A j \in 1 .. k - 1 : ItemOf(window'[j]) = ItemOf(window[j]),
           ItemOf(window'[k]) = Done(k)
    PROVE  k \in DOMAIN Results /\ Order!Mispredict(k)
<1>1. /\ Results \in Seq(Item) /\ Len(Results) = Len(window) /\ Len(window) \in Nat
      /\ k \in 1 .. Len(window) /\ DOMAIN Results = 1 .. Len(window)
      /\ \A j \in 1 .. Len(window) : Results[j] = ItemOf(window[j])
    BY ResultsFacts DEF TypeInv
<1>2. /\ Results' \in Seq(Item) /\ DOMAIN Results' = 1 .. Len(window')
      /\ \A j \in 1 .. Len(window') : Results'[j] = ItemOf(window'[j])
    BY ResultsNext
<1>3. /\ Order!Completed(k)[k] = Done(k)
      /\ \A j \in 1 .. Len(window) : j # k => Order!Completed(k)[j] = ItemOf(window[j])
    BY CompletedIs
<1>4. ~Results[k].ready /\ Results[k].instr.op = "branch"
    BY <1>1 DEF ItemOf
<1>f. Results' = [j \in DOMAIN Results' |-> Results'[j]]
    BY <1>2
<1> DEFINE completed == Order!Completed(k)
<1>5. SubSeq(completed, 1, k) = [j \in 1 .. k |-> completed[j]]
    <2> HIDE DEF completed
    <2>1. k \in Nat /\ 1 \in Nat
        BY <1>1
    <2> QED
        BY <2>1
<1>6. Results' = SubSeq(completed, 1, k)
    <2> HIDE DEF Results, Done, ItemOf, Order!Completed
    <2>1. \A j \in 1 .. k : Results'[j] = completed[j]
        <3> SUFFICES ASSUME NEW j \in 1 .. k PROVE Results'[j] = completed[j]
            OBVIOUS
        <3>1. j \in 1 .. Len(window) /\ j \in 1 .. Len(window')
            BY <1>1
        <3>2. CASE j = k
            BY <1>2, <1>3, <3>1, <3>2
        <3>3. CASE j # k
            <4>1. j \in 1 .. k - 1
                BY <1>1, <3>3
            <4> QED
                BY <1>2, <1>3, <3>1, <3>3, <4>1
        <3> QED
            BY <3>2, <3>3
    <2>2. DOMAIN Results' = 1 .. k
        BY <1>2
    <2> HIDE DEF completed
    <2>3. [j \in DOMAIN Results' |-> Results'[j]] = [j \in 1 .. k |-> completed[j]]
        BY <2>1, <2>2
    <2> QED
        BY <1>f, <1>5, <2>3
<1> QED
    BY <1>1, <1>4, <1>6 DEF Order!Mispredict

LEMMA MapsRetire ==
    ASSUME TypeInv, TypeInv', window # <<>>, Head(window).ready, window' = Tail(window),
           \A a \in Address :
               RetiredMemory'[a] = IF WritesTo(window[1].instr, a)
                                   THEN window[1].instr.data[a - window[1].instr.addr] ELSE RetiredMemory[a]
    PROVE  Order!Retire
<1>1. /\ Results \in Seq(Item) /\ Len(Results) = Len(window) /\ Len(window) \in Nat
      /\ window \in Seq(InFlight)
      /\ \A j \in 1 .. Len(window) : Results[j] = ItemOf(window[j])
    BY ResultsFacts
<1>2. /\ Results' \in Seq(Item) /\ Len(Results') = Len(window')
      /\ \A j \in 1 .. Len(window') : Results'[j] = ItemOf(window'[j])
    BY ResultsNext
<1>3. /\ Len(window) >= 1 /\ Len(window') = Len(window) - 1 /\ Head(window) = window[1]
      /\ \A j \in 1 .. Len(window) - 1 : window'[j] = window[j + 1] /\ j + 1 \in 1 .. Len(window)
    BY <1>1
<1>4. Results[1] = ItemOf(window[1])
    BY <1>1, <1>3
<1> HIDE DEF Results, Item
<1>5. /\ Results # <<>> /\ Tail(Results) \in Seq(Item) /\ Len(Tail(Results)) = Len(window) - 1
      /\ Head(Results) = Results[1]
      /\ \A j \in 1 .. Len(window) - 1 : Tail(Results)[j] = Results[j + 1]
    BY <1>1, <1>3
<1>6. \A j \in 1 .. Len(Results') : Results'[j] = Tail(Results)[j]
    BY <1>1, <1>2, <1>3, <1>5
<1>7. Results' = Tail(Results)
    BY <1>2, <1>3, <1>5, <1>6, SeqEqual
<1>8. Head(Results).ready /\ Head(Results).instr = window[1].instr
    BY <1>3, <1>4, <1>5 DEF ItemOf
<1>9. RetiredMemory' = Order!Stored(RetiredMemory, Head(Results).instr)
    <2>1. \A a : Order!Writes(window[1].instr, a) <=> WritesTo(window[1].instr, a)
        BY DEF Order!Writes, WritesTo, is_store, Reach
    <2>2. \A a \in Address :
              RetiredMemory'[a] = IF Order!Writes(window[1].instr, a)
                                  THEN Order!ByteOf(window[1].instr, a) ELSE RetiredMemory[a]
        BY <2>1 DEF Order!ByteOf
    <2>3. RetiredMemory' = [a \in Address |-> RetiredMemory'[a]]
        BY RetiredMap
    <2> HIDE DEF RetiredMemory, Order!Writes, Order!ByteOf
    <2>4. RetiredMemory' = [a \in Address |-> IF Order!Writes(window[1].instr, a)
                                  THEN Order!ByteOf(window[1].instr, a) ELSE RetiredMemory[a]]
        BY <2>2, <2>3
    <2> QED
        BY <1>8, <2>4 DEF Order!Stored
<1> QED
    BY <1>5, <1>7, <1>8, <1>9 DEF Order!Retire

------------------------------------------------------------------------------
(* The actions, one by one: each is a step of MemoryOrder or none, and keeps
   what is known of the values. *)
Refines == ValueInv' /\ [Order!Next]_<<RetiredMemory, Results>>

LEMMA SameMemory ==
    ASSUME OrderInv, OrderInv', TagInv, Committed' = Committed, \A s \in Committed : SameEntry(s),
           UNCHANGED <<ram, core_req>>
    PROVE  TagInv' /\ RetiredMemory' = RetiredMemory
<1>1. TagInv'
    BY TagKept DEF SameEntry
<1>2. SameServed
    BY DEF SameServed
<1> QED
    BY <1>1, <1>2, RetiredKept

LEMMA SameReads ==
    ASSUME TypeInv, UNCHANGED <<ram, core_req>>
    PROVE  GetsRead
<1>1. ReadsAsked' = ReadsAsked
    BY DEF ReadsAsked
<1> QED
    BY <1>1 DEF GetsRead

LEMMA SameAnswers == ASSUME UNCHANGED core_rsp PROVE GetsAnswer
BY DEF GetsAnswer

(* The window alone, in what it does not share with the queue. *)
LEMMA Quiet ==
    ASSUME OrderInv, OrderInv', ValueInv, UNCHANGED <<store, head_tag, ram, core_req, core_rsp>>,
           Len(window') = Len(window),
           \A k \in 1 .. Len(window) : /\ window'[k].instr = window[k].instr
                                       /\ window'[k].lsq_idx = window[k].lsq_idx,
           output' = output \/ ~output'.valid, ResultInv'
    PROVE  ValueInv' /\ RetiredMemory' = RetiredMemory
<1>1. TypeInv /\ TypeInv' /\ TagInv
    BY DEF OrderInv, IInv, ValueInv
<1>2. Valid' = Valid
    BY DEF Valid
<1>3. Committed' = Committed /\ \A s \in Committed : SameEntry(s)
    BY <1>2 DEF Committed, SameEntry
<1>4. TagInv' /\ RetiredMemory' = RetiredMemory
    <2> HIDE DEF RetiredMemory
    <2> QED
        BY <1>1, <1>3, SameMemory
<1>5. DOMAIN window = 1 .. Len(window) /\ DOMAIN window' = 1 .. Len(window)
    <2>1. window \in Seq(InFlight) /\ window' \in Seq(InFlight)
        BY <1>1 DEF TypeInv
    <2> QED
        BY <2>1
<1>6. Owners' = Owners
    BY <1>5 DEF Owners
<1>7. Steady
    BY <1>4, <1>5 DEF Steady
<1>8. KeepsSlots
    BY <1>5, <1>6 DEF KeepsSlots, Owners
<1>9. GetsData
    BY <1>2 DEF GetsData
<1>10. GetsOutput
    BY DEF GetsOutput
<1>11. GetsAnswer /\ GetsRead
    BY <1>1, SameReads, SameAnswers
<1> QED
    BY <1>4, <1>7, <1>8, <1>9, <1>10, <1>11, ValueKept

LEMMA DispatchRefines ==
    ASSUME OrderInv, OrderInv', ValueInv, NEW k \in DOMAIN window, dispatch(k)
    PROVE  Refines
<1>1. TypeInv /\ TypeInv' /\ ResultInv
    BY DEF OrderInv, IInv, ValueInv
<1>2. window \in Seq(InFlight) /\ DOMAIN window = 1 .. Len(window) /\ Len(window) \in Nat
    BY <1>1 DEF TypeInv
<1>3. \A j \in 1 .. Len(window) : window[j] \in InFlight
    BY <1>2
<1>4. window' = [window EXCEPT ![k].waiting = FALSE]
    BY DEF dispatch
<1>5. /\ Len(window') = Len(window) /\ DOMAIN window' = DOMAIN window
      /\ \A j \in 1 .. Len(window) : /\ window'[j].instr = window[j].instr
                                     /\ window'[j].lsq_idx = window[j].lsq_idx
                                     /\ window'[j].result = window[j].result
                                     /\ window'[j].ready = window[j].ready
    BY <1>2, <1>3, <1>4 DEF InFlight
<1>6. ResultInv'
    BY <1>1, <1>2, <1>5 DEF ResultInv
<1>7. UNCHANGED <<store, head_tag, ram, core_req, core_rsp, output>>
    BY DEF dispatch, lsq, dcache
<1>8. ValueInv' /\ RetiredMemory' = RetiredMemory
    <2> HIDE DEF RetiredMemory
    <2> QED
        BY <1>5, <1>6, <1>7, Quiet
<1>9. Results' = Results
    <2>1. \A j \in 1 .. Len(window) : ItemOf(window'[j]) = ItemOf(window[j])
        BY <1>5 DEF ItemOf
    <2> QED
        BY <1>1, <1>5, <2>1, MapsSame
<1> QED
    BY <1>8, <1>9 DEF Refines

LEMMA PredictedRefines ==
    ASSUME OrderInv, OrderInv', ValueInv, NEW k \in DOMAIN window, predicted(k)
    PROVE  Refines
<1>1. TypeInv /\ TypeInv' /\ ResultInv
    BY DEF OrderInv, IInv, ValueInv
<1>2. window \in Seq(InFlight) /\ DOMAIN window = 1 .. Len(window) /\ Len(window) \in Nat
    BY <1>1 DEF TypeInv
<1>3. \A j \in 1 .. Len(window) : window[j] \in InFlight
    BY <1>2
<1>4. window' = [window EXCEPT ![k].ready = TRUE] /\ window[k].instr.op = "branch" /\ ~window[k].ready
    BY DEF predicted, resolved, unresolved
<1>5. /\ Len(window') = Len(window) /\ DOMAIN window' = DOMAIN window
      /\ \A j \in 1 .. Len(window) : /\ window'[j].instr = window[j].instr
                                     /\ window'[j].lsq_idx = window[j].lsq_idx
                                     /\ window'[j].result = window[j].result
                                     /\ j # k => window'[j].ready = window[j].ready
      /\ window'[k].ready = TRUE
    <2>1. Len(window') = Len(window) /\ DOMAIN window' = DOMAIN window
        BY <1>2, <1>4
    <2>2. /\ window'[k] = [window[k] EXCEPT !.ready = TRUE]
          /\ \A j \in 1 .. Len(window) : j # k => window'[j] = window[j]
        BY <1>2, <1>4
    <2>3. k \in 1 .. Len(window)
        BY <1>2
    <2>4. /\ window'[k].instr = window[k].instr /\ window'[k].lsq_idx = window[k].lsq_idx
          /\ window'[k].result = window[k].result /\ window'[k].ready = TRUE
        BY <1>3, <2>2, <2>3 DEF InFlight
    <2> QED
        BY <2>1, <2>2, <2>4
<1>6. ResultInv'
    BY <1>1, <1>2, <1>5 DEF ResultInv
<1>7. UNCHANGED <<store, head_tag, ram, core_req, core_rsp, output>>
    BY DEF predicted, lsq, dcache, unit
<1>8. ValueInv' /\ RetiredMemory' = RetiredMemory
    <2> HIDE DEF RetiredMemory
    <2> QED
        BY <1>5, <1>6, <1>7, Quiet
<1>9. ItemOf(window'[k]) = Done(k)
    <2>1. Order!ResultOf(k) = NULL
        BY <1>1, <1>4, ResultOfIs DEF is_load
    <2>2. window'[k].result = NULL
        BY <1>1, <1>2, <1>4, <1>5 DEF ResultInv
    <2> HIDE DEF Order!ResultOf
    <2> QED
        BY <1>2, <1>5, <2>1, <2>2 DEF ItemOf, Done
<1>10. \A j \in 1 .. Len(window) : j # k => ItemOf(window'[j]) = ItemOf(window[j])
    BY <1>5 DEF ItemOf
<1>11. k \in DOMAIN Results /\ Order!Complete(k)
    <2> HIDE DEF RetiredMemory, Results, Order!Complete, Done, ItemOf
    <2> QED
        BY <1>1, <1>4, <1>5, <1>8, <1>9, <1>10, MapsComplete
<1> QED
    BY <1>8, <1>11 DEF Refines, Order!Next

LEMMA BroadcastRefines ==
    ASSUME OrderInv, OrderInv', ValueInv, broadcast
    PROVE  Refines
<1>1. TypeInv /\ TypeInv' /\ UnitInv /\ ResultInv /\ OutputInv
    BY DEF OrderInv, IInv, ValueInv
<1>2. window \in Seq(InFlight) /\ DOMAIN window = 1 .. Len(window) /\ Len(window) \in Nat
    BY <1>1 DEF TypeInv
<1>3. \A j \in 1 .. Len(window) : window[j] \in InFlight
    BY <1>2
<1>4. PICK k \in Owners : output.rob_tag = tag_of(k) /\ ~window[k].ready
    BY <1>1 DEF UnitInv, broadcast
<1>5. k \in 1 .. Len(window) /\ \A j \in 1 .. Len(window) : tag_of(j) = output.rob_tag => j = k
    BY <1>1, <1>2, <1>4, WindowFacts
<1>6. \A j \in DOMAIN window :
          window'[j] = IF tag_of(j) = output.rob_tag /\ ~window[j].ready
                       THEN [window[j] EXCEPT !.ready = TRUE, !.result = output.value] ELSE window[j]
    BY DEF broadcast
<1>7. DOMAIN window' = DOMAIN window /\ Len(window') = Len(window)
    <2>1. DOMAIN window' = DOMAIN window
        BY DEF broadcast
    <2>2. window' \in Seq(InFlight)
        BY <1>1 DEF TypeInv
    <2> QED
        BY <1>2, <2>1, <2>2
<1>8. window'[k] = [window[k] EXCEPT !.ready = TRUE, !.result = output.value]
    <2> HIDE DEF tag_of
    <2> QED
        BY <1>2, <1>4, <1>5, <1>6
<1>9. \A j \in 1 .. Len(window) : j # k => window'[j] = window[j]
    <2> HIDE DEF tag_of
    <2> QED
        BY <1>2, <1>5, <1>6
<1>10. /\ window'[k].ready = TRUE /\ window'[k].result = output.value
       /\ \A j \in 1 .. Len(window) : /\ window'[j].instr = window[j].instr
                                      /\ window'[j].lsq_idx = window[j].lsq_idx
    BY <1>3, <1>5, <1>8, <1>9, ZenonT(60) DEF InFlight
<1>11. ResultInv'
    BY <1>1, <1>2, <1>7, <1>9, <1>10 DEF ResultInv
<1>12. UNCHANGED <<store, head_tag, ram, core_req, core_rsp>> /\ ~output'.valid
    BY DEF broadcast, lsq, dcache, NoOutput
<1>13. ValueInv' /\ RetiredMemory' = RetiredMemory
    <2> HIDE DEF RetiredMemory
    <2> QED
        BY <1>7, <1>10, <1>11, <1>12, Quiet
<1>14. ItemOf(window'[k]) = Done(k)
    <2>1. Order!ResultOf(k) = IF is_load(window[k].instr) THEN Wanted(k) ELSE NULL
        BY <1>1, <1>2, <1>5, ResultOfIs
    <2>2. output.value = IF is_load(window[k].instr) THEN Wanted(k) ELSE NULL
        BY <1>1, <1>4 DEF OutputInv, broadcast
    <2> HIDE DEF Order!ResultOf, Wanted
    <2> QED
        BY <1>5, <1>10, <2>1, <2>2 DEF ItemOf, Done
<1>15. \A j \in 1 .. Len(window) : j # k => ItemOf(window'[j]) = ItemOf(window[j])
    BY <1>9 DEF ItemOf
<1>16. k \in DOMAIN Results /\ Order!Complete(k)
    <2> HIDE DEF RetiredMemory, Results, Order!Complete, Done, ItemOf
    <2> QED
        BY <1>1, <1>2, <1>4, <1>5, <1>7, <1>13, <1>14, <1>15, MapsComplete
<1> QED
    BY <1>13, <1>16 DEF Refines, Order!Next

(* The queue and the unit, while the window stays as it is. *)
LEMMA StayFacts ==
    ASSUME OrderInv, OrderInv', UNCHANGED <<window, head_tag>>, RetiredMemory' = RetiredMemory
    PROVE  /\ Steady /\ Owners' = Owners /\ Owners \subseteq DOMAIN window
           /\ \A k \in Owners : /\ Wanted(k)' = Wanted(k) /\ tag_of(k)' = tag_of(k)
                                /\ \A a : Finds(k, a)' = Finds(k, a)
<1>1. Steady /\ Owners' = Owners /\ Owners \subseteq DOMAIN window
    BY DEF Steady, Owners
<1> HIDE DEF Wanted, Finds, Steady, tag_of
<1>2. \A k \in Owners : k \in Owners' \cap DOMAIN window
    BY <1>1
<1>3. \A k \in Owners : /\ Wanted(k)' = Wanted(k) /\ tag_of(k)' = tag_of(k)
                        /\ \A a : Finds(k, a)' = Finds(k, a)
    BY <1>1, <1>2, StillWanted
<1> QED
    BY <1>1, <1>3

LEMMA Stays ==
    ASSUME OrderInv, OrderInv', ValueInv, UNCHANGED <<window, head_tag>>, RetiredMemory' = RetiredMemory, TagInv',
           GetsData, GetsOutput, GetsAnswer, GetsRead
    PROVE  Refines
<1>1. Steady
    BY StayFacts
<1>2. ResultInv'
    BY DEF ValueInv, ResultInv
<1>3. KeepsSlots
    BY DEF KeepsSlots, Owners
<1>4. ValueInv'
    BY <1>1, <1>2, <1>3, ValueKept
<1>5. Results' = Results
    BY DEF Results
<1> QED
    BY <1>4, <1>5 DEF Refines

(* An instruction in flight has its entry replaced. *)
Puts(k, s, entry) ==
    /\ s = window[k].lsq_idx /\ entry \in Entry /\ store' = [store EXCEPT ![s] = entry]
    /\ entry.instr = store[s].instr /\ entry.rob_tag = store[s].rob_tag /\ entry.state # "Committed"

LEMMA OneEntryKeeps ==
    ASSUME OrderInv, OrderInv', TagInv, SameServed, NEW k \in Owners, NEW s, NEW entry,
           Puts(k, s, entry)
    PROVE  /\ s \in Valid /\ store[s].rob_tag = tag_of(k) /\ store[s].instr = window[k].instr
           /\ Valid \subseteq Slot
           /\ Valid' = Valid /\ store'[s] = entry /\ \A o \in Slot \ {s} : store'[o] = store[o]
           /\ TagInv' /\ RetiredMemory' = RetiredMemory
<1>1. /\ TypeInv /\ OwnerInv
      /\ s = window[k].lsq_idx /\ entry \in Entry /\ store' = [store EXCEPT ![s] = entry]
      /\ entry.instr = store[s].instr /\ entry.rob_tag = store[s].rob_tag /\ entry.state # "Committed"
    BY DEF OrderInv, IInv, Puts
<1>2. /\ s \in Valid /\ store[s].rob_tag = tag_of(k) /\ store[s].instr = window[k].instr
      /\ store[s].state # "Committed" /\ Valid \subseteq Slot
    BY <1>1, EntryFacts DEF OwnerInv
<1>3. Valid' = Valid /\ store'[s] = entry /\ \A o \in Slot \ {s} : store'[o] = store[o]
    <2> HIDE DEF tag_of, Owners
    <2>1. TypeInv /\ s \in Valid /\ entry \in Entry /\ store' = [store EXCEPT ![s] = entry]
        BY <1>1, <1>2
    <2> QED
        BY <2>1, Replaced
<1>4. Committed' = Committed /\ s \notin Committed
    <2>1. \A o \in Valid : o = s \/ store'[o] = store[o]
        BY <1>2, <1>3
    <2>2. store[s].state # "Committed" /\ store'[s].state # "Committed"
        BY <1>1, <1>2, <1>3
    <2>3. \A o \in Valid : store'[o].state = "Committed" <=> store[o].state = "Committed"
        BY <2>1, <2>2
    <2>4. Valid' = Valid
        BY <1>3
    <2> QED
        BY <2>2, <2>3, <2>4 DEF Committed
<1>5. \A o \in Committed : SameEntry(o) /\ store'[o].rob_tag = store[o].rob_tag
    BY <1>2, <1>3, <1>4 DEF SameEntry, Committed
<1>6. TagInv'
    BY <1>4, <1>5, TagKept
<1>7. RetiredMemory' = RetiredMemory
    <2> HIDE DEF RetiredMemory, SameServed
    <2> QED
        BY <1>4, <1>5, <1>6, RetiredKept
<1> QED
    BY <1>2, <1>3, <1>6, <1>7

LEMMA OneEntry ==
    ASSUME OrderInv, OrderInv', ValueInv, UNCHANGED <<window, head_tag>>, SameServed, GetsAnswer, GetsRead,
           NEW k \in Owners, NEW s, NEW entry,
           Puts(k, s, entry),
           \/ entry.data = store[s].data
           \/ is_store(entry.instr) /\ entry.data = entry.instr.data
           \/ is_load(entry.instr) /\ entry.data = Wanted(k),
           \/ output' = output
           \/ output' = [valid |-> TRUE, rob_tag |-> store[s].rob_tag,
                         value |-> IF is_load(entry.instr) THEN Wanted(k) ELSE NULL]
    PROVE  Refines
<1>1. TypeInv /\ OwnerInv /\ TagInv
    BY DEF OrderInv, IInv, ValueInv
<1>2. /\ s \in Valid /\ store[s].rob_tag = tag_of(k) /\ store[s].instr = window[k].instr
      /\ Valid \subseteq Slot
      /\ Valid' = Valid /\ store'[s] = entry /\ \A o \in Slot \ {s} : store'[o] = store[o]
      /\ TagInv' /\ RetiredMemory' = RetiredMemory
    <2> HIDE DEF RetiredMemory, SameServed, tag_of, Wanted, is_load, is_store
    <2> QED
        BY <1>1, OneEntryKeeps
<1>p. s = window[k].lsq_idx /\ entry.instr = store[s].instr
    BY DEF Puts
<1>3. Valid' = Valid /\ store'[s] = entry /\ \A o \in Slot \ {s} : store'[o] = store[o]
    BY <1>2
<1>6. TagInv'
    BY <1>2
<1>7. RetiredMemory' = RetiredMemory
    BY <1>2
<1>8. /\ Owners' = Owners
      /\ \A j \in Owners : Wanted(j)' = Wanted(j) /\ tag_of(j)' = tag_of(j)
    <2> HIDE DEF Wanted, tag_of, RetiredMemory
    <2> QED
        BY <1>7, StayFacts
<1>9. \A j \in Owners : /\ window[j].lsq_idx = s => j = k
                        /\ tag_of(j) = tag_of(k) => j = k
    <2>1. \A j \in Owners : store[window[j].lsq_idx].rob_tag = tag_of(j)
        BY <1>1 DEF OwnerInv
    <2>2. \A j \in Owners : tag_of(j) = tag_of(k) => j = k
        BY <1>1, WindowFacts
    <2>3. store[s].rob_tag = tag_of(k)
        BY <1>2
    <2> HIDE DEF tag_of
    <2> QED
        BY <2>1, <2>2, <2>3
<1>10. ~(is_load(entry.instr) /\ is_store(entry.instr))
    BY DEF is_load, is_store
<1> HIDE DEF Wanted, tag_of, SameServed, GetsRead, GetsAnswer, RetiredMemory, Owners
<1>11. GetsData
    <2> SUFFICES ASSUME NEW o \in Valid'
                 PROVE  \/ o \in Valid /\ store'[o].data = store[o].data /\ store'[o].instr = store[o].instr
                        \/ /\ is_store(store'[o].instr) /\ ~is_load(store'[o].instr)
                           /\ store'[o].data = store'[o].instr.data
                        \/ /\ is_load(store'[o].instr) /\ ~is_store(store'[o].instr)
                           /\ \A j \in Owners' : window'[j].lsq_idx = o => store'[o].data = Wanted(j)'
        BY DEF GetsData
    <2>1. CASE o # s
        BY <1>2, <1>3, <2>1
    <2>2. CASE o = s
        <3>1. CASE entry.data = store[s].data
            BY <1>2, <1>3, <1>p, <2>2, <3>1
        <3>2. CASE is_store(entry.instr) /\ entry.data = entry.instr.data
            BY <1>3, <1>10, <2>2, <3>2
        <3>3. CASE is_load(entry.instr) /\ entry.data = Wanted(k)
            <4>1. \A j \in Owners' : window'[j].lsq_idx = o => entry.data = Wanted(j)'
                BY <1>8, <1>9, <2>2, <3>3
            <4> QED
                BY <1>3, <1>10, <2>2, <3>3, <4>1
        <3> QED
            BY <3>1, <3>2, <3>3
    <2> QED
        BY <2>1, <2>2
<1>12. GetsOutput
    <2> SUFFICES ASSUME output' # output, NEW j \in Owners', output'.rob_tag = tag_of(j)'
                 PROVE  output'.value = IF is_load(window'[j].instr) THEN Wanted(j)' ELSE NULL
        BY DEF GetsOutput
    <2>1. output' = [valid |-> TRUE, rob_tag |-> store[s].rob_tag,
                     value |-> IF is_load(entry.instr) THEN Wanted(k) ELSE NULL]
        OBVIOUS
    <2>2. output'.rob_tag = store[s].rob_tag /\ output'.value = IF is_load(entry.instr) THEN Wanted(k) ELSE NULL
        BY <2>1
    <2>3. j = k
        <3>1. store[s].rob_tag = tag_of(k) /\ j \in Owners /\ tag_of(j) = store[s].rob_tag
            BY <1>2, <1>8, <2>2
        <3> QED
            BY <1>9, <3>1
    <2>4. window'[j].instr = entry.instr
        BY <1>2, <1>p, <2>3
    <2> QED
        BY <1>8, <2>2, <2>3, <2>4
<1> QED
    BY <1>6, <1>7, <1>11, <1>12, Stays

LEMMA TakeRefines ==
    ASSUME OrderInv, OrderInv', ValueInv, take_answer
    PROVE  Refines
<1> DEFINE s == core_rsp[1].user
           value == core_rsp[1].data
<1>1. /\ TypeInv /\ EntryInv /\ OwnerInv /\ LeftInv /\ PacketInv /\ ChannelInv /\ TagInv /\ AnswerInv
      /\ UNCHANGED <<window, head_tag, ram, core_req>>
      /\ core_rsp # <<>> /\ core_rsp' = Tail(core_rsp)
    BY DEF OrderInv, IInv, ValueInv, take_answer, rob, Mem!Take
<1>2. Head(core_rsp) = core_rsp[1] /\ 1 \in DOMAIN core_rsp /\ core_rsp[1] \in Rsp
    BY <1>1 DEF TypeInv
<1>3. s \in Waits /\ s \in Valid /\ s \in Slot /\ store[s] \in Entry /\ value \in Value
    BY <1>1, <1>2, EntryFacts, RequestFacts DEF ChannelInv, Waits
<1>4. IF store[s].state = "Voided"
      THEN release_entry(s) /\ UNCHANGED output
      ELSE update_data(s, value) /\ send(store[s].rob_tag, value)
    BY <1>2 DEF take_answer
<1>5. GetsAnswer
    <2>1. \A i \in DOMAIN core_rsp' : i + 1 \in DOMAIN core_rsp /\ core_rsp'[i] = core_rsp[i + 1]
        <3>1. core_rsp \in Seq(Rsp)
            BY <1>1 DEF TypeInv
        <3> QED
            BY <1>1, <3>1
    <2> QED
        BY <2>1 DEF GetsAnswer
<1>6. GetsRead /\ SameServed
    BY <1>1, SameReads DEF SameServed
<1>7. \A k \in Owners : window[k].lsq_idx = s => value = Wanted(k)
    BY <1>1, <1>2 DEF AnswerInv
<1> HIDE DEF s, value, Wanted, GetsAnswer, GetsRead
<1>8. CASE store[s].state = "Voided"
    <2>1. release_entry(s) /\ output' = output
        BY <1>4, <1>8
    <2>2. Valid' = Valid \ {s} /\ \A o \in Slot \ {s} : store'[o] = store[o]
        BY <1>1, <1>3, <2>1, Released DEF OrderInv, IInv
    <2>3. \A o \in Valid' : o \in Valid /\ store'[o] = store[o]
        BY <1>1, <2>2, EntryFacts
    <2>4. Committed' = Committed /\ \A o \in Committed : SameEntry(o)
        BY <1>8, <2>2, <2>3 DEF Committed, SameEntry
    <2>5. TagInv' /\ RetiredMemory' = RetiredMemory
        <3> HIDE DEF RetiredMemory
        <3> QED
            BY <1>1, <2>4, SameMemory
    <2>6. GetsData /\ GetsOutput
        BY <2>1, <2>3 DEF GetsData, GetsOutput
    <2> QED
        BY <1>1, <1>5, <1>6, <2>5, <2>6, Stays
<1>9. CASE store[s].state # "Voided"
    <2> DEFINE entry == [store[s] EXCEPT !.data = value, !.state = "Writeback"]
    <2>1. store[s].state = "Issued"
        BY <1>3, <1>9 DEF Waits
    <2>2. PICK k \in Owners : window[k].lsq_idx = s
        BY <1>1, <1>3, <2>1 DEF LeftInv
    <2>3. is_load(store[s].instr)
        BY <1>1, <1>3, <2>1 DEF EntryInv
    <2>4. /\ entry \in Entry /\ entry.instr = store[s].instr /\ entry.rob_tag = store[s].rob_tag
          /\ entry.state = "Writeback" /\ entry.data = value
        BY <1>3 DEF Entry
    <2>5. /\ store' = [store EXCEPT ![s] = entry]
          /\ output' = [valid |-> TRUE, rob_tag |-> store[s].rob_tag, value |-> value]
        <3>1. update_data(s, value) /\ send(store[s].rob_tag, value)
            BY <1>4, <1>9
        <3> QED
            BY <1>1, <1>3, <3>1 DEF update_data, send, TypeInv
    <2>6. value = Wanted(k)
        BY <1>7, <2>2
    <2> HIDE DEF entry
    <2>7. output' = [valid |-> TRUE, rob_tag |-> store[s].rob_tag,
                     value |-> IF is_load(entry.instr) THEN Wanted(k) ELSE NULL]
        BY <2>3, <2>4, <2>5, <2>6
    <2>8. is_load(entry.instr) /\ entry.data = Wanted(k) /\ entry.state # "Committed"
        BY <2>3, <2>4, <2>6
    <2>9. Puts(k, s, entry)
        BY <2>2, <2>4, <2>5, <2>8 DEF Puts
    <2> HIDE DEF is_load, is_store
    <2> QED
        BY <1>1, <1>5, <1>6, <2>2, <2>7, <2>8, <2>9, OneEntry
<1> QED
    BY <1>8, <1>9

LEMMA ComputeRefines ==
    ASSUME OrderInv, OrderInv', ValueInv, compute_address
    PROVE  Refines
<1>1. /\ TypeInv /\ OwnerInv /\ UnitInv
      /\ UNCHANGED <<window, head_tag, ram, core_req, core_rsp>> /\ input.valid
    BY DEF OrderInv, IInv, compute_address, rob, dcache
<1>2. PICK k \in Owners :
           /\ input.rob_tag = tag_of(k) /\ input.instr = window[k].instr /\ input.lsq_idx = window[k].lsq_idx
           /\ store[window[k].lsq_idx].state = "Pending"
    BY <1>1 DEF UnitInv
<1> DEFINE s == window[k].lsq_idx
           instr == window[k].instr
<1>3. /\ s \in Valid /\ s \in Slot /\ store[s] \in Entry /\ store[s].instr = instr
      /\ store[s].rob_tag = tag_of(k) /\ instr \in Loads \cup Stores
    BY <1>1, WindowFacts, EntryFacts DEF OwnerInv
<1>4. GetsRead /\ SameServed /\ GetsAnswer
    BY <1>1, SameReads, SameAnswers DEF SameServed
<1>5. store[s].state = "Pending" /\ s = window[k].lsq_idx
    BY <1>2
<1> HIDE DEF s, instr, tag_of, GetsRead, GetsAnswer, Wanted
<1>6. CASE is_store(instr)
    <2> DEFINE entry == [store[s] EXCEPT !.addr_valid = TRUE, !.data = instr.data, !.state = "Writeback"]
    <2>1. instr \in Stores /\ instr.data \in Bytes(instr) /\ instr.data \in Value /\ ~is_load(instr)
        BY <1>3, <1>6, InstrFacts DEF Value
    <2>2. /\ entry \in Entry /\ entry.instr = instr /\ entry.rob_tag = tag_of(k) /\ entry.state = "Writeback"
          /\ entry.data = instr.data
        BY <1>3, <2>1 DEF Entry
    <2>3. /\ store' = [store EXCEPT ![s] = entry]
          /\ output' = [valid |-> TRUE, rob_tag |-> tag_of(k), value |-> NULL]
        <3>1. ~is_load(input.instr)
            BY <1>2, <2>1 DEF instr
        <3>2. /\ store' = [store EXCEPT ![s].addr_valid = TRUE, ![s].data = instr.data, ![s].state = "Writeback"]
              /\ output' = [valid |-> TRUE, rob_tag |-> tag_of(k), value |-> NULL]
            BY <1>2, <3>1 DEF compute_address, send, s, instr
        <3> QED
            BY <1>1, <1>3, <3>2 DEF TypeInv
    <2> HIDE DEF entry
    <2>4. output' = [valid |-> TRUE, rob_tag |-> store[s].rob_tag,
                     value |-> IF is_load(entry.instr) THEN Wanted(k) ELSE NULL]
        BY <1>3, <2>1, <2>2, <2>3
    <2>5. is_store(entry.instr) /\ entry.data = entry.instr.data /\ entry.state # "Committed"
        BY <1>6, <2>2
    <2>6. entry.instr = store[s].instr /\ entry.rob_tag = store[s].rob_tag
        BY <1>3, <2>2
    <2>7. Puts(k, s, entry)
        BY <1>5, <2>2, <2>3, <2>5, <2>6 DEF Puts
    <2> HIDE DEF is_load, is_store
    <2> QED
        BY <1>1, <1>4, <2>4, <2>5, <2>7, OneEntry
<1>7. CASE is_load(instr)
    <2> DEFINE entry == [store[s] EXCEPT !.addr_valid = TRUE]
    <2>1. ~is_store(instr)
        BY <1>3, <1>7, InstrFacts
    <2>2. /\ entry \in Entry /\ entry.instr = store[s].instr /\ entry.rob_tag = store[s].rob_tag
          /\ entry.state = store[s].state /\ entry.data = store[s].data
        BY <1>3 DEF Entry
    <2>3. store' = [store EXCEPT ![s] = entry] /\ output' = output
        <3>1. store' = [store EXCEPT ![s].addr_valid = TRUE] /\ output' = output
            BY <1>2, <2>1 DEF compute_address, s, instr
        <3> QED
            BY <1>1, <1>3, <3>1 DEF TypeInv
    <2> HIDE DEF entry
    <2>4. entry.state # "Committed"
        BY <1>5, <2>2
    <2>5. Puts(k, s, entry)
        BY <1>5, <2>2, <2>3, <2>4 DEF Puts
    <2> HIDE DEF is_load, is_store
    <2> QED
        BY <1>1, <1>4, <2>2, <2>3, <2>5, OneEntry
<1> QED
    BY <1>3, <1>6, <1>7, InstrFacts

(* A load that is not held up: the older stores to what it reads are all among
   the entries it can be forwarded from. *)
LEMMA StoresAreSources ==
    ASSUME NEW s, Blocking(s) = {}, NEW a \in Reach(store[s].instr),
           NEW p \in Older(s), WritesTo(store[p].instr, a)
    PROVE  p \in Sources(s) /\ is_store(store[p].instr) /\ ~is_load(store[p].instr)
<1>1. is_store(store[p].instr) /\ ~is_load(store[p].instr) /\ a \in Reach(store[p].instr)
    BY DEF WritesTo, is_store, is_load
<1>2. overlaps(s, p)
    BY <1>1 DEF overlaps
<1>3. store[p].data # NULL /\ covers(s, p)
    BY <1>1, <1>2 DEF Blocking
<1> QED
    BY <1>1, <1>3 DEF Sources

(* What voids a load leaves no data in it. *)
LEMMA SourcesAreLive ==
    ASSUME EntryInv, NEW s
    PROVE  Sources(s) \subseteq OlderLive(s)
<1> SUFFICES ASSUME NEW o \in Sources(s), o \in Voided PROVE FALSE
    BY DEF Sources, OlderLive
<1>1. o \in Valid /\ store[o].state = "Voided"
    BY DEF Voided
<1>2. is_load(store[o].instr) /\ store[o].data = NULL
    BY <1>1 DEF EntryInv
<1> QED
    BY <1>2 DEF Sources

LEMMA ForwardedIsWanted ==
    ASSUME OrderInv, ValueInv, NEW k \in Owners, NEW s, s = window[k].lsq_idx, is_load(store[s].instr),
           Blocking(s) = {}, Sources(s) # {}
    PROVE  forwarded(s, youngest(Sources(s))) = Wanted(k)
<1>1. PICK place : IsPlace(place)
    BY Places DEF ValueInv
<1>2. TypeInv /\ OwnerInv /\ EntryInv /\ TagInv /\ DataInv
    BY DEF OrderInv, IInv, ValueInv
<1> DEFINE o == youngest(Sources(s))
           to == store[s].instr
           from == store[o].instr
<1>3. s \in Valid /\ to = window[k].instr
    BY <1>2 DEF OwnerInv
<1>4. /\ OlderLive(s) \subseteq Live /\ Sources(s) \subseteq OlderLive(s) /\ OlderLive(s) \subseteq Valid
      /\ OlderLive(s) \subseteq Older(s)
    BY <1>2, SourcesAreLive DEF OlderLive, Older, Live
<1>5. o \in Sources(s) /\ \A p \in Sources(s) : place[p] <= place[o]
    <2>1. Sources(s) \subseteq Live
        BY <1>4
    <2> QED
        BY <1>1, <2>1, YoungestIs
<1> HIDE DEF o
<1>6. o \in Live /\ o \in OlderLive(s) /\ o \in Valid
    BY <1>4, <1>5
<1>7. /\ to \in Loads \cup Stores /\ from \in Loads \cup Stores
      /\ to.addr \in Int /\ to.size \in Nat \ {0} /\ from.addr \in Int /\ from.size \in Nat \ {0}
      /\ Reach(to) \subseteq Address
    <2>1. store[s] \in Entry /\ store[o] \in Entry
        BY <1>2, <1>3, <1>6, EntryFacts
    <2> QED
        BY <2>1, InstrFacts DEF Entry
<1>8. \A a \in Reach(to) : \A p \in OlderLive(s) : WritesTo(store[p].instr, a)
          => p \in Sources(s) /\ place[p] <= place[o] /\ ~is_load(store[p].instr) /\ p \in Live
    BY <1>4, <1>5, StoresAreSources
<1>9. store[o].data # NULL /\ (IF is_load(from) THEN Reach(from) = Reach(to) ELSE Reach(to) \subseteq Reach(from))
    BY <1>5 DEF Sources, covers
<1>10. ASSUME NEW i \in 0 .. to.size - 1
       PROVE  store[o].data[to.addr - from.addr + i] = Finds(k, to.addr + i)
    <2> DEFINE a == to.addr + i
    <2>1. a \in Reach(to) /\ a \in Address
        BY <1>7 DEF Reach
    <2>2. CASE is_store(from)
        <3>1. ~is_load(from) /\ store[o].data = from.data
            BY <1>2, <1>6, <1>9, <2>2 DEF DataInv, is_load, is_store
        <3>2. WritesTo(store[o].instr, a)
            BY <1>9, <2>1, <2>2, <3>1 DEF WritesTo
        <3> HIDE DEF a, to, from
        <3>3. Finds(k, a) = store[o].instr.data[a - store[o].instr.addr]
            <4>1. \A p \in OlderLive(s) : WritesTo(store[p].instr, a) => place[p] <= place[o]
                BY <1>8, <2>1
            <4> HIDE DEF Finds
            <4> QED
                BY <1>1, <1>2, <1>6, <2>1, <3>2, <4>1, FindsIs
        <3>4. to.addr - from.addr + i = a - from.addr
            BY <1>7 DEF a
        <3> QED
            BY <3>1, <3>3, <3>4 DEF a, from
    <2>3. CASE is_load(from)
        <3>1. Reach(from) = Reach(to)
            BY <1>9, <2>3
        <3>2. from.addr = to.addr /\ from.size = to.size
            <4> HIDE DEF from, to
            <4>1. from.addr \in from.addr .. from.addr + from.size - 1
                BY <1>7
            <4>2. to.addr \in to.addr .. to.addr + to.size - 1
                BY <1>7
            <4>3. from.addr \in to.addr .. to.addr + to.size - 1 /\ to.addr \in from.addr .. from.addr + from.size - 1
                BY <3>1, <4>1, <4>2 DEF Reach
            <4>4. from.addr = to.addr
                BY <1>7, <4>3
            <4>5. from.addr + from.size - 1 \in from.addr .. from.addr + from.size - 1
                BY <1>7
            <4>6. to.addr + to.size - 1 \in to.addr .. to.addr + to.size - 1
                BY <1>7
            <4>7. /\ from.addr + from.size - 1 \in to.addr .. to.addr + to.size - 1
                  /\ to.addr + to.size - 1 \in from.addr .. from.addr + from.size - 1
                BY <3>1, <4>5, <4>6 DEF Reach
            <4> QED
                BY <1>7, <4>4, <4>7
        <3>3. o \notin Committed
            <4>1. ~is_store(from)
                BY <2>3 DEF is_load, is_store
            <4> QED
                BY <1>2, <1>6, <4>1 DEF EntryInv, Committed
        <3> DEFINE j == place[o]
        <3>4. j \in Owners /\ j < k /\ window[j].lsq_idx = o /\ window[j].instr = from
            BY <1>1, <1>6, <3>3, OlderStores
        <3>5. \A p \in OlderLive(s) : WritesTo(store[p].instr, a) => place[p] < j
            <4> SUFFICES ASSUME NEW p \in OlderLive(s), WritesTo(store[p].instr, a) PROVE place[p] < j
                OBVIOUS
            <4>1. place[p] <= place[o] /\ p # o /\ p \in Live
                BY <1>8, <2>1, <2>3
            <4>2. place[p] \in Int /\ place[o] \in Int /\ place[p] # place[o]
                BY <1>1, <1>6, <4>1 DEF IsPlace
            <4> QED
                BY <4>1, <4>2
        <3> HIDE DEF j, a, to, from
        <3>6. Finds(k, a) = Finds(j, a)
            <4> HIDE DEF Finds
            <4> QED
                BY <1>1, <3>4, <3>5, FindsAlike
        <3>7. store[o].data = Wanted(j)
            BY <1>2, <1>9, <2>3, <3>4 DEF DataInv
        <3>8. to.addr - from.addr + i = i /\ i \in 0 .. from.size - 1 /\ from.addr + i = a
            BY <1>7, <3>2 DEF a
        <3>9. Wanted(j)[i] = Finds(j, from.addr + i)
            <4> HIDE DEF Finds
            <4> QED
                BY <3>4, <3>8 DEF Wanted
        <3> QED
            BY <3>6, <3>7, <3>8, <3>9 DEF a
    <2>4. is_load(from) \/ is_store(from)
        BY <1>7, InstrFacts
    <2> QED
        BY <2>2, <2>3, <2>4
<1>11. forwarded(s, o) = [i \in 0 .. to.size - 1 |-> store[o].data[to.addr - from.addr + i]]
    BY DEF forwarded
<1>12. Wanted(k) = [i \in 0 .. to.size - 1 |-> Finds(k, to.addr + i)]
    BY <1>3 DEF Wanted
<1>13. forwarded(s, o) = Wanted(k)
    <2> HIDE DEF to, from, Finds, Wanted, forwarded
    <2> QED
        BY <1>10, <1>11, <1>12
<1> QED
    BY <1>13 DEF o

LEMMA UnforwardedIs ==
    ASSUME OrderInv, ValueInv, NEW k \in Owners, NEW s, s = window[k].lsq_idx,
           Blocking(s) = {}, Sources(s) = {}, NEW a \in Reach(store[s].instr), a \in Address
    PROVE  Finds(k, a) = Served(ram, core_req, Len(core_req), a)
<1>1. PICK place : IsPlace(place)
    BY Places DEF ValueInv
<1>2. TagInv
    BY DEF ValueInv
<1>3. \A p \in OlderLive(s) : ~WritesTo(store[p].instr, a)
    BY StoresAreSources DEF OlderLive
<1> HIDE DEF Finds
<1> QED
    BY <1>1, <1>2, <1>3, FindsIs

(* A request more at the end of the channel. *)
LEMMA AskedMore ==
    ASSUME TypeInv, NEW req \in ReadReq \cup WriteReq, core_req' = Append(core_req, req), ram' = ram
    PROVE  LET n == Len(core_req)
           IN  /\ n \in Nat /\ Len(core_req') = n + 1 /\ core_req'[n + 1] = req
               /\ DOMAIN core_req' = 1 .. n + 1 /\ DOMAIN core_req = 1 .. n
               /\ \A j \in 1 .. n : /\ core_req'[j] = core_req[j]
                                    /\ \A a : Served(ram', core_req', j, a) = Served(ram, core_req, j, a)
               /\ \A a : Served(ram', core_req', n + 1, a) =
                     IF req.is_write /\ a \in Reach(req) THEN req.data[a - req.addr]
                     ELSE Served(ram, core_req, n, a)
<1> DEFINE n == Len(core_req)
           reqs == core_req
           more == core_req'
<1>1. n \in Nat /\ DOMAIN core_req = 1 .. n /\ core_req \in Seq(ReadReq \cup WriteReq)
    BY ChannelFacts DEF TypeInv
<1>2. /\ Len(core_req') = n + 1 /\ DOMAIN core_req' = 1 .. n + 1 /\ core_req'[n + 1] = req
      /\ \A j \in 1 .. n : core_req'[j] = core_req[j]
    BY <1>1, AppendFacts
<1>3. more[n + 1] = req /\ \A j \in 1 .. n : more[j] = reqs[j]
    BY <1>2
<1> HIDE DEF n, reqs, more
<1>4. \A j \in 0 .. n : \A a : Served(ram, more, j, a) = Served(ram, reqs, j, a)
    <2> SUFFICES ASSUME NEW j \in 0 .. n, NEW a PROVE Served(ram, more, j, a) = Served(ram, reqs, j, a)
        OBVIOUS
    <2>1. \A i \in 1 .. j : more[i] = reqs[i]
        BY <1>1, <1>3
    <2> QED
        BY <1>1, <2>1, ServedFacts
<1>5. \A a : Served(ram, more, n + 1, a) = IF req.is_write /\ a \in Reach(req) THEN req.data[a - req.addr]
                                           ELSE Served(ram, reqs, n, a)
    <2> SUFFICES ASSUME NEW a
                 PROVE  Served(ram, more, n + 1, a) =
                            IF req.is_write /\ a \in Reach(req) THEN req.data[a - req.addr]
                            ELSE Served(ram, reqs, n, a)
        OBVIOUS
    <2>1. Served(ram, more, n + 1, a) =
              IF more[n + 1].is_write /\ a \in Reach(more[n + 1])
              THEN more[n + 1].data[a - more[n + 1].addr] ELSE Served(ram, more, n, a)
        BY <1>1, ServedFacts
    <2>2. n \in 0 .. n
        BY <1>1
    <2>3. Served(ram, more, n, a) = Served(ram, reqs, n, a)
        BY <1>4, <2>2
    <2> HIDE DEF Served
    <2> QED
        BY <1>3, <2>1, <2>3
<1>6. \A j \in 1 .. n : j \in 0 .. n
    BY <1>1
<1> HIDE DEF Served
<1> QED
    BY <1>1, <1>2, <1>4, <1>5, <1>6 DEF n, reqs, more

LEMMA LoadRefines ==
    ASSUME OrderInv, OrderInv', ValueInv, NEW s \in Actionable, is_load(store[s].instr), issue_load(s),
           UNCHANGED <<rob, input>>
    PROVE  Refines
<1>1. /\ TypeInv /\ OwnerInv /\ LeftInv /\ TagInv
      /\ UNCHANGED <<window, head_tag>> /\ Blocking(s) = {}
    BY DEF OrderInv, IInv, ValueInv, rob, issue_load
<1>2. ~is_store(store[s].instr)
    BY DEF is_load, is_store
<1>3. s \in Valid /\ s \in Slot /\ store[s] \in Entry /\ store[s].state = "Pending"
    BY <1>1, <1>2, EntryFacts DEF Actionable, is_ready_store, is_ready_load
<1>4. PICK k \in Owners : window[k].lsq_idx = s
    BY <1>1, <1>3 DEF LeftInv
<1>5. store[s].instr = window[k].instr /\ s = window[k].lsq_idx
    BY <1>1, <1>4 DEF OwnerInv
<1>6. \A j \in Owners : window[j].lsq_idx = s => j = k
    <2>1. \A j \in Owners : store[window[j].lsq_idx].rob_tag = tag_of(j)
        BY <1>1 DEF OwnerInv
    <2>2. \A j \in Owners : tag_of(j) = tag_of(k) => j = k
        BY <1>1, WindowFacts
    <2> HIDE DEF tag_of
    <2> QED
        BY <1>4, <2>1, <2>2
<1>7. CASE Sources(s) # {}
    <2> DEFINE value == forwarded(s, youngest(Sources(s)))
               entry == [store[s] EXCEPT !.data = value, !.state = "Writeback"]
    <2>1. update_data(s, value) /\ send(store[s].rob_tag, value) /\ UNCHANGED <<ram, core_req, core_rsp>>
        BY <1>7 DEF issue_load, dcache
    <2>2. value = Wanted(k)
        <3> HIDE DEF forwarded, youngest, Sources, Blocking, Wanted
        <3> QED
            BY <1>1, <1>5, <1>7, ForwardedIsWanted
    <2>3. value \in Value
        <3>1. youngest(Sources(s)) \in Sources(s)
            <4>1. Sources(s) \subseteq Slot
                BY <1>1, EntryFacts DEF Sources, Older
            <4> QED
                BY <1>7, <4>1, ScanFinds DEF youngest
        <3> QED
            <4>1. IInv
                BY DEF OrderInv
            <4> QED
                BY <1>3, <3>1, <4>1, ForwardedIsThere
    <2> HIDE DEF value
    <2>4. /\ entry \in Entry /\ entry.instr = store[s].instr /\ entry.rob_tag = store[s].rob_tag
          /\ entry.state = "Writeback" /\ entry.data = value
        BY <1>3, <2>3 DEF Entry
    <2>5. /\ store' = [store EXCEPT ![s] = entry]
          /\ output' = [valid |-> TRUE, rob_tag |-> store[s].rob_tag, value |-> value]
        BY <1>1, <1>3, <2>1 DEF update_data, send, TypeInv
    <2> HIDE DEF entry
    <2>6. output' = [valid |-> TRUE, rob_tag |-> store[s].rob_tag,
                     value |-> IF is_load(entry.instr) THEN Wanted(k) ELSE NULL]
        BY <2>2, <2>4, <2>5
    <2>7. is_load(entry.instr) /\ entry.data = Wanted(k) /\ entry.state # "Committed"
        BY <2>2, <2>4
    <2>8. GetsRead /\ SameServed /\ GetsAnswer
        BY <1>1, <2>1, SameReads, SameAnswers DEF SameServed
    <2>9. Puts(k, s, entry)
        BY <1>5, <2>4, <2>5, <2>7 DEF Puts
    <2> HIDE DEF is_load, is_store, GetsRead, SameServed, GetsAnswer, Wanted
    <2> QED
        BY <1>1, <2>6, <2>7, <2>8, <2>9, OneEntry
<1>8. CASE Sources(s) = {}
    <2> DEFINE entry == [store[s] EXCEPT !.state = "Issued"]
               n == Len(core_req)
    <2>1. /\ core_req' = Append(core_req, Read(s)) /\ UNCHANGED <<output, ram, core_rsp>>
          /\ store' = [store EXCEPT ![s].state = "Issued"]
        BY <1>8 DEF issue_load, Mem!Ask
    <2>2. /\ entry \in Entry /\ entry.instr = store[s].instr /\ entry.rob_tag = store[s].rob_tag
          /\ entry.state = "Issued" /\ entry.data = store[s].data
        BY <1>3 DEF Entry
    <2>3. store' = [store EXCEPT ![s] = entry]
        BY <1>1, <1>3, <2>1 DEF TypeInv
    <2>4. Puts(k, s, entry)
        BY <1>5, <2>2, <2>3 DEF Puts
    <2> HIDE DEF entry
    <2> DEFINE req == Read(s)
    <2>5. req \in ReadReq \cup WriteReq /\ ~req.is_write /\ req.user = s
        <3>1. store[s].instr.addr \in Int /\ store[s].instr.size \in Nat
            BY <1>3, InstrFacts DEF Entry
        <3> QED
            BY <1>3, <3>1 DEF Read, ReadReq
    <2> HIDE DEF req
    <2>6. /\ n \in Nat /\ Len(core_req') = n + 1 /\ core_req'[n + 1] = req
          /\ DOMAIN core_req' = 1 .. n + 1 /\ DOMAIN core_req = 1 .. n
          /\ \A j \in 1 .. n : /\ core_req'[j] = core_req[j]
                               /\ \A a : Served(ram', core_req', j, a) = Served(ram, core_req, j, a)
          /\ \A a : Served(ram', core_req', n + 1, a) =
                IF req.is_write /\ a \in Reach(req) THEN req.data[a - req.addr]
                ELSE Served(ram, core_req, n, a)
        <3>1. core_req' = Append(core_req, req) /\ ram' = ram
            BY <2>1 DEF req
        <3> HIDE DEF Served
        <3> QED
            BY <1>1, <2>5, <3>1, AskedMore
    <2>7. \A a : Served(ram', core_req', n + 1, a) = Served(ram, core_req, n, a)
        BY <2>5, <2>6
    <2>8. SameServed
        BY <2>6, <2>7 DEF SameServed
    <2> HIDE DEF Served, SameServed, RetiredMemory, Finds, Wanted
    <2>9. RetiredMemory' = RetiredMemory
        BY <1>1, <2>4, <2>8, OneEntryKeeps
    <2>10. Owners' = Owners /\ \A j \in Owners : \A a : Finds(j, a)' = Finds(j, a)
        BY <1>1, <2>9, StayFacts
    <2>11. \A a \in Reach(store[s].instr) : Served(ram, core_req, n, a) = Finds(k, a)
        <3>1. Reach(store[s].instr) \subseteq Address
            BY <1>3, InstrFacts DEF Entry
        <3> HIDE DEF Blocking, Sources, Reach
        <3> QED
            BY <1>1, <1>5, <1>8, <3>1, UnforwardedIs
    <2>12. GetsRead
        <3> SUFFICES ASSUME NEW j \in ReadsAsked'
                     PROVE  \/ \E i \in ReadsAsked :
                                   /\ core_req'[j].user = core_req[i].user
                                   /\ \A a \in Address : Served(ram', core_req', j, a) = Served(ram, core_req, i, a)
                            \/ \A i \in Owners' : window'[i].lsq_idx = core_req'[j].user
                                   => \A a \in Reach(window'[i].instr) : Served(ram', core_req', j, a) = Finds(i, a)'
            BY DEF GetsRead
        <3>1. j \in 1 .. n + 1 /\ ~core_req'[j].is_write
            BY <2>6 DEF ReadsAsked
        <3>2. CASE j \in 1 .. n
            <4>1. j \in ReadsAsked
                BY <2>6, <3>1, <3>2 DEF ReadsAsked
            <4> QED
                BY <2>6, <3>2, <4>1
        <3>3. CASE j = n + 1
            <4>1. \A i \in Owners' : window'[i].lsq_idx = core_req'[j].user => i = k
                BY <1>1, <1>6, <2>5, <2>6, <2>10, <3>3
            <4>2. \A a \in Reach(window'[k].instr) : Served(ram', core_req', j, a) = Finds(k, a)'
                BY <1>1, <1>5, <2>7, <2>10, <2>11, <3>3
            <4> QED
                BY <4>1, <4>2
        <3> QED
            BY <2>6, <3>1, <3>2, <3>3
    <2>13. GetsAnswer
        BY <2>1, SameAnswers
    <2> HIDE DEF is_load, is_store, GetsRead, GetsAnswer
    <2> QED
        BY <1>1, <2>1, <2>2, <2>4, <2>8, <2>12, <2>13, OneEntry
<1> QED
    BY <1>7, <1>8

LEMMA StoreRefines ==
    ASSUME OrderInv, OrderInv', ValueInv, NEW s \in Actionable, s = select_oldest_actionable,
           is_store(store[s].instr), issue_store(s), UNCHANGED <<rob, input>>
    PROVE  Refines
<1>1. /\ TypeInv /\ EntryInv /\ TagInv /\ CountIsRight
      /\ UNCHANGED <<window, head_tag, output, ram, core_rsp>>
      /\ core_req' = Append(core_req, Write(s)) /\ release_entry(s)
    BY DEF OrderInv, IInv, ValueInv, rob, issue_store, Mem!Ask
<1>2. s \in Valid /\ s \in Slot /\ store[s] \in Entry /\ store[s].state = "Committed" /\ s \in Committed
    <2>1. ~is_load(store[s].instr)
        BY DEF is_load, is_store
    <2> QED
        BY <1>1, <2>1, EntryFacts DEF Actionable, is_ready_store, is_ready_load, Committed
<1>3. Valid' = Valid \ {s} /\ \A o \in Slot \ {s} : store'[o] = store[o]
    BY <1>1, <1>2, Released
<1>4. \A o \in Valid' : o \in Valid /\ store'[o] = store[o]
    BY <1>1, <1>3, EntryFacts
<1>5. Committed' = Committed \ {s} /\ \A o \in Committed \ {s} : SameEntry(o)
    BY <1>3, <1>4 DEF Committed, SameEntry
<1>6. TagInv'
    BY <1>1, <1>5, TagKept DEF SameEntry
<1>7. \A o \in Committed : ~is_rob_younger(store[s].rob_tag, store[o].rob_tag)
    <2>1. PICK place : IsPlace(place)
        BY <1>1, Places
    <2>2. Actionable \subseteq Live
        <3>1. \A o \in Actionable : o \in Valid /\ store[o].state # "Voided"
            BY DEF Actionable, is_ready_store, is_ready_load
        <3> QED
            BY <3>1 DEF Live, Voided
    <2>3. Committed \subseteq Actionable
        <3>1. \A o \in Committed : o \in Valid /\ store[o].state = "Committed"
            BY DEF Committed
        <3> QED
            BY <1>1, <3>1 DEF Actionable, is_ready_store, EntryInv
    <2>4. \A o \in Actionable : place[s] <= place[o]
        BY <2>1, <2>2, OldestIs DEF select_oldest_actionable
    <2> SUFFICES ASSUME NEW o \in Committed
                 PROVE  ~is_rob_younger(store[s].rob_tag, store[o].rob_tag)
        OBVIOUS
    <2>5. s \in Live /\ o \in Live /\ place[s] <= place[o]
        BY <2>2, <2>3, <2>4
    <2>6. place[s] \in Int /\ place[o] \in Int
        BY <2>1, <2>5 DEF IsPlace
    <2>7. is_rob_younger(store[s].rob_tag, store[o].rob_tag) <=> place[s] > place[o]
        BY <2>1, <2>5 DEF IsPlace
    <2> HIDE DEF is_rob_younger
    <2> QED
        BY <2>5, <2>6, <2>7
<1> DEFINE n == Len(core_req)
           req == Write(s)
<1>8. /\ req \in ReadReq \cup WriteReq /\ req.is_write
      /\ Reach(req) = Reach(store[s].instr) /\ req.addr = store[s].instr.addr /\ req.data = store[s].instr.data
    <2>1. store[s].instr \in Stores /\ store[s].data = store[s].instr.data
        BY <1>1, <1>2, InstrFacts DEF EntryInv, Entry
    <2> QED
        BY <2>1 DEF Write, WriteReq, Reach
<1> HIDE DEF req
<1>9. /\ n \in Nat /\ Len(core_req') = n + 1 /\ core_req'[n + 1] = req
      /\ DOMAIN core_req' = 1 .. n + 1 /\ DOMAIN core_req = 1 .. n
      /\ \A j \in 1 .. n : /\ core_req'[j] = core_req[j]
                           /\ \A a : Served(ram', core_req', j, a) = Served(ram, core_req, j, a)
      /\ \A a : Served(ram', core_req', n + 1, a) =
            IF req.is_write /\ a \in Reach(req) THEN req.data[a - req.addr]
            ELSE Served(ram, core_req, n, a)
    <2>1. core_req' = Append(core_req, req) /\ ram' = ram
        BY <1>1 DEF req
    <2> HIDE DEF Served
    <2> QED
        BY <1>1, <1>8, <2>1, AskedMore
<1>10. \A a \in Address : Served(ram', core_req', Len(core_req'), a) =
           IF Reaches(s, a) THEN store[s].instr.data[a - store[s].instr.addr]
           ELSE Served(ram, core_req, Len(core_req), a)
    <2> HIDE DEF Served, Reach
    <2> QED
        BY <1>8, <1>9 DEF Reaches
<1>11. RetiredMemory' = RetiredMemory
    <2> HIDE DEF Served, RetiredMemory, Reaches, is_rob_younger
    <2> QED
        BY <1>1, <1>2, <1>5, <1>6, <1>7, <1>10, RetiredSent
<1>12. GetsRead
    <2> HIDE DEF Served
    <2>1. \A j \in ReadsAsked' : j \in ReadsAsked /\ j \in 1 .. n
        BY <1>8, <1>9 DEF ReadsAsked
    <2> QED
        BY <1>9, <2>1 DEF GetsRead
<1>13. GetsData /\ GetsOutput /\ GetsAnswer
    BY <1>1, <1>4, SameAnswers DEF GetsData, GetsOutput
<1> HIDE DEF RetiredMemory, GetsRead, GetsData, GetsOutput, GetsAnswer
<1> QED
    BY <1>1, <1>6, <1>11, <1>12, <1>13, Stays

------------------------------------------------------------------------------
(* The cache serves the first request. *)
LEMMA FirstServed ==
    ASSUME NEW memory, NEW reqs, NEW a
    PROVE  Served(memory, reqs, 1, a) = IF reqs[1].is_write /\ a \in Reach(reqs[1])
                                        THEN reqs[1].data[a - reqs[1].addr] ELSE memory[a]
<1>1. \A n \in Nat : \A m : m = n + 1 =>
          Served(memory, reqs, m, a) = IF reqs[m].is_write /\ a \in Reach(reqs[m])
                                       THEN reqs[m].data[a - reqs[m].addr] ELSE Served(memory, reqs, n, a)
    <2> SUFFICES ASSUME NEW n \in Nat
                 PROVE  Served(memory, reqs, n + 1, a) =
                            IF reqs[n + 1].is_write /\ a \in Reach(reqs[n + 1])
                            THEN reqs[n + 1].data[a - reqs[n + 1].addr] ELSE Served(memory, reqs, n, a)
        OBVIOUS
    <2> QED
        BY ServedFacts
<1>2. Served(memory, reqs, 0, a) = memory[a]
    BY DEF Served, Asked, LastOf
<1>3. 0 \in Nat /\ 1 = 0 + 1
    OBVIOUS
<1> HIDE DEF Served
<1> QED
    BY <1>1, <1>2, <1>3

LEMMA ServesFirst ==
    ASSUME TypeInv, core_req # <<>>, core_req' = Tail(core_req),
           \A a \in Address : ram'[a] = IF core_req[1].is_write /\ a \in Reach(core_req[1])
                                        THEN core_req[1].data[a - core_req[1].addr] ELSE ram[a]
    PROVE  SameServed /\ GetsRead
<1> DEFINE n == Len(core_req) - 1
           reqs == core_req
           other == core_req'
           after == ram'
<1>1. /\ core_req' \in Seq(ReadReq \cup WriteReq) /\ Len(core_req') = n /\ DOMAIN core_req' = 1 .. n
      /\ n \in Nat /\ n + 1 = Len(core_req) /\ DOMAIN core_req = 1 .. n + 1
      /\ \A i \in 1 .. n : other[i] = reqs[i + 1]
    BY TailFacts DEF TypeInv
<1>2. \A a \in Address : after[a] = Served(ram, reqs, 1, a)
    <2> SUFFICES ASSUME NEW a \in Address PROVE after[a] = Served(ram, reqs, 1, a)
        OBVIOUS
    <2>1. Served(ram, reqs, 1, a) = IF reqs[1].is_write /\ a \in Reach(reqs[1])
                                    THEN reqs[1].data[a - reqs[1].addr] ELSE ram[a]
        BY FirstServed
    <2> HIDE DEF Served, Reach
    <2> QED
        BY <2>1
<1>3. \A m \in 0 .. n : \A a \in Address : Served(after, other, m, a) = Served(ram, reqs, m + 1, a)
    <2> HIDE DEF n, reqs, other, after
    <2> SUFFICES ASSUME NEW m \in 0 .. n, NEW a \in Address
                 PROVE  Served(after, other, m, a) = Served(ram, reqs, m + 1, a)
        OBVIOUS
    <2>1. m \in Nat /\ \A i \in 1 .. m : other[i] = reqs[i + 1]
        BY <1>1
    <2>2. after[a] = Served(ram, reqs, 1, a)
        BY <1>2
    <2> HIDE DEF Served
    <2> QED
        BY <2>1, <2>2, ServedFacts
<1>4. SameServed
    <2>1. n \in 0 .. n
        BY <1>1
    <2> HIDE DEF Served
    <2> QED
        BY <1>1, <1>3, <2>1 DEF SameServed
<1>5. GetsRead
    <2> SUFFICES ASSUME NEW j \in ReadsAsked'
                 PROVE  \E i \in ReadsAsked :
                            /\ core_req'[j].user = core_req[i].user
                            /\ \A a \in Address : Served(ram', core_req', j, a) = Served(ram, core_req, i, a)
        BY DEF GetsRead
    <2>1. j \in 1 .. n /\ ~core_req'[j].is_write
        BY <1>1 DEF ReadsAsked
    <2> DEFINE i == j + 1
    <2>2. i \in 1 .. n + 1 /\ core_req'[j] = core_req[i] /\ j \in 0 .. n
        BY <1>1, <2>1
    <2>3. \A a \in Address : Served(ram', core_req', j, a) = Served(ram, core_req, i, a)
        BY <1>3, <2>2
    <2>4. i \in ReadsAsked
        BY <1>1, <2>1, <2>2 DEF ReadsAsked
    <2> HIDE DEF Served, i
    <2> QED
        BY <2>2, <2>3, <2>4
<1> QED
    BY <1>4, <1>5

LEMMA CacheRefines ==
    ASSUME OrderInv, OrderInv', ValueInv, UNCHANGED <<rob, lsq, unit>>, SameServed, GetsRead, GetsAnswer
    PROVE  Refines
<1>1. /\ TypeInv /\ TypeInv' /\ TagInv
      /\ UNCHANGED <<window, head_tag, store, output>>
    BY DEF OrderInv, IInv, ValueInv, rob, lsq, unit
<1>2. Valid' = Valid /\ Committed' = Committed /\ \A s \in Committed : SameEntry(s)
    BY <1>1 DEF Valid, Committed, SameEntry
<1>3. TagInv'
    BY <1>1, <1>2, TagKept
<1>4. RetiredMemory' = RetiredMemory
    <2> HIDE DEF RetiredMemory, SameServed
    <2> QED
        BY <1>1, <1>2, <1>3, RetiredKept
<1>5. GetsData /\ GetsOutput
    BY <1>1, <1>2 DEF GetsData, GetsOutput
<1> HIDE DEF RetiredMemory, GetsRead, GetsData, GetsOutput, GetsAnswer
<1> QED
    BY <1>1, <1>3, <1>4, <1>5, Stays

LEMMA WriteRefines ==
    ASSUME OrderInv, OrderInv', ValueInv, Mem!Write, UNCHANGED <<rob, lsq, unit>>
    PROVE  Refines
<1>1. TypeInv
    BY DEF OrderInv, IInv
<1>2. /\ core_req # <<>> /\ Head(core_req).is_write /\ core_req' = Tail(core_req) /\ UNCHANGED core_rsp
      /\ Head(core_req) = core_req[1]
    BY <1>1 DEF Mem!Write, TypeInv
<1>3. \A a \in Address : ram'[a] = IF core_req[1].is_write /\ a \in Reach(core_req[1])
                                   THEN core_req[1].data[a - core_req[1].addr] ELSE ram[a]
    BY <1>2 DEF Mem!Write, Mem!Reach, Reach
<1>4. SameServed /\ GetsRead
    BY <1>1, <1>2, <1>3, ServesFirst
<1>5. GetsAnswer
    BY <1>2, SameAnswers
<1> HIDE DEF SameServed, GetsRead, GetsAnswer
<1> QED
    BY <1>4, <1>5, CacheRefines

LEMMA ReadRefines ==
    ASSUME OrderInv, OrderInv', ValueInv, Mem!Read, UNCHANGED <<rob, lsq, unit>>
    PROVE  Refines
<1> DEFINE req == core_req[1]
           rsp == [user |-> req.user, data |-> [i \in 0 .. req.size - 1 |-> ram[req.addr + i]]]
           n == Len(core_rsp)
<1>1. /\ TypeInv /\ TypeInv' /\ TagInv /\ ReadInv /\ PacketInv /\ OwnerInv /\ ChannelInv
      /\ UNCHANGED <<window, head_tag, store, output, ram>>
    BY DEF OrderInv, IInv, ValueInv, rob, lsq, unit, Mem!Read
<1>2. /\ core_req # <<>> /\ core_req' = Tail(core_req)
      /\ Head(core_req) = req /\ ~req.is_write /\ 1 \in DOMAIN core_req /\ 1 \in ReadsAsked
      /\ core_rsp' = Append(core_rsp, rsp)
    <2>1. core_req # <<>> /\ core_req' = Tail(core_req) /\ ~Head(core_req).is_write
          /\ Head(core_req) = req /\ 1 \in DOMAIN core_req
        BY <1>1 DEF Mem!Read, TypeInv
    <2> QED
        BY <2>1 DEF Mem!Read, ReadsAsked
<1>3. SameServed /\ GetsRead
    <2>1. \A a \in Address : ram'[a] = IF core_req[1].is_write /\ a \in Reach(core_req[1])
                                       THEN core_req[1].data[a - core_req[1].addr] ELSE ram[a]
        BY <1>1, <1>2
    <2> HIDE DEF SameServed, GetsRead, Reach
    <2> QED
        BY <1>1, <1>2, <2>1, ServesFirst
<1>4. RetiredMemory' = RetiredMemory
    <2>1. Committed' = Committed /\ \A s \in Committed : SameEntry(s)
        BY <1>1 DEF Valid, Committed, SameEntry
    <2>2. TagInv'
        BY <1>1, <2>1, TagKept
    <2> HIDE DEF RetiredMemory, SameServed
    <2> QED
        BY <1>1, <1>3, <2>1, <2>2, RetiredKept
<1>5. \A k \in Owners : window[k].lsq_idx = req.user => rsp.data = Wanted(k)
    <2> SUFFICES ASSUME NEW k \in Owners, window[k].lsq_idx = req.user PROVE rsp.data = Wanted(k)
        OBVIOUS
    <2> DEFINE instr == window[k].instr
    <2>1. store[req.user].instr = instr /\ instr \in Loads \cup Stores
        BY <1>1, WindowFacts DEF OwnerInv
    <2>2. req.addr = instr.addr /\ req.size = instr.size
        BY <1>1, <1>2, <2>1 DEF PacketInv
    <2>3. instr.addr \in Int /\ instr.size \in Nat \ {0} /\ Reach(instr) \subseteq Address
        BY <2>1, InstrFacts
    <2>4. \A a \in Reach(instr) : Served(ram, core_req, 1, a) = Finds(k, a)
        BY <1>1, <1>2 DEF ReadInv
    <2>5. \A a \in Reach(instr) : ram[a] = Finds(k, a)
        <3> SUFFICES ASSUME NEW a \in Reach(instr) PROVE ram[a] = Finds(k, a)
            OBVIOUS
        <3>1. Served(ram, core_req, 1, a) = ram[a]
            <4>1. Served(ram, core_req, 1, a) = IF core_req[1].is_write /\ a \in Reach(core_req[1])
                                                THEN core_req[1].data[a - core_req[1].addr] ELSE ram[a]
                BY FirstServed
            <4> HIDE DEF Served
            <4> QED
                BY <1>2, <4>1
        <3> HIDE DEF Served, Finds
        <3> QED
            BY <2>4, <3>1
    <2> HIDE DEF instr, Finds
    <2>6. \A i \in 0 .. instr.size - 1 : ram[instr.addr + i] = Finds(k, instr.addr + i)
        BY <2>3, <2>5 DEF Reach
    <2>7. rsp.data = [i \in 0 .. instr.size - 1 |-> ram[instr.addr + i]]
        BY <2>2
    <2> QED
        BY <2>6, <2>7 DEF Wanted, instr
<1>6. GetsAnswer
    <2>1. /\ n \in Nat /\ DOMAIN core_rsp = 1 .. n /\ DOMAIN core_rsp' = 1 .. n + 1
          /\ core_rsp'[n + 1] = rsp /\ \A i \in 1 .. n : core_rsp'[i] = core_rsp[i]
        <3>1. core_rsp \in Seq(Rsp)
            BY <1>1 DEF TypeInv
        <3> HIDE DEF rsp
        <3> QED
            BY <1>2, <3>1
    <2>2. Owners' = Owners /\ \A k \in Owners : Wanted(k)' = Wanted(k)
        <3> HIDE DEF RetiredMemory, Wanted, Finds, tag_of
        <3> QED
            BY <1>1, <1>4, StayFacts
    <2> SUFFICES ASSUME NEW i \in DOMAIN core_rsp'
                 PROVE  \/ \E j \in DOMAIN core_rsp : core_rsp'[i] = core_rsp[j]
                        \/ \A k \in Owners' : window'[k].lsq_idx = core_rsp'[i].user => core_rsp'[i].data = Wanted(k)'
        BY DEF GetsAnswer
    <2> HIDE DEF Wanted
    <2>3. CASE i \in 1 .. n
        BY <2>1, <2>3
    <2>4. CASE i = n + 1
        <3>1. core_rsp'[i] = rsp /\ rsp.user = req.user
            BY <2>1, <2>4
        <3>2. \A k \in Owners : window[k].lsq_idx = rsp.user => rsp.data = Wanted(k)'
            BY <1>5, <2>2, <3>1
        <3> HIDE DEF rsp
        <3> QED
            BY <1>1, <2>2, <3>1, <3>2
    <2> QED
        BY <2>1, <2>3, <2>4
<1> HIDE DEF SameServed, GetsRead, GetsAnswer
<1> QED
    BY <1>3, <1>6, CacheRefines

(* An instruction is issued: nothing is older than what was there. *)
LEMMA IssueRefines ==
    ASSUME OrderInv, OrderInv', ValueInv, NEW instr \in Instr, issue(instr)
    PROVE  Refines
<1> DEFINE n == Len(window)
           item == [instr |-> instr, waiting |-> TRUE, ready |-> FALSE, result |-> NULL,
                    lsq_idx |-> IF is_lsu(instr) THEN slot_at(first_free) ELSE NULL]
           f == slot_at(first_free)
           tag == tag_of(n + 1)
<1>1. /\ TypeInv /\ TypeInv' /\ TagInv /\ ResultInv /\ CountIsRight
      /\ UNCHANGED <<head_tag, input, output, ram, core_req, core_rsp>>
      /\ window' = Append(window, item) /\ n < WINDOW
    BY DEF OrderInv, IInv, ValueInv, issue, unit, dcache
<1>2. n \in Nat /\ n + 1 \in 1 .. 2 * ROB_SIZE /\ DOMAIN window = 1 .. n /\ head_tag \in Tag /\ tag \in Tag
    <2>1. n \in Nat /\ n + 1 \in 1 .. 2 * ROB_SIZE /\ head_tag \in Tag /\ DOMAIN window = 1 .. n
        BY <1>1, Sizes DEF TypeInv
    <2> QED
        BY <2>1, TagsOf
<1>3. /\ Len(window') = n + 1 /\ DOMAIN window' = 1 .. n + 1 /\ window'[n + 1] = item
      /\ \A j \in DOMAIN window : window'[j] = window[j]
    <2> DEFINE S == InFlight \cup {item}
    <2>1. window \in Seq(S) /\ item \in S
        BY <1>1 DEF TypeInv
    <2> HIDE DEF S, item
    <2> QED
        BY <1>1, <1>2, <2>1, AppendFacts
<1>4. item.instr = instr /\ ~item.ready /\ item.result = NULL /\ (is_lsu(instr) => item.lsq_idx = f)
    OBVIOUS
<1>5. /\ Valid \subseteq Valid' /\ \A o \in Valid : store'[o] = store[o]
      /\ \A o \in Valid' \ Valid : store'[o].data = NULL /\ store'[o].state = "Pending"
      /\ is_lsu(instr) => f \notin Valid
    <2>1. CASE is_lsu(instr)
        <3>1. instr \in Loads \cup Stores /\ count # NUM_LSQS /\ allocate(tag, instr)
            BY <2>1, InstrFacts DEF issue
        <3> HIDE DEF tag
        <3>2. /\ f \in Slot \ Valid /\ Valid' = Valid \cup {f}
              /\ store'[f] = [valid |-> TRUE, state |-> "Pending", addr_valid |-> FALSE, data |-> NULL,
                              rob_tag |-> tag, instr |-> instr]
              /\ \A o \in Slot \ {f} : store'[o] = store[o]
            BY <1>1, <1>2, <3>1, Allocated
        <3>3. store'[f].data = NULL /\ store'[f].state = "Pending"
            BY <3>2
        <3>4. Valid \subseteq Slot
            BY <1>1, EntryFacts
        <3> HIDE DEF f
        <3> QED
            BY <3>2, <3>3, <3>4
    <2>2. CASE ~is_lsu(instr)
        <3>1. store' = store
            BY <2>2 DEF issue, lsq
        <3> QED
            BY <2>2, <3>1 DEF Valid
    <2> QED
        BY <2>1, <2>2
<1> HIDE DEF item, f, tag
<1>6. Committed' = Committed /\ \A s \in Committed : SameEntry(s)
    <2>1. \A o \in Valid' : o \in Valid \/ store'[o].state # "Committed"
        BY <1>5
    <2>2. \A o \in Valid : o \in Valid' /\ (store'[o].state = "Committed" <=> store[o].state = "Committed")
        BY <1>5
    <2>3. Committed' = Committed
        BY <2>1, <2>2 DEF Committed
    <2> QED
        BY <1>5, <2>3 DEF Committed, SameEntry
<1>7. TagInv' /\ RetiredMemory' = RetiredMemory
    <2> HIDE DEF RetiredMemory
    <2> QED
        BY <1>1, <1>6, SameMemory
<1>8. Steady
    BY <1>1, <1>3, <1>7 DEF Steady
<1>9. ResultInv'
    <2>1. \A j \in DOMAIN window' : j \in DOMAIN window \/ j = n + 1
        BY <1>2, <1>3
    <2> QED
        BY <1>1, <1>3, <1>4, <2>1 DEF ResultInv
<1>10. KeepsSlots
    <2>1. \A j \in Owners' : j \in DOMAIN window' /\ is_lsu(window'[j].instr)
        BY DEF Owners
    <2>2. \A j \in DOMAIN window' : j \in DOMAIN window \/ j = n + 1
        BY <1>2, <1>3
    <2> QED
        BY <1>3, <1>4, <1>5, <2>1, <2>2 DEF KeepsSlots
<1>11. GetsData /\ GetsOutput
    BY <1>1, <1>5 DEF GetsData, GetsOutput
<1>12. GetsRead /\ GetsAnswer
    BY <1>1, SameReads, SameAnswers
<1>13. ValueInv'
    <2> HIDE DEF RetiredMemory, GetsRead, GetsAnswer, GetsData, GetsOutput, KeepsSlots, Steady
    <2> QED
        BY <1>7, <1>8, <1>9, <1>10, <1>11, <1>12, ValueKept
<1>14. Order!Issue(instr)
    <2>1. ItemOf(item) = [instr |-> instr, ready |-> FALSE, result |-> NULL]
        BY DEF ItemOf, item
    <2> HIDE DEF RetiredMemory, Results, ItemOf, Order!Issue
    <2> QED
        BY <1>1, <1>7, <2>1, MapsIssue
<1> QED
    BY <1>7, <1>13, <1>14 DEF Refines, Order!Next

(* A flush takes what is younger than the branch: no store that has retired,
   and nothing an older instruction has. *)
LEMMA FlushRefines ==
    ASSUME OrderInv, OrderInv', ValueInv, NEW k \in DOMAIN window, mispredicted(k)
    PROVE  Refines
<1> DEFINE n == Len(window)
           tag == tag_of(k)
           Flushed == {s \in Valid : is_rob_younger(store[s].rob_tag, tag)}
<1>1. /\ TypeInv /\ TypeInv' /\ TagInv /\ ResultInv /\ AgeInv
      /\ UNCHANGED <<head_tag, ram, core_req, core_rsp>>
      /\ output' = output \/ output' = NoOutput
      /\ ~window[k].ready /\ window[k].instr.op = "branch"
    BY DEF OrderInv, IInv, ValueInv, mispredicted, unresolved, LSU_invalidate, dcache
<1>2. /\ n \in Nat /\ k \in 1 .. n /\ n <= ROB_SIZE /\ DOMAIN window = 1 .. n /\ head_tag \in Tag
      /\ window \in Seq(InFlight) /\ window[k] \in InFlight /\ tag \in Tag /\ tag = tag_of(k)
    BY <1>1, Sizes, WindowFacts DEF TypeInv
<1>3. /\ Len(window') = k /\ DOMAIN window' = 1 .. k
      /\ \A j \in 1 .. k : j # k => window'[j] = window[j]
      /\ window'[k].instr = window[k].instr /\ window'[k].ready /\ window'[k].result = window[k].result
      /\ window'[k].lsq_idx = window[k].lsq_idx
    <2> DEFINE item == [window[k] EXCEPT !.ready = TRUE]
               marked == [window EXCEPT ![k] = item]
    <2>1. window' = SubSeq(marked, 1, k)
        BY DEF mispredicted, resolved
    <2>2. /\ item \in InFlight /\ item.instr = window[k].instr /\ item.ready /\ item.result = window[k].result
          /\ item.lsq_idx = window[k].lsq_idx
        BY <1>2 DEF InFlight
    <2> HIDE DEF item
    <2>3. marked \in Seq(InFlight) /\ Len(marked) = n
          /\ \A j \in 1 .. n : marked[j] = IF j = k THEN item ELSE window[j]
        BY <1>2, <2>2
    <2> HIDE DEF marked, n
    <2>4. /\ Len(window') = k /\ DOMAIN window' = 1 .. k
          /\ \A j \in 1 .. k : window'[j] = marked[j]
        BY <1>2, <2>1, <2>3
    <2> QED
        BY <1>2, <2>2, <2>3, <2>4
<1> HIDE DEF tag, Flushed, n, tag_of, is_rob_younger
<1>4. /\ \A s \in Slot : store'[s] = IF s \in Flushed THEN after_flush(store[s]) ELSE store[s]
      /\ Flushed \subseteq Valid /\ Valid \subseteq Slot /\ Valid' \subseteq Slot
      /\ \A s \in Valid : store[s] \in Entry
      /\ \A s \in Flushed : is_rob_younger(store[s].rob_tag, tag)
    <2>1. \A s \in Slot : store'[s] = IF s \in Flushed THEN after_flush(store[s]) ELSE store[s]
        BY <1>2 DEF mispredicted, LSQ_invalidate, Flushed
    <2>2. Valid' \subseteq Slot
        BY DEF Valid
    <2> QED
        BY <1>1, <2>1, <2>2, EntryFacts DEF Flushed
<1>5. \A s \in Committed : s \in Valid \ Flushed
    <2> SUFFICES ASSUME NEW s \in Committed PROVE s \in Valid \ Flushed
        OBVIOUS
    <2>1. PICK age \in 1 .. ROB_SIZE : /\ head_tag = (store[s].rob_tag + age) % (2 * ROB_SIZE)
                                       /\ age + n <= ROB_SIZE
        BY <1>1 DEF AgeInv, n
    <2>2. s \in Valid /\ store[s].rob_tag \in Tag /\ k \in 1 .. ROB_SIZE /\ age + k <= ROB_SIZE + 1
        <3>1. s \in Valid
            BY DEF Committed
        <3>2. store[s].rob_tag \in Tag
            BY <1>4, <3>1 DEF Entry
        <3> QED
            BY <1>2, <2>1, <3>1, <3>2, Sizes
    <2>3. ~is_rob_younger(store[s].rob_tag, tag)
        BY <1>2, <2>1, <2>2, OldTag
    <2> QED
        BY <1>4, <2>2, <2>3
<1>6. \A s \in Valid' : /\ s \in Valid /\ store'[s].data = store[s].data /\ store'[s].instr = store[s].instr
                        /\ s \in Flushed => store'[s].state = "Voided"
                        /\ s \notin Flushed => store'[s] = store[s]
    <2> SUFFICES ASSUME NEW s \in Valid'
                 PROVE  /\ s \in Valid /\ store'[s].data = store[s].data /\ store'[s].instr = store[s].instr
                        /\ s \in Flushed => store'[s].state = "Voided"
                        /\ s \notin Flushed => store'[s] = store[s]
        OBVIOUS
    <2>1. s \in Slot /\ store'[s].valid
        BY DEF Valid
    <2>2. CASE s \in Flushed
        <3>1. s \in Valid /\ store[s] \in Entry
            BY <1>4, <2>2
        <3>2. store'[s] = after_flush(store[s])
            BY <1>4, <2>1, <2>2
        <3>3. store'[s] # NoEntry
            BY <2>1 DEF NoEntry
        <3>4. store'[s] = [store[s] EXCEPT !.state = "Voided"]
            BY <3>2, <3>3 DEF after_flush
        <3> QED
            BY <2>2, <3>1, <3>4 DEF Entry
    <2>3. CASE s \notin Flushed
        <3>1. store'[s] = store[s]
            BY <1>4, <2>1, <2>3
        <3> QED
            BY <2>1, <2>3, <3>1 DEF Valid
    <2> QED
        BY <2>2, <2>3
<1>7. Committed' = Committed /\ \A s \in Committed : SameEntry(s)
    <2>1. \A s \in Committed : s \in Valid' /\ store'[s] = store[s]
        <3>1. \A s \in Committed : s \in Slot /\ store'[s] = store[s]
            BY <1>4, <1>5
        <3> QED
            BY <1>5, <3>1 DEF Valid
    <2>2. \A s \in Committed' : s \in Committed
        <3>1. \A s \in Committed' : s \in Valid' /\ store'[s].state = "Committed"
            BY DEF Committed
        <3> QED
            BY <1>6, <3>1 DEF Committed
    <2>3. \A s \in Committed : s \in Committed'
        BY <2>1 DEF Committed
    <2> QED
        BY <2>1, <2>2, <2>3 DEF SameEntry
<1>8. TagInv' /\ RetiredMemory' = RetiredMemory
    <2> HIDE DEF RetiredMemory
    <2> QED
        BY <1>1, <1>7, SameMemory
<1>9. DOMAIN window' \subseteq DOMAIN window
    BY <1>2, <1>3
<1>10. Steady
    BY <1>1, <1>3, <1>8 DEF Steady
<1>11. ResultInv'
    BY <1>1, <1>3, <1>9 DEF ResultInv
<1>12. KeepsSlots
    <2>1. Owners' \subseteq DOMAIN window'
        BY DEF Owners
    <2> QED
        BY <1>3, <1>9, <2>1 DEF KeepsSlots
<1>13. GetsData
    BY <1>6 DEF GetsData
<1>14. GetsOutput
    BY <1>1 DEF GetsOutput, NoOutput
<1>15. GetsRead /\ GetsAnswer
    BY <1>1, SameReads, SameAnswers
<1>16. ValueInv'
    <2> HIDE DEF RetiredMemory, GetsRead, GetsAnswer, GetsData, GetsOutput, KeepsSlots, Steady
    <2> QED
        BY <1>8, <1>10, <1>11, <1>12, <1>13, <1>14, <1>15, ValueKept
<1>17. ItemOf(window'[k]) = Done(k)
    <2>1. Order!ResultOf(k) = NULL
        BY <1>1, ResultOfIs DEF is_load
    <2>2. window'[k].result = NULL
        BY <1>1, <1>3 DEF ResultInv
    <2>3. window'[k].ready = TRUE
        <3>1. window'[k] \in InFlight
            BY <1>1, <1>2, <1>3 DEF TypeInv
        <3> QED
            BY <1>3, <3>1 DEF InFlight
    <2> HIDE DEF Order!ResultOf
    <2> QED
        BY <1>3, <2>1, <2>2, <2>3 DEF ItemOf, Done
<1>18. \A j \in 1 .. k - 1 : ItemOf(window'[j]) = ItemOf(window[j])
    <2>1. \A j \in 1 .. k - 1 : j \in 1 .. k /\ j # k
        BY <1>2
    <2> QED
        BY <1>3, <2>1 DEF ItemOf
<1>19. k \in DOMAIN Results /\ Order!Mispredict(k)
    <2> HIDE DEF RetiredMemory, Results, Order!Mispredict, Done, ItemOf
    <2> QED
        BY <1>1, <1>3, <1>8, <1>17, <1>18, MapsMispredict
<1> QED
    BY <1>8, <1>16, <1>19 DEF Refines, Order!Next

(* The head of the window retires: what follows it reads what it did, from
   memory where the head's store was. *)
HeadRetires ==
    /\ window # <<>> /\ Head(window).ready /\ window' = Tail(window)
    /\ head_tag' = (head_tag + 1) % (2 * ROB_SIZE)
    /\ UNCHANGED <<output, ram, core_req, core_rsp>>
    /\ \A o \in Valid' : /\ o \in Valid /\ store'[o].instr = store[o].instr
                         /\ store'[o].data = store[o].data
    /\ \A a \in Address :
           RetiredMemory'[a] = IF WritesTo(window[1].instr, a)
                               THEN window[1].instr.data[a - window[1].instr.addr] ELSE RetiredMemory[a]

LEMMA MovesUp ==
    ASSUME OrderInv, OrderInv', HeadRetires
    PROVE  \A k \in Owners' :
               /\ k + 1 \in Owners /\ window'[k] = window[k + 1] /\ tag_of(k)' = tag_of(k + 1)
               /\ Wanted(k)' = Wanted(k + 1)
               /\ \A a \in Reach(window'[k].instr) : Finds(k, a)' = Finds(k + 1, a)
<1> SUFFICES ASSUME NEW k \in Owners'
             PROVE  /\ k + 1 \in Owners /\ window'[k] = window[k + 1] /\ tag_of(k)' = tag_of(k + 1)
                    /\ Wanted(k)' = Wanted(k + 1)
                    /\ \A a \in Reach(window'[k].instr) : Finds(k, a)' = Finds(k + 1, a)
    OBVIOUS
<1>1. /\ window \in Seq(InFlight) /\ window # <<>> /\ window' = Tail(window)
      /\ Len(window) <= ROB_SIZE /\ head_tag \in Tag
      /\ head_tag' = (head_tag + 1) % (2 * ROB_SIZE)
    BY Sizes DEF OrderInv, IInv, TypeInv, HeadRetires
<1>2. /\ DOMAIN window = 1 .. Len(window) /\ Len(window) \in Nat /\ DOMAIN window' = 1 .. Len(window) - 1
      /\ \A j \in 1 .. Len(window) - 1 : window'[j] = window[j + 1]
    BY <1>1, TailFacts
<1>3. k \in 1 .. Len(window) - 1 /\ k \in Nat \ {0} /\ is_lsu(window'[k].instr) /\ k \in 1 .. ROB_SIZE
    BY <1>1, <1>2, Sizes DEF Owners
<1>4. window'[k] = window[k + 1] /\ k + 1 \in Owners
    BY <1>2, <1>3 DEF Owners
<1>5. tag_of(k)' = tag_of(k + 1)
    <2> HIDE DEF tag_of
    <2> QED
        BY <1>1, <1>3, NextTag
<1>6. Reach(window'[k].instr) \subseteq Address /\ window'[k].instr.addr \in Int /\ window'[k].instr.size \in Nat \ {0}
    <2>1. k + 1 \in 1 .. Len(window)
        BY <1>2, <1>3
    <2>2. window[k + 1] \in InFlight
        BY <1>1, <2>1
    <2>3. window'[k].instr \in Instr
        BY <1>4, <2>2 DEF InFlight
    <2> QED
        BY <1>3, <2>3, InstrFacts
<1>7. \A a \in Address : Finds(k, a)' = Finds(k + 1, a)
    <2> SUFFICES ASSUME NEW a \in Address PROVE Finds(k, a)' = Finds(k + 1, a)
        OBVIOUS
    <2> DEFINE memory == RetiredMemory
               after == RetiredMemory'
               other == window'
    <2>1. \A j \in 1 .. k - 1 : other[j].instr = window[j + 1].instr
        BY <1>2, <1>3
    <2>2. after[a] = IF WritesTo(window[1].instr, a)
                     THEN window[1].instr.data[a - window[1].instr.addr] ELSE memory[a]
        BY DEF HeadRetires
    <2> HIDE DEF memory, after, other
    <2>3. k \in Nat \ {0}
        BY <1>3
    <2>4. Seen(after, other, k, a) = Seen(memory, window, k + 1, a)
        BY <2>1, <2>2, <2>3, SeenFacts
    <2> QED
        BY <2>4 DEF Finds, memory, after, other
<1>8. \A a \in Reach(window'[k].instr) : Finds(k, a)' = Finds(k + 1, a)
    BY <1>6, <1>7
<1>9. Wanted(k)' = Wanted(k + 1)
    <2> DEFINE instr == window[k + 1].instr
               memory == RetiredMemory
               after == RetiredMemory'
               other == window'
    <2>1. \A i \in 0 .. instr.size - 1 : instr.addr + i \in Address
        BY <1>4, <1>6 DEF Reach
    <2>2. \A a \in Address : Seen(after, other, k, a) = Seen(memory, window, k + 1, a)
        BY <1>7 DEF Finds
    <2>3. Wanted(k + 1) = [i \in 0 .. instr.size - 1 |-> Seen(memory, window, k + 1, instr.addr + i)]
        BY DEF Wanted, Finds
    <2>4. Wanted(k)' = [i \in 0 .. other[k].instr.size - 1 |-> Seen(after, other, k, other[k].instr.addr + i)]
        BY DEF Wanted, Finds
    <2>5. other[k].instr = instr
        BY <1>4
    <2> HIDE DEF Seen, Wanted, instr, memory, after, other
    <2>6. Wanted(k)' = [i \in 0 .. instr.size - 1 |-> Seen(after, other, k, instr.addr + i)]
        BY <2>4, <2>5
    <2> QED
        BY <2>1, <2>2, <2>3, <2>6
<1> QED
    BY <1>4, <1>5, <1>8, <1>9

LEMMA RetireRefines ==
    ASSUME OrderInv, OrderInv', ValueInv, TagInv', HeadRetires
    PROVE  Refines
<1>1. /\ TypeInv /\ TypeInv' /\ OwnerInv'
      /\ ResultInv /\ DataInv /\ OutputInv /\ AnswerInv /\ ReadInv
      /\ window # <<>> /\ Head(window).ready /\ window' = Tail(window)
      /\ UNCHANGED <<output, ram, core_req, core_rsp>>
      /\ \A o \in Valid' : /\ o \in Valid /\ store'[o].instr = store[o].instr
                           /\ store'[o].data = store[o].data
    BY DEF OrderInv, IInv, ValueInv, HeadRetires
<1>2. \A k \in Owners' :
          /\ k + 1 \in Owners /\ window'[k] = window[k + 1] /\ tag_of(k)' = tag_of(k + 1)
          /\ Wanted(k)' = Wanted(k + 1)
          /\ \A a \in Reach(window'[k].instr) : Finds(k, a)' = Finds(k + 1, a)
    BY MovesUp
<1>3. ResultInv'
    <2>1. \A k \in DOMAIN window' : k + 1 \in DOMAIN window /\ window'[k] = window[k + 1]
        <3>1. window \in Seq(InFlight)
            BY <1>1 DEF TypeInv
        <3> QED
            BY <1>1, <3>1
    <2> QED
        BY <1>1, <2>1 DEF ResultInv
<1> HIDE DEF Wanted, Finds, tag_of, is_load, is_store
<1>4. DataInv'
    <2>1. \A s \in Valid' : is_store(store'[s].instr) /\ store'[s].data # NULL
                                => store'[s].data = store'[s].instr.data
        BY <1>1 DEF DataInv
    <2>2. ASSUME NEW k \in Owners', is_load(window'[k].instr), store'[window'[k].lsq_idx].data # NULL
          PROVE  store'[window'[k].lsq_idx].data = Wanted(k)'
        <3> DEFINE s == window'[k].lsq_idx
        <3>1. s \in Valid' /\ store'[s].data = store[s].data
            BY <1>1 DEF OwnerInv
        <3>2. k + 1 \in Owners /\ window'[k] = window[k + 1] /\ Wanted(k)' = Wanted(k + 1)
            BY <1>2
        <3> QED
            BY <1>1, <2>2, <3>1, <3>2 DEF DataInv
    <2> QED
        BY <2>1, <2>2 DEF DataInv, is_store, is_load
<1>5. OutputInv'
    <2> SUFFICES ASSUME output.valid, NEW k \in Owners', output.rob_tag = tag_of(k)'
                 PROVE  output.value = IF is_load(window'[k].instr) THEN Wanted(k)' ELSE NULL
        BY <1>1 DEF OutputInv
    <2>1. k + 1 \in Owners /\ window'[k] = window[k + 1] /\ Wanted(k)' = Wanted(k + 1) /\ tag_of(k)' = tag_of(k + 1)
        BY <1>2
    <2> QED
        BY <1>1, <2>1 DEF OutputInv
<1>6. AnswerInv'
    <2> SUFFICES ASSUME NEW i \in DOMAIN core_rsp, NEW k \in Owners', window'[k].lsq_idx = core_rsp[i].user
                 PROVE  core_rsp[i].data = Wanted(k)'
        BY <1>1 DEF AnswerInv
    <2>1. k + 1 \in Owners /\ window'[k] = window[k + 1] /\ Wanted(k)' = Wanted(k + 1)
        BY <1>2
    <2> QED
        BY <1>1, <2>1 DEF AnswerInv
<1>7. ReadInv'
    <2>1. ReadsAsked' = ReadsAsked
        BY <1>1 DEF ReadsAsked
    <2> SUFFICES ASSUME NEW j \in ReadsAsked, NEW k \in Owners', window'[k].lsq_idx = core_req[j].user,
                        NEW a \in Reach(window'[k].instr)
                 PROVE  Served(ram, core_req, j, a) = Finds(k, a)'
        BY <1>1, <2>1 DEF ReadInv
    <2>2. k + 1 \in Owners /\ window'[k] = window[k + 1] /\ Finds(k, a)' = Finds(k + 1, a)
        BY <1>2
    <2>3. Served(ram, core_req, j, a) = Finds(k + 1, a)
        BY <1>1, <2>2 DEF ReadInv
    <2> QED
        BY <2>2, <2>3
<1>8. Order!Retire
    <2>1. \A a \in Address :
              RetiredMemory'[a] = IF WritesTo(window[1].instr, a)
                                  THEN window[1].instr.data[a - window[1].instr.addr] ELSE RetiredMemory[a]
        BY DEF HeadRetires
    <2> HIDE DEF RetiredMemory, WritesTo, Order!Retire
    <2> QED
        BY <1>1, <2>1, MapsRetire
<1> QED
    BY <1>3, <1>4, <1>5, <1>6, <1>7, <1>8 DEF Refines, ValueInv, Order!Next

LEMMA CommitRefines ==
    ASSUME OrderInv, OrderInv', ValueInv, commit, is_lsu(Head(window).instr) => ~commits_another
    PROVE  Refines
<1>1. /\ IInv /\ TypeInv /\ TagInv /\ AgeInv /\ OwnerInv /\ CountIsRight
      /\ UNCHANGED <<output, ram, core_req, core_rsp>>
      /\ window # <<>> /\ Head(window).ready /\ window' = Tail(window)
      /\ head_tag' = (head_tag + 1) % (2 * ROB_SIZE)
    BY DEF OrderInv, IInv, ValueInv, commit, unit, dcache
<1>2. Head(window) = window[1] /\ 1 \in DOMAIN window /\ Len(window) \in 1 .. ROB_SIZE /\ head_tag \in Tag
    BY <1>1, Sizes DEF TypeInv
<1>3. SameServed
    BY <1>1 DEF SameServed
<1>4. CASE ~is_lsu(Head(window).instr)
    <2>1. UNCHANGED store
        BY <1>4 DEF commit, lsq
    <2>2. Valid' = Valid /\ Committed' = Committed /\ \A s \in Committed : SameEntry(s)
        BY <2>1 DEF Valid, Committed, SameEntry
    <2>3. TagInv' /\ RetiredMemory' = RetiredMemory
        <3> HIDE DEF RetiredMemory
        <3> QED
            BY <1>1, <2>2, SameMemory
    <2>4. \A a : ~WritesTo(window[1].instr, a)
        BY <1>2, <1>4 DEF WritesTo, is_lsu
    <2>5. HeadRetires
        <3> HIDE DEF RetiredMemory, WritesTo
        <3> QED
            BY <1>1, <2>1, <2>2, <2>3, <2>4 DEF HeadRetires
    <2> QED
        BY <2>3, <2>5, RetireRefines
<1>5. CASE is_lsu(Head(window).instr)
    <2> DEFINE s == window[1].lsq_idx
    <2>1. /\ 1 \in Owners /\ s \in Valid /\ store[s].state = "Writeback"
          /\ store[s].instr = window[1].instr /\ store[s].rob_tag = head_tag
          /\ Min(find_by_rob(head_tag)) = s /\ find_by_rob(head_tag) # {}
        BY <1>1, <1>2, <1>5, HeadEntry
    <2>2. IF is_store(store[s].instr)
          THEN store' = [store EXCEPT ![s].state = "Committed"] /\ UNCHANGED <<tail_index, count>>
          ELSE release_entry(s)
        BY <1>5, <2>1 DEF commit, LSQ_commit
    <2>3. s \in Slot /\ store[s] \in Entry /\ s \notin Committed
        BY <1>1, <2>1, EntryFacts DEF Committed
    <2> HIDE DEF s
    <2>4. CASE is_store(store[s].instr)
        <3> DEFINE entry == [store[s] EXCEPT !.state = "Committed"]
        <3>1. store' = [store EXCEPT ![s] = entry]
            BY <1>1, <2>2, <2>3, <2>4 DEF TypeInv
        <3>2. /\ entry \in Entry /\ entry.instr = store[s].instr /\ entry.rob_tag = store[s].rob_tag
              /\ entry.state = "Committed" /\ entry.data = store[s].data
            BY <2>3 DEF Entry
        <3> HIDE DEF entry
        <3>3. /\ Valid' = Valid /\ store'[s] = entry /\ \A o \in Slot \ {s} : store'[o] = store[o]
            BY <1>1, <2>1, <3>1, <3>2, Replaced
        <3>4. \A o \in Valid : o # s => store'[o] = store[o]
            BY <1>1, <3>3, EntryFacts
        <3>5. Committed' = Committed \cup {s}
            <4>1. \A o \in Valid : o # s => (store'[o].state = "Committed" <=> store[o].state = "Committed")
                BY <3>4
            <4>2. s \in Valid' /\ store'[s].state = "Committed"
                BY <2>1, <3>2, <3>3
            <4> QED
                BY <2>3, <3>3, <4>1, <4>2 DEF Committed
        <3>6. \A o \in Committed : store'[o] = store[o]
            BY <2>3, <3>4 DEF Committed
        <3>7. \A o \in Committed : /\ store[o].rob_tag # head_tag
                                   /\ is_rob_younger(head_tag, store[o].rob_tag)
            <4> SUFFICES ASSUME NEW o \in Committed
                         PROVE  store[o].rob_tag # head_tag /\ is_rob_younger(head_tag, store[o].rob_tag)
                OBVIOUS
            <4>1. PICK age \in 1 .. ROB_SIZE : /\ head_tag = (store[o].rob_tag + age) % (2 * ROB_SIZE)
                                               /\ age + Len(window) <= ROB_SIZE
                BY <1>1 DEF AgeInv
            <4>2. store[o].rob_tag \in Tag
                BY <1>1, EntryFacts DEF Committed, Entry
            <4>3. tag_of(1) = head_tag
                BY <1>1, <2>1, WindowFacts DEF OwnerInv, s
            <4> DEFINE one == 1
            <4>4. one \in 1 .. ROB_SIZE /\ age + one <= ROB_SIZE /\ age + one <= ROB_SIZE + 1
                BY <1>2, <4>1, Sizes
            <4>5. tag_of(one) = head_tag
                BY <4>3
            <4> HIDE DEF one, tag_of, is_rob_younger
            <4>6. store[o].rob_tag # tag_of(one) /\ is_rob_younger(tag_of(one), store[o].rob_tag)
                BY <1>2, <4>1, <4>2, <4>4, OldTag
            <4> QED
                BY <4>5, <4>6
        <3>8. store'[s].rob_tag = head_tag /\ store'[s].instr = store[s].instr
            BY <2>1, <3>2, <3>3
        <3>9. TagInv'
            <4> SUFFICES ASSUME NEW o \in Committed', NEW p \in Committed', store'[o].rob_tag = store'[p].rob_tag
                         PROVE  o = p
                BY DEF TagInv
            <4>1. (o = s \/ o \in Committed) /\ (p = s \/ p \in Committed)
                BY <3>5
            <4> QED
                BY <1>1, <3>6, <3>7, <3>8, <4>1 DEF TagInv
        <3>10. \A o \in Committed : SameEntry(o) /\ is_rob_younger(store'[s].rob_tag, store[o].rob_tag)
            BY <3>6, <3>7, <3>8 DEF SameEntry
        <3>11. \A a \in Address :
                   RetiredMemory'[a] = IF Reaches(s, a) THEN store[s].instr.data[a - store[s].instr.addr]
                                       ELSE RetiredMemory[a]
            <4> HIDE DEF RetiredMemory, Reaches, SameServed, SameEntry, is_rob_younger
            <4> QED
                BY <1>1, <1>3, <2>3, <3>5, <3>8, <3>9, <3>10, RetiredCommitted
        <3>12. \A a : Reaches(s, a) <=> WritesTo(window[1].instr, a)
            BY <2>1, <2>4 DEF Reaches, WritesTo
        <3>13. \A o \in Valid' : /\ o \in Valid /\ store'[o].instr = store[o].instr
                                 /\ store'[o].data = store[o].data
            BY <3>2, <3>3, <3>4
        <3>14. HeadRetires
            <4> HIDE DEF RetiredMemory, WritesTo, Reaches
            <4>1. \A a \in Address :
                      RetiredMemory'[a] = IF WritesTo(window[1].instr, a)
                                          THEN window[1].instr.data[a - window[1].instr.addr] ELSE RetiredMemory[a]
                BY <2>1, <3>11, <3>12
            <4> QED
                BY <1>1, <3>13, <4>1 DEF HeadRetires
        <3> QED
            BY <3>9, <3>14, RetireRefines
    <2>5. CASE ~is_store(store[s].instr)
        <3>1. Valid' = Valid \ {s} /\ \A o \in Slot \ {s} : store'[o] = store[o]
            BY <1>1, <2>1, <2>2, <2>5, Released
        <3>2. \A o \in Valid' : o \in Valid /\ store'[o] = store[o]
            BY <1>1, <3>1, EntryFacts
        <3>3. Committed' = Committed /\ \A o \in Committed : SameEntry(o)
            BY <2>3, <3>1, <3>2 DEF Committed, SameEntry
        <3>4. TagInv' /\ RetiredMemory' = RetiredMemory
            <4> HIDE DEF RetiredMemory
            <4> QED
                BY <1>1, <3>3, SameMemory
        <3>5. \A a : ~WritesTo(window[1].instr, a)
            BY <2>1, <2>5 DEF WritesTo
        <3>6. HeadRetires
            <4> HIDE DEF RetiredMemory, WritesTo
            <4> QED
                BY <1>1, <3>2, <3>4, <3>5 DEF HeadRetires
        <3> QED
            BY <3>4, <3>6, RetireRefines
    <2> QED
        BY <2>4, <2>5
<1> QED
    BY <1>4, <1>5

------------------------------------------------------------------------------
(* At the start there is nothing in flight, and memory is zero. *)
LEMMA InitRefines == Init => ValueInv /\ Order!Init
<1> SUFFICES ASSUME Init PROVE ValueInv /\ Order!Init
    OBVIOUS
<1>1. /\ window = <<>> /\ store = [s \in Slot |-> NoEntry] /\ output = NoOutput
      /\ ram = [a \in Address |-> 0] /\ core_req = <<>> /\ core_rsp = <<>>
    BY DEF Init
<1>2. ~NoEntry.valid /\ ~NoOutput.valid
    BY DEF NoEntry, NoOutput
<1>3. Valid = {} /\ Committed = {} /\ Owners = {} /\ ReadsAsked = {}
    BY <1>1, <1>2 DEF Valid, Committed, Owners, ReadsAsked
<1>4. ValueInv
    BY <1>1, <1>2, <1>3 DEF ValueInv, TagInv, ResultInv, DataInv, OutputInv, AnswerInv, ReadInv
<1>5. RetiredMemory \in [Address -> Byte]
    <2>1. ASSUME NEW a \in Address PROVE RetiredMemory[a] = 0
        <3>1. {s \in Committed : a \in Reach(store[s].instr)} = {}
            BY <1>3
        <3>2. {i \in DOMAIN core_req : core_req[i].is_write /\ a \in Mem!Reach(core_req[i])} = {}
            BY <1>1
        <3>3. ram[a] = 0
            BY <1>1
        <3> QED
            BY <3>1, <3>2, <3>3 DEF RetiredMemory
    <2>2. RetiredMemory = [a \in Address |-> RetiredMemory[a]]
        BY RetiredMap
    <2> HIDE DEF RetiredMemory
    <2> QED
        BY <2>1, <2>2, MemoryAssumption
<1>6. Results = <<>>
    <2>1. TypeInv
        BY InitInv DEF OrderInv, IInv
    <2>2. Results \in Seq(Item) /\ Len(Results) = Len(window) /\ Len(window) = 0
        BY <1>1, <2>1, ResultsFacts
    <2> HIDE DEF Results, Item
    <2> QED
        BY <2>2
<1> QED
    BY <1>4, <1>5, <1>6 DEF Order!Init

LEMMA StutterRefines ==
    ASSUME OrderInv, OrderInv', ValueInv, UNCHANGED vars
    PROVE  Refines
<1>1. UNCHANGED <<window, store, head_tag, output, ram, core_req, core_rsp>> /\ ResultInv
    BY DEF vars, rob, lsq, unit, dcache, ValueInv
<1>2. ResultInv'
    BY <1>1 DEF ResultInv
<1>3. ValueInv' /\ RetiredMemory' = RetiredMemory
    <2> HIDE DEF RetiredMemory
    <2> QED
        BY <1>1, <1>2, Quiet
<1>4. Results' = Results
    BY <1>1 DEF Results
<1> QED
    BY <1>3, <1>4 DEF Refines

LEMMA NextRefines ==
    ASSUME OrderInv, ValueInv, [Next]_vars, [~TagMisread]_vars, [~StoreOvertaken]_vars
    PROVE  Refines
<1> OrderInv'
    <2>1. IInv'
        BY NextInv DEF OrderInv
    <2> QED
        BY <2>1, AgeNext DEF OrderInv
<1>1. ASSUME NEW instr \in Instr, issue(instr) PROVE Refines
    BY <1>1, IssueRefines
<1>2. ASSUME NEW k \in DOMAIN window, mispredicted(k) PROVE Refines
    BY <1>2, FlushRefines
<1>3. ASSUME NEW k \in DOMAIN window, dispatch(k) PROVE Refines
    BY <1>3, DispatchRefines
<1>4. ASSUME NEW k \in DOMAIN window, predicted(k) PROVE Refines
    BY <1>4, PredictedRefines
<1>5. CASE take_answer
    BY <1>5, TakeRefines
<1>6. CASE compute_address
    BY <1>6, ComputeRefines
<1>7. CASE LSQ_tick
    <2> DEFINE s == select_oldest_actionable
    <2>1. /\ s \in Actionable /\ UNCHANGED <<rob, input>>
          /\ \/ is_store(store[s].instr) /\ issue_store(s)
             \/ is_load(store[s].instr) /\ issue_load(s)
        BY <1>7, Selected DEF LSQ_tick, OrderInv, IInv
    <2>2. s = select_oldest_actionable
        OBVIOUS
    <2> HIDE DEF s
    <2> QED
        BY <2>1, <2>2, StoreRefines, LoadRefines
<1>8. CASE broadcast
    BY <1>8, BroadcastRefines
<1>9. CASE commit /\ ~TagMisread
    BY <1>9, CommitRefines DEF TagMisread
<1>10. CASE dcache_tick
    BY <1>10, WriteRefines, ReadRefines DEF dcache_tick
<1>11. CASE UNCHANGED vars
    BY <1>11, StutterRefines
<1> QED
    BY <1>1, <1>2, <1>3, <1>4, <1>5, <1>6, <1>7, <1>8, <1>9, <1>10, <1>11 DEF Next, Proceed

(* Forwarded or read from the cache, and whatever was flushed, a load gets the
   bytes that the last older stores left, and stores reach memory when they
   retire, in program order: in every behaviour in which no tag is misread and
   no store overtaken, however late the cache answers. *)
THEOREM OrderIsImplemented == Spec /\ TagsReadRight /\ StoresInTime => ImplementsMemoryOrder
<1>1. Init => OrderInv /\ ValueInv /\ Order!Init
    <2>1. Init => AgeInv
        <3> SUFFICES ASSUME Init PROVE Committed = {}
            BY DEF AgeInv
        <3> QED
            BY DEF Init, Committed, Valid, NoEntry
    <2> QED
        BY <2>1, InitInv, InitRefines DEF OrderInv
<1>2. OrderInv /\ ValueInv /\ [Next]_vars /\ [~TagMisread]_vars /\ [~StoreOvertaken]_vars
          => OrderInv' /\ ValueInv' /\ [Order!Next]_<<RetiredMemory, Results>>
    <2> SUFFICES ASSUME OrderInv, ValueInv, [Next]_vars, [~TagMisread]_vars, [~StoreOvertaken]_vars
                 PROVE  OrderInv' /\ ValueInv' /\ [Order!Next]_<<RetiredMemory, Results>>
        OBVIOUS
    <2>1. IInv'
        BY NextInv DEF OrderInv
    <2>2. OrderInv'
        BY <2>1, AgeNext DEF OrderInv
    <2>3. Refines
        BY NextRefines
    <2> QED
        BY <2>2, <2>3 DEF Refines
<1> QED
    BY <1>1, <1>2, PTL DEF Spec, TagsReadRight, StoresInTime, ImplementsMemoryOrder, Order!Spec
==============================================================================
