------------------------- MODULE OutOfOrderCoreProofs -------------------------
(***************************************************************************)
(* The out-of-order core for every number of stations, slots of the        *)
(* reorder buffer, checkpoints and registers, every word size, latency of  *)
(* the instruction cache and program without loads and stores: the alias   *)
(* table, the checkpoints, the stations and the results on their way are   *)
(* right (CoreInv), and the core implements the machine that runs one      *)
(* instruction at a time (PathInv).                                        *)
(*                                                                         *)
(* The argument is about the window: the sequence of the instructions      *)
(* between head and tail, which the ring implements.  What the core keeps  *)
(* about an instruction is related to its place there, and the window does *)
(* only four things: it grows at its end, an instruction completes, what   *)
(* is behind a branch is cut off, and the first one leaves.  The first     *)
(* part is about the ring and shows that it implements the window; lemmas  *)
(* about windows say what these four leave right; then there is one lemma  *)
(* for each step of the core.  The stations come with their own proofs.    *)
(***************************************************************************)
EXTENDS OutOfOrderCore, InstructionProofs, SequenceTheorems, FiniteSetTheorems, TLAPS

(***************************************************************************)
(* The reorder buffer, for every ROB_SIZE >= 1 and any instructions and    *)
(* results.  The ring is described without "%": WindowInv splits on        *)
(* whether the window wraps, and each slot's tag is its index plus the lap *)
(* it was filled on.  The arithmetic lemmas come first; they turn every    *)
(* "%" of the code into at most one subtraction.                           *)
(*                                                                         *)
(* Then the ring implements the window of InstrWindow: each operation on   *)
(* the ring is one operation on the sequence of the entries from the head  *)
(* to the tail.                                                            *)
(***************************************************************************)
(* An index that runs past the ring wraps to the low slots (the "& mask" of
   allocate and invalidate, the "% size" of pop). *)
LEMMA IndexWrap ==
    ASSUME NEW x \in 0 .. 2 * ROB_SIZE - 1
    PROVE  /\ x % ROB_SIZE = IF x < ROB_SIZE THEN x ELSE x - ROB_SIZE
           /\ x \div ROB_SIZE = IF x < ROB_SIZE THEN 0 ELSE 1
  BY RobSizeAssumption, SMT

LEMMA IndexSucc ==
    ASSUME NEW x \in Index
    PROVE  next_index(x) = IF x + 1 < ROB_SIZE THEN x + 1 ELSE 0
  BY RobSizeAssumption, IndexWrap DEF Index, next_index

(* The successor of a tag and the difference of two tags wrap at most once
   (the "& mask2" of invalidate and is_rob_younger). *)
LEMMA TagSucc ==
    ASSUME NEW t \in Tag
    PROVE  (t + 1) % (2 * ROB_SIZE) = IF t + 1 < 2 * ROB_SIZE THEN t + 1 ELSE 0
  BY RobSizeAssumption, SMT DEF Tag

LEMMA TagDifference ==
    ASSUME NEW t \in Tag, NEW u \in Tag
    PROVE  (t - u) % (2 * ROB_SIZE) = IF t < u THEN t - u + 2 * ROB_SIZE ELSE t - u
  BY RobSizeAssumption, SMT DEF Tag

------------------------------------------------------------------------------
(* The lap of slot i: slots below the tail were filled on the tail's lap. *)
LapTag(i, tail, phase) ==
    IF i < tail THEN IF phase = 1 THEN i + ROB_SIZE ELSE i
                ELSE IF phase = 1 THEN i ELSE i + ROB_SIZE

InWindow(i, head, n) ==
    IF head + n <= ROB_SIZE THEN head <= i /\ i < head + n
                            ELSE head <= i \/ i < head + n - ROB_SIZE

TailOf(head, n) == IF head + n < ROB_SIZE THEN head + n ELSE head + n - ROB_SIZE

(* The strengthening that is inductive: the live slots are one circular
   interval and each of them carries the tag of its lap. *)
WindowInv ==
    /\ tail_index = TailOf(head_index, count)
    /\ \A i \in Index : store[i].valid <=> InWindow(i, head_index, count)
    /\ \A i \in Index : store[i].valid => store[i].tag = LapTag(i, tail_index, phase_bit)

IInv == TypeOK /\ WindowInv

(* The ring starts empty. *)
LEMMA InitIInv == Init => IInv
  BY RobSizeAssumption, NullAssumption
  DEF Init, IInv, TypeOK, WindowInv, Index, Tag, Entry, InWindow, TailOf, LapTag

(* allocate fills the slot at the tail with the next tag of the series. *)
LEMMA AllocateIInv ==
    ASSUME IInv, NEW instr \in Instr, allocate(instr)
    PROVE  IInv'
<1> USE RobSizeAssumption DEF Index, Tag
<1>1. tail_index' = (IF tail_index + 1 < ROB_SIZE THEN tail_index + 1 ELSE 0)
  BY IndexSucc DEF IInv, TypeOK, allocate
<1>2. next_tag \in Tag /\ next_tag = LapTag(tail_index, tail_index', phase_bit')
  <2>1. next_tag = IF phase_bit = 1 THEN ROB_SIZE + tail_index ELSE tail_index
    BY DEF IInv, TypeOK, next_tag
  <2>2. phase_bit' = IF tail_index + 1 < ROB_SIZE THEN phase_bit ELSE 1 - phase_bit
    BY <1>1 DEF IInv, TypeOK, allocate
  <2> QED BY <2>1, <2>2, <1>1 DEF IInv, TypeOK, LapTag
<1>3. TypeOK'
  <2>1. store' \in [Index -> Entry]
    <3>1. [valid |-> TRUE, ready |-> FALSE, result |-> NULL,
           tag |-> next_tag, instr |-> instr] \in Entry
      BY <1>2 DEF Entry
    <3> QED BY <3>1 DEF IInv, TypeOK, allocate
  <2> QED BY <1>1, <2>1 DEF IInv, TypeOK, allocate, full
<1>4. tail_index' = TailOf(head_index', count')
  BY <1>1 DEF IInv, TypeOK, WindowInv, TailOf, allocate, full
<1>5. ASSUME NEW i \in Index
      PROVE  store'[i].valid <=> InWindow(i, head_index', count')
  BY <1>1 DEF IInv, TypeOK, WindowInv, allocate, full, InWindow, TailOf
<1>6. ASSUME NEW i \in Index, store'[i].valid
      PROVE  store'[i].tag = LapTag(i, tail_index', phase_bit')
  <2>1. CASE i = tail_index
    BY <2>1, <1>2 DEF IInv, TypeOK, allocate, LapTag
  <2>2. CASE i # tail_index
    <3>1. store'[i] = store[i]
      BY <2>2 DEF IInv, TypeOK, allocate
    <3>2. store[i].tag = LapTag(i, tail_index, phase_bit) /\ InWindow(i, head_index, count)
      BY <3>1, <1>6 DEF IInv, WindowInv
    <3>3. LapTag(i, tail_index', phase_bit') = LapTag(i, tail_index, phase_bit)
      BY <2>2, <3>2, <1>1 DEF IInv, TypeOK, WindowInv, allocate, full, InWindow, TailOf, LapTag
    <3> QED BY <3>1, <3>2, <3>3
  <2> QED BY <2>1, <2>2
<1> QED BY <1>3, <1>4, <1>5, <1>6 DEF IInv, WindowInv

(* update changes neither which slots are live nor their tags. *)
LEMMA UpdateIInv ==
    ASSUME IInv, NEW rob_tag \in Tag, NEW value \in Value, update(rob_tag, value)
    PROVE  IInv'
<1> USE RobSizeAssumption DEF Index, Tag
<1> DEFINE e == store[rob_tag % ROB_SIZE]
           f == [e EXCEPT !.ready = TRUE, !.result = value]
<1>1. rob_tag % ROB_SIZE \in Index
  BY IndexWrap
<1>2. e \in Entry
  BY <1>1 DEF IInv, TypeOK
<1>3. f \in Entry /\ f.valid = e.valid /\ f.tag = e.tag
  BY <1>2 DEF Entry
<1>4. store' = [store EXCEPT ![rob_tag % ROB_SIZE] = f]
  BY DEF update, accepts
<1>5. TypeOK'
  BY <1>1, <1>3, <1>4 DEF IInv, TypeOK, update
<1>6. \A i \in Index : store'[i].valid = store[i].valid /\ store'[i].tag = store[i].tag
  BY <1>1, <1>3, <1>4 DEF IInv, TypeOK
<1> QED
  BY <1>5, <1>6 DEF IInv, WindowInv, InWindow, TailOf, LapTag, update

(* pop removes the head slot from the window. *)
LEMMA PopIInv ==
    ASSUME IInv, pop
    PROVE  IInv'
<1> USE RobSizeAssumption DEF Index, Tag
<1> DEFINE h == store[head_index]
           f == [h EXCEPT !.valid = FALSE, !.ready = FALSE]
<1>1. /\ head_index \in Index /\ tail_index \in Index
      /\ phase_bit \in {0, 1}
      /\ count \in 1 .. ROB_SIZE
      /\ store \in [Index -> Entry]
      /\ tail_index = TailOf(head_index, count)
  BY DEF IInv, TypeOK, WindowInv, pop, empty
<1>2. /\ head_index' = (IF head_index + 1 < ROB_SIZE THEN head_index + 1 ELSE 0)
      /\ count' = count - 1
      /\ tail_index' = tail_index /\ phase_bit' = phase_bit
  BY <1>1, IndexSucc DEF pop
<1>3. f \in Entry /\ f.valid = FALSE
  BY <1>1 DEF Entry
<1>4. store' = [store EXCEPT ![head_index] = f]
  BY DEF pop
<1>5. TypeOK'
  BY <1>1, <1>2, <1>3, <1>4 DEF TypeOK
<1>6. tail_index' = TailOf(head_index', count')
  BY <1>1, <1>2 DEF TailOf
<1>7. ASSUME NEW i \in Index
      PROVE  store'[i].valid <=> InWindow(i, head_index', count')
  <2>1. CASE i = head_index
    BY <2>1, <1>1, <1>2, <1>3, <1>4 DEF InWindow
  <2>2. CASE i # head_index
    <3>1. store'[i].valid = store[i].valid
      BY <2>2, <1>1, <1>4
    <3>2. store[i].valid <=> InWindow(i, head_index, count)
      BY DEF IInv, WindowInv
    <3>3. InWindow(i, head_index, count) <=> InWindow(i, head_index', count')
      BY <2>2, <1>1, <1>2 DEF InWindow
    <3> QED BY <3>1, <3>2, <3>3
  <2> QED BY <2>1, <2>2
<1>8. ASSUME NEW i \in Index, store'[i].valid
      PROVE  store'[i].tag = LapTag(i, tail_index', phase_bit')
  <2>1. i # head_index
    BY <1>8, <1>1, <1>3, <1>4
  <2>2. store'[i] = store[i]
    BY <2>1, <1>1, <1>4
  <2> QED BY <2>2, <1>2, <1>8 DEF IInv, WindowInv
<1> QED BY <1>5, <1>6, <1>7, <1>8 DEF IInv, WindowInv

------------------------------------------------------------------------------
(* How far slot i is from the head. *)
Age(i, head) == IF head <= i THEN i - head ELSE i - head + ROB_SIZE

(* The tag of a live slot is its own index in one of the two laps. *)
LEMMA TagIndex ==
    ASSUME IInv, NEW i \in Index, store[i].valid
    PROVE  /\ store[i].tag \in Tag
           /\ store[i].tag % ROB_SIZE = i
           /\ Age(i, head_index) \in 0 .. count - 1
<1> USE RobSizeAssumption DEF Index, Tag
<1>1. /\ store[i].tag = LapTag(i, tail_index, phase_bit)
      /\ InWindow(i, head_index, count)
  BY DEF IInv, WindowInv
<1>2. store[i].tag \in Tag /\ (store[i].tag = i \/ store[i].tag = i + ROB_SIZE)
  BY <1>1 DEF LapTag, IInv, TypeOK
<1>3. store[i].tag % ROB_SIZE = i
  BY <1>2, IndexWrap
<1>4. Age(i, head_index) \in 0 .. count - 1
  BY <1>1 DEF InWindow, Age, IInv, TypeOK
<1> QED BY <1>2, <1>3, <1>4

(* No two live instructions have the same tag, so a tag finds one entry. *)
LEMMA TagUnique ==
    ASSUME IInv, NEW i \in Index, NEW j \in Index,
           store[i].valid, store[j].valid, store[i].tag = store[j].tag
    PROVE  i = j
  BY TagIndex

(* The tag the next allocation hands out, without the product. *)
LEMMA NextTag ==
    ASSUME IInv
    PROVE  /\ next_tag = IF phase_bit = 1 THEN ROB_SIZE + tail_index ELSE tail_index
           /\ next_tag \in Tag
  BY RobSizeAssumption DEF IInv, TypeOK, next_tag, Index, Tag

(* A flush that names slot b removes exactly the entries younger than b:
   the subtraction of tags in invalidate counts them. *)
LEMMA RemovedCount ==
    ASSUME IInv, NEW b \in Index, store[b].valid
    PROVE  removed_by(store[b].tag) = count - 1 - Age(b, head_index)
<1> USE RobSizeAssumption DEF Index, Tag
<1> DEFINE t == store[b].tag
           new == new_tail_tag(t)
<1>1. /\ t = LapTag(b, tail_index, phase_bit)
      /\ InWindow(b, head_index, count)
      /\ t \in Tag
  BY TagIndex DEF IInv, WindowInv
<1>2. new = IF t + 1 < 2 * ROB_SIZE THEN t + 1 ELSE 0
  BY <1>1, TagSucc DEF new_tail_tag
<1>3. removed_by(t) = (next_tag - new) % (2 * ROB_SIZE)
  BY DEF removed_by
<1>4. new \in Tag
  BY <1>1, <1>2
<1>5. removed_by(t) = IF next_tag < new THEN next_tag - new + 2 * ROB_SIZE
                                        ELSE next_tag - new
  BY <1>3, <1>4, NextTag, TagDifference
<1>6. /\ removed_by(store[b].tag) = removed_by(t)
      /\ tail_index = TailOf(head_index, count)
      /\ head_index \in Index /\ count \in 0 .. ROB_SIZE /\ phase_bit \in {0, 1}
  BY DEF IInv, TypeOK, WindowInv
<1> HIDE DEF t, new
<1>7. CASE phase_bit = 1
  BY <1>7, <1>1, <1>2, <1>5, <1>6, NextTag DEF LapTag, InWindow, TailOf, Age
<1>8. CASE phase_bit = 0
  BY <1>8, <1>1, <1>2, <1>5, <1>6, NextTag DEF LapTag, InWindow, TailOf, Age
<1> QED BY <1>6, <1>7, <1>8

(* The new tail of a flush that names slot b is the slot after b, on b's lap
   or, when b is the last slot, at the start of the other one. *)
LEMMA NewTail ==
    ASSUME NEW b \in Index, NEW t \in Tag, t % ROB_SIZE = b
    PROVE  /\ (t = b /\ t < ROB_SIZE) \/ t = b + ROB_SIZE
           /\ ((t + 1) % (2 * ROB_SIZE)) % ROB_SIZE = IF b + 1 < ROB_SIZE THEN b + 1 ELSE 0
           /\ ((t + 1) % (2 * ROB_SIZE)) \div ROB_SIZE
                = IF t + 1 < ROB_SIZE \/ t + 1 = 2 * ROB_SIZE THEN 0 ELSE 1
<1> USE RobSizeAssumption DEF Index, Tag
<1> DEFINE new == (t + 1) % (2 * ROB_SIZE)
<1>1. new = IF t + 1 < 2 * ROB_SIZE THEN t + 1 ELSE 0
  BY TagSucc
<1>2. (t = b /\ t < ROB_SIZE) \/ t = b + ROB_SIZE
  BY IndexWrap
<1> HIDE DEF new
<1>3. new \in Tag
  BY <1>1
<1>4. /\ new % ROB_SIZE = IF new < ROB_SIZE THEN new ELSE new - ROB_SIZE
      /\ new \div ROB_SIZE = IF new < ROB_SIZE THEN 0 ELSE 1
  BY <1>3, IndexWrap
<1>5. /\ new % ROB_SIZE = IF b + 1 < ROB_SIZE THEN b + 1 ELSE 0
      /\ new \div ROB_SIZE = IF t + 1 < ROB_SIZE \/ t + 1 = 2 * ROB_SIZE THEN 0 ELSE 1
  BY <1>1, <1>2, <1>4
<1> QED BY <1>2, <1>5 DEF new

(* The i-th slot that the loop of invalidate clears is the i-th after b's
   successor. *)
LEMMA CutSlot ==
    ASSUME NEW b \in Index, NEW t \in Tag, t % ROB_SIZE = b, NEW i \in 0 .. ROB_SIZE - 2
    PROVE  ((((t + 1) % (2 * ROB_SIZE)) + i) % (2 * ROB_SIZE)) % ROB_SIZE
             = IF b + 1 + i < ROB_SIZE THEN b + 1 + i ELSE b + 1 + i - ROB_SIZE
<1> USE RobSizeAssumption DEF Index, Tag
<1> DEFINE new == (t + 1) % (2 * ROB_SIZE)
           sum == (new + i) % (2 * ROB_SIZE)
<1>1. new = IF t + 1 < 2 * ROB_SIZE THEN t + 1 ELSE 0
  BY TagSucc
<1>2. t = b \/ t = b + ROB_SIZE
  BY IndexWrap
<1> HIDE DEF new
<1>3. new \in Tag
  BY <1>1
<1>4. sum = IF new + i < 2 * ROB_SIZE THEN new + i ELSE new + i - 2 * ROB_SIZE
  BY <1>3, SMT
<1>5. sum \in 0 .. 2 * ROB_SIZE - 1
  BY <1>3, <1>4
<1> HIDE DEF sum
<1>6. sum % ROB_SIZE = IF sum < ROB_SIZE THEN sum ELSE sum - ROB_SIZE
  BY <1>5, IndexWrap
<1>7. sum % ROB_SIZE = IF b + 1 + i < ROB_SIZE THEN b + 1 + i ELSE b + 1 + i - ROB_SIZE
  BY <1>1, <1>2, <1>3, <1>4, <1>5, <1>6
<1> QED BY <1>7 DEF sum, new

(* invalidate clears the live slots that are younger than the one named. *)
LEMMA CutIsYounger ==
    ASSUME IInv, NEW b \in Index, store[b].valid, NEW i \in Index
    PROVE  (\E k \in 0 .. count - 1 - Age(b, head_index) - 1 :
               i = (IF b + 1 + k < ROB_SIZE THEN b + 1 + k ELSE b + 1 + k - ROB_SIZE))
           <=> InWindow(i, head_index, count) /\ Age(b, head_index) < Age(i, head_index)
<1> USE RobSizeAssumption DEF Index, Tag
<1>1. InWindow(b, head_index, count)
  BY DEF IInv, WindowInv
<1>2. /\ head_index \in Index /\ count \in 0 .. ROB_SIZE
  BY DEF IInv, TypeOK
<1>3. ASSUME NEW k \in 0 .. count - 1 - Age(b, head_index) - 1,
             i = (IF b + 1 + k < ROB_SIZE THEN b + 1 + k ELSE b + 1 + k - ROB_SIZE)
      PROVE  InWindow(i, head_index, count) /\ Age(b, head_index) < Age(i, head_index)
  BY <1>1, <1>2, <1>3 DEF InWindow, Age
<1>4. ASSUME InWindow(i, head_index, count), Age(b, head_index) < Age(i, head_index)
      PROVE  \E k \in 0 .. count - 1 - Age(b, head_index) - 1 :
                i = (IF b + 1 + k < ROB_SIZE THEN b + 1 + k ELSE b + 1 + k - ROB_SIZE)
  <2> DEFINE k == Age(i, head_index) - Age(b, head_index) - 1
  <2>1. k \in 0 .. count - 1 - Age(b, head_index) - 1
    BY <1>1, <1>2, <1>4 DEF InWindow, Age
  <2>2. i = (IF b + 1 + k < ROB_SIZE THEN b + 1 + k ELSE b + 1 + k - ROB_SIZE)
    BY <1>1, <1>2, <1>4 DEF InWindow, Age
  <2> QED BY <2>1, <2>2
<1> QED BY <1>3, <1>4

(* Cutting a window after slot b keeps the slots that are not younger. *)
LEMMA WindowCut ==
    ASSUME NEW head \in Index, NEW n \in 0 .. ROB_SIZE, NEW b \in Index, NEW i \in Index,
           InWindow(b, head, n)
    PROVE  /\ Age(b, head) \in 0 .. n - 1 /\ Age(i, head) \in Index
           /\ InWindow(i, head, Age(b, head) + 1)
                <=> InWindow(i, head, n) /\ ~(Age(b, head) < Age(i, head))
  BY RobSizeAssumption DEF Index, InWindow, Age

LEMMA InvalidateIInv ==
    ASSUME IInv, NEW rob_tag \in Tag, invalidate(rob_tag)
    PROVE  IInv'
<1> USE RobSizeAssumption DEF Index, Tag
<1>1. PICK b \in Index : store[b].valid /\ store[b].tag = rob_tag
  BY DEF invalidate, LiveTags, LiveIndices
<1> DEFINE age     == Age(b, head_index)
           new     == new_tail_tag(rob_tag)
           removed == removed_by(rob_tag)
           cut     == cut_slots(rob_tag)
<1>2. /\ rob_tag % ROB_SIZE = b
      /\ age \in 0 .. count - 1
      /\ rob_tag = LapTag(b, tail_index, phase_bit)
      /\ InWindow(b, head_index, count)
  BY <1>1, TagIndex DEF IInv, WindowInv
<1>3. removed = count - 1 - age
  BY <1>1, RemovedCount
<1>4. /\ removed # 0
      /\ count' = count - removed
      /\ tail_index' = new % ROB_SIZE
      /\ phase_bit' = new \div ROB_SIZE
      /\ head_index' = head_index
      /\ store' = [i \in Index |->
                      IF i \in cut THEN [store[i] EXCEPT !.valid = FALSE, !.ready = FALSE]
                                   ELSE store[i]]
  BY DEF invalidate, phase_of
<1>5. /\ head_index \in Index /\ tail_index \in Index /\ phase_bit \in {0, 1}
      /\ count \in 0 .. ROB_SIZE
      /\ tail_index = TailOf(head_index, count)
      /\ store \in [Index -> Entry]
  BY DEF IInv, TypeOK, WindowInv
<1>6. /\ head_index' = head_index
      /\ count' = age + 1
      /\ tail_index' = IF b + 1 < ROB_SIZE THEN b + 1 ELSE 0
      /\ phase_bit' = IF rob_tag + 1 < ROB_SIZE \/ rob_tag + 1 = 2 * ROB_SIZE THEN 0 ELSE 1
      /\ (rob_tag = b /\ b < ROB_SIZE) \/ rob_tag = b + ROB_SIZE
      /\ age = Age(b, head_index)
      /\ age \in 0 .. count - 2
  <2>1. count' = age + 1 /\ age \in 0 .. count - 2
    <3>1. removed = count - 1 - age /\ removed # 0 /\ count' = count - removed
      BY <1>3, <1>4
    <3> HIDE DEF age, removed
    <3> QED BY <3>1, <1>2, <1>5
  <2>2. age = Age(b, head_index)
    BY DEF age
  <2>3. head_index' = head_index /\ tail_index' = new % ROB_SIZE /\ phase_bit' = new \div ROB_SIZE
    BY <1>4
  <2>4. /\ (rob_tag = b /\ rob_tag < ROB_SIZE) \/ rob_tag = b + ROB_SIZE
        /\ new % ROB_SIZE = IF b + 1 < ROB_SIZE THEN b + 1 ELSE 0
        /\ new \div ROB_SIZE = IF rob_tag + 1 < ROB_SIZE \/ rob_tag + 1 = 2 * ROB_SIZE THEN 0 ELSE 1
    BY <1>2, NewTail DEF new_tail_tag
  <2> HIDE DEF age, new
  <2> QED BY <2>1, <2>2, <2>3, <2>4
<1>7. ASSUME NEW i \in Index
      PROVE  i \in cut <=> InWindow(i, head_index, count) /\ age < Age(i, head_index)
  <2>1. i \in cut <=> \E k \in 0 .. removed - 1 :
                          i = ((new + k) % (2 * ROB_SIZE)) % ROB_SIZE
    BY DEF cut_slots
  <2>2. \A k \in 0 .. removed - 1 :
            ((new + k) % (2 * ROB_SIZE)) % ROB_SIZE
              = IF b + 1 + k < ROB_SIZE THEN b + 1 + k ELSE b + 1 + k - ROB_SIZE
    <3> SUFFICES ASSUME NEW k \in 0 .. removed - 1
                 PROVE  ((new + k) % (2 * ROB_SIZE)) % ROB_SIZE
                          = IF b + 1 + k < ROB_SIZE THEN b + 1 + k ELSE b + 1 + k - ROB_SIZE
      OBVIOUS
    <3>1. k \in 0 .. ROB_SIZE - 2
      BY <1>2, <1>3, <1>5
    <3> QED BY <3>1, <1>2, CutSlot DEF new_tail_tag
  <2> QED BY <2>1, <2>2, <1>1, <1>3, CutIsYounger
<1> HIDE DEF age, cut, new, removed
<1>8. ASSUME NEW i \in Index
      PROVE  store'[i] \in Entry
  BY <1>4, <1>5 DEF Entry
<1>9. TypeOK'
  <2>1. store' \in [Index -> Entry]
    BY <1>4, <1>8
  <2> QED BY <2>1, <1>5, <1>6 DEF TypeOK
<1>10. tail_index' = TailOf(head_index', count')
  BY <1>2, <1>5, <1>6 DEF TailOf, InWindow, Age
<1>11. ASSUME NEW i \in Index
       PROVE  store'[i].valid <=> InWindow(i, head_index', count')
  <2>1. store[i].valid <=> InWindow(i, head_index, count)
    BY DEF IInv, WindowInv
  <2>2. store'[i].valid <=> store[i].valid /\ i \notin cut
    BY <1>4, <1>5 DEF Entry
  <2>3. InWindow(i, head_index', count')
          <=> InWindow(i, head_index, count) /\ ~(age < Age(i, head_index))
    BY <1>2, <1>5, <1>6, WindowCut
  <2> QED BY <2>1, <2>2, <2>3, <1>7
<1>12. ASSUME NEW i \in Index, store'[i].valid
       PROVE  store'[i].tag = LapTag(i, tail_index', phase_bit')
  <2>1. /\ store[i].valid /\ store'[i].tag = store[i].tag /\ i \notin cut
    BY <1>4, <1>5, <1>12 DEF Entry
  <2>2. /\ store[i].tag = LapTag(i, tail_index, phase_bit)
        /\ InWindow(i, head_index, count)
    BY <2>1 DEF IInv, WindowInv
  <2>3. Age(i, head_index) <= age
    <3>1. ~(age < Age(i, head_index))
      BY <2>1, <2>2, <1>7
    <3>2. Age(i, head_index) \in Int /\ age \in Int
      <4>1. head_index \in Int /\ ROB_SIZE \in Int
        BY DEF IInv, TypeOK
      <4> QED BY <4>1 DEF Age, age
    <3> QED BY <3>1, <3>2
  <2>4. LapTag(i, tail_index', phase_bit') = LapTag(i, tail_index, phase_bit)
    BY <2>2, <2>3, <1>2, <1>5, <1>6 DEF LapTag, InWindow, TailOf, Age
  <2> QED BY <2>1, <2>2, <2>4
<1> QED BY <1>9, <1>10, <1>11, <1>12 DEF IInv, WindowInv

(* The invariant holds in every reachable state. *)
THEOREM RingInvariance == Spec => []IInv
<1>1. ASSUME IInv, [Next]_vars
      PROVE  IInv'
  <2>1. ASSUME NEW instr \in Instr, allocate(instr) PROVE IInv'
    BY <1>1, <2>1, AllocateIInv
  <2>2. ASSUME NEW rob_tag \in Tag, NEW value \in Value, update(rob_tag, value) PROVE IInv'
    BY <1>1, <2>2, UpdateIInv
  <2>3. ASSUME NEW rob_tag \in Tag, invalidate(rob_tag) PROVE IInv'
    BY <1>1, <2>3, InvalidateIInv
  <2>4. CASE pop
    BY <1>1, <2>4, PopIInv
  <2>5. CASE UNCHANGED vars
    BY <1>1, <2>5 DEF vars, IInv, TypeOK, WindowInv, InWindow, LapTag, TailOf
  <2> QED BY <1>1, <2>1, <2>2, <2>3, <2>4, <2>5 DEF Next
<1> QED BY InitIInv, <1>1, PTL DEF Spec

------------------------------------------------------------------------------
(* The k-th slot of the window, without "%". *)
LEMMA SlotWrap ==
    ASSUME IInv, NEW k \in 0 .. count
    PROVE  /\ Slot(k) \in Index
           /\ Slot(k) = IF head_index + k < ROB_SIZE THEN head_index + k
                                                     ELSE head_index + k - ROB_SIZE
<1>1. PICK x \in 0 .. 2 * ROB_SIZE - 1 : x = head_index + k
  BY RobSizeAssumption DEF IInv, TypeOK, Index
<1>2. /\ x % ROB_SIZE = IF x < ROB_SIZE THEN x ELSE x - ROB_SIZE
      /\ x % ROB_SIZE \in Index
  BY <1>1, IndexWrap, RobSizeAssumption DEF Index
<1>3. Slot(k) = x % ROB_SIZE
  BY <1>1 DEF Slot
<1>4. head_index \in Int /\ k \in Int
  BY DEF IInv, TypeOK, Index
<1> QED BY <1>1, <1>2, <1>3, <1>4, RobSizeAssumption

LEMMA SlotInWindow ==
    ASSUME IInv, NEW k \in 0 .. count - 1
    PROVE  /\ Slot(k) \in Index
           /\ store[Slot(k)].valid
           /\ Age(Slot(k), head_index) = k
<1>1. /\ Slot(k) \in Index
      /\ Slot(k) = IF head_index + k < ROB_SIZE THEN head_index + k
                                                ELSE head_index + k - ROB_SIZE
  BY SlotWrap DEF IInv, TypeOK
<1>2. head_index \in Index /\ count \in 0 .. ROB_SIZE
  BY DEF IInv, TypeOK
<1>3. InWindow(Slot(k), head_index, count) /\ Age(Slot(k), head_index) = k
  BY <1>1, <1>2, RobSizeAssumption DEF InWindow, Age, Index
<1> QED BY <1>1, <1>3 DEF IInv, WindowInv

LEMMA AgeSlot ==
    ASSUME IInv, NEW i \in Index, store[i].valid
    PROVE  Age(i, head_index) \in 0 .. count - 1 /\ Slot(Age(i, head_index)) = i
<1>1. InWindow(i, head_index, count) /\ head_index \in Index /\ count \in 0 .. ROB_SIZE
  BY DEF IInv, WindowInv, TypeOK
<1>2. Age(i, head_index) \in 0 .. count - 1
  BY TagIndex
<1>3. Slot(Age(i, head_index)) = IF head_index + Age(i, head_index) < ROB_SIZE
                                 THEN head_index + Age(i, head_index)
                                 ELSE head_index + Age(i, head_index) - ROB_SIZE
  BY <1>1, <1>2, SlotWrap
<1> QED BY <1>1, <1>2, <1>3, RobSizeAssumption DEF InWindow, Age, Index

(* Tags modulo two laps are ages: the distance from the tail's tag back to the
   tag of the k-th entry is the number of entries from the k-th on. *)
LEMMA TagOfSlot ==
    ASSUME IInv, NEW k \in 0 .. count - 1
    PROVE  /\ store[Slot(k)].tag \in Tag
           /\ store[Slot(k)].tag = IF next_tag < count - k THEN next_tag - (count - k) + 2 * ROB_SIZE
                                                           ELSE next_tag - (count - k)
<1> DEFINE i == Slot(k)
<1>1. /\ i \in Index /\ store[i].tag \in Tag
      /\ store[i].tag = LapTag(i, tail_index, phase_bit)
      /\ i = IF head_index + k < ROB_SIZE THEN head_index + k ELSE head_index + k - ROB_SIZE
  BY SlotInWindow, SlotWrap, TagIndex DEF IInv, WindowInv, TypeOK
<1>2. /\ head_index \in Index /\ count \in 0 .. ROB_SIZE /\ phase_bit \in {0, 1}
      /\ tail_index = TailOf(head_index, count)
      /\ next_tag = IF phase_bit = 1 THEN ROB_SIZE + tail_index ELSE tail_index
  BY NextTag DEF IInv, WindowInv, TypeOK
<1> HIDE DEF i
<1>3. store[i].tag = IF next_tag < count - k THEN next_tag - (count - k) + 2 * ROB_SIZE
                                              ELSE next_tag - (count - k)
  BY <1>1, <1>2, RobSizeAssumption DEF LapTag, TailOf, Index
<1> QED BY <1>1, <1>3 DEF i

------------------------------------------------------------------------------
(* Every reachable state is well typed. *)
THEOREM RingTypes == Spec => []TypeOK
<1>1. IInv => TypeOK
  BY DEF IInv
<1> QED BY <1>1, RingInvariance, PTL

(* The slots from the head on, and no others, are live. *)
LEMMA LiveIsWindow ==
    ASSUME IInv
    PROVE  WindowIsLive
<1>1. LiveIndices \subseteq {Slot(k) : k \in 0 .. count - 1}
  BY AgeSlot DEF LiveIndices
<1>2. {Slot(k) : k \in 0 .. count - 1} \subseteq LiveIndices
  BY SlotInWindow DEF LiveIndices
<1>3. tail_index = Slot(count)
  <2>1. count \in 0 .. count /\ tail_index = TailOf(head_index, count)
    BY DEF IInv, TypeOK, WindowInv
  <2> QED BY <2>1, SlotWrap DEF TailOf
<1> QED BY <1>1, <1>2, <1>3 DEF WindowIsLive

(* The live entries are exactly the count slots from the head on. *)
THEOREM LiveWindow == Spec => []WindowIsLive
<1>1. IInv => WindowIsLive
  BY LiveIsWindow
<1> QED BY <1>1, RingInvariance, PTL

(* The distances of the tags from the next one are the places. *)
LEMMA TagsCountUp ==
    ASSUME IInv
    PROVE  TagsAreConsecutive
<1> SUFFICES ASSUME NEW k \in 0 .. count - 1
             PROVE  store[Slot(k)].tag = (next_tag - (count - k)) % (2 * ROB_SIZE)
  BY DEF TagsAreConsecutive
<1>1. count - k \in Tag
  BY RobSizeAssumption DEF IInv, TypeOK, Tag
<1> QED BY <1>1, TagOfSlot, NextTag, TagDifference

(* The tags from the head to the tail are consecutive, across wraps and
   flushes. *)
THEOREM ConsecutiveTags == Spec => []TagsAreConsecutive
<1>1. IInv => TagsAreConsecutive
  BY TagsCountUp
<1> QED BY <1>1, RingInvariance, PTL

(* Half of the tags are more than the window has. *)
LEMMA YoungerIsLater ==
    ASSUME IInv
    PROVE  YoungerIsProgramOrder
<1> SUFFICES ASSUME NEW j \in 0 .. count - 1, NEW k \in 0 .. count - 1
             PROVE  is_rob_younger(store[Slot(j)].tag, store[Slot(k)].tag) <=> j > k
  BY DEF YoungerIsProgramOrder
<1> DEFINE t == store[Slot(j)].tag
           u == store[Slot(k)].tag
           diff == (t - u) % (2 * ROB_SIZE)
<1>1. /\ t \in Tag /\ u \in Tag
      /\ t = IF next_tag < count - j THEN next_tag - (count - j) + 2 * ROB_SIZE
                                     ELSE next_tag - (count - j)
      /\ u = IF next_tag < count - k THEN next_tag - (count - k) + 2 * ROB_SIZE
                                     ELSE next_tag - (count - k)
  BY TagOfSlot
<1>2. diff = IF t < u THEN t - u + 2 * ROB_SIZE ELSE t - u
  BY <1>1, TagDifference
<1>3. count \in 0 .. ROB_SIZE /\ next_tag \in Tag
  BY NextTag DEF IInv, TypeOK
<1>4. is_rob_younger(t, u) <=> diff > 0 /\ diff < ROB_SIZE
  BY DEF is_rob_younger
<1> HIDE DEF t, u, diff
<1>5. is_rob_younger(t, u) <=> j > k
  BY <1>1, <1>2, <1>3, <1>4, RobSizeAssumption DEF Tag
<1> QED BY <1>5 DEF t, u

(* The age test on tags is program order for any two live instructions. *)
THEOREM YoungerCorrect == Spec => []YoungerIsProgramOrder
<1>1. IInv => YoungerIsProgramOrder
  BY YoungerIsLater
<1> QED BY <1>1, RingInvariance, PTL

(* The assertion of invalidate, "removed <= count_", never fires. *)
THEOREM FlushAssertion == Spec => []FlushWithinWindow
<1>1. ASSUME IInv PROVE FlushWithinWindow
  <2> SUFFICES ASSUME NEW b \in Index, store[b].valid
               PROVE  removed_by(store[b].tag) < count
    BY DEF FlushWithinWindow, LiveTags, LiveIndices
  <2>1. removed_by(store[b].tag) = count - 1 - Age(b, head_index)
    BY <1>1, RemovedCount
  <2>2. Age(b, head_index) \in 0 .. count - 1 /\ count \in 0 .. ROB_SIZE
    BY <1>1, TagIndex DEF IInv, TypeOK
  <2> QED BY <2>1, <2>2, RobSizeAssumption
<1> QED BY <1>1, RingInvariance, PTL

------------------------------------------------------------------------------
Itemset == [tag : Tag, instr : Instr \cup {NULL}, ready : BOOLEAN, result : Value \cup {NULL}]

(* Sequences written as functions. *)
LEMMA SeqOfFunction ==
    ASSUME NEW S, NEW n \in Nat, NEW s \in [1 .. n -> S]
    PROVE  s \in Seq(S) /\ Len(s) = n /\ DOMAIN s = 1 .. n
  OBVIOUS

(* A sequence one longer than s that agrees with s and ends in e. *)
LEMMA IsAppend ==
    ASSUME NEW S, NEW n \in Nat, NEW s \in [1 .. n -> S], NEW e \in S,
           NEW t \in [1 .. n + 1 -> S], t[n + 1] = e, \A k \in 1 .. n : t[k] = s[k]
    PROVE  t = Append(s, e)
<1>1. /\ s \in Seq(S) /\ Len(s) = n
      /\ t \in Seq(S) /\ Len(t) = n + 1
  BY SeqOfFunction
<1>2. /\ Append(s, e) \in Seq(S) /\ Len(Append(s, e)) = n + 1
      /\ \A k \in 1 .. n : Append(s, e)[k] = s[k]
      /\ Append(s, e)[n + 1] = e
  BY <1>1, AppendProperties
<1>3. \A k \in 1 .. n + 1 : t[k] = Append(s, e)[k]
  BY <1>2
<1> QED BY <1>1, <1>2, <1>3, SeqEqual

(* A sequence one shorter than s that is s moved down by one. *)
LEMMA IsTail ==
    ASSUME NEW S, NEW n \in Nat \ {0}, NEW s \in [1 .. n -> S],
           NEW t \in [1 .. n - 1 -> S], \A k \in 1 .. n - 1 : t[k] = s[k + 1]
    PROVE  t = Tail(s) /\ Head(s) = s[1] /\ s # << >>
<1>1. /\ s \in Seq(S) /\ Len(s) = n
      /\ t \in Seq(S) /\ Len(t) = n - 1
  BY SeqOfFunction
<1>2. s # << >> /\ Head(s) = s[1]
  BY <1>1
<1>3. /\ Tail(s) \in Seq(S) /\ Len(Tail(s)) = n - 1
      /\ \A k \in 1 .. n - 1 : Tail(s)[k] = s[k + 1]
  BY <1>1, <1>2, HeadTailProperties
<1> QED BY <1>1, <1>2, <1>3, SeqEqual

(* A sequence of m elements that agrees with s. *)
LEMMA IsPrefixOf ==
    ASSUME NEW S, NEW n \in Nat, NEW s \in [1 .. n -> S], NEW m \in 1 .. n,
           NEW t \in [1 .. m -> S], \A k \in 1 .. m : t[k] = s[k]
    PROVE  t = SubSeq(s, 1, m)
<1>1. t \in Seq(S) /\ Len(t) = m
  BY SeqOfFunction
<1>2. \A k \in 1 .. m : s[k] \in S
  OBVIOUS
<1>3. /\ SubSeq(s, 1, m) \in Seq(S)
      /\ Len(SubSeq(s, 1, m)) = m
      /\ \A k \in 1 .. m : SubSeq(s, 1, m)[k] = s[k]
  BY <1>2, SubSeqProperties
<1> QED BY <1>1, <1>3, SeqEqual

------------------------------------------------------------------------------
(* The mapped window is a sequence of entries. *)
ItemsOK ==
    /\ count \in Nat
    /\ Items \in [1 .. count -> Itemset]
    /\ Len(Items) = count
    /\ DOMAIN Items = 1 .. count
    /\ \A k \in 1 .. count :
          /\ Slot(k - 1) \in Index
          /\ store[Slot(k - 1)] \in Entry
          /\ Items[k] = Item(k)

LEMMA ItemsType == IInv => ItemsOK
<1> SUFFICES ASSUME IInv PROVE ItemsOK
  OBVIOUS
<1>1. count \in Nat
  BY RobSizeAssumption DEF IInv, TypeOK
<1>2. ASSUME NEW k \in 1 .. count
      PROVE  Slot(k - 1) \in Index /\ store[Slot(k - 1)] \in Entry /\ Item(k) \in Itemset
  <2>1. k - 1 \in 0 .. count - 1
    BY <1>1
  <2>2. Slot(k - 1) \in Index /\ store[Slot(k - 1)] \in Entry
    BY <2>1, SlotInWindow DEF IInv, TypeOK
  <2> DEFINE e == store[Slot(k - 1)]
  <2>3. e \in Entry
    BY <2>2
  <2>4. [tag |-> e.tag, instr |-> e.instr, ready |-> e.ready, result |-> e.result] \in Itemset
    BY <2>3 DEF Entry, Itemset
  <2> QED BY <2>2, <2>4 DEF Item
<1>3. Items \in [1 .. count -> Itemset]
  BY <1>2 DEF Items
<1> QED BY <1>1, <1>2, <1>3, SeqOfFunction DEF Items, ItemsOK

LEMMA ItemsTypeNext == IInv' => ItemsOK'
  BY ItemsType, PTL

(* The empty ring is the empty window. *)
LEMMA InitRefines == Init => Window!Init
  BY DEF Init, Window!Init, Items

(* allocate issues the instruction under a tag that nobody in the window has. *)
LEMMA AllocateRefines ==
    ASSUME IInv, NEW instr \in Instr, allocate(instr)
    PROVE  Window!Issue(next_tag, instr)
<1> DEFINE new == [tag |-> next_tag, instr |-> instr, ready |-> FALSE, result |-> NULL]
<1>0. count \in 0 .. ROB_SIZE /\ count # ROB_SIZE /\ tail_index \in Index /\ IInv'
  BY AllocateIInv DEF IInv, TypeOK, allocate, full
<1>1. Len(Items) < ROB_SIZE
  BY <1>0, ItemsType, RobSizeAssumption DEF ItemsOK
<1>2. next_tag \notin Window!TagsInUse
  <2> SUFFICES ASSUME NEW k \in 1 .. count, Items[k].tag = next_tag
               PROVE  FALSE
    BY ItemsType DEF Window!TagsInUse, ItemsOK
  <2>1. k - 1 \in 0 .. count - 1
    BY <1>0
  <2>2. next_tag = store[Slot(k - 1)].tag
    BY ItemsType DEF Item, ItemsOK
  <2> QED BY <2>1, <2>2, TagOfSlot, NextTag, <1>0, RobSizeAssumption DEF Tag
<1>3. Items' = Append(Items, new)
  <2>1. new \in Itemset
    BY NextTag DEF Itemset
  <2>2. Items' \in [1 .. count + 1 -> Itemset] /\ \A k \in 1 .. count + 1 : Items'[k] = Item(k)'
    BY <1>0, ItemsTypeNext DEF allocate, ItemsOK
  <2>3. ASSUME NEW k \in 1 .. count
        PROVE  Items'[k] = Items[k]
    <3>1. k - 1 \in 0 .. count - 1
      BY <1>0
    <3>2. Slot(k - 1) \in Index /\ store[Slot(k - 1)].valid
      BY <3>1, SlotInWindow
    <3>3. Slot(k - 1) # tail_index
      BY <3>1, <1>0, SlotWrap, RobSizeAssumption DEF IInv, WindowInv, TypeOK, TailOf, Index
    <3>4. Slot(k - 1)' = Slot(k - 1)
      BY DEF Slot, allocate
    <3>5. store'[Slot(k - 1)] = store[Slot(k - 1)]
      BY <3>2, <3>3 DEF allocate, IInv, TypeOK
    <3>6. Items'[k] = Item(k)'
      BY <2>2, <1>0
    <3> QED BY <3>4, <3>5, <3>6, ItemsType DEF Item, ItemsOK
  <2>4. ASSUME NEW n, n = count + 1
        PROVE  Items'[n] = new
    <3>1. n - 1 = count /\ n \in 1 .. count + 1
      BY <1>0, <2>4, RobSizeAssumption
    <3>2. Slot(n - 1) = tail_index
      BY <3>1, <1>0, SlotWrap DEF IInv, WindowInv, TypeOK, TailOf
    <3>3. Slot(n - 1)' = tail_index
      BY <3>2 DEF Slot, allocate
    <3>4. store'[tail_index] = [valid |-> TRUE, ready |-> FALSE, result |-> NULL,
                                tag |-> next_tag, instr |-> instr]
      BY <1>0 DEF allocate, IInv, TypeOK
    <3>5. Items'[n] = Item(n)'
      BY <2>2, <3>1
    <3>6. Item(n)' = [tag |-> store'[tail_index].tag, instr |-> store'[tail_index].instr,
                      ready |-> store'[tail_index].ready, result |-> store'[tail_index].result]
      BY <3>3 DEF Item
    <3> QED BY <3>4, <3>5, <3>6
  <2>5. Items'[count + 1] = new
    BY <2>4
  <2> HIDE DEF new
  <2> QED BY <2>1, <2>2, <2>3, <2>5, ItemsType, IsAppend DEF ItemsOK
<1> QED BY <1>1, <1>2, <1>3 DEF Window!Issue

(* update completes the one instruction of the window that has the tag: a slot
   that is live and has the tag's index has the tag. *)
LEMMA UpdateRefines ==
    ASSUME IInv, NEW rob_tag \in Tag, NEW value \in Value, update(rob_tag, value)
    PROVE  Window!Complete(rob_tag, value)
<1> DEFINE index == rob_tag % ROB_SIZE
           old   == store[index]
           new   == [old EXCEPT !.ready = TRUE, !.result = value]
<1>1. index \in Index /\ IInv'
  BY IndexWrap, RobSizeAssumption, UpdateIInv DEF Tag, Index
<1>2. old.valid /\ ~old.ready /\ rob_tag \in LiveTags
  BY DEF update, accepts, Broadcastable
<1>3. old.tag = rob_tag
  <2>1. PICK j \in Index : store[j].valid /\ store[j].tag = rob_tag
    BY <1>2 DEF LiveTags, LiveIndices
  <2>2. j = index
    BY <2>1, TagIndex
  <2> QED BY <2>1, <2>2
<1>4. PICK age \in 0 .. count - 1 : Slot(age) = index
  BY <1>1, <1>2, AgeSlot
<1>5. PICK k \in 1 .. count : k - 1 = age
  <2>1. age + 1 \in 1 .. count /\ (age + 1) - 1 = age
    BY <1>4 DEF IInv, TypeOK
  <2> QED BY <2>1
<1>6. Slot(k - 1) = index
  BY <1>4, <1>5
<1>7. /\ old \in Entry /\ new \in Entry
      /\ new.tag = old.tag /\ new.instr = old.instr /\ new.ready = TRUE /\ new.result = value
  BY <1>1 DEF IInv, TypeOK, Entry
<1>8. store' = [store EXCEPT ![index] = new] /\ UNCHANGED <<head_index, count>>
  BY DEF update
<1> HIDE DEF index, old, new
<1>9. Items[k] = [tag |-> old.tag, instr |-> old.instr, ready |-> old.ready, result |-> old.result]
  BY <1>6, ItemsType DEF Item, ItemsOK, old
<1>10. Items' = [Items EXCEPT ![k] = [tag |-> old.tag, instr |-> old.instr, ready |-> TRUE, result |-> value]]
  <2> DEFINE item == [tag |-> old.tag, instr |-> old.instr, ready |-> TRUE, result |-> value]
  <2>1. /\ Items' \in [1 .. count -> Itemset] /\ Items \in [1 .. count -> Itemset]
        /\ \A m \in 1 .. count : Items'[m] = Item(m)'
    BY <1>1, <1>8, ItemsType, ItemsTypeNext DEF ItemsOK
  <2>2. ASSUME NEW m \in 1 .. count
        PROVE  Items'[m] = IF m = k THEN item ELSE Items[m]
    <3>1. Slot(m - 1)' = Slot(m - 1) /\ Slot(m - 1) \in Index
      BY <1>8, ItemsType DEF Slot, ItemsOK
    <3>2. CASE m = k
      <4>1. store'[Slot(m - 1)'] = new
        BY <3>1, <3>2, <1>1, <1>6, <1>8 DEF IInv, TypeOK
      <4>2. Item(m)' = [tag |-> new.tag, instr |-> new.instr, ready |-> new.ready, result |-> new.result]
        BY <4>1 DEF Item
      <4> QED BY <4>2, <3>2, <2>1, <1>7
    <3>3. CASE m # k
      <4>1. Slot(m - 1) # index
        <5>1. m - 1 \in 0 .. count - 1 /\ k - 1 \in 0 .. count - 1 /\ m - 1 # k - 1
          BY <3>3 DEF IInv, TypeOK
        <5> QED BY <5>1, <1>6, SlotInWindow
      <4>2. store'[Slot(m - 1)'] = store[Slot(m - 1)]
        BY <3>1, <4>1, <1>1, <1>8 DEF IInv, TypeOK
      <4>3. Item(m)' = Item(m)
        BY <4>2 DEF Item
      <4> QED BY <4>3, <3>3, <2>1, ItemsType DEF ItemsOK
    <3> QED BY <3>2, <3>3
  <2> HIDE DEF item
  <2>3. Items' = [Items EXCEPT ![k] = item]
    BY <2>1, <2>2
  <2> QED BY <2>3 DEF item
<1>11. Items' = [Items EXCEPT ![k] = [tag |-> rob_tag, instr |-> Items[k].instr,
                                      ready |-> TRUE, result |-> value]]
  <2>1. Items[k].tag = rob_tag
    BY <1>2, <1>3, <1>9, ItemsType DEF ItemsOK
  <2>2. old.tag = rob_tag /\ old.instr = Items[k].instr
    BY <2>1, <1>9
  <2> QED BY <2>2, <1>10
<1>12. Items[k].tag = rob_tag /\ ~Items[k].ready /\ k \in DOMAIN Items
  BY <1>2, <1>3, <1>9, ItemsType DEF ItemsOK
<1> QED BY <1>11, <1>12 DEF Window!Complete

(* pop retires the oldest instruction, and the rest moves up. *)
LEMMA PopRefines ==
    ASSUME IInv, pop
    PROVE  Window!Retire
<1>1. /\ count \in Nat \ {0} /\ IInv'
      /\ head_index' = (head_index + 1) % ROB_SIZE
      /\ count' = count - 1
  BY PopIInv, RobSizeAssumption DEF pop, empty, IInv, TypeOK, next_index
<1>2. /\ Items \in [1 .. count -> Itemset]
      /\ Items' \in [1 .. count - 1 -> Itemset]
      /\ \A k \in 1 .. count - 1 : Items'[k] = Item(k)'
  BY <1>1, ItemsType, ItemsTypeNext DEF ItemsOK
<1>3. ASSUME NEW k \in 1 .. count - 1
      PROVE  Items'[k] = Items[k + 1]
  <2>1. k \in 0 .. count - 1 /\ (k + 1) - 1 = k /\ k + 1 \in 1 .. count
    BY <1>1
  <2>2. Slot(k - 1)' = Slot(k)
    <3>1. head_index \in Index /\ k \in 1 .. ROB_SIZE - 1
      <4>1. head_index \in Index /\ count \in 0 .. ROB_SIZE
        BY DEF IInv, TypeOK
      <4> QED BY <4>1, RobSizeAssumption
    <3>2. head_index' = IF head_index + 1 < ROB_SIZE THEN head_index + 1 ELSE 0
      BY <3>1, <1>1, IndexSucc DEF next_index
    <3>3. PICK x \in 0 .. 2 * ROB_SIZE - 1 : x = head_index' + (k - 1)
      BY <3>1, <3>2, RobSizeAssumption DEF Index
    <3>4. x % ROB_SIZE = IF x < ROB_SIZE THEN x ELSE x - ROB_SIZE
      BY <3>3, IndexWrap
    <3>5. Slot(k - 1)' = x % ROB_SIZE
      BY <3>3 DEF Slot
    <3>6. Slot(k) = IF head_index + k < ROB_SIZE THEN head_index + k ELSE head_index + k - ROB_SIZE
      BY <2>1, SlotWrap DEF IInv, TypeOK
    <3> QED BY <3>1, <3>2, <3>3, <3>4, <3>5, <3>6, RobSizeAssumption DEF Index
  <2>3. Slot(k) \in Index /\ Slot(k) # head_index
    <3>1. Age(Slot(k), head_index) = k /\ Slot(k) \in Index
      BY <2>1, SlotInWindow
    <3> QED BY <3>1, RobSizeAssumption DEF Age, Index, IInv, TypeOK
  <2>4. store'[Slot(k)] = store[Slot(k)]
    BY <2>3 DEF pop, IInv, TypeOK
  <2>5. Item(k)' = Item(k + 1)
    BY <2>1, <2>2, <2>4 DEF Item
  <2> QED BY <2>1, <2>5, <1>2, ItemsType DEF ItemsOK
<1>4. Items' = Tail(Items) /\ Head(Items) = Items[1] /\ Items # << >>
  BY <1>1, <1>2, <1>3, IsTail
<1>5. Items[1].ready
  <2>1. Slot(1 - 1) = head_index
    <3>1. 1 - 1 = 0 /\ 0 \in 0 .. count
      BY <1>1
    <3> QED BY <3>1, SlotWrap, RobSizeAssumption DEF IInv, TypeOK, Index
  <2>2. 1 \in 1 .. count
    BY <1>1
  <2> QED BY <2>1, <2>2, ItemsType DEF Item, ItemsOK, pop
<1> QED BY <1>4, <1>5 DEF Window!Retire

(* invalidate keeps the instruction it names and everything older. *)
LEMMA InvalidateRefines ==
    ASSUME IInv, NEW rob_tag \in Tag, invalidate(rob_tag)
    PROVE  Window!Flush(rob_tag)
<1>1. PICK b \in Index : store[b].valid /\ store[b].tag = rob_tag
  BY DEF invalidate, LiveTags, LiveIndices
<1>2. PICK age \in 0 .. count - 1 : Slot(age) = b /\ age = Age(b, head_index)
  BY <1>1, AgeSlot
<1>3. PICK k \in 1 .. count : k - 1 = age /\ k = age + 1
  <2>1. age + 1 \in 1 .. count /\ (age + 1) - 1 = age
    BY <1>2 DEF IInv, TypeOK
  <2> QED BY <2>1
<1>4. IInv' /\ head_index' = head_index /\ count' = k
  <2>1. count' = count - removed_by(rob_tag) /\ head_index' = head_index
    BY DEF invalidate
  <2>2. removed_by(rob_tag) = count - 1 - age
    BY <1>1, <1>2, RemovedCount
  <2> QED BY <2>1, <2>2, <1>2, <1>3, InvalidateIInv DEF IInv, TypeOK
<1>5. /\ Items \in [1 .. count -> Itemset] /\ count \in Nat
      /\ Items' \in [1 .. k -> Itemset]
      /\ \A m \in 1 .. k : Items'[m] = Item(m)'
  BY <1>4, ItemsType, ItemsTypeNext DEF ItemsOK
<1>6. ASSUME NEW m \in 1 .. k
      PROVE  Items'[m] = Items[m]
  <2>1. m \in 1 .. count /\ m - 1 \in 0 .. count' - 1
    BY <1>4, <1>5
  <2>2. Slot(m - 1)' = Slot(m - 1) /\ Slot(m - 1) \in Index
    BY <2>1, <1>4, ItemsType DEF Slot, ItemsOK
  <2>3. store'[Slot(m - 1)] = store[Slot(m - 1)]
    <3>1. Slot(m - 1) = IF head_index + (m - 1) < ROB_SIZE THEN head_index + (m - 1)
                                                          ELSE head_index + (m - 1) - ROB_SIZE
      BY <2>1, SlotWrap DEF IInv, TypeOK
    <3>2. head_index \in Index /\ k \in 1 .. ROB_SIZE /\ m - 1 \in 0 .. k - 1
      BY <1>3, RobSizeAssumption DEF IInv, TypeOK
    <3>3. InWindow(Slot(m - 1), head_index', count')
      BY <3>1, <3>2, <1>4, <2>2, RobSizeAssumption DEF InWindow, Index
    <3>4. store'[Slot(m - 1)].valid
      BY <3>3, <2>2, <1>4 DEF IInv, WindowInv
    <3>5. Slot(m - 1) \notin cut_slots(rob_tag)
      <4>1. SUFFICES ASSUME Slot(m - 1) \in cut_slots(rob_tag)
                     PROVE  ~store'[Slot(m - 1)].valid
        BY <3>4
      <4>2. store'[Slot(m - 1)] = [store[Slot(m - 1)] EXCEPT !.valid = FALSE, !.ready = FALSE]
        BY <4>1, <2>2 DEF invalidate
      <4>3. store[Slot(m - 1)] \in Entry
        BY <2>2 DEF IInv, TypeOK
      <4> QED BY <4>2, <4>3 DEF Entry
    <3> QED BY <3>5, <2>2 DEF invalidate
  <2>4. Item(m)' = Item(m)
    BY <2>2, <2>3 DEF Item
  <2> QED BY <2>1, <2>4, <1>5, ItemsType DEF ItemsOK
<1>7. Items' = SubSeq(Items, 1, k)
  BY <1>5, <1>6, IsPrefixOf
<1>8. Items[k].tag = rob_tag /\ k \in DOMAIN Items
  <2>1. Slot(k - 1) = b
    BY <1>2, <1>3
  <2> QED BY <2>1, <1>1, ItemsType DEF Item, ItemsOK
<1> QED BY <1>7, <1>8 DEF Window!Flush

(* Every step of the ring is a step of the window or leaves it alone. *)
LEMMA StepRefines ==
    ASSUME IInv, [Next]_vars
    PROVE  [Window!Next]_Items
<1>1. ASSUME NEW instr \in Instr, allocate(instr)
      PROVE  Window!Next
  BY <1>1, AllocateRefines, NextTag DEF Window!Next
<1>2. ASSUME NEW rob_tag \in Tag, NEW value \in Value, update(rob_tag, value)
      PROVE  Window!Next
  BY <1>2, UpdateRefines DEF Window!Next
<1>3. ASSUME NEW rob_tag \in Tag, invalidate(rob_tag)
      PROVE  Window!Next
  BY <1>3, InvalidateRefines DEF Window!Next
<1>4. CASE pop
  BY <1>4, PopRefines DEF Window!Next
<1>5. CASE UNCHANGED vars
  BY <1>5 DEF vars, Items, Item, Slot
<1> QED BY <1>1, <1>2, <1>3, <1>4, <1>5 DEF Next

(* The reorder buffer implements the instruction window. *)
THEOREM RingRefinement == Spec => ImplementsWindow
<1>1. Init => Window!Init
  BY InitRefines
<1>2. IInv /\ [Next]_vars => [Window!Next]_Items
  BY StepRefines
<1> QED BY <1>1, <1>2, RingInvariance, PTL DEF Spec, ImplementsWindow, Window!Spec

-------------------------------------------------------------------------------
(***************************************************************************)
(* The window is w, the sequence of its items, oldest first; c is the      *)
(* program and regs the register file.                                     *)
(***************************************************************************)
WritesTo(c, item, r) == writes(c[item.instr]) /\ c[item.instr].rd = r

(* The last of the first n items that writes r is the k-th; 0 if none does. *)
IsLast(c, w, r, n, k) ==
    /\ k \in 0 .. n
    /\ k # 0 => WritesTo(c, w[k], r)
    /\ \A j \in k + 1 .. n : ~WritesTo(c, w[j], r)

Named(w, k) == IF k = 0 THEN INVALID_ROB ELSE w[k].tag

(* The table names the last writers among the first n. *)
TableIs(c, w, rat, n) ==
    \A r \in Reg, k \in 0 .. n : IsLast(c, w, r, n, k) => rat[r] = Named(w, k)

(* The p-th item reads v in r: the last writer before it has computed v, or
   there is none and v is in the register file. *)
Reads(c, w, regs, p, r, v) ==
    \E k \in 0 .. p - 1 :
        /\ IsLast(c, w, r, p - 1, k)
        /\ k # 0 => w[k].ready
        /\ v = IF k = 0 THEN regs[r] ELSE w[k].result

Holds(c, w, regs, p, used, r, v) == IF used THEN Reads(c, w, regs, p, r, v) ELSE v = 0

(* Its two operands. *)
Sources(c, w, regs, p, v1, v2) ==
    LET i == c[w[p].instr]
    IN  /\ Holds(c, w, regs, p, use_rs1(i), i.rs1, v1)
        /\ Holds(c, w, regs, p, use_rs2(i), i.rs2, v2)

(* The p-th waits for the last writer before it, which is not complete. *)
Awaits(c, w, p, used, r, waits) ==
    used /\ \E k \in 1 .. p - 1 : IsLast(c, w, r, p - 1, k) /\ ~w[k].ready /\ waits = w[k].tag

(* An operand in a station: it waits or it is there. *)
OperandIs(c, w, regs, p, used, r, waits, data) ==
    \/ waits = INVALID_ROB /\ Holds(c, w, regs, p, used, r, data)
    \/ Awaits(c, w, p, used, r, waits)

(* What the units make of an instruction and its operands. *)
Outcome(c, pc, v1, v2) ==
    CASE FUType(c[pc]) = "ALU" -> alu_unit(c[pc], v1, v2, pc)
      [] FUType(c[pc]) = "BRU" -> NextOf(pc)
      [] FUType(c[pc]) = "SFU" -> get_csr

(* The p-th item's result is v. *)
Gives(c, w, regs, p, v) ==
    \E v1, v2 \in Word : Sources(c, w, regs, p, v1, v2) /\ v = Outcome(c, w[p].instr, v1, v2)

(* Where the program goes on behind it. *)
Goes(c, pc, v1, v2) ==
    IF is_branch(c[pc]) /\ br_taken(c[pc], v1, v2) THEN alu_unit(c[pc], v1, v2, pc) ELSE NextOf(pc)

Leads(c, w, regs, p, pc) ==
    \E v1, v2 \in Word : Sources(c, w, regs, p, v1, v2) /\ pc = Goes(c, w[p].instr, v1, v2)

------------------------------------------------------------------------------
(* Some instruction is the last writer, or none is. *)
LEMMA LastExists ==
    ASSUME NEW c, NEW w, NEW r, NEW n \in Nat
    PROVE  \E k \in 0 .. n : IsLast(c, w, r, n, k)
<1> DEFINE W == {j \in 1 .. n : WritesTo(c, w[j], r)}
           S == {m \in 0 .. n : n - m \in W}
<1>1. CASE W = {}
  <2>1. IsLast(c, w, r, n, 0)
    BY <1>1 DEF IsLast
  <2> QED BY <2>1
<1>2. CASE W # {}
  <2>1. S \subseteq Nat /\ S # {}
    <3>1. PICK j \in W : TRUE
      BY <1>2
    <3>2. n - j \in 0 .. n /\ n - (n - j) = j
      BY <3>1
    <3>3. n - (n - j) \in W
      BY <3>1, <3>2
    <3> HIDE DEF W
    <3> QED BY <3>2, <3>3
  <2>2. PICK m \in S : \A l \in S : m <= l
    <3> HIDE DEF S
    <3> QED BY <2>1, LeastNumber
  <2> DEFINE k == n - m
  <2>3. k \in 1 .. n /\ WritesTo(c, w[k], r)
    <3>1. k \in W
      BY <2>2
    <3> QED BY Zenon, <3>1
  <2>4. ASSUME NEW j \in k + 1 .. n, WritesTo(c, w[j], r) PROVE FALSE
    <3>1. n - j \in 0 .. n /\ n - (n - j) = j /\ j \in 1 .. n
      BY <2>2, <2>3, <2>4
    <3>2. n - j \in S
      BY <3>1, <2>4
    <3>3. m <= n - j
      BY <2>2, <3>2
    <3> QED BY <2>2, <2>4, <3>3
  <2>5. IsLast(c, w, r, n, k)
    BY <2>3, <2>4 DEF IsLast
  <2> QED BY <2>3, <2>5
<1> QED BY <1>1, <1>2

(* and only one. *)
LEMMA LastUnique ==
    ASSUME NEW c, NEW w, NEW r, NEW n \in Nat, NEW k, NEW l,
           IsLast(c, w, r, n, k), IsLast(c, w, r, n, l)
    PROVE  k = l
<1>1. ASSUME NEW x \in 0 .. n, NEW y \in 0 .. n, IsLast(c, w, r, n, x), IsLast(c, w, r, n, y), x < y
      PROVE  FALSE
  <2>1. y \in x + 1 .. n /\ y # 0
    BY <1>1
  <2> QED BY <1>1, <2>1 DEF IsLast
<1>2. k \in 0 .. n /\ l \in 0 .. n
  BY DEF IsLast
<1>3. k < l \/ l < k \/ k = l
  BY <1>2
<1> QED BY <1>1, <1>2, <1>3

(* Who writes depends only on the instructions. *)
LEMMA LastStays ==
    ASSUME NEW c, NEW w, NEW w2, NEW r, NEW n \in Nat, NEW k,
           \A j \in 1 .. n : w2[j].instr = w[j].instr
    PROVE  IsLast(c, w2, r, n, k) <=> IsLast(c, w, r, n, k)
<1>1. ASSUME NEW j \in 1 .. n PROVE WritesTo(c, w2[j], r) <=> WritesTo(c, w[j], r)
  BY DEF WritesTo
<1>2. ASSUME k \in 0 .. n PROVE (k # 0 => k \in 1 .. n) /\ \A j \in k + 1 .. n : j \in 1 .. n
  BY <1>2
<1> QED BY <1>1, <1>2, Zenon DEF IsLast

(* One item further, it is that item or the one before. *)
LEMMA LastNext ==
    ASSUME NEW c, NEW w, NEW r, NEW n \in Nat, NEW k
    PROVE  IsLast(c, w, r, n + 1, k) <=>
               IF WritesTo(c, w[n + 1], r) THEN k = n + 1 ELSE IsLast(c, w, r, n, k)
<1>0. n + 1 \in Nat
  OBVIOUS
<1>1. CASE WritesTo(c, w[n + 1], r)
  <2>1. IsLast(c, w, r, n + 1, n + 1)
    BY <1>1 DEF IsLast
  <2> QED BY <1>0, <1>1, <2>1, LastUnique
<1>2. CASE ~WritesTo(c, w[n + 1], r)
  <2>1. \A x : x \in 0 .. n + 1 <=> x \in 0 .. n \/ x = n + 1
    OBVIOUS
  <2>2. ASSUME k \in 0 .. n PROVE \A x : x \in k + 1 .. n + 1 <=> x \in k + 1 .. n \/ x = n + 1
    BY <2>2
  <2>3. n + 1 # 0
    OBVIOUS
  <2>4. CASE k \in 0 .. n
    BY <1>2, <2>1, <2>2, <2>4, Zenon DEF IsLast
  <2>5. CASE k = n + 1
    <3>1. ~ (n + 1 \in 0 .. n)
      OBVIOUS
    <3> QED BY <1>2, <2>3, <2>5, <3>1, Zenon DEF IsLast
  <2>6. CASE k \notin 0 .. n + 1
    BY <1>2, <2>1, <2>6, Zenon DEF IsLast
  <2> QED BY <2>1, <2>4, <2>5, <2>6
<1> QED BY <1>1, <1>2

(* Without the first item, every place moves down by one. *)
LEMMA LastMoves ==
    ASSUME NEW c, NEW w, NEW w2, NEW r, NEW n \in Nat,
           \A j \in 1 .. n : w2[j] = w[j + 1],
           NEW k, IsLast(c, w, r, n + 1, k)
    PROVE  IsLast(c, w2, r, n, IF k = 0 THEN 0 ELSE k - 1)
<1>1. k \in 0 .. n + 1 /\ (k # 0 => WritesTo(c, w[k], r)) /\ \A j \in k + 1 .. n + 1 : ~WritesTo(c, w[j], r)
  BY DEF IsLast
<1> DEFINE l == IF k = 0 THEN 0 ELSE k - 1
<1>2. l \in 0 .. n
  BY <1>1
<1>3. ASSUME l # 0 PROVE WritesTo(c, w2[l], r)
  <2>1. l \in 1 .. n /\ l + 1 = k /\ k # 0
    BY <1>1, <1>3
  <2> QED BY <1>1, <2>1
<1>4. ASSUME NEW j \in l + 1 .. n PROVE ~WritesTo(c, w2[j], r)
  <2>1. j \in 1 .. n /\ j + 1 \in k + 1 .. n + 1
    BY <1>1, <1>4
  <2> QED BY <1>1, <2>1
<1> QED BY <1>2, <1>3, <1>4 DEF IsLast

------------------------------------------------------------------------------
(* The first n items stay what they are; a result that is there stays, and a
   new one may come. *)
Stay(w, w2, n) ==
    \A j \in 1 .. n :
        /\ w2[j].tag = w[j].tag /\ w2[j].instr = w[j].instr
        /\ w[j].ready => w2[j].ready /\ w2[j].result = w[j].result

(* What was read before stays what it was. *)
LEMMA ReadsStay ==
    ASSUME NEW c, NEW w, NEW w2, NEW regs, NEW p \in Nat \ {0}, Stay(w, w2, p - 1),
           NEW r, NEW v, Reads(c, w, regs, p, r, v)
    PROVE  Reads(c, w2, regs, p, r, v)
<1>1. PICK k \in 0 .. p - 1 : /\ IsLast(c, w, r, p - 1, k)
                              /\ k # 0 => w[k].ready
                              /\ v = IF k = 0 THEN regs[r] ELSE w[k].result
  BY DEF Reads
<1>2. p - 1 \in Nat /\ \A j \in 1 .. p - 1 : w2[j].instr = w[j].instr
  BY DEF Stay
<1>3. IsLast(c, w2, r, p - 1, k)
  BY <1>1, <1>2, LastStays
<1>4. k # 0 => w2[k].ready /\ w2[k].result = w[k].result
  <2>1. k # 0 => k \in 1 .. p - 1
    OBVIOUS
  <2> QED BY <1>1, <2>1 DEF Stay
<1> QED BY <1>1, <1>3, <1>4 DEF Reads

(* So do both operands of an instruction, *)
LEMMA SourcesStay ==
    ASSUME NEW c, NEW w, NEW w2, NEW regs, NEW p \in Nat \ {0}, Stay(w, w2, p),
           NEW v1, NEW v2, Sources(c, w, regs, p, v1, v2)
    PROVE  Sources(c, w2, regs, p, v1, v2)
<1>1. Stay(w, w2, p - 1) /\ w2[p].instr = w[p].instr
  <2>1. p \in 1 .. p /\ \A j \in 1 .. p - 1 : j \in 1 .. p
    OBVIOUS
  <2> QED BY <2>1 DEF Stay
<1> QED BY <1>1, ReadsStay DEF Sources, Holds

(* and what follows from them: the result and where it goes on. *)
LEMMA GivesStay ==
    ASSUME NEW c, NEW w, NEW w2, NEW regs, NEW p \in Nat \ {0}, Stay(w, w2, p)
    PROVE  /\ \A v : Gives(c, w, regs, p, v) => Gives(c, w2, regs, p, v)
           /\ \A pc : Leads(c, w, regs, p, pc) => Leads(c, w2, regs, p, pc)
<1>1. w2[p].instr = w[p].instr
  <2>1. p \in 1 .. p
    OBVIOUS
  <2> QED BY <2>1 DEF Stay
<1>2. \A v1, v2 : Sources(c, w, regs, p, v1, v2) => Sources(c, w2, regs, p, v1, v2)
  BY SourcesStay
<1> QED BY <1>1, <1>2, Zenon DEF Gives, Leads

(* A wait goes on, or the result has come. *)
LEMMA OperandStays ==
    ASSUME NEW c, NEW w, NEW w2, NEW regs, NEW p \in Nat \ {0}, Stay(w, w2, p - 1),
           NEW used, NEW r, NEW waits, NEW data, OperandIs(c, w, regs, p, used, r, waits, data),
           \A k \in 1 .. p - 1 : w2[k].tag = waits => (w2[k].ready <=> w[k].ready)
    PROVE  OperandIs(c, w2, regs, p, used, r, waits, data)
<1>1. CASE waits = INVALID_ROB /\ Holds(c, w, regs, p, used, r, data)
  BY <1>1, ReadsStay DEF OperandIs, Holds
<1>2. CASE Awaits(c, w, p, used, r, waits)
  <2>1. PICK k \in 1 .. p - 1 : IsLast(c, w, r, p - 1, k) /\ ~w[k].ready /\ waits = w[k].tag
    BY <1>2 DEF Awaits
  <2>2. p - 1 \in Nat /\ \A j \in 1 .. p - 1 : w2[j].instr = w[j].instr
    BY DEF Stay
  <2>3. IsLast(c, w2, r, p - 1, k)
    BY <2>1, <2>2, LastStays
  <2>4. w2[k].tag = waits /\ ~w2[k].ready
    BY <2>1 DEF Stay
  <2> QED BY <1>2, <2>3, <2>4 DEF OperandIs, Awaits
<1> QED BY <1>1, <1>2 DEF OperandIs

(* The result of the instruction that an operand waits for is what it reads. *)
LEMMA OperandComes ==
    ASSUME NEW c, NEW w, NEW w2, NEW regs, NEW p \in Nat \ {0}, Stay(w, w2, p - 1),
           NEW used, NEW r, NEW waits, Awaits(c, w, p, used, r, waits), NEW value,
           \A k \in 1 .. p - 1 : w[k].tag = waits => w2[k].ready /\ w2[k].result = value
    PROVE  Holds(c, w2, regs, p, used, r, value)
<1>1. PICK k \in 1 .. p - 1 : IsLast(c, w, r, p - 1, k) /\ waits = w[k].tag
  BY DEF Awaits
<1>2. p - 1 \in Nat /\ \A j \in 1 .. p - 1 : w2[j].instr = w[j].instr
  BY DEF Stay
<1>3. IsLast(c, w2, r, p - 1, k)
  BY <1>1, <1>2, LastStays
<1>4. w2[k].ready /\ w2[k].result = value /\ k \in 0 .. p - 1 /\ k # 0
  BY <1>1
<1>5. Reads(c, w2, regs, p, r, value)
  BY <1>3, <1>4 DEF Reads
<1> QED BY <1>5 DEF Holds, Awaits

------------------------------------------------------------------------------
(* The first item leaves with its result: the n behind it move up, and the
   register file has what it wrote. *)
Shift(c, w, w2, regs, regs2, n) ==
    /\ w[1].ready
    /\ \A j \in 1 .. n : w2[j] = w[j + 1]
    /\ \A r \in Reg : regs2[r] = IF WritesTo(c, w[1], r) THEN w[1].result ELSE regs[r]

(* A register has the value it had, whether the one that left wrote it or not. *)
LEMMA ReadsShift ==
    ASSUME NEW c, NEW w, NEW w2, NEW regs, NEW regs2, NEW p \in Nat \ {0},
           Shift(c, w, w2, regs, regs2, p - 1),
           NEW r \in Reg, NEW v, Reads(c, w, regs, p + 1, r, v)
    PROVE  Reads(c, w2, regs2, p, r, v)
<1>0. (p + 1) - 1 = p /\ p - 1 \in Nat /\ (p - 1) + 1 = p
  OBVIOUS
<1>1. PICK k \in 0 .. p : /\ IsLast(c, w, r, p, k)
                          /\ k # 0 => w[k].ready
                          /\ v = IF k = 0 THEN regs[r] ELSE w[k].result
  BY <1>0 DEF Reads
<1> DEFINE l == IF k = 0 THEN 0 ELSE k - 1
<1>2. IsLast(c, w2, r, p - 1, l)
  BY <1>0, <1>1, LastMoves DEF Shift
<1>3. l # 0 => w2[l] = w[k] /\ k # 0
  <2>1. l # 0 => l \in 1 .. p - 1 /\ l + 1 = k
    BY <1>1
  <2> QED BY <2>1 DEF Shift
<1>4. l = 0 => v = regs2[r]
  <2>1. CASE k = 0
    <3>1. 1 \in k + 1 .. p
      BY <2>1
    <3>2. ~WritesTo(c, w[1], r)
      BY <1>1, <3>1 DEF IsLast
    <3> QED BY <1>1, <2>1, <3>2 DEF Shift
  <2>2. CASE k = 1
    <3>1. WritesTo(c, w[1], r)
      BY <1>1, <2>2 DEF IsLast
    <3> QED BY <1>1, <2>2, <3>1 DEF Shift
  <2> QED BY <1>1, <2>1, <2>2
<1>5. l \in 0 .. p - 1
  BY <1>1
<1> HIDE DEF l
<1>6. v = IF l = 0 THEN regs2[r] ELSE w2[l].result
  BY <1>1, <1>3, <1>4
<1> QED BY <1>1, <1>2, <1>3, <1>5, <1>6 DEF Reads

(* An operand waits for whom it waited for, or has what it had. *)
LEMMA OperandShifts ==
    ASSUME NEW c, NEW w, NEW w2, NEW regs, NEW regs2, NEW p \in Nat \ {0},
           Shift(c, w, w2, regs, regs2, p - 1),
           NEW used, NEW r \in Reg, NEW waits, NEW data,
           OperandIs(c, w, regs, p + 1, used, r, waits, data)
    PROVE  OperandIs(c, w2, regs2, p, used, r, waits, data)
<1>0. (p + 1) - 1 = p /\ p - 1 \in Nat /\ (p - 1) + 1 = p
  OBVIOUS
<1>1. CASE waits = INVALID_ROB /\ Holds(c, w, regs, p + 1, used, r, data)
  BY <1>1, ReadsShift DEF OperandIs, Holds
<1>2. CASE Awaits(c, w, p + 1, used, r, waits)
  <2>1. PICK k \in 1 .. p : IsLast(c, w, r, p, k) /\ ~w[k].ready /\ waits = w[k].tag
    BY <1>0, <1>2 DEF Awaits
  <2>2. k # 1
    BY <2>1 DEF Shift
  <2>3. k - 1 \in 1 .. p - 1 /\ (k - 1) + 1 = k /\ k # 0
    BY <2>1, <2>2
  <2>4. IsLast(c, w2, r, p - 1, k - 1)
    BY <1>0, <2>1, <2>3, LastMoves DEF Shift
  <2>5. w2[k - 1] = w[k]
    BY <2>3 DEF Shift
  <2> QED BY <1>2, <2>1, <2>3, <2>4, <2>5 DEF OperandIs, Awaits
<1> QED BY <1>1, <1>2 DEF OperandIs

(* Both operands are what they were, *)
LEMMA SourcesShift ==
    ASSUME NEW c, NEW w, NEW w2, NEW regs, NEW regs2, NEW p \in Nat \ {0},
           Shift(c, w, w2, regs, regs2, p),
           c[w2[p].instr] \in Instruction(Reg),
           NEW v1, NEW v2, Sources(c, w, regs, p + 1, v1, v2)
    PROVE  Sources(c, w2, regs2, p, v1, v2)
<1>1. Shift(c, w, w2, regs, regs2, p - 1) /\ w2[p] = w[p + 1]
  <2>1. p \in 1 .. p /\ \A j \in 1 .. p - 1 : j \in 1 .. p
    OBVIOUS
  <2> QED BY <2>1 DEF Shift
<1>2. c[w2[p].instr].rs1 \in Reg /\ c[w2[p].instr].rs2 \in Reg
  BY DEF Instruction
<1>3. ASSUME NEW r \in Reg, NEW v, Reads(c, w, regs, p + 1, r, v) PROVE Reads(c, w2, regs2, p, r, v)
  BY <1>1, <1>3, ReadsShift
<1> QED BY <1>1, <1>2, <1>3 DEF Sources, Holds

(* and so are the result and where it goes on. *)
LEMMA GivesShift ==
    ASSUME NEW c, NEW w, NEW w2, NEW regs, NEW regs2, NEW p \in Nat \ {0},
           Shift(c, w, w2, regs, regs2, p), c[w2[p].instr] \in Instruction(Reg)
    PROVE  /\ \A v : Gives(c, w, regs, p + 1, v) => Gives(c, w2, regs2, p, v)
           /\ \A pc : Leads(c, w, regs, p + 1, pc) => Leads(c, w2, regs2, p, pc)
<1>1. w2[p] = w[p + 1]
  <2>1. p \in 1 .. p
    OBVIOUS
  <2> QED BY <2>1 DEF Shift
<1>2. \A v1, v2 : Sources(c, w, regs, p + 1, v1, v2) => Sources(c, w2, regs2, p, v1, v2)
  BY SourcesShift
<1> QED BY <1>1, <1>2, Zenon DEF Gives, Leads

(***************************************************************************)
(* The reorder buffer as the sequence Items.                               *)
(***************************************************************************)
(* The p-th item is in the slot p - 1 behind the head, which is live. *)
LEMMA PlaceFacts ==
    ASSUME IInv, NEW p \in 1 .. count
    PROVE  /\ p - 1 \in 0 .. count - 1 /\ Slot(p - 1) \in Index /\ store[Slot(p - 1)].valid
           /\ Items[p].tag = store[Slot(p - 1)].tag
           /\ Items[p].instr = store[Slot(p - 1)].instr
           /\ Items[p].ready = store[Slot(p - 1)].ready
           /\ Items[p].result = store[Slot(p - 1)].result
           /\ Items[p].tag \in Tag
<1>1. p - 1 \in 0 .. count - 1
  BY DEF IInv, TypeOK
<1>2. Items[p] = [tag |-> store[Slot(p - 1)].tag, instr |-> store[Slot(p - 1)].instr,
                  ready |-> store[Slot(p - 1)].ready, result |-> store[Slot(p - 1)].result]
  BY ItemsType DEF ItemsOK, Item
<1>3. store[Slot(p - 1)].tag \in Tag
  BY <1>1, TagOfSlot
<1> QED BY <1>1, <1>2, <1>3, SlotInWindow

(* The head of the ring is the first item. *)
LEMMA HeadFacts ==
    ASSUME IInv, count # 0
    PROVE  /\ 1 \in 1 .. count /\ head_index = Slot(0)
           /\ head_tag = Items[1].tag /\ store[head_index].instr = Items[1].instr
           /\ store[head_index].ready = Items[1].ready
           /\ store[head_index].result = Items[1].result
<1>1. 1 \in 1 .. count /\ 1 - 1 = 0 /\ 0 \in 0 .. count
  BY RobSizeAssumption DEF IInv, TypeOK
<1>2. Slot(0) = head_index
  BY <1>1, SlotWrap, RobSizeAssumption DEF IInv, TypeOK, Index
<1> QED BY <1>1, <1>2, PlaceFacts DEF head_tag

(* The tag of an item finds its slot, and its place in the window. *)
LEMMA TagFacts ==
    ASSUME IInv, NEW p \in 1 .. count
    PROVE  /\ at_tag(Items[p].tag) = store[Slot(p - 1)]
           /\ PlaceOf(Items[p].tag) = p - 1
<1>1. at_tag(Items[p].tag) = store[Slot(p - 1)]
  BY PlaceFacts, TagIndex DEF at_tag
<1>2. PlaceOf(Items[p].tag) = p - 1
  <2> DEFINE t == store[Slot(p - 1)].tag
             h == store[Slot(0)].tag
             offset == (t - h) % (2 * ROB_SIZE)
  <2>1. count # 0 /\ count \in 0 .. ROB_SIZE /\ next_tag \in Tag
    BY RobSizeAssumption, NextTag DEF IInv, TypeOK
  <2>2. p - 1 \in 0 .. count - 1 /\ 0 \in 0 .. count - 1 /\ t = Items[p].tag /\ head_tag = h
    <3>1. 0 \in 0 .. count - 1
      BY <2>1
    <3> QED BY <2>1, <3>1, PlaceFacts, HeadFacts DEF head_tag
  <2>3. /\ t \in Tag /\ h \in Tag
        /\ t = IF next_tag < count - (p - 1) THEN next_tag - (count - (p - 1)) + 2 * ROB_SIZE
                                             ELSE next_tag - (count - (p - 1))
        /\ h = IF next_tag < count - 0 THEN next_tag - (count - 0) + 2 * ROB_SIZE
                                       ELSE next_tag - (count - 0)
    BY <2>2, TagOfSlot
  <2>4. offset = IF t < h THEN t - h + 2 * ROB_SIZE ELSE t - h
    BY <2>3, TagDifference
  <2>5. PlaceOf(Items[p].tag) = offset
    BY <2>2 DEF PlaceOf
  <2> HIDE DEF t, h, offset
  <2>6. offset = p - 1
    BY <2>1, <2>2, <2>3, <2>4, RobSizeAssumption DEF Tag
  <2> QED BY <2>5, <2>6
<1> QED BY <1>1, <1>2

(* The comparison of two tags is the order of the items. *)
LEMMA AgeFacts ==
    ASSUME IInv, NEW j \in 1 .. count, NEW k \in 1 .. count
    PROVE  /\ is_rob_younger(Items[j].tag, Items[k].tag) <=> j > k
           /\ Items[j].tag = Items[k].tag => j = k
<1>1. j \in Int /\ k \in Int /\ j - 1 \in 0 .. count - 1 /\ k - 1 \in 0 .. count - 1
  BY PlaceFacts
<1>2. is_rob_younger(Items[j].tag, Items[k].tag) <=> j - 1 > k - 1
  BY <1>1, PlaceFacts, YoungerIsLater DEF YoungerIsProgramOrder
<1>3. PlaceOf(Items[j].tag) = j - 1 /\ PlaceOf(Items[k].tag) = k - 1
  BY TagFacts
<1> QED BY <1>1, <1>2, <1>3

(* The live slots are the places of the window. *)
LEMMA LiveIsPlaced ==
    ASSUME IInv, NEW i \in Index, store[i].valid
    PROVE  \E p \in 1 .. count : i = Slot(p - 1)
<1> DEFINE k == Age(i, head_index)
<1>1. k \in 0 .. count - 1 /\ Slot(k) = i /\ count \in Nat
  BY AgeSlot, RobSizeAssumption DEF IInv, TypeOK
<1> HIDE DEF k
<1>2. k + 1 \in 1 .. count /\ (k + 1) - 1 = k
  BY <1>1
<1> QED BY <1>1, <1>2

(* LastWriter is the tag of the last item that writes the register. *)
LEMMA LastWriterIs ==
    ASSUME IInv, NEW r, NEW n \in 0 .. count, NEW k, IsLast(code, Items, r, n, k)
    PROVE  LastWriter(r, n) = Named(Items, k)
<1> DEFINE ks == {j \in 0 .. n - 1 : LET i == code[store[Slot(j)].instr] IN writes(i) /\ i.rd = r}
<1>1. count \in Nat
  BY RobSizeAssumption DEF IInv, TypeOK
<1>2. ASSUME NEW j \in 0 .. n - 1 PROVE j \in ks <=> WritesTo(code, Items[j + 1], r)
  <2>1. j + 1 \in 1 .. count /\ (j + 1) - 1 = j
    BY <1>1
  <2>2. Items[j + 1].instr = store[Slot(j)].instr
    BY <2>1, PlaceFacts
  <2> QED BY <2>2 DEF WritesTo
<1>3. \A j \in ks : j \in 0 .. n - 1
  OBVIOUS
<1>4. LastWriter(r, n) = IF ks = {} THEN INVALID_ROB ELSE store[Slot(Max(ks))].tag
  BY Zenon DEF LastWriter
<1> HIDE DEF ks
<1>5. /\ k \in 0 .. n
      /\ k # 0 => WritesTo(code, Items[k], r)
      /\ \A j \in k + 1 .. n : ~WritesTo(code, Items[j], r)
  BY DEF IsLast
<1>6. ASSUME NEW j \in ks PROVE j + 1 <= k
  <2>1. j \in 0 .. n - 1 /\ WritesTo(code, Items[j + 1], r)
    BY <1>2, <1>3
  <2>2. ~ (j + 1 \in k + 1 .. n)
    BY <1>5, <2>1
  <2> QED BY <1>1, <1>5, <2>1, <2>2
<1>7. CASE k = 0
  <2>1. ks = {}
    <3> SUFFICES ASSUME NEW j \in ks PROVE FALSE
      OBVIOUS
    <3>1. j + 1 <= 0 /\ j \in 0 .. n - 1
      BY <1>3, <1>6, <1>7
    <3>2. n \in Int
      BY <1>1
    <3> QED BY <3>1, <3>2
  <2> QED BY <1>4, <1>7, <2>1 DEF Named
<1>8. CASE k # 0
  <2>1. k - 1 \in 0 .. n - 1 /\ (k - 1) + 1 = k /\ k \in 1 .. count
    BY <1>1, <1>5, <1>8
  <2>2. k - 1 \in ks
    BY <1>2, <1>5, <1>8, <2>1
  <2>3. ASSUME NEW j \in ks PROVE k - 1 >= j
    <3>1. j + 1 <= k /\ j \in 0 .. n - 1 /\ n \in Int /\ k \in Int
      BY <1>1, <1>3, <1>5, <1>6
    <3> QED BY <3>1
  <2>4. Max(ks) = k - 1
    <3>1. \A x \in ks : (\A y \in ks : x >= y) => x = k - 1
      <4> SUFFICES ASSUME NEW x \in ks, \A y \in ks : x >= y PROVE x = k - 1
        OBVIOUS
      <4>1. x >= k - 1 /\ k - 1 >= x /\ x \in Int
        BY <1>3, <2>2, <2>3
      <4> QED BY <2>1, <4>1
    <3>2. \E x \in ks : \A y \in ks : x >= y
      BY <2>2, <2>3
    <3>3. Max(ks) \in ks /\ \A y \in ks : Max(ks) >= y
      BY <3>2, Zenon DEF Max
    <3> QED BY <3>1, <3>3
  <2>5. store[Slot(k - 1)].tag = Items[k].tag
    BY <2>1, PlaceFacts
  <2>6. ks # {}
    BY <2>2
  <2> QED BY <1>4, <1>8, <2>4, <2>5, <2>6 DEF Named
<1> QED BY <1>7, <1>8

------------------------------------------------------------------------------
(* What the operations of the ring do to it. *)
LEMMA Counted == IInv => count \in 0 .. ROB_SIZE /\ count \in Nat
  BY RobSizeAssumption DEF IInv, TypeOK

(* allocate appends an item with a tag that no other has. *)
LEMMA Allocated ==
    ASSUME IInv, NEW instr \in Instr, allocate(instr)
    PROVE  /\ IInv' /\ count' = count + 1
           /\ \A j \in 1 .. count : Items'[j] = Items[j]
           /\ Items'[count + 1] = [tag |-> next_tag, instr |-> instr, ready |-> FALSE, result |-> NULL]
           /\ next_tag \in Tag /\ \A j \in 1 .. count : Items[j].tag # next_tag
<1> DEFINE new == [tag |-> next_tag, instr |-> instr, ready |-> FALSE, result |-> NULL]
<1>1. IInv' /\ count' = count + 1 /\ next_tag \in Tag
  BY AllocateIInv, NextTag DEF allocate
<1>2. next_tag \notin Window!TagsInUse /\ Items' = Append(Items, new)
  BY AllocateRefines DEF Window!Issue
<1>3. Items \in Seq(Itemset) /\ Len(Items) = count /\ DOMAIN Items = 1 .. count /\ count \in Nat
  BY ItemsType, SeqOfFunction DEF ItemsOK
<1>4. /\ \A j \in 1 .. count : Append(Items, new)[j] = Items[j]
      /\ Append(Items, new)[count + 1] = new
  <2> HIDE DEF new
  <2> QED BY <1>3
<1>5. \A j \in 1 .. count : Items[j].tag # next_tag
  BY <1>2, <1>3 DEF Window!TagsInUse
<1> QED BY <1>1, <1>2, <1>4, <1>5

(* update completes the item with this tag. *)
LEMMA Updated ==
    ASSUME IInv, NEW rob_tag \in Tag, NEW value \in Value, update(rob_tag, value)
    PROVE  /\ IInv' /\ count' = count
           /\ \E k \in 1 .. count :
                 /\ Items[k].tag = rob_tag /\ ~Items[k].ready
                 /\ \A j \in 1 .. count :
                       Items'[j] = IF j = k THEN [tag |-> rob_tag, instr |-> Items[k].instr,
                                                  ready |-> TRUE, result |-> value]
                                   ELSE Items[j]
<1>1. IInv' /\ count' = count
  BY UpdateIInv DEF update
<1>2. PICK k \in DOMAIN Items :
         /\ Items[k].tag = rob_tag /\ ~Items[k].ready
         /\ Items' = [Items EXCEPT ![k] = [tag |-> rob_tag, instr |-> Items[k].instr,
                                           ready |-> TRUE, result |-> value]]
  BY UpdateRefines DEF Window!Complete
<1>3. DOMAIN Items = 1 .. count /\ Items \in [1 .. count -> Itemset]
  BY ItemsType DEF ItemsOK
<1>4. \A j \in 1 .. count : Items'[j] = IF j = k THEN [tag |-> rob_tag, instr |-> Items[k].instr,
                                                       ready |-> TRUE, result |-> value]
                                        ELSE Items[j]
  BY <1>2, <1>3
<1> QED BY <1>1, <1>2, <1>3, <1>4

(* pop takes the first item away. *)
LEMMA Popped ==
    ASSUME IInv, pop
    PROVE  /\ IInv' /\ count # 0 /\ count' = count - 1 /\ Items[1].ready
           /\ \A j \in 1 .. count - 1 : Items'[j] = Items[j + 1]
<1>1. IInv' /\ count # 0 /\ count' = count - 1
  BY PopIInv DEF pop, empty
<1>2. Items # << >> /\ Items' = Tail(Items)
  BY PopRefines DEF Window!Retire
<1>3. Items \in Seq(Itemset) /\ Len(Items) = count /\ count \in Nat
  BY ItemsType, SeqOfFunction DEF ItemsOK
<1>4. Items[1].ready
  BY <1>1, HeadFacts DEF pop
<1>5. \A j \in 1 .. count - 1 : Tail(Items)[j] = Items[j + 1]
  BY <1>1, <1>2, <1>3, HeadTailProperties
<1> QED BY <1>1, <1>2, <1>4, <1>5

(* What leaves the ring alone leaves the items alone. *)
LEMMA RingUnchanged ==
    ASSUME IInv, UNCHANGED ROB
    PROVE  IInv' /\ Items' = Items /\ count' = count
<1>1. UNCHANGED store /\ UNCHANGED head_index /\ UNCHANGED tail_index
      /\ UNCHANGED count /\ UNCHANGED phase_bit
  BY DEF ROB
<1>2. Items' = Items
  BY <1>1 DEF Items, Item, Slot
<1>3. IInv'
  BY <1>1 DEF IInv, TypeOK, WindowInv, InWindow, LapTag, TailOf
<1> QED BY <1>1, <1>2, <1>3

(* invalidate keeps the items up to the branch. *)
LEMMA CutOff ==
    ASSUME IInv, NEW p \in 1 .. count, ROB_invalidate(Items[p].tag)
    PROVE  IInv' /\ count' = p /\ \A j \in 1 .. p : Items'[j] = Items[j]
<1> DEFINE rob_tag == Items[p].tag
           b == Slot(p - 1)
<1>1. rob_tag \in Tag /\ b \in Index /\ store[b].valid /\ store[b].tag = rob_tag /\ Age(b, head_index) = p - 1
  BY PlaceFacts, SlotInWindow
<1>2. removed_by(rob_tag) = count - 1 - (p - 1) /\ count \in Nat
  BY <1>1, RemovedCount, Counted
<1> HIDE DEF rob_tag, b
<1>3. CASE removed_by(rob_tag) = 0
  <2>1. UNCHANGED ROB /\ p = count
    BY <1>2, <1>3 DEF ROB_invalidate, rob_tag
  <2>2. UNCHANGED store /\ UNCHANGED head_index /\ UNCHANGED tail_index
        /\ UNCHANGED count /\ UNCHANGED phase_bit
    BY <2>1 DEF ROB
  <2>3. IInv' /\ Items' = Items
    BY <2>2, RingUnchanged DEF ROB
  <2> QED BY <2>1, <2>2, <2>3
<1>4. CASE removed_by(rob_tag) # 0
  <2>1. invalidate(rob_tag)
    BY <1>4 DEF ROB_invalidate, rob_tag
  <2>2. IInv'
    BY <1>1, <2>1, InvalidateIInv
  <2>3. PICK k \in DOMAIN Items : Items[k].tag = rob_tag /\ Items' = SubSeq(Items, 1, k)
    BY <1>1, <2>1, InvalidateRefines DEF Window!Flush
  <2>4. DOMAIN Items = 1 .. count /\ Items \in [1 .. count -> Itemset]
    BY ItemsType DEF ItemsOK
  <2>5. k = p
    BY <2>3, <2>4, AgeFacts DEF rob_tag
  <2>6. count' = p
    <3>1. count' = count - removed_by(rob_tag)
      BY <2>1, Zenon DEF invalidate
    <3>2. p \in Int
      BY <1>2
    <3> QED BY <1>2, <3>1, <3>2
  <2>7. \A j \in 1 .. p : SubSeq(Items, 1, p)[j] = Items[j]
    <3>1. \A j \in 1 .. p : Items[j] \in Itemset
      BY <1>2, <2>4
    <3> QED BY <3>1, SubSeqProperties, <1>2
  <2> QED BY <2>2, <2>3, <2>5, <2>6, <2>7
<1> QED BY <1>3, <1>4

(***************************************************************************)
(* What is known of each thing that the core has about one of the n        *)
(* instructions of the window w: it is told by its tag.                    *)
(***************************************************************************)
StationIs(c, w, regs, n, e) ==
    \E p \in 1 .. n :
        /\ w[p].tag = e.rd_rob /\ w[p].instr = e.instr /\ ~w[p].ready
        /\ OperandIs(c, w, regs, p, use_rs1(c[e.instr]), c[e.instr].rs1, e.rs1_rob, e.rs1_data)
        /\ OperandIs(c, w, regs, p, use_rs2(c[e.instr]), c[e.instr].rs2, e.rs2_rob, e.rs2_data)

InputIs(c, w, regs, n, u, input) ==
    \E p \in 1 .. n :
        /\ w[p].tag = input.rob_tag /\ w[p].instr = input.instr /\ ~w[p].ready
        /\ FUType(c[input.instr]) = u
        /\ Sources(c, w, regs, p, input.rs1_value, input.rs2_value)

(* The result of the instruction with this tag, on its way to the window. *)
ResultIs(c, w, regs, n, tag, v) ==
    \E p \in 1 .. n : w[p].tag = tag /\ ~w[p].ready /\ Gives(c, w, regs, p, v)

(* The table that was saved at the branch with this tag. *)
SavedIs(c, w, n, tag, rat) == \E p \in 1 .. n : w[p].tag = tag /\ TableIs(c, w, rat, p)

(* The branch with this tag goes to pc. *)
BranchIs(c, w, regs, n, tag, pc) ==
    \E p \in 1 .. n : w[p].tag = tag /\ is_branch(c[w[p].instr]) /\ Leads(c, w, regs, p, pc)

CompleteAre(c, w, regs, n) == \A p \in 1 .. n : w[p].ready => Gives(c, w, regs, p, w[p].result)

(* No two have the same tag, and no tag is INVALID_ROB. *)
TagsDiffer(w, n) ==
    \A j \in 1 .. n : w[j].tag # INVALID_ROB /\ \A k \in 1 .. n : w[j].tag = w[k].tag => j = k

------------------------------------------------------------------------------
(* The first m of n instructions stay, and the one with this tag is among them. *)
Remains(w, w2, n, m, tag) == Stay(w, w2, m) /\ \A j \in 1 .. n : w[j].tag = tag => j <= m

(* It completes no sooner. *)
Incomplete(w, w2, n, tag) == \A j \in 1 .. n : w[j].tag = tag => (w2[j].ready <=> w[j].ready)

(* What stays does so for fewer items too. *)
LEMMA StayLess ==
    ASSUME NEW w, NEW w2, NEW m \in Nat, Stay(w, w2, m), NEW p \in 1 .. m
    PROVE  /\ Stay(w, w2, p) /\ Stay(w, w2, p - 1)
           /\ w2[p].tag = w[p].tag /\ w2[p].instr = w[p].instr
<1>1. \A j \in 1 .. p : j \in 1 .. m
  OBVIOUS
<1>2. \A j \in 1 .. p - 1 : j \in 1 .. m
  OBVIOUS
<1> QED BY <1>1, <1>2, Zenon DEF Stay

(* What a station has stays right. *)
LEMMA StationStays ==
    ASSUME NEW c, NEW w, NEW w2, NEW regs, NEW n \in Nat, NEW m \in Nat, NEW n2 \in Nat, m <= n2,
           NEW e, StationIs(c, w, regs, n, e), Remains(w, w2, n, m, e.rd_rob),
           \A k \in 1 .. m : w2[k].ready <=> w[k].ready
    PROVE  StationIs(c, w2, regs, n2, e)
<1>1. PICK p \in 1 .. n :
        /\ w[p].tag = e.rd_rob /\ w[p].instr = e.instr /\ ~w[p].ready
        /\ OperandIs(c, w, regs, p, use_rs1(c[e.instr]), c[e.instr].rs1, e.rs1_rob, e.rs1_data)
        /\ OperandIs(c, w, regs, p, use_rs2(c[e.instr]), c[e.instr].rs2, e.rs2_rob, e.rs2_data)
  BY DEF StationIs
<1>2. p \in 1 .. m /\ p \in 1 .. n2 /\ p \in Nat \ {0}
  BY <1>1 DEF Remains
<1>3. Stay(w, w2, p - 1) /\ w2[p].tag = w[p].tag /\ w2[p].instr = w[p].instr
  BY <1>2, StayLess DEF Remains
<1>4. \A k \in 1 .. p - 1 : w2[k].ready <=> w[k].ready
  BY <1>2
<1>5. /\ OperandIs(c, w2, regs, p, use_rs1(c[e.instr]), c[e.instr].rs1, e.rs1_rob, e.rs1_data)
      /\ OperandIs(c, w2, regs, p, use_rs2(c[e.instr]), c[e.instr].rs2, e.rs2_rob, e.rs2_data)
  BY <1>1, <1>2, <1>3, <1>4, OperandStays
<1> QED BY <1>1, <1>2, <1>3, <1>5 DEF StationIs

(* Of the first n the one with the tag t completes with v, and no other does. *)
Updates(w, w2, n, t, v) ==
    \A k \in 1 .. n :
        IF w[k].tag = t THEN w2[k].ready /\ w2[k].result = v ELSE w2[k].ready <=> w[k].ready

(* A broadcast gives an operand that waits for it its value. *)
LEMMA OperandUpdated ==
    ASSUME NEW c, NEW w, NEW w2, NEW regs, NEW p \in Nat \ {0}, Stay(w, w2, p - 1),
           NEW used, NEW r, NEW waits, NEW data, OperandIs(c, w, regs, p, used, r, waits, data),
           NEW t, t # INVALID_ROB, NEW v,
           Updates(w, w2, p - 1, t, v),
           NEW waits2, waits2 = IF waits = t THEN INVALID_ROB ELSE waits,
           NEW data2, data2 = IF waits = t THEN v ELSE data
    PROVE  OperandIs(c, w2, regs, p, used, r, waits2, data2)
<1>1. CASE waits = t
  <2>1. Awaits(c, w, p, used, r, waits)
    BY <1>1 DEF OperandIs
  <2>2. Holds(c, w2, regs, p, used, r, v)
    BY <1>1, <2>1, OperandComes DEF Updates
  <2> QED BY <1>1, <2>2 DEF OperandIs
<1>2. CASE waits # t
  <2>1. \A k \in 1 .. p - 1 : w2[k].tag = w[k].tag
    BY DEF Stay
  <2>2. OperandIs(c, w2, regs, p, used, r, waits, data)
    BY <1>2, <2>1, OperandStays DEF Updates
  <2> QED BY <1>2, <2>2
<1> QED BY <1>1, <1>2

(* A broadcast keeps what a station has right (update_operands). *)
LEMMA StationUpdated ==
    ASSUME NEW c, NEW w, NEW w2, NEW regs, NEW n \in Nat, Stay(w, w2, n),
           NEW e \in Held, StationIs(c, w, regs, n, e), NEW t, t # INVALID_ROB, e.rd_rob # t, NEW v,
           Updates(w, w2, n, t, v)
    PROVE  StationIs(c, w2, regs, n, updated(e, t, v))
<1> DEFINE f == updated(e, t, v)
<1>1. PICK p \in 1 .. n :
        /\ w[p].tag = e.rd_rob /\ w[p].instr = e.instr /\ ~w[p].ready
        /\ OperandIs(c, w, regs, p, use_rs1(c[e.instr]), c[e.instr].rs1, e.rs1_rob, e.rs1_data)
        /\ OperandIs(c, w, regs, p, use_rs2(c[e.instr]), c[e.instr].rs2, e.rs2_rob, e.rs2_data)
  BY DEF StationIs
<1>2. p \in Nat \ {0} /\ \A k \in 1 .. p - 1 : k \in 1 .. n
  OBVIOUS
<1>3. Stay(w, w2, p - 1) /\ w2[p].tag = w[p].tag /\ w2[p].instr = w[p].instr
  BY StayLess
<1>4. /\ f.rd_rob = e.rd_rob /\ f.instr = e.instr
      /\ f.rs1_rob = IF e.rs1_rob = t THEN INVALID_ROB ELSE e.rs1_rob
      /\ f.rs1_data = IF e.rs1_rob = t THEN v ELSE e.rs1_data
      /\ f.rs2_rob = IF e.rs2_rob = t THEN INVALID_ROB ELSE e.rs2_rob
      /\ f.rs2_data = IF e.rs2_rob = t THEN v ELSE e.rs2_data
  BY DEF Held, updated
<1> HIDE DEF f
<1>5. /\ OperandIs(c, w2, regs, p, use_rs1(c[e.instr]), c[e.instr].rs1, f.rs1_rob, f.rs1_data)
      /\ OperandIs(c, w2, regs, p, use_rs2(c[e.instr]), c[e.instr].rs2, f.rs2_rob, f.rs2_data)
  <2>1. Updates(w, w2, p - 1, t, v)
    BY <1>2 DEF Updates
  <2>2. OperandIs(c, w2, regs, p, use_rs1(c[e.instr]), c[e.instr].rs1, f.rs1_rob, f.rs1_data)
    BY <1>1, <1>2, <1>3, <1>4, <2>1, OperandUpdated
  <2>3. OperandIs(c, w2, regs, p, use_rs2(c[e.instr]), c[e.instr].rs2, f.rs2_rob, f.rs2_data)
    BY <1>1, <1>2, <1>3, <1>4, <2>1, OperandUpdated
  <2> QED BY <2>2, <2>3
<1>6. ~w2[p].ready
  BY <1>1 DEF Updates
<1>7. StationIs(c, w2, regs, n, f)
  BY <1>1, <1>3, <1>4, <1>5, <1>6 DEF StationIs
<1> QED BY <1>7 DEF f

(* What a unit works on stays right, *)
LEMMA InputStays ==
    ASSUME NEW c, NEW w, NEW w2, NEW regs, NEW n \in Nat, NEW m \in Nat, NEW n2 \in Nat, m <= n2,
           NEW u, NEW input, InputIs(c, w, regs, n, u, input),
           Remains(w, w2, n, m, input.rob_tag), Incomplete(w, w2, n, input.rob_tag)
    PROVE  InputIs(c, w2, regs, n2, u, input)
<1>1. PICK p \in 1 .. n :
        /\ w[p].tag = input.rob_tag /\ w[p].instr = input.instr /\ ~w[p].ready
        /\ FUType(c[input.instr]) = u
        /\ Sources(c, w, regs, p, input.rs1_value, input.rs2_value)
  BY DEF InputIs
<1>2. p \in 1 .. m /\ p \in 1 .. n2 /\ p \in Nat \ {0} /\ ~w2[p].ready
  BY <1>1 DEF Remains, Incomplete
<1>3. Stay(w, w2, p) /\ w2[p].tag = w[p].tag /\ w2[p].instr = w[p].instr
  BY <1>2, StayLess DEF Remains
<1>4. Sources(c, w2, regs, p, input.rs1_value, input.rs2_value)
  BY <1>1, <1>2, <1>3, SourcesStay
<1> QED BY <1>1, <1>2, <1>3, <1>4 DEF InputIs

(* a result stays right, *)
LEMMA ResultStays ==
    ASSUME NEW c, NEW w, NEW w2, NEW regs, NEW n \in Nat, NEW m \in Nat, NEW n2 \in Nat, m <= n2,
           NEW tag, NEW v, ResultIs(c, w, regs, n, tag, v),
           Remains(w, w2, n, m, tag), Incomplete(w, w2, n, tag)
    PROVE  ResultIs(c, w2, regs, n2, tag, v)
<1>1. PICK p \in 1 .. n : w[p].tag = tag /\ ~w[p].ready /\ Gives(c, w, regs, p, v)
  BY DEF ResultIs
<1>2. p \in 1 .. m /\ p \in 1 .. n2 /\ p \in Nat \ {0} /\ ~w2[p].ready
  BY <1>1 DEF Remains, Incomplete
<1>3. Stay(w, w2, p) /\ w2[p].tag = w[p].tag
  BY <1>2, StayLess DEF Remains
<1>4. Gives(c, w2, regs, p, v)
  BY <1>1, <1>2, <1>3, GivesStay
<1> QED BY <1>1, <1>2, <1>3, <1>4 DEF ResultIs

(* a table stays right, *)
LEMMA TableStays ==
    ASSUME NEW c, NEW w, NEW w2, NEW n \in Nat, Stay(w, w2, n), NEW rat, TableIs(c, w, rat, n)
    PROVE  TableIs(c, w2, rat, n)
<1>1. \A j \in 1 .. n : w2[j].instr = w[j].instr /\ w2[j].tag = w[j].tag
  BY DEF Stay
<1>2. ASSUME NEW k \in 0 .. n PROVE Named(w2, k) = Named(w, k)
  <2>1. k # 0 => k \in 1 .. n
    OBVIOUS
  <2> QED BY <1>1, <2>1 DEF Named
<1>3. ASSUME NEW r, NEW k PROVE IsLast(c, w2, r, n, k) <=> IsLast(c, w, r, n, k)
  BY <1>1, LastStays
<1> QED BY <1>2, <1>3 DEF TableIs

(* a table that was saved stays right, *)
LEMMA SavedStays ==
    ASSUME NEW c, NEW w, NEW w2, NEW n \in Nat, NEW m \in Nat, NEW n2 \in Nat, m <= n2,
           NEW tag, NEW rat, SavedIs(c, w, n, tag, rat), Remains(w, w2, n, m, tag)
    PROVE  SavedIs(c, w2, n2, tag, rat)
<1>1. PICK p \in 1 .. n : w[p].tag = tag /\ TableIs(c, w, rat, p)
  BY DEF SavedIs
<1>2. p \in 1 .. m /\ p \in 1 .. n2 /\ p \in Nat \ {0}
  BY <1>1 DEF Remains
<1>3. Stay(w, w2, p) /\ w2[p].tag = w[p].tag
  BY <1>2, StayLess DEF Remains
<1>4. TableIs(c, w2, rat, p)
  BY <1>1, <1>2, <1>3, TableStays
<1> QED BY <1>1, <1>2, <1>3, <1>4 DEF SavedIs

(* and where a branch goes. *)
LEMMA BranchStays ==
    ASSUME NEW c, NEW w, NEW w2, NEW regs, NEW n \in Nat, NEW m \in Nat, NEW n2 \in Nat, m <= n2,
           NEW tag, NEW pc, BranchIs(c, w, regs, n, tag, pc), Remains(w, w2, n, m, tag)
    PROVE  BranchIs(c, w2, regs, n2, tag, pc)
<1>1. PICK p \in 1 .. n : w[p].tag = tag /\ is_branch(c[w[p].instr]) /\ Leads(c, w, regs, p, pc)
  BY DEF BranchIs
<1>2. p \in 1 .. m /\ p \in 1 .. n2 /\ p \in Nat \ {0}
  BY <1>1 DEF Remains
<1>3. Stay(w, w2, p) /\ w2[p].tag = w[p].tag /\ w2[p].instr = w[p].instr
  BY <1>2, StayLess DEF Remains
<1>4. Leads(c, w2, regs, p, pc)
  BY <1>1, <1>2, <1>3, GivesStay
<1> QED BY <1>1, <1>2, <1>3, <1>4 DEF BranchIs

(* The results that are there stay right; a new one has to be. *)
LEMMA CompleteStay ==
    ASSUME NEW c, NEW w, NEW w2, NEW regs, NEW n \in Nat, NEW n2 \in Nat, n2 <= n,
           CompleteAre(c, w, regs, n), Stay(w, w2, n2),
           \A p \in 1 .. n2 : w2[p].ready => w[p].ready \/ Gives(c, w, regs, p, w2[p].result)
    PROVE  CompleteAre(c, w2, regs, n2)
<1> SUFFICES ASSUME NEW p \in 1 .. n2, w2[p].ready PROVE Gives(c, w2, regs, p, w2[p].result)
  BY DEF CompleteAre
<1>1. p \in 1 .. n /\ p \in Nat \ {0}
  OBVIOUS
<1>2. Stay(w, w2, p)
  BY StayLess
<1>3. w[p].ready => w2[p].result = w[p].result
  BY DEF Stay
<1>4. Gives(c, w, regs, p, w2[p].result)
  BY <1>1, <1>3 DEF CompleteAre
<1> QED BY <1>1, <1>2, <1>4, GivesStay

(* The same, one place further up, for what is not the first, which leaves. *)
LEMMA ShiftLess ==
    ASSUME NEW c, NEW w, NEW w2, NEW regs, NEW regs2, NEW n \in Nat,
           Shift(c, w, w2, regs, regs2, n), NEW p \in 1 .. n + 1, p # 1
    PROVE  /\ p - 1 \in 1 .. n /\ p - 1 \in Nat \ {0} /\ (p - 1) + 1 = p
           /\ Shift(c, w, w2, regs, regs2, p - 1) /\ Shift(c, w, w2, regs, regs2, (p - 1) - 1)
           /\ w2[p - 1] = w[p]
<1>1. p - 1 \in 1 .. n /\ p - 1 \in Nat \ {0} /\ (p - 1) + 1 = p
  OBVIOUS
<1>2. \A j \in 1 .. p - 1 : j \in 1 .. n
  OBVIOUS
<1>3. \A j \in 1 .. (p - 1) - 1 : j \in 1 .. n
  OBVIOUS
<1>4. Shift(c, w, w2, regs, regs2, p - 1)
  BY <1>2, Zenon DEF Shift
<1>5. Shift(c, w, w2, regs, regs2, (p - 1) - 1)
  BY <1>3, Zenon DEF Shift
<1>6. w2[p - 1] = w[p]
  BY <1>1 DEF Shift
<1> QED BY <1>1, <1>4, <1>5, <1>6

(* What a station has is right in the window that is left, *)
LEMMA StationShifts ==
    ASSUME NEW c, NEW w, NEW w2, NEW regs, NEW regs2, NEW n \in Nat, Shift(c, w, w2, regs, regs2, n),
           NEW e, StationIs(c, w, regs, n + 1, e), c[e.instr] \in Instruction(Reg)
    PROVE  StationIs(c, w2, regs2, n, e)
<1>1. PICK p \in 1 .. n + 1 :
        /\ w[p].tag = e.rd_rob /\ w[p].instr = e.instr /\ ~w[p].ready
        /\ OperandIs(c, w, regs, p, use_rs1(c[e.instr]), c[e.instr].rs1, e.rs1_rob, e.rs1_data)
        /\ OperandIs(c, w, regs, p, use_rs2(c[e.instr]), c[e.instr].rs2, e.rs2_rob, e.rs2_data)
  BY DEF StationIs
<1>2. p # 1
  BY <1>1 DEF Shift
<1> DEFINE q == p - 1
<1>3. /\ q \in 1 .. n /\ q \in Nat \ {0} /\ q + 1 = p
      /\ Shift(c, w, w2, regs, regs2, q) /\ Shift(c, w, w2, regs, regs2, q - 1)
      /\ w2[q] = w[p]
  BY <1>2, ShiftLess
<1> HIDE DEF q
<1>4. c[e.instr].rs1 \in Reg /\ c[e.instr].rs2 \in Reg
  BY DEF Instruction
<1>5. /\ OperandIs(c, w, regs, q + 1, use_rs1(c[e.instr]), c[e.instr].rs1, e.rs1_rob, e.rs1_data)
      /\ OperandIs(c, w, regs, q + 1, use_rs2(c[e.instr]), c[e.instr].rs2, e.rs2_rob, e.rs2_data)
  BY <1>1, <1>3
<1>6. /\ OperandIs(c, w2, regs2, q, use_rs1(c[e.instr]), c[e.instr].rs1, e.rs1_rob, e.rs1_data)
      /\ OperandIs(c, w2, regs2, q, use_rs2(c[e.instr]), c[e.instr].rs2, e.rs2_rob, e.rs2_data)
  BY <1>3, <1>4, <1>5, OperandShifts
<1> QED BY <1>1, <1>3, <1>6 DEF StationIs

(* and what a unit works on, *)
LEMMA InputShifts ==
    ASSUME NEW c, NEW w, NEW w2, NEW regs, NEW regs2, NEW n \in Nat, Shift(c, w, w2, regs, regs2, n),
           NEW u, NEW input, InputIs(c, w, regs, n + 1, u, input), c[input.instr] \in Instruction(Reg)
    PROVE  InputIs(c, w2, regs2, n, u, input)
<1>1. PICK p \in 1 .. n + 1 :
        /\ w[p].tag = input.rob_tag /\ w[p].instr = input.instr /\ ~w[p].ready
        /\ FUType(c[input.instr]) = u
        /\ Sources(c, w, regs, p, input.rs1_value, input.rs2_value)
  BY DEF InputIs
<1>2. p # 1
  BY <1>1 DEF Shift
<1> DEFINE q == p - 1
<1>3. /\ q \in 1 .. n /\ q \in Nat \ {0} /\ q + 1 = p
      /\ Shift(c, w, w2, regs, regs2, q)
      /\ w2[q] = w[p]
  BY <1>2, ShiftLess
<1> HIDE DEF q
<1>4. Sources(c, w, regs, q + 1, input.rs1_value, input.rs2_value) /\ c[w2[q].instr] \in Instruction(Reg)
  BY <1>1, <1>3
<1>5. Sources(c, w2, regs2, q, input.rs1_value, input.rs2_value)
  BY <1>3, <1>4, SourcesShift
<1> QED BY <1>1, <1>3, <1>5 DEF InputIs

(* and a result, *)
LEMMA ResultShifts ==
    ASSUME NEW c, NEW w, NEW w2, NEW regs, NEW regs2, NEW n \in Nat, Shift(c, w, w2, regs, regs2, n),
           \A j \in 1 .. n : c[w2[j].instr] \in Instruction(Reg),
           NEW tag, NEW v, ResultIs(c, w, regs, n + 1, tag, v)
    PROVE  ResultIs(c, w2, regs2, n, tag, v)
<1>1. PICK p \in 1 .. n + 1 : w[p].tag = tag /\ ~w[p].ready /\ Gives(c, w, regs, p, v)
  BY DEF ResultIs
<1>2. p # 1
  BY <1>1 DEF Shift
<1> DEFINE q == p - 1
<1>3. /\ q \in 1 .. n /\ q \in Nat \ {0} /\ q + 1 = p
      /\ Shift(c, w, w2, regs, regs2, q)
      /\ w2[q] = w[p]
  BY <1>2, ShiftLess
<1> HIDE DEF q
<1>4. Gives(c, w2, regs2, q, v)
  BY <1>1, <1>3, GivesShift
<1> QED BY <1>1, <1>3, <1>4 DEF ResultIs

(* and where a branch goes, when it is not the branch that left, *)
LEMMA BranchShifts ==
    ASSUME NEW c, NEW w, NEW w2, NEW regs, NEW regs2, NEW n \in Nat, Shift(c, w, w2, regs, regs2, n),
           \A j \in 1 .. n : c[w2[j].instr] \in Instruction(Reg),
           NEW tag, NEW pc, BranchIs(c, w, regs, n + 1, tag, pc), w[1].tag # tag
    PROVE  BranchIs(c, w2, regs2, n, tag, pc)
<1>1. PICK p \in 1 .. n + 1 : w[p].tag = tag /\ is_branch(c[w[p].instr]) /\ Leads(c, w, regs, p, pc)
  BY DEF BranchIs
<1>2. p # 1
  BY <1>1
<1> DEFINE q == p - 1
<1>3. /\ q \in 1 .. n /\ q \in Nat \ {0} /\ q + 1 = p
      /\ Shift(c, w, w2, regs, regs2, q)
      /\ w2[q] = w[p]
  BY <1>2, ShiftLess
<1> HIDE DEF q
<1>4. Leads(c, w2, regs2, q, pc)
  BY <1>1, <1>3, GivesShift
<1> QED BY <1>1, <1>3, <1>4 DEF BranchIs

(* and the results in the window. *)
LEMMA CompleteShift ==
    ASSUME NEW c, NEW w, NEW w2, NEW regs, NEW regs2, NEW n \in Nat, Shift(c, w, w2, regs, regs2, n),
           \A j \in 1 .. n : c[w2[j].instr] \in Instruction(Reg),
           CompleteAre(c, w, regs, n + 1)
    PROVE  CompleteAre(c, w2, regs2, n)
<1> SUFFICES ASSUME NEW q \in 1 .. n, w2[q].ready PROVE Gives(c, w2, regs2, q, w2[q].result)
  BY DEF CompleteAre
<1>1. q + 1 \in 1 .. n + 1 /\ q + 1 # 1 /\ (q + 1) - 1 = q
  OBVIOUS
<1>2. q \in Nat \ {0} /\ Shift(c, w, w2, regs, regs2, q) /\ w2[q] = w[q + 1]
  BY <1>1, ShiftLess
<1>3. Gives(c, w, regs, q + 1, w2[q].result)
  BY <1>1, <1>2 DEF CompleteAre
<1> QED BY <1>2, <1>3, GivesShift

------------------------------------------------------------------------------
(* What commit does to a table. *)
Cleared(c, w, rat) ==
    IF writes(c[w[1].instr]) THEN clear_mapping(rat, c[w[1].instr].rd, w[1].tag) ELSE rat

(* Only what names the one that leaves is cleared. *)
LEMMA ClearedIs ==
    ASSUME NEW c, NEW w, NEW rat \in [Reg -> Operand]
    PROVE  /\ Cleared(c, w, rat) \in [Reg -> Operand]
           /\ \A r \in Reg : Cleared(c, w, rat)[r] =
                 IF WritesTo(c, w[1], r) /\ rat[r] = w[1].tag THEN INVALID_ROB ELSE rat[r]
  BY DEF Cleared, clear_mapping, WritesTo, Operand

(* A cleared table is right in the window that is left. *)
LEMMA TableShifts ==
    ASSUME NEW c, NEW w, NEW w2, NEW n \in Nat, \A j \in 1 .. n : w2[j] = w[j + 1],
           TagsDiffer(w, n + 1),
           NEW rat \in [Reg -> Operand], TableIs(c, w, rat, n + 1)
    PROVE  TableIs(c, w2, Cleared(c, w, rat), n)
<1> SUFFICES ASSUME NEW r \in Reg, NEW l \in 0 .. n, IsLast(c, w2, r, n, l)
             PROVE  Cleared(c, w, rat)[r] = Named(w2, l)
  BY DEF TableIs
<1>1. n + 1 \in Nat /\ 1 \in 1 .. n + 1
  OBVIOUS
<1>2. PICK k \in 0 .. n + 1 : IsLast(c, w, r, n + 1, k)
  BY <1>1, LastExists
<1>3. l = IF k = 0 THEN 0 ELSE k - 1
  BY <1>2, LastMoves, LastUnique
<1>4. rat[r] = Named(w, k)
  BY <1>2 DEF TableIs
<1>5. Cleared(c, w, rat)[r] = IF WritesTo(c, w[1], r) /\ rat[r] = w[1].tag THEN INVALID_ROB ELSE rat[r]
  BY ClearedIs
<1>6. CASE k = 0
  BY <1>3, <1>4, <1>5, <1>6 DEF Named
<1>7. CASE k = 1
  <2>1. WritesTo(c, w[1], r)
    BY <1>2, <1>7 DEF IsLast
  <2> QED BY <1>3, <1>4, <1>5, <1>7, <2>1 DEF Named
<1>8. CASE k # 0 /\ k # 1
  <2>1. l \in 1 .. n /\ l + 1 = k /\ k \in 1 .. n + 1
    BY <1>2, <1>3, <1>8
  <2>2. w2[l] = w[k] /\ w[k].tag # w[1].tag
    BY <1>1, <1>8, <2>1 DEF TagsDiffer
  <2>3. l # 0
    BY <2>1
  <2> QED BY <1>4, <1>5, <1>8, <2>2, <2>3 DEF Named
<1> QED BY <1>6, <1>7, <1>8

(* So is one that was saved at a branch that is still there. *)
LEMMA SavedShifts ==
    ASSUME NEW c, NEW w, NEW w2, NEW n \in Nat, \A j \in 1 .. n : w2[j] = w[j + 1],
           TagsDiffer(w, n + 1), NEW tag, tag # w[1].tag,
           NEW rat \in [Reg -> Operand], SavedIs(c, w, n + 1, tag, rat)
    PROVE  SavedIs(c, w2, n, tag, Cleared(c, w, rat))
<1>1. PICK p \in 1 .. n + 1 : w[p].tag = tag /\ TableIs(c, w, rat, p)
  BY DEF SavedIs
<1> DEFINE q == p - 1
<1>2. q \in 1 .. n /\ q + 1 = p /\ q \in Nat
  BY <1>1
<1>3. TagsDiffer(w, q + 1) /\ \A j \in 1 .. q : w2[j] = w[j + 1]
  <2>1. \A j \in 1 .. q + 1 : j \in 1 .. n + 1
    BY <1>2
  <2>2. \A j \in 1 .. q : j \in 1 .. n
    BY <1>2
  <2> HIDE DEF q
  <2> QED BY <2>1, <2>2, Zenon DEF TagsDiffer
<1> HIDE DEF q
<1>4. TableIs(c, w2, Cleared(c, w, rat), q)
  BY <1>1, <1>2, <1>3, TableShifts
<1>5. w2[q].tag = tag
  BY <1>1, <1>2
<1> QED BY <1>2, <1>4, <1>5 DEF SavedIs

(* What issue does to the table. *)
LEMMA TableGrows ==
    ASSUME NEW c, NEW w, NEW w2, NEW n \in Nat, Stay(w, w2, n),
           NEW rat \in [Reg -> Operand], TableIs(c, w, rat, n),
           NEW rat2, rat2 = IF writes(c[w2[n + 1].instr])
                            THEN rat_set(rat, c[w2[n + 1].instr].rd, w2[n + 1].tag) ELSE rat
    PROVE  TableIs(c, w2, rat2, n + 1)
<1> SUFFICES ASSUME NEW r \in Reg, NEW k \in 0 .. n + 1, IsLast(c, w2, r, n + 1, k)
             PROVE  rat2[r] = Named(w2, k)
  BY DEF TableIs
<1>1. TableIs(c, w2, rat, n)
  BY TableStays
<1>2. CASE WritesTo(c, w2[n + 1], r)
  <2>1. k = n + 1
    BY <1>2, LastNext
  <2>2. rat2[r] = w2[n + 1].tag
    BY <1>2 DEF WritesTo, rat_set
  <2> QED BY <2>1, <2>2 DEF Named
<1>3. CASE ~WritesTo(c, w2[n + 1], r)
  <2>1. IsLast(c, w2, r, n, k)
    BY <1>3, LastNext
  <2>2. k \in 0 .. n
    BY <2>1 DEF IsLast
  <2>3. rat2[r] = rat[r]
    BY <1>3 DEF WritesTo, rat_set
  <2> QED BY <1>1, <2>1, <2>2, <2>3 DEF TableIs
<1> QED BY <1>2, <1>3

(***************************************************************************)
(* The stations: the stack of free entries lists each free entry once.  The *)
(* number of entries in use is the stack's top; without that a release     *)
(* could take the top below zero.                                          *)
(***************************************************************************)
Typed ==
    /\ RS_store \in [Station -> Held \cup {NoInstrHeld}]
    /\ RS_indices \in [Station -> Station]
    /\ RS_next_index \in 0 .. NUM_RSS

TopCountsBusy == RS_next_index = Cardinality(Busy)

Above == RS_next_index .. NUM_RSS - 1

AboveIsFree ==
    /\ \A k \in Above : RS_indices[k] \notin Busy
    /\ \A i \in Station \ Busy : \E k \in Above : RS_indices[k] = i
    /\ \A k, l \in Above : RS_indices[k] = RS_indices[l] => k = l

RSInv == Typed /\ TopCountsBusy /\ AboveIsFree

(* There are NUM_RSS stations. *)
LEMMA Stations == IsFiniteSet(Station) /\ Cardinality(Station) = NUM_RSS /\ Station \subseteq Nat
  BY NumRssAssumption, FS_Interval DEF Station

(* A set of stations has no more than that. *)
LEMMA SetsOfStations ==
    ASSUME NEW S \in SUBSET Station
    PROVE  IsFiniteSet(S) /\ Cardinality(S) \in 0 .. NUM_RSS
<1>1. IsFiniteSet(S) /\ Cardinality(S) <= NUM_RSS
  BY Stations, FS_Subset
<1> QED BY <1>1, FS_CardinalityType, NumRssAssumption

------------------------------------------------------------------------------
(* The list a flush builds (ReservationStation::invalidate). *)

(* The members of S below one of them and that one are as many as there are,
   at most, below something higher. *)
LEMMA RankGrows ==
    ASSUME NEW S \in SUBSET Station, NEW i \in S, NEW M \in SUBSET S,
           {j \in S : j < i} \cup {i} \subseteq M
    PROVE  Before(i, S) \in Nat /\ Before(i, S) < Cardinality(M)
<1> DEFINE L == {j \in S : j < i}
<1>1. IsFiniteSet(L) /\ Cardinality(L) \in Nat /\ i \notin L
  BY SetsOfStations, Stations
<1>2. Cardinality(L \cup {i}) = Cardinality(L) + 1
  BY <1>1, FS_AddElement
<1>3. Cardinality(L \cup {i}) <= Cardinality(M) /\ Cardinality(M) \in Nat
  BY SetsOfStations, FS_Subset
<1> QED BY <1>1, <1>2, <1>3 DEF Before

(* A member of S has fewer below it than S has, *)
LEMMA RankInRange ==
    ASSUME NEW S \in SUBSET Station, NEW i \in S
    PROVE  Before(i, S) \in 0 .. Cardinality(S) - 1
<1>1. Before(i, S) \in Nat /\ Before(i, S) < Cardinality(S)
  BY RankGrows
<1> QED BY <1>1, SetsOfStations

(* and no two members have as many. *)
LEMMA RanksDiffer ==
    ASSUME NEW S \in SUBSET Station, NEW i \in S, NEW j \in S, Before(i, S) = Before(j, S)
    PROVE  i = j
<1>1. ASSUME NEW a \in S, NEW b \in S, a < b PROVE Before(a, S) < Before(b, S)
  <2> DEFINE M == {k \in S : k < b}
  <2>0. a \in Nat /\ b \in Nat /\ \A k \in S : k \in Nat
    BY Stations
  <2>1. ASSUME NEW k \in {j1 \in S : j1 < a} \cup {a} PROVE k \in M
    <3>1. k \in S /\ (k < a \/ k = a)
      OBVIOUS
    <3> QED BY <1>1, <2>0, <3>1
  <2>2. Before(a, S) < Cardinality(M)
    BY <2>1, RankGrows
  <2> QED BY <2>2 DEF Before
<1>2. Before(i, S) \in Nat /\ Before(j, S) \in Nat
  BY RankInRange, SetsOfStations
<1>3. ~(i < j) /\ ~(j < i)
  BY <1>1, <1>2
<1> QED BY <1>3, Stations

(* Those kept and the others are all of them. *)
LEMMA Split ==
    ASSUME NEW kept \in SUBSET Station
    PROVE  /\ Cardinality(kept) \in 0 .. NUM_RSS
           /\ Cardinality(Station \ kept) = NUM_RSS - Cardinality(kept)
<1>1. Station \cap kept = kept
  OBVIOUS
<1> QED BY <1>1, Stations, SetsOfStations, FS_Difference

(* The entries in use come first, the others behind them, and no two to one
   place. *)
LEMMA PlacesDiffer ==
    ASSUME NEW kept \in SUBSET Station, NEW i \in Station
    PROVE  /\ place(i, kept) \in Station
           /\ place(i, kept) < Cardinality(kept) <=> i \in kept
           /\ \A j \in Station : place(i, kept) = place(j, kept) => i = j
<1> DEFINE K == Cardinality(kept)
           rest == Station \ kept
<1>1. K \in 0 .. NUM_RSS /\ Cardinality(rest) = NUM_RSS - K /\ NUM_RSS \in Nat
  BY Split, NumRssAssumption
<1>2. ASSUME NEW a \in kept PROVE place(a, kept) = Before(a, kept) /\ place(a, kept) \in 0 .. K - 1
  BY RankInRange DEF place
<1>3. ASSUME NEW a \in rest
      PROVE  place(a, kept) = K + Before(a, rest) /\ place(a, kept) \in K .. NUM_RSS - 1
  <2>1. Before(a, rest) \in 0 .. NUM_RSS - K - 1
    BY <1>1, RankInRange
  <2> QED BY <1>1, <2>1 DEF place
<1>4. place(i, kept) \in Station /\ (place(i, kept) < K <=> i \in kept)
  BY <1>1, <1>2, <1>3 DEF Station
<1>5. ASSUME NEW j \in Station, place(i, kept) = place(j, kept) PROVE i = j
  <2>1. CASE i \in kept /\ j \in kept
    BY <2>1, <1>2, <1>5, RanksDiffer
  <2>2. CASE i \in rest /\ j \in rest
    <3>1. Before(i, rest) \in Nat /\ Before(j, rest) \in Nat
      BY <2>2, <1>1, RankInRange
    <3>2. Before(i, rest) = Before(j, rest)
      BY <1>1, <1>3, <1>5, <2>2, <3>1
    <3> QED BY <2>2, <3>2, RanksDiffer
  <2>3. CASE i \in kept /\ j \in rest
    BY <2>3, <1>1, <1>2, <1>3, <1>5
  <2>4. CASE i \in rest /\ j \in kept
    BY <2>4, <1>1, <1>2, <1>3, <1>5
  <2> QED BY <2>1, <2>2, <2>3, <2>4
<1> QED BY <1>4, <1>5

(* Each place of the list has a station. *)
LEMMA PlacesAreTaken ==
    ASSUME NEW kept \in SUBSET Station, NEW p \in Station
    PROVE  \E i \in Station : place(i, kept) = p
<1> DEFINE f == [i \in Station |-> place(i, kept)]
<1>1. f \in Injection(Station, Station)
  BY PlacesDiffer DEF Injection, IsInjective
<1>2. f \in Surjection(Station, Station)
  BY <1>1, Stations, FS_Injection
<1> QED BY <1>2 DEF Surjection

------------------------------------------------------------------------------
(* At first every entry is free and listed. *)
LEMMA InitRSInv == RS_Init => RSInv
<1> SUFFICES ASSUME RS_Init PROVE RSInv
  OBVIOUS
<1>1. Busy = {}
  BY DEF RS_Init, Busy, NoInstrHeld
<1>2. Typed
  BY NumRssAssumption DEF RS_Init, Typed, Station
<1>3. TopCountsBusy
  BY <1>1, FS_EmptySet DEF RS_Init, TopCountsBusy
<1>4. AboveIsFree
  BY <1>1 DEF RS_Init, AboveIsFree, Above, Station
<1> QED BY <1>2, <1>3, <1>4 DEF RSInv

(* An issue takes the entry at the top, which is free. *)
LEMMA IssueRSInv ==
    ASSUME RSInv, NEW entry \in Held, RS_issue(entry)
    PROVE  RSInv'
<1> DEFINE index == RS_indices[RS_next_index]
<1>1. RS_next_index \in 0 .. NUM_RSS - 1 /\ index \in Station /\ index \notin Busy
  BY NumRssAssumption DEF RSInv, Typed, AboveIsFree, Above, RS_issue, RS_full, Station
<1>2. Busy' = Busy \cup {index}
  BY <1>1 DEF RSInv, Typed, RS_issue, Busy, Held
<1>3. Typed'
  <2>1. RS_next_index' \in 0 .. NUM_RSS
    BY <1>1, NumRssAssumption DEF RS_issue
  <2> QED BY <2>1 DEF RSInv, Typed, RS_issue
<1>4. TopCountsBusy'
  <2>1. IsFiniteSet(Busy)
    BY SetsOfStations DEF Busy
  <2>2. Cardinality(Busy \cup {index}) = Cardinality(Busy) + 1
    BY <1>1, <2>1, FS_AddElement
  <2> QED BY <1>2, <2>2 DEF RSInv, TopCountsBusy, RS_issue
<1>5. AboveIsFree'
  <2>1. Above' = Above \ {RS_next_index} /\ RS_next_index \in Above /\ RS_indices' = RS_indices
    BY <1>1, NumRssAssumption DEF Above, RS_issue
  <2> QED BY <1>2, <2>1 DEF RSInv, AboveIsFree
<1> QED BY <1>3, <1>4, <1>5 DEF RSInv

(* A release puts the entry back on top: there is room below the top, because
   the top counts the entries in use. *)
LEMMA ReleaseRSInv ==
    ASSUME RSInv, NEW index \in Station, RS_release(index)
    PROVE  RSInv'
<1>1. index \in Busy
  BY DEF RS_release
<1>2. Busy' = Busy \ {index}
  BY DEF RSInv, Typed, RS_release, Busy, NoInstrHeld
<1>3. Cardinality(Busy') = RS_next_index - 1 /\ RS_next_index \in 1 .. NUM_RSS
  <2>1. IsFiniteSet(Busy) /\ IsFiniteSet(Busy')
    BY SetsOfStations DEF Busy
  <2>2. Cardinality(Busy') = Cardinality(Busy) - 1
    BY <1>1, <1>2, <2>1, FS_RemoveElement
  <2>3. Cardinality(Busy') \in Nat
    BY <2>1, FS_CardinalityType
  <2> QED BY <2>2, <2>3, NumRssAssumption DEF RSInv, Typed, TopCountsBusy
<1>4. /\ RS_next_index' = RS_next_index - 1
      /\ \A i \in Station : RS_indices'[i] = IF i = RS_next_index' THEN index ELSE RS_indices[i]
  BY DEF RS_release, pushed_at
<1>5. Typed'
  <2>1. RS_indices' \in [Station -> Station]
    BY DEF RSInv, Typed, RS_release
  <2>2. RS_store' \in [Station -> Held \cup {NoInstrHeld}]
    BY DEF RSInv, Typed, RS_release
  <2>3. RS_next_index' \in 0 .. NUM_RSS
    BY <1>3, <1>4, NumRssAssumption
  <2> QED BY <2>1, <2>2, <2>3 DEF Typed
<1>6. TopCountsBusy'
  BY <1>3, <1>4 DEF TopCountsBusy
<1>7. AboveIsFree'
  <2>1. /\ Above' = Above \cup {RS_next_index'} /\ RS_next_index' \notin Above
        /\ Above' \subseteq Station
    BY <1>3, <1>4, NumRssAssumption DEF Above, Station
  <2>2. RS_indices'[RS_next_index'] = index /\ \A k \in Above : RS_indices'[k] = RS_indices[k]
    BY <1>4, <2>1
  <2> QED BY <1>1, <1>2, <2>1, <2>2 DEF RSInv, AboveIsFree
<1> QED BY <1>5, <1>6, <1>7 DEF RSInv

(* A result changes operands and no more. *)
LEMMA UpdateRSInv ==
    ASSUME RSInv, NEW rob_tag \in Tag, NEW value \in RS_Value, update_operands(rob_tag, value)
    PROVE  RSInv'
<1>1. ASSUME NEW entry \in Held PROVE updated(entry, rob_tag, value) \in Held
  BY <1>1 DEF Held, updated, Operand
<1>2. ASSUME NEW i \in Station
      PROVE  RS_store'[i] \in Held \cup {NoInstrHeld} /\ (RS_store'[i].valid <=> RS_store[i].valid)
  <2>1. CASE i \in Busy
    <3>1. RS_store[i] \in Held
      BY <2>1 DEF RSInv, Typed, Busy, NoInstrHeld
    <3>2. RS_store'[i] \in Held
      BY <1>1, <2>1, <3>1 DEF update_operands
    <3> QED BY <3>1, <3>2 DEF Held
  <2>2. CASE i \notin Busy
    BY <2>2 DEF RSInv, Typed, update_operands
  <2> QED BY <2>1, <2>2
<1>3. Typed'
  BY <1>2 DEF RSInv, Typed, update_operands
<1>4. Busy' = Busy
  BY <1>2 DEF Busy
<1> QED BY <1>3, <1>4 DEF RSInv, TopCountsBusy, AboveIsFree, Above, update_operands

(* A flush builds the list of a permutation: each station at its place. *)
LEMMA InvalidateRSInv ==
    ASSUME RSInv, NEW rob_tag \in Tag, RS_invalidate(rob_tag)
    PROVE  RSInv'
<1> DEFINE kept == Kept(rob_tag)
           K == Cardinality(kept)
<1>1. kept \in SUBSET Station /\ K \in 0 .. NUM_RSS
  BY SetsOfStations DEF Kept, Busy
<1>2. Busy' = kept
  BY <1>1 DEF RSInv, Typed, RS_invalidate, Kept, Busy, NoInstrHeld
<1>3. RS_next_index' = K
  BY DEF RS_invalidate, top_after
<1>4. ASSUME NEW p \in Station
      PROVE  RS_indices'[p] \in Station /\ place(RS_indices'[p], kept) = p
  BY <1>1, PlacesAreTaken DEF RS_invalidate
<1>5. Typed'
  <2>1. RS_indices' \in [Station -> Station]
    BY <1>4 DEF RS_invalidate
  <2>2. RS_store' \in [Station -> Held \cup {NoInstrHeld}]
    BY DEF RSInv, Typed, RS_invalidate
  <2> QED BY <1>1, <1>3, <2>1, <2>2 DEF Typed
<1>6. TopCountsBusy'
  BY <1>2, <1>3 DEF TopCountsBusy
<1>7. ASSUME NEW p \in Station PROVE p >= K <=> RS_indices'[p] \notin kept
  <2>1. place(RS_indices'[p], kept) < K <=> RS_indices'[p] \in kept
    BY <1>1, <1>4, PlacesDiffer
  <2> QED BY <1>1, <1>4, <2>1, Stations
<1>8. ASSUME NEW i \in Station PROVE \E p \in Station : RS_indices'[p] = i
  <2>1. place(i, kept) \in Station
    BY <1>1, PlacesDiffer
  <2>2. RS_indices'[place(i, kept)] = i
    BY <1>1, <1>4, <2>1, PlacesDiffer
  <2> QED BY <2>1, <2>2
<1>9. AboveIsFree'
  <2>1. \A p : p \in Above' <=> p \in Station /\ p >= K
    BY <1>1, <1>3, NumRssAssumption DEF Above, Station
  <2>2. \A p \in Above' : RS_indices'[p] \notin kept
    BY <1>7, <2>1
  <2>3. \A i \in Station \ kept : \E p \in Above' : RS_indices'[p] = i
    BY <1>7, <1>8, <2>1
  <2>4. \A p, q \in Above' : RS_indices'[p] = RS_indices'[q] => p = q
    BY <1>4, <2>1
  <2> QED BY <1>2, <2>2, <2>3, <2>4 DEF AboveIsFree
<1> QED BY <1>5, <1>6, <1>9 DEF RSInv

(* No operation of the stations breaks this. *)
LEMMA NextRSInv == RSInv /\ [RS_Next]_RS_vars => RSInv'
<1> SUFFICES ASSUME RSInv, [RS_Next]_RS_vars PROVE RSInv'
  OBVIOUS
<1>1. ASSUME NEW entry \in Held, RS_issue(entry) PROVE RSInv'
  BY <1>1, IssueRSInv
<1>2. ASSUME NEW index \in Station, RS_release(index) PROVE RSInv'
  BY <1>2, ReleaseRSInv
<1>3. ASSUME NEW rob_tag \in Tag, NEW value \in RS_Value, update_operands(rob_tag, value) PROVE RSInv'
  BY <1>3, UpdateRSInv
<1>4. ASSUME NEW rob_tag \in Tag, RS_invalidate(rob_tag) PROVE RSInv'
  BY <1>4, InvalidateRSInv
<1>5. CASE UNCHANGED RS_vars
  BY <1>5 DEF RS_vars, RSInv, Typed, TopCountsBusy, AboveIsFree, Above, Busy
<1> QED BY <1>1, <1>2, <1>3, <1>4, <1>5 DEF RS_Next

(* Through releases in any order, results and flushes, the entries above the
   top of the stack are the free ones, each once (issue, release, invalidate of
   RS.cpp): issue never gives out an entry in use, and none is lost. *)
THEOREM FreeListIsRight == RS_Spec => []FreeEntriesAreListed
<1>1. RSInv => FreeEntriesAreListed
  <2> SUFFICES ASSUME RSInv PROVE FreeEntriesAreListed
    OBVIOUS
  <2>1. \A k \in Above : RS_indices[k] \in Station \ Busy
    BY NumRssAssumption DEF RSInv, Typed, AboveIsFree, Above, Station
  <2>2. {RS_indices[k] : k \in Above} = Station \ Busy
    BY <2>1 DEF RSInv, AboveIsFree
  <2> QED BY <2>2 DEF RSInv, AboveIsFree, Above, FreeEntriesAreListed
<1> QED BY InitRSInv, NextRSInv, <1>1, PTL DEF RS_Spec

(* The assertion in issue and the top of the stack: next_index_ counts the
   entries in use, so the stations are full exactly when all are, and the top
   moves below zero in no release (full, release of RS.h and RS.cpp). *)
THEOREM TopIsRight == RS_Spec => []TopCountsBusy
<1>1. RSInv => TopCountsBusy
  BY DEF RSInv
<1> QED BY InitRSInv, NextRSInv, <1>1, PTL DEF RS_Spec

(***************************************************************************)
(* The inductive invariant of the core.                                    *)
(***************************************************************************)
Input      == [valid : {TRUE}, instr : Word, rob_tag : Tag, rs1_value : Word, rs2_value : Word]
Output     == [valid : {TRUE}, rob_tag : Tag, value : Word]
Unit       == [input : {NoInput} \cup Input, output : {NoOutput} \cup Output, cycles : Nat]
Bus        == [empty : {FALSE}, rob_tag : Tag, value : Word]
Checkpoint == [valid : {TRUE}, rob_tag : Tag, rat : [Reg -> Operand]]
Request    == [pending : {TRUE}, rob : Tag, pc : Word]
Stages     == {"registers", "units", "commit", "writeback", "flush", "bus", "schedule", "issue",
               "decode", "fetch"}

CoreTypes ==
    /\ code \in Programs
    /\ reg_file \in [Reg -> Word] /\ reg_file[0] = 0
    /\ RAT \in [Reg -> Operand]
    /\ checkpoints \in [CheckpointIndex -> {NoCheckpoint} \cup Checkpoint]
    /\ FUs \in [Units -> Unit]
    /\ CDB \in {EmptyBus} \cup Bus
    /\ flush \in {NoFlush} \cup Request
    /\ exited \in BOOLEAN
    /\ stage \in Stages
    /\ \A p \in 1 .. count : Items[p].instr \in Word

(* What the stations, the units and the bus have is right, and so are the
   results in the window and the tables. *)
PartsAreRight ==
    /\ \A i \in Busy : StationIs(code, Items, reg_file, count, RS_store[i])
    /\ \A u \in Units : FUs[u].input.valid => InputIs(code, Items, reg_file, count, u, FUs[u].input)
    /\ \A u \in Units : FUs[u].output.valid =>
          ResultIs(code, Items, reg_file, count, FUs[u].output.rob_tag, FUs[u].output.value)
    /\ ~CDB.empty => ResultIs(code, Items, reg_file, count, CDB.rob_tag, CDB.value)
    /\ CompleteAre(code, Items, reg_file, count)
    /\ TableIs(code, Items, RAT, count)
    /\ \A i \in CheckpointIndex : checkpoints[i].valid =>
          SavedIs(code, Items, count, checkpoints[i].rob_tag, checkpoints[i].rat)

(* A flush is asked for by the branch whose result the unit has. *)
FlushIsRight ==
    flush.pending =>
        /\ stage \in {"commit", "writeback", "flush"}
        /\ FUs["BRU"].output.valid /\ FUs["BRU"].output.rob_tag = flush.rob
        /\ BranchIs(code, Items, reg_file, count, flush.rob, flush.pc)

(* Of the carriers no two have the same tag, and each incomplete instruction
   has one. *)
Alone(C) == \A c, d \in C : c[3] = d[3] => c = d

CarriersAreRight ==
    /\ Alone(Carriers)
    /\ \A p \in 1 .. count : ~Items[p].ready => \E c \in Carriers : c[3] = Items[p].tag

Saved(cps) == {i \in CheckpointIndex : cps[i].valid}

(* Each of these tags is saved once, and no other. *)
SavedAt(cps, tags) ==
    /\ \A i \in Saved(cps) : cps[i].rob_tag \in tags
    /\ \A t \in tags : \E i \in Saved(cps) : cps[i].rob_tag = t
    /\ \A i, j \in Saved(cps) : cps[i].rob_tag = cps[j].rob_tag => i = j

CheckpointsAreRight == SavedAt(checkpoints, OpenBranches)

(* The queues between fetch, decode and issue. *)
Pcs  == {<<>>} \cup {<<pc>> : pc \in Word}
Fifo == [buffer : Pcs, pushed : Pcs, popped : BOOLEAN]

QueueIs(q) ==
    /\ q \in Fifo
    /\ q.popped => q.buffer # <<>>
    /\ q.pushed # <<>> => q.popped \/ q.buffer = <<>>

QueuesAreRight ==
    /\ QueueIs(decode_queue) /\ QueueIs(issue_queue)
    /\ decode_queue.pushed # <<>> => stage = "registers"
    /\ decode_queue.popped => stage \in {"fetch", "registers"}
    /\ issue_queue.pushed # <<>> => stage \in {"fetch", "registers"}
    /\ issue_queue.popped => stage \in {"decode", "fetch", "registers"}

FetchIsRight ==
    /\ PC \in Word
    /\ exit_pending \in BOOLEAN
    /\ fetch_pending \in {NoRequest} \cup [sent : {TRUE}, pc : Word]
    /\ icache \in {NoAnswer} \cup [busy : {TRUE}, addr : Word, wait : Nat]
    /\ icache.busy <=> fetch_pending.sent
    /\ fetch_pending.sent => icache.addr = fetch_pending.pc

(* The ring's and the stations' own invariants, the types, and what relates
   the parts of the core to the window. *)
CoreInv ==
    /\ IInv /\ RSInv /\ CoreTypes
    /\ PartsAreRight /\ FlushIsRight /\ CarriersAreRight /\ CheckpointsAreRight
    /\ QueuesAreRight /\ FetchIsRight

(* The instructions that are fetched, oldest first, and those to come. *)
Fetched == Queued(issue_queue) \o Queued(decode_queue)

(* Program memory holds instructions, no loads and no stores. *)
LEMMA CodeFacts ==
    ASSUME CoreTypes, NEW pc \in Word
    PROVE  code[pc] \in Instruction(Reg) /\ ~is_load(code[pc]) /\ ~is_store(code[pc])
  BY CoreAssumption DEF CoreTypes

(* The tags of the window differ, and its length is a number. *)
LEMMA WindowFacts ==
    ASSUME IInv
    PROVE  TagsDiffer(Items, count) /\ count \in 0 .. ROB_SIZE /\ count \in Nat
<1>1. ASSUME NEW j \in 1 .. count PROVE Items[j].tag # INVALID_ROB
  BY PlaceFacts DEF Tag, INVALID_ROB
<1>2. ASSUME NEW j \in 1 .. count, NEW k \in 1 .. count, Items[j].tag = Items[k].tag PROVE j = k
  BY <1>2, AgeFacts
<1> QED BY <1>1, <1>2, Counted DEF TagsDiffer

(* INVALID_ROB is no tag. *)
LEMMA NoTag == INVALID_ROB \notin Tag
  BY DEF Tag, INVALID_ROB

(* Each instruction has a unit, and the branches have one of their own. *)
LEMMA UnitOf ==
    ASSUME NEW instr
    PROVE  FUType(instr) \in Units /\ (FUType(instr) = "BRU" <=> is_branch(instr))
<1>1. ~(is_branch(instr) /\ is_csr(instr))
  BY DEF is_branch, is_csr, BranchOps, JumpOps, CsrOps
<1> QED BY <1>1 DEF FUType, Units

(* The carriers, and the open branches, one by one. *)
LEMMA CarrierMembers ==
    /\ \A c : c \in Carriers <=>
          \/ \E i \in Busy : c = <<"station", i, RS_store[i].rd_rob>>
          \/ \E u \in Units : FUs[u].input.valid /\ c = <<"input", u, FUs[u].input.rob_tag>>
          \/ \E u \in Units : FUs[u].output.valid /\ c = <<"output", u, FUs[u].output.rob_tag>>
          \/ ~CDB.empty /\ c = <<"bus", 0, CDB.rob_tag>>
    /\ \A c : c \in Carriers' <=>
          \/ \E i \in Busy' : c = <<"station", i, RS_store'[i].rd_rob>>
          \/ \E u \in Units : FUs'[u].input.valid /\ c = <<"input", u, FUs'[u].input.rob_tag>>
          \/ \E u \in Units : FUs'[u].output.valid /\ c = <<"output", u, FUs'[u].output.rob_tag>>
          \/ ~CDB'.empty /\ c = <<"bus", 0, CDB'.rob_tag>>
  BY DEF Carriers, Finished, fu_full, fu_empty

(* The open branches wait, are worked on, or ask for the flush. *)
LEMMA OpenMembers ==
    /\ \A t : t \in OpenBranches <=>
          \/ \E i \in Busy : unit_of(i) = "BRU" /\ t = RS_store[i].rd_rob
          \/ FUs["BRU"].input.valid /\ t = FUs["BRU"].input.rob_tag
          \/ flush.pending /\ t = flush.rob
    /\ \A t : t \in OpenBranches' <=>
          \/ \E i \in Busy' : unit_of(i)' = "BRU" /\ t = RS_store'[i].rd_rob
          \/ FUs'["BRU"].input.valid /\ t = FUs'["BRU"].input.rob_tag
          \/ flush'.pending /\ t = flush'.rob
  BY DEF OpenBranches

(* A carrier goes on to another place, or a new one comes. *)
LEMMA CarrierMoves ==
    ASSUME NEW C, NEW D, Alone(C), NEW old \in C, NEW new \in D, new[3] = old[3],
           \A d \in D : d = new \/ (d \in C /\ d # old)
    PROVE  Alone(D)
  BY DEF Alone

(* One more with a tag of its own leaves them alone. *)
LEMMA CarrierComes ==
    ASSUME NEW C, NEW D, Alone(C), NEW new, \A c \in C : c[3] # new[3],
           \A d \in D : d = new \/ d \in C
    PROVE  Alone(D)
  BY DEF Alone

(* Those that are left are alone still. *)
LEMMA CarriersGo ==
    ASSUME NEW C, NEW D, Alone(C), D \subseteq C
    PROVE  Alone(D)
  BY DEF Alone

------------------------------------------------------------------------------
(* Who is carried is in the window and not complete. *)
LEMMA CarriedIsThere ==
    ASSUME PartsAreRight, NEW c \in Carriers
    PROVE  \E p \in 1 .. count : Items[p].tag = c[3] /\ ~Items[p].ready
<1>1. CASE \E i \in Busy : c = <<"station", i, RS_store[i].rd_rob>>
  <2>1. PICK i \in Busy : c = <<"station", i, RS_store[i].rd_rob>>
    BY <1>1
  <2>2. c[3] = RS_store[i].rd_rob
    BY <2>1
  <2>3. StationIs(code, Items, reg_file, count, RS_store[i])
    BY DEF PartsAreRight
  <2> QED BY <2>2, <2>3, Zenon DEF StationIs
<1>2. CASE \E u \in Units : FUs[u].input.valid /\ c = <<"input", u, FUs[u].input.rob_tag>>
  <2>1. PICK u \in Units : FUs[u].input.valid /\ c = <<"input", u, FUs[u].input.rob_tag>>
    BY <1>2
  <2>2. c[3] = FUs[u].input.rob_tag
    BY <2>1
  <2>3. InputIs(code, Items, reg_file, count, u, FUs[u].input)
    BY <2>1 DEF PartsAreRight
  <2> QED BY <2>2, <2>3, Zenon DEF InputIs
<1>3. CASE \E u \in Units : FUs[u].output.valid /\ c = <<"output", u, FUs[u].output.rob_tag>>
  <2>1. PICK u \in Units : FUs[u].output.valid /\ c = <<"output", u, FUs[u].output.rob_tag>>
    BY <1>3
  <2>2. c[3] = FUs[u].output.rob_tag
    BY <2>1
  <2>3. ResultIs(code, Items, reg_file, count, FUs[u].output.rob_tag, FUs[u].output.value)
    BY <2>1 DEF PartsAreRight
  <2> QED BY <2>2, <2>3, Zenon DEF ResultIs
<1>4. CASE ~CDB.empty /\ c = <<"bus", 0, CDB.rob_tag>>
  <2>1. c[3] = CDB.rob_tag
    BY <1>4
  <2>2. ResultIs(code, Items, reg_file, count, CDB.rob_tag, CDB.value)
    BY <1>4 DEF PartsAreRight
  <2> QED BY <2>1, <2>2, Zenon DEF ResultIs
<1> QED BY <1>1, <1>2, <1>3, <1>4, CarrierMembers

(* A new instruction waits, is worked on and has its result at one place. *)
LEMMA OpenIsCarried ==
    ASSUME PartsAreRight, FlushIsRight, NEW t \in OpenBranches
    PROVE  /\ \E c \in Carriers : c[3] = t
           /\ \E p \in 1 .. count : Items[p].tag = t /\ ~Items[p].ready
<1>1. \E c \in Carriers : c[3] = t
  <2>1. CASE \E i \in Busy : unit_of(i) = "BRU" /\ t = RS_store[i].rd_rob
    <3>1. PICK i \in Busy : t = RS_store[i].rd_rob
      BY <2>1
    <3>2. <<"station", i, RS_store[i].rd_rob>> \in Carriers
      BY CarrierMembers, Zenon
    <3> QED BY <3>1, <3>2
  <2>2. CASE FUs["BRU"].input.valid /\ t = FUs["BRU"].input.rob_tag
    <3>1. <<"input", "BRU", FUs["BRU"].input.rob_tag>> \in Carriers
      BY <2>2, CarrierMembers, Zenon DEF Units
    <3> QED BY <2>2, <3>1
  <2>3. CASE flush.pending /\ t = flush.rob
    <3>1. FUs["BRU"].output.valid /\ FUs["BRU"].output.rob_tag = t
      BY <2>3 DEF FlushIsRight
    <3>2. <<"output", "BRU", FUs["BRU"].output.rob_tag>> \in Carriers
      BY <3>1, CarrierMembers, Zenon DEF Units
    <3> QED BY <3>1, <3>2
  <2> QED BY <2>1, <2>2, <2>3, OpenMembers
<1> QED BY <1>1, CarriedIsThere

(* The core starts with everything empty. *)
LEMMA CoreInitInv == CoreInit => CoreInv
<1> SUFFICES ASSUME CoreInit PROVE CoreInv
  OBVIOUS
<1> USE DEF CoreInit
<1>1. IInv /\ RSInv /\ count = 0
  BY InitIInv, InitRSInv DEF Init
<1>2. Busy = {} /\ (\A u \in Units : ~FUs[u].input.valid /\ ~FUs[u].output.valid)
      /\ CDB.empty /\ ~flush.pending /\ Saved(checkpoints) = {}
  BY DEF RS_Init, Busy, NoInstrHeld, NewUnit, NoInput, NoOutput, EmptyBus, NoFlush, Saved,
         NoCheckpoints, NoCheckpoint
<1>3. CoreTypes
  <2>1. 0 \in Word
    BY WordFacts
  <2>2. reg_file \in [Reg -> Word] /\ reg_file[0] = 0
    BY <2>1, CoreAssumption
  <2>3. RAT \in [Reg -> Operand]
    BY DEF EmptyTable, Operand
  <2>4. checkpoints \in [CheckpointIndex -> {NoCheckpoint} \cup Checkpoint]
    BY DEF NoCheckpoints
  <2>5. FUs \in [Units -> Unit]
    BY DEF NewUnit, Unit
  <2>6. \A p \in 1 .. count : Items[p].instr \in Word
    BY <1>1
  <2>7. stage \in Stages /\ exited \in BOOLEAN
    BY DEF Stages
  <2> QED BY <2>2, <2>3, <2>4, <2>5, <2>6, <2>7 DEF CoreTypes
<1>4. PartsAreRight
  <2>1. CompleteAre(code, Items, reg_file, count)
    BY <1>1 DEF CompleteAre
  <2>2. TableIs(code, Items, RAT, count)
    <3> SUFFICES ASSUME NEW r \in Reg, NEW k \in 0 .. count PROVE RAT[r] = Named(Items, k)
      BY DEF TableIs
    <3>1. k = 0
      BY <1>1
    <3> QED BY <3>1 DEF Named, EmptyTable
  <2>3. \A i \in CheckpointIndex : ~checkpoints[i].valid
    BY <1>2 DEF Saved
  <2> QED BY <1>2, <2>1, <2>2, <2>3 DEF PartsAreRight
<1>5. FlushIsRight
  BY <1>2 DEF FlushIsRight
<1>6. CarriersAreRight
  <2>1. Carriers = {}
    BY <1>2, CarrierMembers
  <2> QED BY <1>1, <2>1 DEF CarriersAreRight, Alone
<1>7. CheckpointsAreRight
  <2>1. OpenBranches = {}
    BY <1>2, OpenMembers DEF Units
  <2> QED BY <1>2, <2>1 DEF CheckpointsAreRight, SavedAt
<1>8. QueuesAreRight
  BY DEF QueuesAreRight, QueueIs, EmptyFifo, Fifo, Pcs
<1>9. FetchIsRight
  BY WordFacts DEF FetchIsRight, NoRequest, NoAnswer
<1> QED BY <1>1, <1>3, <1>4, <1>5, <1>6, <1>7, <1>8, <1>9 DEF CoreInv

------------------------------------------------------------------------------
(* What leaves the stations alone. *)
LEMMA StationsUnchanged ==
    ASSUME RSInv, UNCHANGED RS_vars
    PROVE  RSInv' /\ Busy' = Busy /\ RS_store' = RS_store
<1>1. UNCHANGED RS_store /\ UNCHANGED RS_indices /\ UNCHANGED RS_next_index
  BY DEF RS_vars
<1>2. Busy' = Busy
  BY <1>1 DEF Busy
<1> QED BY <1>1, <1>2 DEF RSInv, Typed, TopCountsBusy, AboveIsFree, Above

(* What leaves stations, units, bus and flush alone leaves the carriers alone, *)
LEMMA CarriersUnchanged ==
    ASSUME Busy' = Busy, RS_store' = RS_store, FUs' = FUs, CDB' = CDB
    PROVE  Carriers' = Carriers
  BY DEF Carriers, Finished

(* and who is an open branch. *)
LEMMA OpenUnchanged ==
    ASSUME Busy' = Busy, RS_store' = RS_store, FUs' = FUs, flush' = flush, code' = code
    PROVE  OpenBranches' = OpenBranches
  BY DEF OpenBranches, unit_of

(* The steps of the front end: nothing behind the queues changes. *)
LEMMA BackStays ==
    ASSUME CoreInv, UNCHANGED <<code, renaming, ROB, RS_vars, FUs, CDB, flush, back>>, stage' \in Stages,
           flush.pending => stage' \in {"commit", "writeback", "flush"}
    PROVE  /\ IInv' /\ RSInv' /\ CoreTypes'
           /\ PartsAreRight' /\ FlushIsRight' /\ CarriersAreRight' /\ CheckpointsAreRight'
           /\ OpenBranches' = OpenBranches /\ Items' = Items /\ count' = count
<1>1. IInv' /\ Items' = Items /\ count' = count
  BY RingUnchanged DEF CoreInv
<1>2. RSInv' /\ Busy' = Busy /\ RS_store' = RS_store
  BY StationsUnchanged DEF CoreInv
<1>3. code' = code /\ reg_file' = reg_file /\ exited' = exited /\ RAT' = RAT /\ checkpoints' = checkpoints
      /\ FUs' = FUs /\ CDB' = CDB /\ flush' = flush
  BY DEF renaming, back
<1>4. CoreTypes'
  BY <1>1, <1>3 DEF CoreInv, CoreTypes
<1>5. PartsAreRight'
  BY <1>1, <1>2, <1>3 DEF CoreInv, PartsAreRight
<1>6. FlushIsRight'
  BY <1>1, <1>3 DEF CoreInv, FlushIsRight
<1>7. CarriersAreRight'
  <2>1. Carriers' = Carriers
    BY <1>2, <1>3, CarriersUnchanged
  <2> QED BY <1>1, <2>1 DEF CoreInv, CarriersAreRight
<1>8. OpenBranches' = OpenBranches
  BY <1>2, <1>3, OpenUnchanged
<1>9. CheckpointsAreRight'
  BY <1>3, <1>8 DEF CoreInv, CheckpointsAreRight
<1> QED BY <1>1, <1>2, <1>4, <1>5, <1>6, <1>7, <1>8, <1>9

(* What is computed is a word. *)
LEMMA OutcomeIsWord ==
    ASSUME CoreTypes, NEW pc \in Word, NEW v1 \in Word, NEW v2 \in Word
    PROVE  Outcome(code, pc, v1, v2) \in Word /\ Goes(code, pc, v1, v2) \in Word /\ NextOf(pc) \in Word
<1>1. alu_unit(code[pc], v1, v2, pc) \in Word
  BY CodeFacts, UnitIsWord
<1>2. NextOf(pc) \in Word /\ get_csr \in Word
  BY WordFacts DEF NextOf, get_csr
<1> QED BY <1>1, <1>2, UnitOf DEF Outcome, Goes, Units

(* A tick moves what a unit is done with, and nothing else. *)
LEMMA TickIs ==
    ASSUME NEW fu \in Unit, NEW latency \in Nat, NEW value, completes(fu, latency) => value \in Word,
           NEW fu2, fu2 = fu_tick(fu, latency, value)
    PROVE  /\ fu2 \in Unit
           /\ completes(fu, latency) =>
                 /\ fu.input.valid /\ ~fu.output.valid /\ fu.input \in Input
                 /\ fu2.input = NoInput
                 /\ fu2.output = [valid |-> TRUE, rob_tag |-> fu.input.rob_tag, value |-> value]
           /\ ~completes(fu, latency) => fu2.input = fu.input /\ fu2.output = fu.output
<1>1. fu.input \in {NoInput} \cup Input /\ fu.output \in {NoOutput} \cup Output /\ fu.cycles \in Nat
      /\ fu = [input |-> fu.input, output |-> fu.output, cycles |-> fu.cycles]
  BY DEF Unit
<1>2. CASE completes(fu, latency)
  <2>1. fu2 = [input |-> NoInput, cycles |-> 0,
               output |-> [valid |-> TRUE, rob_tag |-> fu.input.rob_tag, value |-> value]]
    BY <1>2 DEF fu_tick
  <2>2. fu.input.valid /\ ~fu.output.valid /\ fu.input \in Input
    BY <1>1, <1>2 DEF completes, NoInput
  <2>3. [valid |-> TRUE, rob_tag |-> fu.input.rob_tag, value |-> value] \in Output
    BY <1>2, <2>2 DEF Input, Output
  <2> QED BY <1>2, <2>1, <2>2, <2>3 DEF Unit
<1>3. CASE ~completes(fu, latency)
  <2>1. fu2 = fu \/ fu2 = [fu EXCEPT !.cycles = IF @ < latency THEN @ + 1 ELSE @]
    BY <1>3 DEF fu_tick
  <2> QED BY <1>1, <1>3, <2>1 DEF Unit
<1> QED BY <1>2, <1>3

(* What the units take on a tick. *)
Completing(u) == completes(FUs[u], Latency(u))

(* One unit: it is done, with the right result, or keeps what it has. *)
LEMMA UnitsTick ==
    ASSUME CoreInv, units_tick, NEW u \in Units
    PROVE  /\ FUs'[u] \in Unit
           /\ Completing(u) =>
                 /\ FUs[u].input.valid /\ ~FUs[u].output.valid /\ FUs[u].input \in Input
                 /\ ~FUs'[u].input.valid /\ FUs'[u].output.valid
                 /\ FUs'[u].output.rob_tag = FUs[u].input.rob_tag
                 /\ ResultIs(code, Items, reg_file, count, FUs'[u].output.rob_tag, FUs'[u].output.value)
           /\ ~Completing(u) => FUs'[u].input = FUs[u].input /\ FUs'[u].output = FUs[u].output
<1> DEFINE value == IF FUs[u].input.valid THEN result(u) ELSE 0
           input == FUs[u].input
<1>1. FUs[u] \in Unit /\ Latency(u) \in Nat
  BY DEF CoreInv, CoreTypes, Latency, Units, ALU_LATENCY, BRU_LATENCY, SFU_LATENCY
<1>2. FUs'[u] = fu_tick(FUs[u], Latency(u), value)
  BY DEF units_tick
<1>3. ASSUME Completing(u)
      PROVE  input.valid /\ input \in Input /\ value \in Word
             /\ ResultIs(code, Items, reg_file, count, input.rob_tag, value)
  <2>1. input.valid /\ input \in Input
    BY <1>1, <1>3 DEF Completing, completes, Unit, NoInput
  <2>2. PICK p \in 1 .. count :
           /\ Items[p].tag = input.rob_tag /\ Items[p].instr = input.instr /\ ~Items[p].ready
           /\ FUType(code[input.instr]) = u
           /\ Sources(code, Items, reg_file, p, input.rs1_value, input.rs2_value)
    BY <2>1 DEF CoreInv, PartsAreRight, InputIs
  <2>3. input.instr \in Word /\ input.rs1_value \in Word /\ input.rs2_value \in Word
    BY <2>1 DEF Input
  <2>4. value = Outcome(code, input.instr, input.rs1_value, input.rs2_value)
    <3>1. value = result(u)
      BY <2>1
    <3>2. u = "ALU" \/ u = "BRU" \/ u = "SFU"
      BY DEF Units
    <3>3. FUType(code[input.instr]) = u
      BY <2>2
    <3> HIDE DEF value
    <3>4. CASE u = "ALU"
      BY <3>1, <3>3, <3>4 DEF Outcome, result, execute_alu_op
    <3>5. CASE u = "BRU"
      BY <3>1, <3>3, <3>5 DEF Outcome, result
    <3>6. CASE u = "SFU"
      BY <3>1, <3>3, <3>6 DEF Outcome, result
    <3> QED BY <3>2, <3>4, <3>5, <3>6
  <2> HIDE DEF value
  <2>5. value \in Word
    BY <2>3, <2>4, OutcomeIsWord DEF CoreInv
  <2>6. Gives(code, Items, reg_file, p, value)
    BY <2>2, <2>3, <2>4 DEF Gives
  <2> QED BY <2>1, <2>2, <2>5, <2>6 DEF ResultIs
<1> HIDE DEF value, input
<1>4. completes(FUs[u], Latency(u)) => value \in Word
  BY <1>3 DEF Completing
<1>5. /\ FUs'[u] \in Unit
      /\ completes(FUs[u], Latency(u)) =>
            /\ FUs[u].input.valid /\ ~FUs[u].output.valid
            /\ FUs'[u].input = NoInput
            /\ FUs'[u].output = [valid |-> TRUE, rob_tag |-> FUs[u].input.rob_tag, value |-> value]
      /\ ~completes(FUs[u], Latency(u)) => FUs'[u].input = FUs[u].input /\ FUs'[u].output = FUs[u].output
  BY <1>1, <1>2, <1>4, TickIs
<1>6. Completing(u) => /\ ~FUs[u].output.valid
                       /\ ~FUs'[u].input.valid /\ FUs'[u].output.valid
                       /\ FUs'[u].output.rob_tag = input.rob_tag /\ FUs'[u].output.value = value
  BY <1>5 DEF Completing, NoInput, input
<1>7. ~Completing(u) => FUs'[u].input = FUs[u].input /\ FUs'[u].output = FUs[u].output
  BY <1>5 DEF Completing
<1>8. Completing(u) =>
                 /\ FUs[u].input.valid /\ ~FUs[u].output.valid /\ FUs[u].input \in Input
                 /\ ~FUs'[u].input.valid /\ FUs'[u].output.valid
                 /\ FUs'[u].output.rob_tag = FUs[u].input.rob_tag
                 /\ ResultIs(code, Items, reg_file, count, FUs'[u].output.rob_tag, FUs'[u].output.value)
  BY <1>3, <1>6 DEF input
<1> QED BY <1>5, <1>7, <1>8

(* The branch that is found: its target is where it leads. *)
LEMMA TargetIs ==
    ASSUME CoreInv, FUs["BRU"].input.valid
    PROVE  LET input == FUs["BRU"].input
           IN  /\ br_target(input) \in Word /\ input \in Input
               /\ BranchIs(code, Items, reg_file, count, input.rob_tag, br_target(input))
<1> DEFINE input == FUs["BRU"].input
<1>0. "BRU" \in Units
  BY DEF Units
<1>1. input \in Input
  <2>1. FUs["BRU"] \in Unit
    BY <1>0 DEF CoreInv, CoreTypes
  <2> QED BY <2>1 DEF Unit, NoInput
<1>2. PICK p \in 1 .. count :
         /\ Items[p].tag = input.rob_tag /\ Items[p].instr = input.instr /\ ~Items[p].ready
         /\ FUType(code[input.instr]) = "BRU"
         /\ Sources(code, Items, reg_file, p, input.rs1_value, input.rs2_value)
  BY <1>0, Zenon DEF CoreInv, PartsAreRight, InputIs
<1>3. input.instr \in Word /\ input.rs1_value \in Word /\ input.rs2_value \in Word
  BY <1>1 DEF Input
<1>4. is_branch(code[Items[p].instr])
  BY <1>2, UnitOf
<1> DEFINE target == Goes(code, input.instr, input.rs1_value, input.rs2_value)
<1>5. br_target(input) = target
  BY <1>2, <1>4, Zenon DEF br_target, Goes, execute_br_op, execute_alu_op
<1>6. target \in Word
  BY <1>3, OutcomeIsWord DEF CoreInv
<1> HIDE DEF target
<1>7. Leads(code, Items, reg_file, p, target)
  BY <1>2, <1>3 DEF Leads, target
<1> HIDE DEF input
<1>8. BranchIs(code, Items, reg_file, count, input.rob_tag, target)
  BY <1>2, <1>4, <1>7 DEF BranchIs
<1> QED BY <1>1, <1>5, <1>6, <1>8 DEF input

(***************************************************************************)
(* What the operations on the checkpoints do (checkpoints.h).              *)
(***************************************************************************)
Table == [CheckpointIndex -> {NoCheckpoint} \cup Checkpoint]

(* The first of some checkpoints is one of them. *)
LEMMA MinIs ==
    ASSUME NEW S, S \subseteq CheckpointIndex, S # {}
    PROVE  Min(S) \in S
<1>1. CheckpointIndex \subseteq Nat
  BY CoreAssumption DEF CheckpointIndex
<1>2. \E m \in S : \A n \in S : m <= n
  BY <1>1, LeastNumber
<1> QED BY <1>2, Zenon DEF Min

(* find finds the checkpoint of a tag that is saved. *)
LEMMA FoundIs ==
    ASSUME NEW cps, NEW tags, SavedAt(cps, tags), NEW t \in tags
    PROVE  /\ find(cps, t) # {}
           /\ Min(find(cps, t)) \in CheckpointIndex
           /\ cps[Min(find(cps, t))].valid /\ cps[Min(find(cps, t))].rob_tag = t
           /\ \A i \in Saved(cps) : cps[i].rob_tag = t => i = Min(find(cps, t))
<1>1. find(cps, t) # {} /\ find(cps, t) \subseteq CheckpointIndex
  BY DEF SavedAt, Saved, find
<1>2. Min(find(cps, t)) \in find(cps, t)
  BY <1>1, MinIs
<1> QED BY <1>1, <1>2, ZenonT(60) DEF SavedAt, Saved, find

(* release forgets this tag and no other. *)
LEMMA ReleaseIs ==
    ASSUME NEW cps \in Table, NEW tags, SavedAt(cps, tags), NEW t \in tags
    PROVE  /\ release(cps, t) \in Table
           /\ SavedAt(release(cps, t), tags \ {t})
           /\ \A i \in CheckpointIndex : release(cps, t)[i].valid => release(cps, t)[i] = cps[i]
<1> DEFINE m == Min(find(cps, t))
<1>1. release(cps, t) = [cps EXCEPT ![m] = NoCheckpoint]
  BY FoundIs DEF release
<1>2. /\ m \in CheckpointIndex /\ cps[m].valid /\ cps[m].rob_tag = t
      /\ \A i \in Saved(cps) : cps[i].rob_tag = t => i = m
  BY FoundIs
<1> HIDE DEF m
<1>3. \A i \in CheckpointIndex : release(cps, t)[i] = IF i = m THEN NoCheckpoint ELSE cps[i]
  BY <1>1, <1>2 DEF Table
<1>4. release(cps, t) \in Table
  BY <1>1, <1>2 DEF Table
<1>5. ~NoCheckpoint.valid
  BY DEF NoCheckpoint
<1>6. \A i : i \in Saved(release(cps, t)) <=> i \in Saved(cps) /\ i # m
  BY <1>3, <1>5 DEF Saved
<1>7. \A i \in Saved(cps) : i # m => cps[i].rob_tag # t /\ release(cps, t)[i] = cps[i]
  BY <1>2, <1>3 DEF Saved
<1>8. SavedAt(release(cps, t), tags \ {t})
  BY <1>2, <1>6, <1>7 DEF SavedAt
<1> QED BY <1>3, <1>4, <1>5, <1>8

(* save adds a tag that was not saved, with its table. *)
LEMMA SaveIs ==
    ASSUME NEW cps \in Table, NEW tags, SavedAt(cps, tags), free(cps) # {},
           NEW t \in Tag, t \notin tags, NEW rat \in [Reg -> Operand]
    PROVE  /\ save(cps, t, rat) \in Table
           /\ SavedAt(save(cps, t, rat), tags \cup {t})
           /\ \A i \in CheckpointIndex : save(cps, t, rat)[i].valid =>
                 \/ cps[i].valid /\ save(cps, t, rat)[i] = cps[i]
                 \/ save(cps, t, rat)[i].rob_tag = t /\ save(cps, t, rat)[i].rat = rat
<1> DEFINE m == Min(free(cps))
           new == [valid |-> TRUE, rob_tag |-> t, rat |-> rat]
<1>1. m \in CheckpointIndex /\ ~cps[m].valid
  <2>1. free(cps) \subseteq CheckpointIndex
    BY DEF free
  <2>2. m \in free(cps)
    BY <2>1, MinIs
  <2> QED BY <2>2 DEF free
<1>2. save(cps, t, rat) = [cps EXCEPT ![m] = new]
  BY DEF save
<1> HIDE DEF m
<1>3. new \in Checkpoint /\ new.valid /\ new.rob_tag = t /\ new.rat = rat
  BY DEF Checkpoint
<1> HIDE DEF new
<1>4. \A i \in CheckpointIndex : save(cps, t, rat)[i] = IF i = m THEN new ELSE cps[i]
  BY <1>1, <1>2 DEF Table
<1>5. save(cps, t, rat) \in Table
  BY <1>1, <1>2, <1>3 DEF Table
<1>6. \A i : i \in Saved(save(cps, t, rat)) <=> i \in Saved(cps) \/ i = m
  BY <1>1, <1>3, <1>4 DEF Saved
<1>7. \A i \in Saved(cps) : i # m /\ cps[i].rob_tag \in tags /\ cps[i].rob_tag # t
                            /\ save(cps, t, rat)[i] = cps[i]
  BY <1>1, <1>4 DEF Saved, SavedAt
<1>8. save(cps, t, rat)[m].rob_tag = t
  BY <1>1, <1>3, <1>4
<1>9. SavedAt(save(cps, t, rat), tags \cup {t})
  BY <1>6, <1>7, <1>8 DEF SavedAt
<1>10. \A i \in CheckpointIndex : save(cps, t, rat)[i].valid =>
                 \/ cps[i].valid /\ save(cps, t, rat)[i] = cps[i]
                 \/ save(cps, t, rat)[i].rob_tag = t /\ save(cps, t, rat)[i].rat = rat
  BY <1>3, <1>4
<1> QED BY <1>5, <1>9, <1>10

(* invalidate forgets the branch and what is younger. *)
LEMMA CutIs ==
    ASSUME NEW cps \in Table, NEW tags, SavedAt(cps, tags), NEW t
    PROVE  /\ cut_checkpoints(cps, t) \in Table
           /\ SavedAt(cut_checkpoints(cps, t), {s \in tags : s # t /\ ~is_rob_younger(s, t)})
           /\ \A i \in CheckpointIndex : cut_checkpoints(cps, t)[i].valid =>
                 /\ cut_checkpoints(cps, t)[i] = cps[i]
                 /\ ~is_rob_younger(cps[i].rob_tag, t)
<1> DEFINE cut == cut_checkpoints(cps, t)
           Out(i) == cps[i].valid /\ (cps[i].rob_tag = t \/ is_rob_younger(cps[i].rob_tag, t))
<1>1. \A i \in CheckpointIndex : cut[i] = IF Out(i) THEN NoCheckpoint ELSE cps[i]
  BY DEF cut_checkpoints
<1>2. cut \in Table
  BY DEF cut_checkpoints, Table
<1>3. ~NoCheckpoint.valid
  BY DEF NoCheckpoint
<1> HIDE DEF cut
<1>4. \A i : i \in Saved(cut) <=>
          i \in Saved(cps) /\ cps[i].rob_tag # t /\ ~is_rob_younger(cps[i].rob_tag, t)
  BY <1>1, <1>3 DEF Saved
<1>5. \A i \in Saved(cut) : cut[i] = cps[i]
  BY <1>1, <1>3 DEF Saved
<1>6. SavedAt(cut, {s \in tags : s # t /\ ~is_rob_younger(s, t)})
  BY <1>4, <1>5, ZenonT(60) DEF SavedAt
<1>7. \A i \in CheckpointIndex : cut[i].valid => i \in Saved(cut)
  BY DEF Saved
<1> QED BY <1>2, <1>4, <1>5, <1>6, <1>7 DEF cut

(* What commit does to the saved tables. *)
ClearedTables(c, w, cps) ==
    IF writes(c[w[1].instr]) THEN clear_RAT_mapping(cps, c[w[1].instr].rd, w[1].tag) ELSE cps

(* It clears the tables and keeps the tags they are saved under. *)
LEMMA ClearedTablesAre ==
    ASSUME NEW cps \in Table, NEW tags, SavedAt(cps, tags), NEW c, NEW w
    PROVE  /\ ClearedTables(c, w, cps) \in Table
           /\ SavedAt(ClearedTables(c, w, cps), tags)
           /\ \A i \in CheckpointIndex : ClearedTables(c, w, cps)[i].valid =>
                 /\ cps[i].valid /\ cps[i].rat \in [Reg -> Operand] /\ cps[i].rob_tag \in Tag
                 /\ ClearedTables(c, w, cps)[i].rob_tag = cps[i].rob_tag
                 /\ ClearedTables(c, w, cps)[i].rat = Cleared(c, w, cps[i].rat)
<1> DEFINE new == ClearedTables(c, w, cps)
           At(i) == IF cps[i].valid THEN [cps[i] EXCEPT !.rat = Cleared(c, w, cps[i].rat)] ELSE cps[i]
<1>1. ASSUME NEW i \in CheckpointIndex, cps[i].valid
      PROVE  /\ cps[i].rat \in [Reg -> Operand] /\ cps[i].rob_tag \in Tag
             /\ cps[i] = [valid |-> TRUE, rob_tag |-> cps[i].rob_tag, rat |-> cps[i].rat]
  <2>1. cps[i] \in Checkpoint
    BY <1>1 DEF Table, NoCheckpoint
  <2> QED BY <2>1 DEF Checkpoint
<1>2. ASSUME NEW i \in CheckpointIndex PROVE new[i] = At(i)
  <2>1. CASE writes(c[w[1].instr])
    BY <2>1 DEF ClearedTables, clear_RAT_mapping, Cleared
  <2>2. CASE ~writes(c[w[1].instr])
    BY <1>1, <2>2 DEF ClearedTables, Cleared
  <2> QED BY <2>1, <2>2
<1>3. ASSUME NEW i \in CheckpointIndex
      PROVE  /\ new[i].valid <=> cps[i].valid
             /\ new[i] \in {NoCheckpoint} \cup Checkpoint
             /\ cps[i].valid => /\ new[i].rob_tag = cps[i].rob_tag
                                /\ new[i].rat = Cleared(c, w, cps[i].rat)
  <2>1. CASE cps[i].valid
    <3>1. Cleared(c, w, cps[i].rat) \in [Reg -> Operand]
      BY <1>1, <2>1, ClearedIs
    <3>2. new[i] = [valid |-> TRUE, rob_tag |-> cps[i].rob_tag, rat |-> Cleared(c, w, cps[i].rat)]
      BY <1>1, <1>2, <2>1
    <3>3. cps[i].rob_tag \in Tag
      BY <1>1, <2>1
    <3> HIDE DEF new, At
    <3>4. new[i] \in Checkpoint
      BY <3>1, <3>2, <3>3 DEF Checkpoint
    <3>5. new[i].valid /\ new[i].rob_tag = cps[i].rob_tag /\ new[i].rat = Cleared(c, w, cps[i].rat)
      BY <3>2
    <3> QED BY <2>1, <3>4, <3>5
  <2>2. CASE ~cps[i].valid
    BY <1>2, <2>2 DEF Table
  <2> QED BY <2>1, <2>2
<1>4. new \in Table
  <2>1. new = [i \in CheckpointIndex |-> At(i)]
    <3>1. CASE writes(c[w[1].instr])
      BY <3>1 DEF ClearedTables, clear_RAT_mapping, Cleared
    <3>2. CASE ~writes(c[w[1].instr])
      <4>1. new = cps
        BY <3>2 DEF ClearedTables
      <4>2. \A i \in CheckpointIndex : cps[i] = At(i)
        BY <1>2, <4>1
      <4> HIDE DEF At
      <4> QED BY <4>1, <4>2 DEF Table
    <3> QED BY <3>1, <3>2
  <2>2. \A i \in CheckpointIndex : At(i) \in {NoCheckpoint} \cup Checkpoint
    BY <1>2, <1>3
  <2> HIDE DEF At, new
  <2> QED BY <2>1, <2>2 DEF Table
<1> HIDE DEF new, At
<1>5. Saved(new) = Saved(cps)
  BY <1>3 DEF Saved
<1>6. \A i \in Saved(cps) : new[i].rob_tag = cps[i].rob_tag
  BY <1>3 DEF Saved
<1>7. SavedAt(new, tags)
  BY <1>5, <1>6 DEF SavedAt
<1> QED BY <1>1, <1>3, <1>4, <1>7 DEF new

(* Whether the branch in the unit is found right, found wrong or not yet
   found. *)
LEMMA UnitsBranch ==
    ASSUME CoreInv, units_tick
    PROVE  /\ ~flush.pending /\ Busy' = Busy /\ RS_store' = RS_store
           /\ ~Completing("BRU") =>
                 OpenBranches' = OpenBranches /\ UNCHANGED <<flush, checkpoints>>
           /\ Completing("BRU") =>
                 LET input == FUs["BRU"].input
                     target == br_target(input)
                 IN  /\ input.rob_tag \in OpenBranches
                     /\ NextOf(input.instr) # target =>
                           /\ OpenBranches' = OpenBranches /\ UNCHANGED checkpoints
                           /\ flush' = [pending |-> TRUE, rob |-> input.rob_tag, pc |-> target]
                     /\ NextOf(input.instr) = target =>
                           /\ OpenBranches' = OpenBranches \ {input.rob_tag} /\ UNCHANGED flush
                           /\ checkpoints' = release(checkpoints, input.rob_tag)
<1> DEFINE input == FUs["BRU"].input
           target == br_target(input)
           t == input.rob_tag
<1>0. "BRU" \in Units
  BY DEF Units
<1>1. ~flush.pending
  BY DEF CoreInv, FlushIsRight, units_tick
<1>2. Busy' = Busy /\ RS_store' = RS_store /\ code' = code
  BY StationsUnchanged DEF CoreInv, units_tick
<1>3. \A i \in Busy : unit_of(i)' = unit_of(i)
  BY <1>2 DEF unit_of
<1>4. CASE ~Completing("BRU")
  <2>1. UNCHANGED <<flush, checkpoints>>
    BY <1>4 DEF units_tick, Completing, Latency
  <2>2. FUs'["BRU"].input = input
    BY <1>0, <1>4, UnitsTick
  <2>3. OpenBranches' = OpenBranches
    <3>1. flush' = flush
      BY <2>1
    <3>2. \A s : s \in OpenBranches' <=> s \in OpenBranches
      BY <1>2, <1>3, <2>2, <3>1, OpenMembers
    <3> QED BY <3>2
  <2> QED BY <1>1, <1>2, <1>4, <2>1, <2>3
<1>5. CASE Completing("BRU")
  <2>1. IF NextOf(input.instr) # target
        THEN flush' = [pending |-> TRUE, rob |-> t, pc |-> target] /\ UNCHANGED checkpoints
        ELSE checkpoints' = release(checkpoints, t) /\ UNCHANGED flush
    <3>1. completes(FUs["BRU"], BRU_LATENCY)
      BY <1>5 DEF Completing, Latency
    <3>2. update_branch(target, input.instr, t)
      BY <3>1 DEF units_tick
    <3> QED BY <1>1, <3>2 DEF update_branch, predicted_PC
  <2>2. input.valid /\ ~FUs'["BRU"].input.valid
    BY <1>0, <1>5, UnitsTick
  <2>3. ASSUME NEW i \in Busy PROVE RS_store[i].rd_rob # t
    <3>1. <<"station", i, RS_store[i].rd_rob>> \in Carriers /\ <<"input", "BRU", t>> \in Carriers
      BY <1>0, <2>2, CarrierMembers
    <3> QED BY <3>1 DEF CoreInv, CarriersAreRight, Alone
  <2>4. t \in OpenBranches
    BY <2>2, OpenMembers
  <2> HIDE DEF t, target
  <2>5. ASSUME NextOf(input.instr) # target
        PROVE  /\ OpenBranches' = OpenBranches /\ UNCHANGED checkpoints
               /\ flush' = [pending |-> TRUE, rob |-> t, pc |-> target]
    <3>1. flush'.pending /\ flush'.rob = t
      BY <2>1, <2>5
    <3>2. \A s : s \in OpenBranches' <=> s \in OpenBranches
      BY <1>1, <1>2, <1>3, <2>2, <3>1, OpenMembers DEF t
    <3> QED BY <2>1, <2>5, <3>2
  <2>6. ASSUME NextOf(input.instr) = target
        PROVE  /\ OpenBranches' = OpenBranches \ {t} /\ UNCHANGED flush
               /\ checkpoints' = release(checkpoints, t)
    <3>1. \A s : s \in OpenBranches' <=> s \in OpenBranches /\ s # t
      BY <1>1, <1>2, <1>3, <2>1, <2>2, <2>3, <2>6, OpenMembers DEF t
    <3> QED BY <2>1, <2>6, <3>1
  <2> QED BY <1>1, <1>2, <1>5, <2>4, <2>5, <2>6 DEF t, target
<1> QED BY <1>4, <1>5

(* A result is still carried once. *)
LEMMA UnitsCarriers ==
    ASSUME CoreInv, units_tick
    PROVE  CarriersAreRight'
<1>1. Busy' = Busy /\ RS_store' = RS_store /\ CDB' = CDB
  BY UnitsBranch DEF units_tick
<1>2. Items' = Items /\ count' = count
  BY RingUnchanged DEF CoreInv, units_tick
(* Where a carrier was before the tick. *)
<1> DEFINE Old(d) == d \in Carriers /\ \A u \in Units : Completing(u) => d # <<"input", u, FUs[u].input.rob_tag>>
           New(d, u) == /\ Completing(u) /\ d = <<"output", u, FUs[u].input.rob_tag>>
                        /\ <<"input", u, FUs[u].input.rob_tag>> \in Carriers
<1>3. ASSUME NEW d \in Carriers' PROVE Old(d) \/ \E u \in Units : New(d, u)
  <2>1. CASE \E i \in Busy : d = <<"station", i, RS_store[i].rd_rob>>
    BY <2>1, CarrierMembers
  <2>2. CASE ~CDB.empty /\ d = <<"bus", 0, CDB.rob_tag>>
    BY <2>2, CarrierMembers
  <2>3. ASSUME NEW u \in Units, FUs'[u].input.valid, d = <<"input", u, FUs'[u].input.rob_tag>>
        PROVE  Old(d)
    <3>1. ~Completing(u) /\ FUs'[u].input = FUs[u].input
      BY <2>3, UnitsTick
    <3>2. d \in Carriers
      BY <2>3, <3>1, CarrierMembers
    <3> QED BY <2>3, <3>1, <3>2
  <2>4. ASSUME NEW u \in Units, FUs'[u].output.valid, d = <<"output", u, FUs'[u].output.rob_tag>>
        PROVE  Old(d) \/ New(d, u)
    <3>1. CASE Completing(u)
      <4>1. FUs[u].input.valid /\ FUs'[u].output.rob_tag = FUs[u].input.rob_tag
        BY <3>1, UnitsTick
      <4>2. <<"input", u, FUs[u].input.rob_tag>> \in Carriers
        BY <4>1, CarrierMembers
      <4> QED BY <2>4, <3>1, <4>1, <4>2
    <3>2. CASE ~Completing(u)
      <4>1. FUs'[u].output = FUs[u].output
        BY <3>2, UnitsTick
      <4>2. d \in Carriers
        BY <2>4, <4>1, CarrierMembers
      <4> QED BY <2>4, <4>2
    <3> QED BY <3>1, <3>2
  <2> HIDE DEF Old, New
  <2> QED BY <1>1, <2>1, <2>2, <2>3, <2>4, CarrierMembers DEF Old
<1>4. ASSUME NEW c \in Carriers
      PROVE  c \in Carriers' \/ \E u \in Units : Completing(u) /\ <<"output", u, c[3]>> \in Carriers'
  <2>1. CASE \E i \in Busy : c = <<"station", i, RS_store[i].rd_rob>>
    BY <1>1, <2>1, CarrierMembers
  <2>2. CASE ~CDB.empty /\ c = <<"bus", 0, CDB.rob_tag>>
    BY <1>1, <2>2, CarrierMembers
  <2>3. ASSUME NEW u \in Units, FUs[u].input.valid, c = <<"input", u, FUs[u].input.rob_tag>>
        PROVE  c \in Carriers' \/ \E v \in Units : Completing(v) /\ <<"output", v, c[3]>> \in Carriers'
    <3>1. CASE Completing(u)
      <4>1. FUs'[u].output.valid /\ FUs'[u].output.rob_tag = c[3]
        BY <2>3, <3>1, UnitsTick
      <4>2. <<"output", u, c[3]>> \in Carriers'
        BY <4>1, CarrierMembers
      <4> QED BY <3>1, <4>2
    <3>2. CASE ~Completing(u)
      <4>1. FUs'[u].input = FUs[u].input
        BY <3>2, UnitsTick
      <4> QED BY <2>3, <4>1, CarrierMembers
    <3> QED BY <3>1, <3>2
  <2>4. ASSUME NEW u \in Units, FUs[u].output.valid, c = <<"output", u, FUs[u].output.rob_tag>>
        PROVE  c \in Carriers'
    <3>1. FUs'[u].output = FUs[u].output
      BY <2>4, UnitsTick
    <3> QED BY <2>4, <3>1, CarrierMembers
  <2> QED BY <2>1, <2>2, <2>3, <2>4, CarrierMembers
<1>5. ASSUME NEW d1 \in Carriers', NEW d2 \in Carriers', d1[3] = d2[3] PROVE d1 = d2
  <2>0. \A c, d \in Carriers : c[3] = d[3] => c = d
    BY DEF CoreInv, CarriersAreRight, Alone
  <2>1. ASSUME NEW x, NEW y, NEW u \in Units, New(x, u), Old(y), x[3] = y[3] PROVE FALSE
    <3>1. <<"input", u, FUs[u].input.rob_tag>>[3] = y[3]
      BY <2>1
    <3> QED BY <2>0, <2>1, <3>1
  <2>2. ASSUME NEW x, NEW y, NEW u \in Units, NEW v \in Units, New(x, u), New(y, v), x[3] = y[3] PROVE x = y
    <3>1. <<"input", u, FUs[u].input.rob_tag>> = <<"input", v, FUs[v].input.rob_tag>>
      BY <2>0, <2>2
    <3> QED BY <2>2, <3>1
  <2>3. Old(d1) /\ Old(d2) => d1 = d2
    BY <1>5, <2>0
  <2> HIDE DEF Old, New
  <2> QED BY <1>3, <1>5, <2>1, <2>2, <2>3
<1>6. Alone(Carriers')
  BY <1>5 DEF Alone
<1>7. ASSUME NEW p \in 1 .. count, ~Items[p].ready PROVE \E d \in Carriers' : d[3] = Items[p].tag
  <2>1. PICK c \in Carriers : c[3] = Items[p].tag
    BY <1>7 DEF CoreInv, CarriersAreRight
  <2> QED BY <1>4, <2>1
<1> QED BY <1>2, <1>6, <1>7 DEF CarriersAreRight

(* The tick of the units keeps the back end right. *)
LEMMA UnitsInv ==
    ASSUME CoreInv, units_tick
    PROVE  /\ IInv' /\ RSInv' /\ CoreTypes' /\ PartsAreRight' /\ FlushIsRight'
           /\ CarriersAreRight' /\ CheckpointsAreRight'
           /\ Items' = Items /\ count' = count
<1> DEFINE input == FUs["BRU"].input
           target == br_target(input)
           t == input.rob_tag
<1>0. "BRU" \in Units /\ checkpoints \in Table
  BY DEF Units, CoreInv, CoreTypes, Table
<1>1. IInv' /\ Items' = Items /\ count' = count
  BY RingUnchanged DEF CoreInv, units_tick
<1>2. RSInv' /\ Busy' = Busy /\ RS_store' = RS_store
  BY StationsUnchanged DEF CoreInv, units_tick
<1>3. code' = code /\ reg_file' = reg_file /\ exited' = exited /\ RAT' = RAT /\ CDB' = CDB /\ stage' = "commit"
  BY DEF units_tick, back
<1>4. SavedAt(checkpoints, OpenBranches)
  BY DEF CoreInv, CheckpointsAreRight
(* The branch that is done, found wrong, found right. *)
<1>5. ASSUME Completing("BRU")
      PROVE  /\ t \in OpenBranches /\ target \in Word /\ t \in Tag
             /\ BranchIs(code, Items, reg_file, count, t, target)
  <2>1. input.valid
    BY <1>0, <1>5, UnitsTick
  <2> QED BY <1>5, <2>1, UnitsBranch, TargetIs DEF Input
<1>6. /\ checkpoints' \in Table /\ SavedAt(checkpoints', OpenBranches')
      /\ \A i \in CheckpointIndex : checkpoints'[i].valid => checkpoints'[i] = checkpoints[i]
      /\ flush' = NoFlush \/
            /\ Completing("BRU")
            /\ flush' = [pending |-> TRUE, rob |-> t, pc |-> target]
  <2>0. flush = NoFlush
    <3>1. flush \in {NoFlush} \cup Request /\ ~flush.pending
      BY UnitsBranch DEF CoreInv, CoreTypes
    <3> QED BY <3>1 DEF Request
  <2>1. CASE ~Completing("BRU")
    <3>1. OpenBranches' = OpenBranches /\ checkpoints' = checkpoints /\ flush' = flush
      BY <2>1, UnitsBranch
    <3> QED BY <1>0, <1>4, <2>0, <3>1
  <2>2. CASE Completing("BRU") /\ NextOf(input.instr) # target
    <3>1. OpenBranches' = OpenBranches /\ checkpoints' = checkpoints
          /\ flush' = [pending |-> TRUE, rob |-> t, pc |-> target]
      BY <2>2, UnitsBranch
    <3> QED BY <1>0, <1>4, <2>2, <3>1
  <2>3. CASE Completing("BRU") /\ NextOf(input.instr) = target
    <3>1. OpenBranches' = OpenBranches \ {t} /\ checkpoints' = release(checkpoints, t) /\ flush' = flush
      BY <2>3, UnitsBranch
    <3>2. t \in OpenBranches
      BY <1>5, <2>3
    <3> QED BY <1>0, <1>4, <2>0, <3>1, <3>2, ReleaseIs
  <2> QED BY <2>1, <2>2, <2>3
<1> HIDE DEF t, target
<1>7. CoreTypes'
  <2>1. FUs' \in [Units -> Unit]
    <3>1. \A u \in Units : FUs'[u] \in Unit
      BY UnitsTick
    <3> QED BY <3>1 DEF units_tick
  <2>2. flush' \in {NoFlush} \cup Request
    <3>1. Completing("BRU") => [pending |-> TRUE, rob |-> t, pc |-> target] \in Request
      BY <1>5 DEF Request
    <3> QED BY <1>6, <3>1, Zenon
  <2>3. checkpoints' \in [CheckpointIndex -> {NoCheckpoint} \cup Checkpoint]
    BY <1>6 DEF Table
  <2> QED BY <1>1, <1>3, <2>1, <2>2, <2>3 DEF CoreInv, CoreTypes, Stages
<1>8. PartsAreRight'
  <2>1. ASSUME NEW u \in Units, FUs'[u].input.valid
        PROVE  InputIs(code, Items, reg_file, count, u, FUs'[u].input)
    <3>1. FUs'[u].input = FUs[u].input
      BY <2>1, UnitsTick
    <3> QED BY <2>1, <3>1 DEF CoreInv, PartsAreRight
  <2>2. ASSUME NEW u \in Units, FUs'[u].output.valid
        PROVE  ResultIs(code, Items, reg_file, count, FUs'[u].output.rob_tag, FUs'[u].output.value)
    <3>1. CASE Completing(u)
      BY <3>1, UnitsTick
    <3>2. CASE ~Completing(u)
      <4>1. FUs'[u].output = FUs[u].output
        BY <3>2, UnitsTick
      <4> QED BY <2>2, <4>1 DEF CoreInv, PartsAreRight
    <3> QED BY <3>1, <3>2
  <2>3. \A i \in CheckpointIndex : checkpoints'[i].valid =>
            SavedIs(code, Items, count, checkpoints'[i].rob_tag, checkpoints'[i].rat)
    BY <1>6 DEF CoreInv, PartsAreRight
  <2> QED BY <1>1, <1>2, <1>3, <2>1, <2>2, <2>3 DEF CoreInv, PartsAreRight
<1>9. FlushIsRight'
  <2> SUFFICES ASSUME flush'.pending PROVE FlushIsRight'
    BY DEF FlushIsRight
  <2>1. Completing("BRU") /\ flush'.rob = t /\ flush'.pc = target
    BY <1>6 DEF NoFlush
  <2>2. FUs'["BRU"].output.valid /\ FUs'["BRU"].output.rob_tag = t
    BY <1>0, <2>1, UnitsTick DEF t
  <2> QED BY <1>1, <1>3, <1>5, <2>1, <2>2 DEF FlushIsRight
<1>10. CarriersAreRight'
  BY UnitsCarriers
<1>11. CheckpointsAreRight'
  BY <1>6 DEF CheckpointsAreRight
<1> QED BY <1>1, <1>2, <1>7, <1>8, <1>9, <1>10, <1>11

(***************************************************************************)
(* commit: the first item of the window leaves.                            *)
(***************************************************************************)
(* The window moves up, the register file gets the result and the tables forget
   the tag. *)
LEMMA RetiredIs ==
    ASSUME CoreInv, commit, retiring
    PROVE  /\ IInv' /\ count \in Nat /\ count' = count - 1 /\ count' \in Nat /\ count = count' + 1
           /\ Items[1].ready /\ 1 \in 1 .. count
           /\ Shift(code, Items, Items', reg_file, reg_file', count')
           /\ RAT' = Cleared(code, Items, RAT)
           /\ checkpoints' = ClearedTables(code, Items, checkpoints)
           /\ reg_file' \in [Reg -> Word] /\ reg_file'[0] = 0
           /\ exited' = is_exit(code[Items[1].instr])
<1>0. IInv /\ CoreTypes /\ pop
  BY DEF CoreInv, commit
<1>1. /\ IInv' /\ count # 0 /\ count' = count - 1 /\ Items[1].ready
      /\ \A j \in 1 .. count - 1 : Items'[j] = Items[j + 1]
  BY <1>0, Popped
<1>2. count \in Nat /\ count' \in Nat /\ count = count' + 1
  BY <1>0, <1>1, Counted
<1>3. /\ 1 \in 1 .. count
      /\ head_tag = Items[1].tag /\ store[head_index].instr = Items[1].instr
      /\ store[head_index].result = Items[1].result
  BY <1>0, <1>1, HeadFacts
<1> DEFINE item == Items[1]
           i == code[item.instr]
<1>4. i \in Instruction(Reg) /\ head_instr = i
  <2>1. item.instr \in Word
    BY <1>3 DEF CoreInv, CoreTypes
  <2> QED BY <1>0, <1>3, <2>1, CodeFacts DEF head_instr
<1>5. item.result \in Word
  <2>1. Gives(code, Items, reg_file, 1, item.result)
    BY <1>1, <1>3 DEF CoreInv, PartsAreRight, CompleteAre
  <2>2. item.instr \in Word
    BY <1>3 DEF CoreInv, CoreTypes
  <2>3. PICK v1 \in Word, v2 \in Word : item.result = Outcome(code, item.instr, v1, v2)
    BY <2>1, Zenon DEF Gives
  <2>4. Outcome(code, item.instr, v1, v2) \in Word
    BY <1>0, <2>2, OutcomeIsWord
  <2> QED BY <2>3, <2>4
<1>6. /\ writes(i) => /\ reg_file' = [reg_file EXCEPT ![i.rd] = item.result]
                      /\ RAT' = clear_mapping(RAT, i.rd, item.tag)
                      /\ checkpoints' = clear_RAT_mapping(checkpoints, i.rd, item.tag)
      /\ ~writes(i) => reg_file' = reg_file /\ RAT' = RAT /\ checkpoints' = checkpoints
      /\ exited' = is_exit(i)
  BY <1>3, <1>4 DEF commit, renaming
<1>7. i.rd \in Reg
  BY <1>4 DEF Instruction
<1> HIDE DEF i
<1>8. reg_file' \in [Reg -> Word] /\ reg_file'[0] = 0
  <2>1. reg_file \in [Reg -> Word] /\ reg_file[0] = 0 /\ 0 \in Reg
    BY <1>0, CoreAssumption DEF CoreTypes
  <2> QED BY <1>5, <1>6, <1>7, <2>1 DEF writes
<1>9. \A r \in Reg : reg_file'[r] = IF WritesTo(code, item, r) THEN item.result ELSE reg_file[r]
  <2>1. reg_file \in [Reg -> Word] /\ \A r : WritesTo(code, item, r) <=> writes(i) /\ i.rd = r
    BY <1>0 DEF WritesTo, i, CoreTypes
  <2> HIDE DEF item
  <2> QED BY <1>6, <1>7, <2>1
<1>10. RAT' = Cleared(code, Items, RAT) /\ checkpoints' = ClearedTables(code, Items, checkpoints)
  BY <1>6 DEF Cleared, ClearedTables, i
<1>11. Shift(code, Items, Items', reg_file, reg_file', count')
  BY <1>1, <1>9 DEF Shift
<1> QED BY <1>1, <1>2, <1>3, <1>6, <1>8, <1>10, <1>11 DEF i

(* commit keeps the back end right. *)
LEMMA CommitInv ==
    ASSUME CoreInv, commit
    PROVE  /\ IInv' /\ RSInv' /\ CoreTypes' /\ PartsAreRight' /\ FlushIsRight'
           /\ CarriersAreRight' /\ CheckpointsAreRight' /\ OpenBranches' = OpenBranches
<1>1. CASE ~retiring
  <2>1. UNCHANGED <<code, renaming, ROB, RS_vars, FUs, CDB, flush, back>>
    BY <1>1 DEF commit
  <2> QED BY <2>1, BackStays DEF commit, Stages
<1>2. CASE retiring
  <2> DEFINE n == count'
             w == Items
             w2 == Items'
             regs == reg_file
             regs2 == reg_file'
  <2>0. code \in Programs /\ checkpoints \in Table /\ RAT \in [Reg -> Operand] /\ IInv /\ CoreTypes
    BY DEF CoreInv, CoreTypes, Table
  <2>1. /\ IInv' /\ n \in Nat /\ count = n + 1 /\ w[1].ready /\ 1 \in 1 .. count
        /\ Shift(code, w, w2, regs, regs2, n)
        /\ RAT' = Cleared(code, w, RAT) /\ checkpoints' = ClearedTables(code, w, checkpoints)
        /\ regs2 \in [Reg -> Word] /\ regs2[0] = 0
        /\ exited' \in BOOLEAN
    BY <1>2, RetiredIs DEF is_exit
  <2>2. RSInv' /\ Busy' = Busy /\ RS_store' = RS_store
    BY StationsUnchanged DEF CoreInv, commit
  <2>3. code' = code /\ FUs' = FUs /\ CDB' = CDB /\ flush' = flush /\ stage' = "writeback"
    BY DEF commit
  <2>4. TagsDiffer(w, n + 1)
    BY <2>0, <2>1, WindowFacts
  <2>5. /\ \A j \in 1 .. n : w2[j] = w[j + 1] /\ w2[j].instr \in Word
        /\ \A j \in 1 .. n : code[w2[j].instr] \in Instruction(Reg)
    <3>1. \A j \in 1 .. n : j + 1 \in 1 .. count
      <4>1. n \in Nat /\ count = n + 1
        BY <2>1
      <4> HIDE DEF n
      <4> QED BY <4>1
    <3>2. \A j \in 1 .. n : w2[j] = w[j + 1]
      BY <2>1 DEF Shift
    <3>3. \A j \in 1 .. n : w2[j].instr \in Word
      <4>1. \A p \in 1 .. count : w[p].instr \in Word
        BY <2>0 DEF CoreTypes
      <4> HIDE DEF n, w, w2
      <4> QED BY <3>1, <3>2, <4>1
    <3> QED BY <2>0, <3>2, <3>3, CodeFacts
  <2>6. OpenBranches' = OpenBranches
    BY <2>2, <2>3, OpenUnchanged
  <2>7. ASSUME NEW t \in OpenBranches PROVE t # w[1].tag
    <3>1. PICK p \in 1 .. count : w[p].tag = t /\ ~w[p].ready
      BY OpenIsCarried DEF CoreInv
    <3> QED BY <2>1, <2>4, <3>1 DEF TagsDiffer
  <2>8. SavedAt(checkpoints, OpenBranches)
    BY DEF CoreInv, CheckpointsAreRight
  <2>9. /\ checkpoints' \in Table /\ SavedAt(checkpoints', OpenBranches)
        /\ \A i \in CheckpointIndex : checkpoints'[i].valid =>
             /\ checkpoints[i].valid /\ checkpoints[i].rat \in [Reg -> Operand]
             /\ checkpoints'[i].rob_tag = checkpoints[i].rob_tag
             /\ checkpoints'[i].rat = Cleared(code, w, checkpoints[i].rat)
    BY <2>0, <2>1, <2>8, ClearedTablesAre
  <2>10. CoreTypes'
    <3>1. RAT' \in [Reg -> Operand]
      BY <2>0, <2>1, ClearedIs
    <3> QED BY <2>0, <2>1, <2>3, <2>5, <2>9, <3>1 DEF CoreTypes, Stages, Table
  <2>11. ASSUME NEW i \in Busy PROVE StationIs(code, w2, regs2, n, RS_store[i])
    <3>1. RS_store[i] \in Held
      BY DEF CoreInv, RSInv, Typed, Busy, NoInstrHeld
    <3>2. code[RS_store[i].instr] \in Instruction(Reg)
      BY <2>0, <3>1, CodeFacts, CoreAssumption DEF Held
    <3> QED BY <2>1, <3>2, StationShifts DEF CoreInv, PartsAreRight
  <2>12. ASSUME NEW u \in Units, FUs[u].input.valid PROVE InputIs(code, w2, regs2, n, u, FUs[u].input)
    <3>1. FUs[u].input \in Input
      BY <2>0, <2>12 DEF CoreTypes, Unit, NoInput
    <3>2. code[FUs[u].input.instr] \in Instruction(Reg)
      BY <2>0, <3>1, CodeFacts DEF Input
    <3> QED BY <2>1, <2>12, <3>2, InputShifts DEF CoreInv, PartsAreRight
  <2>13. \A t, v : ResultIs(code, w, regs, n + 1, t, v) => ResultIs(code, w2, regs2, n, t, v)
    BY <2>1, <2>5, ResultShifts
  <2>14. CompleteAre(code, w2, regs2, n)
    BY <2>1, <2>5, CompleteShift DEF CoreInv, PartsAreRight
  <2>15. TableIs(code, w2, RAT', n)
    BY <2>0, <2>1, <2>4, <2>5, TableShifts DEF CoreInv, PartsAreRight
  <2>16. ASSUME NEW i \in CheckpointIndex, checkpoints'[i].valid
         PROVE  SavedIs(code, w2, n, checkpoints'[i].rob_tag, checkpoints'[i].rat)
    <3>1. checkpoints[i].rob_tag \in OpenBranches
      BY <2>8, <2>9, <2>16 DEF SavedAt, Saved
    <3>2. SavedIs(code, w, n + 1, checkpoints[i].rob_tag, checkpoints[i].rat)
      BY <2>1, <2>9, <2>16 DEF CoreInv, PartsAreRight
    <3>3. checkpoints[i].rob_tag # w[1].tag
      BY <2>7, <3>1
    <3>4. SavedIs(code, w2, n, checkpoints[i].rob_tag, Cleared(code, w, checkpoints[i].rat))
      BY <2>1, <2>4, <2>5, <2>9, <2>16, <3>2, <3>3, SavedShifts
    <3> QED BY <2>9, <2>16, <3>4
  <2>17. PartsAreRight'
    <3> HIDE DEF n, w, w2, regs, regs2
    <3>1. \A u \in Units : FUs[u].output.valid => 
             ResultIs(code, w2, regs2, n, FUs[u].output.rob_tag, FUs[u].output.value)
      BY <2>1, <2>13 DEF CoreInv, PartsAreRight, n, w, w2, regs, regs2
    <3>2. ~CDB.empty => ResultIs(code, w2, regs2, n, CDB.rob_tag, CDB.value)
      BY <2>1, <2>13 DEF CoreInv, PartsAreRight, n, w, w2, regs, regs2
    <3> QED BY <2>2, <2>3, <2>11, <2>12, <2>14, <2>15, <2>16, <3>1, <3>2 
            DEF PartsAreRight, n, w, w2, regs, regs2
  <2>18. FlushIsRight'
    <3> SUFFICES ASSUME flush.pending PROVE FlushIsRight'
      BY <2>3 DEF FlushIsRight
    <3>1. BranchIs(code, w, regs, n + 1, flush.rob, flush.pc)
          /\ FUs["BRU"].output.valid /\ FUs["BRU"].output.rob_tag = flush.rob
      BY <2>1 DEF CoreInv, FlushIsRight
    <3>2. flush.rob \in OpenBranches
      BY OpenMembers
    <3>3. BranchIs(code, w2, regs2, n, flush.rob, flush.pc)
      BY <2>1, <2>5, <2>7, <3>1, <3>2, BranchShifts
    <3> QED BY <2>3, <3>1, <3>3 DEF FlushIsRight
  <2>19. CarriersAreRight'
    <3>1. Carriers' = Carriers
      BY <2>2, <2>3, CarriersUnchanged
    <3>2. ASSUME NEW p \in 1 .. n, ~w2[p].ready PROVE \E c \in Carriers : c[3] = w2[p].tag
      <4>1. p + 1 \in 1 .. count /\ w2[p] = w[p + 1]
        BY <2>1, <2>5
      <4> QED BY <3>2, <4>1 DEF CoreInv, CarriersAreRight
    <3> QED BY <3>1, <3>2 DEF CoreInv, CarriersAreRight
  <2>20. CheckpointsAreRight'
    BY <2>6, <2>9 DEF CheckpointsAreRight
  <2> QED BY <2>1, <2>2, <2>6, <2>10, <2>17, <2>18, <2>19, <2>20
<1> QED BY <1>1, <1>2

(***************************************************************************)
(* writeback: the instruction whose result is on the bus completes.        *)
(***************************************************************************)
(* The stations that wait for the result get it. *)
LEMMA StationsHeard ==
    ASSUME RSInv, NEW t \in Tag, NEW v \in RS_Value, update_operands(t, v)
    PROVE  /\ RSInv' /\ Busy' = Busy
           /\ \A i \in Busy : /\ RS_store[i] \in Held /\ RS_store'[i] = updated(RS_store[i], t, v)
                              /\ RS_store'[i].rd_rob = RS_store[i].rd_rob
                              /\ RS_store'[i].instr = RS_store[i].instr
<1>1. RSInv'
  BY UpdateRSInv
<1>2. ASSUME NEW i \in Busy
      PROVE  /\ RS_store[i] \in Held /\ RS_store'[i] = updated(RS_store[i], t, v)
             /\ RS_store'[i].rd_rob = RS_store[i].rd_rob
             /\ RS_store'[i].instr = RS_store[i].instr
             /\ RS_store'[i].valid
  <2>1. RS_store[i] \in Held
    BY DEF RSInv, Typed, Busy, NoInstrHeld
  <2>2. RS_store'[i] = updated(RS_store[i], t, v)
    BY DEF update_operands, Busy
  <2> QED BY <2>1, <2>2 DEF updated, Held
<1>3. \A i \in Station : i \notin Busy => RS_store'[i] = RS_store[i]
  BY DEF update_operands
<1>4. Busy' = Busy
  BY <1>2, <1>3 DEF Busy
<1> QED BY <1>1, <1>2, <1>4

(* The one whose result is on the bus is in the window and not complete, so that
   update is never refused. *)
LEMMA WrittenIs ==
    ASSUME CoreInv, writeback, ~CDB.empty
    PROVE  /\ IInv' /\ count' = count /\ count \in Nat
           /\ CDB.rob_tag \in Tag /\ CDB.rob_tag # INVALID_ROB /\ CDB.value \in Word
           /\ Stay(Items, Items', count)
           /\ Updates(Items, Items', count, CDB.rob_tag, CDB.value)
           /\ \A c \in Carriers : c # <<"bus", 0, CDB.rob_tag>> => c[3] # CDB.rob_tag
           /\ \E k \in 1 .. count : Items[k].tag = CDB.rob_tag /\ ~Items[k].ready
<1> DEFINE t == CDB.rob_tag
           v == CDB.value
<1>0. IInv /\ CDB \in Bus
  BY DEF CoreInv, CoreTypes, EmptyBus
<1>1. t \in Tag /\ t # INVALID_ROB /\ v \in Word /\ v \in Value
  BY <1>0, NoTag, CoreAssumption DEF Bus
<1>2. update(t, v)
  BY DEF writeback
<1> HIDE DEF t, v
<1>3. /\ IInv' /\ count' = count
      /\ \E k \in 1 .. count :
            /\ Items[k].tag = t /\ ~Items[k].ready
            /\ \A j \in 1 .. count :
                  Items'[j] = IF j = k THEN [tag |-> t, instr |-> Items[k].instr,
                                             ready |-> TRUE, result |-> v]
                              ELSE Items[j]
  BY <1>0, <1>1, <1>2, Updated
<1>4. PICK k \in 1 .. count :
            /\ Items[k].tag = t /\ ~Items[k].ready
            /\ \A j \in 1 .. count :
                  Items'[j] = IF j = k THEN [tag |-> t, instr |-> Items[k].instr,
                                             ready |-> TRUE, result |-> v]
                              ELSE Items[j]
  BY <1>3
<1>5. Stay(Items, Items', count)
  BY <1>4 DEF Stay
<1>6. Updates(Items, Items', count, t, v)
  <2>1. \A j \in 1 .. count : Items[j].tag = t => j = k
    BY <1>0, <1>4, WindowFacts DEF TagsDiffer
  <2> QED BY <1>4, <2>1 DEF Updates
<1>7. ASSUME NEW c \in Carriers, c[3] = t PROVE c = <<"bus", 0, t>>
  <2>1. <<"bus", 0, t>> \in Carriers
    BY CarrierMembers DEF t
  <2>2. <<"bus", 0, t>>[3] = c[3]
    BY <1>7
  <2> QED BY <2>1, <2>2, Zenon DEF CoreInv, CarriersAreRight, Alone
<1> QED BY <1>0, <1>1, <1>3, <1>4, <1>5, <1>6, <1>7, Counted DEF t, v

(* writeback keeps the back end right. *)
LEMMA WritebackInv ==
    ASSUME CoreInv, writeback
    PROVE  /\ IInv' /\ RSInv' /\ CoreTypes' /\ PartsAreRight' /\ FlushIsRight'
           /\ CarriersAreRight' /\ CheckpointsAreRight'
           /\ OpenBranches' = OpenBranches /\ count' = count /\ Stay(Items, Items', count)
<1>1. CASE CDB.empty
  <2>1. UNCHANGED <<code, renaming, ROB, RS_vars, FUs, CDB, flush, back>>
    BY <1>1 DEF writeback
  <2>2. Stay(Items, Items, count)
    BY DEF Stay
  <2> QED BY <2>1, <2>2, BackStays DEF writeback, Stages
<1>2. CASE ~CDB.empty
  <2> DEFINE t == CDB.rob_tag
             v == CDB.value
             n == count
             w == Items
             w2 == Items'
             regs == reg_file
             theBus == <<"bus", 0, t>>
  <2>0. checkpoints \in Table /\ IInv /\ RSInv /\ CoreTypes
    BY DEF CoreInv, CoreTypes, Table
  <2>1. /\ IInv' /\ count' = n /\ n \in Nat /\ t \in Tag /\ t # INVALID_ROB /\ v \in Word
        /\ Stay(w, w2, n) /\ Updates(w, w2, n, t, v)
        /\ \A c \in Carriers : c # theBus => c[3] # t
    BY <1>2, WrittenIs
  <2>2. /\ RSInv' /\ Busy' = Busy
        /\ \A i \in Busy : /\ RS_store[i] \in Held /\ RS_store'[i] = updated(RS_store[i], t, v)
                           /\ RS_store'[i].rd_rob = RS_store[i].rd_rob
                           /\ RS_store'[i].instr = RS_store[i].instr
    <3>1. update_operands(t, v) /\ v \in RS_Value
      BY <1>2, <2>1, CoreAssumption DEF writeback
    <3> HIDE DEF t, v
    <3> QED BY <2>0, <2>1, <3>1, StationsHeard
  <2>3. /\ code' = code /\ reg_file' = reg_file /\ exited' = exited /\ RAT' = RAT /\ checkpoints' = checkpoints
        /\ FUs' = FUs /\ CDB' = EmptyBus /\ CDB'.empty /\ flush' = flush /\ stage' = "flush"
    BY <1>2 DEF writeback, renaming, back, EmptyBus
  <2>4. OpenBranches' = OpenBranches
    <3>1. \A i \in Busy : unit_of(i)' = unit_of(i)
      BY <2>2, <2>3 DEF unit_of
    <3>2. \A s : s \in OpenBranches' <=> s \in OpenBranches
      BY <2>2, <2>3, <3>1, OpenMembers
    <3> QED BY <3>2
  <2>5. CoreTypes'
    <3>1. \A j \in 1 .. n : w2[j].instr \in Word
      BY <2>0, <2>1 DEF Stay, CoreTypes
    <3> QED BY <2>0, <2>1, <2>3, <3>1 DEF CoreTypes, Stages
(* What has another tag does not complete. *)
  <2>6. ASSUME NEW s, s # t PROVE Remains(w, w2, n, n, s) /\ Incomplete(w, w2, n, s)
    BY <2>1, <2>6 DEF Remains, Incomplete, Updates
  <2> HIDE DEF w, w2, n, t, v, regs, theBus
  <2>7. ASSUME NEW i \in Busy PROVE StationIs(code, w2, regs, n, RS_store'[i])
    <3>1. <<"station", i, RS_store[i].rd_rob>> \in Carriers /\ <<"station", i, RS_store[i].rd_rob>> # theBus
      BY CarrierMembers DEF theBus
    <3>2. RS_store[i].rd_rob # t
      BY <2>1, <3>1
    <3>3. StationIs(code, w, regs, n, RS_store[i])
      BY DEF CoreInv, PartsAreRight, w, regs, n
    <3> QED BY <2>1, <2>2, <3>2, <3>3, StationUpdated
  <2>8. ASSUME NEW u \in Units, FUs[u].input.valid PROVE InputIs(code, w2, regs, n, u, FUs[u].input)
    <3>1. <<"input", u, FUs[u].input.rob_tag>> \in Carriers /\ <<"input", u, FUs[u].input.rob_tag>> # theBus
      BY <2>8, CarrierMembers DEF theBus
    <3>2. FUs[u].input.rob_tag # t
      BY <2>1, <3>1
    <3>3. InputIs(code, w, regs, n, u, FUs[u].input)
      BY <2>8 DEF CoreInv, PartsAreRight, w, regs, n
    <3>4. Remains(w, w2, n, n, FUs[u].input.rob_tag) /\ Incomplete(w, w2, n, FUs[u].input.rob_tag) /\ n <= n
      BY <2>1, <2>6, <3>2
    <3> QED BY <2>1, <3>3, <3>4, InputStays
  <2>9. ASSUME NEW u \in Units, FUs[u].output.valid
        PROVE  ResultIs(code, w2, regs, n, FUs[u].output.rob_tag, FUs[u].output.value)
    <3>1. <<"output", u, FUs[u].output.rob_tag>> \in Carriers /\ <<"output", u, FUs[u].output.rob_tag>> # theBus
      BY <2>9, CarrierMembers DEF theBus
    <3>2. FUs[u].output.rob_tag # t
      BY <2>1, <3>1
    <3>3. ResultIs(code, w, regs, n, FUs[u].output.rob_tag, FUs[u].output.value)
      BY <2>9 DEF CoreInv, PartsAreRight, w, regs, n
    <3>4. Remains(w, w2, n, n, FUs[u].output.rob_tag) /\ Incomplete(w, w2, n, FUs[u].output.rob_tag) /\ n <= n
      BY <2>1, <2>6, <3>2
    <3> QED BY <2>1, <3>3, <3>4, ResultStays
  <2>10. CompleteAre(code, w2, regs, n)
    <3>1. ASSUME NEW p \in 1 .. n, w2[p].ready PROVE w[p].ready \/ Gives(code, w, regs, p, w2[p].result)
      <4> SUFFICES ASSUME ~w[p].ready PROVE Gives(code, w, regs, p, w2[p].result)
        OBVIOUS
      <4>1. w[p].tag = t /\ w2[p].result = v
        BY <2>1, <3>1 DEF Updates
      <4>2. PICK q \in 1 .. n : w[q].tag = t /\ Gives(code, w, regs, q, v)
        BY <1>2 DEF CoreInv, PartsAreRight, ResultIs, w, regs, n, t, v
      <4>3. q = p
        BY <2>0, <4>1, <4>2, WindowFacts DEF TagsDiffer, w, n
      <4> QED BY <4>1, <4>2, <4>3
    <3>2. CompleteAre(code, w, regs, n) /\ n <= n
      BY <2>1 DEF CoreInv, PartsAreRight, w, regs, n
    <3> QED BY <2>1, <3>1, <3>2, CompleteStay
  <2>11. TableIs(code, w2, RAT, n)
    BY <2>1, TableStays DEF CoreInv, PartsAreRight, w, n
  <2>12. \A s : Remains(w, w2, n, n, s) /\ n <= n
    BY <2>1 DEF Remains
  <2>13. ASSUME NEW i \in CheckpointIndex, checkpoints[i].valid
         PROVE  SavedIs(code, w2, n, checkpoints[i].rob_tag, checkpoints[i].rat)
    <3>1. SavedIs(code, w, n, checkpoints[i].rob_tag, checkpoints[i].rat)
      BY <2>13 DEF CoreInv, PartsAreRight, w, n
    <3> QED BY <2>1, <2>12, <3>1, SavedStays
  <2>14. PartsAreRight'
    BY <2>1, <2>2, <2>3, <2>7, <2>8, <2>9, <2>10, <2>11, <2>13 DEF PartsAreRight, w2, regs, n
  <2>15. FlushIsRight'
    <3> SUFFICES ASSUME flush.pending PROVE FlushIsRight'
      BY <2>3 DEF FlushIsRight
    <3>1. BranchIs(code, w, regs, n, flush.rob, flush.pc)
          /\ FUs["BRU"].output.valid /\ FUs["BRU"].output.rob_tag = flush.rob
      BY DEF CoreInv, FlushIsRight, w, regs, n
    <3>2. BranchIs(code, w2, regs, n, flush.rob, flush.pc)
      BY <2>1, <2>12, <3>1, BranchStays
    <3> QED BY <2>1, <2>3, <3>1, <3>2 DEF FlushIsRight, w2, regs, n
  <2>16. CarriersAreRight'
    <3>1. \A d : d \in Carriers' <=> d \in Carriers /\ d # theBus
      <4>1. \A i, s : <<"station", i, s>> # theBus /\ <<"input", i, s>> # theBus /\ <<"output", i, s>> # theBus
        BY DEF theBus
      <4> QED BY <1>2, <2>2, <2>3, <4>1, CarrierMembers DEF theBus, t
    <3>2. Alone(Carriers')
      BY <3>1, CarriersGo DEF CoreInv, CarriersAreRight
    <3>3. ASSUME NEW p \in 1 .. n, ~w2[p].ready PROVE \E c \in Carriers' : c[3] = w2[p].tag
      <4>1. w[p].tag # t /\ ~w[p].ready /\ w2[p].tag = w[p].tag
        BY <2>1, <3>3 DEF Updates, Stay
      <4>2. PICK c \in Carriers : c[3] = w[p].tag
        BY <4>1 DEF CoreInv, CarriersAreRight, w, n
      <4>3. c # theBus
        BY <4>1, <4>2 DEF theBus
      <4> QED BY <3>1, <4>1, <4>2, <4>3
    <3> QED BY <2>1, <3>2, <3>3 DEF CarriersAreRight, w2, n
  <2>17. CheckpointsAreRight'
    BY <2>3, <2>4 DEF CoreInv, CheckpointsAreRight
  <2> QED BY <2>1, <2>2, <2>4, <2>5, <2>14, <2>15, <2>16, <2>17 DEF w, w2, n
<1> QED BY <1>1, <1>2

(***************************************************************************)
(* pipeline_flush: what is younger than the branch goes.                   *)
(***************************************************************************)
(* A unit drops what is younger. *)
LEMMA DroppedIs ==
    ASSUME NEW fu \in Unit, NEW t, NEW fu2, fu2 = fu_invalidate(fu, t)
    PROVE  /\ fu2 \in Unit
           /\ fu2.input.valid <=> fu.input.valid /\ ~is_rob_younger(fu.input.rob_tag, t)
           /\ fu2.input.valid => fu2.input = fu.input
           /\ fu2.output.valid <=> fu.output.valid /\ ~is_rob_younger(fu.output.rob_tag, t)
           /\ fu2.output.valid => fu2.output = fu.output
<1>1. fu.input \in {NoInput} \cup Input /\ fu.output \in {NoOutput} \cup Output /\ fu.cycles \in Nat
      /\ fu = [input |-> fu.input, output |-> fu.output, cycles |-> fu.cycles]
  BY DEF Unit
<1>2. ~NoInput.valid /\ ~NoOutput.valid
  BY DEF NoInput, NoOutput
<1> DEFINE in == IF fu.input.valid /\ is_rob_younger(fu.input.rob_tag, t) THEN NoInput ELSE fu.input
           out == IF fu.output.valid /\ is_rob_younger(fu.output.rob_tag, t) THEN NoOutput ELSE fu.output
<1>3. fu2 = [input |-> in, output |-> out, cycles |-> fu.cycles]
  BY <1>1 DEF fu_invalidate
<1>4. fu2 \in Unit
  <2>1. in \in {NoInput} \cup Input /\ out \in {NoOutput} \cup Output
    BY <1>1
  <2> HIDE DEF in, out
  <2> QED BY <1>1, <1>3, <2>1 DEF Unit
<1>5. fu2.input = in /\ fu2.output = out
  BY <1>3
<1>6. CASE fu.input.valid /\ is_rob_younger(fu.input.rob_tag, t)
  <2>1. fu2.input = NoInput
    BY <1>5, <1>6
  <2>2. fu2.output = out
    BY <1>5
  <2> QED BY <1>2, <1>4, <1>6, <2>1, <2>2
<1>7. CASE ~(fu.input.valid /\ is_rob_younger(fu.input.rob_tag, t))
  <2>1. fu2.input = fu.input
    BY <1>5, <1>7
  <2>2. fu2.output = out
    BY <1>5
  <2> QED BY <1>2, <1>4, <1>7, <2>1, <2>2
<1> QED BY <1>6, <1>7

(* The stations keep what is not younger. *)
LEMMA StationsKept ==
    ASSUME RSInv, NEW t \in Tag, RS_invalidate(t)
    PROVE  /\ RSInv'
           /\ \A i : i \in Busy' <=> i \in Busy /\ ~is_rob_younger(RS_store[i].rd_rob, t)
           /\ \A i \in Busy' : RS_store'[i] = RS_store[i]
<1>1. RSInv'
  BY InvalidateRSInv
<1>2. ~NoInstrHeld.valid
  BY DEF NoInstrHeld
<1>3. \A i \in Station : RS_store'[i] = IF i \in Kept(t) THEN RS_store[i] ELSE NoInstrHeld
  BY DEF RS_invalidate
<1>4. \A i : i \in Kept(t) <=> i \in Busy /\ ~is_rob_younger(RS_store[i].rd_rob, t)
  BY DEF Kept
<1>5. \A i : i \in Busy' <=> i \in Kept(t)
  BY <1>2, <1>3, <1>4 DEF Busy
<1> QED BY <1>1, <1>3, <1>4, <1>5 DEF Busy

(* The window is cut behind the branch, whose place is p. *)
LEMMA FlushedIs ==
    ASSUME CoreInv, flush_stage, flush.pending
    PROVE  \E p \in 1 .. count :
              /\ Items[p].tag = flush.rob /\ is_branch(code[Items[p].instr])
              /\ Leads(code, Items, reg_file, p, flush.pc)
              /\ IInv' /\ count' = p /\ p \in Nat /\ count \in Nat /\ p <= count
              /\ \A j \in 1 .. p : Items'[j] = Items[j]
              /\ Stay(Items, Items', p)
              /\ \A j \in 1 .. count : is_rob_younger(Items[j].tag, flush.rob) <=> j > p
<1>0. IInv /\ pipeline_flush
  BY DEF CoreInv, flush_stage
<1>1. PICK p \in 1 .. count :
         /\ Items[p].tag = flush.rob /\ is_branch(code[Items[p].instr])
         /\ Leads(code, Items, reg_file, p, flush.pc)
  BY DEF CoreInv, FlushIsRight, BranchIs
<1>2. ROB_invalidate(Items[p].tag)
  BY <1>0, <1>1 DEF pipeline_flush
<1>3. IInv' /\ count' = p /\ \A j \in 1 .. p : Items'[j] = Items[j]
  BY <1>0, <1>2, CutOff
<1>4. \A j \in 1 .. count : is_rob_younger(Items[j].tag, Items[p].tag) <=> j > p
  BY <1>0, AgeFacts
<1>5. count \in Nat /\ p \in Nat /\ p <= count
  BY <1>0, Counted
<1>6. Stay(Items, Items', p)
  BY <1>3 DEF Stay
<1> QED BY <1>1, <1>3, <1>4, <1>5, <1>6

(* A flush keeps the back end right. *)
LEMMA FlushInv ==
    ASSUME CoreInv, flush_stage
    PROVE  /\ IInv' /\ RSInv' /\ CoreTypes' /\ PartsAreRight' /\ FlushIsRight'
           /\ CarriersAreRight' /\ CheckpointsAreRight'
           /\ flush.pending =>
                 OpenBranches' = {s \in OpenBranches : s # flush.rob /\ ~is_rob_younger(s, flush.rob)}
           /\ ~flush.pending => OpenBranches' = OpenBranches
<1>1. CASE ~flush.pending
  <2>1. UNCHANGED <<code, renaming, ROB, RS_vars, FUs, CDB, flush, back>>
    BY <1>1 DEF flush_stage
  <2> QED BY <1>1, <2>1, BackStays DEF flush_stage, Stages
<1>2. CASE flush.pending
  <2> DEFINE t == flush.rob
             n == count
             w == Items
             w2 == Items'
             regs == reg_file
  <2>0. checkpoints \in Table /\ IInv /\ RSInv /\ CoreTypes /\ pipeline_flush /\ t \in Tag /\ flush.pc \in Word
    <3>1. flush \in Request
      BY <1>2 DEF CoreInv, CoreTypes, NoFlush
    <3> QED BY <1>2, <3>1 DEF CoreInv, CoreTypes, Table, flush_stage, Request
  <2>1. PICK p \in 1 .. n :
              /\ w[p].tag = t
              /\ IInv' /\ count' = p /\ p \in Nat /\ n \in Nat /\ p <= n
              /\ \A j \in 1 .. p : w2[j] = w[j]
              /\ Stay(w, w2, p)
              /\ \A j \in 1 .. n : is_rob_younger(w[j].tag, t) <=> j > p
    BY <1>2, FlushedIs
  <2>2. /\ RSInv'
        /\ \A i : i \in Busy' <=> i \in Busy /\ ~is_rob_younger(RS_store[i].rd_rob, t)
        /\ \A i \in Busy' : RS_store'[i] = RS_store[i]
    BY <2>0, StationsKept DEF pipeline_flush
  <2>3. /\ code' = code /\ reg_file' = reg_file /\ exited' = exited /\ stage' = "bus"
        /\ flush' = NoFlush /\ ~flush'.pending
        /\ RAT' = restore(checkpoints, t, RAT)
        /\ checkpoints' = cut_checkpoints(checkpoints, t)
        /\ CDB' = IF ~CDB.empty /\ is_rob_younger(CDB.rob_tag, t) THEN EmptyBus ELSE CDB
    BY <1>2 DEF flush_stage, pipeline_flush, back, NoFlush, CDB_invalidate
  <2>4. ASSUME NEW u \in Units
        PROVE  /\ FUs'[u] \in Unit
               /\ FUs'[u].input.valid <=> FUs[u].input.valid /\ ~is_rob_younger(FUs[u].input.rob_tag, t)
               /\ FUs'[u].input.valid => FUs'[u].input = FUs[u].input
               /\ FUs'[u].output.valid <=> FUs[u].output.valid /\ ~is_rob_younger(FUs[u].output.rob_tag, t)
               /\ FUs'[u].output.valid => FUs'[u].output = FUs[u].output
    <3>1. FUs'[u] = fu_invalidate(FUs[u], t) /\ FUs[u] \in Unit
      BY <2>0 DEF pipeline_flush, CoreTypes
    <3> HIDE DEF t
    <3> QED BY <3>1, DroppedIs
  <2>5. /\ ~CDB'.empty <=> ~CDB.empty /\ ~is_rob_younger(CDB.rob_tag, t)
        /\ ~CDB'.empty => CDB' = CDB
    <3>1. EmptyBus.empty
      BY DEF EmptyBus
    <3>2. CASE ~CDB.empty /\ is_rob_younger(CDB.rob_tag, t)
      BY <2>3, <3>1, <3>2
    <3>3. CASE ~(~CDB.empty /\ is_rob_younger(CDB.rob_tag, t))
      <4>1. CDB' = CDB
        BY <2>3, <3>3
      <4> QED BY <3>3, <4>1
    <3> QED BY <3>2, <3>3
  <2>6. FUs["BRU"].output.valid /\ FUs["BRU"].output.rob_tag = t /\ t \in OpenBranches
    BY <1>2, OpenMembers DEF CoreInv, FlushIsRight
  <2>7. SavedAt(checkpoints, OpenBranches)
    BY DEF CoreInv, CheckpointsAreRight
(* Who stays in the window. *)
  <2>8. TagsDiffer(w, n)
    BY <2>0, WindowFacts
  <2>9. ASSUME NEW s, ~is_rob_younger(s, t)
        PROVE  Remains(w, w2, n, p, s) /\ Incomplete(w, w2, n, s) /\ p <= p
    <3>1. \A j \in 1 .. n : w[j].tag = s => j <= p /\ j \in 1 .. p
      BY <2>1, <2>9
    <3> HIDE DEF w, w2, n, t
    <3> QED BY <2>1, <3>1 DEF Remains, Incomplete
(* The open branches and the carriers. *)
  <2>10. OpenBranches' = {s \in OpenBranches : s # t /\ ~is_rob_younger(s, t)}
    <3>1. ASSUME NEW i \in Busy PROVE RS_store[i].rd_rob # t
      <4>1. <<"station", i, RS_store[i].rd_rob>> \in Carriers /\ <<"output", "BRU", t>> \in Carriers
        BY <2>6, CarrierMembers DEF Units
      <4> QED BY <4>1 DEF CoreInv, CarriersAreRight, Alone
    <3>2. FUs["BRU"].input.valid => FUs["BRU"].input.rob_tag # t
      <4> SUFFICES ASSUME FUs["BRU"].input.valid, FUs["BRU"].input.rob_tag = t PROVE FALSE
        OBVIOUS
      <4>1. <<"input", "BRU", t>> \in Carriers /\ <<"output", "BRU", t>> \in Carriers
        BY <2>6, CarrierMembers DEF Units
      <4> QED BY <4>1 DEF CoreInv, CarriersAreRight, Alone
    <3>3. \A i \in Busy' : unit_of(i)' = unit_of(i)
      BY <2>2, <2>3 DEF unit_of
    <3>4. "BRU" \in Units
      BY DEF Units
    <3>5. \A s : s \in OpenBranches' <=> s \in OpenBranches /\ s # t /\ ~is_rob_younger(s, t)
      BY <2>2, <2>3, <2>4, <3>1, <3>2, <3>3, <3>4, OpenMembers
    <3> QED BY <3>5
  <2>11. \A c : c \in Carriers' <=> c \in Carriers /\ ~is_rob_younger(c[3], t)
    <3> SUFFICES ASSUME NEW c PROVE c \in Carriers' <=> c \in Carriers /\ ~is_rob_younger(c[3], t)
      OBVIOUS
    <3>0. /\ \A a, b, d : <<a, b, d>>[3] = d
      OBVIOUS
    <3>1. (\E i \in Busy' : c = <<"station", i, RS_store'[i].rd_rob>>) <=>
          (\E i \in Busy : c = <<"station", i, RS_store[i].rd_rob>>) /\ ~is_rob_younger(c[3], t)
      BY <2>2, <3>0
    <3>2. (\E u \in Units : FUs'[u].input.valid /\ c = <<"input", u, FUs'[u].input.rob_tag>>) <=>
          (\E u \in Units : FUs[u].input.valid /\ c = <<"input", u, FUs[u].input.rob_tag>>)
              /\ ~is_rob_younger(c[3], t)
      BY <2>4, <3>0
    <3>3. (\E u \in Units : FUs'[u].output.valid /\ c = <<"output", u, FUs'[u].output.rob_tag>>) <=>
          (\E u \in Units : FUs[u].output.valid /\ c = <<"output", u, FUs[u].output.rob_tag>>)
              /\ ~is_rob_younger(c[3], t)
      BY <2>4, <3>0
    <3>4. (~CDB'.empty /\ c = <<"bus", 0, CDB'.rob_tag>>) <=>
          (~CDB.empty /\ c = <<"bus", 0, CDB.rob_tag>>) /\ ~is_rob_younger(c[3], t)
      BY <2>5, <3>0
    <3> QED BY <3>1, <3>2, <3>3, <3>4, CarrierMembers
  <2> HIDE DEF w, w2, n, t, regs
(* The tables. *)
  <2>12. RAT' \in [Reg -> Operand] /\ TableIs(code, w2, RAT', p)
    <3> DEFINE m == Min(find(checkpoints, t))
    <3>1. /\ m \in CheckpointIndex /\ checkpoints[m].valid /\ checkpoints[m].rob_tag = t
          /\ RAT' = checkpoints[m].rat
      BY <2>3, <2>6, <2>7, FoundIs DEF restore, t
    <3> HIDE DEF m
    <3>2. RAT' \in [Reg -> Operand]
      <4>1. checkpoints[m] \in Checkpoint
        BY <2>0, <3>1 DEF Table, NoCheckpoint
      <4> QED BY <3>1, <4>1 DEF Checkpoint
    <3>3. PICK q \in 1 .. n : w[q].tag = t /\ TableIs(code, w, RAT', q)
      BY <3>1 DEF CoreInv, PartsAreRight, SavedIs, w, n
    <3>4. q = p
      BY <2>1, <2>8, <3>3 DEF TagsDiffer
    <3> QED BY <2>1, <3>2, <3>3, <3>4, TableStays
  <2>13. /\ checkpoints' \in Table
         /\ SavedAt(checkpoints', OpenBranches')
         /\ \A i \in CheckpointIndex : checkpoints'[i].valid =>
               checkpoints'[i] = checkpoints[i] /\ ~is_rob_younger(checkpoints[i].rob_tag, t)
    BY <2>0, <2>3, <2>7, <2>10, CutIs DEF t
  <2>14. CoreTypes'
    <3>1. FUs' \in [Units -> Unit]
      BY <2>0, <2>4 DEF pipeline_flush
    <3>2. CDB' \in {EmptyBus} \cup Bus
      BY <2>0, <2>3 DEF CoreTypes
    <3>3. \A j \in 1 .. p : w2[j].instr \in Word
      <4>1. \A j \in 1 .. n : w[j].instr \in Word
        BY <2>0 DEF CoreTypes, w, n
      <4>2. \A j \in 1 .. p : j \in 1 .. n
        BY <2>1
      <4> QED BY <2>1, <4>1, <4>2
    <3> QED BY <2>0, <2>1, <2>3, <2>12, <2>13, <3>1, <3>2, <3>3 DEF CoreTypes, Stages, Table, w2, n
  <2>15. ASSUME NEW i \in Busy' PROVE StationIs(code, w2, regs, p, RS_store'[i])
    <3>1. i \in Busy /\ ~is_rob_younger(RS_store[i].rd_rob, t) /\ RS_store'[i] = RS_store[i]
      BY <2>2 DEF t
    <3>2. StationIs(code, w, regs, n, RS_store[i])
      BY <3>1 DEF CoreInv, PartsAreRight, w, regs, n
    <3>3. \A k \in 1 .. p : w2[k].ready <=> w[k].ready
      BY <2>1
    <3> QED BY <2>1, <2>9, <3>1, <3>2, <3>3, StationStays
  <2>16. ASSUME NEW u \in Units, FUs'[u].input.valid PROVE InputIs(code, w2, regs, p, u, FUs'[u].input)
    <3>1. FUs[u].input.valid /\ ~is_rob_younger(FUs[u].input.rob_tag, t) /\ FUs'[u].input = FUs[u].input
      BY <2>4, <2>16 DEF t
    <3>2. InputIs(code, w, regs, n, u, FUs[u].input)
      BY <3>1 DEF CoreInv, PartsAreRight, w, regs, n
    <3> QED BY <2>1, <2>9, <3>1, <3>2, InputStays
  <2>17. ASSUME NEW u \in Units, FUs'[u].output.valid
         PROVE  ResultIs(code, w2, regs, p, FUs'[u].output.rob_tag, FUs'[u].output.value)
    <3>1. FUs[u].output.valid /\ ~is_rob_younger(FUs[u].output.rob_tag, t) /\ FUs'[u].output = FUs[u].output
      BY <2>4, <2>17 DEF t
    <3>2. ResultIs(code, w, regs, n, FUs[u].output.rob_tag, FUs[u].output.value)
      BY <3>1 DEF CoreInv, PartsAreRight, w, regs, n
    <3> QED BY <2>1, <2>9, <3>1, <3>2, ResultStays
  <2>18. ASSUME ~CDB'.empty PROVE ResultIs(code, w2, regs, p, CDB'.rob_tag, CDB'.value)
    <3>1. ~CDB.empty /\ ~is_rob_younger(CDB.rob_tag, t) /\ CDB' = CDB
      BY <2>5, <2>18 DEF t
    <3>2. ResultIs(code, w, regs, n, CDB.rob_tag, CDB.value)
      BY <3>1 DEF CoreInv, PartsAreRight, w, regs, n
    <3> QED BY <2>1, <2>9, <3>1, <3>2, ResultStays
  <2>19. CompleteAre(code, w2, regs, p)
    <3>1. CompleteAre(code, w, regs, n)
      BY DEF CoreInv, PartsAreRight, w, regs, n
    <3>2. \A j \in 1 .. p : w2[j].ready => w[j].ready
      BY <2>1
    <3> QED BY <2>1, <3>1, <3>2, CompleteStay
  <2>20. ASSUME NEW i \in CheckpointIndex, checkpoints'[i].valid
         PROVE  SavedIs(code, w2, p, checkpoints'[i].rob_tag, checkpoints'[i].rat)
    <3>1. checkpoints'[i] = checkpoints[i] /\ ~is_rob_younger(checkpoints[i].rob_tag, t)
      BY <2>13, <2>20
    <3>2. SavedIs(code, w, n, checkpoints[i].rob_tag, checkpoints[i].rat)
      BY <2>20, <3>1 DEF CoreInv, PartsAreRight, w, n
    <3> QED BY <2>1, <2>9, <3>1, <3>2, SavedStays
  <2>21. PartsAreRight'
    BY <2>1, <2>3, <2>12, <2>15, <2>16, <2>17, <2>18, <2>19, <2>20 DEF PartsAreRight, w2, regs
  <2>22. FlushIsRight'
    BY <2>3 DEF FlushIsRight
  <2>23. CarriersAreRight'
    <3>1. Alone(Carriers')
      BY <2>11, CarriersGo DEF CoreInv, CarriersAreRight
    <3>2. ASSUME NEW j \in 1 .. p, ~w2[j].ready PROVE \E c \in Carriers' : c[3] = w2[j].tag
      <4>1. w2[j] = w[j] /\ j \in 1 .. n /\ ~(j > p)
        BY <2>1
      <4>2. PICK c \in Carriers : c[3] = w[j].tag
        BY <3>2, <4>1 DEF CoreInv, CarriersAreRight, w, n
      <4>3. ~is_rob_younger(c[3], t)
        BY <2>1, <4>1, <4>2 DEF w, t, n
      <4> QED BY <2>11, <4>1, <4>2, <4>3 DEF t
    <3> QED BY <2>1, <3>1, <3>2 DEF CarriersAreRight, w2
  <2>24. CheckpointsAreRight'
    BY <2>13 DEF CheckpointsAreRight
  <2> QED BY <1>2, <2>1, <2>2, <2>10, <2>14, <2>21, <2>22, <2>23, <2>24 DEF t
<1> QED BY <1>1, <1>2

(***************************************************************************)
(* The bus takes a result.                                                 *)
(***************************************************************************)
(* The bus takes the result of a unit that has one. *)
LEMMA FirstIs ==
    ASSUME NEW us \in SUBSET Units, us # {}
    PROVE  first_of(us) \in us
<1>1. \E u \in us : u = "ALU" \/ (u = "BRU" /\ "ALU" \notin us) \/ us = {"SFU"}
  BY DEF Units
<1> QED BY <1>1, Zenon DEF first_of

(* The bus keeps the back end right. *)
LEMMA BusInv ==
    ASSUME CoreInv, bus
    PROVE  /\ IInv' /\ RSInv' /\ CoreTypes' /\ PartsAreRight' /\ FlushIsRight'
           /\ CarriersAreRight' /\ CheckpointsAreRight' /\ OpenBranches' = OpenBranches
           /\ Items' = Items /\ count' = count
<1>0. ~flush.pending /\ stage' = "schedule"
  BY DEF CoreInv, FlushIsRight, bus
<1>1. CASE ~(CDB.empty /\ Finished # {})
  <2>1. UNCHANGED <<code, renaming, ROB, RS_vars, FUs, CDB, flush, back>>
    BY <1>1 DEF bus
  <2> QED BY <1>0, <2>1, BackStays DEF bus, Stages
<1>2. CASE CDB.empty /\ Finished # {}
  <2> DEFINE u == first_of(Finished)
             out == FUs[u].output
  <2>1. u \in Units /\ out.valid
    <3>1. Finished \in SUBSET Units
      BY DEF Finished
    <3>2. u \in Finished
      BY <1>2, <3>1, FirstIs
    <3> HIDE DEF u
    <3> QED BY <3>2 DEF Finished, fu_empty
  <2>2. /\ CDB' = [empty |-> FALSE, rob_tag |-> out.rob_tag, value |-> out.value]
        /\ FUs' = [FUs EXCEPT ![u] = fu_pop(@)]
    BY <1>2 DEF bus
  <2> HIDE DEF u
  <2>3. FUs[u] \in Unit /\ out \in Output /\ FUs \in [Units -> Unit]
    BY <2>1 DEF CoreInv, CoreTypes, Unit, NoOutput
  <2>4. /\ ~CDB'.empty /\ CDB'.rob_tag = out.rob_tag /\ CDB'.value = out.value /\ CDB' \in Bus
    <3>1. out.rob_tag \in Tag /\ out.value \in Word
      BY <2>3 DEF Output
    <3> HIDE DEF out
    <3>2. [empty |-> FALSE, rob_tag |-> out.rob_tag, value |-> out.value] \in Bus
      BY <3>1 DEF Bus
    <3> QED BY <2>2, <3>2
  <2>5. /\ ~FUs'[u].output.valid /\ FUs'[u].input = FUs[u].input /\ FUs'[u] \in Unit
        /\ \A v \in Units : v # u => FUs'[v] = FUs[v]
    <3>1. FUs'[u] = fu_pop(FUs[u]) /\ \A v \in Units : v # u => FUs'[v] = FUs[v]
      BY <2>1, <2>2, <2>3
    <3>2. ~NoOutput.valid
      BY DEF NoOutput
    <3> QED BY <2>3, <3>1, <3>2 DEF fu_pop, Unit
  <2>6. /\ code' = code /\ reg_file' = reg_file /\ exited' = exited /\ RAT' = RAT /\ checkpoints' = checkpoints
        /\ flush' = flush
    BY DEF bus, renaming, back
  <2>7. IInv' /\ Items' = Items /\ count' = count
    BY RingUnchanged DEF CoreInv, bus
  <2>8. RSInv' /\ Busy' = Busy /\ RS_store' = RS_store
    BY StationsUnchanged DEF CoreInv, bus
  <2>9. CoreTypes'
    <3>1. FUs' \in [Units -> Unit]
      <4>1. \A v \in Units : FUs'[v] \in Unit
        BY <2>3, <2>5
      <4> QED BY <2>2, <2>3, <4>1
    <3> QED BY <1>0, <2>4, <2>6, <2>7, <3>1 DEF CoreInv, CoreTypes, Stages
  <2>10. PartsAreRight'
    <3>1. ASSUME NEW v \in Units, FUs'[v].input.valid
          PROVE  InputIs(code, Items, reg_file, count, v, FUs'[v].input)
      <4>1. FUs'[v].input = FUs[v].input
        BY <2>5
      <4> QED BY <3>1, <4>1 DEF CoreInv, PartsAreRight
    <3>2. ASSUME NEW v \in Units, FUs'[v].output.valid
          PROVE  ResultIs(code, Items, reg_file, count, FUs'[v].output.rob_tag, FUs'[v].output.value)
      <4>1. FUs'[v] = FUs[v]
        BY <2>5, <3>2
      <4> QED BY <3>2, <4>1 DEF CoreInv, PartsAreRight
    <3>3. ResultIs(code, Items, reg_file, count, CDB'.rob_tag, CDB'.value)
      BY <2>1, <2>4 DEF CoreInv, PartsAreRight
    <3> QED BY <2>6, <2>7, <2>8, <3>1, <3>2, <3>3 DEF CoreInv, PartsAreRight
  <2>11. FlushIsRight'
    BY <1>0, <2>6 DEF FlushIsRight
  <2> DEFINE old == <<"output", u, out.rob_tag>>
             new == <<"bus", 0, out.rob_tag>>
  <2>12. old \in Carriers /\ new \in Carriers' /\ new[3] = old[3]
    BY <2>1, <2>4, CarrierMembers
  <2>13. \A d : d \in Carriers' <=> d = new \/ (d \in Carriers /\ d # old)
    <3> SUFFICES ASSUME NEW d PROVE d \in Carriers' <=> d = new \/ (d \in Carriers /\ d # old)
      OBVIOUS
    <3>1. (\E v \in Units : FUs'[v].input.valid /\ d = <<"input", v, FUs'[v].input.rob_tag>>) <=>
          (\E v \in Units : FUs[v].input.valid /\ d = <<"input", v, FUs[v].input.rob_tag>>)
      BY <2>5
    <3>2. (\E v \in Units : FUs'[v].output.valid /\ d = <<"output", v, FUs'[v].output.rob_tag>>) <=>
          (\E v \in Units : FUs[v].output.valid /\ d = <<"output", v, FUs[v].output.rob_tag>>) /\ d # old
      <4>1. ASSUME NEW v \in Units, FUs'[v].output.valid, d = <<"output", v, FUs'[v].output.rob_tag>>
            PROVE  FUs[v].output.valid /\ d = <<"output", v, FUs[v].output.rob_tag>> /\ d # old
        <5>1. v # u
          BY <2>5, <4>1
        <5>2. d[2] = v /\ old[2] = u
          BY <4>1
        <5> QED BY <2>5, <4>1, <5>1, <5>2
      <4>2. ASSUME NEW v \in Units, FUs[v].output.valid, d = <<"output", v, FUs[v].output.rob_tag>>, d # old
            PROVE  FUs'[v].output.valid /\ d = <<"output", v, FUs'[v].output.rob_tag>>
        <5>1. v # u
          BY <4>2
        <5> QED BY <2>5, <4>2, <5>1
      <4> QED BY <4>1, <4>2
    <3>3. /\ \A i, s : <<"station", i, s>> # old /\ <<"input", i, s>> # old
      OBVIOUS
    <3> HIDE DEF old
    <3> QED BY <1>2, <2>4, <2>8, <3>1, <3>2, <3>3, CarrierMembers
  <2>14. CarriersAreRight'
    <3>1. Alone(Carriers')
      <4>1. \A d \in Carriers' : d = new \/ (d \in Carriers /\ d # old)
        BY <2>13
      <4> HIDE DEF old, new
      <4> QED BY <2>12, <4>1, CarrierMoves DEF CoreInv, CarriersAreRight
    <3>2. \A c \in Carriers : \E d \in Carriers' : d[3] = c[3]
      BY <2>12, <2>13
    <3> QED BY <2>7, <3>1, <3>2 DEF CoreInv, CarriersAreRight
  <2>15. OpenBranches' = OpenBranches
    <3>1. \A i \in Busy : unit_of(i)' = unit_of(i)
      BY <2>6, <2>8 DEF unit_of
    <3>2. FUs'["BRU"].input = FUs["BRU"].input
      BY <2>5 DEF Units
    <3>3. \A s : s \in OpenBranches' <=> s \in OpenBranches
      BY <2>6, <2>8, <3>1, <3>2, OpenMembers
    <3> QED BY <3>3
  <2>16. CheckpointsAreRight'
    BY <2>6, <2>15 DEF CoreInv, CheckpointsAreRight
  <2> QED BY <2>7, <2>8, <2>9, <2>10, <2>11, <2>14, <2>15, <2>16
<1> QED BY <1>1, <1>2

(***************************************************************************)
(* An instruction that has its operands goes from its station to its unit. *)
(***************************************************************************)
(* An operand that waits for nothing is there. *)
LEMMA ReadyIs ==
    ASSUME NEW c, NEW w, NEW regs, NEW n \in Nat, NEW p \in 1 .. n, TagsDiffer(w, n),
           NEW used, NEW r, NEW waits, NEW data, waits = INVALID_ROB,
           OperandIs(c, w, regs, p, used, r, waits, data)
    PROVE  Holds(c, w, regs, p, used, r, data)
<1> SUFFICES ASSUME Awaits(c, w, p, used, r, waits) PROVE FALSE
  BY DEF OperandIs
<1>1. PICK k \in 1 .. p - 1 : waits = w[k].tag
  BY DEF Awaits
<1>2. k \in 1 .. n
  OBVIOUS
<1> QED BY <1>1, <1>2 DEF TagsDiffer

(* A unit gets what is pushed. *)
LEMMA PushIs ==
    ASSUME NEW fu \in Unit, NEW instr \in Word, NEW t \in Tag, NEW v1 \in Word, NEW v2 \in Word,
           NEW fu2, fu2 = fu_push(fu, instr, t, v1, v2)
    PROVE  /\ fu2 \in Unit /\ fu2.output = fu.output /\ fu2.input.valid
           /\ fu2.input.instr = instr /\ fu2.input.rob_tag = t
           /\ fu2.input.rs1_value = v1 /\ fu2.input.rs2_value = v2
<1> DEFINE in == [valid |-> TRUE, instr |-> instr, rob_tag |-> t, rs1_value |-> v1, rs2_value |-> v2]
<1>1. in \in Input
  BY DEF Input
<1>2. fu2 = [input |-> in, output |-> fu.output, cycles |-> 0] /\ fu.output \in {NoOutput} \cup Output
  BY DEF fu_push, Unit
<1>3. fu2 \in Unit
  BY <1>1, <1>2 DEF Unit
<1> QED BY <1>2, <1>3

(* release frees one station. *)
LEMMA StationFreed ==
    ASSUME RSInv, NEW index \in Station, RS_release(index)
    PROVE  /\ RSInv' /\ index \in Busy /\ RS_store[index] \in Held
           /\ \A i : i \in Busy' <=> i \in Busy /\ i # index
           /\ \A i \in Busy' : RS_store'[i] = RS_store[i]
<1>1. RSInv'
  BY ReleaseRSInv
<1>2. index \in Busy /\ ~NoInstrHeld.valid
  BY DEF RS_release, NoInstrHeld
<1>3. RS_store[index] \in Held
  BY <1>2 DEF RSInv, Typed, Busy
<1>4. \A i \in Station : RS_store'[i] = IF i = index THEN NoInstrHeld ELSE RS_store[i]
  BY DEF RS_release, RSInv, Typed
<1>5. \A i : i \in Busy' <=> i \in Busy /\ i # index
  BY <1>2, <1>4 DEF Busy
<1> QED BY <1>1, <1>2, <1>3, <1>4, <1>5 DEF Busy

(* Scheduling keeps the back end right. *)
LEMMA ScheduleInv ==
    ASSUME CoreInv, NEW index \in Station, schedule(index)
    PROVE  /\ IInv' /\ RSInv' /\ CoreTypes' /\ PartsAreRight' /\ FlushIsRight'
           /\ CarriersAreRight' /\ CheckpointsAreRight' /\ OpenBranches' = OpenBranches
           /\ Items' = Items /\ count' = count
<1> DEFINE e == RS_store[index]
           u == unit_of(index)
<1>0. ~flush.pending /\ stage' = "schedule" /\ stage = "schedule"
  BY DEF CoreInv, FlushIsRight, schedule
<1>1. operands_ready(index) /\ ~FUs[u].input.valid /\ RS_release(index)
      /\ FUs' = [FUs EXCEPT ![u] = fu_push(@, e.instr, e.rd_rob, e.rs1_data, e.rs2_data)]
  BY DEF schedule, Schedulable, fu_full
<1>2. /\ RSInv' /\ index \in Busy /\ e \in Held
      /\ \A i : i \in Busy' <=> i \in Busy /\ i # index
      /\ \A i \in Busy' : RS_store'[i] = RS_store[i]
  BY <1>1, StationFreed DEF CoreInv
<1>3. /\ e.instr \in Word /\ e.rd_rob \in Tag /\ e.rs1_data \in Word /\ e.rs2_data \in Word
      /\ e.rs1_rob = INVALID_ROB /\ e.rs2_rob = INVALID_ROB
  BY <1>1, <1>2, CoreAssumption DEF Held, operands_ready
<1>4. u \in Units /\ u = FUType(code[e.instr]) /\ FUs \in [Units -> Unit]
  BY UnitOf DEF unit_of, CoreInv, CoreTypes
<1> HIDE DEF e, u
<1>5. /\ FUs'[u] \in Unit /\ FUs'[u].output = FUs[u].output /\ FUs'[u].input.valid
      /\ FUs'[u].input.instr = e.instr /\ FUs'[u].input.rob_tag = e.rd_rob
      /\ FUs'[u].input.rs1_value = e.rs1_data /\ FUs'[u].input.rs2_value = e.rs2_data
      /\ \A v \in Units : v # u => FUs'[v] = FUs[v]
  <2>1. FUs'[u] = fu_push(FUs[u], e.instr, e.rd_rob, e.rs1_data, e.rs2_data) /\ FUs[u] \in Unit
        /\ \A v \in Units : v # u => FUs'[v] = FUs[v]
    BY <1>1, <1>4
  <2> QED BY <1>3, <2>1, PushIs, SMTT(60)
<1>6. /\ code' = code /\ reg_file' = reg_file /\ exited' = exited /\ RAT' = RAT /\ checkpoints' = checkpoints
      /\ flush' = flush /\ CDB' = CDB
  BY DEF schedule, renaming, back
<1>7. IInv' /\ Items' = Items /\ count' = count
  BY RingUnchanged DEF CoreInv, schedule
<1>8. CoreTypes'
  <2>1. FUs' \in [Units -> Unit]
    <3>1. \A v \in Units : FUs'[v] \in Unit
      BY <1>4, <1>5
    <3> QED BY <1>1, <1>4, <3>1
  <2> QED BY <1>0, <1>6, <1>7, <2>1 DEF CoreInv, CoreTypes, Stages
<1>9. PartsAreRight'
  <2>1. InputIs(code, Items, reg_file, count, u, FUs'[u].input)
    <3>1. PICK p \in 1 .. count :
            /\ Items[p].tag = e.rd_rob /\ Items[p].instr = e.instr /\ ~Items[p].ready
            /\ OperandIs(code, Items, reg_file, p, use_rs1(code[e.instr]), code[e.instr].rs1, e.rs1_rob, e.rs1_data)
            /\ OperandIs(code, Items, reg_file, p, use_rs2(code[e.instr]), code[e.instr].rs2, e.rs2_rob, e.rs2_data)
      BY <1>2, Zenon DEF CoreInv, PartsAreRight, StationIs, e
    <3>2. TagsDiffer(Items, count) /\ count \in Nat
      BY WindowFacts DEF CoreInv
    <3>3. Sources(code, Items, reg_file, p, e.rs1_data, e.rs2_data)
      BY <1>3, <3>1, <3>2, ReadyIs DEF Sources
    <3> QED BY <1>4, <1>5, <3>1, <3>3 DEF InputIs
  <2>2. ASSUME NEW v \in Units, FUs'[v].input.valid
        PROVE  InputIs(code, Items, reg_file, count, v, FUs'[v].input)
    <3>1. v # u => FUs'[v] = FUs[v]
      BY <1>5
    <3> QED BY <2>1, <2>2, <3>1 DEF CoreInv, PartsAreRight
  <2>3. ASSUME NEW v \in Units, FUs'[v].output.valid
        PROVE  ResultIs(code, Items, reg_file, count, FUs'[v].output.rob_tag, FUs'[v].output.value)
    <3>1. FUs'[v].output = FUs[v].output
      BY <1>5
    <3> QED BY <2>3, <3>1 DEF CoreInv, PartsAreRight
  <2>4. \A i \in Busy' : StationIs(code, Items, reg_file, count, RS_store'[i])
    BY <1>2 DEF CoreInv, PartsAreRight
  <2> QED BY <1>6, <1>7, <2>2, <2>3, <2>4 DEF CoreInv, PartsAreRight
<1>10. FlushIsRight'
  BY <1>0, <1>6 DEF FlushIsRight
<1> DEFINE old == <<"station", index, e.rd_rob>>
           new == <<"input", u, e.rd_rob>>
<1>11. old \in Carriers /\ new \in Carriers' /\ new[3] = old[3]
  BY <1>2, <1>4, <1>5, CarrierMembers DEF e
<1>12. \A d : d \in Carriers' <=> d = new \/ (d \in Carriers /\ d # old)
  <2> SUFFICES ASSUME NEW d PROVE d \in Carriers' <=> d = new \/ (d \in Carriers /\ d # old)
    OBVIOUS
  <2>1. (\E v \in Units : FUs'[v].output.valid /\ d = <<"output", v, FUs'[v].output.rob_tag>>) <=>
        (\E v \in Units : FUs[v].output.valid /\ d = <<"output", v, FUs[v].output.rob_tag>>)
    BY <1>5
  <2>2. (\E v \in Units : FUs'[v].input.valid /\ d = <<"input", v, FUs'[v].input.rob_tag>>) <=>
        (\E v \in Units : FUs[v].input.valid /\ d = <<"input", v, FUs[v].input.rob_tag>>) \/ d = new
    BY <1>1, <1>4, <1>5
  <2>3. (\E i \in Busy' : d = <<"station", i, RS_store'[i].rd_rob>>) <=>
        (\E i \in Busy : d = <<"station", i, RS_store[i].rd_rob>>) /\ d # old
    <3>1. ASSUME NEW i \in Busy', d = <<"station", i, RS_store'[i].rd_rob>>
          PROVE  i \in Busy /\ d = <<"station", i, RS_store[i].rd_rob>> /\ d # old
      <4>1. d[2] = i /\ old[2] = index
        BY <3>1
      <4> QED BY <1>2, <3>1, <4>1
    <3>2. ASSUME NEW i \in Busy, d = <<"station", i, RS_store[i].rd_rob>>, d # old
          PROVE  i \in Busy' /\ d = <<"station", i, RS_store'[i].rd_rob>>
      <4>1. i # index
        BY <3>2 DEF e
      <4> QED BY <1>2, <3>2, <4>1
    <3> QED BY <3>1, <3>2
  <2>4. /\ \A i, s : <<"output", i, s>> # old /\ <<"input", i, s>> # old /\ <<"bus", i, s>> # old
    OBVIOUS
  <2> HIDE DEF old, new
  <2> QED BY <1>6, <2>1, <2>2, <2>3, <2>4, CarrierMembers
<1>13. CarriersAreRight'
  <2>1. Alone(Carriers')
    <3>1. \A d \in Carriers' : d = new \/ (d \in Carriers /\ d # old)
      BY <1>12
    <3> HIDE DEF old, new
    <3> QED BY <1>11, <3>1, CarrierMoves DEF CoreInv, CarriersAreRight
  <2>2. \A c \in Carriers : \E d \in Carriers' : d[3] = c[3]
    BY <1>11, <1>12
  <2> QED BY <1>7, <2>1, <2>2 DEF CoreInv, CarriersAreRight
<1>14. OpenBranches' = OpenBranches
  <2>1. \A i \in Busy' : unit_of(i)' = unit_of(i)
    BY <1>2, <1>6 DEF unit_of
  <2>2. "BRU" \in Units
    BY DEF Units
  <2>3. CASE u # "BRU"
    <3>1. FUs'["BRU"] = FUs["BRU"]
      BY <1>5, <2>2, <2>3
    <3>2. unit_of(index) # "BRU"
      BY <2>3 DEF u
    <3>3. \A s : s \in OpenBranches' <=> s \in OpenBranches
      BY <1>2, <1>6, <2>1, <3>1, <3>2, OpenMembers
    <3> QED BY <3>3
  <2>4. CASE u = "BRU"
    <3>1. /\ ~FUs["BRU"].input.valid /\ FUs'["BRU"].input.valid
          /\ FUs'["BRU"].input.rob_tag = RS_store[index].rd_rob /\ unit_of(index) = "BRU"
      BY <1>1, <1>5, <2>4 DEF u, e
    <3>2. \A s : s \in OpenBranches' <=> s \in OpenBranches
      BY <1>2, <1>6, <2>1, <3>1, OpenMembers
    <3> QED BY <3>2
  <2> QED BY <2>3, <2>4
<1>15. CheckpointsAreRight'
  BY <1>6, <1>14 DEF CoreInv, CheckpointsAreRight
<1> QED BY <1>2, <1>7, <1>8, <1>9, <1>10, <1>13, <1>14, <1>15

(***************************************************************************)
(* issue: an instruction comes into the window and into a station.         *)
(***************************************************************************)
issuing == ~fifo_empty(issue_queue) /\ ~structural_hazard

(* What is read of the alias table, the register file and the buffer. *)
LEMMA OperandRead ==
    ASSUME CoreInv, NEW w2, Stay(Items, w2, count),
           \A j \in 1 .. count : w2[j] = Items[j],
           NEW used \in BOOLEAN, NEW r \in Reg
    PROVE  /\ OperandIs(code, w2, reg_file, count + 1, used, r, waits_for(used, r), operand(used, r))
           /\ waits_for(used, r) \in Operand /\ operand(used, r) \in Word
<1> DEFINE waits == waits_for(used, r)
           data == operand(used, r)
           n == count
<1>0. n \in Nat /\ IInv /\ CoreTypes /\ TagsDiffer(Items, n) /\ (n + 1) - 1 = n /\ 0 \in Word
  BY WindowFacts, WordFacts DEF CoreInv
<1>1. PICK k \in 0 .. n : IsLast(code, Items, r, n, k)
  BY <1>0, LastExists
<1>2. RAT[r] = Named(Items, k)
  BY <1>1 DEF CoreInv, PartsAreRight, TableIs
<1>3. IsLast(code, w2, r, n, k)
  BY <1>0, <1>1, LastStays
<1>4. CASE ~used
  <2>1. waits = INVALID_ROB /\ data = 0
    BY <1>4 DEF waits_for, operand
  <2> QED BY <1>0, <1>4, <2>1 DEF OperandIs, Holds, Operand
<1>5. CASE used /\ k = 0
  <2>1. RAT[r] = INVALID_ROB
    BY <1>2, <1>5 DEF Named
  <2>2. waits = INVALID_ROB /\ data = reg_file[r]
    BY <1>5, <2>1 DEF waits_for, operand, exists
  <2>3. data \in Word
    BY <1>0, <2>2 DEF CoreTypes
  <2>4. Reads(code, w2, reg_file, n + 1, r, data)
    BY <1>0, <1>3, <1>5, <2>2 DEF Reads
  <2> HIDE DEF waits, data
  <2>5. OperandIs(code, w2, reg_file, n + 1, used, r, waits, data)
    BY <1>5, <2>2, <2>4 DEF OperandIs, Holds
  <2>6. waits \in Operand
    BY <2>2 DEF Operand
  <2> QED BY <2>3, <2>5, <2>6 DEF waits, data
<1>6. CASE used /\ k # 0
  <2>1. k \in 1 .. n
    BY <1>0, <1>6
  <2>2. /\ RAT[r] = Items[k].tag /\ RAT[r] # INVALID_ROB /\ RAT[r] \in Tag
        /\ at_tag(RAT[r]).ready = Items[k].ready /\ at_tag(RAT[r]).result = Items[k].result
    <3>1. RAT[r] = Items[k].tag
      BY <1>2, <1>6 DEF Named
    <3>2. at_tag(Items[k].tag) = store[Slot(k - 1)] /\ Items[k].tag \in Tag
          /\ Items[k].ready = store[Slot(k - 1)].ready /\ Items[k].result = store[Slot(k - 1)].result
      BY <1>0, <2>1, PlaceFacts, TagFacts
    <3>3. Items[k].tag # INVALID_ROB
      BY <1>0, <2>1 DEF TagsDiffer
    <3> QED BY <3>1, <3>2, <3>3
  <2>3. CASE ~Items[k].ready
    <3>1. waits = Items[k].tag /\ waits \in Tag /\ waits # INVALID_ROB
      BY <1>6, <2>2, <2>3 DEF waits_for, exists
    <3>2. data = 0
      BY <2>2, <3>1 DEF operand, exists
    <3>3. w2[k] = Items[k]
      BY <2>1
    <3>4. Awaits(code, w2, n + 1, used, r, waits)
      BY <1>0, <1>3, <1>6, <2>1, <2>3, <3>1, <3>3 DEF Awaits
    <3> QED BY <1>0, <3>1, <3>2, <3>4 DEF OperandIs, Operand
  <2>4. CASE Items[k].ready
    <3>1. waits = INVALID_ROB /\ data = Items[k].result
      BY <1>6, <2>2, <2>4 DEF waits_for, operand, exists
    <3>2. data \in Word
      <4>1. Gives(code, Items, reg_file, k, Items[k].result) /\ Items[k].instr \in Word
        BY <1>0, <2>1, <2>4 DEF CoreInv, PartsAreRight, CompleteAre, CoreTypes
      <4>2. PICK v1 \in Word, v2 \in Word : Items[k].result = Outcome(code, Items[k].instr, v1, v2)
        BY <4>1, Zenon DEF Gives
      <4>3. Outcome(code, Items[k].instr, v1, v2) \in Word
        BY <1>0, <4>1, OutcomeIsWord
      <4> QED BY <3>1, <4>2, <4>3
    <3>3. w2[k] = Items[k]
      BY <2>1
    <3>4. Reads(code, w2, reg_file, n + 1, r, data)
      BY <1>0, <1>3, <1>6, <2>4, <3>1, <3>3 DEF Reads
    <3> HIDE DEF waits, data
    <3>5. OperandIs(code, w2, reg_file, n + 1, used, r, waits, data)
      BY <1>6, <3>1, <3>4 DEF OperandIs, Holds
    <3>6. waits \in Operand
      BY <3>1 DEF Operand
    <3> QED BY <3>2, <3>5, <3>6 DEF waits, data
  <2> QED BY <2>3, <2>4
<1> QED BY <1>4, <1>5, <1>6

(* issue takes a free station. *)
LEMMA StationTaken ==
    ASSUME RSInv, NEW entry \in Held, RS_issue(entry)
    PROVE  /\ RSInv'
           /\ \E index \in Station \ Busy :
                 /\ \A i : i \in Busy' <=> i \in Busy \/ i = index
                 /\ RS_store'[index] = entry
                 /\ \A i \in Busy : RS_store'[i] = RS_store[i]
<1> DEFINE index == RS_indices[RS_next_index]
<1>1. RS_next_index \in 0 .. NUM_RSS - 1 /\ index \in Station /\ index \notin Busy
  BY NumRssAssumption DEF RSInv, Typed, AboveIsFree, Above, RS_issue, RS_full, Station
<1>2. RS_store' = [RS_store EXCEPT ![index] = entry]
  BY DEF RS_issue
<1> HIDE DEF index
<1>3. RS_store'[index] = entry /\ \A i \in Station : i # index => RS_store'[i] = RS_store[i]
  BY <1>1, <1>2 DEF RSInv, Typed
<1>4. entry.valid
  BY DEF Held
<1>5. \A i : i \in Busy' <=> i \in Busy \/ i = index
  BY <1>1, <1>3, <1>4 DEF Busy
<1>6. \A i \in Busy : RS_store'[i] = RS_store[i]
  BY <1>1, <1>3 DEF Busy
<1> QED BY <1>1, <1>3, <1>5, <1>6, IssueRSInv

(* What is issued. *)
LEMMA IssuedIs ==
    ASSUME CoreInv, stage = "issue", ~fifo_empty(issue_queue)
    PROVE  /\ issue_queue.pushed = <<>> /\ ~issue_queue.popped
           /\ fifo_data(issue_queue) \in Word /\ issue_queue.buffer = <<fifo_data(issue_queue)>>
<1>1. issue_queue \in Fifo /\ issue_queue.pushed = <<>> /\ ~issue_queue.popped
  BY DEF CoreInv, QueuesAreRight, QueueIs
<1>2. issue_queue.buffer # <<>>
  BY <1>1 DEF fifo_empty
<1>3. PICK pc \in Word : issue_queue.buffer = <<pc>>
  BY <1>1, <1>2 DEF Fifo, Pcs
<1>4. fifo_data(issue_queue) = pc
  BY <1>3 DEF fifo_data
<1> QED BY <1>1, <1>3, <1>4

IssuedEntry(pc) ==
    LET instr == code[pc]
    IN  [valid |-> TRUE, rd_rob |-> next_tag, instr |-> pc,
         rs1_rob  |-> waits_for(use_rs1(instr), instr.rs1),
         rs2_rob  |-> waits_for(use_rs2(instr), instr.rs2),
         rs1_data |-> operand(use_rs1(instr), instr.rs1),
         rs2_data |-> operand(use_rs2(instr), instr.rs2)]

(* The window has the instruction as its last item, and the tables know. *)
LEMMA IssueWindow ==
    ASSUME CoreInv, stage = "issue", NEW pc \in Word, allocate(pc),
           RAT' = IF writes(code[pc]) THEN rat_set(RAT, code[pc].rd, next_tag) ELSE RAT,
           IF is_branch(code[pc])
           THEN free(checkpoints) # {} /\ checkpoints' = save(checkpoints, next_tag, RAT')
           ELSE UNCHANGED checkpoints
    PROVE  /\ IInv' /\ count' = count + 1 /\ count \in Nat /\ next_tag \in Tag
           /\ \A j \in 1 .. count : Items'[j] = Items[j]
           /\ Stay(Items, Items', count)
           /\ \A s : Remains(Items, Items', count, count, s) /\ Incomplete(Items, Items', count, s)
           /\ Items'[count + 1] = [tag |-> next_tag, instr |-> pc, ready |-> FALSE, result |-> NULL]
           /\ \A c \in Carriers : c[3] # next_tag
           /\ RAT' \in [Reg -> Operand] /\ TableIs(code, Items', RAT', count + 1)
           /\ checkpoints' \in Table
           /\ SavedAt(checkpoints', OpenBranches \cup (IF is_branch(code[pc]) THEN {next_tag} ELSE {}))
           /\ \A i \in CheckpointIndex : checkpoints'[i].valid =>
                 SavedIs(code, Items', count + 1, checkpoints'[i].rob_tag, checkpoints'[i].rat)
<1> DEFINE n == count
           w == Items
           w2 == Items'
           new == [tag |-> next_tag, instr |-> pc, ready |-> FALSE, result |-> NULL]
<1>0. IInv /\ n \in Nat /\ checkpoints \in Table /\ RAT \in [Reg -> Operand] /\ code[pc] \in Instruction(Reg)
      /\ SavedAt(checkpoints, OpenBranches)
  BY WindowFacts, CodeFacts DEF CoreInv, CoreTypes, Table, CheckpointsAreRight
<1>1. /\ IInv' /\ count' = n + 1 /\ next_tag \in Tag
      /\ \A j \in 1 .. n : w2[j] = w[j]
      /\ w2[n + 1] = new
      /\ \A j \in 1 .. n : w[j].tag # next_tag
  BY <1>0, Allocated, CoreAssumption
<1> HIDE DEF w, w2
<1>2. Stay(w, w2, n) /\ \A s : Remains(w, w2, n, n, s) /\ Incomplete(w, w2, n, s)
  <2>1. Stay(w, w2, n)
    BY <1>1 DEF Stay
  <2>2. \A j \in 1 .. n : j <= n
    BY <1>0
  <2>3. \A s : Remains(w, w2, n, n, s)
    BY <2>1, <2>2 DEF Remains
  <2>4. \A s : Incomplete(w, w2, n, s)
    BY <1>1 DEF Incomplete
  <2> QED BY <2>1, <2>3, <2>4
<1>3. ASSUME NEW c \in Carriers PROVE c[3] # next_tag
  <2>1. PICK p \in 1 .. n : w[p].tag = c[3]
    BY CarriedIsThere DEF CoreInv, w
  <2> QED BY <1>1, <2>1
<1>4. next_tag \notin OpenBranches
  <2>1. \A t \in OpenBranches : \E c \in Carriers : c[3] = t
    BY OpenIsCarried DEF CoreInv
  <2> QED BY <1>3, <2>1
<1>5. RAT' \in [Reg -> Operand] /\ TableIs(code, w2, RAT', n + 1)
  <2>1. RAT' = IF writes(code[w2[n + 1].instr])
               THEN rat_set(RAT, code[w2[n + 1].instr].rd, w2[n + 1].tag) ELSE RAT
    BY <1>1
  <2>2. TableIs(code, w, RAT, n)
    BY DEF CoreInv, PartsAreRight, w
  <2>3. TableIs(code, w2, RAT', n + 1)
    BY <1>0, <1>2, <2>1, <2>2, TableGrows
  <2>4. RAT' \in [Reg -> Operand]
    BY <1>0, <1>1 DEF rat_set, Operand
  <2> QED BY <2>3, <2>4
<1>6. \A i \in CheckpointIndex : checkpoints[i].valid =>
          SavedIs(code, w2, n + 1, checkpoints[i].rob_tag, checkpoints[i].rat)
  <2>1. n + 1 \in Nat /\ n <= n + 1
    BY <1>0
  <2> QED BY <1>0, <1>2, <2>1, SavedStays DEF CoreInv, PartsAreRight, w
<1>7. CASE is_branch(code[pc])
  <2>1. /\ checkpoints' \in Table
        /\ SavedAt(checkpoints', OpenBranches \cup {next_tag})
        /\ \A i \in CheckpointIndex : checkpoints'[i].valid =>
              \/ checkpoints[i].valid /\ checkpoints'[i] = checkpoints[i]
              \/ checkpoints'[i].rob_tag = next_tag /\ checkpoints'[i].rat = RAT'
    BY <1>0, <1>1, <1>4, <1>5, <1>7, SaveIs
  <2>2. SavedIs(code, w2, n + 1, next_tag, RAT')
    <3>1. n + 1 \in 1 .. n + 1 /\ w2[n + 1].tag = next_tag
      BY <1>0, <1>1
    <3> QED BY <1>5, <3>1 DEF SavedIs
  <2>3. \A i \in CheckpointIndex : checkpoints'[i].valid =>
            SavedIs(code, w2, n + 1, checkpoints'[i].rob_tag, checkpoints'[i].rat)
    BY <1>6, <2>1, <2>2
  <2> QED BY <1>0, <1>1, <1>2, <1>3, <1>5, <1>7, <2>1, <2>3 DEF w, w2
<1>8. CASE ~is_branch(code[pc])
  <2>1. checkpoints' = checkpoints
    BY <1>8
  <2>2. OpenBranches \cup (IF is_branch(code[pc]) THEN {next_tag} ELSE {}) = OpenBranches
    BY <1>8
  <2> QED BY <1>0, <1>1, <1>2, <1>3, <1>5, <1>6, <2>1, <2>2 DEF w, w2
<1> QED BY <1>7, <1>8

(* The entry that is issued waits for, or has, what it reads. *)
LEMMA EntryIs ==
    ASSUME CoreInv, NEW pc \in Word, next_tag \in Tag, NEW w2, Stay(Items, w2, count),
           \A j \in 1 .. count : w2[j] = Items[j],
           w2[count + 1] = [tag |-> next_tag, instr |-> pc, ready |-> FALSE, result |-> NULL]
    PROVE  /\ IssuedEntry(pc) \in Held /\ IssuedEntry(pc).rd_rob = next_tag /\ IssuedEntry(pc).instr = pc
           /\ StationIs(code, w2, reg_file, count + 1, IssuedEntry(pc))
<1> DEFINE i == code[pc]
           e == IssuedEntry(pc)
           n == count
<1>0. n \in Nat /\ i \in Instruction(Reg)
  BY WindowFacts, CodeFacts DEF CoreInv
<1>1. i.rs1 \in Reg /\ i.rs2 \in Reg /\ use_rs1(i) \in BOOLEAN /\ use_rs2(i) \in BOOLEAN
  BY <1>0 DEF Instruction, use_rs1, use_rs2
<1> HIDE DEF i
<1>2. /\ OperandIs(code, w2, reg_file, n + 1, use_rs1(i), i.rs1, waits_for(use_rs1(i), i.rs1), operand(use_rs1(i), i.rs1))
      /\ waits_for(use_rs1(i), i.rs1) \in Operand /\ operand(use_rs1(i), i.rs1) \in Word
  BY <1>1, OperandRead
<1>3. /\ OperandIs(code, w2, reg_file, n + 1, use_rs2(i), i.rs2, waits_for(use_rs2(i), i.rs2), operand(use_rs2(i), i.rs2))
      /\ waits_for(use_rs2(i), i.rs2) \in Operand /\ operand(use_rs2(i), i.rs2) \in Word
  BY <1>1, OperandRead
<1>4. /\ e.valid = TRUE /\ e.rd_rob = next_tag /\ e.instr = pc
      /\ e.rs1_rob = waits_for(use_rs1(i), i.rs1) /\ e.rs2_rob = waits_for(use_rs2(i), i.rs2)
      /\ e.rs1_data = operand(use_rs1(i), i.rs1) /\ e.rs2_data = operand(use_rs2(i), i.rs2)
  BY DEF IssuedEntry, i
<1>5. e \in Held
  BY <1>2, <1>3, CoreAssumption DEF Held, IssuedEntry, i
<1> HIDE DEF e
<1>6. n + 1 \in 1 .. n + 1 /\ w2[n + 1].tag = next_tag /\ w2[n + 1].instr = pc /\ ~w2[n + 1].ready
  BY <1>0
<1>7. /\ OperandIs(code, w2, reg_file, n + 1, use_rs1(code[e.instr]), code[e.instr].rs1, e.rs1_rob, e.rs1_data)
      /\ OperandIs(code, w2, reg_file, n + 1, use_rs2(code[e.instr]), code[e.instr].rs2, e.rs2_rob, e.rs2_data)
  BY <1>2, <1>3, <1>4 DEF i
<1>8. StationIs(code, w2, reg_file, n + 1, e)
  BY <1>4, <1>6, <1>7 DEF StationIs
<1> QED BY <1>4, <1>5, <1>8 DEF e

(* issue keeps the back end right and appends its instruction to the window. *)
LEMMA IssueInv ==
    ASSUME CoreInv, issue
    PROVE  /\ IInv' /\ RSInv' /\ CoreTypes' /\ PartsAreRight' /\ FlushIsRight'
           /\ CarriersAreRight' /\ CheckpointsAreRight'
           /\ ~issuing => OpenBranches' = OpenBranches /\ Items' = Items /\ count' = count
           /\ issuing =>
                 LET pc == fifo_data(issue_queue)
                 IN  /\ pc \in Word /\ count \in Nat /\ count' = count + 1
                     /\ \A j \in 1 .. count : Items'[j] = Items[j]
                     /\ Stay(Items, Items', count)
                     /\ Items'[count + 1] = [tag |-> next_tag, instr |-> pc, ready |-> FALSE, result |-> NULL]
                     /\ OpenBranches' = OpenBranches \cup (IF is_branch(code[pc]) THEN {next_tag} ELSE {})
<1>0. stage = "issue" /\ stage' = "decode" /\ ~flush.pending
  BY DEF issue, CoreInv, FlushIsRight
<1>1. CASE ~issuing
  <2>1. UNCHANGED <<code, renaming, ROB, RS_vars, FUs, CDB, flush, back>>
    BY <1>1 DEF issue, issuing
  <2> QED BY <1>0, <1>1, <2>1, BackStays DEF Stages
<1>2. CASE issuing
  <2> DEFINE pc == fifo_data(issue_queue)
             e == IssuedEntry(pc)
             n == count
             w == Items
             w2 == Items'
             regs == reg_file
             opened == IF is_branch(code[pc]) THEN {next_tag} ELSE {}
  <2>0. IInv /\ RSInv /\ CoreTypes /\ pc \in Word
    BY <1>0, <1>2, IssuedIs DEF CoreInv, issuing
  <2>1. /\ allocate(pc)
        /\ RAT' = IF writes(code[pc]) THEN rat_set(RAT, code[pc].rd, next_tag) ELSE RAT
        /\ IF is_branch(code[pc])
           THEN free(checkpoints) # {} /\ checkpoints' = save(checkpoints, next_tag, RAT')
           ELSE UNCHANGED checkpoints
        /\ RS_issue(e)
    BY <1>2 DEF issue, issuing, IssuedEntry
  <2>2. /\ code' = code /\ reg_file' = reg_file /\ exited' = exited
        /\ flush' = flush /\ CDB' = CDB /\ FUs' = FUs
    BY DEF issue, back
  <2> HIDE DEF pc, e
  <2>3. /\ IInv' /\ count' = n + 1 /\ n \in Nat /\ next_tag \in Tag
        /\ \A j \in 1 .. n : w2[j] = w[j]
        /\ Stay(w, w2, n)
        /\ \A s : Remains(w, w2, n, n, s) /\ Incomplete(w, w2, n, s)
        /\ w2[n + 1] = [tag |-> next_tag, instr |-> pc, ready |-> FALSE, result |-> NULL]
        /\ \A c \in Carriers : c[3] # next_tag
        /\ RAT' \in [Reg -> Operand] /\ TableIs(code, w2, RAT', n + 1)
        /\ checkpoints' \in Table
        /\ SavedAt(checkpoints', OpenBranches \cup opened)
        /\ \A i \in CheckpointIndex : checkpoints'[i].valid =>
               SavedIs(code, w2, n + 1, checkpoints'[i].rob_tag, checkpoints'[i].rat)
    BY <1>0, <2>0, <2>1, IssueWindow
  <2>4. e \in Held /\ e.rd_rob = next_tag /\ e.instr = pc /\ StationIs(code, w2, regs, n + 1, e)
    BY <2>0, <2>3, EntryIs DEF e
  <2>5. RSInv'
    BY <2>0, <2>1, <2>4, StationTaken
  <2>6. PICK index \in Station \ Busy :
           /\ \A i : i \in Busy' <=> i \in Busy \/ i = index
           /\ RS_store'[index] = e
           /\ \A i \in Busy : RS_store'[i] = RS_store[i]
    BY <2>0, <2>1, <2>4, StationTaken
  <2> HIDE DEF w, w2, n, regs, opened
  <2>7. OpenBranches' = OpenBranches \cup opened
    <3>1. \A i \in Busy : unit_of(i)' = unit_of(i)
      BY <2>2, <2>6 DEF unit_of
    <3>2. unit_of(index)' = FUType(code[pc]) /\ RS_store'[index].rd_rob = next_tag
      BY <2>2, <2>4, <2>6 DEF unit_of
    <3>3. \A s : s \in opened <=> is_branch(code[pc]) /\ s = next_tag
      BY DEF opened
    <3>4. \A s : s \in OpenBranches' <=> s \in OpenBranches \/ (FUType(code[pc]) = "BRU" /\ s = next_tag)
      BY <2>2, <2>6, <3>1, <3>2, OpenMembers
    <3>5. FUType(code[pc]) = "BRU" <=> is_branch(code[pc])
      BY UnitOf
    <3>6. \A s : s \in OpenBranches' <=> s \in OpenBranches \/ s \in opened
      BY <3>3, <3>4, <3>5
    <3> QED BY <3>6
  <2>8. CoreTypes'
    <3>1. \A p \in 1 .. n + 1 : w2[p].instr \in Word
      <4>1. \A p \in 1 .. n : w[p].instr \in Word
        BY <2>0 DEF CoreTypes, w, n
      <4>2. \A p \in 1 .. n + 1 : p \in 1 .. n \/ p = n + 1
        BY <2>3
      <4>3. w2[n + 1].instr = pc
        BY <2>3
      <4> QED BY <2>0, <2>3, <4>1, <4>2, <4>3
    <3> QED BY <1>0, <2>0, <2>2, <2>3, <3>1 DEF CoreTypes, Stages, Table, w2
  <2>9. n + 1 \in Nat /\ n <= n + 1
    BY <2>3
  <2>10. ASSUME NEW i \in Busy' PROVE StationIs(code, w2, regs, n + 1, RS_store'[i])
    <3>1. CASE i = index
      BY <2>4, <2>6, <3>1
    <3>2. CASE i # index
      <4>1. i \in Busy /\ RS_store'[i] = RS_store[i]
        BY <2>6, <3>2
      <4>2. StationIs(code, w, regs, n, RS_store[i])
        BY <4>1 DEF CoreInv, PartsAreRight, w, regs, n
      <4>3. \A k \in 1 .. n : w2[k].ready <=> w[k].ready
        BY <2>3
      <4> QED BY <2>3, <2>9, <4>1, <4>2, <4>3, StationStays
    <3> QED BY <3>1, <3>2
  <2>11. ASSUME NEW u \in Units, FUs[u].input.valid PROVE InputIs(code, w2, regs, n + 1, u, FUs[u].input)
    <3>1. InputIs(code, w, regs, n, u, FUs[u].input)
      BY <2>11 DEF CoreInv, PartsAreRight, w, regs, n
    <3> QED BY <2>3, <2>9, <3>1, InputStays
  <2>12. \A s, v : ResultIs(code, w, regs, n, s, v) => ResultIs(code, w2, regs, n + 1, s, v)
    BY <2>3, <2>9, ResultStays
  <2>13. CompleteAre(code, w2, regs, n + 1)
    <3>1. CompleteAre(code, w, regs, n) /\ n <= n
      BY <2>3 DEF CoreInv, PartsAreRight, w, regs, n
    <3>2. CompleteAre(code, w2, regs, n)
      BY <2>3, <3>1, CompleteStay
    <3>3. ~w2[n + 1].ready /\ \A p \in 1 .. n + 1 : p \in 1 .. n \/ p = n + 1
      BY <2>3
    <3> QED BY <3>2, <3>3 DEF CompleteAre
  <2>14. PartsAreRight'
    <3>1. \A u \in Units : FUs[u].output.valid =>
             ResultIs(code, w2, regs, n + 1, FUs[u].output.rob_tag, FUs[u].output.value)
      BY <2>12 DEF CoreInv, PartsAreRight, w, regs, n
    <3>2. ~CDB.empty => ResultIs(code, w2, regs, n + 1, CDB.rob_tag, CDB.value)
      BY <2>12 DEF CoreInv, PartsAreRight, w, regs, n
    <3> QED BY <2>2, <2>3, <2>10, <2>11, <2>13, <3>1, <3>2 DEF PartsAreRight, w2, regs, n
  <2>15. FlushIsRight'
    BY <1>0, <2>2 DEF FlushIsRight
  <2> DEFINE new == <<"station", index, next_tag>>
  <2>16. \A d : d \in Carriers' <=> d = new \/ d \in Carriers
    <3> SUFFICES ASSUME NEW d PROVE d \in Carriers' <=> d = new \/ d \in Carriers
      OBVIOUS
    <3>1. (\E i \in Busy' : d = <<"station", i, RS_store'[i].rd_rob>>) <=>
          (\E i \in Busy : d = <<"station", i, RS_store[i].rd_rob>>) \/ d = new
      BY <2>4, <2>6
    <3> HIDE DEF new
    <3> QED BY <2>2, <3>1, CarrierMembers
  <2>17. CarriersAreRight'
    <3>1. Alone(Carriers')
      <4>1. new[3] = next_tag
        OBVIOUS
      <4> HIDE DEF new
      <4>2. \A c \in Carriers : c[3] # new[3]
        BY <2>3, <4>1
      <4> QED BY <2>16, <4>2, CarrierComes DEF CoreInv, CarriersAreRight
    <3>2. ASSUME NEW p \in 1 .. n + 1, ~w2[p].ready PROVE \E c \in Carriers' : c[3] = w2[p].tag
      <4>1. CASE p \in 1 .. n
        <5>1. w2[p] = w[p]
          BY <2>3, <4>1
        <5>2. PICK c \in Carriers : c[3] = w[p].tag
          BY <3>2, <4>1, <5>1 DEF CoreInv, CarriersAreRight, w, n
        <5> QED BY <2>16, <5>1, <5>2
      <4>2. CASE p = n + 1
        <5>1. w2[p].tag = next_tag /\ new[3] = next_tag /\ new \in Carriers'
          BY <2>3, <2>16, <4>2
        <5> QED BY <5>1
      <4>3. p \in 1 .. n \/ p = n + 1
        BY <2>3
      <4> QED BY <4>1, <4>2, <4>3
    <3> QED BY <2>3, <3>1, <3>2 DEF CarriersAreRight, w2, n
  <2>18. CheckpointsAreRight'
    BY <2>3, <2>7 DEF CheckpointsAreRight
  <2> QED BY <1>2, <2>0, <2>3, <2>5, <2>7, <2>8, <2>14, <2>15, <2>17, <2>18 DEF w, w2, n, opened, pc
<1> QED BY <1>1, <1>2

(***************************************************************************)
(* The queues of the front end.                                            *)
(***************************************************************************)
Fresh(q) == q.pushed = <<>> /\ ~q.popped

(* A queue has at most one instruction on each side of its register. *)
LEMMA QueueFields ==
    ASSUME NEW q, QueueIs(q)
    PROVE  /\ q = [buffer |-> q.buffer, pushed |-> q.pushed, popped |-> q.popped]
           /\ q.buffer = <<>> \/ \E pc \in Word : q.buffer = <<pc>>
           /\ q.pushed = <<>> \/ \E pc \in Word : q.pushed = <<pc>>
           /\ q.popped \in BOOLEAN
           /\ q.popped => q.buffer # <<>>
           /\ q.pushed # <<>> => q.popped \/ q.buffer = <<>>
<1>1. q \in Fifo
  BY DEF QueueIs
<1>2. q.buffer \in Pcs /\ q.pushed \in Pcs /\ q.popped \in BOOLEAN
      /\ q = [buffer |-> q.buffer, pushed |-> q.pushed, popped |-> q.popped]
  BY <1>1 DEF Fifo
<1> QED BY <1>2 DEF Pcs, QueueIs

(* A tick keeps what is queued. *)
LEMMA TickQueue ==
    ASSUME NEW q, QueueIs(q), NEW q2, q2 = fifo_tick(q)
    PROVE  QueueIs(q2) /\ Fresh(q2) /\ Queued(q2) = Queued(q)
<1>0. \A pc : Len(<<pc>>) = 1 /\ Tail(<<pc>>) = <<>> /\ <<pc>> # <<>> /\ <<>> \o <<pc>> = <<pc>> /\ <<pc>> \o <<>> = <<pc>>
  OBVIOUS
<1>1. Len(<<>>) = 0 /\ <<>> \o <<>> = <<>>
  OBVIOUS
<1>2. /\ q.buffer = <<>> \/ \E pc \in Word : q.buffer = <<pc>>
      /\ q.pushed = <<>> \/ \E pc \in Word : q.pushed = <<pc>>
      /\ q.popped \in BOOLEAN
      /\ q.popped => q.buffer # <<>>
      /\ q.pushed # <<>> => q.popped \/ q.buffer = <<>>
  BY QueueFields
<1> DEFINE left == IF q.popped /\ q.buffer # <<>> THEN Tail(q.buffer) ELSE q.buffer
           fits == q.pushed # <<>> /\ Len(left) < depth
<1>3. q2 = [buffer |-> IF fits THEN left \o q.pushed ELSE left,
            pushed |-> IF fits THEN <<>> ELSE q.pushed,
            popped |-> q.popped /\ q.buffer = <<>>]
  BY DEF fifo_tick
<1>4. left = IF q.popped THEN <<>> ELSE q.buffer
  BY <1>0, <1>2
<1> HIDE DEF left
<1>5. fits <=> q.pushed # <<>>
  BY <1>1, <1>2, <1>4 DEF depth
<1> HIDE DEF fits
<1>6. /\ q2.pushed = <<>> /\ q2.popped = FALSE
      /\ q2.buffer = IF q.pushed # <<>> THEN q.pushed ELSE left
  <2>1. q2.popped = (q.popped /\ q.buffer = <<>>) /\ q2.pushed = (IF fits THEN <<>> ELSE q.pushed)
        /\ q2.buffer = (IF fits THEN left \o q.pushed ELSE left)
    BY <1>3
  <2>2. ~(q.popped /\ q.buffer = <<>>)
    BY <1>2
  <2>3. q2.popped = FALSE
    BY <2>1, <2>2
  <2>4. q2.pushed = <<>>
    BY <1>5, <2>1
  <2>5. CASE q.pushed = <<>>
    BY <1>5, <2>1, <2>3, <2>4, <2>5
  <2>6. CASE q.pushed # <<>>
    <3>1. left = <<>>
      BY <1>2, <1>4, <2>6
    <3>2. PICK pc \in Word : q.pushed = <<pc>>
      BY <1>2, <2>6
    <3>3. q2.buffer = <<>> \o <<pc>>
      BY <1>5, <2>1, <2>6, <3>1, <3>2
    <3>4. q2.buffer = <<pc>>
      BY <1>0, <3>3
    <3> QED BY <2>3, <2>4, <2>6, <3>2, <3>4
  <2> QED BY <2>5, <2>6
<1>7. q2 = [buffer |-> q2.buffer, pushed |-> q2.pushed, popped |-> q2.popped]
  BY <1>3
<1>8. q2.buffer \in Pcs
  BY <1>2, <1>4, <1>6 DEF Pcs
<1>9. q2 \in Fifo
  <2>1. q2.pushed \in Pcs
    BY <1>6 DEF Pcs
  <2> QED BY <1>6, <1>7, <1>8, <2>1 DEF Fifo
<1>10. Queued(q) = left \o q.pushed /\ Queued(q2) = q2.buffer \o <<>>
  BY <1>4, <1>6 DEF Queued
<1>11. Queued(q2) = Queued(q)
  BY <1>0, <1>1, <1>2, <1>4, <1>6, <1>10
<1> QED BY <1>6, <1>9, <1>11 DEF QueueIs, Fresh

(* A pop takes the only instruction there is. *)
LEMMA PopQueue ==
    ASSUME NEW q, QueueIs(q), Fresh(q), ~fifo_empty(q), NEW q2, q2 = fifo_pop(q)
    PROVE  /\ fifo_data(q) \in Word /\ Queued(q) = <<fifo_data(q)>>
           /\ QueueIs(q2) /\ q2.pushed = <<>> /\ Queued(q2) = <<>>
<1>1. PICK pc \in Word : q.buffer = <<pc>>
  BY QueueFields DEF Fresh, fifo_empty
<1>2. fifo_data(q) = pc /\ <<pc>> \o <<>> = <<pc>> /\ <<>> \o <<>> = <<>>
  BY <1>1 DEF fifo_data
<1>3. q2 = [buffer |-> <<pc>>, pushed |-> <<>>, popped |-> TRUE]
  <2>0. q.popped = FALSE /\ q.pushed = <<>>
    BY QueueFields DEF Fresh
  <2>1. q = [buffer |-> <<pc>>, pushed |-> <<>>, popped |-> FALSE]
    BY <1>1, <2>0, QueueFields, Zenon
  <2> QED BY <2>1 DEF fifo_pop
<1>4. Queued(q) = <<pc>> /\ Queued(q2) = <<>>
  BY <1>1, <1>2, <1>3 DEF Queued, Fresh
<1>5. QueueIs(q2)
  <2>1. q2 \in Fifo
    BY <1>3 DEF Fifo, Pcs
  <2> QED BY <1>3, <2>1 DEF QueueIs
<1> QED BY <1>2, <1>3, <1>4, <1>5

(* A push comes to a queue that is empty. *)
LEMMA PushQueue ==
    ASSUME NEW q, QueueIs(q), q.pushed = <<>>, ~fifo_full(q), NEW pc \in Word, NEW q2, q2 = fifo_push(q, pc)
    PROVE  /\ Queued(q) = <<>> /\ Queued(q2) = <<pc>>
           /\ QueueIs(q2) /\ (q2.popped <=> q.popped)
<1>0. Len(<<>>) = 0 /\ (\A x : Len(<<x>>) = 1) /\ <<>> \o <<pc>> = <<pc>> /\ <<>> \o <<>> = <<>>
  OBVIOUS
<1>1. q.popped \/ q.buffer = <<>>
  BY <1>0, QueueFields DEF fifo_full, depth
<1>2. q2 = [buffer |-> q.buffer, pushed |-> <<pc>>, popped |-> q.popped]
  BY QueueFields DEF fifo_push
<1>3. Queued(q) = <<>> /\ Queued(q2) = <<pc>>
  <2>1. Queued(q) = <<>> \o <<>>
    BY <1>1 DEF Queued
  <2>2. q2.buffer = q.buffer /\ q2.pushed = <<pc>> /\ q2.popped = q.popped
    BY <1>2
  <2>3. Queued(q2) = <<>> \o <<pc>>
    BY <1>1, <2>2 DEF Queued
  <2> QED BY <1>0, <2>1, <2>3
<1>4. QueueIs(q2)
  <2>1. <<pc>> \in Pcs /\ q.buffer \in Pcs /\ q.popped \in BOOLEAN /\ (q.popped => q.buffer # <<>>)
    BY DEF Pcs, QueueIs, Fifo
  <2>2. q2 \in Fifo
    BY <1>2, <2>1 DEF Fifo
  <2>3. q2.pushed = <<pc>> /\ q2.popped = q.popped /\ q2.buffer = q.buffer
    BY <1>2
  <2> QED BY <1>1, <2>1, <2>2, <2>3 DEF QueueIs
<1> QED BY <1>2, <1>3, <1>4

(* The empty queue. *)
LEMMA EmptyQueue == QueueIs(EmptyFifo) /\ Fresh(EmptyFifo) /\ Queued(EmptyFifo) = <<>>
<1>1. <<>> \o <<>> = <<>>
  OBVIOUS
<1> QED BY <1>1 DEF QueueIs, Fresh, Queued, EmptyFifo, Fifo, Pcs

(***************************************************************************)
(* What each step makes of the queues and of fetch.                        *)
(***************************************************************************)
(* The steps that leave the queues alone. *)
LEMMA FrontStays ==
    ASSUME CoreInv, UNCHANGED <<front, issue_queue>>, stage \notin {"registers", "decode", "fetch"}
    PROVE  QueuesAreRight' /\ FetchIsRight' /\ Fetched' = Fetched /\ PC' = PC
<1>1. UNCHANGED <<PC, fetch_pending, icache, decode_queue, exit_pending, issue_queue>>
  BY DEF front
<1>2. QueuesAreRight /\ FetchIsRight
  BY DEF CoreInv
<1>3. QueuesAreRight'
  BY <1>1, <1>2 DEF QueuesAreRight
<1>4. FetchIsRight'
  BY <1>1, <1>2 DEF FetchIsRight
<1> QED BY <1>1, <1>3, <1>4 DEF Fetched

(* The registers tick. *)
LEMMA FrontTicks ==
    ASSUME CoreInv, registers_tick
    PROVE  QueuesAreRight' /\ FetchIsRight' /\ Fetched' = Fetched
           /\ Queued(issue_queue') = Queued(issue_queue) /\ Queued(decode_queue') = Queued(decode_queue)
           /\ PC' = PC /\ exit_pending' = exit_pending
<1> USE DEF registers_tick
<1>1. QueuesAreRight /\ FetchIsRight
  BY DEF CoreInv
<1>2. /\ QueueIs(decode_queue') /\ Fresh(decode_queue') /\ Queued(decode_queue') = Queued(decode_queue)
      /\ QueueIs(issue_queue') /\ Fresh(issue_queue') /\ Queued(issue_queue') = Queued(issue_queue)
  BY <1>1, TickQueue DEF QueuesAreRight
<1>3. QueuesAreRight'
  BY <1>2 DEF QueuesAreRight, Fresh
<1>4. /\ icache' \in {NoAnswer} \cup [busy : {TRUE}, addr : Word, wait : Nat]
      /\ icache'.busy <=> icache.busy
      /\ icache.busy => icache'.addr = icache.addr
  <2>1. CASE icache.busy /\ icache.wait > 0
    <3>0. icache # NoAnswer
      BY <2>1 DEF NoAnswer
    <3>1. icache \in [busy : {TRUE}, addr : Word, wait : Nat]
      BY <1>1, <3>0, Zenon DEF FetchIsRight
    <3>2. icache.busy = TRUE /\ icache.addr \in Word /\ icache.wait - 1 \in Nat
      BY <2>1, <3>1
    <3>3. icache' = [busy |-> TRUE, addr |-> icache.addr, wait |-> icache.wait - 1]
      BY <2>1, <3>1, <3>2
    <3>4. icache' \in [busy : {TRUE}, addr : Word, wait : Nat]
      <4> DEFINE a == icache.addr
                 t == icache.wait - 1
      <4>1. a \in Word /\ t \in Nat /\ icache' = [busy |-> TRUE, addr |-> a, wait |-> t]
        BY <3>2, <3>3
      <4> HIDE DEF a, t
      <4>2. [busy |-> TRUE, addr |-> a, wait |-> t] \in [busy : {TRUE}, addr : Word, wait : Nat]
        BY <4>1
      <4> QED BY <4>1, <4>2, Zenon
    <3>5. icache'.busy /\ icache'.addr = icache.addr
      BY <3>3
    <3> QED BY <2>1, <3>4, <3>5
  <2>2. CASE ~(icache.busy /\ icache.wait > 0)
    BY <1>1, <2>2 DEF FetchIsRight
  <2> QED BY <2>1, <2>2
<1>5. FetchIsRight'
  BY <1>1, <1>4 DEF FetchIsRight
<1> QED BY <1>2, <1>3, <1>5 DEF Fetched

(* A flush empties the queues and sends fetch to the branch's target. *)
LEMMA FrontFlushed ==
    ASSUME CoreInv, flush_stage
    PROVE  /\ QueuesAreRight' /\ FetchIsRight'
           /\ flush.pending => /\ Fetched' = <<>> /\ PC' = flush.pc /\ exit_pending' = FALSE
                               /\ Queued(issue_queue') = <<>>
           /\ ~flush.pending => Fetched' = Fetched /\ PC' = PC
<1> USE DEF flush_stage
<1>1. QueuesAreRight /\ FetchIsRight
  BY DEF CoreInv
<1>2. CASE flush.pending
  <2>1. UNCHANGED <<fetch_pending, icache>> /\ decode_queue' = EmptyFifo /\ issue_queue' = EmptyFifo
        /\ exit_pending' = FALSE /\ PC' = flush.pc
    BY <1>2 DEF pipeline_flush
  <2>2. flush.pc \in Word
    <3>1. flush # NoFlush
      BY <1>2 DEF NoFlush
    <3>2. flush \in Request
      BY <3>1, Zenon DEF CoreInv, CoreTypes
    <3> QED BY <3>2 DEF Request
  <2>3. QueuesAreRight'
    BY <2>1, EmptyQueue DEF QueuesAreRight, Fresh
  <2>4. FetchIsRight'
    BY <1>1, <2>1, <2>2 DEF FetchIsRight
  <2>5. Fetched' = <<>>
    <3>1. <<>> \o <<>> = <<>>
      OBVIOUS
    <3> QED BY <2>1, <3>1, EmptyQueue DEF Fetched
  <2>6. Queued(issue_queue') = <<>>
    BY <2>1, EmptyQueue
  <2> QED BY <1>2, <2>1, <2>3, <2>4, <2>5, <2>6
<1>3. CASE ~flush.pending
  <2>1. UNCHANGED <<PC, fetch_pending, icache, decode_queue, exit_pending, issue_queue>>
    BY <1>3 DEF front
  <2>2. QueuesAreRight'
    BY <1>1, <2>1 DEF QueuesAreRight
  <2>3. FetchIsRight'
    BY <1>1, <2>1 DEF FetchIsRight
  <2> QED BY <1>3, <2>1, <2>2, <2>3 DEF Fetched
<1> QED BY <1>2, <1>3

(* issue takes its instruction out of the queue. *)
LEMMA FrontIssues ==
    ASSUME CoreInv, issue
    PROVE  /\ QueuesAreRight' /\ FetchIsRight' /\ PC' = PC /\ exit_pending' = exit_pending
           /\ UNCHANGED decode_queue
           /\ ~issuing => issue_queue' = issue_queue
           /\ issuing => /\ Queued(issue_queue) = <<fifo_data(issue_queue)>>
                         /\ Queued(issue_queue') = <<>>
<1> USE DEF issue
<1>1. QueuesAreRight /\ FetchIsRight
  BY DEF CoreInv
<1>2. UNCHANGED <<PC, fetch_pending, icache, decode_queue, exit_pending>>
  BY DEF front
<1>3. FetchIsRight'
  BY <1>1, <1>2 DEF FetchIsRight
<1>4. CASE issuing
  <2>1. issue_queue' = fifo_pop(issue_queue)
    BY <1>4 DEF issuing
  <2>2. QueueIs(issue_queue) /\ Fresh(issue_queue) /\ ~fifo_empty(issue_queue)
    BY <1>1, <1>4 DEF QueuesAreRight, Fresh, issuing
  <2>3. /\ Queued(issue_queue) = <<fifo_data(issue_queue)>>
        /\ QueueIs(issue_queue') /\ issue_queue'.pushed = <<>> /\ Queued(issue_queue') = <<>>
    BY <2>1, <2>2, PopQueue
  <2>4. QueuesAreRight'
    BY <1>1, <1>2, <2>3 DEF QueuesAreRight
  <2> QED BY <1>2, <1>3, <1>4, <2>3, <2>4
<1>5. CASE ~issuing
  <2>1. issue_queue' = issue_queue
    BY <1>5 DEF issuing
  <2>2. QueuesAreRight'
    BY <1>1, <1>2, <2>1 DEF QueuesAreRight
  <2> QED BY <1>2, <1>3, <1>5, <2>1, <2>2
<1> QED BY <1>4, <1>5

decoding == ~fifo_empty(decode_queue) /\ ~fifo_full(issue_queue)

(* decode hands its instruction on. *)
LEMMA FrontDecodes ==
    ASSUME CoreInv, decode
    PROVE  /\ QueuesAreRight' /\ FetchIsRight' /\ PC' = PC /\ Fetched' = Fetched
           /\ ~decoding => UNCHANGED <<issue_queue, exit_pending>>
           /\ decoding => /\ Queued(issue_queue) = <<>> /\ Fetched = <<fifo_data(decode_queue)>>
                          /\ Queued(issue_queue') = <<fifo_data(decode_queue)>>
                          /\ exit_pending' = (exit_pending \/ is_exit(code[fifo_data(decode_queue)]))
<1> USE DEF decode
<1>1. QueuesAreRight /\ FetchIsRight
  BY DEF CoreInv
<1>2. CASE decoding
  <2> DEFINE pc == fifo_data(decode_queue)
  <2>1. /\ issue_queue' = fifo_push(issue_queue, pc) /\ decode_queue' = fifo_pop(decode_queue)
        /\ UNCHANGED <<PC, fetch_pending, icache>>
        /\ exit_pending' = (exit_pending \/ is_exit(code[pc]))
    BY <1>1, <1>2 DEF decoding, FetchIsRight
  <2>2. QueueIs(decode_queue) /\ Fresh(decode_queue) /\ ~fifo_empty(decode_queue)
        /\ QueueIs(issue_queue) /\ issue_queue.pushed = <<>> /\ ~fifo_full(issue_queue)
    BY <1>1, <1>2 DEF QueuesAreRight, Fresh, decoding
  <2>3. /\ pc \in Word /\ Queued(decode_queue) = <<pc>>
        /\ QueueIs(decode_queue') /\ decode_queue'.pushed = <<>> /\ Queued(decode_queue') = <<>>
    BY <2>1, <2>2, PopQueue
  <2>4. /\ Queued(issue_queue) = <<>> /\ Queued(issue_queue') = <<pc>>
        /\ QueueIs(issue_queue')
    BY <2>1, <2>2, <2>3, PushQueue
  <2>5. QueuesAreRight'
    BY <2>3, <2>4 DEF QueuesAreRight
  <2>6. FetchIsRight'
    <3>1. exit_pending' \in BOOLEAN
      BY <2>1
    <3> QED BY <1>1, <2>1, <3>1 DEF FetchIsRight
  <2>7. Fetched = <<pc>> /\ Fetched' = <<pc>>
    <3>1. <<>> \o <<pc>> = <<pc>> /\ <<pc>> \o <<>> = <<pc>>
      OBVIOUS
    <3>2. Fetched = <<>> \o <<pc>> /\ Fetched' = <<pc>> \o <<>>
      BY <2>3, <2>4 DEF Fetched
    <3> QED BY <3>1, <3>2
  <2> QED BY <1>2, <2>1, <2>4, <2>5, <2>6, <2>7
<1>3. CASE ~decoding
  <2>1. UNCHANGED <<PC, fetch_pending, icache, decode_queue, issue_queue, exit_pending>>
    BY <1>3 DEF decoding
  <2>2. QueuesAreRight'
    BY <1>1, <2>1 DEF QueuesAreRight
  <2>3. FetchIsRight'
    BY <1>1, <2>1 DEF FetchIsRight
  <2> QED BY <1>3, <2>1, <2>2, <2>3 DEF Fetched
<1> QED BY <1>2, <1>3

(* fetch appends the instruction at PC, or nothing. *)
LEMMA FrontFetches ==
    ASSUME CoreInv, fetch
    PROVE  /\ QueuesAreRight' /\ FetchIsRight'
           /\ UNCHANGED <<issue_queue, exit_pending>>
           /\ \/ decode_queue' = decode_queue /\ PC' = PC
              \/ /\ Queued(decode_queue) = <<>> /\ Queued(decode_queue') = <<PC>>
                 /\ PC' = NextOf(PC) /\ ~exit_pending
<1> USE DEF fetch
<1>1. QueuesAreRight /\ FetchIsRight
  BY DEF CoreInv
<1>2. UNCHANGED <<issue_queue, exit_pending>>
  OBVIOUS
<1>3. CASE fetching /\ ~fetch_pending.sent /\ send_request
  <2>1. UNCHANGED <<PC, decode_queue>> /\ fetch_pending' = [sent |-> TRUE, pc |-> PC]
    BY <1>3 DEF send_request
  <2>2. PICK latency \in FETCH_LATENCIES : icache' = [busy |-> TRUE, addr |-> PC, wait |-> latency]
    BY <1>3 DEF send_request
  <2>3. latency \in Nat
    BY <2>2, CoreAssumption
  <2>4. FetchIsRight'
    BY <1>1, <1>2, <2>1, <2>2, <2>3 DEF FetchIsRight
  <2>5. QueuesAreRight'
    BY <1>1, <1>2, <2>1 DEF QueuesAreRight
  <2> QED BY <1>2, <2>1, <2>4, <2>5 DEF Fetched
<1>4. CASE fetching /\ fetch_pending.sent /\ icache.wait = 0 /\ take_answer
  <2>1. icache' = NoAnswer /\ fetch_pending' = NoRequest
    BY <1>4 DEF take_answer
  <2>2. CASE still_wanted(fetch_pending.pc)
    <3>1. PC' = NextOf(PC) /\ decode_queue' = fifo_push(decode_queue, PC) /\ PC \in Word
      BY <1>1, <1>4, <2>2 DEF take_answer, still_wanted, predicted_PC, FetchIsRight
    <3>2. QueueIs(decode_queue) /\ decode_queue.pushed = <<>> /\ ~fifo_full(decode_queue)
      BY <1>1, <1>4 DEF QueuesAreRight, fetching
    <3>3. /\ Queued(decode_queue) = <<>> /\ Queued(decode_queue') = <<PC>>
          /\ QueueIs(decode_queue')
      BY <3>1, <3>2, PushQueue
    <3>4. PC' \in Word
      BY <3>1, WordFacts DEF NextOf
    <3>5. QueuesAreRight'
      BY <1>1, <1>2, <3>3 DEF QueuesAreRight
    <3>6. FetchIsRight'
      BY <1>1, <1>2, <2>1, <3>4 DEF FetchIsRight, NoAnswer, NoRequest
    <3> QED BY <1>2, <1>4, <3>1, <3>3, <3>5, <3>6 DEF fetching
  <2>3. CASE ~still_wanted(fetch_pending.pc)
    <3>1. UNCHANGED <<PC, decode_queue>>
      BY <1>4, <2>3 DEF take_answer
    <3>2. QueuesAreRight'
      BY <1>1, <1>2, <3>1 DEF QueuesAreRight
    <3>3. FetchIsRight'
      BY <1>1, <1>2, <2>1, <3>1 DEF FetchIsRight, NoAnswer, NoRequest
    <3> QED BY <1>2, <3>1, <3>2, <3>3 DEF Fetched
  <2> QED BY <2>2, <2>3
<1>5. CASE UNCHANGED <<PC, fetch_pending, icache, decode_queue>>
  <2>1. QueuesAreRight'
    BY <1>1, <1>2, <1>5 DEF QueuesAreRight
  <2>2. FetchIsRight'
    BY <1>1, <1>2, <1>5 DEF FetchIsRight
  <2> QED BY <1>2, <1>5, <2>1, <2>2 DEF Fetched
<1> QED BY <1>3, <1>4, <1>5

(* No step of the core breaks CoreInv. *)
LEMMA CoreStep == CoreInv /\ [CoreNext]_core_vars => CoreInv'
<1> SUFFICES ASSUME CoreInv, [CoreNext]_core_vars PROVE CoreInv'
  OBVIOUS
<1>0. FlushIsRight /\ QueuesAreRight /\ FetchIsRight
  BY DEF CoreInv
<1>1. CASE registers_tick
  <2>1. stage = "registers" /\ stage' \in Stages /\ ~flush.pending
    BY <1>0, <1>1 DEF registers_tick, FlushIsRight, Stages
  <2>2. UNCHANGED <<code, renaming, ROB, RS_vars, FUs, CDB, flush, back>>
    BY <1>1 DEF registers_tick
  <2> QED BY <1>1, <2>1, <2>2, BackStays, FrontTicks DEF CoreInv
<1>2. CASE units_tick
  <2>1. UNCHANGED <<front, issue_queue>> /\ stage \notin {"registers", "decode", "fetch"}
    BY <1>2 DEF units_tick
  <2> QED BY <1>2, <2>1, UnitsInv, FrontStays DEF CoreInv
<1>3. CASE commit
  <2>1. UNCHANGED <<front, issue_queue>> /\ stage \notin {"registers", "decode", "fetch"}
    BY <1>3 DEF commit
  <2> QED BY <1>3, <2>1, CommitInv, FrontStays DEF CoreInv
<1>4. CASE writeback
  <2>1. UNCHANGED <<front, issue_queue>> /\ stage \notin {"registers", "decode", "fetch"}
    BY <1>4 DEF writeback
  <2> QED BY <1>4, <2>1, WritebackInv, FrontStays DEF CoreInv
<1>5. CASE flush_stage
  BY <1>5, FlushInv, FrontFlushed DEF CoreInv
<1>6. CASE bus
  <2>1. UNCHANGED <<front, issue_queue>> /\ stage \notin {"registers", "decode", "fetch"}
    BY <1>6 DEF bus
  <2> QED BY <1>6, <2>1, BusInv, FrontStays DEF CoreInv
<1>7. ASSUME NEW index \in Station, schedule(index) PROVE CoreInv'
  <2>1. UNCHANGED <<front, issue_queue>> /\ stage \notin {"registers", "decode", "fetch"}
    BY <1>7 DEF schedule
  <2> QED BY <1>7, <2>1, ScheduleInv, FrontStays DEF CoreInv
<1>8. CASE scheduled
  <2>1. UNCHANGED <<front, issue_queue>> /\ stage \notin {"registers", "decode", "fetch"}
    BY <1>8 DEF scheduled
  <2>2. stage' \in Stages /\ ~flush.pending
    BY <1>0, <1>8 DEF scheduled, FlushIsRight, Stages
  <2>3. UNCHANGED <<code, renaming, ROB, RS_vars, FUs, CDB, flush, back>>
    BY <1>8 DEF scheduled
  <2> QED BY <1>8, <2>1, <2>2, <2>3, BackStays, FrontStays DEF CoreInv
<1>9. CASE issue
  BY <1>9, IssueInv, FrontIssues DEF CoreInv
<1>10. CASE decode
  <2>1. stage' \in Stages /\ ~flush.pending
    BY <1>0, <1>10 DEF decode, FlushIsRight, Stages
  <2>2. UNCHANGED <<code, renaming, ROB, RS_vars, FUs, CDB, flush, back>>
    BY <1>10 DEF decode
  <2> QED BY <1>10, <2>1, <2>2, BackStays, FrontDecodes DEF CoreInv
<1>11. CASE fetch
  <2>1. stage' \in Stages /\ ~flush.pending
    BY <1>0, <1>11 DEF fetch, FlushIsRight, Stages
  <2>2. UNCHANGED <<code, renaming, ROB, RS_vars, FUs, CDB, flush, back>>
    BY <1>11 DEF fetch
  <2> QED BY <1>11, <2>1, <2>2, BackStays, FrontFetches DEF CoreInv
<1>12. CASE UNCHANGED core_vars
  <2>1. /\ UNCHANGED <<code, renaming, ROB, RS_vars, FUs, CDB, flush, back>>
        /\ UNCHANGED <<PC, fetch_pending, icache, decode_queue, exit_pending, issue_queue, stage>>
    BY <1>12 DEF core_vars, front
  <2>2. stage' \in Stages /\ (flush.pending => stage' \in {"commit", "writeback", "flush"})
    <3>1. stage \in Stages
      BY DEF CoreInv, CoreTypes
    <3> QED BY <1>0, <2>1, <3>1 DEF FlushIsRight
  <2>3. QueuesAreRight'
    BY <1>0, <2>1 DEF QueuesAreRight
  <2>4. FetchIsRight'
    BY <1>0, <2>1 DEF FetchIsRight
  <2>5. UNCHANGED <<code, renaming, ROB, RS_vars, FUs, CDB, flush, back>>
    BY <2>1
  <2> QED BY <2>2, <2>3, <2>4, <2>5, BackStays DEF CoreInv
<1> QED BY <1>1, <1>2, <1>3, <1>4, <1>5, <1>6, <1>7, <1>8, <1>9, <1>10, <1>11, <1>12 DEF CoreNext, Done

(* CoreInv holds in every state of the core. *)
THEOREM CoreInvariance == CoreSpec => []CoreInv
<1> QED BY CoreInitInv, CoreStep, PTL DEF CoreSpec

(***************************************************************************)
(* What the invariant says in the terms of the properties.                 *)
(***************************************************************************)
(* The invariant gives RatIsLatestWriter, *)
LEMMA TablesNameWriters == CoreInv => RatIsLatestWriter
<1> SUFFICES ASSUME CoreInv PROVE RatIsLatestWriter
  OBVIOUS
<1>1. IInv /\ PartsAreRight /\ count \in Nat
  BY WindowFacts DEF CoreInv
<1>2. ASSUME NEW rat, NEW n \in 0 .. count, TableIs(code, Items, rat, n), NEW r \in Reg
      PROVE  rat[r] = LastWriter(r, n)
  <2>1. n \in Nat
    OBVIOUS
  <2>2. PICK k \in 0 .. n : IsLast(code, Items, r, n, k)
    BY <2>1, LastExists
  <2>3. rat[r] = Named(Items, k)
    BY <1>2, <2>2 DEF TableIs
  <2>4. LastWriter(r, n) = Named(Items, k)
    BY <1>1, <2>2, LastWriterIs
  <2> QED BY <2>3, <2>4
<1>3. \A r \in Reg : RAT[r] = LastWriter(r, count)
  <2>1. count \in 0 .. count /\ TableIs(code, Items, RAT, count)
    BY <1>1 DEF PartsAreRight
  <2> QED BY <1>2, <2>1
<1>4. ASSUME NEW c \in CheckpointIndex, checkpoints[c].valid, NEW r \in Reg
      PROVE  checkpoints[c].rat[r] = LastWriter(r, PlaceOf(checkpoints[c].rob_tag) + 1)
  <2>1. PICK p \in 1 .. count : Items[p].tag = checkpoints[c].rob_tag /\ TableIs(code, Items, checkpoints[c].rat, p)
    BY <1>1, <1>4 DEF PartsAreRight, SavedIs
  <2>2. PlaceOf(checkpoints[c].rob_tag) = p - 1
    BY <1>1, <2>1, TagFacts
  <2>3. p \in 0 .. count /\ (p - 1) + 1 = p
    BY <1>1
  <2>4. checkpoints[c].rat[r] = LastWriter(r, p)
    BY <1>2, <2>1, <2>3
  <2> QED BY <2>2, <2>3, <2>4
<1> QED BY <1>3, <1>4 DEF RatIsLatestWriter

(* What a station has or waits for, in the words of StationsHaveOperands. *)
LEMMA OperandsAreThere ==
    ASSUME IInv, NEW p \in 1 .. count, NEW r, NEW waits, NEW data,
           OperandIs(code, Items, reg_file, p, TRUE, r, waits, data)
    PROVE  RightOperand(Items[p].tag, r, waits, data)
<1>0. count \in Nat /\ p - 1 \in 0 .. count /\ p - 1 \in Nat /\ PlaceOf(Items[p].tag) = p - 1
  BY WindowFacts, TagFacts
<1> DEFINE writer == LastWriter(r, p - 1)
<1>1. ASSUME NEW k \in 1 .. p - 1, IsLast(code, Items, r, p - 1, k)
      PROVE  /\ writer = Items[k].tag /\ writer # INVALID_ROB
             /\ at_tag(writer).ready <=> Items[k].ready
             /\ at_tag(writer).result = Items[k].result
  <2>1. k \in 1 .. count /\ k # 0
    BY <1>0
  <2>2. writer = Items[k].tag
    BY <1>0, <1>1, <2>1, LastWriterIs DEF Named
  <2>3. writer # INVALID_ROB
    BY <2>1, <2>2, PlaceFacts, NoTag
  <2>4. at_tag(Items[k].tag) = store[Slot(k - 1)]
    BY <2>1, TagFacts
  <2> HIDE DEF writer
  <2>5. at_tag(writer) = store[Slot(k - 1)]
    BY <2>2, <2>4
  <2>6. Items[k].ready = store[Slot(k - 1)].ready /\ Items[k].result = store[Slot(k - 1)].result
    BY <2>1, PlaceFacts
  <2> QED BY <2>2, <2>3, <2>5, <2>6
<1>2. CASE Awaits(code, Items, p, TRUE, r, waits)
  <2>1. PICK k \in 1 .. p - 1 : IsLast(code, Items, r, p - 1, k) /\ ~Items[k].ready /\ waits = Items[k].tag
    BY <1>2 DEF Awaits
  <2>2. writer = waits /\ writer # INVALID_ROB /\ ~at_tag(writer).ready
    BY <1>1, <2>1
  <2> QED BY <1>0, <2>2 DEF RightOperand
<1>3. CASE waits = INVALID_ROB /\ Reads(code, Items, reg_file, p, r, data)
  <2>1. PICK k \in 0 .. p - 1 : /\ IsLast(code, Items, r, p - 1, k)
                                /\ k # 0 => Items[k].ready
                                /\ data = IF k = 0 THEN reg_file[r] ELSE Items[k].result
    BY <1>3, Zenon DEF Reads
  <2>2. CASE k = 0
    <3>1. writer = INVALID_ROB
      BY <1>0, <2>1, <2>2, LastWriterIs DEF Named
    <3> QED BY <1>0, <1>3, <2>1, <2>2, <3>1 DEF RightOperand
  <2>3. CASE k # 0
    <3>1. k \in 1 .. p - 1
      BY <1>0, <2>1, <2>3
    <3>2. writer # INVALID_ROB /\ at_tag(writer).ready /\ data = at_tag(writer).result
      BY <1>1, <2>1, <2>3, <3>1
    <3> QED BY <1>0, <1>3, <3>2 DEF RightOperand
  <2> QED BY <2>2, <2>3
<1> QED BY <1>2, <1>3 DEF OperandIs, Holds

(* and StationsHaveOperands, *)
LEMMA OperandsAreRight == CoreInv => StationsHaveOperands
<1> SUFFICES ASSUME CoreInv, NEW i \in Busy
             PROVE  LET e == RS_store[i]
                        instr == code[e.instr]
                    IN  /\ use_rs1(instr) => RightOperand(e.rd_rob, instr.rs1, e.rs1_rob, e.rs1_data)
                        /\ use_rs2(instr) => RightOperand(e.rd_rob, instr.rs2, e.rs2_rob, e.rs2_data)
  BY DEF StationsHaveOperands
<1> DEFINE e == RS_store[i]
           instr == code[e.instr]
<1>1. IInv /\ StationIs(code, Items, reg_file, count, e)
  BY DEF CoreInv, PartsAreRight
<1>2. PICK p \in 1 .. count :
        /\ Items[p].tag = e.rd_rob
        /\ OperandIs(code, Items, reg_file, p, use_rs1(instr), instr.rs1, e.rs1_rob, e.rs1_data)
        /\ OperandIs(code, Items, reg_file, p, use_rs2(instr), instr.rs2, e.rs2_rob, e.rs2_data)
  BY <1>1 DEF StationIs
<1> HIDE DEF instr, e
<1>3. ASSUME use_rs1(instr) PROVE RightOperand(e.rd_rob, instr.rs1, e.rs1_rob, e.rs1_data)
  <2>1. use_rs1(instr) = TRUE
    BY <1>3 DEF use_rs1
  <2> QED BY <1>1, <1>2, <2>1, OperandsAreThere
<1>4. ASSUME use_rs2(instr) PROVE RightOperand(e.rd_rob, instr.rs2, e.rs2_rob, e.rs2_data)
  <2>1. use_rs2(instr) = TRUE
    BY <1>4 DEF use_rs2
  <2> QED BY <1>1, <1>2, <2>1, OperandsAreThere
<1> QED BY <1>3, <1>4 DEF e, instr

------------------------------------------------------------------------------
(* There are as many of C as of T if f is one to one. *)
LEMMA SameNumber ==
    ASSUME NEW C, NEW T, IsFiniteSet(T), NEW f \in [C -> T],
           \A c, d \in C : f[c] = f[d] => c = d, \A t \in T : \E c \in C : f[c] = t
    PROVE  Cardinality(C) = Cardinality(T)
<1>1. f \in Injection(C, T)
  BY Zenon DEF Injection, IsInjective
<1>2. f \in Surjection(C, T)
  BY Zenon DEF Surjection
<1> QED BY <1>1, <1>2, FS_Injection

(* There are finitely many tags. *)
LEMMA TagsAreFinite == \A T \in SUBSET Tag : IsFiniteSet(T)
<1>1. 0 \in Int /\ 2 * ROB_SIZE - 1 \in Int
  BY RobSizeAssumption
<1>2. IsFiniteSet(Tag)
  BY <1>1, FS_Interval DEF Tag
<1> QED BY <1>2, FS_Subset

(* and OneResultEach, *)
LEMMA ResultsComeOnce == CoreInv => OneResultEach
<1> SUFFICES ASSUME CoreInv PROVE OneResultEach
  OBVIOUS
<1> DEFINE expected == {store[i].tag : i \in {j \in LiveIndices : ~store[j].ready}}
<1>0. IInv /\ PartsAreRight /\ CarriersAreRight
  BY DEF CoreInv
<1>1. ASSUME NEW t PROVE t \in expected <=> \E p \in 1 .. count : Items[p].tag = t /\ ~Items[p].ready
  <2>1. ASSUME t \in expected PROVE \E p \in 1 .. count : Items[p].tag = t /\ ~Items[p].ready
    <3>1. PICK i \in Index : store[i].valid /\ ~store[i].ready /\ t = store[i].tag
      BY <2>1 DEF LiveIndices
    <3>2. PICK p \in 1 .. count : i = Slot(p - 1)
      BY <1>0, <3>1, LiveIsPlaced
    <3> QED BY <1>0, <3>1, <3>2, PlaceFacts
  <2>2. ASSUME NEW p \in 1 .. count, Items[p].tag = t, ~Items[p].ready PROVE t \in expected
    <3>1. Slot(p - 1) \in Index /\ store[Slot(p - 1)].valid /\ store[Slot(p - 1)].tag = t /\ ~store[Slot(p - 1)].ready
      BY <1>0, <2>2, PlaceFacts
    <3> QED BY <3>1 DEF LiveIndices
  <2> QED BY <2>1, <2>2
<1> HIDE DEF expected
<1>2. \A c \in Carriers : c[3] \in expected
  BY <1>0, <1>1, CarriedIsThere
<1>3. \A t \in expected : \E c \in Carriers : c[3] = t
  BY <1>0, <1>1 DEF CarriersAreRight
<1>4. {c[3] : c \in Carriers} = expected
  BY <1>2, <1>3
<1>5. expected \subseteq Tag
  BY <1>0, <1>1, PlaceFacts
<1>6. Cardinality(Carriers) = Cardinality(expected)
  <2> DEFINE f == [c \in Carriers |-> c[3]]
  <2>1. f \in [Carriers -> expected]
    BY <1>2
  <2>2. \A c, d \in Carriers : f[c] = f[d] => c = d
    BY <1>0 DEF CarriersAreRight, Alone
  <2>3. \A t \in expected : \E c \in Carriers : f[c] = t
    BY <1>3
  <2> HIDE DEF f
  <2> QED BY <1>5, <2>1, <2>2, <2>3, SameNumber, TagsAreFinite
<1> QED BY <1>4, <1>6 DEF OneResultEach, expected

(* and CheckpointsAreOwned. *)
LEMMA CheckpointsHaveBranches == CoreInv => CheckpointsAreOwned
<1> SUFFICES ASSUME CoreInv PROVE CheckpointsAreOwned
  OBVIOUS
<1>0. PartsAreRight /\ FlushIsRight /\ IInv
  BY DEF CoreInv
<1>1. /\ \A i \in Saved(checkpoints) : checkpoints[i].rob_tag \in OpenBranches
      /\ \A t \in OpenBranches : \E i \in Saved(checkpoints) : checkpoints[i].rob_tag = t
      /\ \A i, j \in Saved(checkpoints) : checkpoints[i].rob_tag = checkpoints[j].rob_tag => i = j
  BY DEF CoreInv, CheckpointsAreRight, SavedAt
<1>2. {checkpoints[c].rob_tag : c \in Saved(checkpoints)} = OpenBranches
  BY <1>1
<1>3. OpenBranches \subseteq Tag
  BY <1>0, OpenIsCarried, PlaceFacts
<1>4. Cardinality(Saved(checkpoints)) = Cardinality(OpenBranches)
  <2> DEFINE f == [c \in Saved(checkpoints) |-> checkpoints[c].rob_tag]
  <2>1. f \in [Saved(checkpoints) -> OpenBranches]
    BY <1>1
  <2>2. \A c, d \in Saved(checkpoints) : f[c] = f[d] => c = d
    BY <1>1
  <2>3. \A t \in OpenBranches : \E c \in Saved(checkpoints) : f[c] = t
    BY <1>1
  <2> HIDE DEF f
  <2> QED BY <1>3, <2>1, <2>2, <2>3, SameNumber, TagsAreFinite
<1> QED BY <1>2, <1>4 DEF CheckpointsAreOwned, Saved

(***************************************************************************)
(* The path: behind each instruction is its successor, or what was         *)
(* predicted until the branch has been found right.                        *)
(***************************************************************************)
(* The first of the fetched instructions, or the one to be fetched. *)
First(f, pc) == IF f = <<>> THEN pc ELSE f[1]

(* What is fetched follows from what was predicted. *)
Chained(f, pc) == \A i \in 1 .. Len(f) : (IF i < Len(f) THEN f[i + 1] ELSE pc) = NextOf(f[i])

(* What is behind the p-th item: its successor, or for an open branch what was
   predicted. *)
Follows(c, w, regs, p, open, next) ==
    IF is_branch(c[w[p].instr]) /\ w[p].tag \notin open
    THEN Leads(c, w, regs, p, next) ELSE next = NextOf(w[p].instr)

Behind(w, n, p, next) == IF p < n THEN w[p + 1].instr ELSE next

(* The path through the window leads to next. *)
PathTo(c, w, regs, n, open, next) ==
    \A p \in 1 .. n : Follows(c, w, regs, p, open, Behind(w, n, p, next))

PathIsRight ==
    /\ Chained(Fetched, PC)
    /\ PathTo(code, Items, reg_file, count, OpenBranches, First(Fetched, PC))

(* Nothing is behind an exit. *)
ExitIsLast ==
    /\ \A p \in 1 .. count :
          is_exit(code[Items[p].instr]) => p = count /\ Fetched = <<>> /\ exit_pending
    /\ \A pc \in Word : Queued(issue_queue) = <<pc>> /\ is_exit(code[pc]) =>
          Queued(decode_queue) = <<>> /\ exit_pending
    /\ exited => count = 0 /\ Fetched = <<>> /\ exit_pending /\ stage \notin {"units", "commit"}

(* With this the next instruction to retire is always the machine's. *)
PathInv == CoreInv /\ PathIsRight /\ ExitIsLast

------------------------------------------------------------------------------
(* At most one instruction is in a queue. *)
LEMMA QueuedIs ==
    ASSUME NEW q, QueueIs(q)
    PROVE  Queued(q) \in Pcs
<1>1. <<>> \o <<>> = <<>> /\ \A pc : <<>> \o <<pc>> = <<pc>> /\ <<pc>> \o <<>> = <<pc>>
  OBVIOUS
<1>2. /\ q.buffer = <<>> \/ \E pc \in Word : q.buffer = <<pc>>
      /\ q.pushed = <<>> \/ \E pc \in Word : q.pushed = <<pc>>
      /\ q.pushed # <<>> => q.popped \/ q.buffer = <<>>
  BY QueueFields
<1>3. Queued(q) = <<>> \/ \E pc \in Word : Queued(q) = <<pc>>
  BY <1>1, <1>2 DEF Queued
<1> QED BY <1>3 DEF Pcs

(* These are sequences of words. *)
LEMMA ShortAreSeqs == Pcs \subseteq Seq(Word)
<1>1. <<>> \in Seq(Word) /\ \A pc \in Word : <<pc>> \in Seq(Word)
  OBVIOUS
<1> QED BY <1>1, Zenon DEF Pcs

(* What is fetched is a sequence of words. *)
LEMMA FetchedIs ==
    ASSUME QueuesAreRight, FetchIsRight
    PROVE  /\ Queued(issue_queue) \in Pcs /\ Queued(decode_queue) \in Pcs
           /\ Fetched \in Seq(Word) /\ PC \in Word
<1>2. Queued(issue_queue) \in Pcs /\ Queued(decode_queue) \in Pcs
  BY QueuedIs DEF QueuesAreRight
<1>3. Pcs \subseteq Seq(Word)
  BY ShortAreSeqs
<1>4. \A f, g \in Seq(Word) : f \o g \in Seq(Word)
  OBVIOUS
<1>5. Fetched \in Seq(Word)
  BY <1>2, <1>3, <1>4, Zenon DEF Fetched
<1> QED BY <1>2, <1>5 DEF FetchIsRight

(* An instruction more is fetched. *)
LEMMA ChainGrows ==
    ASSUME NEW f \in Seq(Word), NEW pc \in Word, Chained(f, pc)
    PROVE  /\ Chained(f \o <<pc>>, NextOf(pc))
           /\ First(f \o <<pc>>, NextOf(pc)) = First(f, pc)
<1> DEFINE g == f \o <<pc>>
<1>1. Len(g) = Len(f) + 1 /\ g[Len(f) + 1] = pc /\ Len(f) \in Nat /\ \A i \in 1 .. Len(f) : g[i] = f[i]
  OBVIOUS
<1>2. ASSUME NEW i \in 1 .. Len(g) PROVE (IF i < Len(g) THEN g[i + 1] ELSE NextOf(pc)) = NextOf(g[i])
  <2>1. CASE i = Len(f) + 1
    BY <1>1, <2>1
  <2>2. CASE i # Len(f) + 1
    <3>1. i \in 1 .. Len(f) /\ i < Len(g)
      BY <1>1, <2>2
    <3>2. (IF i < Len(f) THEN f[i + 1] ELSE pc) = NextOf(f[i])
      BY <3>1 DEF Chained
    <3>3. g[i + 1] = IF i < Len(f) THEN f[i + 1] ELSE pc
      BY <1>1, <3>1
    <3> HIDE DEF g
    <3> QED BY <1>1, <3>1, <3>2, <3>3
  <2> QED BY <2>1, <2>2
<1>3. First(g, NextOf(pc)) = First(f, pc)
  <2>1. g # <<>>
    OBVIOUS
  <2>2. CASE f = <<>>
    BY <1>1, <2>1, <2>2 DEF First
  <2>3. CASE f # <<>>
    <3>1. 1 \in 1 .. Len(f)
      BY <2>3
    <3> QED BY <1>1, <2>1, <2>3, <3>1 DEF First
  <2> QED BY <2>2, <2>3
<1> QED BY <1>2, <1>3 DEF Chained

(* The first of them goes on. *)
LEMMA ChainMoves ==
    ASSUME NEW x \in Word, NEW f \in Seq(Word), NEW pc \in Word, Chained(<<x>> \o f, pc)
    PROVE  /\ Chained(f, pc)
           /\ First(<<x>> \o f, pc) = x /\ First(f, pc) = NextOf(x)
<1> DEFINE g == <<x>> \o f
<1>1. Len(g) = Len(f) + 1 /\ g[1] = x /\ Len(f) \in Nat /\ g # <<>> /\ \A i \in 1 .. Len(f) : g[i + 1] = f[i]
  OBVIOUS
<1>2. \A i \in 1 .. Len(g) : (IF i < Len(g) THEN g[i + 1] ELSE pc) = NextOf(g[i])
  BY DEF Chained
<1>3. f # <<>> => 1 \in 1 .. Len(f)
  OBVIOUS
<1>4. f = <<>> => Len(f) = 0
  OBVIOUS
<1> HIDE DEF g
<1>5. ASSUME NEW i \in 1 .. Len(f) PROVE (IF i < Len(f) THEN f[i + 1] ELSE pc) = NextOf(f[i])
  <2>1. i + 1 \in 1 .. Len(g) /\ i \in Int
    BY <1>1
  <2>2. (IF i + 1 < Len(g) THEN g[(i + 1) + 1] ELSE pc) = NextOf(g[i + 1])
    BY <1>2, <2>1
  <2>3. i < Len(f) => i + 1 \in 1 .. Len(f)
    BY <1>1
  <2> QED BY <1>1, <2>2, <2>3
<1>6. 1 \in 1 .. Len(g)
  BY <1>1
<1>7. (IF 1 < Len(g) THEN g[2] ELSE pc) = NextOf(x)
  BY <1>1, <1>2, <1>6
<1>8. First(f, pc) = NextOf(x)
  <2>1. CASE f = <<>>
    BY <1>1, <1>4, <1>7, <2>1 DEF First
  <2>2. CASE f # <<>>
    <3>1. g[2] = f[1] /\ 1 < Len(g)
      BY <1>1, <1>3, <2>2
    <3> QED BY <1>7, <2>2, <3>1 DEF First
  <2> QED BY <2>1, <2>2
<1> QED BY <1>1, <1>5, <1>8 DEF First, Chained, g

------------------------------------------------------------------------------
(* The successor of an instruction stays what it is, *)
LEMMA FollowsStays ==
    ASSUME NEW c, NEW w, NEW w2, NEW regs, NEW p \in Nat \ {0}, Stay(w, w2, p),
           NEW open, NEW open2, w[p].tag \in open2 <=> w[p].tag \in open,
           NEW next, Follows(c, w, regs, p, open, next)
    PROVE  Follows(c, w2, regs, p, open2, next)
<1>1. w2[p].tag = w[p].tag /\ w2[p].instr = w[p].instr
  <2>1. p \in 1 .. p
    OBVIOUS
  <2> QED BY <2>1 DEF Stay
<1>2. Leads(c, w, regs, p, next) => Leads(c, w2, regs, p, next)
  BY GivesStay
<1> QED BY <1>1, <1>2, Zenon DEF Follows

(* and so does the path. *)
LEMMA PathStays ==
    ASSUME NEW c, NEW w, NEW w2, NEW regs, NEW n \in Nat, Stay(w, w2, n), NEW open,
           NEW next, PathTo(c, w, regs, n, open, next)
    PROVE  PathTo(c, w2, regs, n, open, next)
<1> SUFFICES ASSUME NEW p \in 1 .. n PROVE Follows(c, w2, regs, p, open, Behind(w2, n, p, next))
  BY DEF PathTo
<1>1. Stay(w, w2, p) /\ p \in Nat \ {0}
  BY StayLess
<1>2. Behind(w2, n, p, next) = Behind(w, n, p, next)
  <2>1. p < n => p + 1 \in 1 .. n
    OBVIOUS
  <2> QED BY <2>1 DEF Behind, Stay
<1>3. Follows(c, w, regs, p, open, Behind(w, n, p, next))
  BY DEF PathTo
<1> QED BY <1>1, <1>2, <1>3, FollowsStays

(* An instruction is issued. *)
LEMMA PathGrows ==
    ASSUME NEW c, NEW w, NEW w2, NEW regs, NEW n \in Nat, Stay(w, w2, n), NEW open,
           NEW pc, PathTo(c, w, regs, n, open, pc),
           NEW tag, NEW n2, n2 = n + 1, w2[n2].tag = tag, w2[n2].instr = pc, \A j \in 1 .. n : w[j].tag # tag,
           NEW open2, open2 = open \cup (IF is_branch(c[pc]) THEN {tag} ELSE {})
    PROVE  PathTo(c, w2, regs, n2, open2, NextOf(pc))
<1> SUFFICES ASSUME NEW p \in 1 .. n + 1
             PROVE  Follows(c, w2, regs, p, open2, Behind(w2, n + 1, p, NextOf(pc)))
  BY DEF PathTo
<1>1. CASE p = n + 1
  <2>1. Behind(w2, n + 1, p, NextOf(pc)) = NextOf(pc)
    BY <1>1 DEF Behind
  <2> QED BY <1>1, <2>1 DEF Follows
<1>2. CASE p # n + 1
  <2>1. p \in 1 .. n /\ p < n + 1
    BY <1>2
  <2>2. Stay(w, w2, p) /\ p \in Nat \ {0}
    BY <2>1, StayLess
  <2>3. Behind(w2, n + 1, p, NextOf(pc)) = Behind(w, n, p, pc)
    <3>1. CASE p < n
      <4>1. p + 1 \in 1 .. n
        BY <2>1, <3>1
      <4> QED BY <2>1, <3>1, <4>1 DEF Behind, Stay
    <3>2. CASE p = n
      BY <2>1, <3>2 DEF Behind
    <3> QED BY <2>1, <3>1, <3>2
  <2>4. Follows(c, w, regs, p, open, Behind(w, n, p, pc))
    BY <2>1 DEF PathTo
  <2>5. w[p].tag \in open2 <=> w[p].tag \in open
    BY <2>1
  <2> QED BY <2>2, <2>3, <2>4, <2>5, FollowsStays
<1> QED BY <1>1, <1>2

(* All behind the p-th, a branch, is dropped. *)
LEMMA PathCut ==
    ASSUME NEW c, NEW w, NEW w2, NEW regs, NEW n \in Nat, NEW p \in 1 .. n, Stay(w, w2, p),
           NEW open, NEW next, PathTo(c, w, regs, n, open, next), is_branch(c[w[p].instr]),
           NEW open2, w[p].tag \notin open2,
           \A j \in 1 .. p - 1 : w[j].tag \in open2 <=> w[j].tag \in open,
           NEW pc, Leads(c, w, regs, p, pc)
    PROVE  PathTo(c, w2, regs, p, open2, pc)
<1> SUFFICES ASSUME NEW j \in 1 .. p PROVE Follows(c, w2, regs, j, open2, Behind(w2, p, j, pc))
  BY DEF PathTo
<1>0. p \in Nat \ {0} /\ Stay(w, w2, j) /\ j \in Nat \ {0}
  BY StayLess
<1>1. CASE j = p
  <2>1. Behind(w2, p, j, pc) = pc
    BY <1>1 DEF Behind
  <2>2. Leads(c, w2, regs, p, pc)
    BY <1>0, GivesStay
  <2>3. w2[p].tag = w[p].tag /\ w2[p].instr = w[p].instr
    <3>1. p \in 1 .. p
      BY <1>0
    <3> QED BY <3>1 DEF Stay
  <2> QED BY <1>1, <2>1, <2>2, <2>3 DEF Follows
<1>2. CASE j # p
  <2>1. j \in 1 .. p - 1 /\ j \in 1 .. n /\ j + 1 \in 1 .. p /\ j < p /\ j < n
    BY <1>2
  <2>2. Behind(w2, p, j, pc) = Behind(w, n, j, next)
    BY <2>1 DEF Behind, Stay
  <2>3. Follows(c, w, regs, j, open, Behind(w, n, j, next))
    BY <2>1 DEF PathTo
  <2> QED BY <1>0, <2>1, <2>2, <2>3, FollowsStays
<1> QED BY <1>1, <1>2

(* The first instruction retires. *)
LEMMA PathShifts ==
    ASSUME NEW c, NEW w, NEW w2, NEW regs, NEW regs2, NEW n \in Nat,
           Shift(c, w, w2, regs, regs2, n), \A j \in 1 .. n : c[w2[j].instr] \in Instruction(Reg),
           NEW open, NEW next, PathTo(c, w, regs, n + 1, open, next)
    PROVE  PathTo(c, w2, regs2, n, open, next)
<1> SUFFICES ASSUME NEW p \in 1 .. n PROVE Follows(c, w2, regs2, p, open, Behind(w2, n, p, next))
  BY DEF PathTo
<1>0. p + 1 \in 1 .. n + 1 /\ p + 1 # 1 /\ p \in Nat \ {0} /\ (p + 1) - 1 = p
  OBVIOUS
<1>1. Shift(c, w, w2, regs, regs2, p) /\ w2[p] = w[p + 1]
  <2>1. \A j \in 1 .. p : j \in 1 .. n
    OBVIOUS
  <2> QED BY <2>1 DEF Shift
<1>2. Behind(w2, n, p, next) = Behind(w, n + 1, p + 1, next)
  <2>1. p < n => p + 1 \in 1 .. n
    OBVIOUS
  <2>2. p < n <=> p + 1 < n + 1
    OBVIOUS
  <2> QED BY <2>1, <2>2 DEF Behind, Shift
<1>3. Follows(c, w, regs, p + 1, open, Behind(w, n + 1, p + 1, next))
  BY <1>0 DEF PathTo
<1>4. \A pc : Leads(c, w, regs, p + 1, pc) => Leads(c, w2, regs2, p, pc)
  BY <1>0, <1>1, GivesShift
<1> QED BY <1>1, <1>2, <1>3, <1>4 DEF Follows

(* A branch has been found right. *)
LEMMA PathFound ==
    ASSUME NEW c, NEW w, NEW regs, NEW n \in Nat, TagsDiffer(w, n), NEW open, NEW next,
           PathTo(c, w, regs, n, open, next),
           NEW p \in 1 .. n, w[p].tag \in open, Leads(c, w, regs, p, NextOf(w[p].instr))
    PROVE  PathTo(c, w, regs, n, open \ {w[p].tag}, next)
<1> SUFFICES ASSUME NEW j \in 1 .. n
             PROVE  Follows(c, w, regs, j, open \ {w[p].tag}, Behind(w, n, j, next))
  BY DEF PathTo
<1>1. Follows(c, w, regs, j, open, Behind(w, n, j, next))
  BY DEF PathTo
<1>2. CASE j = p
  <2>1. Behind(w, n, j, next) = NextOf(w[j].instr)
    BY <1>1, <1>2 DEF Follows
  <2> QED BY <1>2, <2>1 DEF Follows
<1>3. CASE j # p
  <2>1. w[j].tag # w[p].tag
    BY <1>3 DEF TagsDiffer
  <2> QED BY <1>1, <2>1 DEF Follows
<1> QED BY <1>2, <1>3

(* The steps that change nothing of the path. *)
LEMMA PathKept ==
    ASSUME PathInv, code' = code, reg_file' = reg_file, count' = count, Stay(Items, Items', count),
           OpenBranches' = OpenBranches, Fetched' = Fetched, PC' = PC
    PROVE  PathIsRight'
<1>1. count \in Nat /\ Chained(Fetched, PC)
      /\ PathTo(code, Items, reg_file, count, OpenBranches, First(Fetched, PC))
  BY WindowFacts DEF PathInv, PathIsRight, CoreInv
<1>2. PathTo(code, Items', reg_file, count, OpenBranches, First(Fetched, PC))
  BY <1>1, PathStays
<1> QED BY <1>1, <1>2 DEF PathIsRight

(* and keep what is known of the exit. *)
LEMMA ExitKept ==
    ASSUME PathInv, code' = code, count' = count, Stay(Items, Items', count), Fetched' = Fetched,
           Queued(issue_queue') = Queued(issue_queue), Queued(decode_queue') = Queued(decode_queue),
           exit_pending' = exit_pending, exited' = exited, exited => stage' \notin {"units", "commit"}
    PROVE  ExitIsLast'
<1>1. ExitIsLast
  BY DEF PathInv
<1>2. \A p \in 1 .. count : Items'[p].instr = Items[p].instr
  BY DEF Stay
<1>3. ASSUME NEW p \in 1 .. count', is_exit(code'[Items'[p].instr])
      PROVE  p = count' /\ Fetched' = <<>> /\ exit_pending'
  <2>1. p \in 1 .. count /\ is_exit(code[Items[p].instr])
    BY <1>2, <1>3
  <2> QED BY <1>1, <2>1 DEF ExitIsLast
<1>4. ASSUME NEW pc \in Word, Queued(issue_queue') = <<pc>>, is_exit(code'[pc])
      PROVE  Queued(decode_queue') = <<>> /\ exit_pending'
  BY <1>1, <1>4 DEF ExitIsLast
<1>5. exited' => count' = 0 /\ Fetched' = <<>> /\ exit_pending' /\ stage' \notin {"units", "commit"}
  BY <1>1 DEF ExitIsLast
<1> QED BY <1>3, <1>4, <1>5 DEF ExitIsLast

(* A window that does not change stays. *)
LEMMA StayHere == \A w, n : Stay(w, w, n)
  BY DEF Stay

(* The registers tick. *)
LEMMA PathTicks ==
    ASSUME PathInv, registers_tick
    PROVE  PathIsRight' /\ ExitIsLast'
<1>1. stage' \in Stages /\ ~flush.pending /\ UNCHANGED <<code, renaming, ROB, RS_vars, FUs, CDB, flush, back>>
      /\ ~exited
  BY DEF registers_tick, PathInv, CoreInv, FlushIsRight, Stages
<1>2. OpenBranches' = OpenBranches /\ Items' = Items /\ count' = count
  BY <1>1, BackStays DEF PathInv
<1>3. code' = code /\ reg_file' = reg_file /\ exited' = exited
  BY <1>1 DEF back
<1>4. Stay(Items, Items', count)
  BY <1>2, StayHere
<1>5. /\ Fetched' = Fetched /\ PC' = PC /\ exit_pending' = exit_pending
      /\ Queued(issue_queue') = Queued(issue_queue) /\ Queued(decode_queue') = Queued(decode_queue)
  BY FrontTicks DEF PathInv
<1>6. PathIsRight'
  BY <1>2, <1>3, <1>4, <1>5, PathKept
<1>7. ExitIsLast'
  BY <1>1, <1>2, <1>3, <1>4, <1>5, ExitKept
<1> QED BY <1>6, <1>7

(* The steps of the back end that leave the front end alone. *)
LEMMA FrontKept ==
    ASSUME PathInv, UNCHANGED <<front, issue_queue>>, stage \notin {"registers", "decode", "fetch"}
    PROVE  /\ Fetched' = Fetched /\ PC' = PC /\ exit_pending' = exit_pending
           /\ Queued(issue_queue') = Queued(issue_queue) /\ Queued(decode_queue') = Queued(decode_queue)
<1>1. Fetched' = Fetched /\ PC' = PC
  BY FrontStays DEF PathInv
<1>2. exit_pending' = exit_pending /\ issue_queue' = issue_queue /\ decode_queue' = decode_queue
  BY DEF front
<1> QED BY <1>1, <1>2

(* The units tick: a branch may be found right. *)
LEMMA PathUnits ==
    ASSUME PathInv, units_tick
    PROVE  PathIsRight' /\ ExitIsLast'
<1>0. CoreInv /\ IInv /\ TagsDiffer(Items, count) /\ count \in Nat
  BY WindowFacts DEF PathInv, CoreInv
<1>1. /\ code' = code /\ reg_file' = reg_file /\ exited' = exited /\ UNCHANGED <<front, issue_queue>>
      /\ stage = "units"
  BY DEF units_tick, back
<1>2. Items' = Items /\ count' = count
  BY <1>0, UnitsInv
<1>3. ~exited
  BY <1>1 DEF PathInv, ExitIsLast
<1>4. /\ Fetched' = Fetched /\ PC' = PC /\ exit_pending' = exit_pending
      /\ Queued(issue_queue') = Queued(issue_queue) /\ Queued(decode_queue') = Queued(decode_queue)
  BY <1>1, FrontKept
<1>5. Stay(Items, Items', count)
  BY <1>2, StayHere
<1>6. ExitIsLast'
  BY <1>1, <1>2, <1>3, <1>4, <1>5, ExitKept
<1>7. CASE OpenBranches' = OpenBranches
  BY <1>1, <1>2, <1>4, <1>5, <1>6, <1>7, PathKept
<1>8. CASE OpenBranches' # OpenBranches
  <2> DEFINE input == FUs["BRU"].input
             target == br_target(input)
             t == input.rob_tag
  <2>1. Completing("BRU")
    BY <1>0, <1>8, UnitsBranch
  <2>2. NextOf(input.instr) = target /\ OpenBranches' = OpenBranches \ {t} /\ t \in OpenBranches
    BY <1>0, <1>8, <2>1, UnitsBranch
  <2>3. input.valid
    BY <1>0, <2>1, UnitsTick DEF Units
  <2>4. BranchIs(code, Items, reg_file, count, t, target) /\ InputIs(code, Items, reg_file, count, "BRU", input)
    <3>1. "BRU" \in Units
      BY DEF Units
    <3> QED BY <1>0, <2>3, <3>1, TargetIs DEF CoreInv, PartsAreRight
  <2> HIDE DEF target, t
  <2>5. PICK p \in 1 .. count : Items[p].tag = t /\ Leads(code, Items, reg_file, p, target)
    BY <2>4 DEF BranchIs
  <2>6. PICK q \in 1 .. count : Items[q].tag = t /\ Items[q].instr = input.instr
    BY <2>4 DEF InputIs, t
  <2>7. p = q
    BY <1>0, <2>5, <2>6 DEF TagsDiffer
  <2>8. Leads(code, Items, reg_file, p, NextOf(Items[p].instr))
    BY <2>2, <2>5, <2>6, <2>7
  <2>9. PathTo(code, Items, reg_file, count, OpenBranches, First(Fetched, PC)) /\ Chained(Fetched, PC)
    BY DEF PathInv, PathIsRight
  <2>10. PathTo(code, Items, reg_file, count, OpenBranches \ {t}, First(Fetched, PC))
    BY <1>0, <2>2, <2>5, <2>8, <2>9, PathFound
  <2>11. PathIsRight'
    BY <1>1, <1>2, <1>4, <2>2, <2>9, <2>10 DEF PathIsRight
  <2> QED BY <1>6, <2>11
<1> QED BY <1>7, <1>8

(* commit: the first of the path retires. *)
LEMMA PathCommits ==
    ASSUME PathInv, commit
    PROVE  PathIsRight' /\ ExitIsLast'
<1>0. CoreInv /\ CoreTypes /\ ExitIsLast /\ PathIsRight
  BY DEF PathInv, CoreInv
<1>1. code' = code /\ UNCHANGED <<front, issue_queue>> /\ stage = "commit" /\ stage' = "writeback"
  BY DEF commit
<1>2. /\ Fetched' = Fetched /\ PC' = PC /\ exit_pending' = exit_pending
      /\ Queued(issue_queue') = Queued(issue_queue) /\ Queued(decode_queue') = Queued(decode_queue)
  BY <1>1, FrontKept
<1>3. ~exited /\ OpenBranches' = OpenBranches
  BY <1>0, <1>1, CommitInv DEF ExitIsLast
<1>4. CASE ~retiring
  <2>1. reg_file' = reg_file /\ exited' = exited /\ UNCHANGED ROB
    BY <1>4 DEF commit, back
  <2>2. Items' = Items /\ count' = count
    BY <1>0, <2>1, RingUnchanged DEF CoreInv
  <2>3. Stay(Items, Items', count)
    BY <2>2, StayHere
  <2>4. PathIsRight'
    BY <1>1, <1>2, <1>3, <2>1, <2>2, <2>3, PathKept
  <2>5. ExitIsLast'
    BY <1>1, <1>2, <1>3, <2>1, <2>2, <2>3, ExitKept
  <2> QED BY <2>4, <2>5
<1>5. CASE retiring
  <2> DEFINE n == count'
  <2>1. /\ n \in Nat /\ count = n + 1
        /\ Shift(code, Items, Items', reg_file, reg_file', n)
        /\ exited' = is_exit(code[Items[1].instr])
    BY <1>0, <1>5, RetiredIs
  <2> HIDE DEF n
  <2>2. \A j \in 1 .. n : j + 1 \in 1 .. count /\ Items'[j] = Items[j + 1]
    BY <2>1 DEF Shift
  <2>3. \A j \in 1 .. n : code[Items'[j].instr] \in Instruction(Reg)
    <3>1. \A j \in 1 .. n : Items'[j].instr \in Word
      BY <1>0, <2>2 DEF CoreTypes
    <3> QED BY <1>0, <3>1, CodeFacts
  <2>4. PathTo(code, Items, reg_file, n + 1, OpenBranches, First(Fetched, PC)) /\ Chained(Fetched, PC)
    BY <1>0, <2>1 DEF PathIsRight
  <2>5. PathTo(code, Items', reg_file', n, OpenBranches, First(Fetched, PC))
    BY <2>1, <2>3, <2>4, PathShifts
  <2>6. PathIsRight'
    BY <1>1, <1>2, <1>3, <2>4, <2>5 DEF PathIsRight, n
  <2>7. ASSUME NEW p \in 1 .. n, is_exit(code[Items'[p].instr])
        PROVE  p = n /\ Fetched = <<>> /\ exit_pending
    <3>1. p + 1 \in 1 .. count /\ is_exit(code[Items[p + 1].instr])
      BY <2>2, <2>7
    <3>2. p + 1 = count /\ Fetched = <<>> /\ exit_pending
      BY <1>0, <3>1 DEF ExitIsLast
    <3> QED BY <2>1, <3>2
  <2>8. exited' => n = 0 /\ Fetched = <<>> /\ exit_pending
    <3>1. 1 \in 1 .. count
      BY <2>1
    <3>2. exited' => 1 = count /\ Fetched = <<>> /\ exit_pending
      BY <1>0, <2>1, <3>1 DEF ExitIsLast
    <3> QED BY <2>1, <3>2
  <2>9. \A pc \in Word : Queued(issue_queue) = <<pc>> /\ is_exit(code[pc]) =>
          Queued(decode_queue) = <<>> /\ exit_pending
    BY <1>0 DEF ExitIsLast
  <2>10. ExitIsLast'
    BY <1>1, <1>2, <2>7, <2>8, <2>9 DEF ExitIsLast, n
  <2> QED BY <2>6, <2>10
<1> QED BY <1>4, <1>5

(* The steps of the back end that leave the instructions where they are. *)
LEMMA PathBack ==
    ASSUME PathInv, UNCHANGED <<code, front, issue_queue, back>>, stage' \notin {"units", "commit"},
           stage \notin {"registers", "decode", "fetch"},
           OpenBranches' = OpenBranches, count' = count, Stay(Items, Items', count)
    PROVE  PathIsRight' /\ ExitIsLast'
<1>1. code' = code /\ reg_file' = reg_file /\ exited' = exited
  BY DEF back
<1>2. /\ Fetched' = Fetched /\ PC' = PC /\ exit_pending' = exit_pending
      /\ Queued(issue_queue') = Queued(issue_queue) /\ Queued(decode_queue') = Queued(decode_queue)
  BY FrontKept
<1>3. PathIsRight'
  BY <1>1, <1>2, PathKept
<1>4. ExitIsLast'
  BY <1>1, <1>2, ExitKept
<1> QED BY <1>3, <1>4

(* A flush cuts the path behind the branch and goes on at its target. *)
LEMMA PathFlushes ==
    ASSUME PathInv, flush_stage
    PROVE  PathIsRight' /\ ExitIsLast'
<1>0. CoreInv /\ CoreTypes /\ ExitIsLast /\ PathIsRight /\ count \in Nat
  BY WindowFacts DEF PathInv, CoreInv
<1>1. code' = code /\ reg_file' = reg_file /\ exited' = exited /\ stage' = "bus" /\ stage = "flush"
  BY DEF flush_stage, back
<1>2. CASE ~flush.pending
  <2>1. UNCHANGED <<code, front, issue_queue, back>> /\ UNCHANGED ROB
    BY <1>2 DEF flush_stage
  <2>2. Items' = Items /\ count' = count
    BY <1>0, <2>1, RingUnchanged DEF CoreInv
  <2>3. OpenBranches' = OpenBranches
    BY <1>0, <1>2, FlushInv
  <2>4. Stay(Items, Items', count)
    BY <2>2, StayHere
  <2>5. stage' \notin {"units", "commit"} /\ stage \notin {"registers", "decode", "fetch"}
    BY <1>1
  <2> QED BY <2>1, <2>2, <2>3, <2>4, <2>5, PathBack
<1>3. CASE flush.pending
  <2>1. /\ Fetched' = <<>> /\ PC' = flush.pc /\ Queued(issue_queue') = <<>>
    BY <1>0, <1>3, FrontFlushed
  <2>2. PICK p \in 1 .. count :
              /\ Items[p].tag = flush.rob /\ is_branch(code[Items[p].instr])
              /\ Leads(code, Items, reg_file, p, flush.pc)
              /\ IInv' /\ count' = p /\ p \in Nat /\ count \in Nat /\ p <= count
              /\ \A j \in 1 .. p : Items'[j] = Items[j]
              /\ Stay(Items, Items', p)
              /\ \A j \in 1 .. count : is_rob_younger(Items[j].tag, flush.rob) <=> j > p
    BY <1>0, <1>3, FlushedIs
  <2>3. OpenBranches' = {s \in OpenBranches : s # flush.rob /\ ~is_rob_younger(s, flush.rob)}
    BY <1>0, <1>3, FlushInv
  <2>4. Items[p].tag \notin OpenBranches'
    BY <2>2, <2>3
  <2>5. ASSUME NEW j \in 1 .. p - 1 PROVE Items[j].tag \in OpenBranches' <=> Items[j].tag \in OpenBranches
    <3>1. j \in 1 .. count /\ j # p /\ ~(j > p)
      BY <2>2
    <3>2. Items[j].tag # flush.rob
      BY <2>2, <3>1, WindowFacts DEF TagsDiffer, PathInv, CoreInv
    <3> QED BY <2>2, <2>3, <3>1, <3>2
  <2>6. PathTo(code, Items, reg_file, count, OpenBranches, First(Fetched, PC))
    BY <1>0 DEF PathIsRight
  <2>7. PathTo(code, Items', reg_file, p, OpenBranches', flush.pc)
    BY <1>0, <2>2, <2>4, <2>5, <2>6, PathCut
  <2>8. First(Fetched', PC') = flush.pc /\ Chained(Fetched', PC')
    <3>1. Len(<<>>) = 0
      OBVIOUS
    <3> QED BY <2>1, <3>1 DEF First, Chained
  <2>9. PathIsRight'
    BY <1>1, <2>2, <2>7, <2>8 DEF PathIsRight
  <2>10. ASSUME NEW j \in 1 .. p, is_exit(code[Items'[j].instr]) PROVE FALSE
    <3>1. j \in 1 .. count /\ is_exit(code[Items[j].instr])
      BY <2>2, <2>10
    <3>2. j = count
      BY <1>0, <3>1 DEF ExitIsLast
    <3>3. j = p
      BY <2>2, <3>2
    <3> QED BY <2>2, <3>1, <3>3 DEF is_exit, is_branch, BranchOps, JumpOps
  <2>11. ~exited
    BY <1>0, <2>2 DEF ExitIsLast
  <2>12. \A pc : Queued(issue_queue') # <<pc>>
    BY <2>1
  <2>13. ExitIsLast'
    BY <1>1, <2>2, <2>10, <2>11, <2>12 DEF ExitIsLast
  <2> QED BY <2>9, <2>13
<1> QED BY <1>2, <1>3

(* issue: the path does not change, only the window grows into it. *)
LEMMA PathIssues ==
    ASSUME PathInv, issue
    PROVE  PathIsRight' /\ ExitIsLast'
<1>0. CoreInv /\ ExitIsLast /\ PathIsRight /\ count \in Nat /\ QueuesAreRight /\ FetchIsRight /\ IInv
  BY WindowFacts DEF PathInv, CoreInv
<1>1. /\ code' = code /\ reg_file' = reg_file /\ exited' = exited /\ stage' = "decode"
      /\ PC' = PC /\ exit_pending' = exit_pending /\ UNCHANGED decode_queue
  BY <1>0, FrontIssues DEF issue, back
<1>2. CASE ~issuing
  <2>1. issue_queue' = issue_queue
    BY <1>0, <1>2, FrontIssues
  <2>2. OpenBranches' = OpenBranches /\ Items' = Items /\ count' = count
    BY <1>0, <1>2, IssueInv
  <2>3. Stay(Items, Items', count) /\ Fetched' = Fetched
    BY <1>1, <2>1, <2>2, StayHere DEF Fetched
  <2>4. PathIsRight'
    BY <1>1, <2>2, <2>3, PathKept
  <2>5. ExitIsLast'
    BY <1>1, <2>1, <2>2, <2>3, ExitKept
  <2> QED BY <2>4, <2>5
<1>3. CASE issuing
  <2> DEFINE pc == fifo_data(issue_queue)
             rest == Queued(decode_queue)
  <2>1. Queued(issue_queue) = <<pc>> /\ Queued(issue_queue') = <<>>
    BY <1>0, <1>3, FrontIssues
  <2>2. /\ pc \in Word /\ count' = count + 1
        /\ \A j \in 1 .. count : Items'[j] = Items[j]
        /\ Stay(Items, Items', count)
        /\ Items'[count + 1] = [tag |-> next_tag, instr |-> pc, ready |-> FALSE, result |-> NULL]
        /\ OpenBranches' = OpenBranches \cup (IF is_branch(code[pc]) THEN {next_tag} ELSE {})
    BY <1>0, <1>3, IssueInv
  <2> HIDE DEF pc
  <2>3. rest \in Seq(Word) /\ PC \in Word
    <3>1. rest \in Pcs /\ PC \in Word
      BY <1>0, FetchedIs
    <3>2. <<>> \in Seq(Word) /\ \A x \in Word : <<x>> \in Seq(Word)
      OBVIOUS
    <3> QED BY <3>1, <3>2, Zenon DEF Pcs
  <2>4. Fetched = <<pc>> \o rest /\ Fetched' = rest
    <3>1. Fetched = <<pc>> \o rest /\ Fetched' = <<>> \o rest
      BY <1>1, <2>1 DEF Fetched
    <3> HIDE DEF rest
    <3>2. <<>> \o rest = rest
      BY <2>3
    <3> QED BY <3>1, <3>2
  <2>5. Chained(Fetched, PC) /\ PathTo(code, Items, reg_file, count, OpenBranches, First(Fetched, PC))
    BY <1>0 DEF PathIsRight
  <2>6. Chained(rest, PC) /\ First(Fetched, PC) = pc /\ First(rest, PC) = NextOf(pc)
    <3> HIDE DEF rest
    <3>1. Chained(<<pc>> \o rest, PC)
      BY <2>4, <2>5
    <3> QED BY <2>2, <2>3, <2>4, <3>1, ChainMoves
  <2>7. \A j \in 1 .. count : Items[j].tag # next_tag
    <3>1. allocate(pc) /\ pc \in Instr
      BY <1>3, <2>2, CoreAssumption DEF issue, issuing, pc
    <3> QED BY <1>0, <3>1, Allocated
  <2>8. PathTo(code, Items', reg_file, count + 1, OpenBranches', NextOf(pc))
    <3>1. Items'[count + 1].tag = next_tag /\ Items'[count + 1].instr = pc
      BY <2>2
    <3>2. PathTo(code, Items, reg_file, count, OpenBranches, pc)
      BY <2>5, <2>6
    <3> DEFINE open2 == OpenBranches'
               w2 == Items'
               n2 == count + 1
    <3>3. open2 = OpenBranches \cup (IF is_branch(code[pc]) THEN {next_tag} ELSE {}) /\ Stay(Items, w2, count)
      BY <2>2
    <3>4. w2[n2].tag = next_tag /\ w2[n2].instr = pc /\ n2 = count + 1
      BY <3>1
    <3> HIDE DEF open2, w2, n2
    <3>5. PathTo(code, w2, reg_file, n2, open2, NextOf(pc))
      BY <1>0, <2>7, <3>2, <3>3, <3>4, PathGrows
    <3> QED BY <3>5 DEF open2, w2, n2
  <2>9. PathIsRight'
    BY <1>1, <2>2, <2>4, <2>6, <2>8 DEF PathIsRight
  <2>10. Fetched # <<>>
    BY <2>3, <2>4
  <2>11. ASSUME NEW p \in 1 .. count + 1, is_exit(code[Items'[p].instr])
         PROVE  p = count + 1 /\ rest = <<>> /\ exit_pending
    <3>1. CASE p = count + 1
      <4>1. is_exit(code[pc])
        BY <2>2, <2>11, <3>1
      <4> QED BY <1>0, <2>1, <2>2, <3>1, <4>1 DEF ExitIsLast
    <3>2. CASE p # count + 1
      <4>1. p \in 1 .. count
        BY <1>0, <3>2
      <4> QED BY <1>0, <2>2, <2>10, <2>11, <4>1 DEF ExitIsLast
    <3> QED BY <3>1, <3>2
  <2>12. ~exited
    BY <1>0, <2>10 DEF ExitIsLast
  <2>13. \A x : Queued(issue_queue') # <<x>>
    BY <2>1
  <2>14. ExitIsLast'
    BY <1>1, <2>2, <2>4, <2>11, <2>12, <2>13 DEF ExitIsLast
  <2> QED BY <2>9, <2>14
<1> QED BY <1>2, <1>3

(* The steps of the front end leave the window alone. *)
LEMMA WindowKept ==
    ASSUME PathInv, UNCHANGED <<code, renaming, ROB, RS_vars, FUs, CDB, flush, back>>,
           stage \notin {"units", "commit", "writeback", "flush"}, stage' \in Stages
    PROVE  /\ code' = code /\ reg_file' = reg_file /\ exited' = exited
           /\ OpenBranches' = OpenBranches /\ Items' = Items /\ count' = count
           /\ Stay(Items, Items', count)
<1>1. ~flush.pending
  BY DEF PathInv, CoreInv, FlushIsRight
<1>2. OpenBranches' = OpenBranches /\ Items' = Items /\ count' = count
  BY <1>1, BackStays DEF PathInv
<1>3. Stay(Items, Items', count)
  BY <1>2, StayHere
<1> QED BY <1>2, <1>3 DEF back

(* decode: an exit that is decoded is the last to be fetched. *)
LEMMA PathDecodes ==
    ASSUME PathInv, decode
    PROVE  PathIsRight' /\ ExitIsLast'
<1>0. CoreInv /\ ExitIsLast /\ PathIsRight /\ QueuesAreRight /\ FetchIsRight
  BY DEF PathInv, CoreInv
<1>1. /\ UNCHANGED <<code, renaming, ROB, RS_vars, FUs, CDB, flush, back>>
      /\ stage = "decode" /\ stage' = "fetch" /\ stage' \in Stages
  BY DEF decode, Stages
<1>2. /\ code' = code /\ reg_file' = reg_file /\ exited' = exited
      /\ OpenBranches' = OpenBranches /\ Items' = Items /\ count' = count
      /\ Stay(Items, Items', count)
  BY <1>1, WindowKept
<1>3. PC' = PC /\ Fetched' = Fetched
  BY <1>0, FrontDecodes
<1>4. PathIsRight'
  BY <1>2, <1>3, PathKept
<1>5. CASE ~decoding
  <2>1. UNCHANGED <<issue_queue, exit_pending, decode_queue>>
    BY <1>0, <1>5, FrontDecodes DEF decode, decoding
  <2>2. ExitIsLast'
    BY <1>1, <1>2, <1>3, <2>1, ExitKept
  <2> QED BY <1>4, <2>2
<1>6. CASE decoding
  <2> DEFINE x == fifo_data(decode_queue)
  <2>1. /\ Queued(issue_queue) = <<>> /\ Fetched = <<x>> /\ Queued(issue_queue') = <<x>>
        /\ exit_pending' = (exit_pending \/ is_exit(code[x]))
    BY <1>0, <1>6, FrontDecodes
  <2> HIDE DEF x
  <2>2. Fetched # <<>>
    BY <2>1
  <2>3. Queued(decode_queue') = <<>>
    <3>1. Fetched' = <<x>> \o Queued(decode_queue')
      BY <2>1 DEF Fetched
    <3>2. <<x>> = <<x>> \o Queued(decode_queue')
      BY <1>3, <2>1, <3>1
    <3>3. Queued(decode_queue') \in Pcs
      <4>1. QueueIs(decode_queue') /\ QueueIs(issue_queue')
        BY <1>0, FrontDecodes DEF QueuesAreRight
      <4> QED BY <4>1, QueuedIs
    <3>4. CASE Queued(decode_queue') = <<>>
      BY <3>4
    <3>5. ASSUME NEW y \in Word, Queued(decode_queue') = <<y>> PROVE FALSE
      <4>1. Len(<<x>> \o <<y>>) = 2 /\ Len(<<x>>) = 1
        OBVIOUS
      <4> QED BY <3>2, <3>5, <4>1
    <3> QED BY <3>3, <3>4, <3>5 DEF Pcs
  <2>4. ASSUME NEW p \in 1 .. count PROVE ~is_exit(code[Items[p].instr])
    BY <1>0, <2>2 DEF ExitIsLast
  <2>5. ~exited
    BY <1>0, <2>2 DEF ExitIsLast
  <2>6. ASSUME NEW pc \in Word, Queued(issue_queue') = <<pc>>, is_exit(code[pc])
        PROVE  exit_pending'
    <3>1. pc = x
      <4>1. <<pc>> = <<x>>
        BY <2>1, <2>6
      <4> QED BY <4>1
    <3> QED BY <2>1, <2>6, <3>1
  <2>7. ExitIsLast'
    BY <1>2, <2>3, <2>4, <2>5, <2>6 DEF ExitIsLast
  <2> QED BY <1>4, <2>7
<1> QED BY <1>5, <1>6

(* What is fetched comes last. *)
LEMMA QueueGrows ==
    ASSUME QueuesAreRight, FetchIsRight, issue_queue' = issue_queue,
           Queued(decode_queue) = <<>>, NEW pc, Queued(decode_queue') = <<pc>>
    PROVE  Fetched' = Fetched \o <<pc>>
<1>1. Fetched = Queued(issue_queue) \o <<>> /\ Fetched' = Queued(issue_queue) \o <<pc>>
  BY DEF Fetched
<1>2. <<>> \o <<>> = <<>> /\ \A x : <<x>> \o <<>> = <<x>>
  OBVIOUS
<1>3. Queued(issue_queue) \in Pcs
  BY FetchedIs
<1>4. Queued(issue_queue) \o <<>> = Queued(issue_queue)
  BY <1>2, <1>3, Zenon DEF Pcs
<1> QED BY <1>1, <1>4

(* fetch: the path gets the instruction at PC and what is predicted behind it. *)
LEMMA PathFetches ==
    ASSUME PathInv, fetch
    PROVE  PathIsRight' /\ ExitIsLast'
<1>0. CoreInv /\ ExitIsLast /\ PathIsRight /\ QueuesAreRight /\ FetchIsRight
  BY DEF PathInv, CoreInv
<1>1. /\ UNCHANGED <<code, renaming, ROB, RS_vars, FUs, CDB, flush, back>>
      /\ stage = "fetch" /\ stage' = "registers" /\ stage' \in Stages
  BY DEF fetch, Stages
<1>2. /\ code' = code /\ reg_file' = reg_file /\ exited' = exited
      /\ OpenBranches' = OpenBranches /\ Items' = Items /\ count' = count
      /\ Stay(Items, Items', count)
  BY <1>1, WindowKept
<1>3. issue_queue' = issue_queue /\ exit_pending' = exit_pending
  BY <1>0, FrontFetches
<1>4. CASE decode_queue' = decode_queue /\ PC' = PC
  <2>1. Fetched' = Fetched
    BY <1>3, <1>4 DEF Fetched
  <2>2. PathIsRight'
    BY <1>2, <1>4, <2>1, PathKept
  <2>3. ExitIsLast'
    BY <1>1, <1>2, <1>3, <1>4, <2>1, ExitKept
  <2> QED BY <2>2, <2>3
<1>5. CASE /\ Queued(decode_queue) = <<>> /\ Queued(decode_queue') = <<PC>>
           /\ PC' = NextOf(PC) /\ ~exit_pending
  <2>1. Fetched \in Seq(Word) /\ PC \in Word /\ Queued(issue_queue) \in Pcs
    BY <1>0, FetchedIs
  <2>2. Fetched' = Fetched \o <<PC>>
    BY <1>0, <1>3, <1>5, QueueGrows
  <2>3. Chained(Fetched, PC) /\ PathTo(code, Items, reg_file, count, OpenBranches, First(Fetched, PC))
    BY <1>0 DEF PathIsRight
  <2>4. Chained(Fetched', PC') /\ First(Fetched', PC') = First(Fetched, PC)
    BY <1>5, <2>1, <2>2, <2>3, ChainGrows
  <2>5. PathIsRight'
    BY <1>2, <2>3, <2>4 DEF PathIsRight
  <2>6. ASSUME NEW p \in 1 .. count PROVE ~is_exit(code[Items[p].instr])
    BY <1>0, <1>5 DEF ExitIsLast
  <2>7. ~exited
    BY <1>0, <1>5 DEF ExitIsLast
  <2>8. ASSUME NEW pc \in Word, Queued(issue_queue) = <<pc>> PROVE ~is_exit(code[pc])
    BY <1>0, <1>5, <2>8 DEF ExitIsLast
  <2>9. ExitIsLast'
    BY <1>2, <1>3, <2>6, <2>7, <2>8 DEF ExitIsLast
  <2> QED BY <2>5, <2>9
<1> QED BY <1>0, <1>4, <1>5, FrontFetches

(* No step of the core breaks PathInv, *)
LEMMA PathStep == PathInv /\ [CoreNext]_core_vars => PathInv'
<1> SUFFICES ASSUME PathInv, [CoreNext]_core_vars PROVE PathInv'
  OBVIOUS
<1>0. CoreInv /\ IInv /\ FlushIsRight
  BY DEF PathInv, CoreInv
<1>1. CoreInv'
  BY <1>0, CoreStep
<1>2. CASE writeback
  <2>1. /\ UNCHANGED <<code, front, issue_queue, back>>
        /\ stage' \notin {"units", "commit"} /\ stage \notin {"registers", "decode", "fetch"}
    BY <1>2 DEF writeback
  <2>2. OpenBranches' = OpenBranches /\ count' = count /\ Stay(Items, Items', count)
    BY <1>0, <1>2, WritebackInv
  <2> QED BY <1>1, <2>1, <2>2, PathBack DEF PathInv
<1>3. CASE bus
  <2>1. /\ UNCHANGED <<code, front, issue_queue, back>>
        /\ stage' \notin {"units", "commit"} /\ stage \notin {"registers", "decode", "fetch"}
    BY <1>3 DEF bus
  <2>2. OpenBranches' = OpenBranches /\ count' = count /\ Stay(Items, Items', count)
    BY <1>0, <1>3, BusInv, StayHere
  <2> QED BY <1>1, <2>1, <2>2, PathBack DEF PathInv
<1>4. ASSUME NEW index \in Station, schedule(index) PROVE PathInv'
  <2>1. /\ UNCHANGED <<code, front, issue_queue, back>>
        /\ stage' \notin {"units", "commit"} /\ stage \notin {"registers", "decode", "fetch"}
    BY <1>4 DEF schedule
  <2>2. OpenBranches' = OpenBranches /\ count' = count /\ Stay(Items, Items', count)
    BY <1>0, <1>4, ScheduleInv, StayHere
  <2> QED BY <1>1, <2>1, <2>2, PathBack DEF PathInv
<1>5. CASE scheduled
  <2>1. /\ UNCHANGED <<code, front, issue_queue, back>>
        /\ stage' \notin {"units", "commit"} /\ stage \notin {"registers", "decode", "fetch"}
    BY <1>5 DEF scheduled
  <2>2. /\ UNCHANGED <<code, renaming, ROB, RS_vars, FUs, CDB, flush, back>>
        /\ stage = "schedule" /\ stage' \in Stages
    BY <1>5 DEF scheduled, Stages
  <2>3. OpenBranches' = OpenBranches /\ count' = count /\ Stay(Items, Items', count)
    BY <2>2, WindowKept
  <2> QED BY <1>1, <2>1, <2>3, PathBack DEF PathInv
<1>6. CASE UNCHANGED core_vars
  <2>1. /\ UNCHANGED <<code, renaming, ROB, RS_vars, FUs, CDB, flush, back>>
        /\ UNCHANGED <<PC, exit_pending, decode_queue, issue_queue, stage, code, reg_file, exited>>
        /\ UNCHANGED <<RS_store, RS_indices, RS_next_index, FUs, flush>> /\ UNCHANGED ROB
    BY <1>6 DEF core_vars, front, back, RS_vars
  <2>2. Items' = Items /\ count' = count
    BY <1>0, <2>1, RingUnchanged
  <2>3. OpenBranches' = OpenBranches
    <3>1. Busy' = Busy
      BY <2>1 DEF Busy
    <3> QED BY <2>1, <3>1, OpenUnchanged
  <2>4. Stay(Items, Items', count) /\ Fetched' = Fetched
    BY <2>1, <2>2, StayHere DEF Fetched
  <2>5. PathIsRight'
    BY <2>1, <2>2, <2>3, <2>4, PathKept
  <2>6. exited => stage \notin {"units", "commit"}
    BY DEF PathInv, ExitIsLast
  <2>7. ExitIsLast'
    BY <2>1, <2>2, <2>4, <2>6, ExitKept
  <2> QED BY <1>1, <2>5, <2>7 DEF PathInv
<1>7. CASE registers_tick
  BY <1>1, <1>7, PathTicks DEF PathInv
<1>8. CASE units_tick
  BY <1>1, <1>8, PathUnits DEF PathInv
<1>9. CASE commit
  BY <1>1, <1>9, PathCommits DEF PathInv
<1>10. CASE flush_stage
  BY <1>1, <1>10, PathFlushes DEF PathInv
<1>11. CASE issue
  BY <1>1, <1>11, PathIssues DEF PathInv
<1>12. CASE decode
  BY <1>1, <1>12, PathDecodes DEF PathInv
<1>13. CASE fetch
  BY <1>1, <1>13, PathFetches DEF PathInv
<1> QED BY <1>2, <1>3, <1>4, <1>5, <1>6, <1>7, <1>8, <1>9, <1>10, <1>11, <1>12, <1>13 DEF CoreNext, Done

(* which holds at first. *)
LEMMA PathInit == CoreInit => PathInv
<1> SUFFICES ASSUME CoreInit PROVE PathInv
  OBVIOUS
<1>1. CoreInv /\ count = 0 /\ ~exited
  BY CoreInitInv DEF CoreInit, Init
<1>2. Fetched = <<>> /\ Queued(issue_queue) = <<>>
  <2>1. <<>> \o <<>> = <<>>
    OBVIOUS
  <2> QED BY <2>1, EmptyQueue DEF CoreInit, Fetched
<1>3. PathIsRight
  <2>1. Len(<<>>) = 0
    OBVIOUS
  <2> QED BY <1>1, <1>2, <2>1 DEF PathIsRight, Chained, PathTo
<1>4. ExitIsLast
  <2>1. \A x : <<>> # <<x>>
    OBVIOUS
  <2> QED BY <1>1, <1>2, <2>1 DEF ExitIsLast
<1> QED BY <1>1, <1>3, <1>4 DEF PathInv

(***************************************************************************)
(* The core implements the machine of SequentialISA: the retirement of an  *)
(* instruction is its step, and every other step of the core a stutter.    *)
(***************************************************************************)
Ahead == IF count = 0 THEN First(Fetched, PC) ELSE Items[1].instr

(* Ahead is NextPC. *)
LEMMA NextIs == CoreInv => NextPC = Ahead
<1> SUFFICES ASSUME CoreInv PROVE NextPC = Ahead
  OBVIOUS
<1>1. IInv /\ Fetched \in Seq(Word)
  BY FetchedIs DEF CoreInv
<1>2. CASE count = 0
  BY <1>1, <1>2 DEF NextPC, Ahead, First, Fetched, empty
<1>3. CASE count # 0
  <2>1. store[head_index].instr = Items[1].instr
    BY <1>1, <1>3, HeadFacts
  <2> QED BY <1>3, <2>1 DEF NextPC, Ahead, empty
<1> QED BY <1>2, <1>3

(* The head of the window has nothing older in it: it read the register file. *)
LEMMA HeadReads ==
    ASSUME NEW c, NEW w, NEW regs, regs[0] = 0, NEW v1, NEW v2, Sources(c, w, regs, 1, v1, v2),
           ~is_load(c[w[1].instr]), ~is_store(c[w[1].instr])
    PROVE  v1 = Source1(c[w[1].instr], regs) /\ v2 = Source2(c[w[1].instr], regs, 0)
<1> DEFINE i == c[w[1].instr]
<1>1. ASSUME NEW used, NEW r, NEW v, Holds(c, w, regs, 1, used, r, v)
      PROVE  v = Source(used, r, regs)
  <2>1. CASE used
    <3>1. Reads(c, w, regs, 1, r, v)
      BY <1>1, <2>1 DEF Holds
    <3>2. PICK k \in 0 .. 1 - 1 : v = IF k = 0 THEN regs[r] ELSE w[k].result
      BY <3>1, Zenon DEF Reads
    <3>3. v = regs[r]
      BY <3>2
    <3> QED BY <2>1, <3>3 DEF Source
  <2>2. CASE ~used
    BY <1>1, <2>2 DEF Holds, Source
  <2> QED BY <2>1, <2>2
<1>2. v1 = Source(use_rs1(i), i.rs1, regs) /\ v2 = Source(use_rs2(i), i.rs2, regs)
  BY <1>1 DEF Sources
<1>3. is_csr(i) => ~use_rs2(i)
  BY DEF is_csr, use_rs2, CsrOps, RegOps, BranchOps
<1> QED BY <1>2, <1>3 DEF Source1, Source2, Source

(* What the retirement of the head does. *)
LEMMA RetiresHead ==
    ASSUME PathInv, commit, retiring
    PROVE  LET pc == Ahead
               i  == code[pc]
           IN  /\ pc \in Word /\ i \in Instruction(Reg) /\ ~is_load(i) /\ ~is_store(i)
               /\ reg_file \in [Reg -> Word] /\ reg_file[0] = 0
               /\ \E value : /\ reg_file' = WrittenTo(reg_file, i, value)
                             /\ value = CASE is_branch(i) -> Wrap(pc + 1)
                                          [] is_csr(i)    -> 0
                                          [] OTHER        -> Computed(i, reg_file, 0, pc)
               /\ Ahead' = Successor(i, reg_file, pc)
               /\ ~exited /\ exited' = is_exit(i) /\ code' = code
<1> DEFINE pc == Items[1].instr
           i  == code[pc]
           n  == count'
<1>0. CoreInv /\ CoreTypes /\ ExitIsLast /\ PathIsRight /\ IInv /\ PartsAreRight /\ FlushIsRight
  BY DEF PathInv, CoreInv
<1>1. /\ n \in Nat /\ count = n + 1
      /\ Items[1].ready /\ 1 \in 1 .. count
      /\ Shift(code, Items, Items', reg_file, reg_file', n)
      /\ reg_file' \in [Reg -> Word]
      /\ exited' = is_exit(i)
  BY <1>0, RetiredIs
<1> HIDE DEF n
<1>2. Ahead = pc /\ pc \in Word /\ i \in Instruction(Reg) /\ ~is_load(i) /\ ~is_store(i)
  <2>1. count # 0 /\ pc \in Word
    BY <1>0, <1>1 DEF CoreTypes
  <2> QED BY <1>0, <2>1, CodeFacts DEF Ahead
<1>3. reg_file \in [Reg -> Word] /\ reg_file[0] = 0
  BY <1>0 DEF CoreTypes
<1>4. code' = code /\ UNCHANGED <<front, issue_queue>> /\ stage = "commit"
  BY DEF commit
<1>5. Fetched' = Fetched /\ PC' = PC
  BY <1>4, FrontKept
<1>6. ~exited
  BY <1>0, <1>4 DEF ExitIsLast
<1> DEFINE next == Behind(Items, count, 1, First(Fetched, PC))
<1>7. Ahead' = next
  <2>1. CASE n = 0
    BY <1>1, <1>5, <2>1 DEF Ahead, Behind, n
  <2>2. CASE n # 0
    <3>1. 1 \in 1 .. n /\ 1 < count
      BY <1>1, <2>2
    <3>2. Items'[1] = Items[2]
      BY <1>1, <3>1 DEF Shift
    <3> QED BY <2>2, <3>1, <3>2 DEF Ahead, Behind, n
  <2> QED BY <2>1, <2>2
<1> DEFINE v1 == Source1(i, reg_file)
           v2 == Source2(i, reg_file, 0)
<1>8. next = Successor(i, reg_file, pc)
  <2>1. Follows(code, Items, reg_file, 1, OpenBranches, next)
    BY <1>0, <1>1 DEF PathIsRight, PathTo
  <2>2. Items[1].tag \notin OpenBranches
    <3> SUFFICES ASSUME Items[1].tag \in OpenBranches PROVE FALSE
      OBVIOUS
    <3>1. PICK p \in 1 .. count : Items[p].tag = Items[1].tag /\ ~Items[p].ready
      BY <1>0, OpenIsCarried
    <3>2. p = 1
      BY <1>0, <1>1, <3>1, WindowFacts DEF TagsDiffer
    <3> QED BY <1>1, <3>1, <3>2
  <2> HIDE DEF next
  <2>3. CASE is_branch(i)
    <3>1. Leads(code, Items, reg_file, 1, next)
      BY <2>1, <2>2, <2>3 DEF Follows
    <3>2. PICK x1 \in Word, x2 \in Word : Sources(code, Items, reg_file, 1, x1, x2) /\ next = Goes(code, pc, x1, x2)
      BY <3>1, Zenon DEF Leads
    <3>3. x1 = v1 /\ x2 = v2
      BY <1>2, <1>3, <3>2, HeadReads
    <3>4. next = Goes(code, pc, v1, v2)
      BY <3>2, <3>3
    <3> QED BY <3>4 DEF Goes, Successor, Taken, Target, Computed, NextOf
  <2>4. CASE ~is_branch(i)
    <3>1. next = NextOf(pc)
      BY <2>1, <2>4 DEF Follows
    <3> QED BY <2>4, <3>1 DEF Successor, Taken, NextOf
  <2> QED BY <2>3, <2>4
<1> DEFINE value == Items[1].result
<1>9. value = CASE is_branch(i) -> Wrap(pc + 1)
                [] is_csr(i)    -> 0
                [] OTHER        -> Computed(i, reg_file, 0, pc)
  <2>1. Gives(code, Items, reg_file, 1, value)
    BY <1>0, <1>1 DEF PartsAreRight, CompleteAre
  <2>2. PICK x1 \in Word, x2 \in Word : Sources(code, Items, reg_file, 1, x1, x2) /\ value = Outcome(code, pc, x1, x2)
    BY <2>1, Zenon DEF Gives
  <2>3. x1 = v1 /\ x2 = v2
    BY <1>2, <1>3, <2>2, HeadReads
  <2>4. value = Outcome(code, pc, v1, v2)
    BY <2>2, <2>3
  <2> HIDE DEF value
  <2>5. ~(is_branch(i) /\ is_csr(i))
    BY DEF is_branch, is_csr, BranchOps, JumpOps, CsrOps
  <2>6. alu_unit(i, v1, v2, pc) = Computed(i, reg_file, 0, pc)
    BY DEF Computed
  <2> HIDE DEF v1, v2, i, pc
  <2>7. CASE is_branch(i)
    <3>1. FUType(i) = "BRU"
      BY <2>5, <2>7 DEF FUType
    <3> QED BY <2>4, <2>5, <2>7, <3>1 DEF Outcome, NextOf, i
  <2>8. CASE is_csr(i)
    <3>1. FUType(i) = "SFU"
      BY <2>5, <2>8 DEF FUType
    <3> QED BY <2>4, <2>5, <2>8, <3>1 DEF Outcome, get_csr, i
  <2>9. CASE ~is_branch(i) /\ ~is_csr(i)
    <3>1. FUType(i) = "ALU"
      BY <2>9 DEF FUType
    <3> QED BY <2>4, <2>6, <2>9, <3>1 DEF Outcome, i
  <2> QED BY <2>7, <2>8, <2>9
<1>10. reg_file' = WrittenTo(reg_file, i, value)
  <2>1. \A r \in Reg : reg_file'[r] = IF writes(i) /\ i.rd = r THEN value ELSE reg_file[r]
    BY <1>1 DEF Shift, WritesTo
  <2>2. i.rd \in Reg
    BY <1>2 DEF Instruction
  <2> HIDE DEF i, value
  <2>3. CASE writes(i)
    BY <1>1, <1>3, <2>1, <2>2, <2>3 DEF writes, WrittenTo
  <2>4. CASE ~writes(i)
    BY <1>1, <1>3, <2>1, <2>4 DEF writes, WrittenTo
  <2> QED BY <2>3, <2>4
<1> HIDE DEF i, pc, next, value
<1>11. \E v : /\ reg_file' = WrittenTo(reg_file, i, v)
              /\ v = CASE is_branch(i) -> Wrap(pc + 1)
                       [] is_csr(i)    -> 0
                       [] OTHER        -> Computed(i, reg_file, 0, pc)
  BY <1>9, <1>10, Zenon
<1>12. i = code[pc]
  BY DEF i
<1> QED BY <1>1, <1>2, <1>3, <1>4, <1>6, <1>7, <1>8, <1>11, <1>12, Zenon

(* The machine of SequentialISA computes with the same arithmetic. *)
LEMMA SameArithmetic ==
    /\ ISA!Word = Word
    /\ \A a : ISA!Wrap(a) = Wrap(a) /\ ISA!Signed(a) = Signed(a) /\ ISA!Flag(a) = Flag(a)
    /\ \A a, b : /\ ISA!BitAnd(a, b) = BitAnd(a, b)
                 /\ ISA!BitOr(a, b) = BitOr(a, b)
                 /\ ISA!BitXor(a, b) = BitXor(a, b)
<1>1. \A a : ISA!Wrap(a) = Wrap(a) /\ ISA!Signed(a) = Signed(a) /\ ISA!Flag(a) = Flag(a)
  BY DEF ISA!Wrap, Wrap, ISA!Signed, Signed, ISA!Flag, Flag, ISA!WordSize, WordSize
<1>2. \A a, b : ISA!BitAnd(a, b) = BitAnd(a, b) /\ ISA!BitXor(a, b) = BitXor(a, b)
  BY DEF ISA!BitAnd, BitAnd, ISA!BitXor, BitXor, ISA!FromBits, FromBits, ISA!Bit, Bit
<1>3. \A a : ISA!BitNot(a) = BitNot(a)
  BY DEF ISA!BitNot, BitNot, ISA!WordSize, WordSize
<1>4. \A a, b : ISA!BitOr(a, b) = BitOr(a, b)
  BY <1>2, <1>3, Zenon DEF ISA!BitOr, BitOr
<1> QED BY <1>1, <1>2, <1>4 DEF ISA!Word, Word, ISA!WordSize, WordSize

NoMemory == [a \in Word |-> 0]

(* The core's initial states are the machine's. *)
LEMMA CoreInitRefines == CoreInit => ISA!Init
<1> SUFFICES ASSUME CoreInit PROVE ISA!Init
  OBVIOUS
<1>1. NextPC = 0
  <2>1. CoreInv /\ count = 0 /\ PC = 0
    BY CoreInitInv DEF CoreInit, Init
  <2>2. Fetched = <<>>
    <3>1. <<>> \o <<>> = <<>>
      OBVIOUS
    <3> QED BY <3>1, EmptyQueue DEF CoreInit, Fetched
  <2> QED BY <2>1, <2>2, NextIs DEF Ahead, First
<1>2. NoMemory \in [Word -> Word]
  BY WordFacts DEF NoMemory
<1> QED BY <1>1, <1>2, SameArithmetic DEF ISA!Init, CoreInit, NoMemory

(* The retirement of the head is the machine's step. *)
LEMMA RetirementRefines ==
    ASSUME PathInv, NextPC = Ahead, NextPC' = Ahead', commit, retiring
    PROVE  ISA!Step
<1> DEFINE i  == ISA!I
           x1 == ISA!x1
           x2 == ISA!x2
<1>0. /\ NextPC \in Word /\ i = code[Ahead] /\ i \in Instruction(Reg) /\ ~is_load(i) /\ ~is_store(i)
      /\ reg_file \in [Reg -> Word] /\ reg_file[0] = 0
      /\ x1 = reg_file[i.rs1] /\ x2 = reg_file[i.rs2]
  BY RetiresHead DEF ISA!I, ISA!x1, ISA!x2
<1>1. i.op \in Ops
  BY <1>0 DEF Instruction
<1>2. NextPC' = Successor(i, reg_file, NextPC)
  BY <1>0, RetiresHead
<1>3. ~exited /\ exited' = (i.op = "ECALL") /\ UNCHANGED code
  BY <1>0, RetiresHead DEF is_exit
<1> DEFINE computed == Computed(i, reg_file, 0, NextPC)
<1>4. PICK value : /\ reg_file' = WrittenTo(reg_file, i, value)
                   /\ value = CASE is_branch(i) -> Wrap(NextPC + 1)
                                [] is_csr(i)    -> 0
                                [] OTHER        -> computed
  <2>1. i = code[Ahead] /\ NextPC = Ahead
    BY <1>0
  <2> HIDE DEF i
  <2> QED BY <2>1, RetiresHead
<1>5. ISA!Link = Wrap(NextPC + 1)
  BY SameArithmetic DEF ISA!Link
<1>6. use_rd(i) => reg_file' = ISA!Written(value)
  <2>1. reg_file' = WrittenTo(reg_file, i, value)
    BY <1>4
  <2>2. use_rd(i) => reg_file' = IF i.rd = 0 THEN reg_file ELSE [reg_file EXCEPT ![i.rd] = value]
    <3> HIDE DEF i
    <3> QED BY <2>1 DEF WrittenTo
  <2>3. ISA!Written(value) = IF i.rd = 0 THEN reg_file ELSE [reg_file EXCEPT ![i.rd] = value]
    BY Zenon DEF ISA!Written
  <2> HIDE DEF i
  <2> QED BY <2>2, <2>3
<1>7. ~use_rd(i) => reg_file' = reg_file
  BY <1>4 DEF WrittenTo
<1>8. i.op \notin BranchOps \cup JumpOps => NextPC' = ISA!Link
  BY <1>0, <1>2, <1>5, TakenIs DEF Successor
<1>9. /\ i.op \in {"JALR"} => computed = ISA!Wrap(x1 + i.imm)
      /\ i.op \in {"JAL"} \cup BranchOps => computed = ISA!Wrap(NextPC + i.imm)
      /\ i.op \in RegOps \cup ImmOps \cup UpperOps => computed = ISA!Result
  <2>1. computed =
           CASE i.op = "ADD"   -> Wrap(x1 + x2)
             [] i.op = "SUB"   -> Wrap(x1 - x2)
             [] i.op = "AND"   -> BitAnd(x1, x2)
             [] i.op = "OR"    -> BitOr(x1, x2)
             [] i.op = "XOR"   -> BitXor(x1, x2)
             [] i.op = "SLT"   -> Flag(Signed(x1) < Signed(x2))
             [] i.op = "SLTU"  -> Flag(x1 < x2)
             [] i.op = "SLTIU" -> Flag(x1 < i.imm)
             [] i.op = "LUI"   -> i.imm
             [] i.op \in {"ADDI", "LW", "SW", "JALR"}    -> Wrap(x1 + i.imm)
             [] i.op \in {"AUIPC", "JAL"} \cup BranchOps -> Wrap(NextPC + i.imm)
             [] OTHER -> computed
    BY <1>0, ComputedIs
  <2> HIDE DEF i, x1, x2, computed
  <2>2. /\ i.op \in {"JALR"} => computed = Wrap(x1 + i.imm)
        /\ i.op \in {"JAL"} \cup BranchOps => computed = Wrap(NextPC + i.imm)
    BY <2>1 DEF BranchOps
  <2>3. i.op \in RegOps \cup ImmOps \cup UpperOps => computed = ISA!Result
    BY <2>1, SameArithmetic DEF RegOps, ImmOps, UpperOps, BranchOps, ISA!Result, i, x1, x2
  <2> QED BY <2>2, <2>3, SameArithmetic
<1>10. i.op \in BranchOps => (Taken(i, reg_file) <=> ISA!Taken)
  <2>1. /\ i.op = "BEQ"  => (Taken(i, reg_file) <=> x1 = x2)
        /\ i.op = "BNE"  => (Taken(i, reg_file) <=> x1 # x2)
        /\ i.op = "BLT"  => (Taken(i, reg_file) <=> Signed(x1) < Signed(x2))
        /\ i.op = "BGE"  => (Taken(i, reg_file) <=> Signed(x1) >= Signed(x2))
        /\ i.op = "BLTU" => (Taken(i, reg_file) <=> x1 < x2)
        /\ i.op = "BGEU" => (Taken(i, reg_file) <=> x1 >= x2)
    BY <1>0, TakenIs
  <2> QED BY <2>1, SameArithmetic DEF ISA!Taken, BranchOps
<1> HIDE DEF i, x1, x2, computed
<1> USE DEF use_rd, is_load, is_store, is_csr, is_branch, Target, computed, i, x1, x2,
            RegOps, ImmOps, UpperOps, BranchOps, JumpOps, CsrOps
<1>11. CASE i.op \in RegOps \cup ImmOps \cup UpperOps
  <2>1. value = computed
    BY <1>4, <1>11
  <2>2. reg_file' = ISA!Written(ISA!Result)
    BY <1>6, <1>9, <1>11, <2>1
  <2> QED BY <1>3, <1>8, <1>11, <2>2 DEF ISA!Step, ISA!Compute
<1>12. CASE i.op \in BranchOps
  <2>1. NextPC' = IF ISA!Taken THEN ISA!Wrap(NextPC + i.imm) ELSE ISA!Link
    BY <1>2, <1>5, <1>9, <1>10, <1>12 DEF Successor
  <2> QED BY <1>3, <1>7, <1>12, <2>1 DEF ISA!Step, ISA!Branch
<1>13. CASE i.op \in JumpOps
  <2>1. Taken(i, reg_file)
    BY <1>0, <1>13, TakenIs
  <2>2. NextPC' = IF i.op = "JAL" THEN ISA!Wrap(NextPC + i.imm) ELSE ISA!Wrap(x1 + i.imm)
    BY <1>2, <1>9, <1>13, <2>1 DEF Successor
  <2>3. reg_file' = ISA!Written(ISA!Link)
    BY <1>4, <1>5, <1>6, <1>13
  <2> QED BY <1>3, <1>13, <2>2, <2>3 DEF ISA!Step, ISA!Jump
<1>14. CASE i.op \in CsrOps
  <2>1. value = 0
    BY <1>4, <1>14
  <2>2. \E old \in IF i.imm \in {} THEN ISA!Word ELSE {0} : reg_file' = ISA!Written(old)
    BY <1>6, <1>14, <2>1
  <2> QED BY <1>3, <1>8, <1>14, <2>2 DEF ISA!Step, ISA!Csr
<1>15. CASE i.op \in {"FENCE", "ECALL"}
  BY <1>3, <1>7, <1>8, <1>15 DEF ISA!Step, ISA!Fence, ISA!Exit
<1>16. i.op \notin {"LW", "SW"}
  BY <1>0
<1> QED BY <1>1, <1>11, <1>12, <1>13, <1>14, <1>15, <1>16 DEF Ops

(* Nothing else is seen. *)
LEMMA OthersStutter ==
    ASSUME PathInv, [CoreNext]_core_vars, ~(commit /\ retiring)
    PROVE  Ahead' = Ahead /\ UNCHANGED <<code, reg_file, exited>>
<1>0. CoreInv /\ CoreTypes /\ IInv /\ PathIsRight /\ QueuesAreRight /\ FetchIsRight /\ count \in Nat
  BY WindowFacts DEF PathInv, CoreInv
<1>1. CASE /\ Fetched' = Fetched /\ PC' = PC /\ count' = count /\ Stay(Items, Items', count)
           /\ UNCHANGED <<code, reg_file, exited>>
  <2>1. count # 0 => 1 \in 1 .. count
    BY <1>0
  <2> QED BY <1>1, <2>1 DEF Ahead, Stay
<1>2. ASSUME UNCHANGED <<code, front, issue_queue, back>>, stage \notin {"registers", "decode", "fetch"},
             count' = count, Stay(Items, Items', count)
      PROVE  Ahead' = Ahead /\ UNCHANGED <<code, reg_file, exited>>
  BY <1>1, <1>2, FrontKept DEF back
<1>3. CASE units_tick
  BY <1>0, <1>2, <1>3, UnitsInv, StayHere DEF units_tick
<1>4. CASE commit
  <2>1. UNCHANGED ROB /\ UNCHANGED back
    BY <1>4 DEF commit
  <2> QED BY <1>0, <1>2, <1>4, <2>1, RingUnchanged, StayHere DEF commit
<1>5. CASE writeback
  BY <1>0, <1>2, <1>5, WritebackInv DEF writeback
<1>6. CASE bus
  BY <1>0, <1>2, <1>6, BusInv, StayHere DEF bus
<1>7. ASSUME NEW index \in Station, schedule(index)
      PROVE  Ahead' = Ahead /\ UNCHANGED <<code, reg_file, exited>>
  BY <1>0, <1>2, <1>7, ScheduleInv, StayHere DEF schedule
<1>8. CASE scheduled
  <2>1. UNCHANGED ROB /\ UNCHANGED back
    BY <1>8 DEF scheduled
  <2> QED BY <1>0, <1>2, <1>8, <2>1, RingUnchanged, StayHere DEF scheduled
<1>9. CASE registers_tick
  <2>1. UNCHANGED ROB /\ UNCHANGED <<code, reg_file, exited>>
    BY <1>9 DEF registers_tick, back
  <2> QED BY <1>0, <1>1, <1>9, <2>1, FrontTicks, RingUnchanged, StayHere
<1>10. CASE decode
  <2>1. UNCHANGED ROB /\ UNCHANGED <<code, reg_file, exited>>
    BY <1>10 DEF decode, back
  <2> QED BY <1>0, <1>1, <1>10, <2>1, FrontDecodes, RingUnchanged, StayHere
<1>11. CASE fetch
  <2>1. UNCHANGED ROB /\ UNCHANGED <<code, reg_file, exited>> /\ issue_queue' = issue_queue
    BY <1>11 DEF fetch, back
  <2>2. Items' = Items /\ count' = count
    BY <1>0, <2>1, RingUnchanged
  <2>3. First(Fetched', PC') = First(Fetched, PC)
    <3>1. CASE decode_queue' = decode_queue /\ PC' = PC
      BY <2>1, <3>1 DEF Fetched
    <3>2. CASE Queued(decode_queue) = <<>> /\ Queued(decode_queue') = <<PC>> /\ PC' = NextOf(PC)
      <4>1. Fetched' = Fetched \o <<PC>>
        BY <1>0, <2>1, <3>2, QueueGrows
      <4>2. Chained(Fetched, PC) /\ Fetched \in Seq(Word) /\ PC \in Word
        BY <1>0, FetchedIs DEF PathIsRight
      <4> QED BY <3>2, <4>1, <4>2, ChainGrows
    <3> QED BY <1>0, <1>11, <3>1, <3>2, FrontFetches
  <2> QED BY <2>1, <2>2, <2>3 DEF Ahead
<1>12. CASE UNCHANGED core_vars
  <2>1. UNCHANGED ROB /\ UNCHANGED <<code, reg_file, exited, PC, issue_queue, decode_queue>>
    BY <1>12 DEF core_vars, front, back
  <2>2. Items' = Items /\ count' = count
    BY <1>0, <2>1, RingUnchanged
  <2> QED BY <1>1, <2>1, <2>2, StayHere DEF Fetched
<1>13. CASE flush_stage
  <2>1. CASE flush.pending
    <3>1. UNCHANGED <<code, reg_file, exited>>
      BY <1>13, <2>1 DEF flush_stage, back
    <3>2. PICK p \in 1 .. count : /\ count' = p
                                  /\ \A j \in 1 .. p : Items'[j] = Items[j]
      BY <1>0, <1>13, <2>1, FlushedIs
    <3>3. 1 \in 1 .. p /\ count # 0 /\ p # 0
      BY <1>0
    <3> QED BY <3>1, <3>2, <3>3 DEF Ahead
  <2>2. CASE ~flush.pending
    <3>1. UNCHANGED <<code, front, issue_queue, back>> /\ UNCHANGED ROB /\ stage = "flush"
      BY <1>13, <2>2 DEF flush_stage
    <3> QED BY <1>0, <1>2, <3>1, RingUnchanged, StayHere
  <2> QED BY <2>1, <2>2
<1>14. CASE issue
  <2>1. UNCHANGED <<code, reg_file, exited, decode_queue, PC>>
    BY <1>0, <1>14, FrontIssues DEF issue, back
  <2>2. CASE ~issuing
    <3>1. issue_queue' = issue_queue /\ Items' = Items /\ count' = count
      BY <1>0, <1>14, <2>2, FrontIssues, IssueInv
    <3> QED BY <1>1, <2>1, <3>1, StayHere DEF Fetched
  <2>3. CASE issuing
    <3> DEFINE pc == fifo_data(issue_queue)
    <3>1. Queued(issue_queue) = <<pc>>
      BY <1>0, <1>14, <2>3, FrontIssues
    <3>2. /\ pc \in Word /\ count' = count + 1
          /\ \A j \in 1 .. count : Items'[j] = Items[j]
          /\ Items'[count + 1] = [tag |-> next_tag, instr |-> pc, ready |-> FALSE, result |-> NULL]
      BY <1>0, <1>14, <2>3, IssueInv
    <3> HIDE DEF pc
    <3>3. CASE count = 0
      <4>1. Items'[1].instr = pc /\ count' # 0
        BY <3>2, <3>3
      <4>2. First(Fetched, PC) = pc
        <5>1. Queued(decode_queue) \in Seq(Word)
          BY <1>0, FetchedIs, ShortAreSeqs
        <5> DEFINE rest == Queued(decode_queue)
        <5>2. Fetched = <<pc>> \o rest
          BY <3>1 DEF Fetched
        <5> HIDE DEF rest
        <5>3. <<pc>> \o rest # <<>> /\ (<<pc>> \o rest)[1] = pc
          BY <3>2, <5>1 DEF rest
        <5> QED BY <5>2, <5>3 DEF First
      <4> QED BY <2>1, <3>3, <4>1, <4>2 DEF Ahead
    <3>4. CASE count # 0
      <4>1. 1 \in 1 .. count /\ count' # 0
        BY <1>0, <3>2, <3>4
      <4> QED BY <2>1, <3>2, <3>4, <4>1 DEF Ahead
    <3> QED BY <3>3, <3>4
  <2> QED BY <2>2, <2>3
<1> QED BY <1>3, <1>4, <1>5, <1>6, <1>7, <1>8, <1>9, <1>10, <1>11, <1>12, <1>13, <1>14 DEF CoreNext, Done

(* Each step of the core is a step of the machine or a stutter. *)
LEMMA CoreStepRefines ==
    ASSUME PathInv, NextPC = Ahead, NextPC' = Ahead', [CoreNext]_core_vars
    PROVE  [ISA!Step]_(ISA!vars)
<1>1. CASE commit /\ retiring
  BY <1>1, RetirementRefines
<1>2. CASE ~(commit /\ retiring)
  BY <1>2, OthersStutter DEF ISA!vars
<1> QED BY <1>1, <1>2

(* ImplementsISA, for every program without loads and stores. *)
THEOREM CoreRefinement == CoreSpec => ImplementsISA
<1>1. CoreInit => PathInv /\ ISA!Init
  BY PathInit, CoreInitRefines
<1>2. PathInv /\ [CoreNext]_core_vars => PathInv'
  BY PathStep
<1>3. PathInv => NextPC = Ahead
  BY NextIs DEF PathInv
<1>4. PathInv /\ NextPC = Ahead /\ (NextPC = Ahead)' /\ [CoreNext]_core_vars => [ISA!Step]_(ISA!vars)
  BY CoreStepRefines
<1> QED BY <1>1, <1>2, <1>3, <1>4, PTL DEF CoreSpec, ImplementsISA, ISA!Spec

(* What is broadcast and what is flushed behind is named by a tag. *)
LEMMA NamedByTags ==
    ASSUME CoreInv
    PROVE  /\ ~CDB.empty => CDB.rob_tag \in Tag /\ CDB.value \in Word
           /\ flush.pending => flush.rob \in Tag
<1>1. CDB \in {EmptyBus} \cup Bus /\ flush \in {NoFlush} \cup Request
  BY DEF CoreInv, CoreTypes
<1>2. ~CDB.empty => CDB \in Bus
  BY <1>1 DEF EmptyBus
<1>3. flush.pending => flush \in Request
  BY <1>1 DEF NoFlush
<1> QED BY <1>2, <1>3 DEF Bus, Request

(* What the core does to the reorder buffer is one of its operations. *)
LEMMA RingSteps == CoreInv /\ [CoreNext]_core_vars => [Next]_vars
<1> SUFFICES ASSUME CoreInv, [CoreNext]_core_vars PROVE Next \/ UNCHANGED ROB
  BY DEF ROB, vars
<1>1. CASE commit
  BY <1>1 DEF commit, Next
<1>2. CASE writeback
  <2>1. CASE CDB.empty
    BY <1>2, <2>1 DEF writeback
  <2>2. CASE ~CDB.empty
    <3>1. update(CDB.rob_tag, CDB.value)
      BY <1>2, <2>2 DEF writeback
    <3>2. CDB.rob_tag \in Tag /\ CDB.value \in Value
      BY <2>2, NamedByTags, CoreAssumption
    <3> QED BY <3>1, <3>2 DEF Next
  <2> QED BY <2>1, <2>2
<1>3. CASE flush_stage
  <2>1. CASE ~flush.pending
    BY <1>3, <2>1 DEF flush_stage
  <2>2. CASE flush.pending
    <3>1. ROB_invalidate(flush.rob)
      BY <1>3, <2>2 DEF flush_stage, pipeline_flush
    <3>2. flush.rob \in Tag
      BY <2>2, NamedByTags
    <3> QED BY <3>1, <3>2 DEF ROB_invalidate, Next
  <2> QED BY <2>1, <2>2
<1>4. CASE issue
  <2>1. CASE ~issuing
    BY <1>4, <2>1 DEF issue, issuing
  <2>2. CASE issuing
    <3>1. allocate(fifo_data(issue_queue))
      BY <1>4, <2>2 DEF issue, issuing
    <3>2. fifo_data(issue_queue) \in Instr
      BY <1>4, <2>2, IssuedIs, CoreAssumption DEF issue, issuing
    <3> QED BY <3>1, <3>2 DEF Next
  <2> QED BY <2>1, <2>2
<1>5. CASE \E index \in Station : schedule(index)
  BY <1>5 DEF schedule
<1>6. CASE registers_tick \/ units_tick \/ bus \/ scheduled \/ decode \/ fetch \/ UNCHANGED core_vars
  BY <1>6 DEF registers_tick, units_tick, bus, scheduled, decode, fetch, core_vars
<1> QED BY <1>1, <1>2, <1>3, <1>4, <1>5, <1>6 DEF CoreNext, Done

(* What the core does to the stations is one of their operations. *)
LEMMA StationSteps == CoreInv /\ [CoreNext]_core_vars => [RS_Next]_RS_vars
<1> SUFFICES ASSUME CoreInv, [CoreNext]_core_vars PROVE [RS_Next]_RS_vars
  OBVIOUS
<1>1. CASE writeback
  <2>1. CASE CDB.empty
    BY <1>1, <2>1 DEF writeback
  <2>2. CASE ~CDB.empty
    <3>1. update_operands(CDB.rob_tag, CDB.value)
      BY <1>1, <2>2 DEF writeback
    <3>2. CDB.rob_tag \in Tag /\ CDB.value \in RS_Value
      BY <2>2, NamedByTags, CoreAssumption
    <3> QED BY <3>1, <3>2 DEF RS_Next
  <2> QED BY <2>1, <2>2
<1>2. CASE flush_stage
  <2>1. CASE ~flush.pending
    BY <1>2, <2>1 DEF flush_stage
  <2>2. CASE flush.pending
    <3>1. RS_invalidate(flush.rob)
      BY <1>2, <2>2 DEF flush_stage, pipeline_flush
    <3>2. flush.rob \in Tag
      BY <2>2, NamedByTags
    <3> QED BY <3>1, <3>2 DEF RS_Next
  <2> QED BY <2>1, <2>2
<1>3. CASE issue
  <2>1. CASE ~issuing
    BY <1>3, <2>1 DEF issue, issuing
  <2>2. CASE issuing
    <3> DEFINE pc == fifo_data(issue_queue)
               w2 == Items'
    <3>1. RS_issue(IssuedEntry(pc))
      BY <1>3, <2>2 DEF issue, issuing, IssuedEntry
    <3>2. /\ pc \in Word /\ Stay(Items, w2, count)
          /\ \A j \in 1 .. count : w2[j] = Items[j]
          /\ w2[count + 1] = [tag |-> next_tag, instr |-> pc, ready |-> FALSE, result |-> NULL]
      BY <1>3, <2>2, IssueInv
    <3>3. next_tag \in Tag
      BY NextTag DEF CoreInv
    <3> HIDE DEF pc, w2
    <3>4. IssuedEntry(pc) \in Held
      BY <3>2, <3>3, EntryIs
    <3> QED BY <3>1, <3>4 DEF RS_Next
  <2> QED BY <2>1, <2>2
<1>4. CASE \E index \in Station : schedule(index)
  BY <1>4 DEF schedule, RS_Next
<1>5. CASE registers_tick \/ units_tick \/ commit \/ bus \/ scheduled \/ decode \/ fetch
             \/ UNCHANGED core_vars
  BY <1>5 DEF registers_tick, units_tick, commit, bus, scheduled, decode, fetch, core_vars
<1> QED BY <1>1, <1>2, <1>3, <1>4, <1>5 DEF CoreNext, Done

(* The core uses the reorder buffer and the stations as their own
   specifications say, so what is proved of those holds in the core
   (ROB.cpp, RS.cpp as core.cpp calls them). *)
THEOREM CoreUsesItsParts == CoreSpec => Spec /\ RS_Spec
<1>1. CoreInit => Init /\ RS_Init
  BY DEF CoreInit
<1> QED BY <1>1, CoreInvariance, RingSteps, StationSteps, PTL DEF CoreSpec, Spec, RS_Spec

(* ImplementsWindow: renamed, flushed and retired by the core, the ring is the
   window of the instructions in program order. *)
THEOREM CoreKeepsTheWindow == CoreSpec => ImplementsWindow
  BY CoreUsesItsParts, RingRefinement, PTL

(* RatIsLatestWriter: the alias table names the last writer of each register
   in the window, and each checkpoint the last one up to its branch. *)
THEOREM TablesAreRight == CoreSpec => []RatIsLatestWriter
  BY CoreInvariance, TablesNameWriters, PTL

(* CheckpointsAreOwned: the branches that may still be mispredicted have a
   checkpoint each, and nothing else has. *)
THEOREM CheckpointsAreRightlyOwned == CoreSpec => []CheckpointsAreOwned
  BY CoreInvariance, CheckpointsHaveBranches, PTL

(* OneResultEach: each incomplete instruction of the window is in one place on
   its way to its result, and nothing else is on its way. *)
THEOREM ResultsAreOne == CoreSpec => []OneResultEach
  BY CoreInvariance, ResultsComeOnce, PTL

(* StationsHaveOperands: what a station holds or waits for is what its
   registers will be when all older instructions have retired. *)
THEOREM OperandsAreOlder == CoreSpec => []StationsHaveOperands
  BY CoreInvariance, OperandsAreRight, PTL

(* issue has an instruction and room for it. *)
issues == stage = "issue" /\ ~fifo_empty(issue_queue) /\ ~structural_hazard

Waiting == {i \in Busy : unit_of(i) = "BRU"}

(* The branches that are not resolved. *)
branches_ahead == Cardinality(Waiting) + IF FUs["BRU"].input.valid THEN 1 ELSE 0

(* Whatever is issued finds no checkpoint free just when there are as many
   unresolved branches as checkpoints, and there are at most as many as
   stations: all stations but the one that is free, and the unit. *)
CheckpointsRunOut ==
    issues => /\ free(checkpoints) = {} <=> branches_ahead = CHECKPOINT_SIZE
              /\ branches_ahead <= NUM_RSS

LEMMA CheckpointsCounted == CoreInv => CheckpointsRunOut
<1> SUFFICES ASSUME CoreInv, issues PROVE CheckpointsRunOut
  BY DEF CheckpointsRunOut
<1> DEFINE waiting == {RS_store[i].rd_rob : i \in Waiting}
           tag     == FUs["BRU"].input.rob_tag
           saved   == {c \in CheckpointIndex : checkpoints[c].valid}
<1>1. OpenBranches = waiting \cup (IF FUs["BRU"].input.valid THEN {tag} ELSE {})
  BY DEF OpenBranches, CoreInv, FlushIsRight, issues, Waiting
<1>2. IsFiniteSet(Waiting) /\ Cardinality(Waiting) \in Nat /\ Cardinality(Waiting) < NUM_RSS
  <2>1. RS_next_index \in 0 .. NUM_RSS /\ RS_next_index = Cardinality(Busy) /\ RS_next_index # NUM_RSS
    BY DEF CoreInv, RSInv, Typed, TopCountsBusy, structural_hazard, RS_full, issues
  <2>2. IsFiniteSet(Station) /\ Busy \subseteq Station
    BY NumRssAssumption, FS_Interval DEF Station, Busy
  <2>3. IsFiniteSet(Busy) /\ Waiting \subseteq Busy
    BY <2>2, FS_Subset DEF Waiting
  <2> QED BY <2>1, <2>3, FS_Subset, FS_CardinalityType, NumRssAssumption
<1>3. Alone(Carriers)
  BY DEF CoreInv, CarriersAreRight
(* Each branch that waits has its own tag, and the unit's has another. *)
<1>4. IsFiniteSet(waiting) /\ Cardinality(waiting) = Cardinality(Waiting)
  <2> DEFINE f == [i \in Waiting |-> RS_store[i].rd_rob]
  <2>1. ASSUME NEW i \in Waiting, NEW j \in Waiting, RS_store[i].rd_rob = RS_store[j].rd_rob
        PROVE  i = j
    <3> DEFINE c == <<"station", i, RS_store[i].rd_rob>>
               d == <<"station", j, RS_store[j].rd_rob>>
    <3>1. c \in Carriers
      BY CarrierMembers DEF Waiting
    <3>2. d \in Carriers
      BY CarrierMembers DEF Waiting
    <3>3. c[3] = d[3] /\ c[2] = i /\ d[2] = j
      BY <2>1
    <3> HIDE DEF c, d
    <3> QED BY <1>3, <3>1, <3>2, <3>3 DEF Alone
  <2>2. f \in [Waiting -> waiting]
    OBVIOUS
  <2>3. \A i, j \in Waiting : f[i] = f[j] => i = j
    BY <2>1
  <2>4. \A w \in waiting : \E i \in Waiting : f[i] = w
    OBVIOUS
  <2> HIDE DEF f, waiting
  <2>5. f \in Injection(Waiting, waiting)
    BY <2>2, <2>3, Zenon DEF Injection, IsInjective
  <2>6. f \in Surjection(Waiting, waiting)
    BY <2>2, <2>4, Zenon DEF Surjection
  <2>7. ExistsBijection(Waiting, waiting)
    BY <2>5, <2>6, Zenon DEF Bijection, ExistsBijection
  <2> QED BY <1>2, <2>7, FS_Bijection
<1>5. FUs["BRU"].input.valid => tag \notin waiting
  <2> SUFFICES ASSUME FUs["BRU"].input.valid, NEW i \in Waiting, tag = RS_store[i].rd_rob
               PROVE  FALSE
    OBVIOUS
  <2> DEFINE c == <<"station", i, RS_store[i].rd_rob>>
             d == <<"input", "BRU", tag>>
  <2>1. c \in Carriers
    BY CarrierMembers DEF Waiting
  <2>2. d \in Carriers
    BY CarrierMembers DEF Units
  <2>3. c[3] = d[3] /\ c[1] # d[1]
    OBVIOUS
  <2> HIDE DEF c, d
  <2> QED BY <1>3, <2>1, <2>2, <2>3 DEF Alone
<1>6. Cardinality(OpenBranches) = branches_ahead
  <2> HIDE DEF waiting, tag
  <2>1. CASE FUs["BRU"].input.valid
    BY <1>1, <1>2, <1>4, <1>5, <2>1, FS_AddElement DEF branches_ahead
  <2>2. CASE ~FUs["BRU"].input.valid
    BY <1>1, <1>2, <1>4, <2>2 DEF branches_ahead
  <2> QED BY <2>1, <2>2
<1>7. Cardinality(saved) = Cardinality(OpenBranches)
  BY CheckpointsHaveBranches DEF CheckpointsAreOwned
<1>8. IsFiniteSet(CheckpointIndex) /\ Cardinality(CheckpointIndex) = CHECKPOINT_SIZE
  BY CoreAssumption, FS_Interval DEF CheckpointIndex
<1>9. free(checkpoints) = {} <=> saved = CheckpointIndex
  BY DEF free
<1>10. Cardinality(saved) = CHECKPOINT_SIZE <=> saved = CheckpointIndex
  <2>1. saved \subseteq CheckpointIndex
    OBVIOUS
  <2> HIDE DEF saved
  <2> QED BY <1>8, <2>1, FS_Subset
<1>11. branches_ahead <= NUM_RSS
  BY <1>2, NumRssAssumption DEF branches_ahead
<1> HIDE DEF saved
<1> QED BY <1>6, <1>7, <1>9, <1>10, <1>11 DEF CheckpointsRunOut

(* CheckpointsRunOut, for every number of checkpoints and stations: save finds
   none, and issue aborts, just at a branch behind as many unresolved branches
   as there are checkpoints.  With more checkpoints than stations that cannot
   be; with as many, as in config.h, it is when every other station has a
   branch and the unit works on one more (Core::issue, Checkpoints::save). *)
THEOREM WhenSaveFails == CoreSpec => []CheckpointsRunOut
  BY CoreInvariance, CheckpointsCounted, PTL
==============================================================================
