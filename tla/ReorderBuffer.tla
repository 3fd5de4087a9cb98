---------------------------- MODULE ReorderBuffer ----------------------------
(***************************************************************************)
(* The reorder buffer of the out-of-order core (project3 ROB.cpp, ROB.h):  *)
(* a ring of ROB_SIZE slots that gives each instruction a tag (RobTag).    *)
(*                                                                         *)
(* "& mask" is "% ROB_SIZE" here: the constructor asserts a power of two.  *)
(***************************************************************************)
EXTENDS RobTag, FiniteSets

CONSTANTS Instr,     \* the instructions (Instr::Ptr)
          Value,     \* the results the CDB carries
          NULL       \* no instruction, and no result yet

ASSUME NullAssumption == NULL \notin Instr /\ NULL \notin Value

VARIABLES store,       \* store_
          head_index,  \* head_index_
          tail_index,  \* tail_index_
          count,       \* count_
          phase_bit    \* phase_bit_

vars == <<store, head_index, tail_index, count, phase_bit>>

Index == 0 .. ROB_SIZE - 1

Entry == [valid  : BOOLEAN,
          ready  : BOOLEAN,
          result : Value \cup {NULL},
          tag    : Tag,
          instr  : Instr \cup {NULL}]

full  == count = ROB_SIZE
empty == count = 0

(* The slot after i: the mask and the modulus of the code wrap the ring. *)
next_index(i) == (i + 1) % ROB_SIZE

LiveIndices == {i \in Index : store[i].valid}
LiveTags    == {store[i].tag : i \in LiveIndices}

Init ==
    /\ store = [i \in Index |-> [valid |-> FALSE, ready |-> FALSE, result |-> NULL,
                                 tag |-> 0, instr |-> NULL]]
    /\ head_index = 0
    /\ tail_index = 0
    /\ count = 0
    /\ phase_bit = 0

(***************************************************************************)
(* allocate: the new entry takes the tail slot; its tag is built from the  *)
(* phase before the tail moves, and the phase flips when the tail wraps.   *)
(***************************************************************************)
next_tag == phase_bit * ROB_SIZE + tail_index

allocate(instr) ==
    /\ ~full
    /\ store' = [store EXCEPT ![tail_index] =
                    [valid |-> TRUE, ready |-> FALSE, result |-> NULL,
                     tag |-> next_tag, instr |-> instr]]
    /\ tail_index' = next_index(tail_index)
    /\ phase_bit' = IF tail_index' = 0 THEN 1 - phase_bit ELSE phase_bit
    /\ count' = count + 1
    /\ UNCHANGED head_index

(***************************************************************************)
(* update: the CDB broadcasts a result.  Only the index part of the tag    *)
(* selects the slot; a slot that is free or already complete ignores it.   *)
(* The broadcasts the core makes are for live instructions, or are left    *)
(* over from a flush and find their slot free.                             *)
(***************************************************************************)
Broadcastable == {t \in Tag : t \in LiveTags \/ ~store[t % ROB_SIZE].valid}

accepts(index) == store[index].valid /\ ~store[index].ready

update(rob_tag, value) ==
    LET index == rob_tag % ROB_SIZE
    IN  /\ rob_tag \in Broadcastable
        /\ accepts(index)
        /\ store' = [store EXCEPT ![index].ready = TRUE, ![index].result = value]
        /\ UNCHANGED <<head_index, tail_index, count, phase_bit>>

(***************************************************************************)
(* invalidate: a flush removes the entries from the one after rob_tag up   *)
(* to the tail and moves the tail, and the phase with it, back.  rob_tag   *)
(* is the mispredicted branch, which cannot have retired yet.              *)
(***************************************************************************)
new_tail_tag(rob_tag) == (rob_tag + 1) % (2 * ROB_SIZE)

(* Mutated: the old tail's tag is built without its phase. *)
removed_by_index(rob_tag) == (tail_index - new_tail_tag(rob_tag)) % (2 * ROB_SIZE)

removed_by(rob_tag) == (next_tag - new_tail_tag(rob_tag)) % (2 * ROB_SIZE)

(* Mutated: the loop starts at the branch instead of after it. *)
cut_slots_from_branch(rob_tag) ==
    {((rob_tag + i) % (2 * ROB_SIZE)) % ROB_SIZE : i \in 0 .. removed_by(rob_tag) - 1}

cut_slots(rob_tag) ==
    {((new_tail_tag(rob_tag) + i) % (2 * ROB_SIZE)) % ROB_SIZE : i \in 0 .. removed_by(rob_tag) - 1}

(* Mutated: the tail moves back and its phase does not. *)
phase_kept(tag) == phase_bit

phase_of(tag) == tag \div ROB_SIZE

invalidate(rob_tag) ==
    /\ rob_tag \in LiveTags
    /\ ~empty
    /\ removed_by(rob_tag) # 0
    /\ store' = [i \in Index |->
                    IF i \in cut_slots(rob_tag)
                    THEN [store[i] EXCEPT !.valid = FALSE, !.ready = FALSE]
                    ELSE store[i]]
    /\ count' = count - removed_by(rob_tag)
    /\ tail_index' = new_tail_tag(rob_tag) % ROB_SIZE
    /\ phase_bit' = phase_of(new_tail_tag(rob_tag))
    /\ UNCHANGED head_index

(* pop: Core::commit retires the head when it is complete. *)
pop ==
    /\ ~empty
    /\ store[head_index].ready
    /\ store' = [store EXCEPT ![head_index].valid = FALSE, ![head_index].ready = FALSE]
    /\ head_index' = next_index(head_index)
    /\ count' = count - 1
    /\ UNCHANGED <<tail_index, phase_bit>>

Next ==
    \/ \E instr \in Instr : allocate(instr)
    \/ \E rob_tag \in Tag, value \in Value : update(rob_tag, value)
    \/ \E rob_tag \in Tag : invalidate(rob_tag)
    \/ pop

Spec == Init /\ [][Next]_vars

------------------------------------------------------------------------------
(* The live entries in program order: the k-th one after the head. *)
Slot(k) == (head_index + k) % ROB_SIZE

(* Type invariant: the indices stay inside the ring, the count inside the
   capacity and the phase one bit (ROB.h's fields). *)
TypeOK ==
    /\ store \in [Index -> Entry]
    /\ head_index \in Index
    /\ tail_index \in Index
    /\ count \in 0 .. ROB_SIZE
    /\ phase_bit \in {0, 1}

(* The live slots are exactly the count slots from the head on, across any
   history of allocations, retirements and flushes: no live entry is outside
   the window and none inside it was lost (allocate, pop, invalidate). *)
WindowIsLive ==
    /\ LiveIndices = {Slot(k) : k \in 0 .. count - 1}
    /\ tail_index = Slot(count)

(* Tags are the order of the window: going from the head to the tail each tag
   is the successor of the one before, and the tail's phase and index continue
   the series, also after the wrap and after a flush moved the tail back
   (allocate, invalidate). *)
TagsAreConsecutive ==
    \A k \in 0 .. count - 1 :
        store[Slot(k)].tag = (next_tag - (count - k)) % (2 * ROB_SIZE)

(* The age test that every structure of the core uses to decide what a flush
   squashes agrees with program order for any two live instructions
   (is_rob_younger, types.h). *)
YoungerIsProgramOrder ==
    \A j, k \in 0 .. count - 1 :
        is_rob_younger(store[Slot(j)].tag, store[Slot(k)].tag) <=> j > k

(* The assertion in invalidate, "removed <= count_", holds for every live
   instruction that a flush can name. *)
FlushWithinWindow ==
    \A rob_tag \in LiveTags : removed_by(rob_tag) < count

(* The window the ring holds, oldest instruction first. *)
Item(k) == LET e == store[Slot(k - 1)]
           IN  [tag |-> e.tag, instr |-> e.instr, ready |-> e.ready, result |-> e.result]

Items == [k \in 1 .. count |-> Item(k)]

Window == INSTANCE InstrWindow WITH Capacity <- ROB_SIZE, NoValue <- NULL, window <- Items

(* The ring implements the window: every operation of the code is one
   operation of InstrWindow, on the instruction the caller meant (ROB.cpp). *)
ImplementsWindow == Window!Spec
==============================================================================
