-------------------------- MODULE ReservationStation --------------------------
(***************************************************************************)
(* The reservation stations of project3 (RS.cpp, RS.h): NUM_RSS entries,   *)
(* given out and taken back in any order.  RS_indices is a stack of the    *)
(* free entries: RS_next_index is its top, and what lies below is stale.   *)
(***************************************************************************)
EXTENDS RobTag, FiniteSets

CONSTANTS NUM_RSS,    \* config.h: NUM_RSS
          RS_Instr,   \* the instructions
          RS_Value    \* and their operands

ASSUME NumRssAssumption == NUM_RSS \in Nat \ {0}

VARIABLES RS_store,       \* store_
          RS_indices,     \* indices_
          RS_next_index   \* next_index_

RS_vars == <<RS_store, RS_indices, RS_next_index>>

Station == 0 .. NUM_RSS - 1

Operand == Tag \cup {INVALID_ROB}

NoInstrHeld == [valid |-> FALSE]

Held == [valid : {TRUE}, rd_rob : Tag, rs1_rob : Operand, rs2_rob : Operand,
         rs1_data : RS_Value, rs2_data : RS_Value, instr : RS_Instr]

Busy == {i \in Station : RS_store[i].valid}

RS_full == RS_next_index = NUM_RSS

RS_Init ==
    /\ RS_store = [i \in Station |-> NoInstrHeld]
    /\ RS_indices = [i \in Station |-> i]
    /\ RS_next_index = 0

RS_issue(entry) ==
    /\ ~RS_full
    /\ RS_store' = [RS_store EXCEPT ![RS_indices[RS_next_index]] = entry]
    /\ RS_next_index' = RS_next_index + 1
    /\ UNCHANGED RS_indices

(***************************************************************************)
(* release: the entry goes on top of the stack.                            *)
(***************************************************************************)
(* Mutated: the index is stored before the top has moved. *)
pushed_at_top(top) == top

pushed_at(top) == top - 1

RS_release(index) ==
    /\ index \in Busy
    /\ RS_store' = [RS_store EXCEPT ![index] = NoInstrHeld]
    /\ RS_indices' = [i \in Station |->
                         IF i = pushed_at(RS_next_index) THEN index ELSE RS_indices[i]]
    /\ RS_next_index' = RS_next_index - 1

(***************************************************************************)
(* update_operands, for every entry: a result is taken by the operands     *)
(* that wait for it.                                                       *)
(***************************************************************************)
(* Mutated: an instruction that uses one result twice gets it once. *)
updated_once(entry, rob_tag, value) ==
    CASE entry.rs1_rob = rob_tag ->
             [entry EXCEPT !.rs1_rob = INVALID_ROB, !.rs1_data = value]
      [] entry.rs1_rob # rob_tag /\ entry.rs2_rob = rob_tag ->
             [entry EXCEPT !.rs2_rob = INVALID_ROB, !.rs2_data = value]
      [] OTHER -> entry

updated(entry, rob_tag, value) ==
    [entry EXCEPT !.rs1_rob  = IF @ = rob_tag THEN INVALID_ROB ELSE @,
                  !.rs1_data = IF entry.rs1_rob = rob_tag THEN value ELSE @,
                  !.rs2_rob  = IF @ = rob_tag THEN INVALID_ROB ELSE @,
                  !.rs2_data = IF entry.rs2_rob = rob_tag THEN value ELSE @]

update_operands(rob_tag, value) ==
    /\ RS_store' = [i \in Station |->
                       IF i \in Busy THEN updated(RS_store[i], rob_tag, value) ELSE RS_store[i]]
    /\ UNCHANGED <<RS_indices, RS_next_index>>

operands_ready(index) ==
    RS_store[index].rs1_rob = INVALID_ROB /\ RS_store[index].rs2_rob = INVALID_ROB

(***************************************************************************)
(* invalidate: a flush frees the younger entries and builds the list anew, *)
(* entries in use first, then the free ones, both in the order of the      *)
(* array.                                                                  *)
(***************************************************************************)
Kept(rob_tag) == {i \in Busy : ~is_rob_younger(RS_store[i].rd_rob, rob_tag)}

Before(i, S) == Cardinality({j \in S : j < i})

place(i, kept) ==
    IF i \in kept THEN Before(i, kept) ELSE Cardinality(kept) + Before(i, Station \ kept)

top_after(kept) == Cardinality(kept)

RS_invalidate(rob_tag) ==
    /\ RS_store' = [i \in Station |-> IF i \in Kept(rob_tag) THEN RS_store[i] ELSE NoInstrHeld]
    /\ RS_indices' = [p \in Station |-> CHOOSE i \in Station : place(i, Kept(rob_tag)) = p]
    /\ RS_next_index' = top_after(Kept(rob_tag))

RS_Next ==
    \/ \E entry \in Held : RS_issue(entry)
    \/ \E index \in Station : RS_release(index)
    \/ \E rob_tag \in Tag, value \in RS_Value : update_operands(rob_tag, value)
    \/ \E rob_tag \in Tag : RS_invalidate(rob_tag)

RS_Spec == RS_Init /\ [][RS_Next]_RS_vars

------------------------------------------------------------------------------
(* Above the top of the stack each free entry is listed once, and nothing
   else is: through releases in any order and lists that flushes build anew no
   entry is lost and none is given out twice (issue, release, invalidate). *)
FreeEntriesAreListed ==
    LET Listed == RS_next_index .. NUM_RSS - 1
    IN  /\ {RS_indices[k] : k \in Listed} = Station \ Busy
        /\ \A k, l \in Listed : RS_indices[k] = RS_indices[l] => k = l
==============================================================================
