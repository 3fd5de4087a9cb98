---------------------------- MODULE RegisterAlias ----------------------------
(***************************************************************************)
(* The register alias table and its checkpoints (RAT.h, checkpoints.h).    *)
(* A table gives each register the tag of the instruction in flight that   *)
(* will write it, or INVALID_ROB when its value is in the register file.   *)
(***************************************************************************)
EXTENDS RobTag, FiniteSetsExt

CONSTANT CHECKPOINT_SIZE   \* config.h: CHECKPOINT_SIZE

EmptyTable(regs) == [r \in regs |-> INVALID_ROB]

exists(rat, r) == rat[r] # INVALID_ROB

rat_set(rat, r, rob_tag) == [rat EXCEPT ![r] = rob_tag]

clear_mapping(rat, r, rob_tag) ==
    IF rat[r] = rob_tag THEN [rat EXCEPT ![r] = INVALID_ROB] ELSE rat

------------------------------------------------------------------------------
CheckpointIndex == 0 .. CHECKPOINT_SIZE - 1

NoCheckpoint == [valid |-> FALSE]

NoCheckpoints == [i \in CheckpointIndex |-> NoCheckpoint]

find(cps, rob_tag) == {i \in CheckpointIndex : cps[i].valid /\ cps[i].rob_tag = rob_tag}

free(cps) == {i \in CheckpointIndex : ~cps[i].valid}

(* save.  There is a checkpoint left (alloc). *)
save(cps, new_tag, rat) ==
    [cps EXCEPT ![Min(free(cps))] = [valid |-> TRUE, rob_tag |-> new_tag, rat |-> rat]]

release(cps, rob_tag) ==
    IF find(cps, rob_tag) = {} THEN cps ELSE [cps EXCEPT ![Min(find(cps, rob_tag))] = NoCheckpoint]

restore(cps, rob_tag, rat) ==
    IF find(cps, rob_tag) = {} THEN rat ELSE cps[Min(find(cps, rob_tag))].rat

(* Mutated: the tables that were saved are left alone. *)
clear_RAT_mapping_never(cps, r, rob_tag) == cps

clear_RAT_mapping(cps, r, rob_tag) ==
    [i \in CheckpointIndex |->
        IF cps[i].valid THEN [cps[i] EXCEPT !.rat = clear_mapping(cps[i].rat, r, rob_tag)]
        ELSE cps[i]]

(* Mutated: the branch's own checkpoint stays. *)
cut_checkpoints_younger(cps, rob_tag) ==
    [i \in CheckpointIndex |->
        IF cps[i].valid /\ is_rob_younger(cps[i].rob_tag, rob_tag) THEN NoCheckpoint ELSE cps[i]]

(* Checkpoints::invalidate *)
cut_checkpoints(cps, rob_tag) ==
    [i \in CheckpointIndex |->
        IF cps[i].valid /\ (cps[i].rob_tag = rob_tag \/ is_rob_younger(cps[i].rob_tag, rob_tag))
        THEN NoCheckpoint ELSE cps[i]]
==============================================================================
