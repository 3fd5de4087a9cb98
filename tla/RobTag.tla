-------------------------------- MODULE RobTag --------------------------------
(***************************************************************************)
(* The tags of the reorder buffer and the age test on them (types.h).      *)
(*                                                                         *)
(* A tag is phase * ROB_SIZE + index, and the phase flips each time the    *)
(* tail of the ring wraps, so a tag names a slot and, of the two laps of   *)
(* the ring that can be in flight, the lap.  Every structure of the core   *)
(* (reservation stations, functional units, CDB, checkpoints, load/store   *)
(* queue) keeps tags and compares their ages modulo 2 * ROB_SIZE.          *)
(***************************************************************************)
EXTENDS Integers

CONSTANT ROB_SIZE  \* config.h: ROB_SIZE

ASSUME RobSizeAssumption == ROB_SIZE \in Nat \ {0}

Tag == 0 .. 2 * ROB_SIZE - 1

(* config.h: no tag.  An operand that waits for nothing has it, and so has a
   register that no instruction in flight writes. *)
INVALID_ROB == -1

(* Is rob_tag younger than base_tag?  Half of the tag space is younger.
   Mutated: the phase bit is left out of the comparison. *)
is_rob_younger_by_index(rob_tag, base_tag) ==
    (rob_tag % ROB_SIZE) > (base_tag % ROB_SIZE)

is_rob_younger(rob_tag, base_tag) ==
    LET diff == (rob_tag - base_tag) % (2 * ROB_SIZE)
    IN  diff > 0 /\ diff < ROB_SIZE
==============================================================================
