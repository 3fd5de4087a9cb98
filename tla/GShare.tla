-------------------------------- MODULE GShare --------------------------------
(***************************************************************************)
(* The branch predictor of project2 (gshare.cpp): a table of two-bit       *)
(* counters (BHT) indexed by the PC and the recent outcomes (BHR), and a   *)
(* direct-mapped table of targets (BTB) with exact tags.                   *)
(*                                                                         *)
(* A PC counts instructions here, so the code's "PC >> 2" is the PC and    *)
(* its "PC + 4" is PC + 1.  Branches are the PCs that hold a branch or a   *)
(* jump: branch_unit calls update for no other.                            *)
(***************************************************************************)
EXTENDS Alu

CONSTANTS BTB_SIZE,  \* config.h: BTB_SIZE, a power of two
          BHR_SIZE   \* config.h: BHR_SIZE, the bits of history

ASSUME BtbSizeAssumption == BTB_SIZE \in Nat \ {0}

BHT_SIZE == 2 ^ BHR_SIZE

(* The second conjunct follows from the first by induction. *)
ASSUME BhrSizeAssumption == BHR_SIZE \in Nat /\ BHT_SIZE \in Nat \ {0}

VARIABLES BTB,  \* BTB_
          BHT,  \* BHT_
          BHR   \* BHR_

predictor == <<BTB, BHT, BHR>>

BTBIndex == 0 .. BTB_SIZE - 1
BHTIndex == 0 .. BHT_SIZE - 1

BTB_entry == [valid : BOOLEAN, tag : Word, target : Word]

PredictorInit ==
    /\ BTB = [i \in BTBIndex |-> [valid |-> FALSE, tag |-> 0, target |-> 0]]
    /\ BHT = [i \in BHTIndex |-> 0]
    /\ BHR = 0

btb_index(PC) == PC % BTB_SIZE
bht_index(PC) == BitXor(PC, BHR) % BHT_SIZE

(* Mutated: the shift drops one bit too many. *)
btb_tag_short(PC) == PC \div (2 * BTB_SIZE)

btb_tag(PC) == PC \div BTB_SIZE

Fallthrough(PC) == Wrap(PC + 1)

(* Mutated: the tag is not compared. *)
btb_hit_any(PC) == BTB[btb_index(PC)].valid

btb_hit(PC) ==
    /\ BTB[btb_index(PC)].valid
    /\ BTB[btb_index(PC)].tag = btb_tag(PC)

predict(PC) ==
    IF BHT[bht_index(PC)] >= 2 /\ btb_hit(PC)
    THEN BTB[btb_index(PC)].target
    ELSE Fallthrough(PC)

(* Mutated: the counter does not saturate at the top. *)
two_bit_counter_unbounded(count, taken) ==
    IF taken THEN count + 1 ELSE IF count = 0 THEN 0 ELSE count - 1

(* inc_two_bit_counter and dec_two_bit_counter *)
two_bit_counter(count, taken) ==
    CASE taken /\ count # 3  -> count + 1
      [] ~taken /\ count # 0 -> count - 1
      [] OTHER               -> count

(* A taken branch claims its BTB row, from whoever had it. *)
update(PC, next_PC, taken) ==
    /\ BHT' = [BHT EXCEPT ![bht_index(PC)] = two_bit_counter(@, taken)]
    /\ BTB' = IF taken
              THEN [BTB EXCEPT ![btb_index(PC)] =
                       [valid |-> TRUE, tag |-> btb_tag(PC), target |-> next_PC]]
              ELSE BTB
    /\ BHR' = (2 * BHR + Flag(taken)) % BHT_SIZE

PredictorTypeOK ==
    /\ BTB \in [BTBIndex -> BTB_entry]
    /\ BHT \in [BHTIndex -> 0 .. 3]
    /\ BHR \in BHTIndex
==============================================================================
