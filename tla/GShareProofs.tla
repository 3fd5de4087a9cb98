----------------------------- MODULE GShareProofs -----------------------------
(***************************************************************************)
(* For every size of the tables and every program: the predictor's state   *)
(* stays in its types, no instruction but a branch is ever redirected, and *)
(* a branch with one target is never sent to another's.                    *)
(***************************************************************************)
EXTENDS GShareSystem, InstructionProofs

(* Every valid row was claimed by a branch: that of the row's index and tag. *)
RowsAreBranches ==
    \A i \in BTBIndex : BTB[i].valid =>
        \E b \in Branches : btb_index(b) = i /\ btb_tag(b) = BTB[i].tag

(* A row that a steady branch hits holds its target. *)
RowsAreSteady ==
    \A PC \in DOMAIN Steady : btb_hit(PC) => BTB[btb_index(PC)].target = Steady[PC]

Inv == TypeOK /\ RowsAreBranches /\ RowsAreSteady

(* Index and tag together name one PC (btb_index, BTB_shift_). *)
LEMMA IndexAndTag ==
    ASSUME NEW a \in Nat, NEW b \in Nat,
           btb_index(a) = btb_index(b), btb_tag(a) = btb_tag(b)
    PROVE  a = b
  BY BtbSizeAssumption DEF btb_index, btb_tag

(* Every PC has its row and its tag. *)
LEMMA IndexAndTagTypes ==
    ASSUME NEW PC \in Word
    PROVE  btb_index(PC) \in BTBIndex /\ btb_tag(PC) \in Word
  BY BtbSizeAssumption, WordFacts DEF btb_index, btb_tag, BTBIndex, Word

(* No row is valid at the start. *)
LEMMA InitInv == PredictorInit => Inv
<1> SUFFICES ASSUME PredictorInit PROVE Inv
  OBVIOUS
<1>1. TypeOK /\ RowsAreBranches
  BY WordFacts, BhrSizeAssumption
     DEF PredictorInit, TypeOK, PredictorTypeOK, RowsAreBranches, BTB_entry, BTBIndex, BHTIndex, Word
<1>2. RowsAreSteady
  <2>1. \A i \in BTBIndex : ~BTB[i].valid
    BY DEF PredictorInit
  <2>2. \A PC \in DOMAIN Steady : ~btb_hit(PC)
    BY <2>1, IndexAndTagTypes, SteadyAssumption, BranchesAssumption DEF btb_hit
  <2> QED BY <2>2 DEF RowsAreSteady
<1> QED BY <1>1, <1>2 DEF Inv

(* Resolving a branch keeps the tables in their types: the counter saturates. *)
LEMMA UpdateTypeOK ==
    ASSUME TypeOK, NEW PC \in Word, NEW next_PC \in Word, NEW taken \in BOOLEAN,
           update(PC, next_PC, taken)
    PROVE  TypeOK'
<1> USE DEF TypeOK, PredictorTypeOK
<1>1. \A c \in 0 .. 3 : two_bit_counter(c, taken) \in 0 .. 3
  BY DEF two_bit_counter
<1>2. BHT' \in [BHTIndex -> 0 .. 3]
  BY <1>1 DEF update
<1>3. BHR' \in BHTIndex
  BY BhrSizeAssumption DEF update, BHTIndex, Flag
<1>4. [valid |-> TRUE, tag |-> btb_tag(PC), target |-> next_PC] \in BTB_entry
  BY IndexAndTagTypes DEF BTB_entry
<1>5. BTB' \in [BTBIndex -> BTB_entry]
  BY <1>4 DEF update
<1> QED BY <1>2, <1>3, <1>5

(* A row is only ever claimed by the branch it names. *)
LEMMA UpdateRows ==
    ASSUME Inv, NEW PC \in Branches, NEW next_PC \in Word, NEW taken \in BOOLEAN,
           update(PC, next_PC, taken)
    PROVE  RowsAreBranches'
<1> USE DEF Inv, TypeOK, PredictorTypeOK
<1>1. PC \in Word
  BY BranchesAssumption
<1> SUFFICES ASSUME NEW i \in BTBIndex, BTB'[i].valid
             PROVE  \E b \in Branches : btb_index(b) = i /\ btb_tag(b) = BTB'[i].tag
  BY DEF RowsAreBranches, btb_index, btb_tag
<1>2. CASE taken /\ i = btb_index(PC)
  <2>1. BTB'[i].tag = btb_tag(PC)
    BY <1>2 DEF update
  <2> QED BY <1>2, <2>1
<1>3. CASE ~(taken /\ i = btb_index(PC))
  <2>1. BTB'[i] = BTB[i]
    BY <1>3 DEF update
  <2> QED BY <2>1 DEF RowsAreBranches
<1> QED BY <1>2, <1>3

(* And so the target in it is of that branch. *)
LEMMA UpdateSteady ==
    ASSUME Inv, NEW PC \in Branches, NEW next_PC \in Word, NEW taken \in BOOLEAN,
           update(PC, next_PC, taken),
           PC \in DOMAIN Steady => next_PC = Steady[PC]
    PROVE  RowsAreSteady'
<1> SUFFICES ASSUME NEW pc \in DOMAIN Steady, btb_hit(pc)'
             PROVE  BTB'[btb_index(pc)].target = Steady[pc]
  BY DEF RowsAreSteady, btb_index
<1>1. PC \in Word /\ pc \in Word /\ PC \in Nat /\ pc \in Nat
  <2>1. PC \in Word /\ pc \in Word
    BY BranchesAssumption, SteadyAssumption
  <2> QED BY <2>1 DEF Word
<1>2. /\ BTB \in [BTBIndex -> BTB_entry]
      /\ btb_index(PC) \in BTBIndex /\ btb_index(pc) \in BTBIndex
  BY <1>1, IndexAndTagTypes DEF Inv, TypeOK, PredictorTypeOK
<1>3. CASE taken /\ btb_index(pc) = btb_index(PC)
  <2>1. BTB'[btb_index(pc)].tag = btb_tag(PC) /\ BTB'[btb_index(pc)].target = next_PC
    BY <1>2, <1>3 DEF update
  <2>2. btb_tag(pc) = btb_tag(PC)
    BY <2>1 DEF btb_hit, btb_index, btb_tag
  <2>3. pc = PC
    BY <1>1, <1>3, <2>2, IndexAndTag
  <2> QED BY <2>1, <2>3
<1>4. CASE ~(taken /\ btb_index(pc) = btb_index(PC))
  <2>1. BTB'[btb_index(pc)] = BTB[btb_index(pc)]
    BY <1>2, <1>4 DEF update
  <2>2. btb_hit(pc)
    BY <2>1 DEF btb_hit, btb_index, btb_tag
  <2> QED BY <2>1, <2>2 DEF Inv, RowsAreSteady
<1> QED BY <1>3, <1>4

(* Resolving a branch keeps the rows' types and owners. *)
LEMMA NextInv == Inv /\ [Next]_predictor => Inv'
<1> SUFFICES ASSUME Inv, [Next]_predictor
             PROVE  Inv'
  OBVIOUS
<1>1. CASE UNCHANGED predictor
  BY <1>1 DEF predictor, Inv, TypeOK, PredictorTypeOK, RowsAreBranches, RowsAreSteady, btb_hit,
              btb_index, btb_tag
<1>2. CASE Next
  <2>1. PICK PC \in Branches : Resolve(PC)
    BY <1>2 DEF Next
  <2>2. PICK outcome \in Outcomes(PC) : update(PC, outcome[1], outcome[2])
    BY <2>1 DEF Resolve
  <2>3. PC \in Word
    BY BranchesAssumption
  <2>4. outcome[1] \in Word /\ outcome[2] \in BOOLEAN
    <3>1. Fallthrough(PC) \in Word
      BY <2>3, WordFacts DEF Fallthrough
    <3>2. CASE PC \in DOMAIN Steady
      <4>1. outcome = <<Steady[PC], TRUE>>
        BY <3>2 DEF Outcomes
      <4>2. Steady[PC] \in Word
        BY <3>2, SteadyAssumption
      <4> QED BY <4>1, <4>2
    <3>3. CASE PC \notin DOMAIN Steady /\ outcome = <<Fallthrough(PC), FALSE>>
      BY <3>1, <3>3
    <3>4. CASE PC \notin DOMAIN Steady /\ outcome \in Word \X {TRUE}
      BY <3>4
    <3> QED BY <3>2, <3>3, <3>4 DEF Outcomes
  <2>5. TypeOK'
    BY <2>2, <2>3, <2>4, UpdateTypeOK DEF Inv
  <2>6. RowsAreBranches'
    BY <2>2, <2>4, UpdateRows
  <2>7. PC \in DOMAIN Steady => outcome[1] = Steady[PC]
    BY DEF Outcomes
  <2>8. RowsAreSteady'
    BY <2>2, <2>4, <2>7, UpdateSteady
  <2> QED BY <2>5, <2>6, <2>8 DEF Inv
<1> QED BY <1>1, <1>2

(* The predictor's counters, history and rows stay in their types, whatever is
   resolved (update and its helpers, gshare.cpp). *)
THEOREM PredictorTypes == Spec => []TypeOK
<1>1. Inv => TypeOK
  BY DEF Inv
<1> QED BY <1>1, InitInv, NextInv, PTL DEF Spec

(* No instruction that is not a branch is ever redirected, for every size of
   the tables, every program and every history of outcomes (predict). *)
THEOREM OnlyBranchesRedirected == Spec => []NonBranchFallsThrough
<1>1. Inv => NonBranchFallsThrough
  <2> SUFFICES ASSUME Inv, NEW PC \in Word \ Branches
               PROVE  ~btb_hit(PC)
    BY DEF NonBranchFallsThrough, predict
  <2>1. SUFFICES ASSUME btb_hit(PC)
                 PROVE  FALSE
    OBVIOUS
  <2>2. btb_index(PC) \in BTBIndex
    BY IndexAndTagTypes
  <2>3. PICK b \in Branches : btb_index(b) = btb_index(PC) /\ btb_tag(b) = btb_tag(PC)
    BY <2>1, <2>2 DEF btb_hit, Inv, RowsAreBranches
  <2>4. b \in Nat /\ PC \in Nat
    BY BranchesAssumption, XlenAssumption DEF Word
  <2>5. b = PC
    BY <2>3, <2>4, IndexAndTag
  <2> QED BY <2>5
<1> QED BY <1>1, InitInv, NextInv, PTL DEF Spec

(* A branch that always goes to one target is predicted to go on or to go there,
   whichever branches share its row (btb_hit, predict). *)
THEOREM SteadyBranchesKeepTheirTarget == Spec => []SteadyTargetIsOwn
<1>1. Inv => SteadyTargetIsOwn
  BY DEF Inv, RowsAreSteady, SteadyTargetIsOwn, predict
<1> QED BY <1>1, InitInv, NextInv, PTL DEF Spec
==============================================================================
