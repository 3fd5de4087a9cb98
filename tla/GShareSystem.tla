----------------------------- MODULE GShareSystem -----------------------------
(***************************************************************************)
(* The predictor on its own, trained by any stream of resolved branches.   *)
(* Branches that are not Steady may go either way, to any target; a Steady *)
(* branch is always taken, to its one target.                              *)
(***************************************************************************)
EXTENDS GShare

CONSTANTS Branches,  \* the PCs of the program's branches and jumps
          Steady     \* for the branches that are always taken, their target

ASSUME BranchesAssumption == Branches \subseteq Word
ASSUME SteadyAssumption   == /\ DOMAIN Steady \subseteq Branches
                             /\ \A PC \in DOMAIN Steady : Steady[PC] \in Word

Outcomes(PC) ==
    IF PC \in DOMAIN Steady
    THEN {<<Steady[PC], TRUE>>}
    ELSE {<<Fallthrough(PC), FALSE>>} \cup (Word \X {TRUE})

Resolve(PC) ==
    \E outcome \in Outcomes(PC) : update(PC, outcome[1], outcome[2])

Next == \E PC \in Branches : Resolve(PC)

Spec == PredictorInit /\ [][Next]_predictor

------------------------------------------------------------------------------
(* Type invariant: the counters stay in two bits, the history in BHR_SIZE
   bits and the BTB's rows hold tags and targets (gshare.cpp). *)
TypeOK == PredictorTypeOK

(* An instruction that is no branch is never redirected, whatever the
   predictor has learnt and whichever branches share its row or its counter
   (predict).  branch_unit checks predictions for branches only, so a wrong
   one for any other instruction would never be repaired. *)
NonBranchFallsThrough ==
    \A PC \in Word \ Branches : predict(PC) = Fallthrough(PC)

(* A row holds the target of the branch its tag and index name: a steady
   branch is predicted to go on, or to its own target, and nowhere else. *)
SteadyTargetIsOwn ==
    \A PC \in DOMAIN Steady : predict(PC) \in {Fallthrough(PC), Steady[PC]}
==============================================================================
