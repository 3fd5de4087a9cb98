------------------------------- MODULE MCGShare -------------------------------
(* Branches at PCs 1 and 3 share a BTB row; the one at 3 always jumps to 6. *)
EXTENDS GShareSystem, TLC

MCBranches == {1, 3, 6}
MCSteady   == 3 :> 6
==============================================================================
