---------------------------- MODULE FunctionalUnit ----------------------------
(***************************************************************************)
(* What the functional units of project3 have in common (FU.h, and the     *)
(* guards of ALU::tick, BRU::tick and SFU::tick): a slot for the           *)
(* instruction it works on, a counter of cycles, and a slot for the result *)
(* until the bus takes it.                                                 *)
(*                                                                         *)
(* The constructor leaves input_ uninitialised, and reset only clears      *)
(* output_; a unit starts empty here, as it does on zeroed memory.         *)
(***************************************************************************)
EXTENDS RobTag

NoInput  == [valid |-> FALSE]
NoOutput == [valid |-> FALSE]

NewUnit == [input |-> NoInput, output |-> NoOutput, cycles |-> 0]

fu_full(fu)  == fu.input.valid
fu_empty(fu) == ~fu.output.valid

fu_push(fu, instr, rob_tag, rs1_value, rs2_value) ==
    [fu EXCEPT !.input = [valid |-> TRUE, instr |-> instr, rob_tag |-> rob_tag,
                          rs1_value |-> rs1_value, rs2_value |-> rs2_value],
               !.cycles = 0]

fu_pop(fu) == [fu EXCEPT !.output = NoOutput]

(* The unit is done with its input in this tick. *)
completes(fu, latency) == fu.input.valid /\ fu.cycles + 1 >= latency /\ ~fu.output.valid

(* The counter stops at the latency here: no more is asked of it. *)
fu_tick(fu, latency, value) ==
    CASE completes(fu, latency) ->
             [input |-> NoInput, cycles |-> 0,
              output |-> [valid |-> TRUE, rob_tag |-> fu.input.rob_tag, value |-> value]]
      [] fu.input.valid /\ ~completes(fu, latency) ->
             [fu EXCEPT !.cycles = IF @ < latency THEN @ + 1 ELSE @]
      [] OTHER -> fu

(* Mutated: what the unit works on goes on. *)
fu_invalidate_output(fu, rob_tag) ==
    [fu EXCEPT !.output = IF @.valid /\ is_rob_younger(@.rob_tag, rob_tag) THEN NoOutput ELSE @]

fu_invalidate(fu, rob_tag) ==
    [fu EXCEPT !.input  = IF @.valid /\ is_rob_younger(@.rob_tag, rob_tag) THEN NoInput ELSE @,
               !.output = IF @.valid /\ is_rob_younger(@.rob_tag, rob_tag) THEN NoOutput ELSE @]
==============================================================================
