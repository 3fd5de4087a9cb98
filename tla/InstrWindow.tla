----------------------------- MODULE InstrWindow -----------------------------
(***************************************************************************)
(* What the reorder buffer promises the rest of the core, with no ring, no *)
(* indices and no phase bit: a window of instructions in program order,    *)
(* each known by a tag that no other instruction of the window carries.    *)
(* Instructions enter at the young end, complete in any order, leave from  *)
(* the old end when they are complete, and a flush cuts off everything     *)
(* younger than one instruction of the window.                             *)
(***************************************************************************)
EXTENDS Naturals, Sequences

CONSTANTS Capacity,  \* how many instructions the window holds
          Tag,       \* the names it gives them
          Instr,     \* the instructions
          Value,     \* the results they produce
          NoValue    \* the result of an instruction that is not complete

VARIABLE window      \* oldest instruction first

TagsInUse == {window[k].tag : k \in DOMAIN window}

Init == window = << >>

(* A new instruction becomes the youngest one, under a tag nobody else has. *)
Issue(tag, instr) ==
    /\ Len(window) < Capacity
    /\ tag \notin TagsInUse
    /\ window' = Append(window,
                        [tag |-> tag, instr |-> instr, ready |-> FALSE, result |-> NoValue])

(* A result is recorded once, for the one instruction that has the tag. *)
Complete(tag, value) ==
    \E k \in DOMAIN window :
        /\ window[k].tag = tag
        /\ ~window[k].ready
        /\ window' = [window EXCEPT ![k] =
                        [tag |-> tag, instr |-> window[k].instr, ready |-> TRUE, result |-> value]]

(* Retirement is in program order. *)
Retire ==
    /\ window # << >>
    /\ Head(window).ready
    /\ window' = Tail(window)

(* A flush keeps the instruction it names and everything older. *)
Flush(tag) ==
    \E k \in DOMAIN window :
        /\ window[k].tag = tag
        /\ window' = SubSeq(window, 1, k)

Next ==
    \/ \E tag \in Tag, instr \in Instr : Issue(tag, instr)
    \/ \E tag \in Tag, value \in Value : Complete(tag, value)
    \/ Retire
    \/ \E tag \in Tag : Flush(tag)

Spec == Init /\ [][Next]_window
==============================================================================
