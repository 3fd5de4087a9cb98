------------------------------ MODULE MemoryOrder ------------------------------
(***************************************************************************)
(* What a program is promised of its loads and stores: each load returns   *)
(* the bytes that the last older stores left, and a store reaches memory   *)
(* when it retires, in program order, and never if it was on a wrong path. *)
(* There is no queue, no cache and no forwarding: instructions complete in *)
(* any order, at once.                                                     *)
(***************************************************************************)
EXTENDS Integers, SequencesExt

CONSTANTS Capacity,  \* how many instructions are in flight
          Address, Byte,
          Instr,     \* loads, stores and branches
          NoValue    \* the result of what is not a completed load

VARIABLES bytes,   \* memory, as retired stores left it
          window   \* the instructions in flight, oldest first

Init ==
    /\ bytes \in [Address -> Byte]
    /\ window = <<>>

Writes(instr, a) == instr.op = "store" /\ a \in instr.addr .. instr.addr + instr.size - 1

ByteOf(instr, a) == instr.data[a - instr.addr]

(* Memory after a store to it. *)
Stored(memory, instr) ==
    [a \in Address |-> IF Writes(instr, a) THEN ByteOf(instr, a) ELSE memory[a]]

(* A byte as the instruction at place k of the window finds it: as the last
   older store left it. *)
SeenBy(k, a) ==
    LET stores == {j \in 1 .. k - 1 : Writes(window[j].instr, a)}
    IN  IF stores = {} THEN bytes[a] ELSE ByteOf(window[Max(stores)].instr, a)

ResultOf(k) ==
    LET instr == window[k].instr
    IN  IF instr.op = "load"
        THEN [i \in 0 .. instr.size - 1 |-> SeenBy(k, instr.addr + i)]
        ELSE NoValue

Completed(k) == [window EXCEPT ![k].ready = TRUE, ![k].result = ResultOf(k)]

Issue(instr) ==
    /\ Len(window) < Capacity
    /\ window' = Append(window, [instr |-> instr, ready |-> FALSE, result |-> NoValue])
    /\ UNCHANGED bytes

Complete(k) ==
    /\ ~window[k].ready
    /\ window' = Completed(k)
    /\ UNCHANGED bytes

(* A mispredicted branch completes and cuts off what is younger. *)
Mispredict(k) ==
    /\ window[k].instr.op = "branch" /\ ~window[k].ready
    /\ window' = SubSeq(Completed(k), 1, k)
    /\ UNCHANGED bytes

Retire ==
    /\ window # <<>> /\ Head(window).ready
    /\ window' = Tail(window)
    /\ bytes' = Stored(bytes, Head(window).instr)

Next ==
    \/ \E instr \in Instr : Issue(instr)
    \/ \E k \in DOMAIN window : Complete(k)
    \/ \E k \in DOMAIN window : Mispredict(k)
    \/ Retire

Spec == Init /\ [][Next]_<<bytes, window>>
==============================================================================
