--------------------------- MODULE MCLoadStoreQueue ---------------------------
(* Two addresses: a word of both, and the byte at the second, so that accesses
   cover, overlap and repeat each other.  Memory is zero at first.  A program
   is made of one mix of instructions. *)
EXTENDS LoadStoreQueue

CONSTANT Mixes   \* sets of instructions

VARIABLE mix

MCByte == {0, 1}
MCAddress == {0, 1}

LoadWord  == [op |-> "load", addr |-> 0, size |-> 2]
LoadByte  == [op |-> "load", addr |-> 1, size |-> 1]
StoreWord == [op |-> "store", addr |-> 0, size |-> 2, data |-> [i \in {0, 1} |-> 1]]
StoreByte == [op |-> "store", addr |-> 1, size |-> 1, data |-> [i \in {0} |-> 0]]
StoreOne  == [op |-> "store", addr |-> 1, size |-> 1, data |-> [i \in {0} |-> 1]]
Branch    == [op |-> "branch"]

(* A load and the store it needs, behind stores that keep the cache busy. *)
StoreFirst == [op |-> "store", addr |-> 0, size |-> 1, data |-> [i \in {0} |-> 1]]

MCInstr == {LoadWord, LoadByte, StoreWord, StoreByte, StoreOne, StoreFirst, Branch}

(* A word and the bytes that change a part of it. *)
Overlaps == {LoadWord, StoreOne, StoreByte}

(* A part of a stored word, on right and wrong paths. *)
Speculation == {LoadByte, StoreWord, Branch}

Overtaking == {LoadByte, StoreOne, StoreFirst, Branch}

MCMixes       == {Overlaps, Speculation}
MCSpeculation == {Speculation}
MCOvertaking  == {Overtaking}

MixInit == Init /\ mix \in Mixes

MixNext ==
    /\ \/ \E instr \in mix : issue(instr)
       \/ \E k \in DOMAIN window : mispredicted(k)
       \/ Proceed
    /\ UNCHANGED mix

MixSpec == MixInit /\ [][MixNext]_<<vars, mix>> /\ WF_vars(Proceed)

(* A bound: a voided load that still waits for its answer counts as one of the
   WINDOW instructions in flight. *)
FewInFlight == Len(window) + Cardinality(Voided) < WINDOW

(* Until a tag is misread or a store overtaken. *)
TimelySpec ==
    /\ MixInit
    /\ [][ /\ MixNext /\ ~TagMisread /\ ~StoreOvertaken
           /\ (\E instr \in mix : issue(instr)) => FewInFlight ]_<<vars, mix>>
    /\ WF_vars(Proceed /\ ~TagMisread)

(* The queue sends what it can before anything else happens: only the cache
   can hold it up. *)
PromptSpec ==
    MixInit /\ [][MixNext /\ ~TagMisread /\ (LSQ_tick \/ ~ENABLED LSQ_tick)]_<<vars, mix>>
==============================================================================
