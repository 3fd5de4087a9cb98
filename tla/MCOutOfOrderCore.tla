--------------------------- MODULE MCOutOfOrderCore ---------------------------
(* OutOfOrderCore on programs of four slots.  With two stations, four slots of
   the reorder buffer and two checkpoints each of them is full at times. *)
EXTENDS OutOfOrderCore, MCPrograms

(* A first value, and behind it chains of results through all three units over
   the same registers, a loop, a jump over an instruction, one to a computed
   place, and branches that are not taken. *)
MCRenaming ==
    {Program((0 :> ins("ADDI", 1, 1, 0, 1)) @@ rest) : rest \in [1 .. 3 -> {
        ins("ADDI", 1, 1, 0, 1),
        ins("ADD",  1, 1, 2, 0),
        ins("BNE",  0, 1, 2, 2),
        ins("BGE",  0, 2, 1, 7),
        ins("JALR", 1, 2, 0, 1),
        ins("CSRRW", 2, 1, 0, MSTATUS)}]}

(* Every operation but the memory's once, on operands that are still on their
   way, also with the register that is never written as its destination, and a
   reader of what it writes. *)
MCEachOp ==
    {Program((0 :> ins("ADDI", 1, 0, 0, a)) @@ (1 :> ins("ADDI", 2, 0, 0, 5))
             @@ (2 :> ins(op, rd, 1, 2, 3)) @@ (3 :> ins("ADD", 1, rd, rd, 0))) :
        op \in Ops \ {"LW", "SW"}, rd \in {0, 1}, a \in {2, 6}}

MCSpeculative == MCRenaming \cup MCEachOp

MCWord == Word
==============================================================================
