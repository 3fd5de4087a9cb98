------------------------------ MODULE ClockedRegs ------------------------------
(***************************************************************************)
(* The registers between the stages of project3 (fifo_reg.h, val_reg.h).   *)
(* What a stage writes is there for the others after the register's next   *)
(* tick, and the registers tick before the core does.  The queues of the   *)
(* core have the default depth of one.                                     *)
(***************************************************************************)
EXTENDS Naturals, Sequences

depth == 1

(* FiFoReg: what it holds, what was pushed since its last tick (at most one),
   and whether its front was popped. *)
EmptyFifo == [buffer |-> <<>>, pushed |-> <<>>, popped |-> FALSE]

fifo_empty(q) == \/ q.buffer = <<>> /\ q.pushed = <<>>
                 \/ Len(q.buffer) = 1 /\ q.popped

fifo_full(q) == \/ Len(q.buffer) = depth /\ ~q.popped
                \/ Len(q.buffer) = depth - 1 /\ q.pushed # <<>>

fifo_data(q) == Head(q.buffer)

fifo_push(q, data) == [q EXCEPT !.pushed = <<data>>]

fifo_pop(q) == [q EXCEPT !.popped = TRUE]

fifo_tick(q) ==
    LET left == IF q.popped /\ q.buffer # <<>> THEN Tail(q.buffer) ELSE q.buffer
        fits == q.pushed # <<>> /\ Len(left) < depth
    IN  [buffer |-> IF fits THEN left \o q.pushed ELSE left,
         pushed |-> IF fits THEN <<>> ELSE q.pushed,
         popped |-> q.popped /\ q.buffer = <<>>]

(* ValReg *)
NewVal(init) == [data |-> init, data_next |-> init]

val_write(r, data) == [r EXCEPT !.data_next = data]

val_tick(r) == [r EXCEPT !.data = r.data_next]
==============================================================================
