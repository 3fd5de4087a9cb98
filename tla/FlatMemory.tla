------------------------------ MODULE FlatMemory ------------------------------
(***************************************************************************)
(* What the data cache and the memory behind it promise the load/store     *)
(* unit: an array of bytes that serves one request after the other, in the *)
(* order they were sent, and answers each read once, with the bytes it     *)
(* asks for.                                                               *)
(***************************************************************************)
EXTENDS Integers, Sequences

CONSTANTS Address,   \* the byte addresses
          Byte,      \* the values of a byte
          Requests,  \* the requests
          Depth      \* how many requests, and how many answers, can wait

VARIABLES bytes,   \* the memory
          asked,   \* requests that are still to be served
          answers  \* answers that are still to be taken

vars == <<bytes, asked, answers>>

Reach(req) == req.addr .. req.addr + req.size - 1

Init ==
    /\ bytes \in [Address -> Byte]
    /\ asked = <<>>
    /\ answers = <<>>

Ask(req) ==
    /\ Len(asked) < Depth
    /\ asked' = Append(asked, req)
    /\ UNCHANGED <<bytes, answers>>

Write ==
    /\ asked # <<>> /\ Head(asked).is_write
    /\ asked' = Tail(asked)
    /\ bytes' = [a \in Address |-> IF a \in Reach(Head(asked))
                                   THEN Head(asked).data[a - Head(asked).addr]
                                   ELSE bytes[a]]
    /\ UNCHANGED answers

Read ==
    /\ asked # <<>> /\ ~Head(asked).is_write
    /\ Len(answers) < Depth
    /\ asked' = Tail(asked)
    /\ answers' = Append(answers,
           [user |-> Head(asked).user,
            data |-> [i \in 0 .. Head(asked).size - 1 |-> bytes[Head(asked).addr + i]]])
    /\ UNCHANGED bytes

Take ==
    /\ answers # <<>>
    /\ answers' = Tail(answers)
    /\ UNCHANGED <<bytes, asked>>

Next ==
    \/ \E req \in Requests : Ask(req)
    \/ Write
    \/ Read
    \/ Take

Spec == Init /\ [][Next]_vars
==============================================================================
