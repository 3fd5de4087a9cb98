----------------------------- MODULE PortedMemory -----------------------------
(***************************************************************************)
(* What the memory and the channels to it promise the caches: one array of *)
(* bytes behind ports, each of which serves its requests in the order they *)
(* were sent and answers each read once.  The ports that are served at the *)
(* same time read before anything is written.                              *)
(***************************************************************************)
EXTENDS Integers, Sequences

CONSTANTS Port, Address,
          Program,   \* what is in the memory at first
          Block,     \* the offsets in what a read answers
          Requests,  \* a function on the ports: what can be asked at each
          Depth      \* how many requests, and how many answers, a port can hold

VARIABLES bytes, asked, answers

vars == <<bytes, asked, answers>>

Init ==
    /\ bytes = Program
    /\ asked = [p \in Port |-> <<>>]
    /\ answers = [p \in Port |-> <<>>]

Ask(p, req) ==
    /\ Len(asked[p]) < Depth
    /\ asked' = [asked EXCEPT ![p] = Append(@, req)]
    /\ UNCHANGED <<bytes, answers>>

Reads(p)  == ~Head(asked[p]).is_write
Writes(p) == Head(asked[p]).is_write

answer(p) == [i \in Block |-> bytes[Head(asked[p]).addr + i]]

(* What the memory holds at an address once the ports have been served. *)
written_at(a, ports) ==
    LET writers == {p \in ports : Writes(p) /\ a - Head(asked[p]).addr \in Head(asked[p]).byteen}
    IN  IF writers = {} THEN {bytes[a]}
        ELSE {Head(asked[p]).data[a - Head(asked[p]).addr] : p \in writers}

Serve(ports) ==
    /\ \A p \in ports : asked[p] # <<>> /\ (Reads(p) => Len(answers[p]) < Depth)
    /\ asked' = [p \in Port |-> IF p \in ports THEN Tail(asked[p]) ELSE asked[p]]
    /\ answers' = [p \in Port |-> IF p \in ports /\ Reads(p)
                                  THEN Append(answers[p], answer(p)) ELSE answers[p]]
    /\ DOMAIN bytes' = Address
    /\ \A a \in Address : bytes'[a] \in written_at(a, ports)

Take(p) ==
    /\ answers[p] # <<>>
    /\ answers' = [answers EXCEPT ![p] = Tail(@)]
    /\ UNCHANGED <<bytes, asked>>

Next ==
    \/ \E p \in Port : Take(p) \/ \E req \in Requests[p] : Ask(p, req)
    \/ \E ports \in SUBSET Port : Serve(ports)

Spec == Init /\ [][Next]_vars
==============================================================================
