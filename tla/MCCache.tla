-------------------------------- MODULE MCCache --------------------------------
(* Two sets of two ways, and five lines: three for the one set, so that lines
   are evicted, and one in the other.  Two words in a line. *)
EXTENDS Cache

MCByte == {0, 1}

Read(user, addr, size) ==
    [is_write |-> FALSE, user |-> user, addr |-> addr, size |-> size, data |-> [i \in InWord |-> 0]]

Write(addr, size, byte) ==
    [is_write |-> TRUE, user |-> 0, addr |-> addr, size |-> size, data |-> [i \in InWord |-> byte]]

(* Whole words, and bytes that begin a word: accesses that fit in their line
   with the word around them. *)
MCRequests ==
    {Read(1, 0, 2), Read(2, 2, 1), Read(3, 4, 2), Read(4, 8, 2), Read(5, 16, 2),
     Write(0, 2, 1), Write(2, 1, 1)}

(* The theorems about what the cache holds are about such accesses. *)
ASSUME WordsFit == Requests = MCRequests => RequestsFit

(* Bytes at any place of a line. *)
MCByteRequests == {Read(1, 2, 1), Read(2, 3, 1), Write(2, 1, 1), Write(3, 1, 1)}
==============================================================================
