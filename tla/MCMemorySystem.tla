---------------------------- MODULE MCMemorySystem ----------------------------
(* Two pages of two blocks, above 64 K.  The program is two bytes from the second
   block on, so that the second page is not there until it is read or written.
   The file of records has one byte at an address by its upper half (key 4), one
   by its segment (key 2), and a record of another key. *)
EXTENDS MemorySystem

Base == 65536

MCAddress == Base .. Base + 7
MCImage   == <<1, 2>>

Data(address, value) == [key |-> 0, addr |-> address, data |-> <<value>>]
Mark(k, v) == [key |-> k, value |-> v]

MCHexFile == <<Mark(4, 1), Data(2, 1), Mark(2, 4096), Data(3, 2), Mark(5, Base)>>

MCProgram == [a \in MCAddress |-> CASE a = Base + 2 -> 1
                                    [] a = Base + 3 -> 2
                                    [] OTHER -> <<13, 240, 173, 186>>[(a % 4) + 1]]

Read(addr) == [is_write |-> FALSE, addr |-> Base + addr, byteen |-> {}, data |-> <<>>]

Write(addr, byteen, value) ==
    [is_write |-> TRUE, addr |-> Base + addr, byteen |-> byteen, data |-> [i \in Block |-> value]]

MCRequests == [p \in Port |->
    IF p = "imem" THEN {Read(2), Read(4)}
    ELSE {Read(2), Read(4), Write(2, {0}, 7), Write(3, {0, 1}, 8)}]
==============================================================================
