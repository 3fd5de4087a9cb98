---------------------------------- MODULE Ram ----------------------------------
(***************************************************************************)
(* The memory of all three projects (mem.cpp, RAM): pages that exist from  *)
(* the first access to them on, and a note of the page of the last access. *)
(*                                                                         *)
(* ram is a record: pages, a function on the indices of the pages there    *)
(* are, and last_page_index; NoPage stands for last_page_ = nullptr.       *)
(***************************************************************************)
EXTENDS Integers, SequencesExt

CONSTANT PAGE_SIZE   \* page_size

ASSUME PageAssumption == PAGE_SIZE \in Nat \ {0}

NoPage == -1

NewRam == [pages |-> <<>>, last_page_index |-> NoPage]

page_index(address)  == address \div PAGE_SIZE
page_offset(address) == address % PAGE_SIZE

(* A page nothing was written to reads as "baadf00d", little end first. *)
baadf00d == <<13, 240, 173, 186>>

fresh_page == [i \in 0 .. PAGE_SIZE - 1 |-> baadf00d[(i % 4) + 1]]

(* The page get finds: the last one again, without looking at the table, if
   the address is in it.  Mutated: whatever the address is. *)
hits_last_page_any(ram, address) == ram.last_page_index # NoPage

hits_last_page(ram, address) ==
    ram.last_page_index # NoPage /\ ram.last_page_index = page_index(address)

page_of(ram, address) ==
    IF hits_last_page(ram, address) THEN ram.last_page_index ELSE page_index(address)

(* get: the memory once the page of an address is there and is the last. *)
get(ram, address) ==
    LET p == page_of(ram, address)
    IN  [pages |-> [q \in DOMAIN ram.pages \cup {p} |->
                       IF q \in DOMAIN ram.pages THEN ram.pages[q] ELSE fresh_page],
         last_page_index |-> p]

read_byte(ram, address) ==
    get(ram, address).pages[page_of(ram, address)][page_offset(address)]

write_byte(ram, address, value) ==
    [get(ram, address) EXCEPT !.pages[page_of(ram, address)][page_offset(address)] = value]

(* read: the bytes, and the memory after it. *)
touched(ram, addr, size) ==
    LET after[i \in 0 .. size] == IF i = 0 THEN ram ELSE get(after[i - 1], addr + (i - 1))
    IN  after[size]

read(ram, addr, size) ==
    [i \in 0 .. size - 1 |-> read_byte(touched(ram, addr, i), addr + i)]

(* The bytes at some places of the data written, one after the other. *)
stored(ram, data, addr, size, places) ==
    LET after[i \in 0 .. size] ==
            IF i = 0 THEN ram
            ELSE IF i - 1 \in places THEN write_byte(after[i - 1], addr + (i - 1), data[i - 1])
            ELSE after[i - 1]
    IN  after[size]

write(ram, data, addr, size) == stored(ram, data, addr, size, 0 .. size - 1)

(* loadBinImage, into a memory that has no pages yet. *)
loadBinImage(ram, image, destination) ==
    write(ram, [i \in 0 .. Len(image) - 1 |-> image[i + 1]], destination, Len(image))

(* loadHexImage, into a memory that has no pages yet: a file of records.  One
   with key 0 has bytes for an address, one with key 2 or 4 sets what is added
   to the addresses after it, and the others say nothing. *)
load_record(s, record) ==
    CASE record.key = 0 ->
             [s EXCEPT !.ram = loadBinImage(@, record.data, record.addr + s.offset)]
      [] record.key = 2 -> [s EXCEPT !.offset = record.value * 16]
      [] record.key = 4 -> [s EXCEPT !.offset = record.value * 65536]
      [] OTHER          -> s

loadHexImage(ram, file) ==
    LET after[i \in 0 .. Len(file)] ==
            IF i = 0 THEN [ram |-> ram, offset |-> 0] ELSE load_record(after[i - 1], file[i])
    IN  after[Len(file)].ram
==============================================================================
