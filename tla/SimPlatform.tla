------------------------------ MODULE SimPlatform ------------------------------
(***************************************************************************)
(* The event-driven platform of project3 (simobject.h, ringqueue.h,        *)
(* linked_list.h): channels of bounded capacity, packets in flight between *)
(* them, and the timing wheel the packets that take time wait in.          *)
(*                                                                         *)
(* The state is one record, sim, because an object's tick sends and        *)
(* receives in the middle of what else it does.  The clock is kept modulo  *)
(* the size of the wheel, and a waiting event has the number of cycles it  *)
(* still waits for: the code looks at no more of cycles_ than that.        *)
(***************************************************************************)
EXTENDS Integers, SequencesExt

CONSTANTS Channel,     \* the channels
          sink,        \* sink_: from the channels that are bound to what they are bound to
          CAPACITY,    \* of a channel
          WHEEL_SIZE   \* buckets of the timing wheel

ASSUME PlatformAssumption ==
    /\ DOMAIN sink \subseteq Channel
    /\ \A ch \in DOMAIN sink : sink[ch] \in Channel \ DOMAIN sink
    /\ CAPACITY \in Nat \ {0}
    /\ WHEEL_SIZE \in Nat \ {0}

Bucket   == 0 .. WHEEL_SIZE - 1
Endpoint == Channel \ DOMAIN sink

(* Where what is sent on a channel arrives. *)
endpoint(ch) == IF ch \in DOMAIN sink THEN sink[ch] ELSE ch

NewPlatform ==
    [storage    |-> [ch \in Endpoint |-> <<>>],  \* storage_
     pending    |-> [ch \in Endpoint |-> 0],     \* pending_count_
     imm_events |-> <<>>,
     delta      |-> 0,
     reg_events |-> [b \in Bucket |-> <<>>],
     cycles     |-> 0]

occupancy(sim, ch) == Len(sim.storage[ch]) + sim.pending[ch]
full(sim, ch)      == occupancy(sim, endpoint(ch)) >= CAPACITY
empty(sim, ch)     == sim.storage[ch] = <<>>
peek(sim, ch)      == Head(sim.storage[ch])
pop(sim, ch)       == [sim EXCEPT !.storage[ch] = Tail(@)]

(* LinkedList::push_back inserts before the last element of a list that has
   one. *)
push_back(list, evt) ==
    IF list = <<>> THEN <<evt>> ELSE Front(list) \o <<evt, Last(list)>>

reserve(sim, ch) == [sim EXCEPT !.pending[endpoint(ch)] = @ + 1]

schedule(sim, ch, pkt, delay) ==
    IF delay = 0
    THEN [sim EXCEPT !.imm_events = push_back(@, [channel |-> ch, pkt |-> pkt, cycles |-> sim.delta]),
                     !.delta = @ + 1]
    ELSE [sim EXCEPT !.reg_events[(sim.cycles + delay) % WHEEL_SIZE] =
                         push_back(@, [channel |-> ch, pkt |-> pkt, cycles |-> delay])]

send(sim, ch, pkt, delay) == schedule(reserve(sim, ch), ch, pkt, delay)

(* receive_packet.  Mutated: the packet's reservation is not given back. *)
receive_packet_reserved(sim, evt) ==
    [sim EXCEPT !.storage[endpoint(evt.channel)] = Append(@, evt.pkt)]

receive_packet(sim, evt) ==
    [sim EXCEPT !.pending[endpoint(evt.channel)] = @ - 1,
                !.storage[endpoint(evt.channel)] = Append(@, evt.pkt)]

fired(sim, evts) ==
    LET after[i \in 0 .. Len(evts)] ==
            IF i = 0 THEN sim ELSE receive_packet(after[i - 1], evts[i])
    IN  after[Len(evts)]

(* The events at some places of a list, in the order of the list. *)
among(evts, places) ==
    LET kept[i \in 0 .. Len(evts)] ==
            IF i = 0 THEN <<>>
            ELSE IF i \in places THEN Append(kept[i - 1], evts[i]) ELSE kept[i - 1]
    IN  kept[Len(evts)]

(* fire_immediate_events: by number, in the order they were sent. *)
numbered(evts, n) == among(evts, {i \in DOMAIN evts : evts[i].cycles = n})

fire_immediate_events(sim) ==
    LET batch == FlattenSeq([n \in 1 .. sim.delta |-> numbered(sim.imm_events, n - 1)])
    IN  [fired(sim, batch) EXCEPT
            !.imm_events = among(@, {i \in DOMAIN @ : @[i].cycles >= sim.delta}),
            !.delta = 0]

(* Where in a bucket the events are whose time has come.  Mutated: everywhere. *)
due_bucket(evts) == DOMAIN evts

due(evts) == {i \in DOMAIN evts : evts[i].cycles <= 0}

(* The end of SimPlatform::tick: ++cycles_, then the bucket of the new cycle;
   an event that has a turn of the wheel to wait stays in it. *)
waited(evts) == [i \in DOMAIN evts |-> [evts[i] EXCEPT !.cycles = @ - 1]]

advance(sim) ==
    LET now   == (sim.cycles + 1) % WHEEL_SIZE
        wheel == [b \in Bucket |-> waited(sim.reg_events[b])]
        here  == wheel[now]
    IN  [fired(sim, among(here, due(here))) EXCEPT
            !.cycles = now,
            !.reg_events = [wheel EXCEPT ![now] = among(here, DOMAIN here \ due(here))]]

(* SimPlatform::reset, but for the objects' own: the events are deleted, and
   what they had reserved stays reserved. *)
reset(sim) ==
    [sim EXCEPT !.imm_events = <<>>, !.delta = 0,
                !.reg_events = [b \in Bucket |-> <<>>], !.cycles = 0]
==============================================================================
