--------------------------- MODULE PacketQueues ---------------------------
(***************************************************************************)
(* The two bounded queues under the network broker: PacketSwitch, which    *)
(* carries the packets of a flow, and LinkTunnelSwitch, which carries the  *)
(* encrypted packets of a tunnel to the link driver.  They differ in what  *)
(* the carrier is and in what is compared when a packet is completed; a    *)
(* behaviour is about one of them ("carrier").                             *)
(*                                                                         *)
(* A grant, a packet and a completion are values a client presents, in any *)
(* combination.  Byte counts are words modulo Word.  Neither queue has a   *)
(* generation of its own: it goes by the grant.                            *)
(***************************************************************************)
EXTENDS Integers, FiniteSets, FiniteSetsExt

CONSTANTS Carriers,     \* identifiers of flows or tunnels; zero is none
          Generations,
          PacketIds,
          Lengths,
          Budgets,      \* PacketBudget: packet bytes, inflight packets, inflight bytes
          Slots,        \* 1 .. max_queued_packets
          Word          \* 2^32

VARIABLES carrier,      \* "flow" or "tunnel"
          queue,        \* slots_
          accepted      \* history: the last admission, its carrier and its budget

packet_vars == <<carrier, queue, accepted>>

PacketConstants == \A b \in Budgets : {b.packet_bytes, b.packets, b.bytes} \subseteq 0 .. Word - 1

NoPacket == [id |-> 0]
NoneAccepted == [to |-> [id |-> 0, generation |-> 0], budget |-> [packet_bytes |-> 0]]

Holders == [id : Carriers, generation : Generations]
Packets == [id : PacketIds, carrier : Carriers, generation : Generations, length : Lengths,
            encrypted : IF carrier = "tunnel" THEN BOOLEAN ELSE {TRUE}]

occupied(i) == queue[i] # NoPacket
minus(a, b) == (a - b) % Word

budget_valid(b) == b.packet_bytes # 0 /\ b.packets # 0 /\ b.bytes >= b.packet_bytes
grant_valid(h, b) == h.id # 0 /\ h.generation # 0 /\ budget_valid(b)
packet_valid(p) == p.id # 0 /\ p.carrier # 0 /\ p.generation # 0 /\ p.length # 0

usage_for(h) == {i \in Slots : occupied(i) /\ queue[i].holder = h}
bytes_of(slots) == MapThenSumSet(LAMBDA i : queue[i].packet.length, slots) % Word

(* Mutant: the length is left to the byte budget.                          *)
admitted_of_any_length(h, b, p) ==
    /\ grant_valid(h, b) /\ packet_valid(p) /\ (carrier = "tunnel" => p.encrypted)
    /\ p.carrier = h.id /\ p.generation = h.generation
    /\ Cardinality(usage_for(h)) < b.packets
    /\ bytes_of(usage_for(h)) <= minus(b.bytes, p.length)

(* Mutant: a packet of another generation is queued with the rest.         *)
admitted_of_any_generation(h, b, p) ==
    /\ grant_valid(h, b) /\ packet_valid(p) /\ (carrier = "tunnel" => p.encrypted)
    /\ p.carrier = h.id
    /\ p.length <= b.packet_bytes
    /\ Cardinality(usage_for(h)) < b.packets
    /\ bytes_of(usage_for(h)) <= minus(b.bytes, p.length)

admitted(h, b, p) ==
    /\ grant_valid(h, b) /\ packet_valid(p) /\ (carrier = "tunnel" => p.encrypted)
    /\ p.carrier = h.id /\ p.generation = h.generation
    /\ p.length <= b.packet_bytes
    /\ Cardinality(usage_for(h)) < b.packets
    /\ bytes_of(usage_for(h)) <= minus(b.bytes, p.length)

enqueue(h, b, p) ==
    LET free == {i \in Slots : ~occupied(i)} IN
    /\ admitted(h, b, p) /\ free # {}
    /\ queue' = [queue EXCEPT ![Min(free)] = [id |-> p.id, holder |-> h, packet |-> p]]
    /\ accepted' = [to |-> h, budget |-> b]
    /\ UNCHANGED carrier

(* The first packet of that identifier decides.                            *)
matches(i, h, p) ==
    /\ queue[i].holder = h
    /\ carrier = "flow" => queue[i].packet.generation = p.generation
    /\ carrier = "tunnel" => queue[i].packet.carrier = h.id /\ queue[i].packet.generation = h.generation

completes(h, p) ==
    LET found == {i \in Slots : occupied(i) /\ queue[i].id = p.id}
    IN IF found # {} /\ matches(Min(found), h, p) THEN {Min(found)} ELSE {}

complete(h, p) ==
    /\ completes(h, p) # {}
    /\ queue' = [i \in Slots |-> IF i \in completes(h, p) THEN NoPacket ELSE queue[i]]
    /\ UNCHANGED <<carrier, accepted>>

revoke_generation(g) ==
    /\ queue' = [i \in Slots |-> IF occupied(i) /\ queue[i].holder.generation = g THEN NoPacket ELSE queue[i]]
    /\ UNCHANGED <<carrier, accepted>>

PacketsInit ==
    /\ carrier \in {"flow", "tunnel"}
    /\ queue = [i \in Slots |-> NoPacket]
    /\ accepted = NoneAccepted

PacketsNext ==
    \/ \E h \in Holders, b \in Budgets, p \in Packets : enqueue(h, b, p)
    \/ \E h \in Holders, p \in Packets : complete(h, p)
    \/ \E g \in Generations : revoke_generation(g)

PacketsSpec == PacketsInit /\ [][PacketsNext]_packet_vars

(* PacketsFitTheirGrant: what a carrier has in flight is within the budget  *)
(* of the grant that was honoured last, if that was its own, with no sum    *)
(* wrapped; and whoever queued a packet can take it out again by presenting *)
(* the same carrier and packet, unless one queued before has its number: no *)
(* slot is lost to a packet that nothing matches.                           *)
PacketsFitTheirGrant ==
    /\ accepted # NoneAccepted =>
          LET used == usage_for(accepted.to) IN
          /\ Cardinality(used) <= accepted.budget.packets
          /\ MapThenSumSet(LAMBDA i : queue[i].packet.length, used) <= accepted.budget.bytes
    /\ \A i \in Slots : occupied(i) =>
          \/ \E j \in Slots : j < i /\ occupied(j) /\ queue[j].id = queue[i].id
          \/ completes(queue[i].holder, queue[i].packet) = {i}
=============================================================================
