------------------------------ MODULE Channels ------------------------------
(***************************************************************************)
(* One packet channel (core/osipc) and the three protocols spoken on it:   *)
(*   "rpc"      ClientConnection::call, which waits for ever, to a peer    *)
(*              that may repeat its answers or send what nobody asked for; *)
(*   "control"  the supervisor's identity requests and the application     *)
(*              manager's storage requests, which share one channel and    *)
(*              give up after a time while the service still answers;      *)
(*   "launch"   the bootstrap of a service or an application, whose READY  *)
(*              must be the answer to the request of this very launch.     *)
(* A behaviour is of one profile.  Descriptors are numbers: the kernel     *)
(* installs those of a packet when it is received, wanted or not.          *)
(***************************************************************************)
EXTENDS Naturals, Sequences, FiniteSets, TLC

CONSTANTS Profiles,        \* the protocols explored
          Services,        \* platform services an application may be given
          MaxHandleCount,  \* max_handle_count
          MaxRequest,      \* requests of a client before its ids run out
          MaxQueue,        \* packets a socket buffer holds
          MaxLaunch        \* bound: launches

VARIABLES profile, up, down, alive, next, pending, done, outcome, started,
          child, table, kept

channel_vars == <<profile, up, down, alive, next, pending, done, outcome,
                  started, child, table, kept>>

ChannelConstants == /\ MaxRequest \in Nat \ {0} /\ MaxQueue \in Nat \ {0}
                    /\ MaxLaunch \in Nat /\ MaxHandleCount >= 1
                    /\ Cardinality(Services) <= MaxHandleCount

-----------------------------------------------------------------------------
(* Packets.                                                                *)

Primary == {"request", "response", "event"}

Flags == Primary \cup {"error", "oneway", "cancellable", "has_handles"}

Empty == [record |-> 0, services |-> <<>>, error |-> 0]

NoCall == [caller |-> "none", operation |-> "none", id |-> 0]

RangeOf(s) == {s[i] : i \in DOMAIN s}

\* A well formed packet.  "fault" stands for what the header and the packet's
\* size can get wrong, "claimed" for the header's handle_count.
Packet(flags, operation, id, body, handles) ==
    [flags |-> flags \cup (IF handles = <<>> THEN {} ELSE {"has_handles"}),
     operation |-> operation, id |-> id, body |-> body,
     claimed |-> Len(handles), handles |-> handles, fault |-> "none"]

validate_wire_flags(p) ==
    /\ p.flags \subseteq Flags
    /\ Cardinality(p.flags \cap Primary) = 1
    /\ "error" \in p.flags => "response" \in p.flags
    /\ p.flags \cap {"oneway", "cancellable"} # {} => "request" \in p.flags
    /\ ~ {"oneway", "cancellable"} \subseteq p.flags
    /\ (p.claimed > 0) = ("has_handles" \in p.flags)

\* encode_wire_header_v1 refuses what decode_wire_header_v1 would refuse.
encode_wire_header_v1(p) == /\ p.claimed <= MaxHandleCount
                            /\ validate_wire_flags(p)

decode_wire_header_v1(p) ==
    CASE p.fault = "header" -> "malformed_message"
      [] p.claimed > MaxHandleCount -> "oversized_message"
      [] ~ validate_wire_flags(p) -> "invalid_flags"
      [] OTHER -> "ok"

validate_send_shape(p) == /\ Len(p.handles) <= MaxHandleCount
                          /\ p.claimed = Len(p.handles)

sendable(p) == validate_send_shape(p) /\ encode_wire_header_v1(p)

append_rights(p) ==
    IF Len(p.handles) > MaxHandleCount THEN "ancillary_truncated" ELSE "ok"

close_unadopted_nothing(p) == {}

read_credentials(p) ==
    IF p.fault = "credentials" THEN "invalid_ancillary" ELSE "ok"

\* The kernel puts the credentials before the descriptors, so a record refused
\* before them ends the parse with the descriptors unread.
rights_read(p) == read_credentials(p) = "ok"

\* Descriptors of a refused record are installed already: they are closed.
close_unadopted_descriptors(p) ==
    IF rights_read(p) /\ append_rights(p) # "ok" THEN RangeOf(p.handles) ELSE {}

parse_ancillary(p) ==
    CASE ~ rights_read(p) -> read_credentials(p)
      [] append_rights(p) # "ok" -> append_rights(p)
      [] p.fault = "no_credentials" -> "missing_credentials"
      [] OTHER -> "ok"

receive(p) ==
    CASE parse_ancillary(p) # "ok" -> parse_ancillary(p)
      [] p.fault = "truncated" -> "packet_truncated"
      [] decode_wire_header_v1(p) # "ok" -> decode_wire_header_v1(p)
      [] p.fault = "size" -> "packet_size_mismatch"
      [] p.claimed # Len(p.handles) -> "handle_count_mismatch"
      [] OTHER -> "ok"

\* Receiving p, of which the handler takes some descriptors: adopted ones it
\* does not take are closed with the message (or with AncillaryData).
take_handles(p, taken) ==
    LET adopted == IF rights_read(p) /\ append_rights(p) = "ok"
                   THEN RangeOf(p.handles) ELSE {}
        closed == close_unadopted_descriptors(p) \cup (adopted \ taken)
    IN  /\ table' = (table \cup RangeOf(p.handles)) \ closed
        /\ kept' = kept \cup (taken \cap adopted)

\* n descriptor numbers nobody uses.
fresh(n) ==
    LET used == table \cup UNION {RangeOf(p.handles) :
                                  p \in RangeOf(up) \cup RangeOf(down)}
        top == CHOOSE t \in used \cup {0} : \A u \in used : u <= t
    IN  [i \in 1 .. n |-> top + i]

-----------------------------------------------------------------------------
(* Requests and answers.                                                   *)

Operations == [rpc |-> {"ask"}, identity |-> {"register", "unregister"},
               storage |-> {"register_root", "unregister_root"}]

\* Each client numbers its own requests, the storage client from a base of
\* its own, because control requests of all clients share one channel.
First == [rpc |-> 1, identity |-> 1, storage |-> MaxRequest + 2]

Callers == IF profile = "control" THEN {"identity", "storage"}
           ELSE IF profile = "rpc" THEN {"rpc"} ELSE {}

\* The id of the next request and the counter after it; 0 is exhausted.
next_control_request(caller) ==
    IF next[caller] = First[caller] + MaxRequest - 1 THEN 0
    ELSE next[caller] + 1

\* The four control requests.  A process or a root is a number of the body.
encode_identity_record(body) == body.record # 0

register_identity_with_service(id) ==
    Packet({"request"}, "register", id, [Empty EXCEPT !.record = 1], fresh(1))

unregister_identity_with_service(id) ==
    Packet({"request"}, "unregister", id, [Empty EXCEPT !.record = 1], <<>>)

register_private_root(id) ==
    Packet({"request"}, "register_root", id, [Empty EXCEPT !.record = 1],
           fresh(1))

unregister_private_root(id) ==
    Packet({"request"}, "unregister_root", id, [Empty EXCEPT !.record = 1],
           <<>>)

request_packet(operation, id) ==
    CASE operation = "register" -> register_identity_with_service(id)
      [] operation = "unregister" -> unregister_identity_with_service(id)
      [] operation = "register_root" -> register_private_root(id)
      [] operation = "unregister_root" -> unregister_private_root(id)
      [] OTHER -> Packet({"request"}, operation, id, Empty, <<>>)

\* ClientConnection::call, or one of the control requests, up to the wait.
\* What the last call returned is dropped by then.
call(caller, operation) ==
    /\ caller \in Callers /\ operation \in Operations[caller]
    /\ pending = NoCall /\ next[caller] # 0 /\ Len(up) < MaxQueue
    /\ LET id == next[caller]
           p == request_packet(operation, id)
       IN  /\ sendable(p)
           /\ caller = "identity" => encode_identity_record(p.body)
           /\ next' = [next EXCEPT ![caller] = next_control_request(caller)]
           /\ IF alive
              THEN /\ up' = Append(up, p)
                   /\ pending' = [caller |-> caller, operation |-> operation,
                                  id |-> id]
                   /\ outcome' = [outcome EXCEPT !.result = "none"]
              ELSE /\ outcome' = [operation |-> operation, id |-> id,
                                  result |-> "peer_died"]
                   /\ UNCHANGED <<up, pending>>
    /\ IF caller = "rpc" THEN table' = table \ kept /\ kept' = {}
       ELSE UNCHANGED <<table, kept>>
    /\ UNCHANGED <<profile, down, alive, done, started, child>>

decode_rpc_error(p) ==
    IF p.body.error = 0 THEN "protocol_violation" ELSE "remote_error"

\* How ClientConnection::call reads the packet that follows its request.
call_response(c, p) ==
    CASE receive(p) # "ok" -> receive(p)
      [] \/ "response" \notin p.flags
         \/ p.flags \cap {"request", "event", "oneway", "cancellable"} # {}
         \/ p.operation # c.operation
         \/ p.id # c.id -> "protocol_violation"
      [] "error" \in p.flags ->
         IF p.claimed # 0 THEN "protocol_violation" ELSE decode_rpc_error(p)
      [] OTHER -> "ok"

\* A wait that does not compare request ids.
wait_for_control_response_by_operation(c, p) ==
    CASE receive(p) # "ok" -> receive(p)
      [] \/ "response" \notin p.flags
         \/ p.operation # c.operation
         \/ p.claimed # 0 -> "protocol_violation"
      [] "error" \in p.flags -> decode_rpc_error(p)
      [] p.body # Empty -> "protocol_violation"
      [] OTHER -> "ok"

wait_for_control_response(c, p) ==
    CASE receive(p) # "ok" -> receive(p)
      [] \/ "response" \notin p.flags
         \/ p.operation # c.operation
         \/ p.id # c.id
         \/ p.claimed # 0 -> "protocol_violation"
      [] "error" \in p.flags -> decode_rpc_error(p)
      [] p.body # Empty -> "protocol_violation"
      [] OTHER -> "ok"

finish(result) ==
    /\ outcome' = [operation |-> pending.operation, id |-> pending.id,
                   result |-> result]
    /\ pending' = NoCall

answered ==
    /\ pending # NoCall /\ down # <<>>
    /\ LET p == Head(down)
           result == IF pending.caller = "rpc"
                     THEN call_response(pending, p)
                     ELSE wait_for_control_response(pending, p)
       IN  /\ finish(result)
           /\ take_handles(p, IF result = "ok" THEN RangeOf(p.handles) ELSE {})
    /\ down' = Tail(down)
    /\ UNCHANGED <<profile, up, alive, next, done, started, child>>

\* poll(2) returns 0: only control requests have a deadline.
times_out ==
    /\ pending # NoCall /\ pending.caller # "rpc" /\ down = <<>>
    /\ finish("readiness_timeout")
    /\ UNCHANGED <<profile, up, down, alive, next, done, started, child, table,
                   kept>>

peer_died ==
    /\ pending # NoCall /\ down = <<>> /\ ~ alive
    /\ finish("peer_died")
    /\ UNCHANGED <<profile, up, down, alive, next, done, started, child, table,
                   kept>>
-----------------------------------------------------------------------------
(* The peer.                                                               *)

send_rpc_response(p, body, handles) ==
    Packet({"response"}, p.operation, p.id, body, handles)

send_rpc_error(p) ==
    Packet({"response", "error"}, p.operation, p.id,
           [Empty EXCEPT !.error = 1], <<>>)

validate_rpc_request(p) ==
    /\ p.flags = {"request"}
    /\ p.id # 0 /\ p.claimed = 0

decode_identity_record(body) == body.record # 0

decode_root_identity(body) == body.record # 0

\* Which requests handle_identity_control_once and dispatch_control_once can
\* perform; they answer every other one with an error.
handle_identity_control_once(p) ==
    CASE p.operation = "register" ->
         "has_handles" \in p.flags /\ p.claimed = 1
                                   /\ decode_identity_record(p.body)
      [] p.operation = "unregister" -> p.claimed = 0 /\ p.body.record # 0
      [] OTHER -> FALSE

dispatch_control_once(p) ==
    CASE p.operation = "register_root" ->
         "has_handles" \in p.flags /\ p.claimed = 1
                                   /\ decode_root_identity(p.body)
      [] p.operation = "unregister_root" ->
         p.claimed = 0 /\ decode_root_identity(p.body)
      [] OTHER -> handle_identity_control_once(p)

control_request_valid(p) ==
    /\ p.flags \cap (Primary \cup {"error", "oneway", "cancellable"})
         = {"request"}
    /\ p.id # 0

\* The peer serves one request: it performs it (and keeps the descriptor it
\* came with) or refuses it, and answers.
serve(performed, given) ==
    /\ alive /\ up # <<>> /\ Len(down) < MaxQueue /\ profile # "launch"
    /\ given => performed /\ profile = "rpc"
    /\ LET p == Head(up)
           valid == /\ receive(p) = "ok"
                    /\ IF profile = "rpc" THEN validate_rpc_request(p)
                       ELSE control_request_valid(p) /\ dispatch_control_once(p)
           ok == performed /\ valid
           answer == IF ok THEN send_rpc_response(p, Empty,
                                     IF given THEN fresh(1) ELSE <<>>)
                     ELSE send_rpc_error(p)
       IN  /\ sendable(answer)
           /\ down' = Append(down, answer)
           /\ done' = done \cup {[operation |-> p.operation, id |-> p.id,
                                  result |-> IF ok THEN "ok"
                                             ELSE "remote_error"]}
           /\ take_handles(p, IF ok THEN RangeOf(p.handles) ELSE {})
    /\ up' = Tail(up)
    /\ UNCHANGED <<profile, alive, next, pending, outcome, started, child>>

\* Packets a peer may send unasked: answers it already gave, an event, an
\* error with a descriptor, and packets that are wrong in themselves.  The
\* credentials are the kernel's own, and refused only when the sender is not in
\* the receiver's process name space: no program here makes one, and such a
\* sender is taken to bring no descriptor.
Strays ==
    LET bad == Packet({"event"}, "ask", 0, Empty, fresh(1))
    IN  {Packet({"response"} \cup (IF d.result = "ok" THEN {} ELSE {"error"}),
                d.operation, d.id,
                [Empty EXCEPT !.error = IF d.result = "ok" THEN 0 ELSE 1],
                <<>>) : d \in done}
        \cup {bad, [bad EXCEPT !.claimed = 0], [bad EXCEPT !.claimed = 2],
              [bad EXCEPT !.flags = @ \cup {"error"}],
              [bad EXCEPT !.handles = fresh(MaxHandleCount + 1)]}
        \cup {[bad EXCEPT !.fault = f] :
              f \in {"no_credentials", "truncated", "header", "size"}}
        \cup {[Packet({"event"}, "ask", 0, Empty, <<>>) EXCEPT !.fault = "credentials"]}

peer_sends_unasked(p) ==
    /\ profile = "rpc" /\ alive /\ Len(down) < MaxQueue
    /\ down' = Append(down, p)
    /\ UNCHANGED <<profile, up, alive, next, pending, done, outcome, started,
                   child, table, kept>>

\* What it has sent can still be read; what it has not read is gone.
peer_exits ==
    /\ profile # "launch" /\ alive
    /\ alive' = FALSE /\ up' = <<>>
    /\ IF profile = "control" THEN table' = table \ kept /\ kept' = {}
       ELSE UNCHANGED <<table, kept>>
    /\ UNCHANGED <<profile, down, next, pending, done, outcome, started, child>>

-----------------------------------------------------------------------------
(* Launching.                                                              *)

Kinds == {"service", "app_v1", "app_v2"}

NoChild == [got |-> 0, services |-> <<>>]

\* Sequences of distinct services, in any order.
ServiceLists ==
    {l \in UNION {[1 .. n -> Services] : n \in 0 .. Cardinality(Services)} :
       \A i, j \in DOMAIN l : l[i] = l[j] => i = j}

valid_record(r) == r # 0

valid_services(l) == l # <<>> /\ Len(l) <= MaxHandleCount /\ l \in ServiceLists

encode_payload_v2(record, services) ==
    /\ valid_record(record) /\ valid_services(services)

decode_payload_v2(body) == valid_record(body.record)
                           /\ valid_services(body.services)

decode_record(body) == valid_record(body.record) /\ body.services = <<>>

decode_service_record(body) == body.record # 0

\* The request of each kind of launch; operations of the three protocols are
\* named after the kind, and every request has id 1.
send_service_request(record) ==
    Packet({"request"}, "service", 1, [Empty EXCEPT !.record = record], <<>>)

send_bootstrap_request_v1(record) ==
    Packet({"request"}, "app_v1", 1, [Empty EXCEPT !.record = record], <<>>)

send_bootstrap_request_v2(record, services) ==
    Packet({"request"}, "app_v2", 1,
           [Empty EXCEPT !.record = record, !.services = services],
           [i \in DOMAIN services |-> i])

\* create_local_pair, fork, and the request.
send_bootstrap_request(kind, services) ==
    /\ profile = "launch" /\ started.stage # "waiting"
    /\ started.instance < MaxLaunch
    /\ IF kind = "app_v2" THEN encode_payload_v2(started.instance + 1, services)
       ELSE services = <<>>
    /\ started' = [stage |-> "waiting", instance |-> started.instance + 1,
                  kind |-> kind, services |-> services]
    /\ child' = NoChild /\ alive' = TRUE
    /\ table' = {} /\ kept' = {} /\ down' = <<>>
    /\ LET record == started.instance + 1
       IN  up' = <<CASE kind = "service" -> send_service_request(record)
                     [] kind = "app_v1" -> send_bootstrap_request_v1(record)
                     [] OTHER -> send_bootstrap_request_v2(record, services)>>
    /\ UNCHANGED <<profile, next, pending, done, outcome>>

receive_service_request(p) ==
    /\ p.flags \cap Primary = {"request"} /\ p.operation = "service"
    /\ p.id = 1 /\ p.claimed = 0
    /\ decode_service_record(p.body)

receive_bootstrap_request_v1(p) ==
    /\ p.flags \cap Primary = {"request"} /\ p.operation = "app_v1"
    /\ p.id = 1 /\ p.claimed = 0
    /\ decode_record(p.body)

receive_bootstrap_request_v2(p) ==
    /\ p.flags \cap (Primary \cup {"error"}) = {"request"}
    /\ "has_handles" \in p.flags /\ p.operation = "app_v2" /\ p.id = 1
    /\ p.claimed > 0 /\ decode_payload_v2(p.body)
    /\ Len(p.body.services) = p.claimed

receive_bootstrap_request ==
    /\ profile = "launch" /\ alive /\ up # <<>>
    /\ LET p == Head(up)
       IN  /\ receive(p) = "ok"
           /\ CASE started.kind = "service" -> receive_service_request(p)
                [] started.kind = "app_v1" -> receive_bootstrap_request_v1(p)
                [] OTHER -> receive_bootstrap_request_v2(p)
           /\ child' = [got |-> p.body.record, services |-> p.body.services]
           /\ take_handles(p, RangeOf(p.handles))
    /\ up' = <<>>
    /\ UNCHANGED <<profile, down, alive, next, pending, done, outcome, started>>

\* READY of a service has no payload, that of an application echoes what it
\* was given.
service_ready == Packet({"response"}, "service", 1, Empty, <<>>)

ready_v1(record) ==
    Packet({"response"}, "app_v1", 1, [Empty EXCEPT !.record = record], <<>>)

ready_v2(record, services) ==
    Packet({"response"}, "app_v2", 1,
           [Empty EXCEPT !.record = record, !.services = services], <<>>)

ready_packet(record, services) ==
    CASE started.kind = "service" -> service_ready
      [] started.kind = "app_v1" -> ready_v1(record)
      [] OTHER -> ready_v2(record, services)

send_ready ==
    /\ profile = "launch" /\ alive /\ child.got # 0 /\ Len(down) < MaxQueue
    /\ down' = Append(down, ready_packet(child.got, child.services))
    /\ UNCHANGED <<profile, up, alive, next, pending, done, outcome, started,
                   child, table, kept>>

\* An application that answers for another launch, or for other services,
\* than the one it was asked about.
child_is_confused(record, services) ==
    /\ profile = "launch" /\ alive /\ started.kind # "service"
    /\ Len(down) < MaxQueue
    /\ <<record, services>> # <<started.instance, started.services>>
    /\ started.kind = "app_v1" => services = <<>>
    /\ down' = Append(down, ready_packet(record, services))
    /\ UNCHANGED <<profile, up, alive, next, pending, done, outcome, started,
                   child, table, kept>>

child_exits ==
    /\ profile = "launch" /\ alive
    /\ alive' = FALSE /\ up' = <<>> /\ table' = {} /\ kept' = {}
    /\ UNCHANGED <<profile, down, next, pending, done, outcome, started, child>>

wait_for_service(p) ==
    /\ p.flags \cap {"response", "error"} = {"response"}
    /\ p.operation = "service" /\ p.id = 1 /\ p.claimed = 0 /\ p.body = Empty

wait_for_ready_v1(p) ==
    /\ p.flags \cap {"response", "error"} = {"response"}
    /\ p.operation = "app_v1" /\ p.id = 1 /\ p.claimed = 0
    /\ decode_record(p.body) /\ p.body.record = started.instance

\* A wait that checks the record and not the services.
wait_for_ready_of_record(p) ==
    /\ p.flags \cap {"response", "error", "has_handles"} = {"response"}
    /\ p.operation = "app_v2" /\ p.id = 1 /\ p.claimed = 0
    /\ decode_payload_v2(p.body) /\ p.body.record = started.instance

wait_for_ready_v2(p) ==
    /\ p.flags \cap {"response", "error", "has_handles"} = {"response"}
    /\ p.operation = "app_v2" /\ p.id = 1 /\ p.claimed = 0
    /\ decode_payload_v2(p.body) /\ p.body.record = started.instance
    /\ p.body.services = started.services

wait_for_ready(p) ==
    /\ receive(p) = "ok"
    /\ CASE started.kind = "service" -> wait_for_service(p)
         [] started.kind = "app_v1" -> wait_for_ready_v1(p)
         [] OTHER -> wait_for_ready_v2(p)

\* The launch is decided by the first packet, by the deadline (nothing to
\* read), or by the end of the child.  A child not ready is killed.
launch_decided ==
    /\ profile = "launch" /\ started.stage = "waiting"
    /\ LET accepted == down # <<>> /\ wait_for_ready(Head(down))
       IN  IF accepted
           THEN /\ started' = [started EXCEPT !.stage = "ready"]
                /\ UNCHANGED <<up, down, alive, table, kept>>
           ELSE /\ started' = [started EXCEPT !.stage = "failed"]
                /\ alive' = FALSE /\ up' = <<>> /\ down' = <<>>
                /\ table' = {} /\ kept' = {}
    /\ UNCHANGED <<profile, next, pending, done, outcome, child>>

-----------------------------------------------------------------------------
ChannelsInit ==
    /\ profile \in Profiles /\ up = <<>> /\ down = <<>>
    /\ alive = (profile # "launch")
    /\ next = First /\ pending = NoCall /\ done = {}
    /\ outcome = [operation |-> "none", id |-> 0, result |-> "none"]
    /\ started = [stage |-> "idle", instance |-> 0, kind |-> "none",
                 services |-> <<>>]
    /\ child = NoChild /\ table = {} /\ kept = {}

ChannelsNext ==
    \/ \E c \in {"rpc", "identity", "storage"} : \E o \in Operations[c] : call(c, o)
    \/ answered \/ times_out \/ peer_died
    \/ \E performed, given \in BOOLEAN : serve(performed, given)
    \/ \E p \in Strays : peer_sends_unasked(p)
    \/ peer_exits
    \/ \E k \in Kinds, l \in ServiceLists : send_bootstrap_request(k, l)
    \/ receive_bootstrap_request \/ send_ready \/ child_exits
    \/ \E r \in 0 .. MaxLaunch, l \in ServiceLists : child_is_confused(r, l)
    \/ launch_decided

ChannelsSpec == ChannelsInit /\ [][ChannelsNext]_channel_vars

-----------------------------------------------------------------------------
(* What the callers rely on.                                               *)

\* A call that reports success, or the peer's refusal, reports what the peer
\* did with that very request, and a launch is reported ready only if the
\* child holds the record and the endpoints of that launch.  Answers that
\* come after a deadline (identity.cpp, control.cpp), repeated answers
\* (rpc.cpp) and READYs for another launch or service list (bootstrap_v2.cpp)
\* stay in the channel and must not be taken for the one awaited.  A service
\* is a trusted program: its READY has no payload to compare.
AnswersAreTheirOwn ==
    /\ outcome.result \in {"ok", "remote_error"} => outcome \in done
    /\ started.stage = "ready" /\ alive =>
         /\ child.got = started.instance
         /\ child.services = started.services
         /\ Cardinality(kept) = Len(started.services)

\* No descriptor is open without an owner: whatever a packet brought and the
\* handler did not take was closed, for every packet a peer can send
\* (channel_linux.cpp, close_unadopted_descriptors and what follows it).
DescriptorsAreOwned == table = kept

=============================================================================
