---------------------------- MODULE AppSessions ----------------------------
(***************************************************************************)
(* The private sessions of running applications: the runtime session every *)
(* application has with the App Manager (runtime_session.cpp, osapp        *)
(* service_session.cpp), the input stream, the accessibility session and   *)
(* the collection sessions it acquires over it, the accessibility service  *)
(* and the trusted collection consumer that claim the other ends.          *)
(*                                                                         *)
(* An App is one execution (a PeerIdentity): it starts once.  A socket     *)
(* pair is named by its session id (accessibility, collection) or by a     *)
(* pair number (input); an end is open while its holder keeps that number. *)
(* Profiles are the things executions may be the kind to ask for: each      *)
(* behaviour fixes one profile, so that unrelated sessions do not multiply. *)
(***************************************************************************)
EXTENDS Naturals, FiniteSets, Sequences

CONSTANTS App, Profiles, MaxSession, MaxCollection, MaxPair, MaxSequence, QueueCapacity,
          CollectionSlots, SessionCapacity, MaxTreeRevision

VARIABLES
    slot,       \* App Manager's InstanceSlot of every execution
    app,        \* the application's own ends
    wire,       \* the request waiting in the runtime session, if any
    access,     \* AccessibilityServiceRuntime::sessions_, and what its client last saw
    consumer,   \* collection ends the trusted consumer has taken
    asks,       \* the profile: what every execution asks for
    minted      \* next_accessibility_session_id_, next_collection_session_id_, pairs

session_vars == <<slot, app, wire, access, consumer, asks, minted>>

None == 0
Quiet == [kind |-> "none", genuine |-> TRUE]

EmptySlot == [live |-> FALSE, runtime |-> FALSE, session |-> None, pending |-> {},
              input |-> None, last |-> 0]

SessionsInit ==
    /\ asks \in Profiles
    /\ slot = [a \in App |-> [EmptySlot EXCEPT !.live = TRUE, !.runtime = TRUE]]
    /\ app = [a \in App |-> [alive |-> TRUE, sessions |-> {}, collections |-> {}, input |-> None,
                             queue |-> <<>>, seen |-> 0, got |-> 0, revision |-> 1]]
    /\ wire = [a \in App |-> Quiet]
    /\ access = [a \in App |-> [session |-> None, shown |-> 0, event |-> 0]]
    /\ consumer = {}
    /\ minted = [session |-> 1, collection |-> 1, pair |-> 1]

---------------------------------------------------------------------------
(* The application's side: one outstanding request at a time, because      *)
(* ClientConnection::call blocks for the answer.                           *)

runtime_request(kind, genuine) == [kind |-> kind, genuine |-> genuine]

requests(a, kind, genuine) ==
    /\ kind \in asks[a]
    /\ app[a].alive /\ slot[a].runtime /\ wire[a] = Quiet
    /\ wire' = [wire EXCEPT ![a] = runtime_request(kind, genuine)]
    /\ UNCHANGED <<slot, app, access, consumer, minted>>

acquire_input_events(a) == requests(a, "input", TRUE)
acquire_accessibility(a) == requests(a, "accessibility", TRUE)
acquire_collection(a) == requests(a, "collection", TRUE)

(* A packet the manager cannot decode, or one another process sent.        *)
other_packets(a) == requests(a, "malformed", TRUE) \/ requests(a, "input", FALSE)

(* The answer the application accepts: it repeats the operation, carries   *)
(* exactly one channel and, where there is a session, its nonzero number.  *)
send_input_event_endpoint_response(p) == [kind |-> "input", number |-> p, handles |-> 1]
send_accessibility_endpoint_response(s) == [kind |-> "accessibility", number |-> s, handles |-> 1]
send_collection_endpoint_response(s) == [kind |-> "collection", number |-> s, handles |-> 1]

take_single_channel_response(reply, kind) == reply.kind = kind /\ reply.handles = 1
decode_session_endpoint_payload(reply) == reply.number # None

(* What the application holds once the answer is in: a new input stream    *)
(* replaces the old one and starts its own sequence check afresh.          *)
accepts(a, kind, reply) ==
    IF ~take_single_channel_response(reply, kind) THEN app[a]
    ELSE CASE kind = "input" -> [app[a] EXCEPT !.input = reply.number, !.queue = <<>>, !.seen = 0]
           [] kind = "accessibility" /\ decode_session_endpoint_payload(reply) ->
                  [app[a] EXCEPT !.sessions = @ \cup {reply.number}]
           [] kind = "collection" /\ decode_session_endpoint_payload(reply) ->
                  [app[a] EXCEPT !.collections = @ \cup {reply.number}]
           [] OTHER -> app[a]

---------------------------------------------------------------------------
(* The App Manager's side.                                                 *)

receive_runtime_session_request(a) == wire[a].kind # "malformed"

(* An answer with an endpoint: if it cannot be sent, what was just stored  *)
(* for the other side is withdrawn and the runtime session closed.         *)
answered(a, stored, withdrawn, reply) ==
    IF app[a].alive
    THEN /\ slot' = [slot EXCEPT ![a] = stored]
         /\ app' = [app EXCEPT ![a] = accepts(a, wire[a].kind, reply)]
    ELSE /\ slot' = [slot EXCEPT ![a] = [withdrawn EXCEPT !.runtime = FALSE]]
         /\ UNCHANGED app

(* send_rpc_error followed by close_on_send_failure.                       *)
refused(a) ==
    /\ slot' = [slot EXCEPT ![a].runtime = app[a].alive]
    /\ UNCHANGED <<app, minted>>

give_input_forgetting(a) ==
    LET stored == [slot[a] EXCEPT !.input = minted.pair, !.last = 0]
    IN /\ minted.pair < MaxPair
       /\ minted' = [minted EXCEPT !.pair = @ + 1]
       /\ answered(a, stored, [stored EXCEPT !.input = None],
                   send_input_event_endpoint_response(minted.pair))

(* last_input_event_sequence survives: a new endpoint reopens no replay.   *)
give_input(a) ==
    LET stored == [slot[a] EXCEPT !.input = minted.pair]
    IN /\ minted.pair < MaxPair
       /\ minted' = [minted EXCEPT !.pair = @ + 1]
       /\ answered(a, stored, [stored EXCEPT !.input = None],
                   send_input_event_endpoint_response(minted.pair))

(* Replaces an endpoint that was never claimed; one the accessibility      *)
(* service already took is no longer the manager's to close.               *)
give_accessibility(a) ==
    LET s == minted.session
        stored == [slot[a] EXCEPT !.session = s]
    IN IF s = MaxSession THEN refused(a)
       ELSE /\ minted' = [minted EXCEPT !.session = @ + 1]
            /\ answered(a, stored, [stored EXCEPT !.session = None],
                        send_accessibility_endpoint_response(s))

give_collection(a) ==
    LET s == minted.collection
        stored == [slot[a] EXCEPT !.pending = @ \cup {s}]
    IN IF s = MaxCollection \/ Cardinality(slot[a].pending) = CollectionSlots THEN refused(a)
       ELSE /\ minted' = [minted EXCEPT !.collection = @ + 1]
            /\ answered(a, stored, slot[a], send_collection_endpoint_response(s))

(* One request: undecodable closes the session; the sender must be the     *)
(* process the slot is bound to; a pair may fail to be created.            *)
service_runtime_session_once(a) ==
    /\ slot[a].live /\ slot[a].runtime /\ wire[a] # Quiet
    /\ wire' = [wire EXCEPT ![a] = Quiet]
    /\ UNCHANGED <<access, consumer>>
    /\ IF ~receive_runtime_session_request(a)
       THEN slot' = [slot EXCEPT ![a].runtime = FALSE] /\ UNCHANGED <<app, minted>>
       ELSE IF ~wire[a].genuine THEN refused(a)
       ELSE \/ refused(a)
            \/ wire[a].kind = "input" /\ give_input(a)
            \/ wire[a].kind = "accessibility" /\ give_accessibility(a)
            \/ wire[a].kind = "collection" /\ give_collection(a)

(* The endpoint's socket does not block: a full one counts as gone.        *)
send_application_input_event(a) ==
    app[a].alive /\ app[a].input = slot[a].input /\ Len(app[a].queue) < QueueCapacity

(* The event as sent: nonzero sequence, an exact target.                   *)
input_event(a, sequence) == [target |-> a, sequence |-> sequence]
input_event_valid(e) == e.sequence # 0 /\ e.target \in App

deliver_input_event(a, sequence) ==
    /\ input_event_valid(input_event(a, sequence))
    /\ slot[a].live /\ slot[a].input # None
    /\ sequence > slot[a].last
    /\ IF send_application_input_event(a)
       THEN /\ slot' = [slot EXCEPT ![a].last = sequence]
            /\ app' = [app EXCEPT ![a].queue = Append(@, input_event(a, sequence))]
       ELSE /\ slot' = [slot EXCEPT ![a].input = None]
            /\ UNCHANGED app
    /\ UNCHANGED <<wire, access, consumer, minted>>

(* ApplicationInputEventStream::receive: addressed to me, and newer.       *)
receive_input_event(a) ==
    LET e == Head(app[a].queue)
        good == e.target = a /\ e.sequence > app[a].seen
    IN /\ app[a].alive /\ app[a].queue # <<>>
       /\ app' = [app EXCEPT ![a].queue = Tail(@),
                             ![a].seen = IF good THEN e.sequence ELSE @,
                             ![a].got = IF good THEN e.sequence ELSE @]
       /\ UNCHANGED <<slot, wire, access, consumer, minted>>

(* The broker's endpoint: found by exact identity, and only while unclaimed. *)
claimable(a) == slot[a].live /\ slot[a].session # None

(* What crosses between service and manager: an identity; and a nonzero    *)
(* session with the identity it belongs to.                                *)
claim_request(a) == [application |-> a]
claim_response(session, a) == [session |-> session, application |-> a, handles |-> 1]

copy_accessibility_endpoint(a) == slot[a]

take_accessibility_endpoint(a) == [slot[a] EXCEPT !.session = None]

take_collection_endpoint(a, s) == [slot[a] EXCEPT !.pending = @ \ {s}]

(* maintain() reaps a dead execution: its slot goes with every end in it.  *)
reap(a) ==
    /\ slot[a].live /\ ~app[a].alive
    /\ slot' = [slot EXCEPT ![a] = EmptySlot]
    /\ wire' = [wire EXCEPT ![a] = Quiet]
    /\ UNCHANGED <<app, access, consumer, minted>>

app_dies(a) ==
    /\ app[a].alive
    /\ app' = [app EXCEPT ![a].alive = FALSE, ![a].sessions = {}, ![a].collections = {},
                          ![a].queue = <<>>]
    /\ UNCHANGED <<slot, wire, access, consumer, minted>>

app_drops_session(a, s) ==
    /\ s \in app[a].sessions
    /\ app' = [app EXCEPT ![a].sessions = @ \ {s}]
    /\ UNCHANGED <<slot, wire, access, consumer, minted>>

app_edits(a) ==
    /\ app[a].sessions # {} /\ app[a].revision < MaxTreeRevision
    /\ app' = [app EXCEPT ![a].revision = @ + 1]
    /\ UNCHANGED <<slot, wire, access, consumer, minted>>

---------------------------------------------------------------------------
(* The accessibility service (one thread; every call below blocks it) and  *)
(* the endpoint broker of the App Manager it claims from.                  *)

session_count == Cardinality({a \in App : access[a].session # None})

(* The manager's control channel answers for the identity it was asked.    *)
broker_dispatch(request) == claim_response(slot[request.application].session, request.application)

(* AccessibilityBrokerClient::claim: the answer must be for the one asked. *)
broker_claim(a) ==
    LET reply == broker_dispatch(claim_request(a))
    IN IF reply.handles = 1 /\ reply.application = a THEN reply.session ELSE None

(* The runtime's claim: one session per application, a free slot, then the *)
(* broker's one-shot transfer.                                             *)
claim(a) ==
    /\ access[a].session = None /\ session_count < SessionCapacity
    /\ claimable(a)
    /\ access' = [access EXCEPT ![a].session = broker_claim(a)]
    /\ slot' = [slot EXCEPT ![a] = take_accessibility_endpoint(a)]
    /\ UNCHANGED <<app, wire, consumer, minted>>

(* What travels between the service and the application: a request or an   *)
(* answer with its fields, or nothing when a field is not encodable.       *)
Refused == [op |-> "refused", session |-> None, revision |-> 0]

snapshot_request(s) ==
    IF s = None THEN Refused ELSE [op |-> "snapshot", session |-> s, revision |-> 0]
action_request(s, revision) ==
    IF s = None \/ revision = 0 THEN Refused
    ELSE [op |-> "action", session |-> s, revision |-> revision]
snapshot_response(s, revision) ==
    IF s = None \/ revision = 0 THEN Refused
    ELSE [op |-> "shown", session |-> s, revision |-> revision]
action_response(revision) == [op |-> "event", session |-> None, revision |-> revision]

request_header_valid(m) == m.op \in {"snapshot", "action"}

(* The application's bridge for session s: the session must be this one,   *)
(* the revision the tree's current one.                                    *)
bridge_snapshot(a, s) == [session |-> s, revision |-> app[a].revision]
bridge_dispatch(a, s, m) ==
    IF m.session # s \/ m.revision # app[a].revision THEN Refused
    ELSE action_response(app[a].revision)

dispatch_accessibility_transport_v1(a, s, m) ==
    IF m.op = "action" THEN bridge_dispatch(a, s, m)
    ELSE IF bridge_snapshot(a, s).session # m.session THEN Refused
    ELSE snapshot_response(s, bridge_snapshot(a, s).revision)

session_dispatch_once(a, s, m) ==
    IF request_header_valid(m) THEN dispatch_accessibility_transport_v1(a, s, m) ELSE Refused

(* AccessibilitySessionClient: the answer must be of the session asked.    *)
session_snapshot(a, s) ==
    LET reply == session_dispatch_once(a, s, snapshot_request(s))
    IN IF reply.session = s THEN reply ELSE Refused
session_action(a, s, revision) == session_dispatch_once(a, s, action_request(s, revision))

peer_alive(a) == access[a].session \in app[a].sessions
cleared(a) == [access EXCEPT ![a].session = None]

(* AccessibilityServiceRuntime: an application that has gone frees its     *)
(* slot; any other failure leaves it.                                      *)
snapshot(a) ==
    LET reply == session_snapshot(a, access[a].session)
    IN /\ access[a].session # None
       /\ access' = IF ~peer_alive(a) THEN cleared(a)
                    ELSE IF reply = Refused THEN access
                    ELSE [access EXCEPT ![a].shown = reply.revision]
       /\ UNCHANGED <<slot, app, wire, consumer, minted>>

(* The client names the application and the revision it was shown; the     *)
(* runtime adds the session it holds now.                                  *)
dispatch_action(a) ==
    LET reply == session_action(a, access[a].session, access[a].shown)
    IN /\ access[a].session # None /\ access[a].shown # 0
       /\ access' = IF ~peer_alive(a) THEN cleared(a)
                    ELSE IF reply = Refused THEN access
                    ELSE [access EXCEPT ![a].event = reply.revision]
       /\ UNCHANGED <<slot, app, wire, consumer, minted>>

release(a) ==
    /\ access[a].session # None
    /\ access' = cleared(a)
    /\ UNCHANGED <<slot, app, wire, consumer, minted>>

(* AccessibilityServiceServer::dispatch_once, and its admin's calls.        *)
server_dispatch(op, a) ==
    \/ op = "claim" /\ claim(a)
    \/ op = "snapshot" /\ snapshot(a)
    \/ op = "action" /\ dispatch_action(a)
    \/ op = "release" /\ release(a)

admin_calls(a) == \E op \in {"claim", "snapshot", "action", "release"} : server_dispatch(op, a)

(* The service is supervised: it may die with all its sessions.            *)
service_restarts ==
    /\ access' = [a \in App |-> [access[a] EXCEPT !.session = None]]
    /\ UNCHANGED <<slot, app, wire, consumer, minted>>

consumer_takes(a, s) ==
    /\ slot[a].live /\ s \in slot[a].pending
    /\ slot' = [slot EXCEPT ![a] = take_collection_endpoint(a, s)]
    /\ consumer' = consumer \cup {<<a, s>>}
    /\ UNCHANGED <<app, wire, access, minted>>

consumer_drops(a, s) ==
    /\ <<a, s>> \in consumer
    /\ consumer' = consumer \ {<<a, s>>}
    /\ UNCHANGED <<slot, app, wire, access, minted>>

---------------------------------------------------------------------------
SessionsNext ==
    /\ UNCHANGED asks
    /\ \/ service_restarts
       \/ \E a \in App :
              \/ acquire_input_events(a) \/ acquire_accessibility(a) \/ acquire_collection(a)
              \/ other_packets(a)
              \/ service_runtime_session_once(a)
              \/ receive_input_event(a) \/ reap(a) \/ app_dies(a) \/ app_edits(a)
              \/ admin_calls(a)
              \/ \E n \in 1..MaxSequence : deliver_input_event(a, n)
              \/ \E s \in 1..MaxSession : app_drops_session(a, s)
              \/ \E s \in 1..MaxCollection : consumer_takes(a, s) \/ consumer_drops(a, s)

SessionsSpec == SessionsInit /\ [][SessionsNext]_session_vars

(* EndpointsHaveOneHolder: the far end of a session is with the manager or  *)
(* with the trusted side, never with both and never for another execution: *)
(* the claim is one-shot across reacquisition, death of either side and    *)
(* restart of the accessibility service.  A reaped slot holds nothing, and *)
(* neither table outgrows its array.                                       *)
EndpointsHaveOneHolder ==
    /\ \A a, b \in App :
           /\ slot[a].session # None => slot[a].session # access[b].session
           /\ a # b /\ slot[a].session # None => slot[a].session # slot[b].session
           /\ a # b /\ access[a].session # None => access[a].session \notin app[b].sessions
           /\ \A s \in slot[a].pending : <<b, s>> \notin consumer
           /\ a # b => slot[a].pending \cap slot[b].pending = {}
    /\ \A a \in App : ~slot[a].live => slot[a] = EmptySlot
    /\ session_count <= SessionCapacity
    /\ \A a \in App : Cardinality(slot[a].pending) <= CollectionSlots

(* EventsNeverReplay: an application takes the events addressed to it in    *)
(* increasing sequence, each at most once, even across the replacement of  *)
(* its stream, whose own check restarts at zero: the order is the          *)
(* manager's last_input_event_sequence and the loss of the old queue.      *)
EventsNeverReplay ==
    [][\A a \in App : /\ app'[a].got >= app[a].got
                      /\ receive_input_event(a) => app'[a].got > app[a].got
                      /\ access'[a].event # access[a].event => access[a].shown = app[a].revision]_session_vars
===========================================================================
