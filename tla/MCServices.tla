---------------------------- MODULE MCServices ----------------------------
(***************************************************************************)
(* The trusted user space: application policy (AppManager) and service     *)
(* identity (Supervision), the endpoints of running applications           *)
(* (AppSessions), the channels under all of them (Channels), and the       *)
(* authorities over connections (Connections), the network (NetworkFlows,  *)
(* PacketQueues), partitions (PartitionLedger) and devices (DeviceAccess). *)
(* They are checked apart: a behaviour explores one of them ("focus",      *)
(* chosen at the start) and leaves the others as they began.               *)
(***************************************************************************)
EXTENDS AppManager

CONSTANTS ServiceOrder, Pids, MaxForks, MaxProcess, RegistrySize, MaxRestarts, MaxServiceFaults,
          Explored     \* the components explored

VARIABLES focus, proc, owner, records, sup, service, broker, operation, service_faults,
          slot, app, wire, access, consumer, asks, minted,
          protocol, up, down, alive, next, pending, done, outcome, started, child, table, kept,
          lock, proof, admission, leases, sessions, tokens, busy,
          flows, flow_clock, tunnels, tunnel_clock, grants, grant_clock, ended, spent,
          carrier, queue, accepted, books, due, builder, record, policy

Sup == INSTANCE Supervision
          WITH svc <- service, job <- operation, faults <- service_faults,
               MaxFaults <- MaxServiceFaults

(* Who asks for what: one kind of endpoint at a time.                       *)
AskedFor == {[a |-> {"input", "malformed"}, b |-> {}],
             [a |-> {"accessibility"}, b |-> {"accessibility"}],
             [a |-> {"collection"}, b |-> {"collection"}]}
AppSession == INSTANCE AppSessions WITH
    App <- {"a", "b"}, Profiles <- AskedFor, MaxSession <- 3, MaxCollection <- 3, MaxPair <- 3,
    MaxSequence <- 2, QueueCapacity <- 1, CollectionSlots <- 1, SessionCapacity <- 1, MaxTreeRevision <- 2

(* Late, repeated and foreign answers; two launches in a row.               *)
Channel == INSTANCE Channels WITH
    profile <- protocol, Profiles <- {"rpc", "control", "launch"}, Services <- {"storage", "keys"},
    MaxHandleCount <- 2, MaxRequest <- 2, MaxQueue <- 2, MaxLaunch <- 2

(* One lease per domain: the second request of a domain fails half way.     *)
Connection == INSTANCE Connections WITH
    Principal <- {"p", "q"}, Transports <- {"usb", "bluetooth", "nfc_accessory"},
    Purposes <- {"charge_only", "file_transfer"}, Domains <- {"usb_data", "bluetooth"},
    MaxGrants <- 2, MaxLeases <- 1, MaxLock <- 2, MaxId <- 2, MaxEpoch <- 2

(* A poor link and a metered one; the tables fill up and generations wrap.  *)
Link(kbps, metered) == [smoothed_rtt_ms |-> 50, downlink_kbps |-> kbps, uplink_kbps |-> 200,
                        loss_permille |-> 0, metered |-> metered, energy_constrained |-> FALSE]
Network == INSTANCE NetworkFlows WITH
    leases <- flows, Principal <- {"p", "q"}, Links <- {Link(200, FALSE), Link(20000, TRUE)},
    MaxFlows <- 2, MaxTunnels <- 2, MaxGrants <- 2, MaxGeneration <- 2, MaxId <- 3, MaxTunnelId <- 2

(* A two-bit word, so that a length can exceed what the budget leaves.      *)
Packet == INSTANCE PacketQueues WITH
    Carriers <- {1, 2}, Generations <- {1, 2}, PacketIds <- {1, 2}, Lengths <- {1, 2, 3},
    Budgets <- {[packet_bytes |-> 2, packets |-> 2, bytes |-> 3],
                [packet_bytes |-> 1, packets |-> 1, bytes |-> 2]}, Slots <- {1, 2}, Word <- 4

Partition == INSTANCE PartitionLedger WITH
    Principal <- {"p", "q", "r", "s"}, Known <- {"partitioned_cache"}, Requests <- {0, 1, 2},
    Platforms <- [capabilities : {{}, {"partitioned_cache"}, {"unknown"}}, capacity : {0, 1, 5},
                  floor : {0, 1, 2}],
    MaxHolders <- 3

Device == INSTANCE DeviceAccess WITH
    Top <- 3, MaxWindows <- 2, Domains <- {0, 2}, Dmas <- {0, 1, 3}, Modes <- {0, 1, 2},
    MaxForeign <- 2

ASSUME Network!NetworkConstants
ASSUME Packet!PacketConstants
ASSUME Device!DeviceConstants
ASSUME Sup!SupervisionConstants
ASSUME Channel!ChannelConstants
ASSUME Connection!ConnectionConstants

supvars == <<proc, owner, records, sup, service, broker, operation, service_faults>>
session_vars == <<slot, app, wire, access, consumer, asks, minted>>
channel_vars == <<protocol, up, down, alive, next, pending, done, outcome, started, child, table, kept>>
connection_vars == <<lock, proof, admission, leases, sessions, tokens, busy>>
network_vars == <<flows, flow_clock, tunnels, tunnel_clock, grants, grant_clock, ended, spent>>
packet_vars == <<carrier, queue, accepted>>
partition_vars == <<books, due>>
device_vars == <<builder, record, policy>>
authority_vars == <<network_vars, packet_vars, partition_vars, device_vars>>
restvars == <<session_vars, channel_vars, connection_vars, authority_vars>>
mvars == <<focus, avars, supvars, restvars>>

MCOrder == <<"storage", "keys">>

(* A component at rest has one initial state.                               *)
MInit ==
    /\ focus \in Explored
    /\ AInit /\ Sup!SInit /\ Connection!ConnectionsInit
    /\ AppSession!SessionsInit /\ (focus = "sessions" \/ asks.a = {"collection"})
    /\ Channel!ChannelsInit /\ (focus = "channels" \/ protocol = "rpc")
    /\ Network!NetworkInit /\ Device!DevicesInit
    /\ Packet!PacketsInit /\ (focus = "packets" \/ carrier = "flow")
    /\ Partition!PartitionsInit /\ (focus = "partitions" \/ books = Partition!Empty)

(* The authorities that nobody calls yet.                                   *)
AuthorityNext ==
    \/ focus = "flows" /\ Network!FlowNext
       /\ UNCHANGED <<packet_vars, partition_vars, device_vars>>
    \/ focus = "resolution" /\ Network!ResolutionNext
       /\ UNCHANGED <<packet_vars, partition_vars, device_vars>>
    \/ focus = "packets" /\ Packet!PacketsNext
       /\ UNCHANGED <<network_vars, partition_vars, device_vars>>
    \/ focus = "partitions" /\ Partition!PartitionsNext
       /\ UNCHANGED <<network_vars, packet_vars, device_vars>>
    \/ focus = "devices" /\ Device!DevicesNext
       /\ UNCHANGED <<network_vars, packet_vars, partition_vars>>

MNext ==
    /\ UNCHANGED focus
    /\ \/ focus = "policy" /\ ANext /\ UNCHANGED <<supvars, restvars>>
       \/ focus = "identity" /\ Sup!SNext /\ UNCHANGED <<avars, restvars>>
       \/ focus = "sessions" /\ AppSession!SessionsNext
          /\ UNCHANGED <<avars, supvars, channel_vars, connection_vars, authority_vars>>
       \/ focus = "channels" /\ Channel!ChannelsNext
          /\ UNCHANGED <<avars, supvars, session_vars, connection_vars, authority_vars>>
       \/ focus = "connections" /\ Connection!ConnectionsNext
          /\ UNCHANGED <<avars, supvars, session_vars, channel_vars, authority_vars>>
       \/ AuthorityNext
          /\ UNCHANGED <<avars, supvars, session_vars, channel_vars, connection_vars>>

\* The thread that runs the operations never stops in one, and calls maintain()
\* between them again and again, so that a restart's delay passes at last
\* (that the service then runs is Supervision!ServiceComesBack).
restarts == \A s \in Services : svc[s].state = "restart_wait" => svc'[s].state # "restart_wait"

PolicyFairness ==
    /\ SF_mvars(focus = "policy" /\ maintain /\ UNCHANGED <<focus, supvars, restvars>>)
    /\ SF_mvars(focus = "policy" /\ maintain /\ restarts /\ UNCHANGED <<focus, supvars, restvars>>)
    /\ WF_mvars(focus = "policy" /\ Work /\ UNCHANGED <<focus, supvars, restvars>>)

IdentityFairness ==
    /\ \A s \in Services :
          SF_mvars(focus = "identity" /\ Sup!maintain(s) /\ UNCHANGED <<focus, avars, restvars>>)
    /\ WF_mvars(focus = "identity" /\ Sup!OperationStep /\ UNCHANGED <<focus, avars, restvars>>)

MSpec == MInit /\ [][MNext]_mvars

FairMSpec == MSpec /\ PolicyFairness /\ IdentityFairness

\* Everyone who holds an identity agrees on it: references of the process
\* authority are its holders, a service in step resolves exactly the live
\* identities its Supervisor has on file, the broker owns what was published for
\* it, and one live execution has one ProcessId (Supervision!ReferencesAreHolders,
\* RegistryMirrorsSupervisor, BrokerOwnsPublications, OneIdentityPerExecution).
HoldersAgree ==
    focus = "identity" =>
        /\ Sup!STypeOK
        /\ Sup!ReferencesAreHolders /\ Sup!RegistryMirrorsSupervisor
        /\ Sup!BrokerOwnsPublications /\ Sup!OneIdentityPerExecution

\* A profile is never left half enabled by a failed publication, what the
\* manager believes published is what the services enforce, and an uninstalled
\* application is left no policy and no session
\* (AppManager!ProfileNeverHalfEnabled, PublishedIsEnforced, UninstalledIsRevoked).
PolicyIsEnforced ==
    focus = "policy" =>
        ATypeOK /\ ProfileNeverHalfEnabled /\ PublishedIsEnforced /\ UninstalledIsRevoked

\* AppSessions: the far end of a session is held once.
EndpointsHaveOneHolder == focus = "sessions" => AppSession!EndpointsHaveOneHolder

\* AppSessions: events are taken once and in order.
EventsNeverReplay == AppSession!EventsNeverReplay

\* A reported answer is the peer's answer to that request
\* (Channels!AnswersAreTheirOwn), and no descriptor a packet brought is left
\* open without an owner (Channels!DescriptorsAreOwned).
AnswersAreTheirOwn ==
    focus = "channels" => Channel!AnswersAreTheirOwn /\ Channel!DescriptorsAreOwned

\* What an authority admitted is what it answers for: a connection in use holds
\* its domain up (Connections!ConnectionsAreLeased), flows fit the plan of their
\* link and what ended stays ended (NetworkFlows!NetworkIsKept), packets fit their
\* grant and can be completed (PacketQueues!PacketsFitTheirGrant), reserved units
\* add up and leave the floor (PartitionLedger!PartitionsAreAccounted), and a
\* device policy permits exactly its windows (DeviceAccess!PoliciesAreExact).
GrantsAreHonoured ==
    /\ focus = "connections" => Connection!ConnectionsAreLeased
    /\ focus \in {"flows", "resolution"} => Network!NetworkIsKept
    /\ focus = "packets" => Packet!PacketsFitTheirGrant
    /\ focus = "partitions" => Partition!PartitionsAreAccounted
    /\ focus = "devices" => Device!PoliciesAreExact

\* Supervision!ServiceComesBack: a service waiting for a restart runs again or is
\* given up as a crash loop.
ServiceComesBack == Sup!ServiceComesBack
===========================================================================
