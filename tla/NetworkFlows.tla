---------------------------- MODULE NetworkFlows ----------------------------
(***************************************************************************)
(* The authorities of the network domain: the broker that leases flows     *)
(* within the plan of the current link (broker.hpp, policy.hpp), the       *)
(* authority that ties a flow to a link-visible tunnel                     *)
(* (tunnel_authority.hpp) and the one-shot grants of the resolver          *)
(* (resolution.hpp).  Each has a generation of its own that a restart of   *)
(* the domain advances, one authority at a time.                           *)
(*                                                                         *)
(* Capabilities are values: whoever was handed one keeps it, and may       *)
(* present it after it has ended.  Generations wrap at MaxGeneration, as   *)
(* the 64-bit ones would; identifiers do not reach their end.  A refused   *)
(* request changes nothing and is an action that is not enabled, except    *)
(* where the code has already drawn an identifier.                         *)
(***************************************************************************)
EXTENDS Integers, FiniteSets

CONSTANTS
    Principal,
    Links,           \* the observations of the link that occur
    MaxFlows,        \* max_flows
    MaxTunnels,      \* max_tunnels
    MaxGrants,       \* max_grants
    MaxGeneration,   \* the largest generation
    MaxId,           \* bound: identifiers of flows and of resolution grants
    MaxTunnelId      \* bound: identifiers of tunnels

NetworkConstants ==
    /\ \A l \in Links :
          /\ {l.smoothed_rtt_ms, l.downlink_kbps, l.uplink_kbps, l.loss_permille} \subseteq Nat
          /\ {l.metered, l.energy_constrained} \subseteq BOOLEAN
    /\ MaxFlows \in Nat /\ MaxTunnels \in Nat /\ MaxGrants \in Nat
    /\ MaxGeneration \in Nat \ {0} /\ MaxId \in Nat /\ MaxTunnelId \in Nat

VARIABLES
    leases,      \* entries_ of the broker
    flow_clock,  \* next_flow_id_ and generation_ of the broker
    tunnels,     \* slots_ of the tunnel authority
    tunnel_clock,
    grants,      \* entries_ of the resolution authority
    grant_clock,
    ended,       \* the flows that were released or revoked
    spent        \* the resolution grants that were consumed or revoked

flow_vars == <<leases, flow_clock, tunnels, tunnel_clock, ended>>
resolution_vars == <<grants, grant_clock, spent>>

Priorities == {"interactive", "background"}
Clock == [next : 1 .. MaxId + 1, generation : 0 .. MaxGeneration]

NetworkInit ==
    /\ leases = {} /\ tunnels = {} /\ grants = {} /\ ended = {} /\ spent = {}
    /\ flow_clock = [next |-> 1, generation |-> 1]
    /\ tunnel_clock = [next |-> 1, generation |-> 1]
    /\ grant_clock = [next |-> 1, generation |-> 1]

(***************************************************************************)
(* What the link allows.                                                   *)
(***************************************************************************)
classify_link(link) ==
    CASE link.downlink_kbps < 256 \/ link.uplink_kbps < 96 \/ link.loss_permille >= 80 ->
            "constrained"
      [] link.smoothed_rtt_ms >= 350 \/ link.loss_permille >= 30 -> "high_latency"
      [] \/ link.downlink_kbps < 10000 \/ link.uplink_kbps < 2000
         \/ link.metered \/ link.energy_constrained -> "balanced"
      [] OTHER -> "broadband"

plan_transport(link) ==
    LET class == classify_link(link) IN
    CASE class = "constrained"  -> [interactive |-> 3, background |-> 1]
      [] class = "high_latency" -> [interactive |-> 4, background |-> 1]
      [] class = "balanced"     -> [interactive |-> 6, background |-> 2]
      [] class = "broadband"    -> [interactive |-> 12, background |-> 4]

(***************************************************************************)
(* The broker.                                                             *)
(***************************************************************************)
flow_valid(f) == f.id # 0 /\ f.generation # 0
drawn(clock) == [clock EXCEPT !.next = @ + 1]
next_generation(clock) ==
    [clock EXCEPT !.generation = IF @ = MaxGeneration THEN 0 ELSE @ + 1]

active_for(p, priority) ==
    {e \in leases : /\ e.flow.principal = p /\ e.priority = priority
                    /\ e.flow.generation = flow_clock.generation}

\* Admits one more flow than the plan allows.
request_flow_at_limit(p, priority, link) ==
    LET flow == [id |-> flow_clock.next, generation |-> flow_clock.generation, principal |-> p]
        plan == plan_transport(link)
    IN
    /\ Cardinality(active_for(p, priority)) <= plan[priority]
    /\ Cardinality(leases) < MaxFlows
    /\ flow_clock.next <= MaxId /\ flow_clock' = drawn(flow_clock)
    /\ leases' = IF flow_valid(flow)
                 THEN leases \cup {[flow |-> flow, plan |-> plan, priority |-> priority]}
                 ELSE leases
    /\ UNCHANGED <<tunnels, tunnel_clock, resolution_vars, ended>>

\* The identifier is drawn before the capability is seen to be invalid.
request_flow(p, priority, link) ==
    LET flow == [id |-> flow_clock.next, generation |-> flow_clock.generation, principal |-> p]
        plan == plan_transport(link)
    IN
    /\ Cardinality(active_for(p, priority)) < plan[priority]
    /\ Cardinality(leases) < MaxFlows
    /\ flow_clock.next <= MaxId /\ flow_clock' = drawn(flow_clock)
    /\ leases' = IF flow_valid(flow)
                 THEN leases \cup {[flow |-> flow, plan |-> plan, priority |-> priority]}
                 ELSE leases
    /\ UNCHANGED <<tunnels, tunnel_clock, resolution_vars, ended>>

\* The lease that this caller gives up by presenting this capability.
releasable(p, flow) ==
    {e \in leases : /\ e.flow.id = flow.id
                    /\ e.flow.generation = flow_clock.generation
                    /\ flow.generation = flow_clock.generation
                    /\ e.flow.principal = p /\ flow.principal = p}

release_flow(p, flow) ==
    /\ releasable(p, flow) # {}
    /\ leases' = leases \ releasable(p, flow)
    /\ ended' = ended \cup {flow}
    /\ UNCHANGED <<flow_clock, tunnels, tunnel_clock, resolution_vars>>

\* Advances the generation and leaves the leases to be told apart by it.
broker_revoke_keeping ==
    /\ flow_clock' = next_generation(flow_clock)
    /\ ended' = ended \cup {e.flow : e \in leases}
    /\ UNCHANGED <<leases, tunnels, tunnel_clock, resolution_vars>>

broker_revoke_all ==
    /\ leases' = {}
    /\ flow_clock' = next_generation(flow_clock)
    /\ ended' = ended \cup {e.flow : e \in leases}
    /\ UNCHANGED <<tunnels, tunnel_clock, resolution_vars>>

(***************************************************************************)
(* Tunnels.  A tunnel is tied to whatever flow of this generation it was   *)
(* asked for; releasing the flow does not retire it.                       *)
(***************************************************************************)
issue(flow) ==
    LET tunnel == [id |-> tunnel_clock.next, generation |-> tunnel_clock.generation] IN
    /\ flow_valid(flow) /\ flow.generation = tunnel_clock.generation
    /\ Cardinality(tunnels) < MaxTunnels
    /\ tunnel_clock.next <= MaxTunnelId /\ tunnel_clock' = drawn(tunnel_clock)
    /\ tunnels' = IF flow_valid(tunnel)
                  THEN tunnels \cup {[flow |-> flow, tunnel |-> tunnel]} ELSE tunnels
    /\ UNCHANGED <<leases, flow_clock, resolution_vars, ended>>

owns_flow(tunnel, flow) ==
    /\ flow_valid(tunnel) /\ flow_valid(flow)
    /\ tunnel.generation = tunnel_clock.generation /\ flow.generation = tunnel_clock.generation
    /\ [flow |-> flow, tunnel |-> tunnel] \in tunnels

retire(tunnel) ==
    /\ flow_valid(tunnel) /\ tunnel.generation = tunnel_clock.generation
    /\ \E e \in tunnels : e.tunnel = tunnel /\ tunnels' = tunnels \ {e}
    /\ UNCHANGED <<leases, flow_clock, tunnel_clock, resolution_vars, ended>>

tunnel_revoke_all ==
    /\ tunnels' = {}
    /\ tunnel_clock' = next_generation(tunnel_clock)
    /\ UNCHANGED <<leases, flow_clock, resolution_vars, ended>>

(***************************************************************************)
(* Resolution.  Nothing is drawn in generation zero.                       *)
(***************************************************************************)
issue_grant(p) ==
    /\ Cardinality(grants) < MaxGrants
    /\ grant_clock.generation # 0
    /\ grant_clock.next <= MaxId /\ grant_clock' = drawn(grant_clock)
    /\ grants' = grants \cup {[id |-> grant_clock.next, generation |-> grant_clock.generation,
                              principal |-> p]}
    /\ UNCHANGED <<flow_vars, spent>>

consumable(p, grant) ==
    {e \in grants : /\ e.id = grant.id
                    /\ e.generation = grant_clock.generation
                    /\ grant.generation = grant_clock.generation
                    /\ e.principal = p}

\* A grant that may be used again.
consume_keeping(p, grant) ==
    /\ consumable(p, grant) # {}
    /\ spent' = spent \cup {grant}
    /\ UNCHANGED <<grants, flow_vars, grant_clock>>

consume(p, grant) ==
    /\ consumable(p, grant) # {}
    /\ grants' = grants \ consumable(p, grant)
    /\ spent' = spent \cup {grant}
    /\ UNCHANGED <<flow_vars, grant_clock>>

resolution_revoke_all ==
    /\ grants' = {}
    /\ grant_clock' = next_generation(grant_clock)
    /\ spent' = spent \cup grants
    /\ UNCHANGED flow_vars

-----------------------------------------------------------------------------
\* A client presents what it was given, ended or not.
FlowNext ==
    \/ \E p \in Principal, q \in Priorities, l \in Links : request_flow(p, q, l)
    \/ \E f \in ended \cup {e.flow : e \in leases} :
          issue(f) \/ \E p \in Principal : release_flow(p, f)
    \/ \E e \in tunnels : retire(e.tunnel)
    \/ broker_revoke_all \/ tunnel_revoke_all

ResolutionNext ==
    \/ \E p \in Principal : issue_grant(p) \/ \E g \in spent \cup grants : consume(p, g)
    \/ resolution_revoke_all

NetworkSpec ==
    NetworkInit /\ [][FlowNext \/ ResolutionNext]_<<flow_vars, resolution_vars>>

-----------------------------------------------------------------------------
\* The tables hold no more than they have room for, and identifiers already drawn.
NetworkTypeOK ==
    /\ {flow_clock, grant_clock} \subseteq Clock
    /\ Cardinality(leases) <= MaxFlows /\ Cardinality(tunnels) <= MaxTunnels
    /\ Cardinality(grants) <= MaxGrants
    /\ \A e \in leases : e.flow.id < flow_clock.next
    /\ \A g \in grants : g.id < grant_clock.next

\* A principal never has more flows of a priority than the plan of the newest of
\* them allows, however the link changed in between (request_flow).
FlowsFitTheirPlan ==
    \A newest \in leases :
        LET alike == {e \in leases : /\ e.flow.principal = newest.flow.principal
                                     /\ e.priority = newest.priority}
        IN (\A e \in alike : e.flow.id <= newest.flow.id) =>
               Cardinality(alike) <= newest.plan[newest.priority]

\* What was released, consumed or revoked stays so: no later state honours it,
\* not even once the generations have come round (revoke_all_for_restart, consume).
EndedStaysEnded ==
    /\ \A c \in ended : releasable(c.principal, c) = {}
    /\ \A c \in spent : consumable(c.principal, c) = {}

\* A tunnel carries one flow, of its own generation (TunnelAuthority::issue).
TunnelsCarryOneFlow ==
    \A e \in tunnels :
        /\ owns_flow(e.tunnel, e.flow)
        /\ \A d \in tunnels : d.tunnel.id = e.tunnel.id => d = e

\* The authorities of the network domain keep to what they admitted.
NetworkIsKept ==
    NetworkTypeOK /\ FlowsFitTheirPlan /\ EndedStaysEnded /\ TunnelsCarryOneFlow
=============================================================================
