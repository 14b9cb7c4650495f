--------------------------- MODULE ServiceProofs ----------------------------
(***************************************************************************)
(* Proofs about two system services.                                       *)
(*                                                                         *)
(* NetworkFlows, for any principals, links, table sizes and generations.   *)
(* What makes EndedStaysEnded true is not the generation, which comes      *)
(* round, but that an identifier is drawn once; and what makes             *)
(* FlowsFitTheirPlan true when leases are given up in any order is that    *)
(* every lease fitted its own plan together with its elders.               *)
(*                                                                         *)
(* DeviceAccess, for any width of an address and any bytes in a record,    *)
(* with up to the four windows a policy can have: the checks that avoid    *)
(* overflow by subtracting decide containment exactly.                     *)
(***************************************************************************)
EXTENDS NetworkFlows, DeviceAccess, FiniteSetTheorems, TLAPS

\* A clock that has drawn the identifiers below next.
ClockOK(clock, max) ==
    clock \in [next : 1 .. max + 1, generation : 0 .. MaxGeneration]

\* The leases of a principal and priority that are no younger than this one.
Elders(e) == {d \in leases : /\ d.flow.principal = e.flow.principal /\ d.priority = e.priority
                             /\ d.flow.id <= e.flow.id}

\* What the broker's table and the ended flows look like: an identifier below next
\* is a lease's or ended, never both, and every lease is of this generation.
BrokerInv ==
    /\ ClockOK(flow_clock, MaxId)
    /\ IsFiniteSet(leases) /\ Cardinality(leases) <= MaxFlows
    /\ \A e \in leases :
          /\ e.flow.id \in Nat /\ e.flow.id < flow_clock.next
          /\ e.flow.generation = flow_clock.generation
          /\ e.plan[e.priority] \in Nat
          /\ Cardinality(Elders(e)) <= e.plan[e.priority]
          /\ \A d \in leases : d.flow.id = e.flow.id => d = e
    /\ \A c \in ended :
          /\ c.id \in Nat /\ c.id < flow_clock.next
          /\ \A e \in leases : e.flow.id # c.id

\* Every tunnel is of this generation, and so was its flow when it was issued.
TunnelInv ==
    /\ ClockOK(tunnel_clock, MaxTunnelId)
    /\ IsFiniteSet(tunnels) /\ Cardinality(tunnels) <= MaxTunnels
    /\ \A e \in tunnels :
          /\ e.tunnel.id \in Nat /\ e.tunnel.id < tunnel_clock.next
          /\ owns_flow(e.tunnel, e.flow)
          /\ \A d \in tunnels : d.tunnel.id = e.tunnel.id => d = e

\* A resolution grant is outstanding or spent, never both.
GrantInv ==
    /\ ClockOK(grant_clock, MaxId)
    /\ IsFiniteSet(grants) /\ Cardinality(grants) <= MaxGrants
    /\ \A g \in grants :
          /\ g.id \in Nat /\ g.id < grant_clock.next
          /\ \A h \in grants : h.id = g.id => h = g
    /\ \A c \in spent :
          /\ c.id \in Nat /\ c.id < grant_clock.next
          /\ \A g \in grants : g.id # c.id

NetworkInv == BrokerInv /\ TunnelInv /\ GrantInv

\* Drawing an identifier or a generation leaves a clock a clock.
LEMMA ClocksAdvance ==
  ASSUME NetworkConstants, NEW max \in Nat, NEW clock, ClockOK(clock, max)
  PROVE  /\ clock.next \in Nat /\ clock.next # 0 /\ clock.generation \in Nat
         /\ clock.next <= max => /\ ClockOK(drawn(clock), max)
                                 /\ drawn(clock).next = clock.next + 1
                                 /\ drawn(clock).generation = clock.generation
         /\ ClockOK(next_generation(clock), max)
         /\ next_generation(clock).next = clock.next
  BY DEF ClockOK, NetworkConstants, drawn, next_generation

\* A plan gives every priority a number of flows.
LEMMA PlansAreNumbers ==
  ASSUME NEW l, NEW q \in Priorities
  PROVE  plan_transport(l)[q] \in Nat
  <1>1. classify_link(l) \in {"constrained", "high_latency", "balanced", "broadband"}
    BY DEF classify_link
  <1>2. QED BY <1>1 DEF plan_transport, Priorities

\* Nothing has been drawn.
LEMMA InitNetwork == ASSUME NetworkConstants, NetworkInit PROVE NetworkInv
  <1>1. IsFiniteSet({}) /\ Cardinality({}) = 0
    BY FS_EmptySet
  <1> USE DEF NetworkInit, NetworkConstants, ClockOK
  <1>2. BrokerInv
    BY <1>1 DEF BrokerInv
  <1>3. TunnelInv
    BY <1>1 DEF TunnelInv
  <1>4. GrantInv
    BY <1>1 DEF GrantInv
  <1>5. QED BY <1>2, <1>3, <1>4 DEF NetworkInv

\* Taking leases away keeps the rest within their plans.
LEMMA FewerLeases ==
  ASSUME BrokerInv, NEW S, leases' = leases \ S,
         MaxFlows \in Nat
  PROVE  /\ IsFiniteSet(leases') /\ Cardinality(leases') <= MaxFlows
         /\ \A e \in leases' : Cardinality(Elders(e)') <= e.plan[e.priority]
  <1>1. leases' \subseteq leases /\ IsFiniteSet(leases)
    BY DEF BrokerInv
  <1>2. /\ IsFiniteSet(leases') /\ Cardinality(leases') <= Cardinality(leases)
        /\ Cardinality(leases) \in Nat /\ Cardinality(leases') \in Nat
    BY <1>1, FS_Subset, FS_CardinalityType
  <1>3. Cardinality(leases') <= MaxFlows
    BY <1>2 DEF BrokerInv
  <1>4. ASSUME NEW e \in leases' PROVE Cardinality(Elders(e)') <= e.plan[e.priority]
    <2>1. Elders(e)' \subseteq Elders(e) /\ Elders(e) \subseteq leases
      BY <1>1 DEF Elders
    <2>2. IsFiniteSet(Elders(e))
      BY <1>1, <2>1, FS_Subset
    <2>3. /\ Cardinality(Elders(e)') <= Cardinality(Elders(e))
          /\ Cardinality(Elders(e)) \in Nat /\ Cardinality(Elders(e)') \in Nat
      BY <2>1, <2>2, FS_Subset, FS_CardinalityType
    <2>4. Cardinality(Elders(e)) <= e.plan[e.priority] /\ e.plan[e.priority] \in Nat
      BY <1>1, <1>4 DEF BrokerInv
    <2>5. QED BY <2>3, <2>4
  <1>5. QED BY <1>2, <1>3, <1>4

\* A flow is leased: it is the youngest, and its elders were counted.
LEMMA RequestBroker ==
  ASSUME NetworkConstants, BrokerInv, NEW p \in Principal, NEW q \in Priorities,
         NEW l \in Links, request_flow(p, q, l)
  PROVE  BrokerInv'
  <1> DEFINE flow == [id |-> flow_clock.next, generation |-> flow_clock.generation,
                      principal |-> p]
             new == [flow |-> flow, plan |-> plan_transport(l), priority |-> q]
             A == active_for(p, q)
  <1>1. /\ Cardinality(A) < plan_transport(l)[q] /\ Cardinality(leases) < MaxFlows
        /\ flow_clock.next <= MaxId /\ flow_clock' = drawn(flow_clock)
        /\ leases' = leases \/ leases' = leases \cup {new}
        /\ ended' = ended
    BY DEF request_flow
  <1>2. /\ ClockOK(flow_clock', MaxId) /\ flow_clock'.next = flow_clock.next + 1
        /\ flow_clock'.generation = flow_clock.generation
        /\ flow_clock.next \in Nat
    BY <1>1, ClocksAdvance DEF BrokerInv, NetworkConstants
  <1>3. CASE leases' = leases
    <2>1. \A e \in leases : Elders(e)' = Elders(e)
      BY <1>3 DEF Elders
    <2>2. ASSUME NEW e \in leases'
          PROVE  /\ e.flow.id \in Nat /\ e.flow.id < flow_clock'.next
                 /\ e.flow.generation = flow_clock'.generation
                 /\ e.plan[e.priority] \in Nat
                 /\ Cardinality(Elders(e)') <= e.plan[e.priority]
                 /\ \A d \in leases' : d.flow.id = e.flow.id => d = e
      BY <1>2, <1>3, <2>1, <2>2 DEF BrokerInv
    <2>3. ASSUME NEW c \in ended'
          PROVE  /\ c.id \in Nat /\ c.id < flow_clock'.next
                 /\ \A e \in leases' : e.flow.id # c.id
      BY <1>1, <1>2, <1>3, <2>3 DEF BrokerInv
    <2>4. IsFiniteSet(leases') /\ Cardinality(leases') <= MaxFlows
      BY <1>3 DEF BrokerInv
    <2>5. QED BY <1>2, <2>2, <2>3, <2>4 DEF BrokerInv
  <1>4. CASE leases' = leases \cup {new}
    <2>1. PICK n : n = new
      OBVIOUS
    <2>2. /\ n.flow.id = flow_clock.next /\ n.flow.generation = flow_clock.generation
          /\ n.flow.principal = p /\ n.priority = q
          /\ n.plan[n.priority] = plan_transport(l)[q]
          /\ plan_transport(l)[q] \in Nat
      BY <2>1, PlansAreNumbers
    <2>3. leases' = leases \cup {n}
      BY <1>4, <2>1
    <2>4. n \notin leases /\ \A e \in leases : e.flow.id < flow_clock.next /\ e.flow.id \in Nat
      BY <1>2, <2>2 DEF BrokerInv
    <2>5. IsFiniteSet(leases') /\ Cardinality(leases') <= MaxFlows
      <3>1. IsFiniteSet(leases) /\ Cardinality(leases) \in Nat
        BY FS_CardinalityType DEF BrokerInv
      <3>2. IsFiniteSet(leases') /\ Cardinality(leases') = Cardinality(leases) + 1
        BY <2>3, <2>4, <3>1, FS_AddElement
      <3>3. QED BY <1>1, <3>1, <3>2 DEF NetworkConstants
    <2>6. ASSUME NEW e \in leases PROVE Elders(e)' = Elders(e)
      BY <1>2, <2>3, <2>2, <2>4, <2>6 DEF Elders
    <2>7. Cardinality(Elders(n)') <= n.plan[n.priority]
      <3>1. Elders(n)' = A \cup {n} /\ A \subseteq leases
        <4>1. ASSUME NEW d \in leases
              PROVE  /\ d.flow.id <= n.flow.id
                     /\ d.flow.generation = flow_clock.generation
          BY <1>2, <2>2, <2>4, <4>1 DEF BrokerInv
        <4>2. n.flow.id <= n.flow.id
          BY <1>2, <2>2
        <4>3. ASSUME NEW d PROVE d \in Elders(n)' <=> d \in A \cup {n}
          <5>1. d \in Elders(n)' <=> /\ d \in leases' /\ d.flow.principal = p /\ d.priority = q
                                       /\ d.flow.id <= n.flow.id
            BY <2>2 DEF Elders
          <5>2. d \in A <=> /\ d \in leases /\ d.flow.principal = p /\ d.priority = q
                            /\ d.flow.generation = flow_clock.generation
            BY DEF active_for
          <5>3. CASE d \in leases
            BY <2>3, <2>2, <2>4, <4>1, <5>1, <5>2, <5>3
          <5>4. CASE d \notin leases
            BY <2>3, <2>2, <4>2, <5>1, <5>2, <5>4
          <5>5. QED BY <5>3, <5>4
        <4>4. A \subseteq leases
          BY DEF active_for
        <4> HIDE DEF A
        <4>5. QED BY <4>3, <4>4
      <3>2. IsFiniteSet(A) /\ Cardinality(A) \in Nat
        BY <3>1, FS_Subset, FS_CardinalityType DEF BrokerInv
      <3>3. Cardinality(A \cup {n}) = Cardinality(A) + 1
        BY <2>4, <3>1, <3>2, FS_AddElement
      <3>4. QED BY <1>1, <2>2, <3>1, <3>2, <3>3
    <2>8. ASSUME NEW e \in leases'
          PROVE  /\ e.flow.id \in Nat /\ e.flow.id < flow_clock'.next
                 /\ e.flow.generation = flow_clock'.generation
                 /\ e.plan[e.priority] \in Nat
                 /\ Cardinality(Elders(e)') <= e.plan[e.priority]
                 /\ \A d \in leases' : d.flow.id = e.flow.id => d = e
      <3>1. CASE e = n
        BY <1>2, <2>3, <2>2, <2>4, <2>7, <3>1
      <3>2. CASE e \in leases
        BY <1>2, <2>3, <2>2, <2>4, <2>6, <3>2 DEF BrokerInv
      <3>3. QED BY <2>3, <2>8, <3>1, <3>2
    <2>9. ASSUME NEW c \in ended'
          PROVE  /\ c.id \in Nat /\ c.id < flow_clock'.next
                 /\ \A e \in leases' : e.flow.id # c.id
      BY <1>1, <1>2, <2>3, <2>2, <2>9 DEF BrokerInv
    <2>10. QED BY <1>2, <2>5, <2>8, <2>9 DEF BrokerInv
  <1>5. QED BY <1>1, <1>3, <1>4

\* A flow is given up: its identifier, which no other lease has, is ended.
LEMMA ReleaseBroker ==
  ASSUME NetworkConstants, BrokerInv, NEW p \in Principal,
         NEW f \in ended \cup {e.flow : e \in leases}, release_flow(p, f)
  PROVE  BrokerInv'
  <1>1. /\ leases' = leases \ releasable(p, f) /\ releasable(p, f) # {}
        /\ ended' = ended \cup {f} /\ flow_clock' = flow_clock
    BY DEF release_flow
  <1>2. PICK e \in leases : e.flow.id = f.id /\ e \in releasable(p, f)
    BY <1>1 DEF releasable
  <1>3. f.id \in Nat /\ f.id < flow_clock.next /\ \A d \in leases' : d.flow.id # f.id
    BY <1>1, <1>2 DEF BrokerInv
  <1>4. /\ IsFiniteSet(leases') /\ Cardinality(leases') <= MaxFlows
        /\ \A d \in leases' : Cardinality(Elders(d)') <= d.plan[d.priority]
    BY <1>1, FewerLeases DEF NetworkConstants
  <1>5. ASSUME NEW d \in leases'
        PROVE  /\ d.flow.id \in Nat /\ d.flow.id < flow_clock'.next
               /\ d.flow.generation = flow_clock'.generation
               /\ d.plan[d.priority] \in Nat
               /\ \A c \in leases' : c.flow.id = d.flow.id => c = d
    BY <1>1, <1>5 DEF BrokerInv
  <1>6. ASSUME NEW c \in ended'
        PROVE  /\ c.id \in Nat /\ c.id < flow_clock'.next
               /\ \A d \in leases' : d.flow.id # c.id
    BY <1>1, <1>3, <1>6 DEF BrokerInv
  <1>7. ClockOK(flow_clock', MaxId)
    BY <1>1 DEF BrokerInv
  <1>8. QED BY <1>4, <1>5, <1>6, <1>7 DEF BrokerInv

\* A restart of the broker ends every flow at once.
LEMMA RevokeBroker ==
  ASSUME NetworkConstants, BrokerInv, broker_revoke_all
  PROVE  BrokerInv'
  <1>1. /\ leases' = {} /\ flow_clock' = next_generation(flow_clock)
        /\ ended' = ended \cup {e.flow : e \in leases}
    BY DEF broker_revoke_all
  <1>2. ClockOK(flow_clock', MaxId) /\ flow_clock'.next = flow_clock.next
    BY <1>1, ClocksAdvance DEF BrokerInv, NetworkConstants
  <1>3. IsFiniteSet(leases') /\ Cardinality(leases') <= MaxFlows
    BY <1>1, FS_EmptySet DEF NetworkConstants
  <1>4. ASSUME NEW c \in ended'
        PROVE  c.id \in Nat /\ c.id < flow_clock'.next
    BY <1>1, <1>2, <1>4 DEF BrokerInv
  <1>5. QED BY <1>1, <1>2, <1>3, <1>4 DEF BrokerInv

\* A tunnel is issued under an identifier that no tunnel has.
LEMMA IssueTunnel ==
  ASSUME NetworkConstants, TunnelInv, NEW f, issue(f)
  PROVE  TunnelInv'
  <1> DEFINE tunnel == [id |-> tunnel_clock.next, generation |-> tunnel_clock.generation]
             new == [flow |-> f, tunnel |-> tunnel]
  <1>1. /\ flow_valid(f) /\ f.generation = tunnel_clock.generation
        /\ Cardinality(tunnels) < MaxTunnels
        /\ tunnel_clock.next <= MaxTunnelId /\ tunnel_clock' = drawn(tunnel_clock)
        /\ \/ tunnels' = tunnels
           \/ tunnels' = tunnels \cup {new} /\ flow_valid(tunnel)
    BY DEF issue
  <1>2. /\ ClockOK(tunnel_clock', MaxTunnelId) /\ tunnel_clock'.next = tunnel_clock.next + 1
        /\ tunnel_clock'.generation = tunnel_clock.generation
        /\ tunnel_clock.next \in Nat
    BY <1>1, ClocksAdvance DEF TunnelInv, NetworkConstants
  <1>3. CASE tunnels' = tunnels
    BY <1>1, <1>2, <1>3 DEF TunnelInv, owns_flow
  <1>4. CASE tunnels' = tunnels \cup {new} /\ flow_valid(tunnel)
    <2>1. new.flow = f /\ new.tunnel = tunnel /\ tunnel.id = tunnel_clock.next
          /\ tunnel.generation = tunnel_clock.generation
          /\ [flow |-> new.flow, tunnel |-> new.tunnel] = new
      OBVIOUS
    <2> HIDE DEF new, tunnel
    <2>2. new \notin tunnels /\ \A e \in tunnels : e.tunnel.id < tunnel_clock.next
      BY <1>2, <2>1 DEF TunnelInv
    <2>3. IsFiniteSet(tunnels') /\ Cardinality(tunnels') <= MaxTunnels
      <3>1. IsFiniteSet(tunnels) /\ Cardinality(tunnels) \in Nat
        BY FS_CardinalityType DEF TunnelInv
      <3>2. IsFiniteSet(tunnels') /\ Cardinality(tunnels') = Cardinality(tunnels) + 1
        BY <1>4, <2>2, <3>1, FS_AddElement
      <3>3. QED BY <1>1, <3>1, <3>2 DEF NetworkConstants
    <2>4. ASSUME NEW e \in tunnels'
          PROVE  /\ e.tunnel.id \in Nat /\ e.tunnel.id < tunnel_clock'.next
                 /\ owns_flow(e.tunnel, e.flow)'
                 /\ \A d \in tunnels' : d.tunnel.id = e.tunnel.id => d = e
      <3>1. CASE e = new
        BY <1>1, <1>2, <1>4, <2>1, <2>2, <3>1 DEF TunnelInv, owns_flow
      <3>2. CASE e \in tunnels
        BY <1>1, <1>2, <1>4, <2>1, <2>2, <3>2 DEF TunnelInv, owns_flow
      <3>3. QED BY <1>4, <2>4, <3>1, <3>2
    <2>5. QED BY <1>2, <2>3, <2>4 DEF TunnelInv
  <1>5. QED BY <1>1, <1>3, <1>4

\* Tunnels are retired one by one or all at once.
LEMMA RetireTunnel ==
  ASSUME NetworkConstants, TunnelInv, (\E e \in tunnels : retire(e.tunnel)) \/ tunnel_revoke_all
  PROVE  TunnelInv'
  <1>1. CASE \E e \in tunnels : retire(e.tunnel)
    <2>1. PICK e : tunnels' = tunnels \ {e} /\ tunnel_clock' = tunnel_clock
      BY <1>1 DEF retire
    <2>2. /\ IsFiniteSet(tunnels') /\ Cardinality(tunnels') <= Cardinality(tunnels)
          /\ Cardinality(tunnels) \in Nat /\ Cardinality(tunnels') \in Nat
      BY <2>1, FS_Subset, FS_CardinalityType DEF TunnelInv
    <2>3. Cardinality(tunnels') <= MaxTunnels
      BY <2>2 DEF TunnelInv, NetworkConstants
    <2>4. ASSUME NEW d \in tunnels' PROVE owns_flow(d.tunnel, d.flow)'
      <3>1. d \in tunnels /\ d # e /\ owns_flow(d.tunnel, d.flow)
        BY <2>1, <2>4 DEF TunnelInv
      <3>2. [flow |-> d.flow, tunnel |-> d.tunnel] = d
        BY <3>1 DEF TunnelInv, owns_flow
      <3>3. QED BY <2>1, <3>1, <3>2 DEF owns_flow
    <2>5. QED BY <2>1, <2>2, <2>3, <2>4 DEF TunnelInv
  <1>2. CASE tunnel_revoke_all
    <2>1. tunnels' = {} /\ tunnel_clock' = next_generation(tunnel_clock)
      BY <1>2 DEF tunnel_revoke_all
    <2>2. ClockOK(tunnel_clock', MaxTunnelId)
      BY <2>1, ClocksAdvance DEF TunnelInv, NetworkConstants
    <2>3. QED BY <2>1, <2>2, FS_EmptySet DEF TunnelInv, NetworkConstants
  <1>3. QED BY <1>1, <1>2

\* A resolution grant is issued, consumed once, or revoked with all others.
LEMMA StepGrant ==
  ASSUME NetworkConstants, GrantInv, ResolutionNext
  PROVE  GrantInv'
  <1>1. ASSUME NEW p \in Principal, issue_grant(p) PROVE GrantInv'
    <2> DEFINE new == [id |-> grant_clock.next, generation |-> grant_clock.generation,
                       principal |-> p]
    <2>1. /\ Cardinality(grants) < MaxGrants /\ grant_clock.next <= MaxId
          /\ grant_clock' = drawn(grant_clock) /\ grants' = grants \cup {new}
          /\ spent' = spent /\ new.id = grant_clock.next
      BY <1>1 DEF issue_grant
    <2> HIDE DEF new
    <2>2. /\ ClockOK(grant_clock', MaxId) /\ grant_clock'.next = grant_clock.next + 1
          /\ grant_clock.next \in Nat
      BY <2>1, ClocksAdvance DEF GrantInv, NetworkConstants
    <2>3. new \notin grants /\ \A g \in grants : g.id < grant_clock.next
      BY <2>1, <2>2 DEF GrantInv
    <2>4. IsFiniteSet(grants') /\ Cardinality(grants') <= MaxGrants
      <3>1. IsFiniteSet(grants) /\ Cardinality(grants) \in Nat
        BY FS_CardinalityType DEF GrantInv
      <3>2. IsFiniteSet(grants') /\ Cardinality(grants') = Cardinality(grants) + 1
        BY <2>1, <2>3, <3>1, FS_AddElement
      <3>3. QED BY <2>1, <3>1, <3>2 DEF NetworkConstants
    <2>5. QED BY <2>1, <2>2, <2>3, <2>4 DEF GrantInv
  <1>2. ASSUME NEW p \in Principal, NEW c \in spent \cup grants, consume(p, c) PROVE GrantInv'
    <2>1. /\ grants' = grants \ consumable(p, c) /\ consumable(p, c) # {}
          /\ spent' = spent \cup {c} /\ grant_clock' = grant_clock
      BY <1>2 DEF consume
    <2>2. PICK g \in grants : g.id = c.id /\ g \in consumable(p, c)
      BY <2>1 DEF consumable
    <2>3. c.id \in Nat /\ c.id < grant_clock.next /\ \A h \in grants' : h.id # c.id
      BY <2>1, <2>2 DEF GrantInv
    <2>4. /\ IsFiniteSet(grants') /\ Cardinality(grants') <= Cardinality(grants)
          /\ Cardinality(grants) \in Nat /\ Cardinality(grants') \in Nat
      BY <2>1, FS_Subset, FS_CardinalityType DEF GrantInv
    <2>5. Cardinality(grants') <= MaxGrants
      BY <2>4 DEF GrantInv, NetworkConstants
    <2>6. QED BY <2>1, <2>3, <2>4, <2>5 DEF GrantInv
  <1>3. CASE resolution_revoke_all
    <2>1. /\ grants' = {} /\ grant_clock' = next_generation(grant_clock)
          /\ spent' = spent \cup grants
      BY <1>3 DEF resolution_revoke_all
    <2>2. ClockOK(grant_clock', MaxId) /\ grant_clock'.next = grant_clock.next
      BY <2>1, ClocksAdvance DEF GrantInv, NetworkConstants
    <2>3. QED BY <2>1, <2>2, FS_EmptySet DEF GrantInv, NetworkConstants
  <1>4. QED BY <1>1, <1>2, <1>3 DEF ResolutionNext

\* The three authorities share no state.
LEMMA StepNetwork ==
  ASSUME NetworkConstants, NetworkInv,
         [FlowNext \/ ResolutionNext]_<<flow_vars, resolution_vars>>
  PROVE  NetworkInv'
  <1> USE DEF NetworkInv
  <1>1. UNCHANGED <<leases, flow_clock, ended>> => BrokerInv'
    BY DEF BrokerInv, Elders
  <1>2. UNCHANGED <<tunnels, tunnel_clock>> => TunnelInv'
    BY DEF TunnelInv, owns_flow
  <1>3. UNCHANGED <<grants, grant_clock, spent>> => GrantInv'
    BY DEF GrantInv
  <1>4. ASSUME NEW p \in Principal, NEW q \in Priorities, NEW l \in Links, request_flow(p, q, l)
        PROVE  NetworkInv'
    <2>1. UNCHANGED <<tunnels, tunnel_clock, grants, grant_clock, spent>>
      BY <1>4 DEF request_flow, resolution_vars
    <2>2. QED BY <1>2, <1>3, <1>4, <2>1, RequestBroker
  <1>5. ASSUME NEW f \in ended \cup {e.flow : e \in leases}, issue(f) PROVE NetworkInv'
    <2>1. UNCHANGED <<leases, flow_clock, ended, grants, grant_clock, spent>>
      BY <1>5 DEF issue, resolution_vars
    <2>2. QED BY <1>1, <1>3, <1>5, <2>1, IssueTunnel
  <1>6. ASSUME NEW f \in ended \cup {e.flow : e \in leases}, NEW p \in Principal,
               release_flow(p, f)
        PROVE  NetworkInv'
    <2>1. UNCHANGED <<tunnels, tunnel_clock, grants, grant_clock, spent>>
      BY <1>6 DEF release_flow, resolution_vars
    <2>2. QED BY <1>2, <1>3, <1>6, <2>1, ReleaseBroker
  <1>7. CASE (\E e \in tunnels : retire(e.tunnel)) \/ tunnel_revoke_all
    <2>1. UNCHANGED <<leases, flow_clock, ended, grants, grant_clock, spent>>
      BY <1>7 DEF retire, tunnel_revoke_all, resolution_vars
    <2>2. QED BY <1>1, <1>3, <1>7, <2>1, RetireTunnel
  <1>8. CASE broker_revoke_all
    <2>1. UNCHANGED <<tunnels, tunnel_clock, grants, grant_clock, spent>>
      BY <1>8 DEF broker_revoke_all, resolution_vars
    <2>2. QED BY <1>2, <1>3, <1>8, <2>1, RevokeBroker
  <1>9. CASE ResolutionNext
    <2>1. UNCHANGED <<leases, flow_clock, ended, tunnels, tunnel_clock>>
      BY <1>9 DEF ResolutionNext, issue_grant, consume, resolution_revoke_all, flow_vars
    <2>2. QED BY <1>1, <1>2, <1>9, <2>1, StepGrant
  <1>10. CASE UNCHANGED <<flow_vars, resolution_vars>>
    BY <1>1, <1>2, <1>3, <1>10 DEF flow_vars, resolution_vars
  <1>11. QED BY <1>4, <1>5, <1>6, <1>7, <1>8, <1>9, <1>10 DEF FlowNext

\* The invariant is what the authorities promise.
LEMMA NetworkInvKeeps ==
  ASSUME NetworkConstants, NetworkInv
  PROVE  NetworkIsKept
  <1> USE DEF NetworkInv
  <1>1. NetworkTypeOK
    BY DEF NetworkTypeOK, Clock, ClockOK, BrokerInv, TunnelInv, GrantInv
  <1>2. FlowsFitTheirPlan
    <2> SUFFICES ASSUME NEW newest \in leases,
                        \A e \in leases : /\ e.flow.principal = newest.flow.principal
                                          /\ e.priority = newest.priority
                                          => e.flow.id <= newest.flow.id
                 PROVE  Cardinality({e \in leases :
                                        /\ e.flow.principal = newest.flow.principal
                                        /\ e.priority = newest.priority})
                            <= newest.plan[newest.priority]
      BY DEF FlowsFitTheirPlan
    <2>1. {e \in leases : /\ e.flow.principal = newest.flow.principal
                          /\ e.priority = newest.priority} = Elders(newest)
      BY DEF Elders
    <2>2. QED BY <2>1 DEF BrokerInv
  <1>3. EndedStaysEnded
    BY DEF EndedStaysEnded, releasable, consumable, BrokerInv, GrantInv
  <1>4. TunnelsCarryOneFlow
    BY DEF TunnelsCarryOneFlow, TunnelInv
  <1>5. QED BY <1>1, <1>2, <1>3, <1>4 DEF NetworkIsKept

\* Whatever clients present and however often each authority is restarted: no
\* principal exceeds the plan of its newest flow, nothing ended is honoured again,
\* not even when generations come round, and a tunnel carries one flow
\* (broker.hpp, tunnel_authority.hpp, resolution.hpp).
THEOREM NetworkKeepsGrants ==
  ASSUME NetworkConstants
  PROVE  NetworkSpec => []NetworkIsKept
  <1>1. NetworkInit => NetworkInv
    BY InitNetwork
  <1>2. NetworkInv /\ [FlowNext \/ ResolutionNext]_<<flow_vars, resolution_vars>> => NetworkInv'
    BY StepNetwork
  <1>3. NetworkInv => NetworkIsKept
    BY NetworkInvKeeps
  <1>4. QED BY <1>1, <1>2, <1>3, PTL DEF NetworkSpec

-----------------------------------------------------------------------------
\* Windows that are valid and in canonical order.
Canonical(wins) ==
    /\ wins \in Seq(Windows) /\ Len(wins) <= MaxWindows
    /\ \A i \in DOMAIN wins : window_valid(wins[i]) /\ after(wins, i)

\* The builder never holds windows the parser would refuse.
BuilderInv ==
    /\ builder.domain \in raws(ExecutionDomain) /\ builder.dma \in raws(DmaCapability)
    /\ Canonical(builder.grants)
    /\ builder = [domain |-> builder.domain, dma |-> builder.dma, grants |-> builder.grants]

\* A policy is the record it was parsed from.
PolicyInv ==
    /\ record = NoRecord \/ record.grants \in Seq(Windows)
    /\ record = [framed |-> record.framed, domain |-> record.domain, dma |-> record.dma,
                 grants |-> record.grants]
    /\ record.framed \in BOOLEAN
    /\ policy # NoPolicy =>
          /\ record # NoRecord /\ parses(record)
          /\ policy = [domain |-> record.domain, dma |-> record.dma, grants |-> record.grants]

DeviceInv == BuilderInv /\ PolicyInv

\* The discriminants of the three enumerations.
LEMMA Discriminants ==
  /\ raws(ExecutionDomain) = {1, 2} /\ raws(DmaCapability) = {1, 2, 3}
  /\ raws(AccessMode) = {1, 2}
  /\ ExecutionDomain.isolated_user = 2 /\ DmaCapability.unconfined = 3 /\ DmaCapability.none = 1
  /\ AccessMode.read_only = 1 /\ AccessMode.read_write = 2
  BY DEF raws, ExecutionDomain, DmaCapability, AccessMode

\* A window that does not wrap ends within the words.
LEMMA WindowEnds ==
  ASSUME DeviceConstants, NEW base \in Word, NEW length \in Word
  PROVE  /\ ~grant_wraps(base, length) <=> base + length <= Top
         /\ base + length <= Top => plus(base, length) = base + length
  BY DEF DeviceConstants, Word, grant_wraps, minus, plus

\* The subtractions of permits decide containment.
LEMMA InsideIsContainment ==
  ASSUME DeviceConstants, NEW g \in Windows, window_valid(g),
         NEW base \in Word, NEW length \in Word, length # 0
  PROVE  ~grant_wraps(base, length) /\ inside(g, base, length) <=>
            base .. base + length - 1 \subseteq g.base .. g.base + g.length - 1
  <1>1. /\ g.base \in Nat /\ g.length \in Nat /\ base \in Nat /\ length \in Nat /\ Top \in Nat
        /\ g.base \in Word /\ g.length \in Word /\ g.length # 0 /\ g.length >= 1 /\ length >= 1
    BY DEF Windows, Word, DeviceConstants, window_valid
  <1>2. g.base + g.length <= Top
    BY <1>1, WindowEnds DEF window_valid
  <1>3. ~grant_wraps(base, length) <=> base + length <= Top
    BY WindowEnds
  <1>4. inside(g, base, length) <=> base >= g.base /\ base + length <= g.base + g.length
    BY <1>1 DEF inside, minus
  <1>5. base .. base + length - 1 \subseteq g.base .. g.base + g.length - 1
          <=> base >= g.base /\ base + length <= g.base + g.length
    <2>1. base \in base .. base + length - 1 /\ base + length - 1 \in base .. base + length - 1
      BY <1>1
    <2>2. ASSUME base .. base + length - 1 \subseteq g.base .. g.base + g.length - 1
          PROVE  base >= g.base /\ base + length <= g.base + g.length
      <3>1. /\ base \in g.base .. g.base + g.length - 1
            /\ base + length - 1 \in g.base .. g.base + g.length - 1
        BY <2>1, <2>2
      <3>2. QED BY <1>1, <3>1
    <2>3. ASSUME base >= g.base, base + length <= g.base + g.length
          PROVE  base .. base + length - 1 \subseteq g.base .. g.base + g.length - 1
      BY <1>1, <2>3
    <2>4. QED BY <2>2, <2>3
  <1>6. QED BY <1>1, <1>2, <1>3, <1>4, <1>5

\* In canonical order a later window begins where an earlier one has ended.
LEMMA WindowsAreApart ==
  ASSUME DeviceConstants, NEW wins, Canonical(wins),
         NEW i \in DOMAIN wins, NEW j \in DOMAIN wins, i < j
  PROVE  wins[i].base + wins[i].length <= wins[j].base
  <1>1. /\ Len(wins) \in 0 .. 4 /\ DOMAIN wins = 1 .. Len(wins)
        /\ \A k \in 1 .. Len(wins) : wins[k] \in Windows
    <2>1. wins \in Seq(Windows) /\ Len(wins) <= MaxWindows
      BY DEF Canonical
    <2>2. /\ Len(wins) \in Nat /\ DOMAIN wins = 1 .. Len(wins)
          /\ \A k \in 1 .. Len(wins) : wins[k] \in Windows
      BY <2>1
    <2>3. Len(wins) \in 0 .. 4
      <3>1. MaxWindows \in 0 .. 4
        BY DEF DeviceConstants
      <3>2. PICK n : n = Len(wins)
        OBVIOUS
      <3>3. n \in Nat /\ n <= MaxWindows
        BY <2>1, <2>2, <3>2
      <3>4. n \in 0 .. 4
        BY <3>1, <3>3
      <3>5. QED BY <3>2, <3>4, Zenon
    <2>4. QED BY <2>2, <2>3
  <1> DEFINE b(k) == wins[k].base
             e(k) == wins[k].base + wins[k].length
  <1>2. ASSUME NEW k \in 1 .. Len(wins)
        PROVE  b(k) \in Nat /\ e(k) \in Nat /\ b(k) < e(k)
    <2>1. wins[k] \in Windows /\ window_valid(wins[k])
      BY <1>1 DEF Canonical
    <2>2. wins[k].base \in Nat /\ wins[k].length \in Nat /\ wins[k].length # 0
      BY <2>1 DEF Windows, Word, window_valid
    <2>3. QED BY <2>2
  <1>3. ASSUME NEW k \in 2 .. Len(wins) PROVE e(k - 1) <= b(k)
    <2>1. k - 1 \in 1 .. Len(wins) /\ k \in 1 .. Len(wins) /\ k # 1
      BY <1>1, <1>3
    <2>2. after(wins, k) /\ window_valid(wins[k - 1]) /\ wins[k - 1] \in Windows
      BY <1>1, <2>1 DEF Canonical
    <2>3. plus(wins[k - 1].base, wins[k - 1].length) = e(k - 1)
      BY <2>2, WindowEnds DEF window_valid, Windows
    <2>4. b(k) >= e(k - 1)
      BY <2>1, <2>2, <2>3 DEF after
    <2>5. b(k) \in Nat /\ e(k - 1) \in Nat
      BY <1>2, <2>1
    <2> HIDE DEF b, e
    <2>6. QED BY <2>4, <2>5
  <1> HIDE DEF b, e
  <1>4. e(i) <= b(j)
    <2>1. i \in 1 .. 4 /\ j \in 1 .. 4 /\ j \in 1 .. Len(wins) /\ i < j
      BY <1>1
    <2>2. \A k \in 1 .. j : b(k) \in Nat /\ e(k) \in Nat /\ b(k) < e(k)
      BY <1>1, <1>2, <2>1
    <2>3. \A k \in 2 .. j : e(k - 1) <= b(k)
      BY <1>1, <1>3, <2>1
    <2>4. CASE j = 2
      BY <2>1, <2>2, <2>3, <2>4
    <2>5. CASE j = 3
      <3>1. e(1) <= b(2) /\ e(2) <= b(3)
        BY <2>3, <2>5
      <3>2. QED BY <2>1, <2>2, <2>5, <3>1
    <2>6. CASE j = 4
      <3>1. e(1) <= b(2) /\ e(2) <= b(3) /\ e(3) <= b(4)
        BY <2>3, <2>6
      <3>2. QED BY <2>1, <2>2, <2>6, <3>1
    <2>7. QED BY <2>1, <2>4, <2>5, <2>6
  <1>5. QED BY <1>4 DEF b, e

\* Nothing is granted and there is no record.
LEMMA InitDevice == ASSUME DeviceConstants, DevicesInit PROVE DeviceInv
  <1>1. BuilderInv
    BY Discriminants DEF DevicesInit, BuilderInv, NoPolicy, Canonical, DeviceConstants
  <1>2. PolicyInv
    BY DEF DevicesInit, PolicyInv, NoPolicy, NoRecord
  <1>3. QED BY <1>1, <1>2 DEF DeviceInv

\* The builder appends a window that begins where its last one ended.
LEMMA AddGrantCanonical ==
  ASSUME DeviceConstants, NEW wins, Canonical(wins), Len(wins) < MaxWindows,
         NEW g \in Windows, window_valid(g), after(Append(wins, g), Len(wins) + 1)
  PROVE  Canonical(Append(wins, g))
  <1> DEFINE new == Append(wins, g)
  <1>1. /\ wins \in Seq(Windows) /\ Len(wins) \in Nat /\ DOMAIN wins = 1 .. Len(wins)
        /\ new \in Seq(Windows) /\ Len(new) = Len(wins) + 1 /\ DOMAIN new = 1 .. Len(wins) + 1
        /\ new[Len(wins) + 1] = g /\ \A k \in 1 .. Len(wins) : new[k] = wins[k]
    BY DEF Canonical
  <1> HIDE DEF new
  <1>2. Len(new) <= MaxWindows
    BY <1>1 DEF DeviceConstants
  <1>3. ASSUME NEW k \in DOMAIN new PROVE window_valid(new[k]) /\ after(new, k)
    <2>1. CASE k = Len(wins) + 1
      BY <1>1, <2>1 DEF new
    <2>2. CASE k \in 1 .. Len(wins)
      <3>1. window_valid(wins[k]) /\ after(wins, k) /\ new[k] = wins[k]
        BY <1>1, <2>2 DEF Canonical
      <3>2. k # 1 => new[k - 1] = wins[k - 1]
        BY <1>1, <2>2
      <3>3. QED BY <3>1, <3>2 DEF after
    <2>3. QED BY <1>1, <1>3, <2>1, <2>2
  <1>4. QED BY <1>1, <1>2, <1>3 DEF Canonical, new

\* Building: the policy at hand is not touched.
LEMMA BuildStep ==
  ASSUME DeviceConstants, DeviceInv, record = NoRecord,
         \/ \E d \in raws(ExecutionDomain) : set_domain(d)
         \/ \E d \in raws(DmaCapability) : set_dma(d)
         \/ \E g \in {g \in Windows : g.access \in raws(AccessMode)} : add_grant(g)
  PROVE  DeviceInv'
  <1>1. record' = record /\ policy' = policy
    BY DEF set_domain, set_dma, add_grant
  <1>2. PolicyInv'
    BY <1>1 DEF DeviceInv, PolicyInv
  <1>3. ASSUME NEW d \in raws(ExecutionDomain), set_domain(d) PROVE BuilderInv'
    <2>1. builder' = [domain |-> d, dma |-> builder.dma, grants |-> builder.grants]
      BY <1>3 DEF set_domain, DeviceInv, BuilderInv
    <2>2. QED BY <2>1 DEF DeviceInv, BuilderInv
  <1>4. ASSUME NEW d \in raws(DmaCapability), set_dma(d) PROVE BuilderInv'
    <2>1. builder' = [domain |-> builder.domain, dma |-> d, grants |-> builder.grants]
      BY <1>4 DEF set_dma, DeviceInv, BuilderInv
    <2>2. QED BY <2>1 DEF DeviceInv, BuilderInv
  <1>5. ASSUME NEW g \in Windows, g.access \in raws(AccessMode), add_grant(g) PROVE BuilderInv'
    <2>1. builder' = [domain |-> builder.domain, dma |-> builder.dma,
                      grants |-> Append(builder.grants, g)]
      BY <1>5 DEF add_grant, DeviceInv, BuilderInv
    <2>2. Canonical(Append(builder.grants, g))
      BY <1>5, AddGrantCanonical DEF add_grant, window_valid, DeviceInv, BuilderInv
    <2>3. QED BY <2>1, <2>2 DEF DeviceInv, BuilderInv
  <1>6. QED BY <1>2, <1>3, <1>4, <1>5 DEF DeviceInv

\* A record appears, or is parsed.
LEMMA RecordStep ==
  ASSUME DeviceConstants, DeviceInv, encodes \/ arrives \/ parse_device_access_v1
  PROVE  DeviceInv'
  <1>1. BuilderInv'
    <2>1. builder' = builder
      BY DEF encodes, arrives, parse_device_access_v1
    <2>2. QED BY <2>1 DEF DeviceInv, BuilderInv
  <1>2. CASE encodes
    <2>1. /\ policy' = policy /\ policy = NoPolicy
          /\ record' = [framed |-> TRUE, domain |-> builder.domain, dma |-> builder.dma,
                        grants |-> builder.grants]
      BY <1>2 DEF encodes, encode, DeviceInv, PolicyInv
    <2>2. builder.grants \in Seq(Windows)
      BY DEF DeviceInv, BuilderInv, Canonical
    <2>3. PolicyInv'
      BY <2>1, <2>2 DEF PolicyInv, NoPolicy
    <2>4. QED BY <1>1, <2>3 DEF DeviceInv
  <1>3. CASE arrives
    <2>0. PICK n \in 0 .. MaxForeign :
            \E w \in [1 .. n -> Windows], d \in Domains, m \in Dmas, f \in BOOLEAN :
               record' = [framed |-> f, domain |-> d, dma |-> m, grants |-> w]
      BY <1>3 DEF arrives
    <2>1. PICK w \in [1 .. n -> Windows], d \in Domains, m \in Dmas, f \in BOOLEAN :
             record' = [framed |-> f, domain |-> d, dma |-> m, grants |-> w]
      BY <2>0
    <2>2. policy' = policy /\ policy = NoPolicy
      BY <1>3 DEF arrives, DeviceInv, PolicyInv
    <2>3. w \in Seq(Windows)
      BY DEF DeviceConstants
    <2>4. PolicyInv'
      BY <2>1, <2>2, <2>3 DEF PolicyInv, NoPolicy
    <2>5. QED BY <1>1, <2>4 DEF DeviceInv
  <1>4. CASE parse_device_access_v1
    <2>1. /\ record # NoRecord /\ parses(record) /\ record' = record
          /\ policy' = [domain |-> record.domain, dma |-> record.dma, grants |-> record.grants]
      BY <1>4 DEF parse_device_access_v1
    <2>2. PolicyInv'
      BY <2>1 DEF PolicyInv, DeviceInv, parses, NoPolicy, NoRecord
    <2>3. QED BY <1>1, <2>2 DEF DeviceInv
  <1>5. QED BY <1>2, <1>3, <1>4

\* What a parsed policy permits, and what the builder's records are.
LEMMA DeviceInvExact ==
  ASSUME DeviceConstants, DeviceInv
  PROVE  PoliciesAreExact
  <1> DEFINE addresses(base, length) == base .. base + length - 1
  <1>1. ASSUME policy # NoPolicy
        PROVE  /\ \A base, length \in Word, mode \in raws(AccessMode) :
                     permits(policy, base, length, mode) <=>
                         /\ length # 0
                         /\ \E i \in DOMAIN policy.grants :
                               /\ addresses(base, length) \subseteq
                                     addresses(policy.grants[i].base, policy.grants[i].length)
                               /\ mode \in {AccessMode.read_only, policy.grants[i].access}
               /\ \A i, j \in DOMAIN policy.grants : i # j =>
                     addresses(policy.grants[i].base, policy.grants[i].length)
                       \cap addresses(policy.grants[j].base, policy.grants[j].length) = {}
               /\ policy.domain = ExecutionDomain.isolated_user => confined(policy)
               /\ encode(policy) = record
    <2>1. /\ parses(record) /\ record # NoRecord
          /\ policy = [domain |-> record.domain, dma |-> record.dma, grants |-> record.grants]
          /\ record = [framed |-> record.framed, domain |-> record.domain, dma |-> record.dma,
                       grants |-> record.grants]
          /\ record.framed \in BOOLEAN /\ record.grants \in Seq(Windows)
      BY <1>1 DEF DeviceInv, PolicyInv
    <2>2. policy.grants = record.grants /\ policy.domain = record.domain /\ policy.dma = record.dma
      BY <2>1
    <2>3. Canonical(policy.grants)
      BY <2>1, <2>2 DEF Canonical, parses
    <2>4. \A i \in DOMAIN policy.grants : policy.grants[i] \in Windows /\ window_valid(policy.grants[i])
      BY <2>3 DEF Canonical
    <2>5. ASSUME NEW base \in Word, NEW length \in Word, NEW mode \in raws(AccessMode)
          PROVE  permits(policy, base, length, mode) <=>
                    /\ length # 0
                    /\ \E i \in DOMAIN policy.grants :
                          /\ addresses(base, length) \subseteq
                                addresses(policy.grants[i].base, policy.grants[i].length)
                          /\ mode \in {AccessMode.read_only, policy.grants[i].access}
      <3>1. ASSUME NEW i \in DOMAIN policy.grants
            PROVE  (mode = AccessMode.read_write => policy.grants[i].access = AccessMode.read_write)
                     <=> mode \in {AccessMode.read_only, policy.grants[i].access}
        BY <2>4, Discriminants DEF window_valid
      <3>2. ASSUME NEW i \in DOMAIN policy.grants, length # 0
            PROVE  ~grant_wraps(base, length) /\ inside(policy.grants[i], base, length) <=>
                     addresses(base, length) \subseteq
                        addresses(policy.grants[i].base, policy.grants[i].length)
        BY <2>4, <3>2, InsideIsContainment
      <3> HIDE DEF addresses
      <3>3. QED BY <3>1, <3>2 DEF permits
    <2>6. ASSUME NEW i \in DOMAIN policy.grants, NEW j \in DOMAIN policy.grants, i # j
          PROVE  addresses(policy.grants[i].base, policy.grants[i].length)
                   \cap addresses(policy.grants[j].base, policy.grants[j].length) = {}
      <3>1. /\ policy.grants[i].base \in Nat /\ policy.grants[i].length \in Nat
            /\ policy.grants[j].base \in Nat /\ policy.grants[j].length \in Nat
        BY <2>4, <2>6 DEF Windows, Word
      <3>2. i \in Nat /\ j \in Nat
        BY <2>3, <2>6 DEF Canonical
      <3>3. \/ policy.grants[i].base + policy.grants[i].length <= policy.grants[j].base
            \/ policy.grants[j].base + policy.grants[j].length <= policy.grants[i].base
        <4>1. CASE i < j
          BY <2>3, <2>6, <4>1, WindowsAreApart
        <4>2. CASE j < i
          BY <2>3, <2>6, <4>2, WindowsAreApart
        <4>3. QED BY <2>6, <3>2, <4>1, <4>2
      <3>4. QED BY <3>1, <3>3
    <2>7. policy.domain = ExecutionDomain.isolated_user => confined(policy)
      BY <2>1, <2>2 DEF parses, confined
    <2>8. encode(policy) = record
      BY <2>1, <2>2 DEF encode, parses
    <2> HIDE DEF addresses
    <2>9. QED BY <2>5, <2>6, <2>7, <2>8
  <1>2. ASSUME record = encode(builder), confined(builder) PROVE parses(record)
    <2>1. /\ record.framed = TRUE /\ record.domain = builder.domain /\ record.dma = builder.dma
          /\ record.grants = builder.grants
      BY <1>2 DEF encode
    <2>2. QED BY <1>2, <2>1, Discriminants
          DEF parses, confined, DeviceInv, BuilderInv, Canonical
  <1>3. QED BY <1>1, <1>2 DEF PoliciesAreExact

\* Whatever record is at hand and however wide an address is: a parsed policy
\* permits exactly the ranges inside one of its disjoint windows, has one
\* encoding and is confined where it is isolated; and what the builder encodes is
\* accepted, but for an isolation the platform cannot back (access.cpp).
THEOREM DevicePoliciesAreExact ==
  ASSUME DeviceConstants
  PROVE  DevicesSpec => []PoliciesAreExact
  <1>1. DevicesInit => DeviceInv
    BY InitDevice
  <1>2. DeviceInv /\ [DevicesNext]_device_vars => DeviceInv'
    <2>1. DeviceInv /\ DevicesNext => DeviceInv'
      BY BuildStep, RecordStep DEF DevicesNext
    <2>2. DeviceInv /\ UNCHANGED device_vars => DeviceInv'
      BY DEF DeviceInv, BuilderInv, PolicyInv, device_vars
    <2>3. QED BY <2>1, <2>2
  <1>3. DeviceInv => PoliciesAreExact
    BY DeviceInvExact
  <1>4. QED BY <1>1, <1>2, <1>3, PTL DEF DevicesSpec
=============================================================================
