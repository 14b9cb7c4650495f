----------------------------- MODULE Connections -----------------------------
(***************************************************************************)
(* Data connections of the phone (system/supervisor): a connection needs a *)
(* grant, minted by the admission authority for an owner who is present,   *)
(* and a lease, which keeps the service and the hardware of its domain     *)
(* from being shut down.  The authorities are header-only classes; who     *)
(* calls them (the lock screen, the power policy, the clients) is not in   *)
(* the repository yet and is external here.                                *)
(***************************************************************************)
EXTENDS Naturals, FiniteSets

CONSTANTS Principal,   \* who asks for connections and leases
          Transports,  \* among the six of ConnectionTransport
          Purposes,    \* among the seven of ConnectionPurpose
          Domains,     \* among the twelve of SubsystemDomain
          MaxGrants,   \* max_active_grants
          MaxLeases,   \* max_leases of one domain
          MaxLock,     \* bound: times the phone is locked
          MaxId,       \* bound: grants, and leases of one domain
          MaxEpoch     \* bound: generations of an authority

VARIABLES lock,       \* current_lock_generation
          proof,      \* the UserPresenceProof at hand
          admission,  \* ConnectionAdmissionAuthority
          leases,     \* SubsystemLeaseAuthority of each domain
          sessions,   \* ConnectionSessions their holders have not closed
          tokens,     \* leases held without a connection
          busy        \* QuiesceContext: what must not be interrupted

connection_vars == <<lock, proof, admission, leases, sessions, tokens, busy>>

ConnectionConstants == /\ MaxGrants \in Nat \ {0} /\ MaxLeases \in Nat \ {0}
                       /\ MaxId \in Nat /\ MaxEpoch \in Nat /\ MaxLock \in Nat

-----------------------------------------------------------------------------
(* Pure policy.                                                            *)

NoDomain == "none"

connection_risk(purpose) ==
    CASE purpose = "charge_only" -> "no_data"
      [] purpose \in {"audio", "display"} -> "data"
      [] OTHER -> "privileged_data"

requires_user_authentication(purpose) == connection_risk(purpose) # "no_data"

connection_subsystem_domain(transport) ==
    CASE transport \in {"usb", "thunderbolt_like", "debug_link"} -> "usb_data"
      [] transport = "bluetooth" -> "bluetooth"
      [] transport = "wifi_direct" -> "network"
      [] OTHER -> NoDomain

idle_disposition(domain) ==
    CASE domain \in {"network", "bluetooth", "camera", "microphone",
                     "location", "sensors", "usb_data"} ->
         "stop_and_power_gate"
      [] domain \in {"display", "audio"} -> "stop_service_keep_hardware_safe"
      [] domain = "telephony" -> "quiesce_only"
      [] OTHER -> "always_resident"

\* What plan_idle_transition does with a domain: {} means it stays as it is.
plan_idle_transition(domain, count, context) ==
    IF \/ count # 0
       \/ context \cap {"security_transaction", "update"} # {}
       \/ domain = "storage" /\ "storage_commit" \in context
       \/ domain = "telephony" /\ "emergency" \in context
       \/ idle_disposition(domain) = "always_resident"
    THEN {}
    ELSE {"quiesce", "revoke_clients", "zero_secrets"} \cup
         (IF idle_disposition(domain) = "quiesce_only" THEN {}
          ELSE {"stop_service"}) \cup
         (IF idle_disposition(domain) # "stop_and_power_gate" THEN {}
          ELSE {"revoke_dma"} \cup
               (IF "wake_source" \in context THEN {} ELSE {"power_gate"}))

-----------------------------------------------------------------------------
(* SubsystemLeaseAuthority.                                                *)

Token(domain, id) ==
    [domain |-> domain, id |-> id, generation |-> leases[domain].generation]

\* The slots after acquire, and the token; unchanged slots when it refuses.
can_acquire(domain) == Cardinality(leases[domain].slots) < MaxLeases

acquire(domain, principal, kind) ==
    LET a == leases[domain] IN
    [leases EXCEPT ![domain] =
       [next |-> a.next + 1, generation |-> a.generation,
        slots |-> a.slots \cup {[id |-> a.next, generation |-> a.generation,
                                 principal |-> principal, kind |-> kind]}]]

lease_slot(token) ==
    {s \in leases[token.domain].slots :
       s.id = token.id /\ s.generation = token.generation}

valid_for_domain(token) ==
    token.generation = leases[token.domain].generation

can_release(principal, token) ==
    /\ valid_for_domain(token)
    /\ \E s \in lease_slot(token) : s.principal = principal

release_lease(token) ==
    LET a == leases[token.domain] IN
    [leases EXCEPT ![token.domain] =
       [next |-> a.next, generation |-> a.generation, slots |-> a.slots \ lease_slot(token)]]

lease_active(token) == valid_for_domain(token) /\ lease_slot(token) # {}

\* A count of the leases that keep running without the user.
counts_background(domain) ==
    Cardinality({s \in leases[domain].slots :
                   /\ s.generation = leases[domain].generation
                   /\ s.kind # "interactive"})

counts(domain) ==
    Cardinality({s \in leases[domain].slots :
                   s.generation = leases[domain].generation})

advance_generation_after_quiesce(domain) ==
    LET a == leases[domain] IN
    [leases EXCEPT ![domain] = [next |-> a.next, generation |-> a.generation + 1, slots |-> {}]]

-----------------------------------------------------------------------------
(* ConnectionAdmissionAuthority.                                           *)

proof_valid == proof.verified /\ ~ proof.duress /\ proof.lock = lock

Grant(transport, purpose) ==
    [id |-> admission.next + 1, generation |-> admission.generation,
     lock |-> lock, transport |-> transport, purpose |-> purpose,
     data |-> requires_user_authentication(purpose)]

\* Data is admitted for a present owner, on a transport with a domain, while
\* a slot is free.
can_admit(transport) ==
    /\ proof_valid
    /\ connection_subsystem_domain(transport) # NoDomain
    /\ Cardinality(admission.slots) < MaxGrants

admit(grant) ==
    [next |-> grant.id, generation |-> admission.generation,
     slots |-> admission.slots \cup (IF grant.data THEN {grant} ELSE {})]

can_release_grant(grant) ==
    /\ grant.data /\ grant.generation = admission.generation
    /\ grant \in admission.slots

revoke_all ==
    [next |-> admission.next, generation |-> admission.generation + 1, slots |-> {}]

active(grant) ==
    /\ grant.generation = admission.generation /\ grant.lock = lock
    /\ IF grant.data THEN grant \in admission.slots
       ELSE grant.purpose = "charge_only"

required_domain(grant) ==
    IF active(grant) /\ grant.data
    THEN connection_subsystem_domain(grant.transport) ELSE NoDomain

-----------------------------------------------------------------------------
(* Sessions and their callers.                                             *)

bounded(domain) == /\ leases[domain].next <= MaxId /\ admission.next < MaxId

\* Without the rollback a grant survives the refusal of its lease.
rolled_back_never(grant) == admit(grant)

\* admission.release of the grant just minted: only its id is used up.
rolled_back(grant) == [admission EXCEPT !.next = grant.id]

\* The caller passes the lease authority of the domain.
admit_connection_session(principal, transport, purpose) ==
    /\ requires_user_authentication(purpose) /\ can_admit(transport)
    /\ LET domain == connection_subsystem_domain(transport)
           grant == Grant(transport, purpose)
       IN  /\ domain \in Domains /\ bounded(domain)
           /\ IF can_acquire(domain)
              THEN /\ admission' = admit(grant)
                   /\ leases' = acquire(domain, principal, "interactive")
                   /\ sessions' = sessions \cup
                        {[grant |-> grant, principal |-> principal,
                          lease |-> Token(domain, leases[domain].next)]}
              ELSE /\ admission' = rolled_back(grant)
                   /\ UNCHANGED <<leases, sessions>>
    /\ UNCHANGED <<lock, proof, tokens, busy>>

\* The grant goes first, then the lease.  A session whose grant is gone
\* already cannot be closed, and its lease stays.
close_connection_session(s) ==
    /\ s \in sessions /\ can_release_grant(s.grant)
    /\ admission' = [admission EXCEPT !.slots = @ \ {s.grant}]
    /\ leases' = IF can_release(s.principal, s.lease)
                 THEN release_lease(s.lease) ELSE leases
    /\ sessions' = sessions \ {s}
    /\ UNCHANGED <<lock, proof, tokens, busy>>

charge(transport) ==
    /\ admission.next < MaxId
    /\ admission' = admit(Grant(transport, "charge_only"))
    /\ UNCHANGED <<lock, proof, leases, sessions, tokens, busy>>

takes_lease(domain, principal, kind) ==
    /\ bounded(domain) /\ can_acquire(domain)
    /\ leases' = acquire(domain, principal, kind)
    /\ tokens' = tokens \cup {[principal |-> principal,
                               lease |-> Token(domain, leases[domain].next)]}
    /\ UNCHANGED <<lock, proof, admission, sessions, busy>>

drops_lease(t, principal) ==
    /\ t \in tokens
    /\ leases' = IF can_release(principal, t.lease) THEN release_lease(t.lease)
                 ELSE leases
    /\ tokens' = IF principal = t.principal THEN tokens \ {t} ELSE tokens
    /\ UNCHANGED <<lock, proof, admission, sessions, busy>>

\* The phone is locked: grants of the earlier lock generation end with it,
\* and the lock may revoke them all besides.
locks(revoking) ==
    /\ lock < MaxLock /\ admission.generation < MaxEpoch
    /\ lock' = lock + 1
    /\ admission' = IF revoking THEN revoke_all ELSE admission
    /\ UNCHANGED <<proof, leases, sessions, tokens, busy>>

authenticates(verified, duress) ==
    /\ proof' = [lock |-> lock, verified |-> verified, duress |-> duress]
    /\ proof' # proof
    /\ UNCHANGED <<lock, admission, leases, sessions, tokens, busy>>

\* The power policy: the generation advances after a quiesce only.
quiesces(domain) ==
    /\ leases[domain].generation < MaxEpoch
    /\ "quiesce" \in plan_idle_transition(domain, counts(domain), busy)
    /\ leases' = advance_generation_after_quiesce(domain)
    /\ UNCHANGED <<lock, proof, admission, sessions, tokens, busy>>

context_changes(c) ==
    /\ c # busy /\ busy' = c
    /\ UNCHANGED <<lock, proof, admission, leases, sessions, tokens>>

-----------------------------------------------------------------------------
ConnectionsInit ==
    /\ lock = 1 /\ proof = [lock |-> 0, verified |-> FALSE, duress |-> FALSE]
    /\ admission = [next |-> 0, generation |-> 1, slots |-> {}]
    /\ leases = [d \in Domains |-> [next |-> 1, generation |-> 1, slots |-> {}]]
    /\ sessions = {} /\ tokens = {} /\ busy = {}

ConnectionsNext ==
    \/ \E p \in Principal, t \in Transports, u \in Purposes :
         admit_connection_session(p, t, u)
    \/ \E s \in sessions : close_connection_session(s)
    \/ \E t \in Transports : charge(t)
    \/ \E d \in Domains, p \in Principal, k \in {"interactive", "background"} :
         takes_lease(d, p, k)
    \/ \E t \in tokens, p \in Principal : drops_lease(t, p)
    \/ \E r \in BOOLEAN : locks(r)
    \/ \E v, d \in BOOLEAN : authenticates(v, d)
    \/ \E d \in Domains : quiesces(d)
    \/ \E c \in {{}, {"update"}} : context_changes(c)

ConnectionsSpec == ConnectionsInit /\ [][ConnectionsNext]_connection_vars

-----------------------------------------------------------------------------
\* Every grant of data belongs to a session somebody can close, and while the
\* grant is honoured the domain it needs is held up by the session's lease,
\* in the domain's present generation: it cannot be shut down underneath a
\* connection, and a connection that got no lease leaves no grant behind
\* (connection_session.hpp, subsystem_lease.hpp).
ConnectionsAreLeased ==
    /\ \A g \in admission.slots : \E s \in sessions : s.grant = g
    /\ \A s \in sessions : active(s.grant) =>
         /\ lease_active(s.lease) /\ s.lease.domain = required_domain(s.grant)

=============================================================================
