----------------------------- MODULE Rendezvous -----------------------------
(***************************************************************************)
(* The synchronous scheduling relation of the Cookie kernel: which threads *)
(* exist, what each one is blocked on, and why it was last woken           *)
(* (class Rendezvous, rendezvous.cpp).  Payloads, endpoints, capabilities  *)
(* and reply seals live in other modules; every operation below is one     *)
(* call, which the single-processor kernel runs to completion.             *)
(*                                                                         *)
(* A call the code refuses changes nothing, so a refusal is simply an      *)
(* action that is not enabled.                                             *)
(***************************************************************************)
EXTENDS Naturals

CONSTANTS
    ThreadId,      \* the numeric thread identities callers may use
    Priority,      \* base priorities, larger is more urgent
    MaxThreads     \* max_threads, the length of the slot array

ASSUME ThreadIdAssumption == ThreadId \subseteq Nat \ {0}
\* Priority is a std::uint8_t.
ASSUME PriorityAssumption == Priority \subseteq 0..255 /\ Priority # {}
ASSUME MaxThreadsAssumption == MaxThreads \in Nat \ {0}

invalid_thread == 0

ThreadState ==
    {"ready", "send_blocked", "reply_blocked", "receive_blocked",
     "exited", "admitted"}

WakeReason ==
    {"none", "replied", "peer_exited", "endpoint_retired", "deadline_expired"}

VARIABLES
    state,     \* ThreadState of each identity; "exited" when no slot holds it
    partner,   \* the peer a thread waits on, or whose message was delivered to it
    wake,      \* the WakeReason last recorded for it
    base,      \* its base priority
    slots      \* the slot array: which identity occupies each slot

rvars == <<state, partner, wake, base, slots>>

SlotIndex == 1..MaxThreads
OptThread == ThreadId \cup {invalid_thread}

Init ==
    /\ state = [t \in ThreadId |-> "exited"]
    /\ partner = [t \in ThreadId |-> invalid_thread]
    /\ wake = [t \in ThreadId |-> "none"]
    /\ base = [t \in ThreadId |-> CHOOSE p \in Priority : TRUE]
    /\ slots = [i \in SlotIndex |-> invalid_thread]

(***************************************************************************)
(* Lookups.                                                                *)
(***************************************************************************)
find(t) == t \in ThreadId /\ state[t] # "exited"

Live == {t \in ThreadId : find(t)}

\* Threads inherited_priority counts: blocked in a call to t.
callers_of(t) ==
    {o \in ThreadId \ {t} :
        state[o] \in {"send_blocked", "reply_blocked"} /\ partner[o] = t}

\* Counts only the callers whose request was already accepted.
Bug_inherited_priority(t) ==
    LET callers == {o \in callers_of(t) : state[o] = "reply_blocked"} IN
    CHOOSE p \in {base[o] : o \in callers \cup {t}} :
        \A o \in callers \cup {t} : base[o] <= p

\* The highest of t's own base priority and its direct callers' base priorities.
inherited_priority(t) ==
    CHOOSE p \in {base[o] : o \in callers_of(t) \cup {t}} :
        \A o \in callers_of(t) \cup {t} : base[o] <= p

(***************************************************************************)
(* Creation and exit.                                                      *)
(***************************************************************************)
occupy_slot(t, p, s) ==
    /\ ~find(t)
    /\ \E i \in SlotIndex :
          /\ slots[i] = invalid_thread
          /\ \A j \in SlotIndex : j < i => slots[j] # invalid_thread
          /\ slots' = [slots EXCEPT ![i] = t]
    /\ state' = [state EXCEPT ![t] = s]
    /\ partner' = [partner EXCEPT ![t] = invalid_thread]
    /\ wake' = [wake EXCEPT ![t] = "none"]
    /\ base' = [base EXCEPT ![t] = p]

create_thread(t, p) == occupy_slot(t, p, "ready")

create_admitted_thread(t, p) == occupy_slot(t, p, "admitted")

start_thread(t) ==
    /\ state[t] = "admitted"
    /\ state' = [state EXCEPT ![t] = "ready"]
    /\ UNCHANGED <<partner, wake, base, slots>>

\* Forgets the callers whose request was already accepted.
Bug_waiting_on(t) ==
    {o \in ThreadId \ {t} :
        state[o] \in {"send_blocked", "receive_blocked"} /\ partner[o] = t}

\* The threads exit_thread(t) releases.
waiting_on(t) ==
    {o \in ThreadId \ {t} :
        /\ state[o] \in {"send_blocked", "reply_blocked", "receive_blocked"}
        /\ partner[o] = t}

exit_thread(t) ==
    /\ find(t)
    /\ state' = [o \in ThreadId |->
                    IF o = t THEN "exited"
                    ELSE IF o \in waiting_on(t) THEN "ready" ELSE state[o]]
    /\ partner' = [o \in ThreadId |->
                    IF o = t \/ o \in waiting_on(t)
                    THEN invalid_thread ELSE partner[o]]
    /\ wake' = [o \in ThreadId |->
                    IF o = t THEN "none"
                    ELSE IF o \in waiting_on(t) THEN "peer_exited" ELSE wake[o]]
    /\ slots' = [i \in SlotIndex |->
                    IF slots[i] = t THEN invalid_thread ELSE slots[i]]
    /\ UNCHANGED base

(***************************************************************************)
(* Precise primitives used by endpoint-addressed IPC.                      *)
(***************************************************************************)
block_send(from, to) ==
    /\ from # to
    /\ find(from) /\ find(to)
    /\ state[from] = "ready"
    /\ state' = [state EXCEPT ![from] = "send_blocked"]
    /\ partner' = [partner EXCEPT ![from] = to]
    /\ wake' = [wake EXCEPT ![from] = "none"]
    /\ UNCHANGED <<base, slots>>

wait_receive(self) ==
    /\ find(self)
    /\ state[self] = "ready"
    /\ partner[self] = invalid_thread
    /\ state' = [state EXCEPT ![self] = "receive_blocked"]
    /\ wake' = [wake EXCEPT ![self] = "none"]
    /\ UNCHANGED <<partner, base, slots>>

\* receive_blocked with nobody delivered: the only receivers that may be woken.
receive_waiting_thread(t) ==
    find(t) /\ state[t] = "receive_blocked" /\ partner[t] = invalid_thread

deliver_waiting_receiver(from, to) ==
    /\ from # to
    /\ find(from)
    /\ state[from] = "ready"
    /\ receive_waiting_thread(to)
    /\ state' = [state EXCEPT ![from] = "reply_blocked", ![to] = "ready"]
    /\ partner' = [partner EXCEPT ![from] = to, ![to] = from]
    /\ wake' = [wake EXCEPT ![from] = "none"]
    /\ UNCHANGED <<base, slots>>

accept_sender(self, caller) ==
    /\ self # caller
    /\ find(self) /\ find(caller)
    /\ state[self] = "ready"
    /\ state[caller] = "send_blocked" /\ partner[caller] = self
    /\ state' = [state EXCEPT ![caller] = "reply_blocked"]
    /\ wake' = [wake EXCEPT ![self] = "none"]
    /\ UNCHANGED <<partner, base, slots>>

\* Hands over the delivered caller without forgetting it.
Bug_take_delivered(self) ==
    /\ find(self)
    /\ state[self] = "ready"
    /\ partner[self] # invalid_thread
    /\ wake' = [wake EXCEPT ![self] = "none"]
    /\ UNCHANGED <<state, partner, base, slots>>

\* The first branch of receive(): hand over the caller already delivered.
take_delivered(self) ==
    /\ find(self)
    /\ state[self] = "ready"
    /\ partner[self] # invalid_thread
    /\ partner' = [partner EXCEPT ![self] = invalid_thread]
    /\ wake' = [wake EXCEPT ![self] = "none"]
    /\ UNCHANGED <<state, base, slots>>

wake_receiver(self, reason) ==
    /\ receive_waiting_thread(self)
    /\ state' = [state EXCEPT ![self] = "ready"]
    /\ wake' = [wake EXCEPT ![self] = reason]
    /\ UNCHANGED <<partner, base, slots>>

cancel_receive(self) == wake_receiver(self, "endpoint_retired")

expire_receive(self) == wake_receiver(self, "deadline_expired")

take_deadline_expiry(self) ==
    /\ find(self)
    /\ wake[self] = "deadline_expired"
    /\ wake' = [wake EXCEPT ![self] = "none"]
    /\ UNCHANGED <<state, partner, base, slots>>

\* Wakes the caller without checking that its request was ever accepted.
Bug_reply(self, caller) ==
    /\ find(self) /\ find(caller)
    /\ partner[caller] = self
    /\ state' = [state EXCEPT ![caller] = "ready"]
    /\ partner' = [partner EXCEPT ![caller] = invalid_thread]
    /\ wake' = [wake EXCEPT ![caller] = "replied"]
    /\ UNCHANGED <<base, slots>>

reply(self, caller) ==
    /\ self # caller
    /\ find(self) /\ find(caller)
    /\ state[caller] = "reply_blocked" /\ partner[caller] = self
    /\ state' = [state EXCEPT ![caller] = "ready"]
    /\ partner' = [partner EXCEPT ![caller] = invalid_thread]
    /\ wake' = [wake EXCEPT ![caller] = "replied"]
    /\ UNCHANGED <<base, slots>>

cancel_call(caller, server) ==
    /\ find(caller) /\ find(server)
    /\ caller \in callers_of(server)
    /\ state' = [state EXCEPT ![caller] = "ready"]
    /\ partner' =
          [o \in ThreadId |->
             IF \/ o = caller
                \/ o = server /\ state[server] = "ready" /\ partner[server] = caller
             THEN invalid_thread ELSE partner[o]]
    /\ wake' = [wake EXCEPT ![caller] = "endpoint_retired"]
    /\ UNCHANGED <<base, slots>>

(***************************************************************************)
(* The thread-addressed wrappers.                                          *)
(***************************************************************************)
send(from, to) ==
    IF receive_waiting_thread(to)
    THEN deliver_waiting_receiver(from, to)
    ELSE block_send(from, to)

\* The send-blocked caller of self in the lowest slot.
first_sender(self, caller) ==
    \E i \in SlotIndex :
        /\ slots[i] = caller
        /\ state[caller] = "send_blocked" /\ partner[caller] = self
        /\ \A j \in SlotIndex :
              j < i /\ slots[j] # invalid_thread =>
                 ~(state[slots[j]] = "send_blocked" /\ partner[slots[j]] = self)

receive(self) ==
    \/ take_delivered(self)
    \/ /\ partner[self] = invalid_thread
       /\ \E caller \in ThreadId :
             first_sender(self, caller) /\ accept_sender(self, caller)
    \/ /\ \A o \in ThreadId : ~(state[o] = "send_blocked" /\ partner[o] = self)
       /\ wait_receive(self)

-----------------------------------------------------------------------------
Next ==
    \/ \E t \in ThreadId, p \in Priority :
          create_thread(t, p) \/ create_admitted_thread(t, p)
    \/ \E t \in ThreadId :
          \/ start_thread(t)
          \/ exit_thread(t)
          \/ receive(t)
          \/ cancel_receive(t)
          \/ expire_receive(t)
          \/ take_deadline_expiry(t)
    \/ \E t, u \in ThreadId :
          send(t, u) \/ reply(t, u) \/ cancel_call(t, u)

Spec == Init /\ [][Next]_rvars

-----------------------------------------------------------------------------
(***************************************************************************)
(* Properties.                                                             *)
(***************************************************************************)

\* Every field holds a value of its C++ type.
TypeOK ==
    /\ state \in [ThreadId -> ThreadState]
    /\ partner \in [ThreadId -> OptThread]
    /\ wake \in [ThreadId -> WakeReason]
    /\ base \in [ThreadId -> Priority]
    /\ slots \in [SlotIndex -> OptThread]

\* find() searches the slot array: an identity resolves exactly when one slot,
\* and only one, holds it, however often identities are destroyed and reused.
SlotTableExact ==
    \A t \in ThreadId :
        /\ find(t) <=> \E i \in SlotIndex : slots[i] = t
        /\ \A i, j \in SlotIndex : slots[i] = t /\ slots[j] = t => i = j

\* Nobody waits for a thread that does not exist: a caller blocked in send or
\* awaiting a reply always names a live peer other than itself, across exits
\* and the reuse of identities (exit_thread must release every waiter).
NoOrphanWait ==
    \A t \in ThreadId :
        state[t] \in {"send_blocked", "reply_blocked"} =>
            partner[t] # t /\ find(partner[t])

\* A blocked thread carries nothing over from before it blocked: no wake reason
\* that a later wakeup could be mistaken for, and, in a receive, no peer, which
\* is what makes it eligible for delivery, cancellation and expiry.
BlockedThreadIsClean ==
    \A t \in ThreadId :
        /\ state[t] \in {"send_blocked", "reply_blocked", "receive_blocked"}
              => wake[t] = "none"
        /\ state[t] = "receive_blocked" => partner[t] = invalid_thread

\* What a step may do to a blocked thread t it makes ready.
ExplainedWake(t) ==
    /\ state[t] \in {"send_blocked", "reply_blocked", "receive_blocked"}
    /\ state'[t] = "ready"
    => /\ wake'[t] = "replied" => state[t] = "reply_blocked"
       /\ wake'[t] = "peer_exited" =>
             state[t] # "receive_blocked" /\ state'[partner[t]] = "exited"
       /\ wake'[t] = "deadline_expired" => state[t] = "receive_blocked"
       /\ wake'[t] = "none" =>
             /\ state[t] = "receive_blocked"
             /\ partner'[t] \in ThreadId
             /\ state'[partner'[t]] = "reply_blocked"
             /\ partner'[partner'[t]] = t

EveryWakeExplained == \A t \in ThreadId : ExplainedWake(t)

\* A thread leaves a blocked state only for a reason that is true, and the
\* recorded wake reason is that reason: "replied" only after acceptance,
\* "peer_exited" only when the peer it waited on is gone, no reason at all only
\* for a receiver who was handed a caller that now awaits its reply.
WakesExplained == [][EveryWakeExplained]_rvars

=============================================================================
