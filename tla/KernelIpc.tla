----------------------------- MODULE KernelIpc ------------------------------
(***************************************************************************)
(* Endpoint IPC as the composed kernel runs it: the rendezvous, the        *)
(* endpoint, pending-call, reply-seal and completed-reply tables           *)
(* (ipc_endpoint.cpp), the continuations of blocked system calls           *)
(* (ipc_continuation.cpp), the scheduler's cached view of every thread     *)
(* (kernel.cpp) and the machine layer that issues a call for the running   *)
(* thread and completes it when the thread is next switched to             *)
(* (aarch64_ipc_syscall.cpp, aarch64_boot.cpp).                            *)
(*                                                                         *)
(* One processor runs each kernel entry to completion with interrupts      *)
(* masked, so an entry is one action.  A refused call changes nothing and  *)
(* is an action that is not enabled.  Which thread holds which endpoint    *)
(* capability is left open: any thread may send to any endpoint.  Envelope *)
(* bytes are left out.  A transaction number only names a reply slot, is   *)
(* never reused, and a number that names no slot is refused, so a reply is *)
(* modelled by the slot it finds.  The address space a continuation was    *)
(* armed in is taken to be alive when the continuation is taken.           *)
(***************************************************************************)
EXTENDS Rendezvous

CONSTANTS
    Server,          \* threads for which endpoints are created
    Mortal,          \* threads destroy_thread may be called on
    Retirable,       \* whether retire_ipc_endpoint is ever called
    Bounded,         \* the kinds of receive: {FALSE} no deadlines, BOOLEAN both
    MaxEndpoints,    \* max_ipc_endpoints
    MaxGeneration    \* the largest IpcEndpointGeneration

ASSUME KernelIpcAssumption ==
    /\ Server \subseteq ThreadId /\ Mortal \subseteq ThreadId
    /\ Retirable \in BOOLEAN /\ Bounded \subseteq BOOLEAN
    /\ MaxEndpoints \in Nat /\ MaxGeneration \in Nat

VARIABLES
    endpoints,   \* endpoints_: server, generation, active, receive_waiting
    pending,     \* pending_: calls sent and not yet replied, by slot
    replies,     \* replies_: calls handed to a server and not yet replied
    completed,   \* completed_: callers with an uncollected reply
    send_armed,  \* callers whose send continuation is armed
    recv_armed,  \* the armed receive continuation of each thread
    runqueue,    \* the scheduler's entry for each thread
    current,     \* the thread in user mode; invalid_thread inside the kernel
    fault        \* which completion the machine layer had to give up on

ipcvars == <<endpoints, pending, replies, completed>>
contvars == <<send_armed, recv_armed>>
kvars == <<rvars, ipcvars, contvars, runqueue, current, fault>>

EndpointSlot == 1..MaxEndpoints
Endpoint == [slot : EndpointSlot, generation : 1..MaxGeneration]
NoEndpoint == [slot |-> 0, generation |-> 0]
Call == [caller : ThreadId, server : ThreadId, endpoint : Endpoint]
NoCall == [caller |-> invalid_thread, server |-> invalid_thread,
           endpoint |-> NoEndpoint]
NotArmed == [endpoint |-> NoEndpoint, bounded |-> FALSE]
NotQueued(p) == [queued |-> FALSE, runnable |-> FALSE, priority |-> p]

KInit ==
    /\ Init
    /\ endpoints = [s \in EndpointSlot |->
          [server |-> invalid_thread, generation |-> 0,
           active |-> FALSE, receive_waiting |-> FALSE]]
    /\ pending = [i \in SlotIndex |-> NoCall]
    /\ replies = [i \in SlotIndex |-> NoCall]
    /\ completed = {}
    /\ send_armed = {}
    /\ recv_armed = [t \in ThreadId |-> NotArmed]
    /\ runqueue = [t \in ThreadId |-> NotQueued(base[t])]
    /\ current = invalid_thread
    /\ fault = "none"

(***************************************************************************)
(* Lookups.                                                                *)
(***************************************************************************)
slot_for(e) ==
    /\ e \in Endpoint
    /\ endpoints[e.slot].active /\ endpoints[e.slot].generation = e.generation

active_endpoints == {e \in Endpoint : slot_for(e)}
owner(e) == endpoints[e.slot].server
receive_waiting(e) == slot_for(e) /\ endpoints[e.slot].receive_waiting
owned_by(t) == {e \in active_endpoints : owner(e) = t}

first(P(_), i) == i \in SlotIndex /\ P(i) /\ \A j \in SlotIndex : j < i => ~P(j)

\* The pending call of this caller on this endpoint, in slot order.
pending_of(c, e, i) ==
    first(LAMBDA j : pending[j].endpoint = e /\ pending[j].caller = c, i)

\* The pending call this endpoint would serve next: slot order, accepted or not.
next_pending(e, i) == first(LAMBDA j : pending[j].endpoint = e, i)

\* The seal of this transaction, if it was handed to this server.
reply_slot(t, k) == replies[k].server = t

free_pending(i) == first(LAMBDA j : pending[j] = NoCall, i)
free_reply(i) == first(LAMBDA j : replies[j] = NoCall, i)

(***************************************************************************)
(* Continuations.                                                          *)
(***************************************************************************)
receive_armed(t) == recv_armed[t] # NotArmed
disarmed(t) == [recv_armed EXCEPT ![t] = NotArmed]

arm(t) == t \notin send_armed /\ send_armed' = send_armed \cup {t}
take(t) == t \in send_armed /\ send_armed' = send_armed \ {t}

arm_receive(t, e, bounded) ==
    /\ ~receive_armed(t)
    /\ recv_armed' = [recv_armed EXCEPT ![t] = [endpoint |-> e, bounded |-> bounded]]

take_receive(t) == receive_armed(t) /\ recv_armed' = disarmed(t)

\* A deadline may have passed at any moment after it was armed.
take_expired_receive(t) == recv_armed[t].bounded /\ recv_armed' = disarmed(t)

release_continuations(t) == send_armed' = send_armed \ {t} /\ recv_armed' = disarmed(t)

(***************************************************************************)
(* The scheduler's cache.                                                  *)
(***************************************************************************)
entry(t) ==
    [queued |-> TRUE, runnable |-> state[t] = "ready",
     priority |-> inherited_priority(t)]

\* Recomputes only the running thread's entry.
Bug_synchronise(S) ==
    runqueue' = [t \in ThreadId |->
        IF t \in S \cap {current} /\ runqueue[t].queued /\ find(t)' THEN entry(t)'
        ELSE runqueue[t]]

\* synchronise_thread for each thread of S, after the rendezvous has changed.
synchronise(S) ==
    runqueue' = [t \in ThreadId |->
        IF t \in S /\ runqueue[t].queued /\ find(t)' THEN entry(t)'
        ELSE runqueue[t]]

(***************************************************************************)
(* Threads.                                                                *)
(***************************************************************************)
admit_to_runqueue(t) ==
    runqueue' = [runqueue EXCEPT ![t] = entry(t)']

kernel_create_thread(t, p) ==
    /\ create_thread(t, p)
    /\ admit_to_runqueue(t)
    /\ UNCHANGED <<ipcvars, contvars, current, fault>>

kernel_create_admitted_thread(t, p) ==
    /\ create_admitted_thread(t, p)
    /\ admit_to_runqueue(t)
    /\ UNCHANGED <<ipcvars, contvars, current, fault>>

thread_start(t) ==
    /\ start_thread(t)
    /\ synchronise({t})
    /\ UNCHANGED <<ipcvars, contvars, current, fault>>

\* The endpoints of t that retire() accepts: one it claims to be waiting on is
\* retired only if the rendezvous agrees.
retired_with(t) ==
    {e \in owned_by(t) : receive_waiting(e) => receive_waiting_thread(t)}

retire_slots(E) ==
    endpoints' = [s \in EndpointSlot |->
        IF \E e \in E : e.slot = s
        THEN [endpoints[s] EXCEPT !.server = invalid_thread, !.active = FALSE,
                                  !.receive_waiting = FALSE]
        ELSE endpoints[s]]

\* Callers whose pending call on an endpoint of E cancel_call really releases.
cancelled_by(E) ==
    {c \in ThreadId : \E i \in SlotIndex :
        /\ pending[i].caller = c /\ pending[i].endpoint \in E
        /\ c \in callers_of(pending[i].server)}

drop_calls(calls, gone) ==
    [i \in SlotIndex |-> IF i \in gone THEN NoCall ELSE calls[i]]

\* Forgets the seals of retired endpoints and the dead thread's own call.
Bug_release_thread(t, E) ==
    /\ retire_slots(E)
    /\ pending' = drop_calls(pending, {i \in SlotIndex : pending[i].endpoint \in E})
    /\ completed' = completed \ {t}
    /\ UNCHANGED replies

release_thread(t, E) ==
    /\ retire_slots(E)
    /\ pending' = drop_calls(pending, {i \in SlotIndex :
          pending[i].endpoint \in E \/ pending[i].caller = t})
    /\ replies' = drop_calls(replies, {i \in SlotIndex :
          replies[i].endpoint \in E \/ t \in {replies[i].caller, replies[i].server}})
    /\ completed' = completed \ {t}

\* Continuations, IPC tables, rendezvous, run queue, then a full synchronise.
\* Callers whose pending call is cancelled first see endpoint_retired, anyone
\* else still waiting on t sees peer_exited.
destroy_thread(t) ==
    LET E == retired_with(t)
        released == waiting_on(t) \cup cancelled_by(E)
    IN
    /\ find(t)
    /\ state' = [o \in ThreadId |->
                    IF o = t THEN "exited"
                    ELSE IF o \in released THEN "ready" ELSE state[o]]
    /\ partner' = [o \in ThreadId |->
                    IF o \in released \cup {t} THEN invalid_thread ELSE partner[o]]
    /\ wake' = [o \in ThreadId |->
                    IF o = t THEN "none"
                    ELSE IF o \in cancelled_by(E) THEN "endpoint_retired"
                    ELSE IF o \in released THEN "peer_exited" ELSE wake[o]]
    /\ slots' = [i \in SlotIndex |->
                    IF slots[i] = t THEN invalid_thread ELSE slots[i]]
    /\ UNCHANGED base
    /\ release_thread(t, E)
    /\ release_continuations(t)
    /\ runqueue' = [o \in ThreadId |->
                    IF o = t THEN NotQueued(base[t])
                    ELSE IF find(o)' THEN entry(o)' ELSE runqueue[o]]
    /\ current' = IF current = t THEN invalid_thread ELSE current
    /\ UNCHANGED fault

(***************************************************************************)
(* Endpoints.                                                              *)
(***************************************************************************)
usable(s) == ~endpoints[s].active /\ endpoints[s].generation < MaxGeneration

create_ipc_endpoint(t) ==
    /\ find(t)
    /\ \E s \in EndpointSlot :
          /\ usable(s)
          /\ \A r \in EndpointSlot : r < s => ~usable(r)
          /\ endpoints' = [endpoints EXCEPT ![s] =
                [server |-> t, generation |-> @.generation + 1,
                 active |-> TRUE, receive_waiting |-> FALSE]]
    /\ UNCHANGED <<rvars, pending, replies, completed, contvars, runqueue,
                   current, fault>>

\* The owner's blocked receive is cancelled together with its continuation; the
\* pending callers are released but keep their send continuations.
retire_ipc_endpoint(t, e) ==
    LET released == cancelled_by({e}) \cup (IF receive_waiting(e) THEN {t} ELSE {})
    IN
    /\ e \in retired_with(t)
    /\ retire_slots({e})
    /\ state' = [o \in ThreadId |-> IF o \in released THEN "ready" ELSE state[o]]
    /\ partner' = [o \in ThreadId |->
          IF \/ o \in released
             \/ o = t /\ state[t] = "ready" /\ partner[t] \in cancelled_by({e})
          THEN invalid_thread ELSE partner[o]]
    /\ wake' = [o \in ThreadId |->
          IF o \in released THEN "endpoint_retired" ELSE wake[o]]
    /\ UNCHANGED <<base, slots>>
    /\ pending' = drop_calls(pending, {i \in SlotIndex : pending[i].endpoint = e})
    /\ replies' = drop_calls(replies, {i \in SlotIndex : replies[i].endpoint = e})
    /\ recv_armed' = IF receive_waiting(e) THEN disarmed(t) ELSE recv_armed
    /\ synchronise(Live)
    /\ UNCHANGED <<completed, send_armed, current, fault>>

(***************************************************************************)
(* System calls of the running thread, aarch64_ipc_syscall.cpp.            *)
(***************************************************************************)
\* Delivers to the waiting receiver without clearing the endpoint's flag.
Bug_send_to_endpoint(c, e) ==
    /\ c \notin completed
    /\ slot_for(e)
    /\ IF receive_waiting(e)
       THEN deliver_waiting_receiver(c, owner(e))
       ELSE block_send(c, owner(e))
    /\ \E i \in SlotIndex :
          /\ free_pending(i)
          /\ pending' = [pending EXCEPT ![i] =
                [caller |-> c, server |-> owner(e), endpoint |-> e]]
    /\ UNCHANGED <<endpoints, replies, completed>>

send_to_endpoint(c, e) ==
    /\ c \notin completed
    /\ slot_for(e)
    /\ IF receive_waiting(e)
       THEN deliver_waiting_receiver(c, owner(e))
       ELSE block_send(c, owner(e))
    /\ endpoints' = [endpoints EXCEPT ![e.slot].receive_waiting = FALSE]
    /\ \E i \in SlotIndex :
          /\ free_pending(i)
          /\ pending' = [pending EXCEPT ![i] =
                [caller |-> c, server |-> owner(e), endpoint |-> e]]
    /\ UNCHANGED <<replies, completed>>

svc_send(e) ==
    /\ current \in ThreadId
    /\ arm(current)
    /\ send_to_endpoint(current, e)
    /\ synchronise(Live)
    /\ current' = invalid_thread
    /\ UNCHANGED <<recv_armed, fault>>

may_receive(t, e) == slot_for(e) /\ owner(e) = t /\ ~receive_waiting(e)

mint_seal(i) ==
    \E k \in SlotIndex :
        /\ free_reply(k)
        /\ replies' = [replies EXCEPT ![k] = pending[i]]

\* receive_from_endpoint with a call to hand over: the one already delivered,
\* otherwise the first pending one, which must still be waiting to be accepted.
receive_call(t, e) ==
    /\ may_receive(t, e)
    /\ \E i \in SlotIndex :
          /\ IF partner[t] # invalid_thread
             THEN pending_of(partner[t], e, i) /\ take_delivered(t)
             ELSE next_pending(e, i) /\ accept_sender(t, pending[i].caller)
          /\ mint_seal(i)
          /\ synchronise({t, pending[i].caller})
    /\ UNCHANGED <<endpoints, pending, completed>>

svc_receive_now(e) ==
    /\ current \in ThreadId /\ ~receive_armed(current)
    /\ receive_call(current, e)
    /\ UNCHANGED <<contvars, current, fault>>

svc_receive_wait(e, bounded) ==
    /\ current \in ThreadId
    /\ may_receive(current, e)
    /\ \A i \in SlotIndex : pending[i].endpoint # e
    /\ wait_receive(current)
    /\ endpoints' = [endpoints EXCEPT ![e.slot].receive_waiting = TRUE]
    /\ arm_receive(current, e, bounded)
    /\ synchronise({current})
    /\ current' = invalid_thread
    /\ UNCHANGED <<pending, replies, completed, send_armed, fault>>

\* Leaves the pending call in its slot after it has been answered.
Bug_svc_reply(k) ==
    /\ current \in ThreadId
    /\ reply_slot(current, k)
    /\ slot_for(replies[k].endpoint) /\ owner(replies[k].endpoint) = current
    /\ replies[k].caller \notin completed
    /\ reply(current, replies[k].caller)
    /\ completed' = completed \cup {replies[k].caller}
    /\ replies' = [replies EXCEPT ![k] = NoCall]
    /\ synchronise(Live)
    /\ current' = invalid_thread
    /\ UNCHANGED <<endpoints, pending, contvars, fault>>

svc_reply(k) ==
    /\ current \in ThreadId
    /\ reply_slot(current, k)
    /\ slot_for(replies[k].endpoint) /\ owner(replies[k].endpoint) = current
    /\ replies[k].caller \notin completed
    /\ reply(current, replies[k].caller)
    /\ \E i \in SlotIndex :
          /\ pending_of(replies[k].caller, replies[k].endpoint, i)
          /\ pending' = [pending EXCEPT ![i] = NoCall]
    /\ completed' = completed \cup {replies[k].caller}
    /\ replies' = [replies EXCEPT ![k] = NoCall]
    /\ synchronise(Live)
    /\ current' = invalid_thread
    /\ UNCHANGED <<endpoints, contvars, fault>>

(***************************************************************************)
(* The timer, and the switch that completes a blocked call.                *)
(***************************************************************************)
\* The timer interrupts user mode; a receiver that is no longer waiting stops the
\* machine.
ipc_expire_one_receive(t) ==
    /\ current \in ThreadId
    /\ take_expired_receive(t)
    /\ current' = invalid_thread
    /\ \/ expire_receive(t) /\ UNCHANGED fault
       \/ ~receive_waiting_thread(t) /\ fault' = "expiry" /\ UNCHANGED rvars
    /\ UNCHANGED <<ipcvars, send_armed, runqueue>>

\* The scheduler's choice: strict priority, any of the equals.
may_run(t) ==
    /\ runqueue[t].runnable
    /\ \A u \in ThreadId : runqueue[u].runnable =>
          runqueue[u].priority <= runqueue[t].priority

deliverable(t, e) ==
    /\ may_receive(t, e)
    /\ \E i \in SlotIndex :
          IF partner[t] # invalid_thread THEN pending_of(partner[t], e, i)
          ELSE /\ next_pending(e, i)
               /\ pending[i].caller \in callers_of(t)
               /\ state[pending[i].caller] = "send_blocked"

\* Completes the receive but leaves its continuation armed.
Bug_complete_receive(t) ==
    /\ wake[t] # "deadline_expired"
    /\ receive_armed(t)
    /\ receive_call(t, recv_armed[t].endpoint)
    /\ UNCHANGED <<contvars, fault>>

complete_receive(t) ==
    LET e == recv_armed[t].endpoint IN
    /\ wake[t] # "deadline_expired"
    /\ take_receive(t)
    /\ \/ receive_call(t, e) /\ UNCHANGED fault
       \/ /\ ~deliverable(t, e)
          /\ fault' = "completion"
          /\ UNCHANGED <<rvars, ipcvars, runqueue>>
    /\ UNCHANGED send_armed

complete_reply(t) ==
    /\ wake[t] # "deadline_expired"
    /\ ~receive_armed(t)
    /\ t \in completed
    /\ completed' = completed \ {t}
    /\ IF t \in send_armed THEN take(t) /\ UNCHANGED fault
       ELSE fault' = "completion" /\ UNCHANGED send_armed
    /\ UNCHANGED <<rvars, endpoints, pending, replies, recv_armed, runqueue>>

complete_expiry(t) ==
    /\ take_deadline_expiry(t)
    /\ UNCHANGED <<ipcvars, contvars, runqueue, fault>>

nothing_to_complete(t) ==
    /\ wake[t] # "deadline_expired" /\ ~receive_armed(t)
    /\ t \notin completed
    /\ UNCHANGED <<rvars, ipcvars, contvars, runqueue, fault>>

\* A scheduling decision: complete_after_switch runs whoever was chosen.
switch_to(t) ==
    /\ may_run(t)
    /\ current' = t
    /\ \/ complete_expiry(t)
       \/ complete_receive(t)
       \/ complete_reply(t)
       \/ nothing_to_complete(t)

-----------------------------------------------------------------------------
KNext ==
    /\ fault = "none"
    /\ \/ \E t \in ThreadId, p \in Priority :
             kernel_create_thread(t, p) \/ kernel_create_admitted_thread(t, p)
       \/ \E t \in ThreadId :
             thread_start(t) \/ switch_to(t) \/ ipc_expire_one_receive(t)
       \/ \E t \in Mortal : destroy_thread(t)
       \/ \E t \in Server : create_ipc_endpoint(t)
       \/ Retirable /\ \E e \in Endpoint : retire_ipc_endpoint(owner(e), e)
       \/ \E e \in Endpoint :
             \/ svc_send(e) \/ svc_receive_now(e)
             \/ \E b \in Bounded : svc_receive_wait(e, b)
       \/ \E k \in SlotIndex : svc_reply(k)

KSpec == KInit /\ [][KNext]_kvars

-----------------------------------------------------------------------------
(***************************************************************************)
(* Properties.                                                             *)
(***************************************************************************)
OptCall == Call \cup {NoCall}

\* Every table holds values of its C++ type.
KTypeOK ==
    /\ TypeOK
    /\ endpoints \in [EndpointSlot ->
          [server : OptThread, generation : 0..MaxGeneration,
           active : BOOLEAN, receive_waiting : BOOLEAN]]
    /\ pending \in [SlotIndex -> OptCall]
    /\ replies \in [SlotIndex -> OptCall]
    /\ completed \subseteq ThreadId
    /\ send_armed \subseteq ThreadId
    /\ recv_armed \in [ThreadId ->
          [endpoint : Endpoint, bounded : BOOLEAN] \cup {NotArmed}]
    /\ runqueue \in [ThreadId ->
          [queued : BOOLEAN, runnable : BOOLEAN, priority : Priority]]
    /\ current \in OptThread
    /\ fault \in {"none", "expiry", "completion"}

\* The scheduler's cache is the rendezvous' truth after every operation: a
\* thread may be chosen exactly when it is ready, at its inherited priority.
RunqueueMirrorsRendezvous ==
    \A t \in ThreadId :
        runqueue[t] = IF find(t) THEN entry(t) ELSE NotQueued(base[t])

\* A server never runs below a caller that is blocked on it, whether the call is
\* queued or accepted: priority inheritance reaches the run queue.
CallerPriorityIsLent ==
    \A c \in ThreadId :
        state[c] \in {"send_blocked", "reply_blocked"} =>
            runqueue[partner[c]].priority >= base[c]

\* An endpoint flagged receive_waiting has its owner blocked in a receive, with
\* the continuation that will complete that receive armed for this endpoint; the
\* flag is what makes send_to_endpoint choose delivery over queueing.
WaitingEndpointHasReceiver ==
    \A e \in active_endpoints :
        receive_waiting(e) =>
            /\ receive_waiting_thread(owner(e))
            /\ recv_armed[owner(e)].endpoint = e

\* A thread blocked in a call has exactly one pending entry, naming the live
\* thread it waits on as the owner of a live endpoint, and a continuation to
\* complete the call with; and no entry outlives the block it describes.
BlockedCallersArePending ==
    /\ \A t \in ThreadId :
          state[t] \in {"send_blocked", "reply_blocked"} =>
             /\ t \in send_armed
             /\ \E i \in SlotIndex : pending[i].caller = t
    /\ \A i, j \in SlotIndex :
          pending[i] # NoCall =>
             /\ pending[i].caller \in callers_of(pending[i].server)
             /\ slot_for(pending[i].endpoint)
             /\ owner(pending[i].endpoint) = pending[i].server
             /\ pending[j].caller = pending[i].caller => i = j

\* The endpoint table, the pending calls and the continuations say of every
\* blocked thread what the rendezvous says of it, for receivers and for callers.
IpcTablesAgree == WaitingEndpointHasReceiver /\ BlockedCallersArePending

\* A server that was handed a call can answer it: every reply seal names a
\* pending call whose caller is still waiting for exactly this server's reply,
\* and no call is handed over twice.
SealsAreHonourable ==
    \A k, l \in SlotIndex :
        replies[k] # NoCall =>
            /\ \E i \in SlotIndex : pending[i] = replies[k]
            /\ state[replies[k].caller] = "reply_blocked"
            /\ replies[k].caller \notin completed
            /\ replies[l].caller = replies[k].caller => k = l

\* The running thread has no half-finished call: it is ready, holds no
\* delivered message it has not been given, and has nothing left to complete.
RunningThreadIsComplete ==
    fault = "none" /\ current # invalid_thread =>
        /\ state[current] = "ready"
        /\ partner[current] = invalid_thread
        /\ recv_armed[current] = NotArmed
        /\ current \notin completed

\* A thread that no longer exists is in no table: it owns no endpoint, calls
\* nobody, holds no seal or reply, has no continuation, and is neither queued nor
\* running.
DeathReachesEveryTable ==
    \A t \in ThreadId \ Live :
        /\ owned_by(t) = {}
        /\ \A i \in SlotIndex :
              t \notin {pending[i].caller, pending[i].server,
                        replies[i].caller, replies[i].server}
        /\ t \notin completed \cup send_armed
        /\ recv_armed[t] = NotArmed
        /\ ~runqueue[t].queued
        /\ current # t

\* A call is handed over, answered and completed as one: seals can be honoured
\* and the running thread has nothing half finished.
CallsAreWhole == SealsAreHonourable /\ RunningThreadIsComplete

\* The kernel's tables tell one story, over well typed values: dead threads are
\* in none of them, endpoints, pending calls and continuations agree with the
\* rendezvous, and the run queue caches what the rendezvous says.
TablesAgree ==
    /\ KTypeOK
    /\ DeathReachesEveryTable /\ IpcTablesAgree /\ RunqueueMirrorsRendezvous

=============================================================================
