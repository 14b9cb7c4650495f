------------------------ MODULE KernelPendingProofs -------------------------
(***************************************************************************)
(* Proofs about the pending calls of the kernel (KernelIpc): PInv adds to  *)
(* the invariant of KernelProofs that blocked callers and pending calls    *)
(* name each other.  It survives everything but a death.                   *)
(***************************************************************************)
EXTENDS KernelProofs

\* Every blocked caller has its entry and its continuation, and every entry its
\* blocked caller.
PInv == KInv /\ BlockedCallersArePending

Calling == {"send_blocked", "reply_blocked"}

\* The slot of an active endpoint names it.
LEMMA SlotNamesEndpoint ==
  ASSUME NEW e, NEW f, slot_for(e), slot_for(f), e.slot = f.slot
  PROVE  e = f
  BY DEF slot_for, Endpoint

\* A pending call's entry, unfolded.
LEMMA PendingCall ==
  ASSUME PInv, NEW i \in SlotIndex, pending[i].caller \in ThreadId
  PROVE  /\ pending[i] \in Call
         /\ pending[i].caller \in callers_of(pending[i].server)
         /\ slot_for(pending[i].endpoint) /\ owner(pending[i].endpoint) = pending[i].server
         /\ \A j \in SlotIndex : pending[j].caller = pending[i].caller => j = i
  <1>1. pending[i] # NoCall
    BY ThreadIdAssumption DEF NoCall, invalid_thread
  <1>2. pending[i] \in Call
    BY <1>1 DEF PInv, KInv, KTypeOK, OptCall
  <1>3. QED BY <1>1, <1>2 DEF PInv, BlockedCallersArePending

\* Steps that leave the pending calls, their callers and their endpoints alone.
LEMMA CallsKept ==
  ASSUME PInv, pending' = pending,
         \A x \in ThreadId : state'[x] \in Calling <=> state[x] \in Calling,
         \A x \in ThreadId : state[x] \in Calling =>
            partner'[x] = partner[x] /\ (x \in send_armed => x \in send_armed'),
         \A s \in EndpointSlot : endpoints[s].active =>
            /\ endpoints'[s].active /\ endpoints'[s].generation = endpoints[s].generation
            /\ endpoints'[s].server = endpoints[s].server
  PROVE  BlockedCallersArePending'
  <1>1. \A x \in ThreadId : state'[x] \in Calling =>
           x \in send_armed' /\ \E i \in SlotIndex : pending'[i].caller = x
    BY DEF PInv, BlockedCallersArePending, Calling
  <1>2. ASSUME NEW i \in SlotIndex, pending[i] # NoCall
        PROVE  /\ pending[i].caller \in callers_of(pending[i].server)'
               /\ slot_for(pending[i].endpoint)'
               /\ (owner(pending[i].endpoint))' = pending'[i].server
    <2>1. /\ pending[i].caller \in callers_of(pending[i].server)
          /\ slot_for(pending[i].endpoint) /\ owner(pending[i].endpoint) = pending[i].server
      BY <1>2 DEF PInv, BlockedCallersArePending
    <2>2. PICK c, s, e : c = pending[i].caller /\ s = pending[i].server /\ e = pending[i].endpoint
      BY Zenon
    <2>3. c \in callers_of(s)'
      BY <2>1, <2>2 DEF callers_of, Calling
    <2>4. slot_for(e)' /\ owner(e)' = s
      BY <2>1, <2>2 DEF slot_for, owner, Endpoint
    <2>5. QED BY <2>2, <2>3, <2>4
  <1>3. QED BY <1>1, <1>2 DEF PInv, BlockedCallersArePending, Calling

\* There are no calls and no callers to begin with.
LEMMA InitPInv == KInit => PInv
  BY InitKInv DEF PInv, BlockedCallersArePending, KInit, Init

\* Creating a thread starts no call.
LEMMA CreateCalls ==
  ASSUME PInv, NEW t \in ThreadId, NEW p \in Priority,
         kernel_create_thread(t, p) \/ kernel_create_admitted_thread(t, p)
  PROVE  BlockedCallersArePending'
  <1>1. PICK s \in {"ready", "admitted"} : occupy_slot(t, p, s)
    BY DEF kernel_create_thread, kernel_create_admitted_thread, create_thread,
           create_admitted_thread
  <1>2. UNCHANGED <<ipcvars, contvars, current, fault>>
    BY DEF kernel_create_thread, kernel_create_admitted_thread
  <1>3. /\ state' = [state EXCEPT ![t] = s] /\ partner' = [partner EXCEPT ![t] = invalid_thread]
        /\ state[t] = "exited"
        /\ state \in [ThreadId -> ThreadState] /\ partner \in [ThreadId -> OptThread]
    BY <1>1 DEF occupy_slot, find, PInv, KInv, RInv, TypeOK
  <1>4. QED BY <1>2, <1>3, CallsKept DEF Calling, ipcvars, contvars

\* Starting an admitted thread starts no call.
LEMMA StartCalls ==
  ASSUME PInv, NEW t \in ThreadId, thread_start(t)
  PROVE  BlockedCallersArePending'
  <1>1. /\ state' = [state EXCEPT ![t] = "ready"] /\ partner' = partner /\ state[t] = "admitted"
        /\ UNCHANGED <<ipcvars, contvars, current, fault>>
        /\ state \in [ThreadId -> ThreadState]
    BY DEF thread_start, start_thread, PInv, KInv, RInv, TypeOK
  <1>2. QED BY <1>1, CallsKept DEF Calling, ipcvars, contvars

\* A new endpoint takes an inactive slot, which no pending call names.
LEMMA CreateEndpointCalls ==
  ASSUME PInv, NEW t, create_ipc_endpoint(t)
  PROVE  BlockedCallersArePending'
  <1>1. PICK s \in EndpointSlot :
           /\ ~endpoints[s].active
           /\ endpoints' = [endpoints EXCEPT ![s] =
                [server |-> t, generation |-> @.generation + 1,
                 active |-> TRUE, receive_waiting |-> FALSE]]
    BY Zenon DEF create_ipc_endpoint, usable
  <1>2. \A r \in EndpointSlot : r # s => endpoints'[r] = endpoints[r]
    BY <1>1 DEF PInv, KInv, KTypeOK
  <1>3. UNCHANGED <<rvars, pending, contvars>>
    BY DEF create_ipc_endpoint
  <1>4. QED BY <1>1, <1>2, <1>3, CallsKept DEF rvars, contvars

\* What a send does to the rendezvous: the caller is parked on the endpoint's owner,
\* who is woken with it if the endpoint is flagged.
LEMMA SendEffect ==
  ASSUME KInv, NEW e \in Endpoint, svc_send(e)
  PROVE  /\ current \in ThreadId /\ owner(e) \in ThreadId /\ current # owner(e)
         /\ find(current) /\ find(owner(e)) /\ state[current] = "ready"
         /\ state'[current] = IF receive_waiting(e) THEN "reply_blocked" ELSE "send_blocked"
         /\ partner'[current] = owner(e) /\ wake'[current] = "none"
         /\ \A x \in ThreadId : x # current =>
               /\ wake'[x] = wake[x]
               /\ ~(x = owner(e) /\ receive_waiting(e)) =>
                     state'[x] = state[x] /\ partner'[x] = partner[x]
         /\ receive_waiting(e) =>
               /\ state[owner(e)] = "receive_blocked" /\ state'[owner(e)] = "ready"
               /\ partner'[owner(e)] = current
         /\ \A x \in ThreadId : find(x)' <=> find(x)
  <1> DEFINE c == current
             s == owner(e)
  <1>1. CASE receive_waiting(e)
    <2>1. deliver_waiting_receiver(c, s) /\ c \in ThreadId
      BY <1>1 DEF svc_send, send_to_endpoint
    <2>2. s \in ThreadId /\ find(c) /\ find(s)
      BY <2>1 DEF deliver_waiting_receiver, receive_waiting_thread, find
    <2>3. QED BY <1>1, <2>1, <2>2, DeliverEffect DEF KInv
  <1>2. CASE ~receive_waiting(e)
    <2>1. block_send(c, s) /\ c \in ThreadId
      BY <1>2 DEF svc_send, send_to_endpoint
    <2>2. QED BY <1>2, <2>1 DEF block_send, find, KInv, RInv, TypeOK
  <1>3. QED BY <1>1, <1>2

\* svc_send: the new entry is the caller's only one, because a caller that has one is
\* blocked.
LEMMA SendCalls ==
  ASSUME PInv, NEW e \in Endpoint, svc_send(e)
  PROVE  BlockedCallersArePending'
  <1> DEFINE c == current
             s == owner(e)
  <1>1. KInv'
    BY SendKInv DEF PInv
  <1>2. /\ c \in ThreadId /\ slot_for(e)
        /\ send_armed' = send_armed \cup {c} /\ current' = invalid_thread
        /\ recv_armed' = recv_armed /\ replies' = replies /\ completed' = completed
        /\ endpoints' = [endpoints EXCEPT ![e.slot].receive_waiting = FALSE]
    BY DEF svc_send, arm, send_to_endpoint
  <1>3. PICK i \in SlotIndex :
           /\ pending[i] = NoCall
           /\ pending' = [pending EXCEPT ![i] = [caller |-> c, server |-> s, endpoint |-> e]]
    BY Zenon DEF svc_send, send_to_endpoint, free_pending, first
  <1>4. /\ s \in ThreadId /\ c # s /\ find(c) /\ find(s) /\ state[c] = "ready"
        /\ state'[c] \in Calling /\ partner'[c] = s
        /\ \A x \in ThreadId : x # c /\ ~(x = s /\ receive_waiting(e)) =>
              state'[x] = state[x] /\ partner'[x] = partner[x]
        /\ receive_waiting(e) => state[s] = "receive_blocked" /\ state'[s] = "ready"
        /\ \A x \in ThreadId : find(x)' <=> find(x)
    BY SendEffect DEF PInv, Calling
  <1> HIDE DEF c, s
  <1>5. endpoints \in [EndpointSlot ->
          [server : OptThread, generation : 0..MaxGeneration,
           active : BOOLEAN, receive_waiting : BOOLEAN]]
    BY DEF PInv, KInv, KTypeOK
  <1>6. /\ \A r \in EndpointSlot :
              /\ endpoints'[r].active = endpoints[r].active
              /\ endpoints'[r].generation = endpoints[r].generation
              /\ endpoints'[r].server = endpoints[r].server
              /\ r # e.slot => endpoints'[r].receive_waiting = endpoints[r].receive_waiting
        /\ ~endpoints'[e.slot].receive_waiting
    <2>1. e.slot \in EndpointSlot
      BY DEF Endpoint
    <2>2. QED BY <1>2, <1>5, <2>1, Zenon
  <1>7. /\ \A f : slot_for(f)' <=> slot_for(f)
        /\ \A f \in Endpoint : owner(f)' = owner(f)
        /\ \A f \in Endpoint : receive_waiting(f)' => receive_waiting(f) /\ f # e
    BY <1>6 DEF slot_for, owner, receive_waiting, Endpoint
  <1>9. pending \in [SlotIndex -> OptCall]
    BY DEF PInv, KInv, KTypeOK
  <1>10. /\ \A j \in SlotIndex : j # i => pending'[j] = pending[j]
         /\ pending'[i].caller = c /\ pending'[i].server = s /\ pending'[i].endpoint = e
    BY <1>3, <1>9
  <1>11. \A j \in SlotIndex : pending[j].caller # c
    BY <1>2, <1>4, PendingCall DEF callers_of
  <1>12. ASSUME NEW j \in SlotIndex, pending'[j] # NoCall
         PROVE  /\ pending'[j].caller \in callers_of(pending[j].server)'
                /\ (slot_for(pending[j].endpoint))'
                /\ (owner(pending[j].endpoint))' = pending'[j].server
                /\ \A l \in SlotIndex : pending'[l].caller = pending'[j].caller => j = l
    <2>1. CASE j = i
      <3>1. c \in {o \in ThreadId \ {s} :
                     state'[o] \in {"send_blocked", "reply_blocked"} /\ partner'[o] = s}
        BY <1>2, <1>4 DEF Calling
      <3>2. pending'[j].caller \in callers_of(pending[j].server)'
        BY <1>10, <2>1, <3>1 DEF callers_of
      <3>3. (slot_for(pending[j].endpoint))' /\ (owner(pending[j].endpoint))' = s
        <4>1. pending'[j].endpoint = e
          BY <1>10, <2>1
        <4>2. slot_for(e)' /\ owner(e)' = s
          BY <1>2, <1>7 DEF s
        <4>3. QED BY <4>1, <4>2
      <3>4. QED BY <1>10, <1>11, <2>1, <3>2, <3>3
    <2>2. CASE j # i
      <3>1. pending'[j] = pending[j]
        BY <1>10, <2>2
      <3>2. PICK q \in Call : pending[j] = q /\ pending'[j] = q
        BY <1>9, <1>12, <3>1 DEF OptCall
      <3>3. q.caller \in ThreadId
        BY DEF Call
      <3>4. /\ q.caller \in callers_of(q.server) /\ slot_for(q.endpoint)
            /\ owner(q.endpoint) = q.server /\ q.endpoint \in Endpoint
            /\ \A l \in SlotIndex : pending[l].caller = q.caller => l = j
        BY <3>2, <3>3, PendingCall DEF Call
      <3>5. q.caller # c /\ (q.caller # s \/ ~receive_waiting(e))
        BY <1>4, <3>4 DEF callers_of
      <3>6. q.caller \in callers_of(q.server)'
        BY <1>4, <3>4, <3>5 DEF callers_of
      <3>7. slot_for(q.endpoint)' /\ owner(q.endpoint)' = q.server
        BY <1>7, <3>4
      <3>8. QED BY <1>10, <3>2, <3>4, <3>5, <3>6, <3>7
    <2>3. QED BY <2>1, <2>2
  <1>13. ASSUME NEW x \in ThreadId, state'[x] \in Calling
         PROVE  x \in send_armed' /\ \E j \in SlotIndex : pending'[j].caller = x
    <2>1. CASE x = c
      BY <1>2, <1>10, <2>1
    <2>2. CASE x # c
      <3>1. state[x] \in Calling
        BY <1>4, <1>13, <2>2 DEF Calling
      <3>2. x \in send_armed /\ \E j \in SlotIndex : pending[j].caller = x
        BY <3>1 DEF PInv, BlockedCallersArePending, Calling
      <3>3. pending[i].caller # x
        BY <1>3, ThreadIdAssumption DEF NoCall, invalid_thread
      <3>4. QED BY <1>2, <1>10, <3>2, <3>3
    <2>3. QED BY <2>1, <2>2
  <1>14. QED BY <1>12, <1>13 DEF BlockedCallersArePending, Calling

\* What taking up a call does to the rendezvous and the tables.
LEMMA ReceiveCallEffect ==
  ASSUME KInv, NEW t \in ThreadId, NEW e, receive_call(t, e)
  PROVE  /\ endpoints' = endpoints /\ pending' = pending /\ completed' = completed
         /\ state[t] = "ready" /\ state'[t] = "ready"
         /\ \A x \in ThreadId :
               /\ find(x)' <=> find(x)
               /\ state'[x] \in Calling <=> state[x] \in Calling
               /\ state'[x] = state[x] \/ (state'[x] = "reply_blocked" /\ state[x] = "send_blocked")
               /\ x # t => partner'[x] = partner[x]
         /\ \E i, k \in SlotIndex : replies' = [replies EXCEPT ![k] = pending[i]]
  <1>1. PICK i \in SlotIndex :
           /\ IF partner[t] # invalid_thread
              THEN pending_of(partner[t], e, i) /\ take_delivered(t)
              ELSE next_pending(e, i) /\ accept_sender(t, pending[i].caller)
           /\ mint_seal(i)
    BY DEF receive_call
  <1>2. \/ take_delivered(t)
        \/ pending[i].caller \in ThreadId /\ accept_sender(t, pending[i].caller)
    BY <1>1 DEF accept_sender, find
  <1>3. endpoints' = endpoints /\ pending' = pending /\ completed' = completed
    BY DEF receive_call
  <1>4. \E k \in SlotIndex : replies' = [replies EXCEPT ![k] = pending[i]]
    BY <1>1, Zenon DEF mint_seal
  <1> DEFINE Kept ==
        /\ state[t] = "ready" /\ state'[t] = "ready"
        /\ \A x \in ThreadId :
              /\ find(x)' <=> find(x)
              /\ state'[x] \in Calling <=> state[x] \in Calling
              /\ state'[x] = state[x] \/ (state'[x] = "reply_blocked" /\ state[x] = "send_blocked")
              /\ x # t => partner'[x] = partner[x]
  <1>5. CASE take_delivered(t)
    <2>0. /\ state[t] = "ready" /\ state' = state
          /\ partner' = [partner EXCEPT ![t] = invalid_thread]
          /\ partner \in [ThreadId -> OptThread]
      BY <1>5 DEF take_delivered, KInv, RInv, TypeOK
    <2>1. Kept
      BY <2>0 DEF find
    <2>2. QED BY <1>3, <1>4, <2>1, Zenon
  <1>6. CASE pending[i].caller \in ThreadId /\ accept_sender(t, pending[i].caller)
    <2>1. PICK c \in ThreadId : c = pending[i].caller
      BY <1>6
    <2>2. /\ c # t /\ state[t] = "ready" /\ state[c] = "send_blocked"
          /\ state' = [state EXCEPT ![c] = "reply_blocked"] /\ partner' = partner
      BY <1>6, <2>1 DEF accept_sender
    <2>3. \A x \in ThreadId : x # c => state'[x] = state[x]
      BY <2>2 DEF KInv, RInv, TypeOK
    <2>5. state'[c] = "reply_blocked"
      BY <2>2 DEF KInv, RInv, TypeOK
    <2>6. Kept
      BY <2>2, <2>3, <2>5 DEF find, Calling
    <2>7. QED BY <1>3, <1>4, <2>6, Zenon
  <1>7. QED BY <1>2, <1>5, <1>6

\* receive_call leaves the pending calls where they are.
LEMMA ReceiveCallCalls ==
  ASSUME PInv, NEW t \in ThreadId, NEW e, receive_call(t, e), send_armed' = send_armed
  PROVE  BlockedCallersArePending'
  <1>1. /\ endpoints' = endpoints /\ pending' = pending /\ state[t] = "ready"
        /\ \A x \in ThreadId :
              /\ state'[x] \in Calling <=> state[x] \in Calling
              /\ x # t => partner'[x] = partner[x]
    BY ReceiveCallEffect DEF PInv
  <1>2. QED BY <1>1, CallsKept DEF Calling

\* svc_receive_wait blocks a thread that calls nobody.
LEMMA ReceiveWaitCalls ==
  ASSUME PInv, NEW e \in Endpoint, NEW b \in BOOLEAN, svc_receive_wait(e, b)
  PROVE  BlockedCallersArePending'
  <1>1. /\ current \in ThreadId /\ state[current] = "ready"
        /\ state' = [state EXCEPT ![current] = "receive_blocked"] /\ partner' = partner
        /\ endpoints' = [endpoints EXCEPT ![e.slot].receive_waiting = TRUE]
        /\ pending' = pending /\ send_armed' = send_armed
    BY DEF svc_receive_wait, wait_receive
  <1>2. /\ state \in [ThreadId -> ThreadState]
        /\ endpoints \in [EndpointSlot ->
            [server : OptThread, generation : 0..MaxGeneration,
             active : BOOLEAN, receive_waiting : BOOLEAN]]
    BY DEF PInv, KInv, RInv, TypeOK, KTypeOK
  <1>3. \A r \in EndpointSlot :
           /\ endpoints'[r].active = endpoints[r].active
           /\ endpoints'[r].generation = endpoints[r].generation
           /\ endpoints'[r].server = endpoints[r].server
    BY <1>1, <1>2
  <1>4. QED BY <1>1, <1>2, <1>3, CallsKept DEF Calling

\* svc_reply: the answered call's entry is the caller's only one.
LEMMA ReplyCalls ==
  ASSUME PInv, NEW k \in SlotIndex, svc_reply(k)
  PROVE  BlockedCallersArePending'
  <1> DEFINE c == replies[k].caller
  <1>2. /\ find(c) /\ c \in ThreadId /\ state[c] = "reply_blocked"
        /\ state' = [state EXCEPT ![c] = "ready"]
        /\ partner' = [partner EXCEPT ![c] = invalid_thread]
        /\ completed' = completed \cup {c}
        /\ replies' = [replies EXCEPT ![k] = NoCall]
        /\ current' = invalid_thread
        /\ UNCHANGED <<endpoints, contvars, fault>>
    BY DEF svc_reply, reply, find
  <1>3. PICK i \in SlotIndex : pending[i].caller = c /\ pending' = [pending EXCEPT ![i] = NoCall]
    BY Zenon DEF svc_reply, pending_of, first
  <1> HIDE DEF c
  <1>4. /\ state \in [ThreadId -> ThreadState] /\ partner \in [ThreadId -> OptThread]
        /\ pending \in [SlotIndex -> OptCall] /\ replies \in [SlotIndex -> OptCall]
    BY DEF PInv, KInv, RInv, TypeOK, KTypeOK
  <1>5. /\ \A x \in ThreadId : x # c => state'[x] = state[x] /\ partner'[x] = partner[x]
        /\ \A j \in SlotIndex : j # i => pending'[j] = pending[j]
        /\ pending'[i] = NoCall
        /\ \A j \in SlotIndex : pending[j].caller = c => j = i
    BY <1>2, <1>3, <1>4, PendingCall
  <1>6. ASSUME NEW x \in ThreadId, state'[x] \in Calling
        PROVE  x \in send_armed' /\ \E j \in SlotIndex : pending'[j].caller = x
    <2>1. x # c /\ state[x] \in Calling
      BY <1>2, <1>4, <1>5, <1>6 DEF Calling
    <2>2. x \in send_armed /\ \E j \in SlotIndex : pending[j].caller = x
      BY <2>1 DEF PInv, BlockedCallersArePending, Calling
    <2>3. QED BY <1>2, <1>3, <1>5, <2>1, <2>2 DEF contvars
  <1>7. ASSUME NEW j \in SlotIndex, pending'[j] # NoCall
        PROVE  /\ pending'[j].caller \in callers_of(pending[j].server)'
               /\ (slot_for(pending[j].endpoint))'
               /\ (owner(pending[j].endpoint))' = pending'[j].server
               /\ \A l \in SlotIndex : pending'[l].caller = pending'[j].caller => j = l
    <2>1. j # i /\ pending'[j] = pending[j]
      BY <1>5, <1>7
    <2>2. PICK q \in Call : pending[j] = q /\ pending'[j] = q
      BY <1>4, <1>7, <2>1 DEF OptCall
    <2>3. q.caller \in ThreadId
      BY DEF Call
    <2>4. /\ q.caller \in callers_of(q.server) /\ slot_for(q.endpoint)
          /\ owner(q.endpoint) = q.server
          /\ \A l \in SlotIndex : pending[l].caller = q.caller => l = j
      BY <2>2, <2>3, PendingCall
    <2>5. q.caller # c
      BY <1>5, <2>1, <2>2
    <2>6. q.caller \in callers_of(q.server)'
      BY <1>5, <2>4, <2>5 DEF callers_of
    <2>7. slot_for(q.endpoint)' /\ owner(q.endpoint)' = q.server
      BY <1>2, <2>4 DEF slot_for, owner
    <2>8. pending'[i].caller # q.caller
      BY <1>5, <2>3, ThreadIdAssumption DEF NoCall, invalid_thread
    <2>9. QED BY <1>5, <2>2, <2>4, <2>6, <2>7, <2>8
  <1>8. QED BY <1>6, <1>7 DEF BlockedCallersArePending, Calling

\* What retire_slots(E) leaves of the endpoint table.
LEMMA RetiredSlots ==
  ASSUME KInv, NEW E, E \subseteq active_endpoints, retire_slots(E)
  PROVE  /\ \A f : slot_for(f)' <=> slot_for(f) /\ f \notin E
         /\ \A f \in Endpoint : slot_for(f) /\ f \notin E =>
               /\ owner(f)' = owner(f)
               /\ receive_waiting(f)' <=> receive_waiting(f)
  <1>1. endpoints \in [EndpointSlot ->
          [server : OptThread, generation : 0..MaxGeneration,
           active : BOOLEAN, receive_waiting : BOOLEAN]]
    BY DEF KInv, KTypeOK
  <1>2. \A r \in EndpointSlot :
           /\ (\E e \in E : e.slot = r) => ~endpoints'[r].active
           /\ ~(\E e \in E : e.slot = r) => endpoints'[r] = endpoints[r]
    BY <1>1, Zenon DEF retire_slots
  <1>3. ASSUME NEW f, slot_for(f)
        PROVE  (\E e \in E : e.slot = f.slot) <=> f \in E
    BY <1>3, SlotNamesEndpoint DEF active_endpoints
  <1>4. \A f \in Endpoint : f.slot \in EndpointSlot
    BY DEF Endpoint
  <1>5. ASSUME NEW f \in Endpoint, slot_for(f), f \notin E
        PROVE  endpoints'[f.slot] = endpoints[f.slot]
    BY <1>2, <1>3, <1>4, <1>5
  <1>6. ASSUME NEW f \in Endpoint, slot_for(f)'
        PROVE  slot_for(f) /\ f \notin E
    <2>1. ~(\E e \in E : e.slot = f.slot)
      BY <1>2, <1>4, <1>6 DEF slot_for
    <2>2. slot_for(f)
      BY <1>2, <1>4, <1>6, <2>1 DEF slot_for
    <2>3. QED BY <2>1, <2>2
  <1>7. \A f : slot_for(f) \/ slot_for(f)' => f \in Endpoint
    BY DEF slot_for
  <1>8. QED BY <1>5, <1>6, <1>7 DEF slot_for, owner, receive_waiting

(* Cancelling the calls of a set E of endpoints: every pending call on E has its
   caller released, and nobody else's call is touched. *)
LEMMA CancelledCalls ==
  ASSUME PInv, NEW E, NEW i \in SlotIndex, pending[i].caller \in ThreadId
  PROVE  pending[i].endpoint \in E <=> pending[i].caller \in cancelled_by(E)
  <1>1. /\ pending[i].caller \in callers_of(pending[i].server)
        /\ \A j \in SlotIndex : pending[j].caller = pending[i].caller => j = i
    BY PendingCall
  <1>2. QED BY <1>1 DEF cancelled_by

\* The entries that survive when the calls on E, and the calls of the dead, are
\* dropped and their callers released.
LEMMA CallsCancelled ==
  ASSUME PInv, KInv', NEW E, E \subseteq active_endpoints, retire_slots(E),
         NEW dead, \A i \in SlotIndex : pending[i].caller \in dead /\ pending[i].caller \in ThreadId
                      => state'[pending[i].caller] \notin Calling,
         pending' = drop_calls(pending, {i \in SlotIndex :
            pending[i].endpoint \in E \/ pending[i].caller \in dead}),
         \A x \in ThreadId : state'[x] \in Calling =>
            /\ state[x] \in Calling /\ partner'[x] = partner[x] /\ x \notin cancelled_by(E)
            /\ x \in send_armed => x \in send_armed',
         \A x \in ThreadId : state[x] \in Calling /\ x \notin cancelled_by(E) /\ x \notin dead
            => state'[x] \in Calling
  PROVE  BlockedCallersArePending'
  <1>1. pending \in [SlotIndex -> OptCall]
    BY DEF PInv, KInv, KTypeOK
  <1>2. \A i \in SlotIndex :
           pending'[i] = IF pending[i].endpoint \in E \/ pending[i].caller \in dead
                         THEN NoCall ELSE pending[i]
    BY <1>1 DEF drop_calls
  <1>3. NoCall.caller \notin ThreadId
    BY ThreadIdAssumption DEF NoCall, invalid_thread
  <1>4. ASSUME NEW x \in ThreadId, state'[x] \in Calling
        PROVE  x \in send_armed' /\ \E j \in SlotIndex : pending'[j].caller = x
    <2>1. state[x] \in Calling /\ x \notin cancelled_by(E)
      BY <1>4
    <2>2. x \in send_armed /\ \E j \in SlotIndex : pending[j].caller = x
      BY <2>1 DEF PInv, BlockedCallersArePending, Calling
    <2>3. PICK j \in SlotIndex : pending[j].caller = x
      BY <2>2
    <2>4. pending[j].endpoint \notin E /\ pending[j].caller \notin dead
      BY <1>4, <2>1, <2>3, CancelledCalls
    <2>5. QED BY <1>2, <1>4, <2>2, <2>3, <2>4
  <1>5. ASSUME NEW j \in SlotIndex, pending'[j] # NoCall
        PROVE  /\ pending'[j].caller \in callers_of(pending[j].server)'
               /\ (slot_for(pending[j].endpoint))'
               /\ (owner(pending[j].endpoint))' = pending'[j].server
               /\ \A l \in SlotIndex : pending'[l].caller = pending'[j].caller => j = l
    <2>1. pending'[j] = pending[j] /\ pending[j].endpoint \notin E /\ pending[j].caller \notin dead
      BY <1>2, <1>5
    <2>2. PICK q \in Call : pending[j] = q /\ pending'[j] = q
      BY <1>1, <1>5, <2>1 DEF OptCall
    <2>3. q.caller \in ThreadId /\ q.endpoint \in Endpoint
      BY DEF Call
    <2>4. /\ q.caller \in callers_of(q.server) /\ slot_for(q.endpoint)
          /\ owner(q.endpoint) = q.server
          /\ \A l \in SlotIndex : pending[l].caller = q.caller => l = j
      BY <2>2, <2>3, PendingCall
    <2>5. q.caller \notin cancelled_by(E)
      BY <2>1, <2>2, <2>3, CancelledCalls
    <2>6. state[q.caller] \in Calling
      BY <2>4 DEF callers_of, Calling
    <2>7. state'[q.caller] \in Calling /\ partner'[q.caller] = partner[q.caller]
      BY <2>1, <2>2, <2>3, <2>5, <2>6
    <2>8. q.caller \in callers_of(q.server)'
      BY <2>4, <2>7 DEF callers_of, Calling
    <2>9. slot_for(q.endpoint)' /\ owner(q.endpoint)' = q.server
      BY <2>1, <2>2, <2>3, <2>4, RetiredSlots DEF PInv
    <2>10. QED BY <1>2, <1>3, <2>2, <2>3, <2>4, <2>8, <2>9
  <1>6. QED BY <1>4, <1>5 DEF BlockedCallersArePending, Calling

\* retire_ipc_endpoint wakes its callers and, if it waits, its owner.
LEMMA RetireCalls ==
  ASSUME PInv, NEW t, NEW e \in Endpoint, retire_ipc_endpoint(t, e)
  PROVE  BlockedCallersArePending'
  <1> DEFINE released == cancelled_by({e}) \cup (IF receive_waiting(e) THEN {t} ELSE {})
  <1>1. KInv'
    BY RetireKInv DEF PInv
  <1>2. /\ state' = [o \in ThreadId |-> IF o \in released THEN "ready" ELSE state[o]]
        /\ partner' = [o \in ThreadId |->
              IF \/ o \in released
                 \/ o = t /\ state[t] = "ready" /\ partner[t] \in cancelled_by({e})
              THEN invalid_thread ELSE partner[o]]
        /\ pending' = drop_calls(pending, {i \in SlotIndex : pending[i].endpoint = e})
        /\ send_armed' = send_armed
    BY DEF retire_ipc_endpoint
  <1>3. receive_waiting(e) => state[t] = "receive_blocked"
    BY Zenon DEF retire_ipc_endpoint, retired_with, receive_waiting_thread
  <1>4. PICK E, D : E = {e} /\ D = {}
    BY Zenon
  <1>5. pending' = drop_calls(pending, {i \in SlotIndex :
                      pending[i].endpoint \in E \/ pending[i].caller \in D})
    BY <1>2, <1>4
  <1>6. \A x \in ThreadId : state'[x] \in Calling =>
          /\ state[x] \in Calling /\ partner'[x] = partner[x] /\ x \notin cancelled_by(E)
          /\ x \in send_armed => x \in send_armed'
    BY <1>2, <1>4 DEF Calling
  <1>7. \A x \in ThreadId : state[x] \in Calling /\ x \notin cancelled_by(E) /\ x \notin D
           => state'[x] \in Calling
    BY <1>2, <1>3, <1>4 DEF Calling
  <1>8. \A i \in SlotIndex : pending[i].caller \in D /\ pending[i].caller \in ThreadId
           => state'[pending[i].caller] \notin Calling
    BY <1>4
  <1>9. E \subseteq active_endpoints /\ retire_slots(E)
    BY <1>4 DEF retire_ipc_endpoint, retired_with, owned_by
  <1>10. QED BY ONLY PInv, <1>1, <1>5, <1>6, <1>7, <1>8, <1>9, CallsCancelled, Zenon

\* The timer wakes a receiver, never a caller.
LEMMA ExpireCalls ==
  ASSUME PInv, NEW t \in ThreadId, ipc_expire_one_receive(t)
  PROVE  BlockedCallersArePending'
  <1>1. /\ UNCHANGED <<pending, endpoints, send_armed, partner>>
        /\ \/ state' = state
           \/ state[t] = "receive_blocked" /\ state' = [state EXCEPT ![t] = "ready"]
        /\ state \in [ThreadId -> ThreadState]
    BY DEF ipc_expire_one_receive, expire_receive, wake_receiver, receive_waiting_thread,
           rvars, ipcvars, PInv, KInv, RInv, TypeOK
  <1>2. QED BY <1>1, CallsKept DEF Calling

\* The chosen thread is ready, because the run queue says so.
LEMMA ChosenIsReady ==
  ASSUME KInv, NEW t \in ThreadId, switch_to(t)
  PROVE  state[t] = "ready"
  <1>1. runqueue[t].runnable /\ Cached(t)
    BY DEF switch_to, may_run, KInv, CacheIsSafe
  <1>2. CASE find(t)
    BY <1>1, <1>2 DEF Cached
  <1>3. CASE ~find(t)
    <2>1. runqueue[t] = NotQueued(base[t])
      BY <1>1, <1>3 DEF Cached
    <2>2. QED BY <1>1, <2>1 DEF NotQueued
  <1>4. QED BY <1>2, <1>3

\* A switch completes the chosen thread's own call, which is no longer pending.
LEMMA SwitchCalls ==
  ASSUME PInv, NEW t \in ThreadId, switch_to(t)
  PROVE  BlockedCallersArePending'
  <1>1. state[t] = "ready"
    BY ChosenIsReady DEF PInv
  <1>2. CASE complete_receive(t) /\ receive_call(t, recv_armed[t].endpoint)
    BY <1>2, ReceiveCallCalls DEF complete_receive
  <1>3. CASE ~(complete_receive(t) /\ receive_call(t, recv_armed[t].endpoint))
    <2>1. /\ state' = state /\ partner' = partner
          /\ UNCHANGED <<endpoints, pending>>
          /\ send_armed \ {t} \subseteq send_armed'
      BY <1>3 DEF switch_to, complete_expiry, complete_receive, complete_reply, take,
                  nothing_to_complete, take_deadline_expiry, rvars, ipcvars, contvars
    <2>2. QED BY <1>1, <2>1, CallsKept DEF Calling
  <1>4. QED BY <1>2, <1>3

\* A step that changes nothing keeps the calls.
LEMMA StutterCalls ==
  ASSUME PInv, UNCHANGED kvars
  PROVE  BlockedCallersArePending'
  <1>1. state' = state /\ partner' = partner /\ endpoints' = endpoints /\ pending' = pending
        /\ send_armed' = send_armed
    BY DEF kvars, rvars, ipcvars, contvars
  <1>2. QED BY <1>1, CallsKept

\* Only a death can leave a blocked caller without its entry.
LEMMA NextPInv ==
  ASSUME PInv, [KNext]_kvars, ~(\E t \in Mortal : destroy_thread(t))
  PROVE  PInv'
  <1>1. KInv'
    BY NextKInv DEF PInv
  <1>2. ASSUME NEW t \in ThreadId, NEW p \in Priority,
               kernel_create_thread(t, p) \/ kernel_create_admitted_thread(t, p)
        PROVE  BlockedCallersArePending'
    BY <1>2, CreateCalls
  <1>3. ASSUME NEW t \in ThreadId, thread_start(t) \/ switch_to(t) \/ ipc_expire_one_receive(t)
        PROVE  BlockedCallersArePending'
    BY <1>3, StartCalls, SwitchCalls, ExpireCalls
  <1>4. ASSUME NEW t \in Server, create_ipc_endpoint(t)
        PROVE  BlockedCallersArePending'
    BY <1>4, CreateEndpointCalls
  <1>5. ASSUME NEW e \in Endpoint, retire_ipc_endpoint(owner(e), e)
        PROVE  BlockedCallersArePending'
    BY <1>5, RetireCalls
  <1>6. ASSUME NEW e \in Endpoint, svc_send(e) \/ svc_receive_now(e)
        PROVE  BlockedCallersArePending'
    <2>1. CASE svc_send(e)
      BY <2>1, SendCalls
    <2>2. CASE svc_receive_now(e)
      <3>1. PICK t \in ThreadId : receive_call(t, e) /\ send_armed' = send_armed
        BY <2>2 DEF svc_receive_now, contvars
      <3>2. QED BY <3>1, ReceiveCallCalls
    <2>3. QED BY <1>6, <2>1, <2>2
  <1>7. ASSUME NEW e \in Endpoint, NEW b \in Bounded, svc_receive_wait(e, b)
        PROVE  BlockedCallersArePending'
    BY <1>7, ReceiveWaitCalls, KernelIpcAssumption
  <1>8. ASSUME NEW k \in SlotIndex, svc_reply(k)
        PROVE  BlockedCallersArePending'
    BY <1>8, ReplyCalls
  <1>9. CASE UNCHANGED kvars
    BY <1>1, <1>9, StutterCalls DEF PInv
  <1>10. QED
    BY <1>1, <1>2, <1>3, <1>4, <1>5, <1>6, <1>7, <1>8, <1>9, KernelIpcAssumption DEF KNext, PInv

=============================================================================
