-------------------------- MODULE KernelCallProofs --------------------------
(***************************************************************************)
(* Proofs about seals, deliveries and answers (KernelIpc).  CInv adds to   *)
(* PInv what a thread's call or receive has come to between the step that  *)
(* wakes it and the switch that completes it; under CInv every kernel step *)
(* is a step of CallProtocol, or unseen.                                   *)
(***************************************************************************)
EXTENDS KernelPendingProofs

(* How far a thread's own call or receive has come: a receiver stays armed until it
   is switched to, what was delivered to it waits unsealed for its reply, and a
   caller whose answer is stored, or a receiver whose deadline expired, is ready with
   nothing else to complete. *)
Handover(t) ==
    /\ wake[t] = "deadline_expired" => t \notin completed
    /\ wake[t] = "deadline_expired" \/ t \in completed =>
          state[t] = "ready" /\ partner[t] = invalid_thread /\ recv_armed[t] = NotArmed
    /\ state[t] = "receive_blocked" => recv_armed[t] # NotArmed
    /\ state[t] \in Calling => recv_armed[t] = NotArmed
    /\ state[t] = "admitted" => partner[t] = invalid_thread
    /\ state[t] = "ready" /\ partner[t] # invalid_thread =>
          /\ recv_armed[t] # NotArmed
          /\ state[partner[t]] = "reply_blocked" /\ partner[partner[t]] = t
          /\ \A k \in SlotIndex : replies[k].caller # partner[t]

HandoverInv == fault = "none" => \A t \in ThreadId : Handover(t)

CInv == PInv /\ CallsAreWhole /\ HandoverInv

\* The same, while the machine runs.
RunningInv ==
    /\ PInv /\ SealsAreHonourable /\ RunningThreadIsComplete
    /\ fault = "none" /\ \A t \in ThreadId : Handover(t)

\* A seal, unfolded.
LEMMA SealedCall ==
  ASSUME PInv, SealsAreHonourable, NEW k \in SlotIndex, replies[k] # NoCall
  PROVE  /\ replies[k] \in Call /\ replies[k].caller \in ThreadId
         /\ \E i \in SlotIndex : pending[i] = replies[k]
         /\ state[replies[k].caller] = "reply_blocked"
         /\ replies[k].caller \notin completed
         /\ \A l \in SlotIndex : replies[l].caller = replies[k].caller => k = l
  <1>1. replies[k] \in Call
    BY DEF PInv, KInv, KTypeOK, OptCall
  <1>2. replies[k].caller \in ThreadId
    BY <1>1 DEF Call
  <1>3. QED BY <1>1, <1>2 DEF SealsAreHonourable

\* Steps that leave the seals and the sealed callers alone.
LEMMA SealsKept ==
  ASSUME PInv, SealsAreHonourable, replies' = replies, completed' \subseteq completed,
         \A i \in SlotIndex : pending[i].caller \in ThreadId
             /\ state[pending[i].caller] = "reply_blocked" =>
                \E j \in SlotIndex : pending'[j] = pending[i],
         \A x \in ThreadId : state[x] = "reply_blocked" => state'[x] = "reply_blocked"
  PROVE  SealsAreHonourable'
  <1> SUFFICES ASSUME NEW k \in SlotIndex, replies[k] # NoCall
               PROVE  /\ \E i \in SlotIndex : pending'[i] = replies[k]
                      /\ state'[replies[k].caller] = "reply_blocked"
                      /\ replies[k].caller \notin completed'
                      /\ \A l \in SlotIndex : replies[l].caller = replies[k].caller => k = l
    BY DEF SealsAreHonourable
  <1>1. /\ replies[k].caller \in ThreadId
        /\ \E i \in SlotIndex : pending[i] = replies[k]
        /\ state[replies[k].caller] = "reply_blocked"
        /\ replies[k].caller \notin completed
        /\ \A l \in SlotIndex : replies[l].caller = replies[k].caller => k = l
    BY SealedCall
  <1>2. QED BY <1>1

\* Steps that only change one thread x, whose call nobody was handed.
LEMMA HandoverKept ==
  ASSUME RunningInv, NEW x \in ThreadId, state[x] # "reply_blocked",
         \A y \in ThreadId \ {x} :
            /\ state'[y] = state[y] /\ partner'[y] = partner[y] /\ wake'[y] = wake[y]
            /\ recv_armed'[y] = recv_armed[y]
            /\ y \in completed' => y \in completed,
         \A k \in SlotIndex : replies'[k].caller = replies[k].caller,
         Handover(x)'
  PROVE  \A y \in ThreadId : Handover(y)'
  <1> SUFFICES ASSUME NEW y \in ThreadId, y # x PROVE Handover(y)'
    OBVIOUS
  <1>1. Handover(y)
    BY DEF RunningInv
  <1>2. partner[y] \in OptThread
    BY DEF RunningInv, PInv, KInv, RInv, TypeOK
  <1>3. state[y] = "ready" /\ partner[y] # invalid_thread =>
           /\ state'[partner[y]] = "reply_blocked" /\ partner'[partner[y]] = y
    BY <1>1, <1>2 DEF Handover, OptThread
  <1>4. QED BY <1>1, <1>3 DEF Handover

\* What the action lemmas below establish, next to PInv'.
CGoal == CallsAreWhole /\ HandoverInv

\* A new thread has no call, no delivery and no answer.
LEMMA CreateCInv ==
  ASSUME RunningInv, NEW t \in ThreadId, NEW p \in Priority,
         kernel_create_thread(t, p) \/ kernel_create_admitted_thread(t, p)
  PROVE  CGoal'
  <1>1. PICK s \in {"ready", "admitted"} : occupy_slot(t, p, s)
    BY DEF kernel_create_thread, kernel_create_admitted_thread, create_thread,
           create_admitted_thread
  <1>2. UNCHANGED <<ipcvars, contvars, current, fault>>
    BY DEF kernel_create_thread, kernel_create_admitted_thread
  <1>3. /\ state[t] = "exited" /\ state'[t] = s /\ partner'[t] = invalid_thread
        /\ wake'[t] = "none"
        /\ \A y \in ThreadId \ {t} :
              state'[y] = state[y] /\ partner'[y] = partner[y] /\ wake'[y] = wake[y]
    BY <1>1 DEF occupy_slot, find, RunningInv, PInv, KInv, RInv, TypeOK
  <1>4. Handover(t)
    BY DEF RunningInv
  <1>5. Handover(t)'
    BY <1>2, <1>3, <1>4 DEF Handover, ipcvars, contvars, Calling
  <1>6. \A y \in ThreadId : Handover(y)'
    BY <1>2, <1>3, <1>5, HandoverKept DEF ipcvars, contvars
  <1>7. SealsAreHonourable'
    BY <1>2, <1>3, SealsKept DEF ipcvars, RunningInv
  <1>8. current \in OptThread
    BY DEF RunningInv, PInv, KInv, KTypeOK
  <1>9. RunningThreadIsComplete'
    BY <1>2, <1>3, <1>8 DEF RunningInv, RunningThreadIsComplete, ipcvars, contvars, OptThread
  <1>10. QED BY <1>6, <1>7, <1>9 DEF CGoal, CallsAreWhole, HandoverInv

\* An admitted thread was never handed a call.
LEMMA StartCInv ==
  ASSUME RunningInv, NEW t \in ThreadId, thread_start(t)
  PROVE  CGoal'
  <1>1. /\ state[t] = "admitted" /\ UNCHANGED <<ipcvars, contvars, current, fault>>
        /\ partner' = partner /\ wake' = wake
        /\ state'[t] = "ready" /\ \A y \in ThreadId \ {t} : state'[y] = state[y]
    BY DEF thread_start, start_thread, RunningInv, PInv, KInv, RInv, TypeOK
  <1>2. Handover(t)
    BY DEF RunningInv
  <1>3. Handover(t)'
    BY <1>1, <1>2 DEF Handover, ipcvars, contvars, Calling
  <1>4. \A y \in ThreadId : Handover(y)'
    BY <1>1, <1>3, HandoverKept DEF ipcvars, contvars
  <1>5. SealsAreHonourable'
    BY <1>1, SealsKept DEF ipcvars, RunningInv
  <1>6. current \in OptThread
    BY DEF RunningInv, PInv, KInv, KTypeOK
  <1>7. RunningThreadIsComplete'
    BY <1>1, <1>6 DEF RunningInv, RunningThreadIsComplete, ipcvars, contvars, OptThread
  <1>8. QED BY <1>4, <1>5, <1>7 DEF CGoal, CallsAreWhole, HandoverInv

\* create_ipc_endpoint touches no call.
LEMMA CreateEndpointCInv ==
  ASSUME RunningInv, NEW t, create_ipc_endpoint(t)
  PROVE  CGoal'
  <1>1. UNCHANGED <<state, partner, wake, pending, replies, completed, recv_armed, current, fault>>
    BY DEF create_ipc_endpoint, rvars, contvars
  <1>2. QED BY <1>1 DEF CGoal, CallsAreWhole, HandoverInv, Handover, SealsAreHonourable,
                        RunningThreadIsComplete, RunningInv

\* svc_send: the caller leaves user mode with nothing pending, and the receiver it
\* may wake is armed.
LEMMA SendCInv ==
  ASSUME RunningInv, NEW e \in Endpoint, svc_send(e)
  PROVE  CGoal'
  <1>1. PICK c, s : c = current /\ s = owner(e)
    OBVIOUS
  <1>2. /\ c \in ThreadId /\ s \in ThreadId /\ c # s /\ state[c] = "ready"
        /\ state'[c] \in Calling /\ partner'[c] = s /\ wake'[c] = "none"
        /\ receive_waiting(e) => state'[c] = "reply_blocked"
        /\ \A x \in ThreadId : x # c => wake'[x] = wake[x]
        /\ \A x \in ThreadId : x # c /\ ~(x = s /\ receive_waiting(e)) =>
              state'[x] = state[x] /\ partner'[x] = partner[x]
        /\ receive_waiting(e) =>
              state[s] = "receive_blocked" /\ state'[s] = "ready" /\ partner'[s] = c
    BY <1>1, SendEffect DEF RunningInv, PInv, Calling
  <1>3. /\ recv_armed' = recv_armed /\ replies' = replies /\ completed' = completed
        /\ current' = invalid_thread /\ c \notin completed
    BY <1>1 DEF svc_send, send_to_endpoint
  <1>4. recv_armed[c] = NotArmed
    BY <1>1, <1>2, ThreadIdAssumption DEF RunningInv, RunningThreadIsComplete, invalid_thread
  <1>5. PICK i \in SlotIndex :
           pending[i] = NoCall /\ \A j \in SlotIndex : j # i => pending'[j] = pending[j]
    BY DEF svc_send, send_to_endpoint, free_pending, first, RunningInv, PInv, KInv, KTypeOK
  <1>6. SealsAreHonourable'
    <2>1. \A x \in ThreadId : state[x] = "reply_blocked" => state'[x] = "reply_blocked"
      BY <1>2
    <2>2. NoCall.caller \notin ThreadId
      BY ThreadIdAssumption DEF NoCall, invalid_thread
    <2>3. QED BY <1>3, <1>5, <2>1, <2>2, SealsKept DEF RunningInv
  <1>7. \A k \in SlotIndex : replies[k].caller # c
    <2>1. \A k \in SlotIndex : replies[k] # NoCall => state[replies[k].caller] = "reply_blocked"
      BY SealedCall DEF RunningInv
    <2>2. QED BY <1>2, <2>1, ThreadIdAssumption DEF NoCall, invalid_thread
  <1>8. ASSUME NEW y \in ThreadId PROVE Handover(y)'
    <2>1. Handover(y)
      BY DEF RunningInv
    <2>2. partner[y] \in OptThread
      BY DEF RunningInv, PInv, KInv, RInv, TypeOK
    <2>3. CASE y = c
      BY <1>2, <1>3, <1>4, <2>3 DEF Handover, Calling
    <2>4. CASE y = s /\ receive_waiting(e)
      <3>1. recv_armed'[y] # NotArmed /\ y \notin completed' /\ wake'[y] # "deadline_expired"
        BY <1>2, <1>3, <2>1, <2>4 DEF Handover
      <3>2. state'[c] = "reply_blocked" /\ partner'[c] = y
        BY <1>2, <2>4
      <3>3. QED BY <1>2, <1>3, <1>7, <2>4, <3>1, <3>2 DEF Handover, Calling
    <2>5. CASE y # c /\ ~(y = s /\ receive_waiting(e))
      <3>1. state'[y] = state[y] /\ partner'[y] = partner[y] /\ wake'[y] = wake[y]
        BY <1>2, <2>5
      <3>2. state[y] = "ready" /\ partner[y] # invalid_thread =>
              state'[partner[y]] = "reply_blocked" /\ partner'[partner[y]] = y
        BY <1>2, <2>1, <2>2 DEF Handover, OptThread
      <3>3. QED BY <1>3, <2>1, <3>1, <3>2 DEF Handover
    <2>6. QED BY <2>3, <2>4, <2>5
  <1>9. RunningThreadIsComplete'
    BY <1>3 DEF RunningThreadIsComplete
  <1>10. QED BY <1>6, <1>8, <1>9 DEF CGoal, CallsAreWhole, HandoverInv

\* Which call receive_call hands over, and what becomes of its caller.
LEMMA HandedOver ==
  ASSUME KInv, NEW t \in ThreadId, NEW e, receive_call(t, e)
  PROVE  \E i, k \in SlotIndex : \E c \in ThreadId :
            /\ pending[i].caller = c /\ pending[i].endpoint = e /\ replies[k] = NoCall
            /\ replies' = [replies EXCEPT ![k] = pending[i]]
            /\ \/ partner[t] = c /\ state' = state
               \/ /\ partner[t] = invalid_thread /\ c # t
                  /\ state[c] = "send_blocked" /\ partner[c] = t
                  /\ state' = [state EXCEPT ![c] = "reply_blocked"]
            /\ state[t] = "ready"
            /\ partner' = [partner EXCEPT ![t] = invalid_thread]
            /\ wake' = [wake EXCEPT ![t] = "none"]
  <1>1. PICK i \in SlotIndex :
           /\ IF partner[t] # invalid_thread
              THEN pending_of(partner[t], e, i) /\ take_delivered(t)
              ELSE next_pending(e, i) /\ accept_sender(t, pending[i].caller)
           /\ mint_seal(i)
    BY DEF receive_call
  <1>2. PICK k \in SlotIndex : replies[k] = NoCall /\ replies' = [replies EXCEPT ![k] = pending[i]]
    BY <1>1, Zenon DEF mint_seal, free_reply, first
  <1>3. partner \in [ThreadId -> OptThread]
    BY DEF KInv, RInv, TypeOK
  <1>4. PICK c : c = pending[i].caller
    OBVIOUS
  <1>5. CASE partner[t] # invalid_thread
    <2>1. c \in ThreadId /\ partner[t] = c /\ pending[i].endpoint = e
      BY <1>1, <1>3, <1>4, <1>5 DEF pending_of, first, OptThread
    <2>2. /\ state' = state /\ state[t] = "ready"
          /\ partner' = [partner EXCEPT ![t] = invalid_thread]
          /\ wake' = [wake EXCEPT ![t] = "none"]
      BY <1>1, <1>5 DEF take_delivered
    <2>3. QED BY <1>2, <1>4, <2>1, <2>2, Zenon
  <1>6. CASE partner[t] = invalid_thread
    <2>1. pending[i].endpoint = e /\ accept_sender(t, c)
      BY <1>1, <1>4, <1>6 DEF next_pending, first
    <2>2. /\ c \in ThreadId /\ c # t /\ state[c] = "send_blocked" /\ partner[c] = t
          /\ state' = [state EXCEPT ![c] = "reply_blocked"] /\ state[t] = "ready"
          /\ partner' = partner /\ wake' = [wake EXCEPT ![t] = "none"]
      BY <2>1 DEF accept_sender, find
    <2>3. partner' = [partner EXCEPT ![t] = invalid_thread]
      BY <1>3, <1>6, <2>2
    <2>4. QED BY <1>2, <1>4, <1>6, <2>1, <2>2, <2>3, Zenon
  <1>7. QED BY <1>5, <1>6

(* receive_call: the delivered caller is unsealed and waits for this very receiver;
   the accepted one was only queued.  Either way the new seal is its first. *)
LEMMA ReceiveCallCInv ==
  ASSUME RunningInv, NEW t \in ThreadId, NEW e, receive_call(t, e), current' = t,
         t \notin completed, recv_armed'[t] = NotArmed,
         \A x \in ThreadId \ {t} : recv_armed'[x] = recv_armed[x]
  PROVE  CGoal'
  <1>1. PICK i, k \in SlotIndex : \E c \in ThreadId :
            /\ pending[i].caller = c /\ pending[i].endpoint = e /\ replies[k] = NoCall
            /\ replies' = [replies EXCEPT ![k] = pending[i]]
            /\ \/ partner[t] = c /\ state' = state
               \/ /\ partner[t] = invalid_thread /\ c # t
                  /\ state[c] = "send_blocked" /\ partner[c] = t
                  /\ state' = [state EXCEPT ![c] = "reply_blocked"]
            /\ state[t] = "ready"
            /\ partner' = [partner EXCEPT ![t] = invalid_thread]
            /\ wake' = [wake EXCEPT ![t] = "none"]
    BY HandedOver DEF RunningInv, PInv
  <1>2. PICK c \in ThreadId :
            /\ pending[i].caller = c /\ pending[i].endpoint = e /\ replies[k] = NoCall
            /\ replies' = [replies EXCEPT ![k] = pending[i]]
            /\ \/ partner[t] = c /\ state' = state
               \/ /\ partner[t] = invalid_thread /\ c # t
                  /\ state[c] = "send_blocked" /\ partner[c] = t
                  /\ state' = [state EXCEPT ![c] = "reply_blocked"]
            /\ state[t] = "ready"
            /\ partner' = [partner EXCEPT ![t] = invalid_thread]
            /\ wake' = [wake EXCEPT ![t] = "none"]
    BY <1>1
  <1>3. /\ state \in [ThreadId -> ThreadState] /\ partner \in [ThreadId -> OptThread]
        /\ wake \in [ThreadId -> WakeReason] /\ replies \in [SlotIndex -> OptCall]
    BY DEF RunningInv, PInv, KInv, RInv, TypeOK, KTypeOK
  <1>4. pending' = pending /\ completed' = completed
    BY DEF receive_call
  <1>5. Handover(t) /\ Handover(c)
    BY DEF RunningInv
  <1>6. /\ state'[c] = "reply_blocked" /\ c # t /\ partner[c] = t
        /\ \A l \in SlotIndex : replies[l].caller # c
        /\ \A y \in ThreadId : y # c => state'[y] = state[y]
        /\ \A y \in ThreadId : state[y] = "reply_blocked" => state'[y] = "reply_blocked"
    <2>1. CASE partner[t] = c /\ state' = state
      BY <1>2, <1>5, <2>1, ThreadIdAssumption DEF Handover, invalid_thread
    <2>2. CASE /\ partner[t] = invalid_thread /\ c # t
               /\ state[c] = "send_blocked" /\ partner[c] = t
               /\ state' = [state EXCEPT ![c] = "reply_blocked"]
      <3>1. \A l \in SlotIndex : replies[l].caller # c
        <4>1. \A l \in SlotIndex : replies[l] # NoCall => state[replies[l].caller] = "reply_blocked"
          BY SealedCall DEF RunningInv
        <4>2. QED BY <2>2, <4>1, ThreadIdAssumption DEF NoCall, invalid_thread
      <3>2. QED BY <1>3, <2>2, <3>1
    <2>3. QED BY <1>2, <2>1, <2>2
  <1>7. /\ \A l \in SlotIndex : l # k => replies'[l] = replies[l]
        /\ replies'[k] = pending[i]
        /\ partner'[t] = invalid_thread /\ wake'[t] = "none"
        /\ \A y \in ThreadId \ {t} : partner'[y] = partner[y] /\ wake'[y] = wake[y]
    BY <1>2, <1>3
  <1>8. SealsAreHonourable'
    <2> SUFFICES ASSUME NEW l \in SlotIndex, replies'[l] # NoCall
                 PROVE  /\ \E j \in SlotIndex : pending[j] = replies'[l]
                        /\ state'[replies'[l].caller] = "reply_blocked"
                        /\ replies'[l].caller \notin completed
                        /\ \A m \in SlotIndex : replies'[m].caller = replies'[l].caller => l = m
      BY <1>4 DEF SealsAreHonourable
    <2>1. CASE l = k
      <3>1. c \notin completed
        BY <1>2, <1>5, <1>6, ThreadIdAssumption DEF Handover, Calling, invalid_thread
      <3>2. QED BY <1>2, <1>6, <1>7, <2>1, <3>1
    <2>2. CASE l # k
      <3>1. /\ replies[l].caller \in ThreadId
            /\ \E j \in SlotIndex : pending[j] = replies[l]
            /\ state[replies[l].caller] = "reply_blocked"
            /\ replies[l].caller \notin completed
            /\ \A m \in SlotIndex : replies[m].caller = replies[l].caller => l = m
        BY <1>7, <2>2, SealedCall DEF RunningInv
      <3>2. replies[l].caller # c
        BY <1>6
      <3>3. QED BY <1>2, <1>6, <1>7, <2>2, <3>1, <3>2
    <2>3. QED BY <2>1, <2>2
  <1>9. ASSUME NEW y \in ThreadId PROVE Handover(y)'
    <2>1. Handover(y)
      BY DEF RunningInv
    <2>2. CASE y = t
      BY <1>2, <1>4, <1>6, <1>7, <2>2 DEF Handover, Calling
    <2>3. CASE y = c
      <3>1. state[c] \in Calling
        BY <1>2, <1>5, ThreadIdAssumption DEF Handover, Calling, invalid_thread
      <3>2. recv_armed[c] = NotArmed /\ c \notin completed /\ wake[c] # "deadline_expired"
        BY <1>5, <3>1 DEF Handover, Calling
      <3>3. QED BY <1>4, <1>6, <1>7, <2>3, <3>2 DEF Handover, Calling
    <2>4. CASE y # t /\ y # c
      <3>1. /\ state'[y] = state[y] /\ partner'[y] = partner[y] /\ wake'[y] = wake[y]
            /\ recv_armed'[y] = recv_armed[y]
        BY <1>6, <1>7, <2>4, Zenon
      <3>2. ASSUME state[y] = "ready", partner[y] # invalid_thread
            PROVE  /\ state'[partner[y]] = "reply_blocked" /\ partner'[partner[y]] = y
                   /\ \A l \in SlotIndex : replies'[l].caller # partner[y]
        <4>1. /\ state[partner[y]] = "reply_blocked" /\ partner[partner[y]] = y
              /\ \A l \in SlotIndex : replies[l].caller # partner[y]
          BY <2>1, <3>2 DEF Handover
        <4>2. partner[y] \in ThreadId
          BY <1>3, <3>2 DEF OptThread
        <4>3. partner[y] # c /\ partner[y] # t
          BY <1>2, <1>6, <2>4, <4>1
        <4>4. QED BY <1>2, <1>6, <1>7, <4>1, <4>2, <4>3
      <3>3. QED BY <1>4, <2>1, <3>1, <3>2, ZenonT(30) DEF Handover
    <2>5. QED BY <2>2, <2>3, <2>4
  <1>10. RunningThreadIsComplete'
    BY <1>2, <1>4, <1>6, <1>7 DEF RunningThreadIsComplete
  <1>11. QED BY <1>8, <1>9, <1>10 DEF CGoal, CallsAreWhole, HandoverInv

\* The running thread has nothing to complete, so what it receives is whole.
LEMMA ReceiveNowCInv ==
  ASSUME RunningInv, NEW e, svc_receive_now(e)
  PROVE  CGoal'
  <1>1. PICK t : t = current
    OBVIOUS
  <1>2. /\ t \in ThreadId /\ receive_call(t, e) /\ current' = t /\ recv_armed' = recv_armed
        /\ recv_armed[t] = NotArmed
    BY <1>1 DEF svc_receive_now, contvars, receive_armed
  <1>3. t \notin completed
    BY <1>1, <1>2, ThreadIdAssumption DEF RunningInv, RunningThreadIsComplete, invalid_thread
  <1>4. QED BY <1>2, <1>3, ReceiveCallCInv

\* The receiver is armed as it blocks.
LEMMA ReceiveWaitCInv ==
  ASSUME RunningInv, NEW e \in Endpoint, NEW b \in BOOLEAN, svc_receive_wait(e, b)
  PROVE  CGoal'
  <1>1. PICK c : c = current
    OBVIOUS
  <1>2. /\ c \in ThreadId /\ state[c] = "ready" /\ partner[c] = invalid_thread
        /\ state' = [state EXCEPT ![c] = "receive_blocked"] /\ partner' = partner
        /\ wake' = [wake EXCEPT ![c] = "none"]
        /\ recv_armed' = [recv_armed EXCEPT ![c] = [endpoint |-> e, bounded |-> b]]
        /\ current' = invalid_thread
        /\ UNCHANGED <<pending, replies, completed, fault>>
    BY <1>1 DEF svc_receive_wait, arm_receive, wait_receive
  <1>3. /\ state \in [ThreadId -> ThreadState] /\ wake \in [ThreadId -> WakeReason]
        /\ recv_armed \in [ThreadId -> [endpoint : Endpoint, bounded : BOOLEAN] \cup {NotArmed}]
    BY DEF RunningInv, PInv, KInv, RInv, TypeOK, KTypeOK
  <1>4. /\ state'[c] = "receive_blocked" /\ wake'[c] = "none" /\ recv_armed'[c] # NotArmed
        /\ \A y \in ThreadId \ {c} :
              state'[y] = state[y] /\ wake'[y] = wake[y] /\ recv_armed'[y] = recv_armed[y]
    BY <1>2, <1>3 DEF NotArmed, NoEndpoint, Endpoint, EndpointSlot
  <1>5. c \notin completed
    BY <1>1, <1>2, ThreadIdAssumption DEF RunningInv, RunningThreadIsComplete, invalid_thread
  <1>6. Handover(c)'
    BY <1>2, <1>4, <1>5 DEF Handover, Calling
  <1>7. \A y \in ThreadId : Handover(y)'
    BY <1>2, <1>4, <1>6, HandoverKept
  <1>8. SealsAreHonourable'
    BY <1>2, <1>4, SealsKept DEF RunningInv
  <1>9. RunningThreadIsComplete'
    BY <1>2 DEF RunningThreadIsComplete
  <1>10. QED BY <1>7, <1>8, <1>9 DEF CGoal, CallsAreWhole, HandoverInv

\* svc_reply: the seal it consumes is the caller's only one, so nobody else was
\* handed the call.
LEMMA ReplyCInv ==
  ASSUME RunningInv, NEW k \in SlotIndex, svc_reply(k)
  PROVE  CGoal'
  <1>1. PICK c : c = replies[k].caller
    OBVIOUS
  <1>2. /\ c \in ThreadId /\ state[c] = "reply_blocked"
        /\ state' = [state EXCEPT ![c] = "ready"]
        /\ partner' = [partner EXCEPT ![c] = invalid_thread]
        /\ wake' = [wake EXCEPT ![c] = "replied"]
        /\ completed' = completed \cup {c}
        /\ replies' = [replies EXCEPT ![k] = NoCall]
        /\ current' = invalid_thread /\ recv_armed' = recv_armed
    BY <1>1 DEF svc_reply, reply, find, contvars
  <1>3. PICK i \in SlotIndex : pending[i].caller = c /\ pending' = [pending EXCEPT ![i] = NoCall]
    BY <1>1, Zenon DEF svc_reply, pending_of, first
  <1>4. /\ state \in [ThreadId -> ThreadState] /\ partner \in [ThreadId -> OptThread]
        /\ wake \in [ThreadId -> WakeReason]
        /\ pending \in [SlotIndex -> OptCall] /\ replies \in [SlotIndex -> OptCall]
    BY DEF RunningInv, PInv, KInv, RInv, TypeOK, KTypeOK
  <1>5. /\ state'[c] = "ready" /\ partner'[c] = invalid_thread /\ wake'[c] = "replied"
        /\ \A y \in ThreadId \ {c} :
              state'[y] = state[y] /\ partner'[y] = partner[y] /\ wake'[y] = wake[y]
        /\ replies'[k] = NoCall /\ \A l \in SlotIndex \ {k} : replies'[l] = replies[l]
        /\ \A j \in SlotIndex \ {i} : pending'[j] = pending[j]
    BY <1>2, <1>3, <1>4
  <1>6. \A l \in SlotIndex : replies[l].caller = c => l = k
    <2>1. replies[k] # NoCall
      BY <1>1, <1>2, ThreadIdAssumption DEF NoCall, invalid_thread
    <2>2. QED BY <1>1, <2>1, SealedCall DEF RunningInv
  <1>7. SealsAreHonourable'
    <2> SUFFICES ASSUME NEW l \in SlotIndex, replies'[l] # NoCall
                 PROVE  /\ \E j \in SlotIndex : pending'[j] = replies'[l]
                        /\ state'[replies'[l].caller] = "reply_blocked"
                        /\ replies'[l].caller \notin completed'
                        /\ \A m \in SlotIndex : replies'[m].caller = replies'[l].caller => l = m
      BY DEF SealsAreHonourable
    <2>1. l # k /\ replies'[l] = replies[l]
      BY <1>5
    <2>2. /\ replies[l].caller \in ThreadId
          /\ \E j \in SlotIndex : pending[j] = replies[l]
          /\ state[replies[l].caller] = "reply_blocked"
          /\ replies[l].caller \notin completed
          /\ \A m \in SlotIndex : replies[m].caller = replies[l].caller => l = m
      BY <2>1, SealedCall DEF RunningInv
    <2>3. replies[l].caller # c
      BY <1>6, <2>1
    <2>4. \E j \in SlotIndex : pending'[j] = replies[l]
      BY <1>3, <1>5, <2>2, <2>3
    <2>5. replies'[k].caller # replies[l].caller
      BY <1>5, <2>2, ThreadIdAssumption DEF NoCall, invalid_thread
    <2>6. QED BY <1>2, <1>5, <2>1, <2>2, <2>3, <2>4, <2>5
  <1>8. ASSUME NEW y \in ThreadId PROVE Handover(y)'
    <2>1. Handover(y)
      BY DEF RunningInv
    <2>2. CASE y = c
      BY <1>2, <1>5, <2>1, <2>2 DEF Handover, Calling
    <2>3. CASE y # c
      <3>1. ASSUME state[y] = "ready", partner[y] # invalid_thread
            PROVE  /\ state'[partner[y]] = "reply_blocked" /\ partner'[partner[y]] = y
                   /\ \A l \in SlotIndex : replies'[l].caller # partner[y]
        <4>1. /\ state[partner[y]] = "reply_blocked" /\ partner[partner[y]] = y
              /\ \A l \in SlotIndex : replies[l].caller # partner[y]
          BY <2>1, <3>1 DEF Handover
        <4>2. partner[y] \in ThreadId /\ partner[y] # c
          BY <1>1, <1>4, <3>1, <4>1 DEF OptThread
        <4>3. NoCall.caller # partner[y]
          BY <3>1 DEF NoCall
        <4>4. QED BY <1>5, <4>1, <4>2, <4>3
      <3>2. QED BY <1>2, <1>5, <2>1, <2>3, <3>1 DEF Handover
    <2>4. QED BY <2>2, <2>3
  <1>9. RunningThreadIsComplete'
    BY <1>2 DEF RunningThreadIsComplete
  <1>10. QED BY <1>7, <1>8, <1>9 DEF CGoal, CallsAreWhole, HandoverInv

(* retire_ipc_endpoint: a seal or a delivery that survives names a call on another
   endpoint, whose caller is not among those released. *)
LEMMA RetireCInv ==
  ASSUME RunningInv, NEW e \in Endpoint, retire_ipc_endpoint(owner(e), e)
  PROVE  CGoal'
  <1>1. PICK t : t = owner(e)
    OBVIOUS
  <1> DEFINE released == cancelled_by({e}) \cup (IF receive_waiting(e) THEN {t} ELSE {})
  <1>2. /\ state' = [o \in ThreadId |-> IF o \in released THEN "ready" ELSE state[o]]
        /\ partner' = [o \in ThreadId |->
              IF \/ o \in released
                 \/ o = t /\ state[t] = "ready" /\ partner[t] \in cancelled_by({e})
              THEN invalid_thread ELSE partner[o]]
        /\ wake' = [o \in ThreadId |-> IF o \in released THEN "endpoint_retired" ELSE wake[o]]
        /\ pending' = drop_calls(pending, {i \in SlotIndex : pending[i].endpoint = e})
        /\ replies' = drop_calls(replies, {i \in SlotIndex : replies[i].endpoint = e})
        /\ recv_armed' = IF receive_waiting(e) THEN disarmed(t) ELSE recv_armed
        /\ completed' = completed /\ current' = current /\ fault' = fault
    BY <1>1 DEF retire_ipc_endpoint
  <1>3. receive_waiting(e) => t \in ThreadId /\ state[t] = "receive_blocked"
    BY <1>1 DEF retire_ipc_endpoint, retired_with, receive_waiting_thread, find
  <1>4. \A o \in cancelled_by({e}) : o \in ThreadId /\ state[o] \in Calling
    BY DEF cancelled_by, callers_of, Calling
  <1>5. \A o \in released : o \in ThreadId /\ state[o] # "ready" /\ state[o] # "exited"
    BY <1>3, <1>4 DEF Calling
  <1>6. /\ partner \in [ThreadId -> OptThread] /\ replies \in [SlotIndex -> OptCall]
        /\ recv_armed \in [ThreadId -> [endpoint : Endpoint, bounded : BOOLEAN] \cup {NotArmed}]
    BY DEF RunningInv, PInv, KInv, RInv, TypeOK, KTypeOK
  <1>7. PInv
    BY DEF RunningInv
  <1>8. ASSUME NEW d \in ThreadId, state[d] = "reply_blocked", d \notin cancelled_by({e})
        PROVE  state'[d] = "reply_blocked" /\ partner'[d] = partner[d]
    BY <1>2, <1>3, <1>8
  <1>9. \A i \in SlotIndex :
           /\ pending[i].endpoint # e => pending'[i] = pending[i]
           /\ replies'[i] = IF replies[i].endpoint = e THEN NoCall ELSE replies[i]
    BY <1>2 DEF drop_calls
  <1>10. SealsAreHonourable'
    <2> SUFFICES ASSUME NEW l \in SlotIndex, replies'[l] # NoCall
                 PROVE  /\ \E j \in SlotIndex : pending'[j] = replies'[l]
                        /\ state'[replies'[l].caller] = "reply_blocked"
                        /\ replies'[l].caller \notin completed'
                        /\ \A m \in SlotIndex : replies'[m].caller = replies'[l].caller => l = m
      BY DEF SealsAreHonourable
    <2>1. replies'[l] = replies[l] /\ replies[l].endpoint # e
      BY <1>9
    <2>2. /\ replies[l].caller \in ThreadId
          /\ state[replies[l].caller] = "reply_blocked"
          /\ replies[l].caller \notin completed
          /\ \A m \in SlotIndex : replies[m].caller = replies[l].caller => l = m
      BY <2>1, SealedCall DEF RunningInv
    <2>3. PICK j \in SlotIndex : pending[j] = replies[l]
      BY <2>1, SealedCall DEF RunningInv
    <2>4. replies[l].caller \notin cancelled_by({e})
      <3>1. PICK E : E = {e}
        BY Zenon
      <3>2. pending[j].caller \notin cancelled_by(E)
        BY <1>7, <2>1, <2>2, <2>3, <3>1, CancelledCalls
      <3>3. QED BY <2>3, <3>1, <3>2
    <2>5. state'[replies[l].caller] = "reply_blocked"
      BY <1>8, <2>2, <2>4
    <2>6. NoCall.caller # replies[l].caller
      BY <2>2, ThreadIdAssumption DEF NoCall, invalid_thread
    <2>7. QED BY <1>2, <1>9, <2>1, <2>2, <2>3, <2>5, <2>6, Zenon
  <1>11. ASSUME NEW y \in ThreadId PROVE Handover(y)'
    <2>1. Handover(y)
      BY DEF RunningInv
    <2>2. CASE y \in released
      <3>1. /\ state'[y] = "ready" /\ partner'[y] = invalid_thread /\ wake'[y] = "endpoint_retired"
        BY <1>2, <2>2, Zenon
      <3>2. y \notin completed
        BY <1>5, <2>1, <2>2 DEF Handover
      <3>3. QED BY <1>2, <3>1, <3>2, Zenon DEF Handover, Calling
    <2>3. CASE y \notin released
      <3>1. state'[y] = state[y] /\ wake'[y] = wake[y]
        BY <1>2, <2>3
      <3>2. recv_armed'[y] = recv_armed[y]
        BY <1>2, <1>6, <2>3 DEF disarmed
      <3>3. partner'[y] \in {partner[y], invalid_thread}
        BY <1>2
      <3>4. ASSUME state[y] = "ready", partner'[y] # invalid_thread
            PROVE  /\ partner'[y] = partner[y]
                   /\ recv_armed[y] # NotArmed
                   /\ state'[partner[y]] = "reply_blocked" /\ partner'[partner[y]] = y
                   /\ \A l \in SlotIndex : replies'[l].caller # partner[y]
        <4>1. partner'[y] = partner[y] /\ partner[y] # invalid_thread /\ partner[y] \in ThreadId
          BY <1>6, <3>3, <3>4 DEF OptThread
        <4>2. /\ state[partner[y]] = "reply_blocked" /\ partner[partner[y]] = y
              /\ recv_armed[y] # NotArmed
              /\ \A l \in SlotIndex : replies[l].caller # partner[y]
          BY <2>1, <3>4, <4>1 DEF Handover
        <4>3. partner[y] \notin cancelled_by({e})
          <5>1. SUFFICES ASSUME partner[y] \in cancelled_by({e}) PROVE FALSE
            OBVIOUS
          <5>2. PICK i \in SlotIndex : /\ pending[i].caller = partner[y] /\ pending[i].endpoint = e
                                       /\ partner[y] \in callers_of(pending[i].server)
            BY <5>1 DEF cancelled_by
          <5>3. pending[i].server = y
            BY <4>2, <5>2 DEF callers_of
          <5>4. owner(e) = y
            BY <1>7, <4>1, <5>2, <5>3, PendingCall
          <5>5. QED BY <1>1, <1>2, <3>4, <5>1, <5>4
        <4>4. NoCall.caller # partner[y]
          BY <4>1 DEF NoCall
        <4>5. QED BY <1>8, <1>9, <4>1, <4>2, <4>3, <4>4
      <3>5. partner[y] = invalid_thread => partner'[y] = invalid_thread
        BY <3>3
      <3>6. QED BY <1>2, <2>1, <3>1, <3>2, <3>4, <3>5, ZenonT(30) DEF Handover
    <2>4. QED BY <2>2, <2>3
  <1>12. RunningThreadIsComplete'
    <2> SUFFICES ASSUME current # invalid_thread
                 PROVE  /\ state'[current] = "ready" /\ partner'[current] = invalid_thread
                        /\ recv_armed'[current] = NotArmed /\ current \notin completed
      BY <1>2 DEF RunningThreadIsComplete
    <2>1. /\ state[current] = "ready" /\ partner[current] = invalid_thread
          /\ recv_armed[current] = NotArmed /\ current \notin completed
      BY DEF RunningInv, RunningThreadIsComplete
    <2>2. current \in ThreadId
      BY DEF RunningInv, PInv, KInv, KTypeOK, OptThread
    <2>3. current \notin released
      BY <1>5, <2>1
    <2>4. recv_armed'[current] = NotArmed
      BY <1>2, <1>6, <2>1, <2>2 DEF disarmed
    <2>5. QED BY <1>2, <2>1, <2>2, <2>3, <2>4
  <1>13. QED BY <1>10, <1>11, <1>12 DEF CGoal, CallsAreWhole, HandoverInv

\* ipc_expire_one_receive disarms the receiver it wakes, or stops the machine.
LEMMA ExpireCInv ==
  ASSUME RunningInv, NEW t \in ThreadId, ipc_expire_one_receive(t)
  PROVE  CGoal'
  <1>1. /\ recv_armed' = [recv_armed EXCEPT ![t] = NotArmed] /\ current' = invalid_thread
        /\ UNCHANGED <<pending, replies, completed>>
    BY DEF ipc_expire_one_receive, take_expired_receive, disarmed, ipcvars
  <1>2. RunningThreadIsComplete'
    BY <1>1 DEF RunningThreadIsComplete
  <1>3. CASE expire_receive(t)
    <2>1. /\ state[t] = "receive_blocked" /\ partner[t] = invalid_thread
          /\ state'[t] = "ready" /\ partner' = partner
          /\ recv_armed'[t] = NotArmed
          /\ \A y \in ThreadId \ {t} :
                state'[y] = state[y] /\ wake'[y] = wake[y] /\ recv_armed'[y] = recv_armed[y]
      BY <1>1, <1>3 DEF expire_receive, wake_receiver, receive_waiting_thread,
                        RunningInv, PInv, KInv, RInv, TypeOK, KTypeOK
    <2>2. Handover(t)
      BY DEF RunningInv
    <2>3. Handover(t)'
      BY <1>1, <2>1, <2>2 DEF Handover, Calling
    <2>4. \A y \in ThreadId : Handover(y)'
      BY <1>1, <2>1, <2>3, HandoverKept
    <2>5. SealsAreHonourable'
      BY <1>1, <2>1, SealsKept DEF RunningInv
    <2>6. QED BY <1>2, <2>4, <2>5 DEF CGoal, CallsAreWhole, HandoverInv
  <1>4. CASE fault' = "expiry" /\ UNCHANGED rvars
    <2>1. SealsAreHonourable'
      BY <1>1, <1>4, SealsKept DEF rvars, RunningInv
    <2>2. QED BY <1>2, <1>4, <2>1 DEF CGoal, CallsAreWhole, HandoverInv
  <1>5. QED BY <1>3, <1>4 DEF ipc_expire_one_receive

(* switch_to: exactly one of the four completions applies, and it leaves the chosen
   thread with nothing more to complete. *)
LEMMA SwitchCInv ==
  ASSUME RunningInv, NEW t \in ThreadId, switch_to(t)
  PROVE  CGoal'
  <1>1. state[t] = "ready" /\ current' = t
    BY ChosenIsReady DEF RunningInv, PInv, switch_to
  <1>2. Handover(t)
    BY DEF RunningInv
  <1>3. /\ wake \in [ThreadId -> WakeReason]
        /\ recv_armed \in [ThreadId -> [endpoint : Endpoint, bounded : BOOLEAN] \cup {NotArmed}]
    BY DEF RunningInv, PInv, KInv, RInv, TypeOK, KTypeOK
  <1>4. CASE complete_receive(t) /\ receive_call(t, recv_armed[t].endpoint)
    <2>1. /\ recv_armed'[t] = NotArmed /\ recv_armed[t] # NotArmed
          /\ \A x \in ThreadId \ {t} : recv_armed'[x] = recv_armed[x]
      BY <1>3, <1>4 DEF complete_receive, take_receive, receive_armed, disarmed
    <2>2. t \notin completed
      BY <1>2, <2>1 DEF Handover
    <2>3. QED BY <1>1, <1>4, <2>1, <2>2, ReceiveCallCInv
  <1>5. CASE complete_receive(t) /\ ~receive_call(t, recv_armed[t].endpoint)
    <2>1. fault' = "completion" /\ UNCHANGED <<rvars, ipcvars>>
      BY <1>5 DEF complete_receive
    <2>2. SealsAreHonourable'
      BY <2>1, SealsKept DEF rvars, ipcvars, RunningInv
    <2>3. QED BY <2>1, <2>2 DEF CGoal, CallsAreWhole, HandoverInv, RunningThreadIsComplete
  <1>6. CASE complete_expiry(t)
    <2>1. /\ wake[t] = "deadline_expired" /\ wake'[t] = "none"
          /\ \A y \in ThreadId \ {t} : wake'[y] = wake[y]
          /\ state' = state /\ partner' = partner
          /\ UNCHANGED <<pending, replies, completed, recv_armed, fault>>
      BY <1>3, <1>6 DEF complete_expiry, take_deadline_expiry, ipcvars, contvars
    <2>2. Handover(t)'
      BY <1>1, <1>2, <2>1 DEF Handover, Calling
    <2>3. \A y \in ThreadId : Handover(y)'
      BY <1>1, <2>1, <2>2, HandoverKept
    <2>4. SealsAreHonourable'
      BY <2>1, SealsKept DEF RunningInv
    <2>5. RunningThreadIsComplete'
      BY <1>1, <1>2, <2>1 DEF Handover, RunningThreadIsComplete
    <2>6. QED BY <2>3, <2>4, <2>5 DEF CGoal, CallsAreWhole, HandoverInv
  <1>7. CASE complete_reply(t)
    <2>1. /\ t \in completed /\ completed' = completed \ {t}
          /\ state' = state /\ partner' = partner /\ wake' = wake
          /\ UNCHANGED <<pending, replies, recv_armed>>
          /\ wake[t] # "deadline_expired"
      BY <1>7 DEF complete_reply, rvars
    <2>2. Handover(t)'
      BY <1>1, <1>2, <2>1 DEF Handover, Calling
    <2>3. \A y \in ThreadId : Handover(y)'
      BY <1>1, <2>1, <2>2, HandoverKept
    <2>4. SealsAreHonourable'
      BY <2>1, SealsKept DEF RunningInv
    <2>5. RunningThreadIsComplete'
      BY <1>1, <1>2, <2>1 DEF Handover, RunningThreadIsComplete
    <2>6. QED BY <2>3, <2>4, <2>5 DEF CGoal, CallsAreWhole, HandoverInv
  <1>8. CASE nothing_to_complete(t)
    <2>1. /\ t \notin completed /\ recv_armed[t] = NotArmed
          /\ state' = state /\ partner' = partner /\ wake' = wake
          /\ UNCHANGED <<pending, replies, completed, recv_armed, fault>>
      BY <1>8 DEF nothing_to_complete, receive_armed, rvars, ipcvars, contvars
    <2>2. Handover(t)'
      BY <1>2, <2>1 DEF Handover, Calling
    <2>3. \A y \in ThreadId : Handover(y)'
      BY <1>1, <2>1, <2>2, HandoverKept
    <2>4. SealsAreHonourable'
      BY <2>1, SealsKept DEF RunningInv
    <2>5. RunningThreadIsComplete'
      BY <1>1, <1>2, <2>1 DEF Handover, RunningThreadIsComplete
    <2>6. QED BY <2>3, <2>4, <2>5 DEF CGoal, CallsAreWhole, HandoverInv
  <1>9. QED BY <1>4, <1>5, <1>6, <1>7, <1>8 DEF switch_to

\* No call is under way to begin with.
LEMMA InitCInv == KInit => CInv
  <1> SUFFICES ASSUME KInit PROVE CInv
    OBVIOUS
  <1>1. PInv
    BY InitPInv
  <1>2. \A t \in ThreadId : Handover(t)
    BY Zenon DEF Handover, KInit, Init, Calling
  <1>3. CallsAreWhole
    BY Zenon DEF CallsAreWhole, SealsAreHonourable, RunningThreadIsComplete, KInit
  <1>4. QED BY <1>1, <1>2, <1>3 DEF CInv, HandoverInv

NoDeath == ~(\E t \in Mortal : destroy_thread(t))

\* A step that changes nothing keeps the calls whole.
LEMMA StutterCInv ==
  ASSUME CInv, UNCHANGED kvars
  PROVE  CInv'
  <1>1. PInv'
    BY StutterKInv, StutterCalls DEF CInv, PInv
  <1>2. UNCHANGED <<state, partner, wake, pending, replies, completed, recv_armed, current, fault>>
    BY DEF kvars, rvars, ipcvars, contvars
  <1>3. CallsAreWhole' /\ HandoverInv'
    BY <1>2, ZenonT(30) DEF CallsAreWhole, HandoverInv, Handover, SealsAreHonourable,
                RunningThreadIsComplete, CInv
  <1>4. QED BY <1>1, <1>3 DEF CInv

\* Every step but a death keeps the calls whole.
LEMMA NextCInv ==
  ASSUME CInv, KNext, NoDeath
  PROVE  CInv'
  <1>1. PInv'
    BY NextPInv DEF CInv, NoDeath
  <1>2. RunningInv
    BY DEF KNext, CInv, CallsAreWhole, HandoverInv, RunningInv
  <1>3. ASSUME NEW t \in ThreadId, NEW p \in Priority,
               kernel_create_thread(t, p) \/ kernel_create_admitted_thread(t, p)
        PROVE  CGoal'
    BY <1>2, <1>3, CreateCInv
  <1>4. ASSUME NEW t \in ThreadId, thread_start(t) \/ switch_to(t) \/ ipc_expire_one_receive(t)
        PROVE  CGoal'
    BY <1>2, <1>4, StartCInv, SwitchCInv, ExpireCInv
  <1>5. ASSUME NEW t \in Server, create_ipc_endpoint(t)
        PROVE  CGoal'
    BY <1>2, <1>5, CreateEndpointCInv
  <1>6. ASSUME NEW e \in Endpoint, retire_ipc_endpoint(owner(e), e)
        PROVE  CGoal'
    BY <1>2, <1>6, RetireCInv
  <1>7. ASSUME NEW e \in Endpoint, svc_send(e) \/ svc_receive_now(e)
        PROVE  CGoal'
    BY <1>2, <1>7, SendCInv, ReceiveNowCInv
  <1>8. ASSUME NEW e \in Endpoint, NEW b \in Bounded, svc_receive_wait(e, b)
        PROVE  CGoal'
    BY <1>2, <1>8, ReceiveWaitCInv, KernelIpcAssumption
  <1>9. ASSUME NEW k \in SlotIndex, svc_reply(k)
        PROVE  CGoal'
    BY <1>2, <1>9, ReplyCInv
  <1>10. ~(\E t \in Mortal : destroy_thread(t))
    BY KernelIpcAssumption DEF NoDeath
  <1>11. CGoal'
    BY <1>3, <1>4, <1>5, <1>6, <1>7, <1>8, <1>9, <1>10 DEF KNext
  <1>12. QED BY <1>1, <1>11 DEF CInv, CGoal

\* As long as no thread is destroyed, a call is handed over, answered and completed
\* as one in every reachable state, through retired endpoints and expired deadlines:
\* every seal a server holds can be honoured, no call is handed over twice, and the
\* running thread has nothing half finished.  (destroy_thread does not clear what a
\* dying caller had delivered to a receiver that has not run yet.)
THEOREM CallsStayWhole == KSpec /\ [][NoDeath]_kvars => []CallsAreWhole
  <1>1. CInv /\ [KNext]_kvars /\ [NoDeath]_kvars => CInv'
    BY NextCInv, StutterCInv
  <1>2. CInv => CallsAreWhole
    BY DEF CInv
  <1>3. QED BY InitCInv, <1>1, <1>2, PTL DEF KSpec

-----------------------------------------------------------------------------
(***************************************************************************)
(* The call protocol: under CInv every kernel step is a step of            *)
(* CallProtocol, or unseen.                                                *)
(***************************************************************************)
\* The server a pending call is addressed to, for a caller with one pending call.
PeersKnown ==
    \A t \in ThreadId :
        /\ \A i \in SlotIndex : pending[i].caller = t => call_peer(t) = pending[i].server
        /\ (\A i \in SlotIndex : pending[i].caller # t) => call_peer(t) = invalid_thread

\* A caller has one pending entry, so the one the mapping chooses is it.
LEMMA PeerIsServer == PInv => PeersKnown
  <1> SUFFICES ASSUME PInv, NEW t \in ThreadId, NEW i \in SlotIndex, pending[i].caller = t
               PROVE  call_peer(t) = pending[i].server
    BY Zenon DEF PeersKnown, call_peer
  <1>1. \A j \in SlotIndex : pending[j].caller = t => j = i
    BY PendingCall
  <1>2. (CHOOSE j \in SlotIndex : pending[j].caller = t) = i
    BY <1>1
  <1>3. QED BY <1>2, Zenon DEF call_peer

\* Steps that leave the three tables alone are invisible to the protocol.
LEMMA UnseenStep ==
  ASSUME pending' = pending, replies' = replies, completed' = completed
  PROVE  UNCHANGED Protocol!pvars
  <1>1. \A t \in ThreadId : call_phase(t)' = call_phase(t)
    BY DEF call_phase
  <1>2. \A t \in ThreadId : call_peer(t)' = call_peer(t)
    BY DEF call_peer
  <1>3. QED BY <1>1, <1>2 DEF Protocol!pvars

\* A thread with a pending call is blocked in it, so it has no answer waiting, and a
\* thread that is ready has neither a pending call nor a seal.
LEMMA CallerIsBlocked ==
  ASSUME RunningInv
  PROVE  /\ \A i \in SlotIndex : pending[i].caller \in ThreadId =>
               state[pending[i].caller] \in Calling /\ pending[i].caller \notin completed
         /\ \A k \in SlotIndex : replies[k].caller \in ThreadId =>
               /\ state[replies[k].caller] = "reply_blocked"
               /\ replies[k].caller \notin completed
  <1>1. ASSUME NEW i \in SlotIndex, pending[i].caller \in ThreadId
        PROVE  state[pending[i].caller] \in Calling /\ pending[i].caller \notin completed
    <2>1. state[pending[i].caller] \in Calling
      BY <1>1, PendingCall DEF RunningInv, callers_of, Calling
    <2>2. Handover(pending[i].caller)
      BY <1>1 DEF RunningInv
    <2>3. QED BY <2>1, <2>2 DEF Handover, Calling
  <1>2. ASSUME NEW k \in SlotIndex, replies[k].caller \in ThreadId
        PROVE  /\ state[replies[k].caller] = "reply_blocked"
               /\ replies[k].caller \notin completed
    <2>1. replies[k] # NoCall
      BY <1>2, ThreadIdAssumption DEF NoCall, invalid_thread
    <2>2. QED BY <2>1, SealedCall DEF RunningInv
  <1>3. QED BY <1>1, <1>2

\* svc_send asks: the running thread had no call, and its entry names the endpoint's
\* owner.
LEMMA SendAsks ==
  ASSUME RunningInv, PInv', NEW e \in Endpoint, svc_send(e)
  PROVE  Protocol!ProtocolNext
  <1>1. PICK c, s : c = current /\ s = owner(e)
    OBVIOUS
  <1>2. c \in ThreadId /\ s \in ThreadId /\ c # s /\ state[c] = "ready"
    BY <1>1, SendEffect DEF RunningInv, PInv
  <1>3. replies' = replies /\ completed' = completed /\ c \notin completed
    BY <1>1 DEF svc_send, send_to_endpoint
  <1>4. PICK i \in SlotIndex :
           /\ pending[i] = NoCall
           /\ pending'[i].caller = c /\ pending'[i].server = s
           /\ \A j \in SlotIndex : j # i => pending'[j] = pending[j]
    BY <1>1 DEF svc_send, send_to_endpoint, free_pending, first, RunningInv, PInv, KInv, KTypeOK
  <1>5. \A j \in SlotIndex : pending[j].caller # c /\ replies[j].caller # c
    BY <1>2, CallerIsBlocked DEF Calling
  <1>6. PeersKnown /\ PeersKnown'
    BY PeerIsServer, PTL DEF RunningInv
  <1>7. NoCall.caller \notin ThreadId
    BY ThreadIdAssumption DEF NoCall, invalid_thread
  <1>8. /\ call_phase(c) = "idle" /\ call_phase(c)' = "asked" /\ call_peer(c)' = s
    <2>1. call_phase(c) = "idle"
      BY <1>3, <1>5 DEF call_phase
    <2>2. call_phase(c)' = "asked"
      BY <1>3, <1>4, <1>5 DEF call_phase
    <2>3. call_peer(c)' = s
      BY <1>2, <1>4, <1>6 DEF PeersKnown
    <2>4. QED BY <2>1, <2>2, <2>3
  <1>9. ASSUME NEW x \in ThreadId, x # c
        PROVE  call_phase(x)' = call_phase(x) /\ call_peer(x)' = call_peer(x)
    <2>1. \A j \in SlotIndex : pending'[j].caller = x <=> pending[j].caller = x
      BY <1>4, <1>7, <1>9
    <2>2. call_phase(x)' = call_phase(x)
      BY <1>3, <2>1 DEF call_phase
    <2>3. CASE \E j \in SlotIndex : pending[j].caller = x
      <3>1. PICK j \in SlotIndex : pending[j].caller = x
        BY <2>3
      <3>2. pending'[j] = pending[j]
        BY <1>4, <1>7, <3>1
      <3>3. call_peer(x) = pending[j].server /\ call_peer(x)' = pending'[j].server
        BY <1>6, <3>1, <3>2 DEF PeersKnown
      <3>4. QED BY <2>2, <3>2, <3>3
    <2>4. CASE \A j \in SlotIndex : pending[j].caller # x
      BY <1>6, <2>1, <2>2, <2>4 DEF PeersKnown
    <2>5. QED BY <2>3, <2>4
  <1>10. Protocol!Ask(c, s)
    <2>1. [t \in ThreadId |-> call_phase(t)'] =
          [[t \in ThreadId |-> call_phase(t)] EXCEPT ![c] = "asked"]
      BY <1>2, <1>8, <1>9, Zenon
    <2>2. [t \in ThreadId |-> call_peer(t)'] =
          [[t \in ThreadId |-> call_peer(t)] EXCEPT ![c] = s]
      BY <1>2, <1>8, <1>9, Zenon
    <2>3. QED BY <1>2, <1>8, <2>1, <2>2 DEF Protocol!Ask
  <1>11. QED BY <1>2, <1>10 DEF Protocol!ProtocolNext

\* receive_call accepts: the call it seals had been asked and never handed over.
LEMMA ReceiveAccepts ==
  ASSUME RunningInv, NEW t \in ThreadId, NEW e, receive_call(t, e)
  PROVE  Protocol!ProtocolNext
  <1>1. PICK i, k \in SlotIndex : \E c \in ThreadId :
            /\ pending[i].caller = c /\ replies[k] = NoCall
            /\ replies' = [replies EXCEPT ![k] = pending[i]]
            /\ \/ partner[t] = c
               \/ state[c] = "send_blocked"
            /\ state[t] = "ready"
    BY HandedOver DEF RunningInv, PInv
  <1>2. PICK c \in ThreadId :
            /\ pending[i].caller = c /\ replies[k] = NoCall
            /\ replies' = [replies EXCEPT ![k] = pending[i]]
            /\ \/ partner[t] = c
               \/ state[c] = "send_blocked"
            /\ state[t] = "ready"
    BY <1>1
  <1>3. pending' = pending /\ completed' = completed
    BY Zenon DEF receive_call
  <1>4. replies \in [SlotIndex -> OptCall]
    BY DEF RunningInv, PInv, KInv, KTypeOK
  <1>5. c \notin completed
    BY <1>2, CallerIsBlocked
  <1>6. \A l \in SlotIndex : replies[l].caller # c
    <2>1. Handover(t)
      BY DEF RunningInv
    <2>2. CASE partner[t] = c
      BY <1>2, <2>1, <2>2, ThreadIdAssumption DEF Handover, invalid_thread
    <2>3. CASE state[c] = "send_blocked"
      BY <2>3, CallerIsBlocked
    <2>4. QED BY <1>2, <2>2, <2>3
  <1>7. replies'[k].caller = c /\ \A l \in SlotIndex : l # k => replies'[l] = replies[l]
    BY <1>2, <1>4
  <1>8. call_phase(c) = "asked" /\ call_phase(c)' = "held"
    <2>1. call_phase(c) = "asked"
      BY <1>2, <1>5, <1>6 DEF call_phase
    <2>2. call_phase(c)' = "held"
      BY <1>3, <1>5, <1>7 DEF call_phase
    <2>3. QED BY <2>1, <2>2
  <1>9. ASSUME NEW x \in ThreadId, x # c
        PROVE  call_phase(x)' = call_phase(x)
    <2>1. NoCall.caller # x
      BY ThreadIdAssumption DEF NoCall, invalid_thread
    <2>2. (\E l \in SlotIndex : replies'[l].caller = x) <=> \E l \in SlotIndex : replies[l].caller = x
      BY <1>2, <1>7, <1>9, <2>1
    <2>3. QED BY <1>3, <2>2 DEF call_phase
  <1>10. Protocol!Accept(c)
    <2>1. [y \in ThreadId |-> call_phase(y)'] =
          [[y \in ThreadId |-> call_phase(y)] EXCEPT ![c] = "held"]
      BY <1>8, <1>9, Zenon
    <2>2. \A y \in ThreadId : call_peer(y)' = call_peer(y)
      BY <1>3 DEF call_peer
    <2>3. QED BY <1>8, <2>1, <2>2 DEF Protocol!Accept
  <1>11. QED BY <1>10 DEF Protocol!ProtocolNext

\* svc_reply answers: the seal it consumes is the caller's only one and the pending
\* entry it clears the caller's only call.
LEMMA ReplyAnswers ==
  ASSUME RunningInv, PInv', NEW k \in SlotIndex, svc_reply(k)
  PROVE  Protocol!ProtocolNext
  <1>1. PICK c : c = replies[k].caller
    OBVIOUS
  <1>2. /\ c \in ThreadId /\ c \notin completed
        /\ completed' = completed \cup {c}
        /\ replies' = [replies EXCEPT ![k] = NoCall]
    BY <1>1 DEF svc_reply, reply, find
  <1>3. PICK i \in SlotIndex : pending[i].caller = c /\ pending' = [pending EXCEPT ![i] = NoCall]
    BY <1>1, Zenon DEF svc_reply, pending_of, first
  <1>4. pending \in [SlotIndex -> OptCall] /\ replies \in [SlotIndex -> OptCall]
    BY DEF RunningInv, PInv, KInv, KTypeOK
  <1>5. /\ replies'[k] = NoCall /\ \A l \in SlotIndex \ {k} : replies'[l] = replies[l]
        /\ pending'[i] = NoCall /\ \A j \in SlotIndex \ {i} : pending'[j] = pending[j]
    BY <1>2, <1>3, <1>4
  <1>6. PeersKnown /\ PeersKnown'
    BY PeerIsServer, PTL DEF RunningInv
  <1>7. NoCall.caller \notin ThreadId
    BY ThreadIdAssumption DEF NoCall, invalid_thread
  <1>8. call_phase(c) = "held" /\ call_phase(c)' = "answered" /\ call_peer(c)' = invalid_thread
    <2>1. call_phase(c) = "held"
      BY <1>1, <1>2 DEF call_phase
    <2>2. call_phase(c)' = "answered"
      BY <1>2 DEF call_phase
    <2>3. \A j \in SlotIndex : pending[j].caller = c => j = i
      BY <1>2, <1>3, PendingCall DEF RunningInv
    <2>4. \A j \in SlotIndex : pending'[j].caller # c
      BY <1>2, <1>5, <1>7, <2>3
    <2>5. QED BY <1>2, <1>6, <2>1, <2>2, <2>4 DEF PeersKnown
  <1>9. ASSUME NEW x \in ThreadId, x # c
        PROVE  call_phase(x)' = call_phase(x) /\ call_peer(x)' = call_peer(x)
    <2>1. \A j \in SlotIndex :
             /\ pending'[j].caller = x <=> pending[j].caller = x
             /\ replies'[j].caller = x <=> replies[j].caller = x
      BY <1>1, <1>3, <1>5, <1>7, <1>9
    <2>2. call_phase(x)' = call_phase(x)
      BY <1>2, <1>9, <2>1 DEF call_phase
    <2>3. CASE \E j \in SlotIndex : pending[j].caller = x
      <3>1. PICK j \in SlotIndex : pending[j].caller = x
        BY <2>3
      <3>2. pending'[j] = pending[j]
        BY <1>3, <1>5, <1>9, <3>1
      <3>3. call_peer(x) = pending[j].server /\ call_peer(x)' = pending'[j].server
        BY <1>6, <3>1, <3>2 DEF PeersKnown
      <3>4. QED BY <2>2, <3>2, <3>3
    <2>4. CASE \A j \in SlotIndex : pending[j].caller # x
      BY <1>6, <2>1, <2>2, <2>4 DEF PeersKnown
    <2>5. QED BY <2>3, <2>4
  <1>10. Protocol!Answer(c)
    <2>1. [t \in ThreadId |-> call_phase(t)'] =
          [[t \in ThreadId |-> call_phase(t)] EXCEPT ![c] = "answered"]
      BY <1>2, <1>8, <1>9, Zenon
    <2>2. [t \in ThreadId |-> call_peer(t)'] =
          [[t \in ThreadId |-> call_peer(t)] EXCEPT ![c] = invalid_thread]
      BY <1>2, <1>8, <1>9, Zenon
    <2>3. QED BY <1>2, <1>8, <2>1, <2>2 DEF Protocol!Answer
  <1>11. QED BY <1>2, <1>10 DEF Protocol!ProtocolNext

\* complete_reply collects: nothing of the answered call is left in the tables.
LEMMA CompletionCollects ==
  ASSUME RunningInv, NEW t \in ThreadId, complete_reply(t)
  PROVE  Protocol!ProtocolNext
  <1>1. /\ t \in completed /\ completed' = completed \ {t}
        /\ pending' = pending /\ replies' = replies
    BY DEF complete_reply
  <1>2. \A j \in SlotIndex : pending[j].caller # t /\ replies[j].caller # t
    BY <1>1, CallerIsBlocked
  <1>3. call_phase(t) = "answered" /\ call_phase(t)' = "idle"
    BY <1>1, <1>2 DEF call_phase
  <1>4. \A x \in ThreadId \ {t} : call_phase(x)' = call_phase(x)
    BY <1>1 DEF call_phase
  <1>5. [y \in ThreadId |-> call_phase(y)'] =
        [[y \in ThreadId |-> call_phase(y)] EXCEPT ![t] = "idle"]
    BY <1>3, <1>4, Zenon
  <1>6. \A y \in ThreadId : call_peer(y)' = call_peer(y)
    BY <1>1 DEF call_peer
  <1>7. Protocol!Collect(t)
    BY <1>3, <1>5, <1>6 DEF Protocol!Collect
  <1>8. QED BY <1>7 DEF Protocol!ProtocolNext

(* retire_ipc_endpoint withdraws the calls on the endpoint, all of them outstanding
   with its owner; every other call keeps its entry and its seal. *)
LEMMA RetireWithdraws ==
  ASSUME RunningInv, PInv', NEW e \in Endpoint, retire_ipc_endpoint(owner(e), e)
  PROVE  Protocol!ProtocolNext \/ UNCHANGED Protocol!pvars
  <1>1. PICK s : s = owner(e)
    OBVIOUS
  <1>2. /\ pending' = drop_calls(pending, {i \in SlotIndex : pending[i].endpoint = e})
        /\ replies' = drop_calls(replies, {i \in SlotIndex : replies[i].endpoint = e})
        /\ completed' = completed
    BY Zenon DEF retire_ipc_endpoint
  <1>3. PICK C : C = {x \in ThreadId : \E i \in SlotIndex :
                         pending[i].caller = x /\ pending[i].endpoint = e}
    BY Zenon
  <1>4. NoCall.caller \notin ThreadId
    BY ThreadIdAssumption DEF NoCall, invalid_thread
  <1>5. \A i \in SlotIndex :
           /\ pending'[i] = IF pending[i].endpoint = e THEN NoCall ELSE pending[i]
           /\ replies'[i] = IF replies[i].endpoint = e THEN NoCall ELSE replies[i]
    BY <1>2 DEF drop_calls
  <1>6. PeersKnown /\ PeersKnown'
    BY PeerIsServer, PTL DEF RunningInv
  <1>7. ASSUME NEW k \in SlotIndex, replies[k].caller \in ThreadId
        PROVE  replies[k].caller \in C <=> replies[k].endpoint = e
    <2>1. replies[k] # NoCall
      BY <1>4, <1>7
    <2>2. PICK i \in SlotIndex : pending[i] = replies[k]
      BY <2>1, SealedCall DEF RunningInv
    <2>3. \A j \in SlotIndex : pending[j].caller = pending[i].caller => j = i
      BY <1>7, <2>2, PendingCall DEF RunningInv
    <2>4. QED BY <1>3, <1>7, <2>2, <2>3
  <1>8. ASSUME NEW x \in C
        PROVE  /\ x \in ThreadId /\ call_phase(x) \in {"asked", "held"} /\ call_peer(x) = s
               /\ s \in ThreadId
               /\ call_phase(x)' = "idle" /\ call_peer(x)' = invalid_thread
    <2>1. PICK i \in SlotIndex : pending[i].caller = x /\ pending[i].endpoint = e
      BY <1>3
    <2>2. x \in ThreadId
      BY <1>3
    <2>3. /\ pending[i].server = s /\ s \in ThreadId
          /\ \A j \in SlotIndex : pending[j].caller = x => j = i
      BY <1>1, <2>1, <2>2, PendingCall, Zenon DEF RunningInv, Call
    <2>4. x \notin completed
      BY <2>1, <2>2, CallerIsBlocked, Zenon
    <2>5. call_phase(x) \in {"asked", "held"}
      BY <2>1, <2>4, ZenonT(30) DEF call_phase
    <2>6. call_peer(x) = s
      BY <1>6, <2>1, <2>2, <2>3 DEF PeersKnown
    <2>7. \A j \in SlotIndex : pending'[j].caller # x /\ replies'[j].caller # x
      BY <1>4, <1>5, <1>7, <2>1, <2>2, <2>3
    <2>8. call_phase(x)' = "idle"
      BY <1>2, <2>4, <2>7, Zenon DEF call_phase
    <2>9. call_peer(x)' = invalid_thread
      BY <1>6, <2>2, <2>7 DEF PeersKnown
    <2>10. QED BY <2>2, <2>3, <2>5, <2>6, <2>8, <2>9
  <1>9. ASSUME NEW x \in ThreadId, x \notin C
        PROVE  call_phase(x)' = call_phase(x) /\ call_peer(x)' = call_peer(x)
    <2>1. \A j \in SlotIndex :
             /\ pending'[j].caller = x <=> pending[j].caller = x
             /\ replies'[j].caller = x <=> replies[j].caller = x
      BY <1>3, <1>4, <1>5, <1>7, <1>9
    <2>2. call_phase(x)' = call_phase(x)
      BY <1>2, <2>1, Zenon DEF call_phase
    <2>3. CASE \E j \in SlotIndex : pending[j].caller = x
      <3>1. PICK j \in SlotIndex : pending[j].caller = x
        BY <2>3
      <3>2. pending'[j] = pending[j]
        BY <1>3, <1>5, <1>9, <3>1
      <3>3. call_peer(x) = pending[j].server /\ call_peer(x)' = pending'[j].server
        BY <1>6, <3>1, <3>2 DEF PeersKnown
      <3>4. QED BY <2>2, <3>2, <3>3
    <2>4. CASE \A j \in SlotIndex : pending[j].caller # x
      BY <1>6, <2>1, <2>2, <2>4 DEF PeersKnown
    <2>5. QED BY <2>3, <2>4
  <1>10. CASE C = {}
    <2>1. \A x \in ThreadId : call_phase(x)' = call_phase(x) /\ call_peer(x)' = call_peer(x)
      BY <1>9, <1>10
    <2>2. QED BY <2>1 DEF Protocol!pvars
  <1>11. CASE C # {}
    <2>1. s \in ThreadId
      BY <1>8, <1>11
    <2>2. C \in SUBSET (Protocol!Outstanding(s) \cup {s})
      BY <1>8 DEF Protocol!Outstanding
    <2>3. \A x \in ThreadId :
             /\ call_phase(x)' = IF x \in C THEN "idle" ELSE call_phase(x)
             /\ call_peer(x)' = IF x \in C THEN invalid_thread ELSE call_peer(x)
      BY <1>8, <1>9
    <2>4. Protocol!Withdraw(C)
      BY <2>3 DEF Protocol!Withdraw
    <2>5. QED BY <2>1, <2>2, <2>4 DEF Protocol!ProtocolNext
  <1>12. QED BY <1>10, <1>11

\* switch_to: the completion that runs is an accept, a collect, or unseen.
LEMMA SwitchIsProtocol ==
  ASSUME RunningInv, NEW t \in ThreadId, switch_to(t)
  PROVE  Protocol!ProtocolNext \/ UNCHANGED Protocol!pvars
  <1>1. CASE complete_expiry(t) \/ nothing_to_complete(t)
    <2>1. pending' = pending /\ replies' = replies /\ completed' = completed
      BY <1>1 DEF complete_expiry, nothing_to_complete, ipcvars
    <2>2. QED BY <2>1, UnseenStep
  <1>2. CASE complete_receive(t)
    <2>1. CASE receive_call(t, recv_armed[t].endpoint)
      BY <2>1, ReceiveAccepts
    <2>2. CASE ~receive_call(t, recv_armed[t].endpoint)
      <3>1. pending' = pending /\ replies' = replies /\ completed' = completed
        BY <1>2, <2>2 DEF complete_receive, ipcvars
      <3>2. QED BY <3>1, UnseenStep
    <2>3. QED BY <2>1, <2>2
  <1>3. CASE complete_reply(t)
    BY <1>3, CompletionCollects
  <1>4. QED BY <1>1, <1>2, <1>3 DEF switch_to

\* The empty tables map to the protocol's initial state.
LEMMA InitProtocol == KInit => Protocol!ProtocolInit
  <1> SUFFICES ASSUME KInit PROVE Protocol!ProtocolInit
    OBVIOUS
  <1>1. /\ \A i \in SlotIndex : pending[i] = NoCall /\ replies[i] = NoCall
        /\ completed = {}
    BY DEF KInit
  <1>2. NoCall.caller \notin ThreadId
    BY ThreadIdAssumption DEF NoCall, invalid_thread
  <1>3. \A t \in ThreadId : call_phase(t) = "idle" /\ call_peer(t) = invalid_thread
    BY <1>1, <1>2 DEF call_phase, call_peer
  <1>4. QED BY <1>3 DEF Protocol!ProtocolInit

\* Every kernel step but a death is a protocol step or unseen.
LEMMA NextProtocol ==
  ASSUME CInv, CInv', KNext, NoDeath
  PROVE  Protocol!ProtocolNext \/ UNCHANGED Protocol!pvars
  <1> DEFINE Goal == Protocol!ProtocolNext \/ UNCHANGED Protocol!pvars
  <1>1. RunningInv /\ PInv'
    BY DEF KNext, CInv, CallsAreWhole, HandoverInv, RunningInv
  <1>2. ASSUME NEW t \in ThreadId, NEW p \in Priority,
               kernel_create_thread(t, p) \/ kernel_create_admitted_thread(t, p)
        PROVE  Goal
    BY <1>2, UnseenStep DEF kernel_create_thread, kernel_create_admitted_thread, ipcvars
  <1>3. ASSUME NEW t \in ThreadId, thread_start(t) \/ ipc_expire_one_receive(t)
        PROVE  Goal
    BY <1>3, UnseenStep DEF thread_start, ipc_expire_one_receive, ipcvars
  <1>4. ASSUME NEW t \in ThreadId, switch_to(t)
        PROVE  Goal
    BY <1>1, <1>4, SwitchIsProtocol
  <1>5. ASSUME NEW t \in Server, create_ipc_endpoint(t)
        PROVE  Goal
    BY <1>5, UnseenStep DEF create_ipc_endpoint
  <1>6. ASSUME NEW e \in Endpoint, retire_ipc_endpoint(owner(e), e)
        PROVE  Goal
    BY <1>1, <1>6, RetireWithdraws
  <1>7. ASSUME NEW e \in Endpoint, svc_send(e)
        PROVE  Goal
    BY <1>1, <1>7, SendAsks
  <1>8. ASSUME NEW e \in Endpoint, svc_receive_now(e)
        PROVE  Goal
    BY <1>1, <1>8, ReceiveAccepts DEF svc_receive_now
  <1>9. ASSUME NEW e \in Endpoint, NEW b \in Bounded, svc_receive_wait(e, b)
        PROVE  Goal
    BY <1>9, UnseenStep DEF svc_receive_wait
  <1>10. ASSUME NEW k \in SlotIndex, svc_reply(k)
        PROVE  Goal
    BY <1>1, <1>10, ReplyAnswers
  <1>11. ~(\E t \in Mortal : destroy_thread(t))
    BY KernelIpcAssumption DEF NoDeath
  <1> HIDE DEF Goal
  <1>12. Goal
    BY <1>2, <1>3, <1>4, <1>5, <1>6, <1>7, <1>8, <1>9, <1>10, <1>11 DEF KNext
  <1>13. QED BY <1>12 DEF Goal

\* As long as no thread is destroyed, the kernel implements the call protocol: a call
\* is asked, taken up once, answered once by the server it was addressed to and
\* collected once, and it is withdrawn only with the endpoint it was sent to.
THEOREM KernelImplementsCalls == KSpec /\ [][NoDeath]_kvars => ImplementsCallProtocol
  <1>1. CInv /\ [KNext]_kvars /\ [NoDeath]_kvars => CInv'
    BY NextCInv, StutterCInv
  <1>2. UNCHANGED kvars => UNCHANGED Protocol!pvars
    BY UnseenStep DEF kvars, ipcvars
  <1>3. CInv /\ CInv' /\ [KNext]_kvars /\ [NoDeath]_kvars => [Protocol!ProtocolNext]_(Protocol!pvars)
    BY <1>2, NextProtocol
  <1>4. QED BY InitCInv, InitProtocol, <1>1, <1>3, PTL DEF KSpec, ImplementsCallProtocol, Protocol!ProtocolSpec

\* In a system whose threads are never killed calls are whole, and follow the
\* protocol, without a hypothesis on the behaviour.
COROLLARY ImmortalCalls ==
  ASSUME Mortal = {}
  PROVE  KSpec => []CallsAreWhole /\ ImplementsCallProtocol
  <1>1. NoDeath
    BY DEF NoDeath
  <1>2. QED BY <1>1, CallsStayWhole, KernelImplementsCalls, PTL

=============================================================================
