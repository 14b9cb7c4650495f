------------------------- MODULE KernelTableProofs --------------------------
(***************************************************************************)
(* Proofs about the IPC tables of the kernel (KernelIpc).  TInv is         *)
(* TablesAgree with the run queue cache split into its two halves; it      *)
(* survives everything but an expired deadline.                            *)
(***************************************************************************)
EXTENDS KernelPendingProofs

\* The tables' invariant: what TablesAgree says, with the cache split into its
\* safe half (in KInv) and the half that an expired deadline breaks.
TInv ==
    /\ KInv /\ NoWakeForgotten
    /\ DeathReachesEveryTable /\ WaitingEndpointHasReceiver /\ BlockedCallersArePending

\* Steps that set no receive_waiting flag and leave the flagged receivers alone.
LEMMA WaitersKept ==
  ASSUME TInv,
         \A f \in Endpoint : receive_waiting(f)' =>
            /\ receive_waiting(f) /\ owner(f)' = owner(f)
            /\ state'[owner(f)] = state[owner(f)] /\ partner'[owner(f)] = partner[owner(f)]
            /\ recv_armed'[owner(f)] = recv_armed[owner(f)]
  PROVE  WaitingEndpointHasReceiver'
  <1> SUFFICES ASSUME NEW f \in Endpoint, receive_waiting(f)'
               PROVE  /\ receive_waiting_thread(owner(f))'
                      /\ recv_armed'[owner(f)'].endpoint = f
    BY DEF WaitingEndpointHasReceiver, active_endpoints
  <1>1. receive_waiting_thread(owner(f)) /\ recv_armed[owner(f)].endpoint = f
    BY DEF TInv, WaitingEndpointHasReceiver, active_endpoints, receive_waiting
  <1>2. QED BY <1>1 DEF receive_waiting_thread, find

\* A flagged receiver, unfolded.
LEMMA FlaggedReceiver ==
  ASSUME TInv, NEW f \in Endpoint, receive_waiting(f)
  PROVE  /\ slot_for(f) /\ owner(f) \in ThreadId
         /\ state[owner(f)] = "receive_blocked" /\ partner[owner(f)] = invalid_thread
         /\ recv_armed[owner(f)].endpoint = f
  BY DEF TInv, WaitingEndpointHasReceiver, active_endpoints, receive_waiting,
         receive_waiting_thread, find

\* Who is dead is in no table: one thread's share of DeathReachesEveryTable.
Gone(t) ==
    /\ \A e \in Endpoint : slot_for(e) => owner(e) # t
    /\ \A i \in SlotIndex :
          /\ pending[i].caller # t /\ pending[i].server # t
          /\ replies[i].caller # t /\ replies[i].server # t
    /\ t \notin completed /\ t \notin send_armed
    /\ recv_armed[t] = NotArmed
    /\ current # t

DeadAreGone == \A t \in ThreadId : ~find(t) => Gone(t)

\* DeathReachesEveryTable, thread by thread.
LEMMA GoneEverywhere == KInv => (DeathReachesEveryTable <=> DeadAreGone)
  <1> SUFFICES ASSUME KInv PROVE DeathReachesEveryTable <=> DeadAreGone
    OBVIOUS
  <1>1. ASSUME NEW t \in ThreadId, ~find(t) PROVE ~runqueue[t].queued
    <2>1. runqueue[t] = NotQueued(base[t])
      BY <1>1 DEF KInv, CacheIsSafe, Cached
    <2>2. QED BY <2>1 DEF NotQueued
  <1>2. \A t : owned_by(t) = {} <=> \A e \in Endpoint : slot_for(e) => owner(e) # t
    BY DEF owned_by, active_endpoints
  <1>3. QED BY <1>1, <1>2 DEF DeathReachesEveryTable, DeadAreGone, Gone, Live

\* The dead stay out of the tables when every table shrinks, or grows by the living.
LEMMA DeathKept ==
  ASSUME TInv, KInv',
         \A x \in ThreadId : ~find(x)' => Gone(x)'
  PROVE  DeathReachesEveryTable'
  <1>1. DeadAreGone'
    BY DEF DeadAreGone
  <1>2. KInv' => (DeathReachesEveryTable' <=> DeadAreGone')
    BY GoneEverywhere, PTL
  <1>3. QED BY <1>1, <1>2

\* The empty tables agree.
LEMMA InitTInv == KInit => TInv
  <1> SUFFICES ASSUME KInit PROVE TInv
    OBVIOUS
  <1>1. KInv /\ NoWakeForgotten
    BY InitKInv
  <1>2. \A s \in EndpointSlot : ~endpoints[s].active
    BY DEF KInit
  <1>3. \A e : ~slot_for(e)
    BY <1>2 DEF slot_for, Endpoint
  <1>4. WaitingEndpointHasReceiver
    BY <1>3 DEF WaitingEndpointHasReceiver, active_endpoints
  <1>5. BlockedCallersArePending
    BY DEF BlockedCallersArePending, KInit, Init
  <1>6. \A i \in SlotIndex : /\ pending[i].caller \notin ThreadId /\ pending[i].server \notin ThreadId
                             /\ replies[i].caller \notin ThreadId /\ replies[i].server \notin ThreadId
    BY ThreadIdAssumption DEF KInit, NoCall, invalid_thread
  <1>7. DeadAreGone
    BY <1>3, <1>6, ThreadIdAssumption DEF DeadAreGone, Gone, KInit, invalid_thread
  <1>8. QED BY <1>1, <1>4, <1>5, <1>7, GoneEverywhere DEF TInv

\* A thread is created over an identity that no table names.
LEMMA CreateTInv ==
  ASSUME TInv, NEW t \in ThreadId, NEW p \in Priority,
         kernel_create_thread(t, p) \/ kernel_create_admitted_thread(t, p)
  PROVE  TInv'
  <1>1. KInv' /\ NoWakeForgotten'
    BY CreateKInv DEF TInv
  <1>2. PICK s \in {"ready", "admitted"} : occupy_slot(t, p, s)
    BY DEF kernel_create_thread, kernel_create_admitted_thread, create_thread,
           create_admitted_thread
  <1>3. UNCHANGED <<ipcvars, contvars, current, fault>>
    BY DEF kernel_create_thread, kernel_create_admitted_thread
  <1>4. /\ state' = [state EXCEPT ![t] = s] /\ partner' = [partner EXCEPT ![t] = invalid_thread]
        /\ state[t] = "exited" /\ ~find(t)
    BY <1>2 DEF occupy_slot, find
  <1>5. Gone(t)
    BY <1>4, GoneEverywhere DEF TInv, DeadAreGone
  <1>6. state \in [ThreadId -> ThreadState] /\ partner \in [ThreadId -> OptThread]
    BY DEF TInv, KInv, RInv, TypeOK
  <1>7. \A x \in ThreadId : x # t => state'[x] = state[x] /\ partner'[x] = partner[x]
    BY <1>4, <1>6
  <1>8. BlockedCallersArePending'
    BY CreateCalls DEF TInv, PInv
  <1>9. WaitingEndpointHasReceiver'
    <2> SUFFICES ASSUME NEW f \in Endpoint, receive_waiting(f)'
                 PROVE  /\ receive_waiting(f) /\ owner(f)' = owner(f)
                        /\ state'[owner(f)] = state[owner(f)]
                        /\ partner'[owner(f)] = partner[owner(f)]
                        /\ recv_armed'[owner(f)] = recv_armed[owner(f)]
      BY WaitersKept
    <2>1. receive_waiting(f) /\ owner(f)' = owner(f) /\ recv_armed' = recv_armed
      BY <1>3 DEF receive_waiting, slot_for, owner, ipcvars, contvars
    <2>2. owner(f) \in ThreadId /\ owner(f) # t
      BY <1>5, <2>1, FlaggedReceiver DEF Gone
    <2>3. QED BY <1>7, <2>1, <2>2
  <1>10. DeathReachesEveryTable'
    <2> SUFFICES ASSUME NEW x \in ThreadId, ~find(x)' PROVE Gone(x)'
      BY <1>1, DeathKept
    <2>1. ~find(x)
      BY <1>4, <1>7 DEF find
    <2>2. Gone(x)
      BY <2>1, GoneEverywhere DEF TInv, DeadAreGone
    <2>3. QED BY <1>3, <2>2 DEF Gone, ipcvars, contvars, slot_for, owner
  <1>11. QED BY <1>1, <1>8, <1>9, <1>10 DEF TInv

\* thread_start synchronises the thread it makes ready.
LEMMA StartTInv ==
  ASSUME TInv, NEW t \in ThreadId, thread_start(t)
  PROVE  TInv'
  <1>1. KInv' /\ NoWakeForgotten'
    BY StartKInv DEF TInv
  <1>2. /\ state' = [state EXCEPT ![t] = "ready"] /\ partner' = partner /\ state[t] = "admitted"
        /\ UNCHANGED <<ipcvars, contvars, current, fault>>
    BY DEF thread_start, start_thread
  <1>3. state \in [ThreadId -> ThreadState]
    BY DEF TInv, KInv, RInv, TypeOK
  <1>4. BlockedCallersArePending'
    BY StartCalls DEF TInv, PInv
  <1>5. WaitingEndpointHasReceiver'
    <2> SUFFICES ASSUME NEW f \in Endpoint, receive_waiting(f)'
                 PROVE  /\ receive_waiting(f) /\ owner(f)' = owner(f)
                        /\ state'[owner(f)] = state[owner(f)]
                        /\ partner'[owner(f)] = partner[owner(f)]
                        /\ recv_armed'[owner(f)] = recv_armed[owner(f)]
      BY WaitersKept
    <2>1. receive_waiting(f) /\ owner(f)' = owner(f) /\ recv_armed' = recv_armed
      BY <1>2 DEF receive_waiting, slot_for, owner, ipcvars, contvars
    <2>2. QED BY <1>2, <1>3, <2>1, FlaggedReceiver
  <1>6. DeathReachesEveryTable'
    <2> SUFFICES ASSUME NEW x \in ThreadId, ~find(x)' PROVE Gone(x)'
      BY <1>1, DeathKept
    <2>1. ~find(x)
      BY <1>2, <1>3 DEF find
    <2>2. Gone(x)
      BY <2>1, GoneEverywhere DEF TInv, DeadAreGone
    <2>3. QED BY <1>2, <2>2 DEF Gone, ipcvars, contvars, slot_for, owner
  <1>7. QED BY <1>1, <1>4, <1>5, <1>6 DEF TInv

\* A new endpoint has no waiting receiver and a live owner.
LEMMA CreateEndpointTInv ==
  ASSUME TInv, NEW t \in ThreadId, create_ipc_endpoint(t)
  PROVE  TInv'
  <1>1. KInv' /\ NoWakeForgotten'
    BY CreateEndpointKInv DEF TInv
  <1>2. PICK s \in EndpointSlot :
           /\ ~endpoints[s].active
           /\ endpoints' = [endpoints EXCEPT ![s] =
                [server |-> t, generation |-> @.generation + 1,
                 active |-> TRUE, receive_waiting |-> FALSE]]
    BY Zenon DEF create_ipc_endpoint, usable
  <1>3. /\ UNCHANGED <<rvars, pending, replies, completed, contvars, runqueue, current, fault>>
        /\ find(t)
    BY DEF create_ipc_endpoint
  <1>4. endpoints \in [EndpointSlot ->
          [server : OptThread, generation : 0..MaxGeneration,
           active : BOOLEAN, receive_waiting : BOOLEAN]]
    BY DEF TInv, KInv, KTypeOK
  <1>5. /\ \A r \in EndpointSlot : r # s => endpoints'[r] = endpoints[r]
        /\ endpoints'[s].server = t /\ ~endpoints'[s].receive_waiting
    BY <1>2, <1>4
  <1>6. BlockedCallersArePending'
    BY CreateEndpointCalls DEF TInv, PInv
  <1>7. WaitingEndpointHasReceiver'
    <2> SUFFICES ASSUME NEW f \in Endpoint, receive_waiting(f)'
                 PROVE  receive_waiting(f) /\ owner(f)' = owner(f)
      BY <1>3, WaitersKept DEF rvars, contvars
    <2>1. f.slot # s /\ f.slot \in EndpointSlot
      BY <1>5 DEF receive_waiting, Endpoint
    <2>2. QED BY <1>5, <2>1 DEF receive_waiting, slot_for, owner
  <1>8. DeathReachesEveryTable'
    <2> SUFFICES ASSUME NEW x \in ThreadId, ~find(x)' PROVE Gone(x)'
      BY <1>1, DeathKept
    <2>1. ~find(x) /\ x # t
      BY <1>3 DEF find, rvars
    <2>2. Gone(x)
      BY <2>1, GoneEverywhere DEF TInv, DeadAreGone
    <2>3. ASSUME NEW e \in Endpoint, slot_for(e)' PROVE owner(e)' # x
      <3>1. e.slot \in EndpointSlot
        BY DEF Endpoint
      <3>2. CASE e.slot = s
        BY <1>5, <2>1, <3>2 DEF owner
      <3>3. CASE e.slot # s
        BY <1>5, <2>2, <2>3, <3>1, <3>3 DEF owner, slot_for, Gone
      <3>4. QED BY <3>2, <3>3
    <2>4. QED BY <1>3, <2>2, <2>3 DEF Gone, contvars
  <1>9. QED BY <1>1, <1>6, <1>7, <1>8 DEF TInv

\* The flag svc_send clears is the only one its receiver has.
LEMMA SendTInv ==
  ASSUME TInv, NEW e \in Endpoint, svc_send(e)
  PROVE  TInv'
  <1> DEFINE c == current
             s == owner(e)
  <1>1. KInv' /\ NoWakeForgotten'
    BY SendKInv DEF TInv
  <1>2. /\ c \in ThreadId /\ slot_for(e)
        /\ send_armed' = send_armed \cup {c} /\ current' = invalid_thread
        /\ recv_armed' = recv_armed /\ replies' = replies /\ completed' = completed
        /\ endpoints' = [endpoints EXCEPT ![e.slot].receive_waiting = FALSE]
    BY DEF svc_send, arm, send_to_endpoint
  <1>3. PICK i \in SlotIndex :
           /\ pending[i] = NoCall
           /\ pending' = [pending EXCEPT ![i] = [caller |-> c, server |-> s, endpoint |-> e]]
    BY Zenon DEF svc_send, send_to_endpoint, free_pending, first
  <1>4. /\ s \in ThreadId /\ c # s /\ find(c) /\ find(s) /\ state[c] = "ready"
        /\ state'[c] \in Calling /\ partner'[c] = s
        /\ \A x \in ThreadId : x # c /\ ~(x = s /\ receive_waiting(e)) =>
              state'[x] = state[x] /\ partner'[x] = partner[x]
        /\ receive_waiting(e) => state[s] = "receive_blocked" /\ state'[s] = "ready"
        /\ \A x \in ThreadId : find(x)' <=> find(x)
    BY SendEffect, Zenon DEF TInv, Calling
  <1> HIDE DEF c, s
  <1>5. endpoints \in [EndpointSlot ->
          [server : OptThread, generation : 0..MaxGeneration,
           active : BOOLEAN, receive_waiting : BOOLEAN]]
    BY DEF TInv, KInv, KTypeOK
  <1>6. /\ \A r \in EndpointSlot :
              /\ endpoints'[r].active = endpoints[r].active
              /\ endpoints'[r].generation = endpoints[r].generation
              /\ endpoints'[r].server = endpoints[r].server
              /\ r # e.slot => endpoints'[r].receive_waiting = endpoints[r].receive_waiting
        /\ ~endpoints'[e.slot].receive_waiting
    <2>1. e.slot \in EndpointSlot
      BY DEF Endpoint
    <2>2. QED BY <1>2, <1>5, <2>1, Zenon
  <1>7. /\ \A f : slot_for(f)' <=> slot_for(f)
        /\ \A f \in Endpoint : owner(f)' = owner(f)
        /\ \A f \in Endpoint : receive_waiting(f)' => receive_waiting(f) /\ f # e
    BY <1>6 DEF slot_for, owner, receive_waiting, Endpoint
  <1>8. WaitingEndpointHasReceiver'
    <2> SUFFICES ASSUME NEW f \in Endpoint, receive_waiting(f)'
                 PROVE  /\ receive_waiting(f) /\ owner(f)' = owner(f)
                        /\ state'[owner(f)] = state[owner(f)]
                        /\ partner'[owner(f)] = partner[owner(f)]
                        /\ recv_armed'[owner(f)] = recv_armed[owner(f)]
      BY WaitersKept
    <2>1. /\ receive_waiting(f) /\ f # e /\ owner(f)' = owner(f)
          /\ owner(f) \in ThreadId /\ state[owner(f)] = "receive_blocked"
          /\ recv_armed[owner(f)].endpoint = f
      BY <1>7, FlaggedReceiver
    <2>2. receive_waiting(e) => recv_armed[s].endpoint = e
      BY FlaggedReceiver DEF s
    <2>3. owner(f) # c /\ ~(owner(f) = s /\ receive_waiting(e))
      BY <1>4, <2>1, <2>2
    <2>4. QED BY <1>2, <1>4, <2>1, <2>3
  <1>9. pending \in [SlotIndex -> OptCall]
    BY DEF TInv, KInv, KTypeOK
  <1>10. \A j \in SlotIndex :
            \/ pending'[j] = pending[j]
            \/ pending'[j].caller = c /\ pending'[j].server = s
    BY <1>3, <1>9
  <1>14. BlockedCallersArePending'
    BY SendCalls DEF TInv, PInv
  <1>15. DeathReachesEveryTable'
    <2> SUFFICES ASSUME NEW x \in ThreadId, ~find(x)' PROVE Gone(x)'
      BY <1>1, DeathKept
    <2>1. ~find(x) /\ x # c /\ x # s
      BY <1>4
    <2>2. Gone(x)
      BY <2>1, GoneEverywhere DEF TInv, DeadAreGone
    <2>3. \A j \in SlotIndex : pending'[j].caller # x /\ pending'[j].server # x
      BY <1>10, <2>1, <2>2 DEF Gone
    <2>4. QED BY <1>2, <1>7, <2>1, <2>2, <2>3, ThreadIdAssumption DEF Gone, invalid_thread
  <1>16. QED BY <1>1, <1>8, <1>14, <1>15 DEF TInv

\* receive_call is refused while the endpoint has a waiting receiver.
LEMMA ReceiveCallTInv ==
  ASSUME TInv, KInv', NoWakeForgotten', NEW t \in ThreadId, NEW e, receive_call(t, e),
         send_armed' = send_armed, recv_armed' \in {recv_armed, disarmed(t)},
         current' = t
  PROVE  TInv'
  <1>1. /\ endpoints' = endpoints /\ pending' = pending /\ completed' = completed
        /\ state[t] = "ready" /\ state'[t] = "ready"
        /\ \A x \in ThreadId :
              /\ find(x)' <=> find(x)
              /\ state'[x] \in Calling <=> state[x] \in Calling
              /\ state'[x] = state[x] \/ (state'[x] = "reply_blocked" /\ state[x] = "send_blocked")
              /\ x # t => partner'[x] = partner[x]
    BY ReceiveCallEffect, Zenon DEF TInv
  <1>2. PICK i, k \in SlotIndex : replies' = [replies EXCEPT ![k] = pending[i]]
    BY ReceiveCallEffect, Zenon DEF TInv
  <1>3. \A x \in ThreadId : x # t => recv_armed'[x] = recv_armed[x]
    BY DEF disarmed, TInv, KInv, KTypeOK
  <1>4. BlockedCallersArePending'
    BY ReceiveCallCalls DEF TInv, PInv
  <1>5. WaitingEndpointHasReceiver'
    <2> SUFFICES ASSUME NEW f \in Endpoint, receive_waiting(f)'
                 PROVE  /\ receive_waiting(f) /\ owner(f)' = owner(f)
                        /\ state'[owner(f)] = state[owner(f)]
                        /\ partner'[owner(f)] = partner[owner(f)]
                        /\ recv_armed'[owner(f)] = recv_armed[owner(f)]
      BY WaitersKept
    <2>1. receive_waiting(f) /\ owner(f)' = owner(f)
      BY <1>1 DEF receive_waiting, slot_for, owner
    <2>2. owner(f) \in ThreadId /\ state[owner(f)] = "receive_blocked"
      BY <2>1, FlaggedReceiver
    <2>3. QED BY <1>1, <1>3, <2>1, <2>2, Zenon
  <1>6. DeathReachesEveryTable'
    <2> SUFFICES ASSUME NEW x \in ThreadId, ~find(x)' PROVE Gone(x)'
      BY DeathKept
    <2>1. ~find(x) /\ x # t
      BY <1>1 DEF find
    <2>2. Gone(x)
      BY <2>1, GoneEverywhere DEF TInv, DeadAreGone
    <2>3. \A j \in SlotIndex : replies'[j].caller # x /\ replies'[j].server # x
      BY <1>2, <2>2, Zenon DEF Gone, TInv, KInv, KTypeOK
    <2>4. QED BY <1>1, <1>3, <2>1, <2>2, <2>3 DEF Gone, slot_for, owner
  <1>7. QED BY <1>4, <1>5, <1>6 DEF TInv

\* svc_receive_now hands the call to the running thread.
LEMMA ReceiveNowTInv ==
  ASSUME TInv, NEW e, svc_receive_now(e)
  PROVE  TInv'
  <1>1. KInv' /\ NoWakeForgotten'
    BY ReceiveNowKInv DEF TInv
  <1>2. QED BY <1>1, ReceiveCallTInv DEF svc_receive_now, contvars

\* svc_receive_wait sets the flag, the state and the continuation together.
LEMMA ReceiveWaitTInv ==
  ASSUME TInv, NEW e \in Endpoint, NEW b \in BOOLEAN, svc_receive_wait(e, b)
  PROVE  TInv'
  <1>0. PICK c : c = current
    OBVIOUS
  <1>1. KInv' /\ NoWakeForgotten'
    BY ReceiveWaitKInv DEF TInv
  <1>2. /\ c \in ThreadId /\ slot_for(e) /\ owner(e) = c
        /\ find(c) /\ state[c] = "ready" /\ partner[c] = invalid_thread
        /\ state' = [state EXCEPT ![c] = "receive_blocked"] /\ partner' = partner
        /\ endpoints' = [endpoints EXCEPT ![e.slot].receive_waiting = TRUE]
        /\ recv_armed' = [recv_armed EXCEPT ![c] = [endpoint |-> e, bounded |-> b]]
        /\ current' = invalid_thread
        /\ UNCHANGED <<pending, replies, completed, send_armed, fault>>
    BY <1>0 DEF svc_receive_wait, arm_receive, may_receive, wait_receive
  <1>3. /\ state \in [ThreadId -> ThreadState]
        /\ recv_armed \in [ThreadId -> [endpoint : Endpoint, bounded : BOOLEAN] \cup {NotArmed}]
        /\ endpoints \in [EndpointSlot ->
            [server : OptThread, generation : 0..MaxGeneration,
             active : BOOLEAN, receive_waiting : BOOLEAN]]
    BY DEF TInv, KInv, RInv, TypeOK, KTypeOK
  <1>4. \A r \in EndpointSlot :
           /\ endpoints'[r].active = endpoints[r].active
           /\ endpoints'[r].generation = endpoints[r].generation
           /\ endpoints'[r].server = endpoints[r].server
           /\ r # e.slot => endpoints'[r].receive_waiting = endpoints[r].receive_waiting
    BY <1>2, <1>3, Zenon
  <1>5. /\ \A f : slot_for(f)' <=> slot_for(f)
        /\ \A f \in Endpoint : owner(f)' = owner(f)
        /\ \A f \in Endpoint : receive_waiting(f)' /\ f # e => receive_waiting(f)
    <2>1. \A f : slot_for(f)' <=> slot_for(f)
      BY <1>4 DEF slot_for, Endpoint
    <2>2. \A f \in Endpoint : owner(f)' = owner(f)
      BY <1>4 DEF owner, Endpoint
    <2>3. ASSUME NEW f \in Endpoint, receive_waiting(f)', f # e PROVE receive_waiting(f)
      <3>1. slot_for(f) /\ f.slot # e.slot /\ f.slot \in EndpointSlot
        BY <1>2, <2>1, <2>3, SlotNamesEndpoint DEF receive_waiting, Endpoint
      <3>2. QED BY <1>4, <2>3, <3>1 DEF receive_waiting
    <2>4. QED BY <2>1, <2>2, <2>3
  <1>6. BlockedCallersArePending'
    BY ReceiveWaitCalls DEF TInv, PInv
  <1>7. WaitingEndpointHasReceiver'
    <2> SUFFICES ASSUME NEW f \in Endpoint, receive_waiting(f)'
                 PROVE  /\ receive_waiting_thread(owner(f))'
                        /\ recv_armed'[owner(f)'].endpoint = f
      BY DEF WaitingEndpointHasReceiver, active_endpoints
    <2>1. CASE f = e
      <3>1. owner(f)' = c
        BY <1>2, <1>5, <2>1
      <3>2. recv_armed'[c].endpoint = e
        BY <1>2, <1>3
      <3>3. receive_waiting_thread(c)'
        BY <1>2, <1>3 DEF receive_waiting_thread, find
      <3>4. QED BY <2>1, <3>1, <3>2, <3>3
    <2>2. CASE f # e
      <3>1. /\ owner(f)' = owner(f) /\ owner(f) \in ThreadId
            /\ state[owner(f)] = "receive_blocked" /\ partner[owner(f)] = invalid_thread
            /\ recv_armed[owner(f)].endpoint = f
        BY <1>5, <2>2, FlaggedReceiver
      <3>2. QED BY <1>2, <1>3, <3>1 DEF receive_waiting_thread, find
    <2>3. QED BY <2>1, <2>2
  <1>8. DeathReachesEveryTable'
    <2> SUFFICES ASSUME NEW x \in ThreadId, ~find(x)' PROVE Gone(x)'
      BY <1>1, DeathKept
    <2>1. ~find(x) /\ x # c
      BY <1>2, <1>3 DEF find
    <2>2. Gone(x)
      BY <2>1, GoneEverywhere DEF TInv, DeadAreGone
    <2>3. recv_armed'[x] = recv_armed[x]
      BY <1>2, <1>3, <2>1
    <2>4. QED BY <1>2, <1>5, <2>1, <2>2, <2>3, ThreadIdAssumption DEF Gone, invalid_thread
  <1>9. QED BY <1>1, <1>6, <1>7, <1>8 DEF TInv

\* svc_reply clears the seal and the pending call it answers.
LEMMA ReplyTInv ==
  ASSUME TInv, NEW k \in SlotIndex, svc_reply(k)
  PROVE  TInv'
  <1> DEFINE c == replies[k].caller
  <1>1. KInv' /\ NoWakeForgotten'
    BY ReplyKInv DEF TInv
  <1>2. /\ find(c) /\ c \in ThreadId /\ state[c] = "reply_blocked"
        /\ state' = [state EXCEPT ![c] = "ready"]
        /\ partner' = [partner EXCEPT ![c] = invalid_thread]
        /\ completed' = completed \cup {c}
        /\ replies' = [replies EXCEPT ![k] = NoCall]
        /\ current' = invalid_thread
        /\ UNCHANGED <<endpoints, contvars, fault>>
    BY DEF svc_reply, reply, find
  <1>3. PICK i \in SlotIndex : pending[i].caller = c /\ pending' = [pending EXCEPT ![i] = NoCall]
    BY Zenon DEF svc_reply, pending_of, first
  <1> HIDE DEF c
  <1>4. /\ state \in [ThreadId -> ThreadState] /\ partner \in [ThreadId -> OptThread]
        /\ pending \in [SlotIndex -> OptCall] /\ replies \in [SlotIndex -> OptCall]
    BY DEF TInv, KInv, RInv, TypeOK, KTypeOK
  <1>5. /\ \A x \in ThreadId : x # c => state'[x] = state[x] /\ partner'[x] = partner[x]
        /\ \A j \in SlotIndex : j # i => pending'[j] = pending[j]
        /\ pending'[i] = NoCall
    BY <1>2, <1>3, <1>4
  <1>6. BlockedCallersArePending'
    BY ReplyCalls DEF TInv, PInv
  <1>7. WaitingEndpointHasReceiver'
    <2> SUFFICES ASSUME NEW f \in Endpoint, receive_waiting(f)'
                 PROVE  /\ receive_waiting(f) /\ owner(f)' = owner(f)
                        /\ state'[owner(f)] = state[owner(f)]
                        /\ partner'[owner(f)] = partner[owner(f)]
                        /\ recv_armed'[owner(f)] = recv_armed[owner(f)]
      BY WaitersKept
    <2>1. receive_waiting(f) /\ owner(f)' = owner(f) /\ recv_armed' = recv_armed
      BY <1>2 DEF receive_waiting, slot_for, owner, contvars
    <2>2. owner(f) \in ThreadId /\ state[owner(f)] = "receive_blocked"
      BY <2>1, FlaggedReceiver
    <2>3. QED BY <1>2, <1>5, <2>1, <2>2
  <1>8. DeathReachesEveryTable'
    <2> SUFFICES ASSUME NEW x \in ThreadId, ~find(x)' PROVE Gone(x)'
      BY <1>1, DeathKept
    <2>1. ~find(x) /\ x # c
      BY <1>2, <1>4 DEF find
    <2>2. Gone(x)
      BY <2>1, GoneEverywhere DEF TInv, DeadAreGone
    <2>3. NoCall.caller # x /\ NoCall.server # x
      BY ThreadIdAssumption DEF NoCall, invalid_thread
    <2>4. \A j \in SlotIndex : /\ pending'[j].caller # x /\ pending'[j].server # x
                               /\ replies'[j].caller # x /\ replies'[j].server # x
      BY <1>2, <1>4, <1>5, <2>2, <2>3, Zenon DEF Gone
    <2>5. QED BY <1>2, <2>1, <2>2, <2>4, ThreadIdAssumption
              DEF Gone, slot_for, owner, contvars, invalid_thread
  <1>9. QED BY <1>1, <1>6, <1>7, <1>8 DEF TInv

\* retire_ipc_endpoint releases the callers whose entries it drops.
LEMMA RetireTInv ==
  ASSUME TInv, NEW e \in Endpoint, retire_ipc_endpoint(owner(e), e)
  PROVE  TInv'
  <1>0. PICK t : t = owner(e)
    OBVIOUS
  <1> DEFINE released == cancelled_by({e}) \cup (IF receive_waiting(e) THEN {t} ELSE {})
  <1>1. KInv' /\ NoWakeForgotten'
    BY RetireKInv DEF TInv
  <1>2. /\ state' = [o \in ThreadId |-> IF o \in released THEN "ready" ELSE state[o]]
        /\ partner' = [o \in ThreadId |->
              IF \/ o \in released
                 \/ o = t /\ state[t] = "ready" /\ partner[t] \in cancelled_by({e})
              THEN invalid_thread ELSE partner[o]]
        /\ pending' = drop_calls(pending, {i \in SlotIndex : pending[i].endpoint = e})
        /\ replies' = drop_calls(replies, {i \in SlotIndex : replies[i].endpoint = e})
        /\ recv_armed' = IF receive_waiting(e) THEN disarmed(t) ELSE recv_armed
        /\ retire_slots({e})
        /\ UNCHANGED <<completed, send_armed, current, fault>>
    BY <1>0, Zenon DEF retire_ipc_endpoint
  <1>3. slot_for(e) /\ {e} \subseteq active_endpoints
    BY Zenon DEF retire_ipc_endpoint, retired_with, owned_by, active_endpoints
  <1>4. \A o \in cancelled_by({e}) : o \in ThreadId /\ state[o] \in Calling
    BY DEF cancelled_by, callers_of, Calling
  <1>5. receive_waiting(e) => /\ t \in ThreadId /\ state[t] = "receive_blocked"
                              /\ recv_armed[t].endpoint = e
    BY <1>0, FlaggedReceiver
  <1>6. BlockedCallersArePending'
    BY RetireCalls DEF TInv, PInv
  <1>7. \A f : slot_for(f)' <=> slot_for(f) /\ f # e
    BY <1>2, <1>3, RetiredSlots, Zenon DEF TInv
  <1>8. \A f \in Endpoint : slot_for(f) /\ f # e =>
           owner(f)' = owner(f) /\ (receive_waiting(f)' <=> receive_waiting(f))
    BY <1>2, <1>3, RetiredSlots, Zenon DEF TInv
  <1>9. recv_armed \in [ThreadId -> [endpoint : Endpoint, bounded : BOOLEAN] \cup {NotArmed}]
    BY DEF TInv, KInv, KTypeOK
  <1>10. WaitingEndpointHasReceiver'
    <2> SUFFICES ASSUME NEW f \in Endpoint, receive_waiting(f)'
                 PROVE  /\ receive_waiting(f) /\ owner(f)' = owner(f)
                        /\ state'[owner(f)] = state[owner(f)]
                        /\ partner'[owner(f)] = partner[owner(f)]
                        /\ recv_armed'[owner(f)] = recv_armed[owner(f)]
      BY WaitersKept
    <2>1. slot_for(f) /\ f # e
      BY <1>7 DEF receive_waiting
    <2>2. receive_waiting(f) /\ owner(f)' = owner(f)
      BY <1>8, <2>1
    <2>3. /\ owner(f) \in ThreadId /\ state[owner(f)] = "receive_blocked"
          /\ recv_armed[owner(f)].endpoint = f
      BY <2>2, FlaggedReceiver
    <2>4. ~(receive_waiting(e) /\ owner(f) = t)
      BY <1>5, <2>1, <2>3
    <2>5. owner(f) \notin released
      BY <1>4, <2>3, <2>4 DEF Calling
    <2>6. state'[owner(f)] = state[owner(f)] /\ partner'[owner(f)] = partner[owner(f)]
      BY <1>2, <2>3, <2>5
    <2>7. recv_armed'[owner(f)] = recv_armed[owner(f)]
      BY <1>2, <1>9, <2>3, <2>4, Zenon DEF disarmed
    <2>8. QED BY <2>2, <2>6, <2>7
  <1>11. DeathReachesEveryTable'
    <2> SUFFICES ASSUME NEW x \in ThreadId, ~find(x)' PROVE Gone(x)'
      BY <1>1, DeathKept
    <2>1. ~find(x)
      BY <1>2, <1>4, <1>5, Zenon DEF find, Calling
    <2>2. Gone(x)
      BY <2>1, GoneEverywhere DEF TInv, DeadAreGone
    <2>3. NoCall.caller # x /\ NoCall.server # x
      BY ThreadIdAssumption DEF NoCall, invalid_thread
    <2>4. \A j \in SlotIndex : /\ pending'[j].caller # x /\ pending'[j].server # x
                               /\ replies'[j].caller # x /\ replies'[j].server # x
      BY <1>2, <2>2, <2>3, Zenon DEF Gone, drop_calls
    <2>5. recv_armed'[x] = NotArmed
      BY <1>2, <1>9, <2>2, Zenon DEF Gone, disarmed
    <2>6. \A f \in Endpoint : slot_for(f)' => owner(f)' # x
      BY <1>7, <1>8, <2>2 DEF Gone
    <2>7. QED BY <1>2, <2>2, <2>4, <2>5, <2>6, Zenon DEF Gone
  <1>12. QED BY <1>1, <1>6, <1>10, <1>11 DEF TInv

(* destroy_thread: the endpoints retired are all of the dead thread's, because a
   flagged one really has it waiting; so no call addressed to it survives. *)
LEMMA DestroyTInv ==
  ASSUME TInv, NEW t \in ThreadId, destroy_thread(t)
  PROVE  TInv'
  <1> DEFINE E == owned_by(t)
             released == waiting_on(t) \cup cancelled_by(E)
  <1>1. KInv' /\ NoWakeForgotten'
    BY DestroyKInv DEF TInv
  <1>2. retired_with(t) = E
    BY DEF retired_with, owned_by, TInv, WaitingEndpointHasReceiver
  <1>3. E \subseteq active_endpoints /\ \A f \in Endpoint : slot_for(f) /\ owner(f) = t <=> f \in E
    BY DEF owned_by, active_endpoints
  <1>4. /\ state' = [o \in ThreadId |->
                       IF o = t THEN "exited"
                       ELSE IF o \in released THEN "ready" ELSE state[o]]
        /\ partner' = [o \in ThreadId |->
                         IF o \in released \cup {t} THEN invalid_thread ELSE partner[o]]
        /\ retire_slots(E)
        /\ pending' = drop_calls(pending, {i \in SlotIndex :
              pending[i].endpoint \in E \/ pending[i].caller = t})
        /\ replies' = drop_calls(replies, {i \in SlotIndex :
              replies[i].endpoint \in E \/ t \in {replies[i].caller, replies[i].server}})
        /\ completed' = completed \ {t}
        /\ send_armed' = send_armed \ {t} /\ recv_armed' = [recv_armed EXCEPT ![t] = NotArmed]
        /\ current' = IF current = t THEN invalid_thread ELSE current
    BY <1>2, Zenon DEF destroy_thread, release_thread, release_continuations, disarmed
  <1> HIDE DEF E
  <1>5. recv_armed \in [ThreadId -> [endpoint : Endpoint, bounded : BOOLEAN] \cup {NotArmed}]
    BY DEF TInv, KInv, KTypeOK
  <1>6. \A o \in cancelled_by(E) : o \in ThreadId /\ state[o] \in Calling
    BY DEF cancelled_by, callers_of, Calling
  <1> PInv
    BY DEF TInv, PInv
  <1>7. ASSUME NEW i \in SlotIndex, pending[i].server = t
        PROVE  pending[i].endpoint \in E
    <2>1. pending[i] \in Call
      BY <1>7, ThreadIdAssumption DEF TInv, KInv, KTypeOK, OptCall, NoCall, invalid_thread
    <2>2. pending[i].caller \in ThreadId /\ pending[i].endpoint \in Endpoint
      BY <2>1 DEF Call
    <2>3. slot_for(pending[i].endpoint) /\ owner(pending[i].endpoint) = t
      BY <1>7, <2>2, PendingCall
    <2>4. QED BY <1>3, <2>2, <2>3
  <1>8. ASSUME NEW x \in ThreadId, x \in waiting_on(t), state[x] \in Calling
        PROVE  x \in cancelled_by(E)
    <2>1. PICK i \in SlotIndex : pending[i].caller = x
      BY <1>8 DEF TInv, BlockedCallersArePending, Calling
    <2>2. pending[i].server = t
      BY <1>8, <2>1, PendingCall DEF waiting_on, callers_of
    <2>3. QED BY <1>7, <2>1, <2>2, CancelledCalls
  <1>9. BlockedCallersArePending'
    <2>1. PICK D : D = {t}
      BY ZenonT(30)
    <2>2. pending' = drop_calls(pending, {i \in SlotIndex :
                        pending[i].endpoint \in E \/ pending[i].caller \in D})
      BY <1>4, <2>1
    <2>3. \A x \in ThreadId : state'[x] \in Calling =>
            /\ state[x] \in Calling /\ partner'[x] = partner[x] /\ x \notin cancelled_by(E)
            /\ x \in send_armed => x \in send_armed'
      BY <1>4 DEF Calling
    <2>4. \A x \in ThreadId : state[x] \in Calling /\ x \notin cancelled_by(E) /\ x \notin D
             => state'[x] \in Calling
      BY <1>4, <1>8, <2>1
    <2>5. \A i \in SlotIndex : pending[i].caller \in D /\ pending[i].caller \in ThreadId
             => state'[pending[i].caller] \notin Calling
      BY <1>4, <2>1 DEF Calling
    <2>6. E \subseteq active_endpoints /\ retire_slots(E)
      BY <1>3, <1>4
    <2>7. QED BY <1>1, <2>2, <2>3, <2>4, <2>5, <2>6, CallsCancelled, Zenon
  <1>10. \A f : slot_for(f)' <=> slot_for(f) /\ f \notin E
    BY <1>3, <1>4, RetiredSlots, Zenon DEF TInv
  <1>11. \A f \in Endpoint : slot_for(f) /\ f \notin E =>
           owner(f)' = owner(f) /\ (receive_waiting(f)' <=> receive_waiting(f))
    BY <1>3, <1>4, RetiredSlots, Zenon DEF TInv
  <1>12. WaitingEndpointHasReceiver'
    <2> SUFFICES ASSUME NEW f \in Endpoint, receive_waiting(f)'
                 PROVE  /\ receive_waiting(f) /\ owner(f)' = owner(f)
                        /\ state'[owner(f)] = state[owner(f)]
                        /\ partner'[owner(f)] = partner[owner(f)]
                        /\ recv_armed'[owner(f)] = recv_armed[owner(f)]
      BY WaitersKept, Zenon
    <2>1. slot_for(f) /\ f \notin E
      BY <1>10 DEF receive_waiting
    <2>2. receive_waiting(f) /\ owner(f)' = owner(f) /\ owner(f) # t
      BY <1>3, <1>11, <2>1
    <2>3. /\ owner(f) \in ThreadId /\ state[owner(f)] = "receive_blocked"
          /\ partner[owner(f)] = invalid_thread
      BY <2>2, FlaggedReceiver
    <2>4. owner(f) \notin released
      BY <1>6, <2>3, ThreadIdAssumption DEF waiting_on, Calling, invalid_thread
    <2>5. state'[owner(f)] = state[owner(f)] /\ partner'[owner(f)] = partner[owner(f)]
      BY <1>4, <2>2, <2>3, <2>4, Zenon
    <2>6. recv_armed'[owner(f)] = recv_armed[owner(f)]
      BY <1>4, <1>5, <2>2, <2>3, Zenon
    <2>7. QED BY <2>2, <2>5, <2>6, Zenon
  <1>13. DeathReachesEveryTable'
    <2> SUFFICES ASSUME NEW x \in ThreadId, ~find(x)' PROVE Gone(x)'
      BY <1>1, DeathKept
    <2>1. NoCall.caller # x /\ NoCall.server # x
      BY ThreadIdAssumption DEF NoCall, invalid_thread
    <2>2. CASE x = t
      <3>1. \A j \in SlotIndex : pending'[j].caller # x /\ pending'[j].server # x
        BY <1>4, <1>7, <2>1, <2>2, Zenon DEF drop_calls
      <3>2. \A j \in SlotIndex : replies'[j].caller # x /\ replies'[j].server # x
        BY <1>4, <2>1, <2>2, Zenon DEF drop_calls
      <3>3. \A f \in Endpoint : slot_for(f)' => owner(f)' # x
        BY <1>3, <1>10, <1>11, <2>2
      <3>4. recv_armed'[x] = NotArmed
        BY <1>4, <1>5, <2>2, Zenon
      <3>5. QED BY <1>4, <2>2, <3>1, <3>2, <3>3, <3>4, ThreadIdAssumption, Zenon DEF Gone, invalid_thread
    <2>3. CASE x # t
      <3>1. ~find(x)
        BY <1>4, <1>6, <2>3, Zenon DEF find, Calling
      <3>2. Gone(x)
        BY <3>1, GoneEverywhere DEF TInv, DeadAreGone
      <3>3. \A j \in SlotIndex : /\ pending'[j].caller # x /\ pending'[j].server # x
                                 /\ replies'[j].caller # x /\ replies'[j].server # x
        BY <1>4, <2>1, <3>2, Zenon DEF Gone, drop_calls
      <3>4. recv_armed'[x] = NotArmed
        BY <1>4, <1>5, <2>3, <3>2, ZenonT(30) DEF Gone
      <3>5. \A f \in Endpoint : slot_for(f)' => owner(f)' # x
        BY <1>10, <1>11, <3>2 DEF Gone
      <3>6. QED BY <1>4, <3>2, <3>3, <3>4, <3>5, ThreadIdAssumption, Zenon DEF Gone, invalid_thread
    <2>4. QED BY <2>2, <2>3
  <1>14. QED BY <1>1, <1>9, <1>12, <1>13 DEF TInv

\* A switch completes what the chosen thread was woken for.
LEMMA SwitchTInv ==
  ASSUME TInv, NEW t \in ThreadId, switch_to(t)
  PROVE  TInv'
  <1>1. KInv' /\ NoWakeForgotten'
    BY SwitchKInv DEF TInv
  <1>2. state[t] = "ready" /\ current' = t
    BY ChosenIsReady DEF TInv, switch_to
  <1>3. CASE complete_receive(t) /\ receive_call(t, recv_armed[t].endpoint)
    <2>1. send_armed' = send_armed /\ recv_armed' = disarmed(t)
      BY <1>3 DEF complete_receive, take_receive
    <2>2. QED BY <1>1, <1>2, <1>3, <2>1, ReceiveCallTInv
  <1>4. CASE ~(complete_receive(t) /\ receive_call(t, recv_armed[t].endpoint))
    <2>1. /\ state' = state /\ partner' = partner
          /\ UNCHANGED <<endpoints, pending, replies>>
          /\ completed' \subseteq completed
          /\ send_armed' \subseteq send_armed /\ send_armed \ {t} \subseteq send_armed'
          /\ recv_armed' \in {recv_armed, disarmed(t)}
      BY <1>4 DEF switch_to, complete_expiry, complete_receive, complete_reply, take,
                  nothing_to_complete, take_deadline_expiry, take_receive, rvars, ipcvars, contvars
    <2>2. \A x \in ThreadId : x # t => recv_armed'[x] = recv_armed[x]
      BY <2>1 DEF disarmed, TInv, KInv, KTypeOK
    <2>3. BlockedCallersArePending'
      BY SwitchCalls DEF TInv, PInv
    <2>4. WaitingEndpointHasReceiver'
      <3> SUFFICES ASSUME NEW f \in Endpoint, receive_waiting(f)'
                   PROVE  /\ receive_waiting(f) /\ owner(f)' = owner(f)
                          /\ state'[owner(f)] = state[owner(f)]
                          /\ partner'[owner(f)] = partner[owner(f)]
                          /\ recv_armed'[owner(f)] = recv_armed[owner(f)]
        BY WaitersKept
      <3>1. receive_waiting(f) /\ owner(f)' = owner(f)
        BY <2>1, ZenonT(30) DEF receive_waiting, slot_for, owner
      <3>2. owner(f) \in ThreadId /\ owner(f) # t
        BY <1>2, <3>1, FlaggedReceiver, Zenon
      <3>3. QED BY <2>1, <2>2, <3>1, <3>2, ZenonT(30)
    <2>5. DeathReachesEveryTable'
      <3> SUFFICES ASSUME NEW x \in ThreadId, ~find(x)' PROVE Gone(x)'
        BY <1>1, DeathKept
      <3>1. ~find(x) /\ x # t
        BY <1>2, <2>1 DEF find
      <3>2. Gone(x)
        BY <3>1, GoneEverywhere DEF TInv, DeadAreGone
      <3>3. QED BY <1>2, <2>1, <2>2, <3>1, <3>2, Zenon DEF Gone, slot_for, owner
    <2>6. QED BY <1>1, <2>3, <2>4, <2>5 DEF TInv
  <1>5. QED BY <1>3, <1>4

\* A step that changes nothing keeps the tables.
LEMMA StutterTInv ==
  ASSUME TInv, UNCHANGED kvars
  PROVE  TInv'
  <1>1. KInv' /\ NoWakeForgotten'
    BY StutterKInv DEF TInv
  <1>2. UNCHANGED <<state, partner, endpoints, pending, replies, completed, send_armed,
                    recv_armed, runqueue, current>>
    BY DEF kvars, rvars, ipcvars, contvars
  <1>3. DeathReachesEveryTable'
    BY <1>2 DEF TInv, DeathReachesEveryTable, Live, find, owned_by, active_endpoints, slot_for, owner
  <1>4. WaitingEndpointHasReceiver'
    BY <1>2 DEF TInv, WaitingEndpointHasReceiver, active_endpoints, slot_for, owner,
                receive_waiting, receive_waiting_thread, find
  <1>5. BlockedCallersArePending'
    BY StutterCalls DEF TInv, PInv
  <1>6. QED BY <1>1, <1>3, <1>4, <1>5 DEF TInv

\* Only an expired deadline can make the tables disagree.
LEMMA NextTInv ==
  ASSUME TInv, [KNext]_kvars, ~(\E t \in ThreadId : ipc_expire_one_receive(t))
  PROVE  TInv'
  <1>1. ASSUME NEW t \in ThreadId, NEW p \in Priority,
               kernel_create_thread(t, p) \/ kernel_create_admitted_thread(t, p)
        PROVE  TInv'
    BY <1>1, CreateTInv
  <1>2. ASSUME NEW t \in ThreadId, thread_start(t) \/ switch_to(t)
        PROVE  TInv'
    BY <1>2, StartTInv, SwitchTInv
  <1>3. ASSUME NEW t \in Mortal, destroy_thread(t)
        PROVE  TInv'
    BY <1>3, DestroyTInv, KernelIpcAssumption
  <1>4. ASSUME NEW t \in Server, create_ipc_endpoint(t)
        PROVE  TInv'
    BY <1>4, CreateEndpointTInv, KernelIpcAssumption
  <1>5. ASSUME NEW e \in Endpoint, retire_ipc_endpoint(owner(e), e)
        PROVE  TInv'
    BY <1>5, RetireTInv
  <1>6. ASSUME NEW e \in Endpoint, svc_send(e) \/ svc_receive_now(e)
        PROVE  TInv'
    BY <1>6, SendTInv, ReceiveNowTInv
  <1>7. ASSUME NEW e \in Endpoint, NEW b \in Bounded, svc_receive_wait(e, b)
        PROVE  TInv'
    BY <1>7, ReceiveWaitTInv, KernelIpcAssumption
  <1>8. ASSUME NEW k \in SlotIndex, svc_reply(k)
        PROVE  TInv'
    BY <1>8, ReplyTInv
  <1>9. QED BY <1>1, <1>2, <1>3, <1>4, <1>5, <1>6, <1>7, <1>8, StutterTInv DEF KNext

\* The safe half and the other half make the cache exact.
LEMMA TablesFromTInv == TInv => TablesAgree
  <1> SUFFICES ASSUME TInv PROVE TablesAgree
    OBVIOUS
  <1>1. ASSUME NEW t \in ThreadId
        PROVE  runqueue[t] = IF find(t) THEN entry(t) ELSE NotQueued(base[t])
    <2>1. Cached(t) /\ (state[t] = "ready" => runqueue[t].runnable)
      BY DEF TInv, KInv, CacheIsSafe, NoWakeForgotten
    <2>2. CASE find(t)
      <3>1. /\ runqueue[t].queued = TRUE
            /\ runqueue[t].runnable = (state[t] = "ready")
            /\ runqueue[t].priority = inherited_priority(t)
            /\ runqueue[t] \in [queued : BOOLEAN, runnable : BOOLEAN, priority : Priority]
        BY <2>1, <2>2 DEF Cached, TInv, KInv, KTypeOK
      <3>2. QED BY <2>2, <3>1, ZenonT(30) DEF entry
    <2>3. CASE ~find(t)
      BY <2>1, <2>3 DEF Cached
    <2>4. QED BY <2>2, <2>3
  <1>2. QED BY <1>1 DEF TInv, KInv, TablesAgree, RunqueueMirrorsRendezvous, IpcTablesAgree

NoExpiry == ~(\E t \in ThreadId : ipc_expire_one_receive(t))

\* As long as no armed deadline expires, the kernel's tables tell one story in every
\* reachable state, through sends, replies, retired endpoints and killed threads: the
\* dead are in no table, endpoints, pending calls and continuations agree with the
\* rendezvous, and the run queue caches exactly what it says.  (The timer path,
\* ipc_expire_one_receive, updates neither the endpoint nor the run queue.)
THEOREM TablesStayConsistent == KSpec /\ [][NoExpiry]_kvars => []TablesAgree
  <1>1. TInv /\ [KNext]_kvars /\ [NoExpiry]_kvars => TInv'
    BY NextTInv, StutterTInv DEF NoExpiry
  <1>2. QED BY InitTInv, TablesFromTInv, <1>1, PTL DEF KSpec

\* A continuation without a deadline never expires.
Untimed == \A t \in ThreadId : recv_armed[t].bounded = FALSE

\* Only svc_receive_wait arms a continuation, with the deadline it is given.
LEMMA UntimedKept ==
  ASSUME Bounded \subseteq {FALSE}, KTypeOK, Untimed, [KNext]_kvars
  PROVE  Untimed'
  <1>1. recv_armed \in [ThreadId -> [endpoint : Endpoint, bounded : BOOLEAN] \cup {NotArmed}]
    BY DEF KTypeOK
  <1>2. CASE recv_armed' = recv_armed
    BY <1>2 DEF Untimed
  <1>3. CASE \E t : recv_armed' = disarmed(t)
    BY <1>1, <1>3 DEF Untimed, disarmed, NotArmed
  <1>4. CASE \E t, e : recv_armed' = [recv_armed EXCEPT ![t] = [endpoint |-> e, bounded |-> FALSE]]
    BY <1>1, <1>4 DEF Untimed
  <1>5. ASSUME NEW t \in ThreadId, switch_to(t)
        PROVE  Untimed'
    BY <1>2, <1>3, <1>5 DEF switch_to, complete_expiry, complete_receive, complete_reply,
                            nothing_to_complete, take_receive, contvars
  <1>6. ASSUME NEW e, NEW b \in Bounded, svc_receive_wait(e, b)
        PROVE  Untimed'
    BY <1>4, <1>6, Zenon DEF svc_receive_wait, arm_receive
  <1>7. ASSUME NEW t, NEW p,
               \/ kernel_create_thread(t, p) \/ kernel_create_admitted_thread(t, p)
               \/ thread_start(t) \/ create_ipc_endpoint(t)
        PROVE  Untimed'
    BY <1>2, <1>7 DEF kernel_create_thread, kernel_create_admitted_thread, thread_start,
                      create_ipc_endpoint, contvars
  <1>8. ASSUME NEW t, ipc_expire_one_receive(t) \/ destroy_thread(t)
        PROVE  Untimed'
    BY <1>3, <1>8 DEF ipc_expire_one_receive, take_expired_receive, destroy_thread,
                      release_continuations
  <1>9. ASSUME NEW e,
               svc_send(e) \/ svc_receive_now(e) \/ retire_ipc_endpoint(owner(e), e) \/ svc_reply(e)
        PROVE  Untimed'
    BY <1>2, <1>3, <1>9 DEF svc_send, svc_receive_now, retire_ipc_endpoint, svc_reply, contvars
  <1>10. CASE UNCHANGED kvars
    BY <1>2, <1>10 DEF kvars, contvars
  <1>11. QED BY <1>5, <1>6, <1>7, <1>8, <1>9, <1>10 DEF KNext

\* In a system whose receives set no deadlines the tables agree without a hypothesis on
\* the behaviour.
COROLLARY TablesAgreeUntimed ==
  ASSUME Bounded \subseteq {FALSE}
  PROVE  KSpec => []TablesAgree
  <1>1. KInit => Untimed
    <2>1. NotArmed.bounded = FALSE
      BY DEF NotArmed
    <2>2. KInit => \A t \in ThreadId : recv_armed[t] = NotArmed
      BY Zenon DEF KInit
    <2>3. QED BY <2>1, <2>2, Zenon DEF Untimed
  <1>2. Untimed => NoExpiry
    BY DEF Untimed, NoExpiry, ipc_expire_one_receive, take_expired_receive
  <1>3. TInv => KTypeOK
    BY DEF TInv, KInv
  <1>4. TInv /\ Untimed /\ [KNext]_kvars => TInv' /\ Untimed'
    BY <1>2, <1>3, NextTInv, StutterTInv, UntimedKept, Zenon DEF NoExpiry
  <1>5. QED BY InitTInv, TablesFromTInv, <1>1, <1>4, PTL DEF KSpec

=============================================================================
