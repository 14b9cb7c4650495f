---------------------------- MODULE KernelProofs ----------------------------
(***************************************************************************)
(* Proofs about the kernel's rendezvous (Rendezvous) and the endpoint IPC  *)
(* built on it (KernelIpc), for every set of identities, every set of      *)
(* priorities and every table size.                                        *)
(***************************************************************************)
EXTENDS MCKernelIpc, TLAPS, WellFoundedInduction

\* The inductive invariant: NoOrphanWait needs the type of partner, and the
\* wake-reason property needs to know that blocked threads carry no stale wake.
RInv == TypeOK /\ SlotTableExact /\ NoOrphanWait /\ BlockedThreadIsClean

\* The initial table, with every slot free, satisfies the invariant.
LEMMA InitRInv == Init => RInv
  <1> SUFFICES ASSUME Init PROVE RInv
    OBVIOUS
  <1> USE ThreadIdAssumption, PriorityAssumption, MaxThreadsAssumption
  <1>1. (CHOOSE p \in Priority : TRUE) \in Priority
    OBVIOUS
  <1>2. TypeOK
    BY <1>1 DEF Init, TypeOK, ThreadState, WakeReason, OptThread, invalid_thread
  <1>3. SlotTableExact /\ NoOrphanWait /\ BlockedThreadIsClean
    BY DEF Init, SlotTableExact, NoOrphanWait, BlockedThreadIsClean, find,
           invalid_thread
  <1>4. QED BY <1>2, <1>3 DEF RInv

\* Taking a free slot, for create_thread and create_admitted_thread alike.
LEMMA OccupyRInv ==
  ASSUME RInv, NEW t \in ThreadId, NEW p \in Priority,
         NEW s \in {"ready", "admitted"}, occupy_slot(t, p, s)
  PROVE  RInv'
  <1> USE ThreadIdAssumption, MaxThreadsAssumption
  <1> USE DEF RInv, occupy_slot, TypeOK, OptThread, invalid_thread
  <1>1. TypeOK'
    BY DEF ThreadState, WakeReason
  <1>2. SlotTableExact'
    BY DEF SlotTableExact, find
  <1>3. NoOrphanWait'
    BY DEF NoOrphanWait, find
  <1>4. BlockedThreadIsClean'
    BY DEF BlockedThreadIsClean, find
  <1>5. QED BY <1>1, <1>2, <1>3, <1>4

\* exit_thread releases every thread whose wait names the exiting one.
LEMMA ExitRInv ==
  ASSUME RInv, NEW t \in ThreadId, exit_thread(t)
  PROVE  RInv'
  <1> USE ThreadIdAssumption, MaxThreadsAssumption
  <1> USE DEF RInv, exit_thread, waiting_on, TypeOK, OptThread, invalid_thread
  <1>1. TypeOK'
    BY DEF ThreadState, WakeReason
  <1>2. SlotTableExact'
    BY DEF SlotTableExact, find
  <1>3. NoOrphanWait'
    BY DEF NoOrphanWait, find
  <1>4. BlockedThreadIsClean'
    BY DEF BlockedThreadIsClean, find
  <1>5. QED BY <1>1, <1>2, <1>3, <1>4

\* The remaining operations touch neither the slots nor who is live.
LEMMA OneThreadRInv ==
  ASSUME RInv, NEW t \in ThreadId,
         \/ start_thread(t) \/ wait_receive(t) \/ take_delivered(t)
         \/ cancel_receive(t) \/ expire_receive(t) \/ take_deadline_expiry(t)
  PROVE  RInv'
  <1> USE ThreadIdAssumption
  <1> USE DEF RInv, TypeOK, OptThread, invalid_thread, ThreadState, WakeReason,
              SlotTableExact, NoOrphanWait, BlockedThreadIsClean, find
  <1>1. CASE start_thread(t)
    BY <1>1 DEF start_thread
  <1>2. CASE wait_receive(t)
    BY <1>2 DEF wait_receive
  <1>3. CASE take_delivered(t)
    BY <1>3 DEF take_delivered
  <1>4. CASE cancel_receive(t)
    BY <1>4 DEF cancel_receive, wake_receiver, receive_waiting_thread
  <1>5. CASE expire_receive(t)
    BY <1>5 DEF expire_receive, wake_receiver, receive_waiting_thread
  <1>6. CASE take_deadline_expiry(t)
    BY <1>6 DEF take_deadline_expiry
  <1>7. QED BY <1>1, <1>2, <1>3, <1>4, <1>5, <1>6

\* Delivery changes both ends of the rendezvous at once, and nobody else.
LEMMA DeliverEffect ==
  ASSUME RInv, NEW t \in ThreadId, NEW u \in ThreadId,
         deliver_waiting_receiver(t, u)
  PROVE  /\ t # u /\ state[t] = "ready" /\ state[u] = "receive_blocked"
         /\ state'[t] = "reply_blocked" /\ partner'[t] = u /\ wake'[t] = "none"
         /\ state'[u] = "ready" /\ partner'[u] = t
         /\ \A x \in ThreadId :
               /\ x # t /\ x # u => state'[x] = state[x] /\ partner'[x] = partner[x]
               /\ x # t => wake'[x] = wake[x]
         /\ \A x : find(x)' <=> find(x)
         /\ base' = base /\ slots' = slots
         /\ TypeOK'
  <1>1. /\ t # u /\ state[t] = "ready" /\ state[u] = "receive_blocked"
        /\ state' = [state EXCEPT ![t] = "reply_blocked", ![u] = "ready"]
        /\ partner' = [partner EXCEPT ![t] = u, ![u] = t]
        /\ wake' = [wake EXCEPT ![t] = "none"]
        /\ base' = base /\ slots' = slots
    BY DEF deliver_waiting_receiver, receive_waiting_thread
  <1>2. TypeOK'
    BY <1>1 DEF RInv, TypeOK, OptThread, ThreadState, WakeReason
  <1>3. /\ \A x \in ThreadId :
              /\ x # t /\ x # u => state'[x] = state[x] /\ partner'[x] = partner[x]
              /\ x # t => wake'[x] = wake[x]
        /\ state'[t] = "reply_blocked" /\ partner'[t] = u /\ wake'[t] = "none"
        /\ state'[u] = "ready" /\ partner'[u] = t
    BY <1>1 DEF RInv, TypeOK
  <1>4. \A x : find(x)' <=> find(x)
    BY <1>1, <1>3, Zenon DEF find
  <1>5. QED BY <1>1, <1>2, <1>3, <1>4, Zenon

(* deliver_waiting_receiver preserves the invariant: the receiver it wakes was
   a registered waiter, and the caller it parks names it as partner. *)
LEMMA DeliverRInv ==
  ASSUME RInv, NEW t \in ThreadId, NEW u \in ThreadId,
         deliver_waiting_receiver(t, u)
  PROVE  RInv'
  <1>1. /\ t # u /\ state[t] = "ready"
        /\ state'[t] = "reply_blocked" /\ partner'[t] = u /\ wake'[t] = "none"
        /\ state'[u] = "ready"
        /\ \A x \in ThreadId :
              /\ x # t /\ x # u => state'[x] = state[x] /\ partner'[x] = partner[x]
              /\ x # t => wake'[x] = wake[x]
    BY DeliverEffect
  <1>2. /\ \A x : find(x)' <=> find(x)
        /\ slots' = slots
        /\ TypeOK'
    BY DeliverEffect
  <1>3. SlotTableExact'
    BY <1>2 DEF RInv, SlotTableExact
  <1>4. ASSUME NEW x \in ThreadId, state'[x] \in {"send_blocked", "reply_blocked"}
        PROVE  partner'[x] # x /\ (find(partner[x]))'
    <2>1. x # u
      BY <1>1, <1>4
    <2>2. CASE x = t
      <3>1. find(u)'
        BY <1>1 DEF find
      <3>2. QED BY <1>1, <2>2, <3>1
    <2>3. CASE x # t
      <3>1. state'[x] = state[x] /\ partner'[x] = partner[x]
        BY <1>1, <2>1, <2>3
      <3>2. partner[x] # x /\ find(partner[x])
        BY <1>4, <3>1 DEF RInv, NoOrphanWait
      <3>3. QED BY <1>2, <3>1, <3>2
    <2>4. QED BY <2>2, <2>3
  <1>5. NoOrphanWait'
    BY <1>4 DEF NoOrphanWait
  <1>6. BlockedThreadIsClean'
    BY <1>1 DEF RInv, BlockedThreadIsClean
  <1>7. QED BY <1>2, <1>3, <1>5, <1>6 DEF RInv

(* What accept_sender, reply and cancel_call have in common: a step that rewrites
   two registered threads consistently preserves the invariant. *)
LEMMA TwoThreadRInv ==
  ASSUME RInv, NEW t \in ThreadId, NEW u \in ThreadId,
         \/ block_send(t, u) \/ deliver_waiting_receiver(t, u)
         \/ accept_sender(t, u) \/ reply(t, u) \/ cancel_call(t, u)
  PROVE  RInv'
  <1> USE ThreadIdAssumption
  <1> USE DEF RInv, TypeOK, OptThread, invalid_thread, ThreadState, WakeReason,
              SlotTableExact, NoOrphanWait, BlockedThreadIsClean, find
  <1>1. CASE block_send(t, u)
    BY <1>1 DEF block_send
  <1>2. CASE deliver_waiting_receiver(t, u)
    BY <1>2, DeliverRInv
  <1>3. CASE accept_sender(t, u)
    BY <1>3 DEF accept_sender
  <1>4. CASE reply(t, u)
    BY <1>4 DEF reply
  <1>5. CASE cancel_call(t, u)
    BY <1>5 DEF cancel_call, callers_of
  <1>6. QED BY <1>1, <1>2, <1>3, <1>4, <1>5

\* Every step of the component is one of the operations above.
LEMMA NextRInv == RInv /\ [Next]_rvars => RInv'
  <1> SUFFICES ASSUME RInv, [Next]_rvars PROVE RInv'
    OBVIOUS
  <1>1. ASSUME NEW t \in ThreadId, NEW p \in Priority,
               create_thread(t, p) \/ create_admitted_thread(t, p)
        PROVE  RInv'
    BY <1>1, OccupyRInv DEF create_thread, create_admitted_thread
  <1>2. ASSUME NEW t \in ThreadId, start_thread(t) \/ cancel_receive(t)
               \/ expire_receive(t) \/ take_deadline_expiry(t)
        PROVE  RInv'
    BY <1>2, OneThreadRInv
  <1>3. ASSUME NEW t \in ThreadId, exit_thread(t)
        PROVE  RInv'
    BY <1>3, ExitRInv
  <1>4. ASSUME NEW t \in ThreadId, receive(t)
        PROVE  RInv'
    BY <1>4, OneThreadRInv, TwoThreadRInv DEF receive
  <1>5. ASSUME NEW t \in ThreadId, NEW u \in ThreadId,
               send(t, u) \/ reply(t, u) \/ cancel_call(t, u)
        PROVE  RInv'
    BY <1>5, TwoThreadRInv DEF send
  <1>6. CASE UNCHANGED rvars
    BY <1>6 DEF rvars, RInv, TypeOK, SlotTableExact, NoOrphanWait,
                BlockedThreadIsClean, find
  <1>7. QED BY <1>1, <1>2, <1>3, <1>4, <1>5, <1>6 DEF Next

\* In every reachable state the slot table is exact, every blocked caller waits
\* for a live peer other than itself, and blocked threads carry nothing stale.
THEOREM RendezvousSafe ==
    Spec => [](TypeOK /\ SlotTableExact /\ NoOrphanWait /\ BlockedThreadIsClean)
  <1>1. RInv /\ UNCHANGED rvars => RInv'
    BY NextRInv
  <1>2. QED BY InitRInv, NextRInv, PTL DEF Spec, RInv

\* Every wakeup is recorded with a true reason (the WakeReason contract of
\* rendezvous.hpp): "peer_exited" only if the awaited peer is gone, "replied"
\* only after acceptance, nothing only for a receiver handed a waiting caller.
THEOREM RendezvousWakes == Spec => WakesExplained
  <1>1. ASSUME RInv, Next, NEW x \in ThreadId
        PROVE  ExplainedWake(x)
    <2> USE <1>1, ThreadIdAssumption
    <2> USE DEF RInv, TypeOK, OptThread, invalid_thread, BlockedThreadIsClean, find,
                ExplainedWake
    <2>1. ASSUME NEW t \in ThreadId, NEW p \in Priority,
                 create_thread(t, p) \/ create_admitted_thread(t, p)
          PROVE  ExplainedWake(x)
      BY <2>1 DEF create_thread, create_admitted_thread, occupy_slot
    <2>2. ASSUME NEW t \in ThreadId, start_thread(t) \/ take_deadline_expiry(t)
          PROVE  ExplainedWake(x)
      BY <2>2 DEF start_thread, take_deadline_expiry
    <2>3. ASSUME NEW t \in ThreadId, exit_thread(t)
          PROVE  ExplainedWake(x)
      BY <2>3 DEF exit_thread, waiting_on
    <2>4. ASSUME NEW t \in ThreadId, receive(t)
          PROVE  ExplainedWake(x)
      BY <2>4 DEF receive, take_delivered, accept_sender, wait_receive
    <2>5. ASSUME NEW t \in ThreadId, cancel_receive(t) \/ expire_receive(t)
          PROVE  ExplainedWake(x)
      BY <2>5 DEF cancel_receive, expire_receive, wake_receiver,
                  receive_waiting_thread
    <2>6. ASSUME NEW t \in ThreadId, NEW u \in ThreadId, send(t, u)
          PROVE  ExplainedWake(x)
      <3>1. CASE block_send(t, u)
        BY <3>1 DEF block_send
      <3>2. CASE deliver_waiting_receiver(t, u)
        BY <3>2, DeliverEffect
      <3>3. QED BY <2>6, <3>1, <3>2 DEF send
    <2>7. ASSUME NEW t \in ThreadId, NEW u \in ThreadId,
                 reply(t, u) \/ cancel_call(t, u)
          PROVE  ExplainedWake(x)
      BY <2>7 DEF reply, cancel_call, callers_of
    <2>8. QED BY <2>1, <2>2, <2>3, <2>4, <2>5, <2>6, <2>7 DEF Next
  <1>2. RInv /\ [Next]_rvars => [EveryWakeExplained]_rvars
    BY <1>1 DEF EveryWakeExplained
  <1>3. QED BY InitRInv, NextRInv, <1>2, PTL DEF Spec, WakesExplained

-----------------------------------------------------------------------------
\* Every set of naturals has a least element.
LEMMA LeastExists ==
  ASSUME NEW T, T \subseteq Nat, T # {}
  PROVE  \E x \in T : \A y \in T : x <= y
  <1>1. \E x \in T : \A y \in T : ~ (<<y, x>> \in OpToRel(<, Nat))
    BY NatLessThanWellFounded, WFMin, Zenon
  <1>2. PICK x \in T : \A y \in T : ~ (<<y, x>> \in OpToRel(<, Nat))
    BY <1>1, Zenon
  <1>3. \A y \in T : ~(y < x)
    BY <1>2, Zenon DEF OpToRel
  <1>4. QED BY <1>3

\* A set of bounded naturals has a greatest element.
LEMMA GreatestExists ==
  ASSUME NEW b \in Nat, NEW S, S \subseteq 0..b, S # {}
  PROVE  \E m \in S : \A x \in S : x <= m
  <1> DEFINE T == {k \in Nat : \A x \in S : x <= k}
  <1>1. b \in T
    OBVIOUS
  <1>2. PICK m \in T : \A k \in T : m <= k
    BY <1>1, LeastExists, Zenon
  <1>3. m \in S
    <2>1. SUFFICES ASSUME m \notin S PROVE FALSE
      OBVIOUS
    <2>2. PICK x \in S : TRUE
      BY Zenon
    <2>3. x < m /\ m \in Nat /\ m > 0
      BY <2>1, <1>2
    <2>4. \A y \in S : y <= m - 1
      BY <2>1, <1>2, <2>3
    <2>5. m - 1 \in T
      BY <2>3, <2>4
    <2>6. QED BY <1>2, <2>3, <2>5
  <1>4. QED BY <1>2, <1>3

\* inherited_priority is the base priority of the thread or of one of its callers,
\* and none of theirs is higher.
HighestInherited ==
    \A t \in ThreadId :
        /\ inherited_priority(t) \in Priority
        /\ \A o \in callers_of(t) \cup {t} : base[o] <= inherited_priority(t)
        /\ \E o \in callers_of(t) \cup {t} : base[o] = inherited_priority(t)

\* It is there to be chosen, because priorities are bounded.
LEMMA InheritedIsHighest == TypeOK => HighestInherited
  <1> SUFFICES ASSUME TypeOK, NEW t \in ThreadId
               PROVE  /\ inherited_priority(t) \in Priority
                      /\ \A o \in callers_of(t) \cup {t} : base[o] <= inherited_priority(t)
                      /\ \E o \in callers_of(t) \cup {t} : base[o] = inherited_priority(t)
    BY Zenon DEF HighestInherited
  <1> DEFINE C == callers_of(t) \cup {t}
             P == {base[o] : o \in C}
  <1>1. C \subseteq ThreadId /\ t \in C
    BY DEF callers_of
  <1> HIDE DEF C
  <1>2. P \subseteq Priority /\ P # {}
    BY <1>1 DEF TypeOK
  <1>3. P \subseteq 0..255
    BY <1>2, PriorityAssumption, Zenon
  <1>4. PICK m \in P : \A x \in P : x <= m
    <2> HIDE DEF P
    <2>1. 255 \in Nat
      OBVIOUS
    <2>2. QED BY ONLY <1>2, <1>3, <2>1, GreatestExists, ZenonT(30)
  <1>5. \A o \in C : base[o] <= m
    BY <1>4
  <1> DEFINE q == CHOOSE p \in P : \A o \in C : base[o] <= p
  <1>6. q \in P /\ \A o \in C : base[o] <= q
    BY <1>4, <1>5
  <1>7. inherited_priority(t) = q
    BY DEF inherited_priority, C
  <1> HIDE DEF q
  <1>8. QED BY <1>2, <1>6, <1>7 DEF C

\* It depends only on the callers and their base priorities.
LEMMA InheritedIsKept ==
  ASSUME TypeOK, TypeOK', NEW t \in ThreadId, callers_of(t)' = callers_of(t),
         \A o \in callers_of(t) \cup {t} : base'[o] = base[o]
  PROVE  inherited_priority(t)' = inherited_priority(t)
  <1> DEFINE C == callers_of(t) \cup {t}
  <1>1. /\ inherited_priority(t) \in Priority
        /\ \A o \in C : base[o] <= inherited_priority(t)
        /\ \E o \in C : base[o] = inherited_priority(t)
    BY InheritedIsHighest DEF HighestInherited
  <1>2. HighestInherited'
    BY InheritedIsHighest, PTL
  <1>3. /\ inherited_priority(t)' \in Priority
        /\ \A o \in C : base'[o] <= inherited_priority(t)'
        /\ \E o \in C : base'[o] = inherited_priority(t)'
    BY <1>2 DEF HighestInherited
  <1>4. PICK p, q : p = inherited_priority(t) /\ q = inherited_priority(t)'
    OBVIOUS
  <1>5. p \in Nat /\ q \in Nat
    <2>1. Priority \subseteq Nat
      BY PriorityAssumption
    <2>2. p \in Priority /\ q \in Priority
      BY <1>1, <1>3, <1>4
    <2>3. QED BY <2>1, <2>2
  <1>6. p <= q /\ q <= p
    BY <1>1, <1>3, <1>4
  <1>7. QED BY <1>4, <1>5, <1>6

-----------------------------------------------------------------------------
(***************************************************************************)
(* The run queue and lent priority.  KInv adds to the rendezvous invariant *)
(* the types of the kernel's tables and the half of the run queue cache    *)
(* that every step keeps: what it says of a queued thread is never more    *)
(* than the rendezvous says.                                               *)
(***************************************************************************)
\* The scheduler's entry of thread t is safe to act on: a live thread is queued
\* at its inherited priority and runnable only if it is ready, and a thread that
\* does not exist is not queued.
Cached(t) ==
    IF find(t)
    THEN /\ runqueue[t].queued
         /\ runqueue[t].priority = inherited_priority(t)
         /\ runqueue[t].runnable => state[t] = "ready"
    ELSE runqueue[t] = NotQueued(base[t])

CacheIsSafe == \A t \in ThreadId : Cached(t)

\* The converse, which an expired deadline breaks: who is ready can be chosen.
NoWakeForgotten == \A t \in ThreadId : state[t] = "ready" => runqueue[t].runnable

\* What holds of the kernel whatever is called, dies or expires.
KInv == RInv /\ KTypeOK /\ CacheIsSafe

RunqueueEntry == [queued : BOOLEAN, runnable : BOOLEAN, priority : Priority]

\* An entry computed by synchronise_thread is well typed.
LEMMA EntryType == TypeOK => \A t \in ThreadId : entry(t) \in RunqueueEntry
  BY InheritedIsHighest, Zenon DEF HighestInherited, entry, RunqueueEntry

\* synchronise keeps the cache safe if it reaches every thread whose callers or
\* whose readiness changed.
LEMMA SynchroniseKeepsCache ==
  ASSUME KInv, TypeOK', base' = base, NEW S, synchronise(S),
         \A t \in ThreadId : find(t)' <=> find(t),
         \A t \in ThreadId \ S :
            find(t) => /\ callers_of(t)' = callers_of(t)
                       /\ state'[t] = "ready" <=> state[t] = "ready"
  PROVE  /\ runqueue' \in [ThreadId -> RunqueueEntry]
         /\ CacheIsSafe'
         /\ NoWakeForgotten => NoWakeForgotten'
  <1>1. HighestInherited'
    BY InheritedIsHighest, PTL
  <1>2. \A t \in ThreadId : entry(t)' \in RunqueueEntry
    BY <1>1 DEF HighestInherited, entry, RunqueueEntry
  <1>3. runqueue \in [ThreadId -> RunqueueEntry]
    BY DEF KInv, KTypeOK, RunqueueEntry
  <1>4. runqueue' \in [ThreadId -> RunqueueEntry]
    BY <1>2, <1>3 DEF synchronise
  <1>5. \A t \in ThreadId : find(t) => runqueue[t].queued
    BY DEF KInv, CacheIsSafe, Cached
  <1>6. ASSUME NEW t \in ThreadId
        PROVE  Cached(t)' /\ (NoWakeForgotten => (state'[t] = "ready" => runqueue'[t].runnable))
    <2>1. CASE t \in S /\ find(t)
      <3>1. runqueue'[t] = entry(t)' /\ find(t)'
        BY <1>5, <2>1 DEF synchronise
      <3>2. /\ runqueue'[t].queued
            /\ runqueue'[t].runnable = (state'[t] = "ready")
            /\ runqueue'[t].priority = inherited_priority(t)'
        BY <3>1 DEF entry
      <3>3. QED BY <3>1, <3>2, Zenon DEF Cached
    <2>2. CASE t \notin S /\ find(t)
      <3>1. runqueue'[t] = runqueue[t] /\ find(t)'
        BY <2>2 DEF synchronise
      <3>2. inherited_priority(t)' = inherited_priority(t)
        BY <2>2, InheritedIsKept DEF KInv, RInv
      <3>3. Cached(t)
        BY DEF KInv, CacheIsSafe
      <3>4. QED BY <2>2, <3>1, <3>2, <3>3 DEF Cached, NoWakeForgotten
    <2>3. CASE ~find(t)
      <3>1. runqueue'[t] = runqueue[t] /\ ~find(t)'
        BY <2>3 DEF synchronise
      <3>2. runqueue[t] = NotQueued(base[t])
        BY <2>3 DEF KInv, CacheIsSafe, Cached
      <3>3. QED BY <2>3, <3>1, <3>2 DEF Cached, NotQueued, find
    <2>4. QED BY <2>1, <2>2, <2>3
  <1>7. QED BY <1>4, <1>6 DEF CacheIsSafe, NoWakeForgotten

\* An entry written for t, when nobody else's changed.
LEMMA EntryIsCached ==
  ASSUME NEW t \in ThreadId, find(t)', runqueue'[t] = entry(t)'
  PROVE  Cached(t)' /\ (state'[t] = "ready" => runqueue'[t].runnable)
  <1>1. /\ runqueue'[t].queued
        /\ runqueue'[t].runnable = (state'[t] = "ready")
        /\ runqueue'[t].priority = inherited_priority(t)'
    BY DEF entry
  <1>2. QED BY <1>1, Zenon DEF Cached

\* The tables are empty to begin with.
LEMMA InitKInv == KInit => KInv /\ NoWakeForgotten
  <1> SUFFICES ASSUME KInit PROVE KInv /\ NoWakeForgotten
    OBVIOUS
  <1>1. RInv
    BY InitRInv DEF KInit
  <1>2. base \in [ThreadId -> Priority] /\ \A t \in ThreadId : state[t] = "exited"
    BY <1>1 DEF RInv, TypeOK, KInit, Init
  <1>3. KTypeOK
    BY <1>1, <1>2, KernelIpcAssumption
       DEF KInit, KTypeOK, RInv, OptThread, OptCall, NotQueued
  <1>4. CacheIsSafe /\ NoWakeForgotten
    BY <1>2 DEF KInit, CacheIsSafe, Cached, NoWakeForgotten, find
  <1>5. QED BY <1>1, <1>3, <1>4 DEF KInv

(* kernel_create_thread and kernel_create_admitted_thread: the new thread has no
   callers, because nobody waits for a thread that does not exist. *)
LEMMA CreateKInv ==
  ASSUME KInv, NEW t \in ThreadId, NEW p \in Priority,
         kernel_create_thread(t, p) \/ kernel_create_admitted_thread(t, p)
  PROVE  KInv' /\ (NoWakeForgotten => NoWakeForgotten')
  <1>1. PICK s \in {"ready", "admitted"} : occupy_slot(t, p, s)
    BY DEF kernel_create_thread, kernel_create_admitted_thread, create_thread,
           create_admitted_thread
  <1>2. /\ runqueue' = [runqueue EXCEPT ![t] = entry(t)']
        /\ UNCHANGED <<ipcvars, contvars, current, fault>>
    BY DEF kernel_create_thread, kernel_create_admitted_thread, admit_to_runqueue
  <1>3. RInv'
    BY <1>1, OccupyRInv DEF KInv
  <1>4. \A x \in ThreadId : entry(x)' \in RunqueueEntry
    <2>1. HighestInherited'
      BY <1>3, InheritedIsHighest, PTL DEF RInv
    <2>2. QED BY <2>1 DEF HighestInherited, entry, RunqueueEntry
  <1>5. runqueue' \in [ThreadId -> RunqueueEntry]
    BY <1>2, <1>4 DEF KInv, KTypeOK, RunqueueEntry
  <1>6. KTypeOK'
    BY <1>2, <1>3, <1>5 DEF KInv, KTypeOK, RunqueueEntry, RInv, ipcvars, contvars
  <1>7. ASSUME NEW x \in ThreadId
        PROVE  Cached(x)' /\ (NoWakeForgotten => (state'[x] = "ready" => runqueue'[x].runnable))
    <2>1. CASE x = t
      <3>1. find(t)' /\ runqueue'[t] = entry(t)'
        BY <1>1, <1>2 DEF occupy_slot, find, KInv, RInv, TypeOK, KTypeOK
      <3>2. QED BY <2>1, <3>1, EntryIsCached
    <2>2. CASE x # t
      <3>1. /\ state'[x] = state[x] /\ base'[x] = base[x] /\ runqueue'[x] = runqueue[x]
            /\ find(x)' <=> find(x)
        BY <1>1, <1>2, <2>2 DEF occupy_slot, find, KInv, RInv, TypeOK, KTypeOK
      <3>2. callers_of(x)' = callers_of(x) /\ t \notin callers_of(x)
        BY <1>1, <2>2 DEF occupy_slot, callers_of, find, KInv, RInv, TypeOK
      <3>3. \A o \in callers_of(x) \cup {x} : base'[o] = base[o]
        BY <1>1, <2>2, <3>2 DEF occupy_slot, callers_of, KInv, RInv, TypeOK
      <3>4. inherited_priority(x)' = inherited_priority(x)
        BY <1>3, <3>2, <3>3, InheritedIsKept DEF KInv, RInv
      <3>5. Cached(x)
        BY DEF KInv, CacheIsSafe
      <3>6. QED BY <3>1, <3>4, <3>5 DEF Cached, NoWakeForgotten, NotQueued
    <2>3. QED BY <2>1, <2>2
  <1>8. QED BY <1>3, <1>6, <1>7 DEF KInv, CacheIsSafe, NoWakeForgotten

\* Retiring endpoints keeps the table's type.
LEMMA RetiredSlotsTyped ==
  ASSUME NEW E, retire_slots(E),
         endpoints \in [EndpointSlot ->
            [server : OptThread, generation : 0..MaxGeneration,
             active : BOOLEAN, receive_waiting : BOOLEAN]]
  PROVE  endpoints' \in [EndpointSlot ->
            [server : OptThread, generation : 0..MaxGeneration,
             active : BOOLEAN, receive_waiting : BOOLEAN]]
  BY ZenonT(30) DEF retire_slots, OptThread

\* destroy_thread releases whoever waits on the dead thread and recomputes every
\* entry.
LEMMA DestroyKInv ==
  ASSUME KInv, NEW t \in ThreadId, destroy_thread(t)
  PROVE  KInv' /\ (NoWakeForgotten => NoWakeForgotten')
  <1> DEFINE E == retired_with(t)
             released == waiting_on(t) \cup cancelled_by(E)
  <1>1. /\ state' = [o \in ThreadId |->
                       IF o = t THEN "exited"
                       ELSE IF o \in released THEN "ready" ELSE state[o]]
        /\ partner' = [o \in ThreadId |->
                         IF o \in released \cup {t} THEN invalid_thread ELSE partner[o]]
        /\ wake' = [o \in ThreadId |->
                      IF o = t THEN "none"
                      ELSE IF o \in cancelled_by(E) THEN "endpoint_retired"
                      ELSE IF o \in released THEN "peer_exited" ELSE wake[o]]
        /\ slots' = [i \in SlotIndex |-> IF slots[i] = t THEN invalid_thread ELSE slots[i]]
        /\ base' = base
    BY Zenon DEF destroy_thread
  <1>2. \A o \in ThreadId : o \in released =>
           /\ o # t => state[o] \in {"send_blocked", "reply_blocked", "receive_blocked"}
           /\ find(o)
    BY DEF waiting_on, cancelled_by, callers_of, find
  <1>3. \A o \in ThreadId :
           /\ o # t /\ state[o] \in {"send_blocked", "reply_blocked"} /\ o \notin released
              => partner[o] # t
    BY DEF waiting_on
  <1> HIDE DEF released, E
  <1>4. RInv'
    <2> USE ThreadIdAssumption, MaxThreadsAssumption
    <2> USE DEF KInv, RInv, TypeOK, OptThread, invalid_thread
    <2>1. TypeOK'
      BY <1>1 DEF ThreadState, WakeReason
    <2>2. \A o \in ThreadId : find(o)' <=> find(o) /\ o # t
      BY <1>1, <1>2 DEF find
    <2>3. SlotTableExact'
      BY <1>1, <2>2 DEF SlotTableExact
    <2>4. ASSUME NEW o \in ThreadId, state'[o] \in {"send_blocked", "reply_blocked"}
          PROVE  partner'[o] # o /\ (find(partner[o]))'
      <3>1. /\ o # t /\ o \notin released
            /\ state'[o] = state[o] /\ partner'[o] = partner[o]
        BY <1>1, <2>4
      <3>2. partner[o] # o /\ find(partner[o]) /\ partner[o] # t
        BY <1>3, <2>4, <3>1 DEF NoOrphanWait
      <3>3. partner[o] \in ThreadId
        BY <3>2 DEF find
      <3>4. QED BY <2>2, <3>1, <3>2, <3>3, Zenon
    <2>5. NoOrphanWait'
      BY <2>4 DEF NoOrphanWait
    <2>6. \A o \in ThreadId : state'[o] \in {"send_blocked", "reply_blocked", "receive_blocked"}
             => state'[o] = state[o] /\ partner'[o] = partner[o] /\ wake'[o] = wake[o]
      BY <1>1, <1>2 DEF E, released
    <2>7. BlockedThreadIsClean'
      BY <2>6 DEF BlockedThreadIsClean
    <2>8. QED BY <2>1, <2>3, <2>5, <2>7
  <1>5. runqueue' = [o \in ThreadId |->
                       IF o = t THEN NotQueued(base[t])
                       ELSE IF find(o)' THEN entry(o)' ELSE runqueue[o]]
    BY DEF destroy_thread
  <1>6. \A x \in ThreadId : entry(x)' \in RunqueueEntry
    <2>1. HighestInherited'
      BY <1>4, InheritedIsHighest, PTL DEF RInv
    <2>2. QED BY <2>1 DEF HighestInherited, entry, RunqueueEntry
  <1>7. runqueue' \in [ThreadId -> RunqueueEntry]
    BY <1>5, <1>6 DEF KInv, KTypeOK, RInv, TypeOK, RunqueueEntry, NotQueued
  <1>8. /\ endpoints' \in [EndpointSlot ->
              [server : OptThread, generation : 0..MaxGeneration,
               active : BOOLEAN, receive_waiting : BOOLEAN]]
        /\ pending' \in [SlotIndex -> OptCall]
        /\ replies' \in [SlotIndex -> OptCall]
        /\ completed' \subseteq ThreadId
    <2>1. release_thread(t, E)
      BY DEF destroy_thread, E
    <2>2. endpoints' \in [EndpointSlot ->
              [server : OptThread, generation : 0..MaxGeneration,
               active : BOOLEAN, receive_waiting : BOOLEAN]]
      BY <2>1, RetiredSlotsTyped DEF release_thread, KInv, KTypeOK
    <2>3. QED BY <2>1, <2>2 DEF release_thread, drop_calls, KInv, KTypeOK, OptCall
  <1>9. /\ send_armed' \subseteq ThreadId
        /\ recv_armed' \in [ThreadId ->
              [endpoint : Endpoint, bounded : BOOLEAN] \cup {NotArmed}]
        /\ current' \in OptThread
        /\ fault' = fault
    BY Zenon DEF destroy_thread, release_continuations, disarmed, KInv, KTypeOK, OptThread
  <1>10. KTypeOK'
    BY <1>4, <1>7, <1>8, <1>9 DEF KInv, KTypeOK, RInv, RunqueueEntry
  <1>11. ASSUME NEW x \in ThreadId
         PROVE  Cached(x)' /\ (state'[x] = "ready" => runqueue'[x].runnable \/ ~find(x)')
    <2>1. CASE find(x)'
      <3>1. runqueue'[x] = entry(x)'
        BY <1>1, <1>5, <2>1 DEF find
      <3>2. QED BY <2>1, <3>1, EntryIsCached
    <2>2. CASE ~find(x)'
      <3>1. base'[x] = base[x]
        BY <1>1
      <3>2. runqueue'[x] = NotQueued(base[x])
        <4>1. CASE x = t
          BY <1>5, <4>1
        <4>2. CASE x # t
          <5>1. ~find(x)
            BY <1>1, <1>2, <2>2, <4>2 DEF find
          <5>2. runqueue[x] = NotQueued(base[x])
            BY <5>1 DEF KInv, CacheIsSafe, Cached
          <5>3. QED BY <1>5, <2>2, <4>2, <5>2
        <4>3. QED BY <4>1, <4>2
      <3>3. QED BY <2>2, <3>1, <3>2 DEF Cached, NotQueued
    <2>3. QED BY <2>1, <2>2
  <1>12. NoWakeForgotten'
    BY <1>11 DEF NoWakeForgotten, find
  <1>13. QED BY <1>4, <1>10, <1>11, <1>12 DEF KInv, CacheIsSafe

\* What the pieces of KTypeOK say of the tables other than the run queue.
TablesTyped ==
    /\ endpoints \in [EndpointSlot ->
          [server : OptThread, generation : 0..MaxGeneration,
           active : BOOLEAN, receive_waiting : BOOLEAN]]
    /\ pending \in [SlotIndex -> OptCall]
    /\ replies \in [SlotIndex -> OptCall]
    /\ completed \subseteq ThreadId
    /\ send_armed \subseteq ThreadId
    /\ recv_armed \in [ThreadId ->
          [endpoint : Endpoint, bounded : BOOLEAN] \cup {NotArmed}]
    /\ current \in OptThread
    /\ fault \in {"none", "expiry", "completion"}

\* A step of the rendezvous that ends in synchronise.
LEMMA SynchronisedKInv ==
  ASSUME KInv, RInv', TablesTyped', base' = base, NEW S, synchronise(S),
         \A t \in ThreadId : find(t)' <=> find(t),
         \A t \in ThreadId \ S :
            find(t) => /\ callers_of(t)' = callers_of(t)
                       /\ state'[t] = "ready" <=> state[t] = "ready"
  PROVE  KInv' /\ (NoWakeForgotten => NoWakeForgotten')
  <1>1. TypeOK'
    BY DEF RInv
  <1>2. /\ runqueue' \in [ThreadId -> RunqueueEntry]
        /\ CacheIsSafe'
        /\ NoWakeForgotten => NoWakeForgotten'
    BY <1>1, SynchroniseKeepsCache
  <1>3. QED BY <1>1, <1>2 DEF KInv, KTypeOK, TablesTyped, RunqueueEntry

\* A step that leaves the run queue alone, as it does who is live, who is ready
\* and who calls whom.
LEMMA UnqueuedKInv ==
  ASSUME KInv, RInv', TablesTyped', base' = base, runqueue' = runqueue,
         \A t \in ThreadId : find(t)' <=> find(t),
         \A t \in ThreadId : callers_of(t)' = callers_of(t),
         \A t \in ThreadId : state[t] = "ready" => state'[t] = "ready"
  PROVE  KInv'
  <1>1. TypeOK' /\ TypeOK
    BY DEF RInv, KInv
  <1>2. ASSUME NEW t \in ThreadId PROVE Cached(t)'
    <2>1. inherited_priority(t)' = inherited_priority(t)
      BY <1>1, InheritedIsKept
    <2>2. Cached(t)
      BY DEF KInv, CacheIsSafe
    <2>3. QED BY <2>1, <2>2 DEF Cached
  <1>3. QED BY <1>1, <1>2 DEF KInv, KTypeOK, TablesTyped, CacheIsSafe

\* thread_start makes the thread ready and recomputes its entry.
LEMMA StartKInv ==
  ASSUME KInv, NEW t \in ThreadId, thread_start(t)
  PROVE  KInv' /\ (NoWakeForgotten => NoWakeForgotten')
  <1>1. start_thread(t) /\ synchronise({t}) /\ UNCHANGED <<ipcvars, contvars, current, fault>>
    BY DEF thread_start
  <1>2. RInv'
    BY <1>1, OneThreadRInv DEF KInv
  <1>3. TablesTyped'
    BY <1>1 DEF KInv, KTypeOK, TablesTyped, ipcvars, contvars
  <1>4. /\ base' = base
        /\ \A x \in ThreadId : find(x)' <=> find(x)
        /\ \A x \in ThreadId : callers_of(x)' = callers_of(x)
        /\ \A x \in ThreadId \ {t} : state'[x] = state[x]
    BY <1>1 DEF start_thread, find, callers_of, KInv, RInv, TypeOK
  <1>5. QED BY <1>1, <1>2, <1>3, <1>4, SynchronisedKInv

\* create_ipc_endpoint touches neither the rendezvous nor the run queue.
LEMMA CreateEndpointKInv ==
  ASSUME KInv, NEW t \in ThreadId, create_ipc_endpoint(t)
  PROVE  KInv' /\ (NoWakeForgotten => NoWakeForgotten')
  <1>1. PICK s \in EndpointSlot :
           /\ usable(s)
           /\ endpoints' = [endpoints EXCEPT ![s] =
                [server |-> t, generation |-> @.generation + 1,
                 active |-> TRUE, receive_waiting |-> FALSE]]
    BY Zenon DEF create_ipc_endpoint
  <1>2. UNCHANGED <<rvars, pending, replies, completed, contvars, runqueue, current, fault>>
    BY DEF create_ipc_endpoint
  <1>3. endpoints[s].generation + 1 \in 0..MaxGeneration
    BY <1>1, KernelIpcAssumption DEF usable, KInv, KTypeOK
  <1>4. TablesTyped'
    BY <1>1, <1>2, <1>3 DEF KInv, KTypeOK, TablesTyped, contvars, OptThread
  <1>5. RInv'
    BY <1>2, NextRInv DEF KInv, rvars
  <1>6. /\ state' = state /\ base' = base /\ runqueue' = runqueue
        /\ \A x \in ThreadId : find(x)' <=> find(x)
        /\ \A x \in ThreadId : callers_of(x)' = callers_of(x)
    BY <1>2 DEF rvars, find, callers_of
  <1>7. QED BY <1>4, <1>5, <1>6, UnqueuedKInv DEF NoWakeForgotten

\* Retiring an endpoint wakes its waiting owner and the callers it cancels, all of
\* whom were blocked.
LEMMA RetireKInv ==
  ASSUME KInv, NEW t, NEW e \in Endpoint, retire_ipc_endpoint(t, e)
  PROVE  KInv' /\ (NoWakeForgotten => NoWakeForgotten')
  <1> DEFINE released == cancelled_by({e}) \cup (IF receive_waiting(e) THEN {t} ELSE {})
  <1>1. /\ state' = [o \in ThreadId |-> IF o \in released THEN "ready" ELSE state[o]]
        /\ partner' = [o \in ThreadId |->
              IF \/ o \in released
                 \/ o = t /\ state[t] = "ready" /\ partner[t] \in cancelled_by({e})
              THEN invalid_thread ELSE partner[o]]
        /\ wake' = [o \in ThreadId |-> IF o \in released THEN "endpoint_retired" ELSE wake[o]]
        /\ base' = base /\ slots' = slots
    BY DEF retire_ipc_endpoint
  <1>2. receive_waiting(e) => receive_waiting_thread(t)
    BY DEF retire_ipc_endpoint, retired_with
  <1>3. \A o \in ThreadId : o \in released =>
           state[o] \in {"send_blocked", "reply_blocked", "receive_blocked"}
    BY <1>2 DEF cancelled_by, callers_of, receive_waiting_thread
  <1> HIDE DEF released
  <1>4. \A o \in ThreadId : find(o)' <=> find(o)
    BY <1>1, <1>3 DEF find
  <1>5. \A o \in ThreadId : state'[o] \in {"send_blocked", "reply_blocked", "receive_blocked"}
           => state'[o] = state[o] /\ partner'[o] = partner[o] /\ wake'[o] = wake[o]
    BY <1>1
  <1>6. RInv'
    <2>1. TypeOK'
      BY <1>1 DEF KInv, RInv, TypeOK, OptThread, invalid_thread, ThreadState, WakeReason
    <2>2. SlotTableExact'
      BY <1>1, <1>4 DEF KInv, RInv, SlotTableExact
    <2>3. NoOrphanWait'
      BY <1>4, <1>5 DEF KInv, RInv, NoOrphanWait, find
    <2>4. BlockedThreadIsClean'
      BY <1>5 DEF KInv, RInv, BlockedThreadIsClean
    <2>5. QED BY <2>1, <2>2, <2>3, <2>4 DEF RInv
  <1>7. TablesTyped'
    <2>1. retire_slots({e})
      BY DEF retire_ipc_endpoint
    <2>2. endpoints' \in [EndpointSlot ->
              [server : OptThread, generation : 0..MaxGeneration,
               active : BOOLEAN, receive_waiting : BOOLEAN]]
      BY <2>1, RetiredSlotsTyped DEF KInv, KTypeOK
    <2>3. pending' \in [SlotIndex -> OptCall] /\ replies' \in [SlotIndex -> OptCall]
      BY DEF retire_ipc_endpoint, drop_calls, KInv, KTypeOK, OptCall
    <2>4. recv_armed' \in [ThreadId ->
              [endpoint : Endpoint, bounded : BOOLEAN] \cup {NotArmed}]
      BY ZenonT(30) DEF retire_ipc_endpoint, disarmed, KInv, KTypeOK
    <2>5. UNCHANGED <<completed, send_armed, current, fault>>
      BY DEF retire_ipc_endpoint
    <2>6. QED BY <2>2, <2>3, <2>4, <2>5 DEF TablesTyped, KInv, KTypeOK
  <1>8. synchronise(Live)
    BY DEF retire_ipc_endpoint
  <1>9. QED BY <1>1, <1>4, <1>6, <1>7, <1>8, SynchronisedKInv DEF Live

\* Setting or clearing the receive-waiting flag of an endpoint keeps the table typed.
LEMMA FlagTyped ==
  ASSUME KTypeOK, NEW s, NEW b \in BOOLEAN,
         endpoints' = [endpoints EXCEPT ![s].receive_waiting = b]
  PROVE  endpoints' \in [EndpointSlot ->
              [server : OptThread, generation : 0..MaxGeneration,
               active : BOOLEAN, receive_waiting : BOOLEAN]]
  <1>1. endpoints \in [EndpointSlot ->
              [server : OptThread, generation : 0..MaxGeneration,
               active : BOOLEAN, receive_waiting : BOOLEAN]]
    BY DEF KTypeOK
  <1>2. QED BY <1>1, Zenon

\* A send blocks its caller or hands it to the waiting receiver.
LEMMA SendKInv ==
  ASSUME KInv, NEW e \in Endpoint, svc_send(e)
  PROVE  KInv' /\ (NoWakeForgotten => NoWakeForgotten')
  <1>1. /\ current \in ThreadId /\ send_to_endpoint(current, e) /\ synchronise(Live)
        /\ send_armed' = send_armed \cup {current} /\ current' = invalid_thread
        /\ recv_armed' = recv_armed /\ fault' = fault
    BY DEF svc_send, arm
  <1>2. \/ owner(e) \in ThreadId /\ block_send(current, owner(e))
        \/ owner(e) \in ThreadId /\ deliver_waiting_receiver(current, owner(e))
    BY <1>1 DEF send_to_endpoint, block_send, deliver_waiting_receiver,
                receive_waiting_thread, find
  <1>3. RInv'
    BY <1>1, <1>2, TwoThreadRInv DEF KInv
  <1>4. base' = base /\ \A x \in ThreadId : find(x)' <=> find(x)
    BY <1>1, <1>2 DEF block_send, deliver_waiting_receiver, receive_waiting_thread, find,
                      KInv, RInv, TypeOK
  <1>5. /\ endpoints' = [endpoints EXCEPT ![e.slot].receive_waiting = FALSE]
        /\ \E i \in SlotIndex : pending' = [pending EXCEPT ![i] =
                [caller |-> current, server |-> owner(e), endpoint |-> e]]
        /\ replies' = replies /\ completed' = completed
    BY <1>1, Zenon DEF send_to_endpoint
  <1>6. TablesTyped'
    <2>1. pending' \in [SlotIndex -> OptCall]
      BY <1>1, <1>2, <1>5 DEF KInv, KTypeOK, OptCall, Call
    <2>2. endpoints' \in [EndpointSlot ->
              [server : OptThread, generation : 0..MaxGeneration,
               active : BOOLEAN, receive_waiting : BOOLEAN]]
      BY <1>5, FlagTyped, Zenon DEF KInv
    <2>3. QED BY <1>1, <1>5, <2>1, <2>2 DEF KInv, KTypeOK, TablesTyped, OptThread
  <1>7. QED BY <1>1, <1>3, <1>4, <1>6, SynchronisedKInv DEF Live

\* Taking up a call, by the running thread or by the completion of a receive.
LEMMA ReceiveCallKInv ==
  ASSUME KInv, NEW t \in ThreadId, NEW e, receive_call(t, e),
         send_armed' \subseteq ThreadId, current' \in OptThread,
         recv_armed' \in [ThreadId -> [endpoint : Endpoint, bounded : BOOLEAN] \cup {NotArmed}],
         fault' \in {"none", "expiry", "completion"}
  PROVE  KInv' /\ (NoWakeForgotten => NoWakeForgotten')
  <1>1. PICK i \in SlotIndex :
           /\ IF partner[t] # invalid_thread
              THEN pending_of(partner[t], e, i) /\ take_delivered(t)
              ELSE next_pending(e, i) /\ accept_sender(t, pending[i].caller)
           /\ mint_seal(i)
           /\ synchronise({t, pending[i].caller})
    BY Zenon DEF receive_call
  <1>2. endpoints' = endpoints /\ pending' = pending /\ completed' = completed
    BY Zenon DEF receive_call
  <1>3. \/ take_delivered(t)
        \/ pending[i].caller \in ThreadId /\ accept_sender(t, pending[i].caller)
    BY <1>1, Zenon DEF accept_sender, find
  <1>4. RInv'
    BY <1>3, OneThreadRInv, TwoThreadRInv DEF KInv
  <1>5. /\ base' = base
        /\ \A x \in ThreadId : find(x)' <=> find(x)
        /\ \A x \in ThreadId : callers_of(x)' = callers_of(x)
        /\ \A x \in ThreadId : state'[x] = "ready" <=> state[x] = "ready"
    <2>1. CASE take_delivered(t)
      BY <2>1 DEF take_delivered, find, callers_of, KInv, RInv, TypeOK
    <2>2. CASE pending[i].caller \in ThreadId /\ accept_sender(t, pending[i].caller)
      BY <2>2 DEF accept_sender, find, callers_of, KInv, RInv, TypeOK
    <2>3. QED BY <1>3, <2>1, <2>2
  <1>6. replies' \in [SlotIndex -> OptCall]
    BY <1>1 DEF mint_seal, KInv, KTypeOK
  <1>7. TablesTyped'
    BY <1>2, <1>6 DEF KInv, KTypeOK, TablesTyped
  <1>8. QED BY <1>1, <1>4, <1>5, <1>7, SynchronisedKInv, Zenon

\* svc_receive_now is receive_call of the running thread.
LEMMA ReceiveNowKInv ==
  ASSUME KInv, NEW e, svc_receive_now(e)
  PROVE  KInv' /\ (NoWakeForgotten => NoWakeForgotten')
  BY ReceiveCallKInv DEF svc_receive_now, KInv, KTypeOK, contvars

\* svc_receive_wait blocks the running thread and recomputes its entry.
LEMMA ReceiveWaitKInv ==
  ASSUME KInv, NEW e \in Endpoint, NEW b \in BOOLEAN, svc_receive_wait(e, b)
  PROVE  KInv' /\ (NoWakeForgotten => NoWakeForgotten')
  <1>1. /\ current \in ThreadId /\ wait_receive(current) /\ synchronise({current})
        /\ endpoints' = [endpoints EXCEPT ![e.slot].receive_waiting = TRUE]
        /\ recv_armed' = [recv_armed EXCEPT ![current] = [endpoint |-> e, bounded |-> b]]
        /\ current' = invalid_thread
        /\ UNCHANGED <<pending, replies, completed, send_armed, fault>>
    BY DEF svc_receive_wait, arm_receive
  <1>2. RInv'
    BY <1>1, OneThreadRInv DEF KInv
  <1>3. /\ base' = base
        /\ \A x \in ThreadId : find(x)' <=> find(x)
        /\ \A x \in ThreadId : callers_of(x)' = callers_of(x)
        /\ \A x \in ThreadId \ {current} : state'[x] = state[x]
    BY <1>1 DEF wait_receive, find, callers_of, KInv, RInv, TypeOK
  <1>4. endpoints' \in [EndpointSlot ->
              [server : OptThread, generation : 0..MaxGeneration,
               active : BOOLEAN, receive_waiting : BOOLEAN]]
    BY <1>1, ZenonT(30) DEF KInv, KTypeOK
  <1>5. recv_armed' \in [ThreadId -> [endpoint : Endpoint, bounded : BOOLEAN] \cup {NotArmed}]
    BY <1>1 DEF KInv, KTypeOK
  <1>6. TablesTyped'
    BY <1>1, <1>4, <1>5 DEF KInv, KTypeOK, TablesTyped, OptThread
  <1>7. QED BY <1>1, <1>2, <1>3, <1>6, SynchronisedKInv

\* svc_reply releases one caller and recomputes every live thread's entry.
LEMMA ReplyKInv ==
  ASSUME KInv, NEW k \in SlotIndex, svc_reply(k)
  PROVE  KInv' /\ (NoWakeForgotten => NoWakeForgotten')
  <1>1. /\ current \in ThreadId /\ reply(current, replies[k].caller) /\ synchronise(Live)
        /\ \E i \in SlotIndex : pending' = [pending EXCEPT ![i] = NoCall]
        /\ completed' = completed \cup {replies[k].caller}
        /\ replies' = [replies EXCEPT ![k] = NoCall]
        /\ current' = invalid_thread
        /\ UNCHANGED <<endpoints, contvars, fault>>
    BY Zenon DEF svc_reply
  <1>2. replies[k].caller \in ThreadId
    BY <1>1 DEF reply, find
  <1>3. RInv'
    BY <1>1, <1>2, TwoThreadRInv DEF KInv
  <1>4. base' = base /\ \A x \in ThreadId : find(x)' <=> find(x)
    BY <1>1, <1>2 DEF reply, find, KInv, RInv, TypeOK
  <1>5. TablesTyped'
    BY <1>1, <1>2 DEF KInv, KTypeOK, TablesTyped, OptThread, OptCall, contvars
  <1>6. QED BY <1>1, <1>3, <1>4, <1>5, SynchronisedKInv, Zenon DEF Live

\* An expired receive is woken behind the scheduler's back: the entry stays not
\* runnable, which is the side on which the cache is safe.
LEMMA ExpireKInv ==
  ASSUME KInv, NEW t \in ThreadId, ipc_expire_one_receive(t)
  PROVE  KInv'
  <1>1. /\ recv_armed' = [recv_armed EXCEPT ![t] = NotArmed]
        /\ current' = invalid_thread
        /\ \/ expire_receive(t) /\ fault' = fault
           \/ fault' = "expiry" /\ UNCHANGED rvars
        /\ UNCHANGED <<ipcvars, send_armed, runqueue>>
    BY DEF ipc_expire_one_receive, take_expired_receive, disarmed
  <1>2. RInv'
    BY <1>1, OneThreadRInv, NextRInv DEF KInv
  <1>3. TablesTyped'
    BY <1>1 DEF KInv, KTypeOK, TablesTyped, OptThread, ipcvars
  <1>4. /\ base' = base
        /\ \A x \in ThreadId : find(x)' <=> find(x)
        /\ \A x \in ThreadId : callers_of(x)' = callers_of(x)
        /\ \A x \in ThreadId : state[x] = "ready" => state'[x] = "ready"
    <2>1. CASE expire_receive(t)
      BY <2>1 DEF expire_receive, wake_receiver, receive_waiting_thread, find, callers_of,
                  KInv, RInv, TypeOK
    <2>2. CASE UNCHANGED rvars
      BY <2>2 DEF rvars, find, callers_of
    <2>3. QED BY <1>1, <2>1, <2>2
  <1>5. QED BY <1>1, <1>2, <1>3, <1>4, UnqueuedKInv

\* The completion of whatever the chosen thread was blocked in.
LEMMA SwitchKInv ==
  ASSUME KInv, NEW t \in ThreadId, switch_to(t)
  PROVE  KInv' /\ (NoWakeForgotten => NoWakeForgotten')
  <1>1. current' \in OptThread
    BY DEF switch_to, OptThread
  <1>2. CASE complete_receive(t) /\ receive_call(t, recv_armed[t].endpoint)
    <2>1. recv_armed' \in [ThreadId -> [endpoint : Endpoint, bounded : BOOLEAN] \cup {NotArmed}]
      BY <1>2 DEF complete_receive, take_receive, disarmed, KInv, KTypeOK
    <2>2. send_armed' \subseteq ThreadId /\ fault' \in {"none", "expiry", "completion"}
      BY <1>2 DEF complete_receive, KInv, KTypeOK
    <2>3. QED BY <1>1, <1>2, <2>1, <2>2, ReceiveCallKInv
  <1>3. CASE ~(complete_receive(t) /\ receive_call(t, recv_armed[t].endpoint))
    <2>1. /\ state' = state /\ partner' = partner /\ base' = base /\ slots' = slots
          /\ runqueue' = runqueue
          /\ wake' \in [ThreadId -> WakeReason]
          /\ \A x \in ThreadId : wake[x] = "none" => wake'[x] = "none"
      BY <1>3 DEF switch_to, complete_expiry, complete_receive, complete_reply,
                  nothing_to_complete, take_deadline_expiry, rvars, KInv, RInv, TypeOK,
                  WakeReason
    <2>2. RInv'
      BY <2>1 DEF KInv, RInv, TypeOK, SlotTableExact, NoOrphanWait, BlockedThreadIsClean, find
    <2>3. TablesTyped'
      <3>1. CASE complete_expiry(t) \/ nothing_to_complete(t)
        BY <1>1, <3>1 DEF complete_expiry, nothing_to_complete, KInv, KTypeOK, TablesTyped,
                          ipcvars, contvars
      <3>2. CASE complete_reply(t)
        BY <1>1, <3>2 DEF complete_reply, take, KInv, KTypeOK, TablesTyped
      <3>3. CASE complete_receive(t)
        <4>1. UNCHANGED <<ipcvars, send_armed>> /\ fault' = "completion"
          BY <1>3, <3>3, Zenon DEF complete_receive
        <4>2. recv_armed' \in [ThreadId -> [endpoint : Endpoint, bounded : BOOLEAN] \cup {NotArmed}]
          BY <3>3 DEF complete_receive, take_receive, disarmed, KInv, KTypeOK
        <4>3. QED BY <1>1, <4>1, <4>2 DEF KInv, KTypeOK, TablesTyped, ipcvars
      <3>4. QED BY <3>1, <3>2, <3>3 DEF switch_to
    <2>4. /\ \A x \in ThreadId : find(x)' <=> find(x)
          /\ \A x \in ThreadId : callers_of(x)' = callers_of(x)
      BY <2>1 DEF find, callers_of
    <2>5. QED BY <2>1, <2>2, <2>3, <2>4, UnqueuedKInv DEF NoWakeForgotten
  <1>4. QED BY <1>2, <1>3

\* A step that changes nothing keeps the invariant.
LEMMA StutterKInv ==
  ASSUME KInv, UNCHANGED kvars
  PROVE  KInv' /\ (NoWakeForgotten => NoWakeForgotten')
  <1>1. /\ state' = state /\ partner' = partner /\ wake' = wake /\ base' = base /\ slots' = slots
        /\ endpoints' = endpoints /\ pending' = pending /\ replies' = replies
        /\ completed' = completed /\ send_armed' = send_armed /\ recv_armed' = recv_armed
        /\ runqueue' = runqueue /\ current' = current /\ fault' = fault
    BY DEF kvars, rvars, ipcvars, contvars
  <1>2. RInv'
    BY <1>1 DEF KInv, RInv, TypeOK, SlotTableExact, NoOrphanWait, BlockedThreadIsClean, find
  <1>3. TablesTyped'
    BY <1>1 DEF KInv, KTypeOK, TablesTyped
  <1>4. /\ \A x \in ThreadId : find(x)' <=> find(x)
        /\ \A x \in ThreadId : callers_of(x)' = callers_of(x)
    BY <1>1 DEF find, callers_of
  <1>5. QED BY <1>1, <1>2, <1>3, <1>4, UnqueuedKInv DEF NoWakeForgotten

\* Every step of the kernel, and that only an expiry forgets a wake.
LEMMA NextKInv ==
  ASSUME KInv, [KNext]_kvars
  PROVE  /\ KInv'
         /\ NoWakeForgotten /\ ~(\E t \in ThreadId : ipc_expire_one_receive(t))
               => NoWakeForgotten'
  <1>1. ASSUME NEW t \in ThreadId, NEW p \in Priority,
               kernel_create_thread(t, p) \/ kernel_create_admitted_thread(t, p)
        PROVE  KInv' /\ (NoWakeForgotten => NoWakeForgotten')
    BY <1>1, CreateKInv
  <1>2. ASSUME NEW t \in ThreadId, thread_start(t) \/ switch_to(t)
        PROVE  KInv' /\ (NoWakeForgotten => NoWakeForgotten')
    BY <1>2, StartKInv, SwitchKInv
  <1>3. ASSUME NEW t \in ThreadId, ipc_expire_one_receive(t)
        PROVE  KInv'
    BY <1>3, ExpireKInv
  <1>4. ASSUME NEW t \in Mortal, destroy_thread(t)
        PROVE  KInv' /\ (NoWakeForgotten => NoWakeForgotten')
    BY <1>4, DestroyKInv, KernelIpcAssumption
  <1>5. ASSUME NEW t \in Server, create_ipc_endpoint(t)
        PROVE  KInv' /\ (NoWakeForgotten => NoWakeForgotten')
    BY <1>5, CreateEndpointKInv, KernelIpcAssumption
  <1>6. ASSUME NEW e \in Endpoint, retire_ipc_endpoint(owner(e), e)
        PROVE  KInv' /\ (NoWakeForgotten => NoWakeForgotten')
    BY <1>6, RetireKInv
  <1>7. ASSUME NEW e \in Endpoint, svc_send(e) \/ svc_receive_now(e)
        PROVE  KInv' /\ (NoWakeForgotten => NoWakeForgotten')
    BY <1>7, SendKInv, ReceiveNowKInv
  <1>8. ASSUME NEW e \in Endpoint, NEW b \in Bounded, svc_receive_wait(e, b)
        PROVE  KInv' /\ (NoWakeForgotten => NoWakeForgotten')
    BY <1>8, ReceiveWaitKInv, KernelIpcAssumption
  <1>9. ASSUME NEW k \in SlotIndex, svc_reply(k)
        PROVE  KInv' /\ (NoWakeForgotten => NoWakeForgotten')
    BY <1>9, ReplyKInv
  <1>10. QED BY <1>1, <1>2, <1>3, <1>4, <1>5, <1>6, <1>7, <1>8, <1>9, StutterKInv DEF KNext

\* What the cache says of a server, in terms of the callers it has.
LEMMA LentFromKInv == KInv => CallerPriorityIsLent
  <1> SUFFICES ASSUME KInv, NEW c \in ThreadId, state[c] \in {"send_blocked", "reply_blocked"}
               PROVE  runqueue[partner[c]].priority >= base[c]
    BY DEF CallerPriorityIsLent
  <1>1. partner[c] \in ThreadId /\ partner[c] # c /\ find(partner[c])
    BY DEF KInv, RInv, NoOrphanWait, find
  <1>2. c \in callers_of(partner[c])
    BY <1>1 DEF callers_of
  <1>3. base[c] <= inherited_priority(partner[c]) /\ inherited_priority(partner[c]) \in Priority
    BY <1>1, <1>2, InheritedIsHighest DEF HighestInherited, KInv, RInv
  <1>4. runqueue[partner[c]].priority = inherited_priority(partner[c])
    BY <1>1 DEF KInv, CacheIsSafe, Cached
  <1>5. base[c] \in Nat /\ inherited_priority(partner[c]) \in Nat
    <2>1. Priority \subseteq Nat
      BY PriorityAssumption
    <2>2. base[c] \in Priority
      BY DEF KInv, RInv, TypeOK
    <2>3. QED BY <1>3, <2>1, <2>2, Zenon
  <1>6. QED BY <1>3, <1>4, <1>5

\* Priority inheritance reaches the run queue in every reachable state, whatever is
\* called, retired, killed or timed out: a server is never queued below a caller
\* blocked on it (synchronise_thread, inherited_priority).
THEOREM PriorityIsLent == KSpec => []CallerPriorityIsLent
  <1>1. KInv /\ [KNext]_kvars => KInv'
    BY NextKInv
  <1>2. QED BY InitKInv, LentFromKInv, <1>1, PTL DEF KSpec

=============================================================================
