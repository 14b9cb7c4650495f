----------------------------- MODULE Scheduler ------------------------------
(***************************************************************************)
(* The tickless scheduler (scheduler.cpp): strict priority, round robin    *)
(* within a priority, slices that are charged from elapsed time and        *)
(* refilled only at a decision.                                            *)
(*                                                                         *)
(* The 64-bit sequence numbers are abstracted to the order they induce:    *)
(* order lists the admitted threads, the smallest number first, so taking  *)
(* a fresh number is moving to the end. Time is the time since the last    *)
(* decision, the only one choose uses; a clock that went backwards is      *)
(* elapsed time 0, and more than a slice charges as much as a slice. What  *)
(* a decision reports of preemption is left out: it changes nothing.       *)
(***************************************************************************)
EXTENDS Naturals, FiniteSets, Sequences, SequencesExt

CONSTANTS
    Thread,      \* thread identifiers
    Priority,    \* effective priorities, a set of naturals
    default_priority,  \* the priority of an empty slot
    Slice,       \* default_slice_nanoseconds, in units of modelled time
    MaxThreads   \* max_threads

invalid_thread == 0

ASSUME SchedulerAssumption ==
    /\ invalid_thread \notin Thread
    /\ Priority \subseteq Nat /\ default_priority \in Priority
    /\ Slice \in Nat \ {0} /\ MaxThreads \in Nat

VARIABLES
    order,      \* the admitted threads in round-robin order
    runnable, effective, remaining,
    running,    \* running_
    timer,      \* the deadline the last decision asked for, 0 for none
    asked       \* the run queue changed since the last decision

svars == <<order, runnable, effective, remaining, running, timer, asked>>

admitted == ToSet(order)

SInit ==
    /\ order = <<>>
    /\ runnable = [t \in Thread |-> FALSE]
    /\ effective = [t \in Thread |-> default_priority]
    /\ remaining = [t \in Thread |-> 0]
    /\ running = invalid_thread
    /\ timer = 0
    /\ asked = FALSE

admit(t, p) ==
    /\ t \notin admitted
    /\ Len(order) < MaxThreads
    /\ order' = Append(order, t)
    /\ runnable' = [runnable EXCEPT ![t] = TRUE]
    /\ effective' = [effective EXCEPT ![t] = p]
    /\ remaining' = [remaining EXCEPT ![t] = Slice]
    /\ asked' = TRUE
    /\ UNCHANGED <<running, timer>>

\* The slot is cleared, and a dead thread is not charged.
retire(t) ==
    /\ t \in admitted
    /\ order' = SelectSeq(order, LAMBDA u : u # t)
    /\ runnable' = [runnable EXCEPT ![t] = FALSE]
    /\ effective' = [effective EXCEPT ![t] = default_priority]
    /\ remaining' = [remaining EXCEPT ![t] = 0]
    /\ running' = IF running = t THEN invalid_thread ELSE running
    /\ asked' = TRUE
    /\ UNCHANGED timer

\* A thread that wakes gets a fresh slice and keeps its place.
Bug_update(t, r, p) ==
    /\ t \in admitted
    /\ runnable' = [runnable EXCEPT ![t] = r]
    /\ effective' = [effective EXCEPT ![t] = p]
    /\ remaining' = [remaining EXCEPT ![t] = IF r /\ ~runnable[t] THEN Slice ELSE @]
    /\ asked' = TRUE
    /\ UNCHANGED <<order, running, timer>>

\* Neither the slice nor the place in the order moves.
update(t, r, p) ==
    /\ t \in admitted
    /\ runnable' = [runnable EXCEPT ![t] = r]
    /\ effective' = [effective EXCEPT ![t] = p]
    /\ asked' = TRUE
    /\ UNCHANGED <<order, remaining, running, timer>>

\* Called by the running thread for itself.
yield_slice(t) ==
    /\ t \in admitted
    /\ remaining' = [remaining EXCEPT ![t] = 0]
    /\ asked' = TRUE
    /\ UNCHANGED <<order, runnable, effective, running, timer>>

-----------------------------------------------------------------------------
charge(elapsed) ==
    IF running = invalid_thread THEN remaining
    ELSE [remaining EXCEPT ![running] = IF elapsed >= @ THEN 0 ELSE @ - elapsed]

\* Refilled threads keep their place.
Bug_requeue(spent) == order

\* Whoever has used up a slice goes to the back: at most the thread that ran.
requeue(spent) ==
    SelectSeq(order, LAMBDA t : t \notin spent)
        \o SelectSeq(order, LAMBDA t : t \in spent)

\* The first, in the order, of the runnable threads of the highest priority.
best(queue) ==
    LET eligible == SelectSeq(queue, LAMBDA t : runnable[t])
        top      == SelectSeq(eligible, LAMBDA t :
                       \A u \in ToSet(eligible) : effective[u] <= effective[t])
    IN  IF top = <<>> THEN invalid_thread ELSE top[1]

\* Asks for a timer when a less urgent thread is waiting, not a peer.
Bug_contended(t) ==
    \E u \in admitted \ {t} : runnable[u] /\ effective[u] < effective[t]

contended(t) ==
    \E u \in admitted \ {t} : runnable[u] /\ effective[u] = effective[t]

choose(elapsed) ==
    LET charged == charge(elapsed)
        spent   == {t \in admitted : charged[t] = 0}
        queue   == requeue(spent)
        filled  == [t \in Thread |-> IF t \in spent THEN Slice ELSE charged[t]]
        next    == best(queue)
    IN  /\ order' = queue
        /\ remaining' = filled
        /\ running' = next
        /\ timer' = IF next # invalid_thread /\ contended(next) THEN filled[next] ELSE 0
        /\ asked' = FALSE
        /\ UNCHANGED <<runnable, effective>>

\* The deadline passed.
on_timer == timer > 0 /\ \E elapsed \in timer .. Slice : choose(elapsed)

\* Any other event that ends in a decision.
reschedule == asked /\ \E elapsed \in 0 .. Slice : choose(elapsed)

-----------------------------------------------------------------------------
queue_changes ==
    \/ \E t \in Thread, p \in Priority : admit(t, p)
    \/ \E t \in Thread : retire(t)
    \/ \E t \in Thread, r \in BOOLEAN, p \in Priority :
          <<r, p>> # <<runnable[t], effective[t]>> /\ update(t, r, p)
    \/ \E t \in {running} \cap Thread : yield_slice(t)

SNext == queue_changes \/ on_timer \/ reschedule

SSpec == SInit /\ [][SNext]_svars

-----------------------------------------------------------------------------
\* Every table holds values of its type, each admitted thread is queued once,
\* only an admitted thread is the running one and a timer is within a slice.
STypeOK ==
    /\ order \in Seq(Thread) /\ Len(order) = Cardinality(admitted)
    /\ runnable \in [Thread -> BOOLEAN]
    /\ effective \in [Thread -> Priority]
    /\ remaining \in [Thread -> 0 .. Slice]
    /\ running \in admitted \cup {invalid_thread}
    /\ timer \in 0 .. Slice
    /\ asked \in BOOLEAN

place(queue, t) == CHOOSE i \in 1 .. Len(queue) : queue[i] = t

Refilled(t) == remaining'[t] > remaining[t]

\* Time is charged, never refunded: of two threads that stay admitted, the one
\* behind gets ahead only because the one ahead was given a fresh slice, and a
\* fresh slice always costs the place ahead of everyone who was not given one.
ChargedNotRefunded ==
    \A t, u \in admitted \cap admitted' :
        t # u =>
          /\ place(order, t) < place(order, u) /\ place(order', t) > place(order', u)
               => (remaining'[t] = Slice)
          /\ Refilled(t) /\ ~Refilled(u) /\ remaining[u] > 0
               => place(order', u) < place(order', t)
NeverRefunded == [][ChargedNotRefunded]_svars

top(t) ==
    /\ t \in admitted /\ runnable[t]
    /\ \A u \in admitted : runnable[u] => effective[u] <= effective[t]

\* A thread that stays runnable, with nothing more urgent runnable, gets its
\* turns: peers of its priority cannot hold the processor by blocking, waking,
\* yielding or running to the end of a slice, and no tick is needed for it.
PeersTakeTurns == \A t \in Thread : <>[]top(t) => []<>(running = t)

=============================================================================
