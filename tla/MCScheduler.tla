---------------------------- MODULE MCScheduler -----------------------------
(***************************************************************************)
(* Scheduler with the slice time each thread is charged while a peer of    *)
(* the same priority waits for its turn.  Nothing distinguishes threads,   *)
(* so one waiter stands for all.                                           *)
(***************************************************************************)
EXTENDS Scheduler

CONSTANT waiter    \* the thread whose waiting is observed

VARIABLE overtaken \* the time charged to each peer since waiter began to wait

ovars == <<svars, overtaken>>

\* u still overtakes in the state a step leads to.
Overtakes(u) ==
    /\ {u, waiter} \subseteq admitted' /\ runnable'[waiter] /\ running' # waiter
    /\ effective'[u] = effective'[waiter] /\ effective'[u] = effective[u]

\* u was charged this much by the step.
Tally(u, time) ==
    overtaken' = [v \in Thread |->
        IF ~Overtakes(v) THEN 0 ELSE overtaken[v] + IF v = u THEN time ELSE 0]

ChargedDecision(elapsed) ==
    /\ choose(elapsed)
    /\ Tally(running, IF running = invalid_thread THEN 0
                      ELSE remaining[running] - charge(elapsed)[running])

OInit == SInit /\ overtaken = [u \in Thread |-> 0]

ONext ==
    \/ queue_changes /\ Tally(invalid_thread, 0)
    \/ timer > 0 /\ \E elapsed \in timer .. Slice : ChargedDecision(elapsed)
    \/ asked /\ \E elapsed \in 0 .. Slice : ChargedDecision(elapsed)

\* The timer that was asked for fires, and a change of the run queue is followed
\* by a decision.
FairOSpec == OInit /\ [][ONext]_ovars /\ WF_svars(on_timer) /\ WF_svars(reschedule)

\* Relinquishing early gains nothing: however a thread blocks, wakes, yields or
\* runs on, it is charged at most one slice while a peer of its priority waits;
\* and the queue's tables keep their types (an identity is queued once).
OneSliceAhead == STypeOK /\ \A u \in Thread : overtaken[u] <= Slice

=============================================================================
