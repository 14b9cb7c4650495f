---------------------------- MODULE MCKernelIpc -----------------------------
(***************************************************************************)
(* KernelIpc as the implementation of CallProtocol, and with the fairness  *)
(* the round-robin scheduler gives threads of one priority.                *)
(***************************************************************************)
EXTENDS KernelIpc

\* Where the call of thread t stands in the kernel's tables.
call_phase(t) ==
    IF t \in completed THEN "answered"
    ELSE IF \E k \in SlotIndex : replies[k].caller = t THEN "held"
    ELSE IF \E i \in SlotIndex : pending[i].caller = t THEN "asked"
    ELSE "idle"

call_peer(t) ==
    IF \E i \in SlotIndex : pending[i].caller = t
    THEN pending[CHOOSE i \in SlotIndex : pending[i].caller = t].server
    ELSE invalid_thread

Protocol == INSTANCE CallProtocol WITH
    Thread <- ThreadId,
    NoThread <- invalid_thread,
    phase <- [t \in ThreadId |-> call_phase(t)],
    peer <- [t \in ThreadId |-> call_peer(t)]

\* The endpoint, seal and completed-reply tables implement the call protocol:
\* send asks, receive (or the completion of a blocked receive) accepts, reply
\* answers and the completion of the caller collects (death would withdraw).
ImplementsCallProtocol == Protocol!ProtocolSpec

\* Every runnable thread is eventually chosen: all priorities are equal in the
\* runs that use this, and the scheduler arms its slice timer whenever another
\* thread of the same priority is runnable.
FairSpec == KSpec /\ \A t \in ThreadId : WF_kvars(fault = "none" /\ switch_to(t))

\* A caller whose reply has been stored is switched to and given it, and a
\* receiver handed a caller is switched to and given the call: the wakeup in
\* the rendezvous, the run queue entry and the completion all line up, unless
\* the machine had to stop.
CallsAreCompleted ==
    \A t \in ThreadId :
        /\ t \in completed ~> t \notin completed \/ fault # "none"
        /\ state[t] = "ready" /\ recv_armed[t] # NotArmed ~>
               state[t] = "exited" \/ recv_armed[t] = NotArmed \/ fault # "none"

=============================================================================
