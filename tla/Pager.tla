------------------------------- MODULE Pager --------------------------------
(***************************************************************************)
(* A page fault as a question to a user-space pager: the declared regions  *)
(* and their one-shot announcements (fault_region.cpp), the question a     *)
(* pager owes an answer to (fault_delivery.cpp), and the machine layer     *)
(* that blocks the faulting thread, asks, backs the region and resumes it, *)
(* or terminates it when nobody may be asked (aarch64_boot.cpp).           *)
(*                                                                         *)
(* A region is one address range; what happens inside it does not depend   *)
(* on the address.  Every thread has the same priority.  No thread here is *)
(* blocked in IPC, so a system call that makes the kernel recompute the    *)
(* run queue (kernel.cpp, synchronise) finds every live thread ready.      *)
(***************************************************************************)
EXTENDS Naturals, FiniteSets

CONSTANTS
    Thread,
    pager,        \* boot_pager_thread
    Paged,        \* regions declared paged
    Sealed,       \* regions declared sealed
    Backing,      \* how the kernel may mark a region the pager supplied
    Calls         \* whether threads make calls that recompute the run queue

invalid_thread == 0
undeclared == 0

Region == Paged \cup Sealed

ASSUME PagerAssumption ==
    /\ pager \in Thread /\ invalid_thread \notin Thread
    /\ Paged \cap Sealed = {} /\ undeclared \notin Region
    /\ Backing \subseteq {"backed_shared", "backed_private"}
    /\ Calls \in BOOLEAN

VARIABLES
    live,       \* threads that exist
    runnable,   \* the run queue's view of them
    running,    \* the coordinator's running thread
    region,     \* FaultRegionTable: backing state and announcements
    delivery,   \* FaultDeliveryTable: the pager's slot
    halted,     \* the machine layer stopped, and why
    pager_question_delivered,   \* the pager was handed a question in this boot
    waits,      \* the region each thread faulted on and has not been given
    questions   \* questions asked about each region so far

pvars == <<live, runnable, running, region, delivery, halted, pager_question_delivered, waits,
           questions>>

NoDelivery == [state |-> "free", region |-> undeclared, faulting |-> invalid_thread]

PInit ==
    /\ live = Thread
    /\ runnable = Thread
    /\ running \in Thread
    /\ region = [r \in Region |->
          [backing |-> "unbacked", announced_backing |-> FALSE,
           announced_private |-> FALSE]]
    /\ delivery = NoDelivery
    /\ halted = "no"
    /\ pager_question_delivered = FALSE
    /\ waits = [t \in Thread |-> undeclared]
    /\ questions = [r \in Region |-> 0]

(***************************************************************************)
(* Whom to ask, and about what.                                            *)
(***************************************************************************)
\* Announces every write to shared backing.
Bug_announces(r, write) ==
    /\ r \in Paged
    /\ \/ region[r].backing = "unbacked" /\ ~region[r].announced_backing
       \/ region[r].backing = "backed_shared" /\ write

\* resolve() finds a question that has never been asked.
announces(r, write) ==
    /\ r \in Paged
    /\ \/ region[r].backing = "unbacked" /\ ~region[r].announced_backing
       \/ /\ region[r].backing = "backed_shared" /\ write
          /\ ~region[r].announced_private

\* The announcement that belongs to what the region lacks is spent.
spent(v) ==
    [backing |-> v.backing,
     announced_backing |-> v.announced_backing \/ v.backing = "unbacked",
     announced_private |-> v.announced_private \/ v.backing = "backed_shared"]

announced(r) == [region EXCEPT ![r] = spent(region[r])]

\* Overwrites the question the pager has not answered.
Bug_may_arm(t) == t # pager

may_arm(t) == t # pager /\ delivery.state = "free"

(***************************************************************************)
(* Choosing who runs, and completing the pager's resume.                   *)
(***************************************************************************)
\* A pager about to run is handed the question it owes an answer to, once a boot.
hands_over(d, t) == t = pager /\ d.state = "pending" /\ ~pager_question_delivered

\* The pager is resumed without being handed its question.
Bug_collected(d, t) == d

collected(d, t) == IF hands_over(d, t) THEN [d EXCEPT !.state = "delivered"] ELSE d

\* reschedule: some runnable thread, or the machine has nothing to run.
reschedule(queue, d) ==
    \/ \E t \in queue :
          /\ running' = t /\ delivery' = collected(d, t) /\ UNCHANGED halted
          /\ pager_question_delivered' = (pager_question_delivered \/ hands_over(d, t))
    \/ /\ queue = {}
       /\ halted' = "nothing_runnable" /\ delivery' = d
       /\ UNCHANGED <<running, pager_question_delivered>>

(***************************************************************************)
(* cookie_aarch64_el0_fault for the running thread.                        *)
(***************************************************************************)
\* The access faults in hardware.
faults(r, write) ==
    \/ r = undeclared
    \/ r \in Region /\ region[r].backing = "unbacked"
    \/ r \in Region /\ region[r].backing = "backed_shared" /\ write

fault_asked(r, write) ==
    /\ announces(r, write) /\ may_arm(running)
    /\ region' = announced(r)
    /\ questions' = [questions EXCEPT ![r] = @ + 1]
    /\ waits' = [waits EXCEPT ![running] = r]
    /\ runnable' = runnable \ {running}
    /\ reschedule(runnable', [state |-> "pending", region |-> r, faulting |-> running])
    /\ UNCHANGED live

\* Nobody may be asked, or nobody can be: the announcement is spent either way,
\* something else is chosen, and then the thread is destroyed and the run queue
\* recomputed for the threads that remain.
fault_fatal(r, write) ==
    /\ ~(announces(r, write) /\ may_arm(running))
    /\ region' = IF announces(r, write) THEN announced(r) ELSE region
    /\ reschedule(runnable \ {running}, delivery)
    /\ IF halted' = "no"
       THEN /\ live' = live \ {running}
            /\ runnable' = live'
            /\ waits' = [waits EXCEPT ![running] = undeclared]
       ELSE /\ runnable' = runnable \ {running}
            /\ UNCHANGED <<live, waits>>
    /\ UNCHANGED questions

\* A thread resumed on the instruction that faulted repeats that access.
el0_fault(r, write) ==
    /\ faults(r, write)
    /\ waits[running] # undeclared => r = waits[running]
    /\ fault_asked(r, write) \/ fault_fatal(r, write)

(***************************************************************************)
(* The pager's answer.                                                     *)
(***************************************************************************)
fault_supply(backing) ==
    /\ running = pager /\ delivery.state = "delivered"
    /\ region' = [region EXCEPT ![delivery.region] = [@ EXCEPT !.backing = backing]]
    /\ IF delivery.faulting \in live
       THEN /\ waits' = [waits EXCEPT ![delivery.faulting] = undeclared]
            /\ runnable' = runnable \cup {delivery.faulting}
            /\ reschedule(runnable', NoDelivery)
       ELSE /\ halted' = "resume_failed" /\ delivery' = NoDelivery
            /\ UNCHANGED <<waits, runnable, running, pager_question_delivered>>
    /\ UNCHANGED <<live, questions>>

(***************************************************************************)
(* Everything else that runs in between.                                   *)
(***************************************************************************)
\* The slice timer: the run queue is as it was.
on_timer ==
    /\ runnable # {}
    /\ reschedule(runnable, delivery)
    /\ UNCHANGED <<live, runnable, region, waits, questions>>

\* A call whose handler ends in synchronise().
kernel_call ==
    /\ Calls /\ waits[running] = undeclared
    /\ runnable' = live
    /\ reschedule(runnable', delivery)
    /\ UNCHANGED <<live, region, waits, questions>>

-----------------------------------------------------------------------------
PNext ==
    /\ halted = "no"
    /\ \/ \E r \in Region \cup {undeclared}, write \in BOOLEAN : el0_fault(r, write)
       \/ \E b \in Backing : fault_supply(b)
       \/ on_timer
       \/ kernel_call

PSpec == PInit /\ [][PNext]_pvars

-----------------------------------------------------------------------------
RegionState == [backing : {"unbacked", "backed_shared", "backed_private"},
                announced_backing : BOOLEAN, announced_private : BOOLEAN]

\* Every table holds values of its type, and a question is about a region.
PTypeOK ==
    /\ live \subseteq Thread /\ runnable \subseteq live /\ running \in Thread
    /\ region \in [Region -> RegionState]
    /\ delivery.state # "free" => delivery.region \in Paged
    /\ delivery \in [state : {"free", "pending", "delivered"},
                     region : Region \cup {undeclared},
                     faulting : Thread \cup {invalid_thread}]
    /\ halted \in {"no", "nothing_runnable", "resume_failed"}
    /\ pager_question_delivered \in BOOLEAN
    /\ waits \in [Thread -> Region \cup {undeclared}]
    /\ questions \in [Region -> Nat]

\* No re-arm: a pager hears of a region at most twice in its life, and never of a
\* sealed one, whatever faults, however often, and whether or not it answered.
AskedAtMostTwice ==
    /\ \A r \in Paged : questions[r] <= 2
    /\ \A r \in Sealed : questions[r] = 0

\* No faulting thread is stranded: one that waits for backing is the one the
\* pager's outstanding question is about.
WaiterIsRemembered ==
    \A t \in live :
        waits[t] # undeclared =>
            /\ delivery.state # "free"
            /\ delivery.faulting = t /\ delivery.region = waits[t]

\* A question spends an announcement that was never made before (resolve).
QuestionsAreSpent ==
    \A r \in Paged :
        /\ questions[r] >= 1 => region[r].announced_backing \/ region[r].announced_private
        /\ questions[r] >= 2 => region[r].announced_backing /\ region[r].announced_private

\* A question to the pager is asked at most twice, and the thread it is about is
\* the one that waits (fault_region.cpp, fault_delivery.cpp).
QuestionsAreKept == PTypeOK /\ AskedAtMostTwice /\ QuestionsAreSpent /\ WaiterIsRemembered

\* A thread resumes only onto memory that is there: while a thread waits for
\* backing it is not runnable.
WaiterIsBlocked ==
    \A t \in live : waits[t] # undeclared => t \notin runnable

\* Under a pager that survives, a fault is answered whose question the pager was
\* handed, or is still to be handed: the first of a boot.  The one after it is never
\* handed over (pager_question_delivered is never cleared), and its thread waits on.
FaultIsAnswered ==
    \A t \in Thread :
        waits[t] # undeclared /\ (pager_question_delivered => delivery.state = "delivered")
            ~> waits[t] = undeclared \/ pager \notin live \/ halted # "no"

=============================================================================
