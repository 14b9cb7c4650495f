---------------------------- MODULE Supervision ----------------------------
(***************************************************************************)
(* The identity plane of the trusted user space (system/supervisor and     *)
(* core/osservice): the boot-wide ProcessAuthority that names executions,  *)
(* one Supervisor per service that starts it, restarts it and publishes    *)
(* client identities to it, the IdentityRegistry inside each service, and  *)
(* the ServiceBroker that attaches a process to several services at once.  *)
(*                                                                         *)
(* Broker, supervisors and authority run in one thread, so one operation   *)
(* is in progress at a time: `job' is where it stands.  Every request to a *)
(* service is a step of its own, because the service, and the process the  *)
(* request is about, may die between two of them.                          *)
(***************************************************************************)
EXTENDS Naturals, Sequences, FiniteSets, FiniteSetsExt, SequencesExt

CONSTANTS ServiceOrder,  \* the services in the broker's slot order
          Pids,          \* native process ids, reused after a death
          MaxForks,      \* bound: executions, of all pids together
          MaxProcess,    \* bound: ProcessIds ever allocated
          RegistrySize,  \* entries of a service's IdentityRegistry
          MaxRestarts,   \* max_restarts_in_window
          MaxFaults      \* bound: service deaths and late answers

Services == ToSet(ServiceOrder)

SupervisionConstants ==
    /\ IsInjective(ServiceOrder)
    /\ {MaxForks, MaxProcess, RegistrySize, MaxRestarts, MaxFaults} \subseteq Nat

VARIABLES proc,     \* native pid -> the number of its execution, and whether it runs
          owner,    \* ProcessId -> the execution (pid and number) it was minted for
          records,  \* authority: ProcessId -> references
          sup,      \* service -> its Supervisor
          svc,      \* service -> the child, its registry, its control channel
          broker,   \* attached ProcessId -> services published to
          job,      \* the operation in progress
          faults    \* faults so far

svars == <<proc, owner, records, sup, svc, broker, job, faults>>

ServiceState == {"stopped", "starting", "running", "restart_wait", "crash_loop"}
idle == [op |-> "idle"]
------------------------------------------------------------------------------
(* Executions.  A pidfd names one execution: it is alive exactly while that *)
(* execution is the current one of its pid and has not exited.              *)

pidfd_alive(p) == LET o == owner[p] IN proc[o.pid].run = o.run /\ proc[o.pid].alive
lookup(p) == p \in DOMAIN records /\ pidfd_alive(p)

(* ProcessAuthority: a record per execution, counted by its holders.        *)

find_pid(recs, pid) == {p \in DOMAIN recs : owner[p].pid = pid}
release(recs, gone) ==
    [p \in {q \in DOMAIN recs : ~(q \in gone /\ recs[q] = 1)} |->
        IF p \in gone THEN recs[p] - 1 ELSE recs[p]]
forget(recs, pid) == [p \in DOMAIN recs \ find_pid(recs, pid) |-> recs[p]]
share(recs, p) == [recs EXCEPT ![p] = @ + 1]
mint(recs, pid) == forget(recs, pid) @@ ((Len(owner) + 1) :> 1)

(* IdentityRegistry::register_process inside the service: a second record   *)
(* for the same pid is refused even when the first one's process is dead.   *)

same_slot(reg, p) == {q \in reg : owner[q].pid = owner[p].pid}
registers(reg, p) ==
    IF same_slot(reg, p) # {} THEN same_slot(reg, p) = {p} ELSE Cardinality(reg) < RegistrySize
------------------------------------------------------------------------------
(* A request on a control channel.  A request that times out is served      *)
(* later and its answer stays in the channel, so every following request    *)
(* reads the answer before its own and reports a protocol violation.        *)

Answers(s) ==
    IF svc[s].child # "up" THEN {"peer_died"}
    ELSE IF svc[s].owed THEN {"violation"}
    ELSE {"answered"} \cup IF faults < MaxFaults THEN {"timeout"} ELSE {}

served(s, how, reg) ==
    /\ svc' = IF how = "peer_died" THEN svc
              ELSE [svc EXCEPT ![s].reg = reg, ![s].owed = @ \/ how = "timeout"]
    /\ faults' = IF how = "timeout" THEN faults + 1 ELSE faults
------------------------------------------------------------------------------
(* Processes and service children, as the rest of the system runs them.     *)

(* Applications are forked by the thread that runs the operations, and a   *)
(* child's pid stays taken until that thread reaps it.                      *)
fork(pid) ==
    /\ job = idle
    /\ ~proc[pid].alive
    /\ MapThenSumSet(LAMBDA q : proc[q].run, Pids) < MaxForks
    /\ proc' = [proc EXCEPT ![pid] = [run |-> @.run + 1, alive |-> TRUE]]
    /\ UNCHANGED <<owner, records, sup, svc, broker, job, faults>>

exit(pid) ==
    /\ proc[pid].alive
    /\ proc' = [proc EXCEPT ![pid].alive = FALSE]
    /\ UNCHANGED <<owner, records, sup, svc, broker, job, faults>>

service_exit(s, how) ==
    /\ svc[s].child = "up" /\ faults < MaxFaults
    /\ svc' = [svc EXCEPT ![s] = [child |-> how, reg |-> {}, owed |-> FALSE]]
    /\ faults' = faults + 1
    /\ UNCHANGED <<proc, owner, records, sup, broker, job>>

(* IdentityRegistry::resolve on a message from pid drops a dead record.     *)
resolve(s, pid) ==
    /\ svc[s].child = "up" /\ proc[pid].alive
    /\ \E p \in svc[s].reg :
          /\ owner[p].pid = pid /\ ~pidfd_alive(p)
          /\ svc' = [svc EXCEPT ![s].reg = @ \ {p}]
    /\ UNCHANGED <<proc, owner, records, sup, broker, job, faults>>

(* Time: the oldest restart leaves the window.                              *)
restart_ages(s) ==
    /\ sup[s].history > 0
    /\ sup' = [sup EXCEPT ![s].history = @ - 1]
    /\ UNCHANGED <<proc, owner, records, svc, broker, job, faults>>
------------------------------------------------------------------------------
(* Supervisor: starting, watching and restarting one service.               *)

restart_budget_available(s) == sup[s].history < MaxRestarts

after_failure(s, entry) ==
    IF restart_budget_available(s)
    THEN [entry EXCEPT !.state = "restart_wait", !.history = @ + 1]
    ELSE [entry EXCEPT !.state = "crash_loop"]

spawning(s, from, entry) ==
    /\ sup' = [sup EXCEPT ![s] = [entry EXCEPT !.state = "starting", !.generation = @ + 1]]
    /\ svc' = [svc EXCEPT ![s] = [child |-> "up", reg |-> {}, owed |-> FALSE]]
    /\ job' = [op |-> "spawn", service |-> s, from |-> from]

start(s) ==
    /\ job = idle /\ sup[s].state = "stopped"
    /\ spawning(s, "start", sup[s])
    /\ UNCHANGED <<proc, owner, records, broker, faults>>

dead_entries(s) == {p \in sup[s].entries : ~lookup(p)}
pruned(s) == [sup[s] EXCEPT !.entries = @ \ dead_entries(s)]

(* maintain: prune, then reap the child or, when the delay has passed,       *)
(* restart it.                                                               *)
maintain(s) ==
    /\ job = idle
    /\ records' = release(records, dead_entries(s))
    /\ \/ /\ svc[s].child \in {"clean", "failed"}
          /\ svc' = [svc EXCEPT ![s].child = "none"]
          /\ sup' = [sup EXCEPT ![s] =
                        IF svc[s].child = "clean" THEN [pruned(s) EXCEPT !.state = "stopped"]
                        ELSE after_failure(s, pruned(s))]
          /\ UNCHANGED job
       \/ /\ sup[s].state = "restart_wait"
          /\ spawning(s, "maintain", pruned(s))
       \/ /\ svc[s].child \notin {"clean", "failed"} /\ dead_entries(s) # {}
          /\ sup' = [sup EXCEPT ![s] = pruned(s)]
          /\ UNCHANGED <<svc, job>>
    /\ UNCHANGED <<proc, owner, broker, faults>>

(* Mutant: a failed restart is not scheduled again. *)
spawn_failed_for_good(s) ==
    /\ svc' = [svc EXCEPT ![s] = [child |-> "none", reg |-> {}, owed |-> FALSE]]
    /\ sup' = [sup EXCEPT ![s].state = "stopped"]
    /\ job' = idle

spawn_failed(s) ==
    /\ svc' = [svc EXCEPT ![s] = [child |-> "none", reg |-> {}, owed |-> FALSE]]
    /\ sup' = [sup EXCEPT ![s] = IF job.from = "maintain" THEN after_failure(s, sup[s])
                                 ELSE [sup[s] EXCEPT !.state = "stopped"]]
    /\ job' = idle

(* Mutant: a restarted service is not told of the processes on file. *)
wait_for_ready_only ==
    /\ job.op = "spawn"
    /\ LET s == job.service IN
       \/ /\ svc[s].child = "up"
          /\ job' = [op |-> "republish", service |-> s, from |-> job.from, todo |-> {}]
          /\ UNCHANGED <<sup, svc, faults>>
       \/ /\ svc[s].child # "up" \/ faults < MaxFaults
          /\ faults' = IF svc[s].child = "up" THEN faults + 1 ELSE faults
          /\ spawn_failed(s)
    /\ UNCHANGED <<proc, owner, records, broker>>

wait_for_ready ==
    /\ job.op = "spawn"
    /\ LET s == job.service IN
       \/ /\ svc[s].child = "up"
          /\ job' = [op |-> "republish", service |-> s, from |-> job.from, todo |-> sup[s].entries]
          /\ UNCHANGED <<sup, svc, faults>>
       \/ /\ svc[s].child # "up" \/ faults < MaxFaults
          /\ faults' = IF svc[s].child = "up" THEN faults + 1 ELSE faults
          /\ spawn_failed(s)
    /\ UNCHANGED <<proc, owner, records, broker>>

(* spawn_service republishes the entries of the processes still alive; one  *)
(* that cannot be published takes the new service down with it, also when   *)
(* the process died between the look-up and the publication.                *)
republish ==
    /\ job.op = "republish" /\ job.todo # {}
    /\ LET s == job.service
           p == Min(job.todo)
       IN \/ /\ ~lookup(p)
             /\ sup' = [sup EXCEPT ![s].entries = @ \ {p}]
             /\ records' = release(records, {p})
             /\ job' = [job EXCEPT !.todo = @ \ {p}]
             /\ UNCHANGED <<proc, svc, faults>>
          \/ /\ lookup(p)
             /\ \E how \in Answers(s) :
                   IF how = "answered" /\ registers(svc[s].reg, p)
                   THEN /\ served(s, how, svc[s].reg \cup {p})
                        /\ job' = [job EXCEPT !.todo = @ \ {p}]
                        /\ UNCHANGED sup
                   ELSE /\ faults' = IF how = "timeout" THEN faults + 1 ELSE faults
                        /\ spawn_failed(s)
             /\ UNCHANGED <<proc, records>>
          \/ /\ lookup(p)
             /\ proc' = [proc EXCEPT ![owner[p].pid].alive = FALSE]
             /\ spawn_failed(s)
             /\ UNCHANGED <<records, faults>>
    /\ UNCHANGED <<owner, broker>>

spawn_done ==
    /\ job.op = "republish" /\ job.todo = {}
    /\ sup' = [sup EXCEPT ![job.service].state = "running"]
    /\ job' = idle
    /\ UNCHANGED <<proc, owner, records, svc, broker, faults>>
------------------------------------------------------------------------------
(* Supervisor::unregister_process(p) towards service s: a service that runs  *)
(* is asked, one that does not run has nothing to revoke.                    *)

unregister_answers(s, p) ==
    IF p \in sup[s].entries /\ sup[s].state = "running" THEN Answers(s) ELSE {"answered"}

(* Mutant: the service is not asked.                                        *)
unregister_process_locally(s, p, how) ==
    /\ UNCHANGED <<svc, faults>>
    /\ IF how = "answered" /\ p \in sup[s].entries
       THEN /\ sup' = [sup EXCEPT ![s].entries = @ \ {p}]
            /\ records' = release(records, {p})
       ELSE UNCHANGED <<sup, records>>

unregister_process(s, p, how) ==
    /\ IF p \in sup[s].entries /\ sup[s].state = "running" THEN served(s, how, svc[s].reg \ {p})
       ELSE UNCHANGED <<svc, faults>>
    /\ IF how = "answered" /\ p \in sup[s].entries
       THEN /\ sup' = [sup EXCEPT ![s].entries = @ \ {p}]
            /\ records' = release(records, {p})
       ELSE UNCHANGED <<sup, records>>
------------------------------------------------------------------------------
(* ServiceBroker::attach_process: one identity published to every service,  *)
(* and taken back from the ones that have it when one of them fails.        *)

find_native_pid(pid) == {p \in DOMAIN broker : owner[p].pid = pid}

acquired(pid, brk) ==
    LET live == {p \in find_pid(records, pid) : pidfd_alive(p)}
        p == IF live = {} THEN Len(owner) + 1 ELSE Min(live)
    IN  /\ Len(owner) < MaxProcess
        /\ records' = IF live = {} THEN mint(records, pid) ELSE share(records, p)
        /\ owner' = IF live = {} THEN Append(owner, [pid |-> pid, run |-> proc[pid].run]) ELSE owner
        /\ broker' = brk @@ (p :> {})
        /\ job' = [op |-> "publish", process |-> p, todo |-> ServiceOrder,
                   fresh |-> <<>>, created |-> TRUE]

attach_process(pid) ==
    /\ job = idle
    /\ LET slot == find_native_pid(pid) IN
       \/ /\ slot = {} /\ proc[pid].alive
          /\ acquired(pid, broker)
       \/ /\ slot # {}
          /\ LET p == Min(slot) IN
             job' = IF lookup(p)
                    THEN [op |-> "publish", process |-> p, todo |-> ServiceOrder,
                          fresh |-> <<>>, created |-> FALSE]
                    ELSE [op |-> "detach", process |-> p, todo |-> ServiceOrder,
                          failed |-> FALSE, next |-> {pid}]
          /\ UNCHANGED <<owner, records, broker>>
    /\ UNCHANGED <<proc, sup, svc, faults>>

rolling_back == [op |-> "rollback", process |-> job.process,
                 todo |-> Reverse(job.fresh), created |-> job.created]

(* One service of the request: Supervisor::register_process.  The process   *)
(* may die before, or between the authority's check and the service's.      *)
publish_next ==
    /\ job.op = "publish" /\ job.todo # <<>>
    /\ LET s == Head(job.todo)
           p == job.process
           prior == {q \in sup[s].entries : owner[q].pid = owner[p].pid}
       IN \/ /\ s \in broker[p]
             /\ job' = [job EXCEPT !.todo = Tail(@)]
             /\ UNCHANGED <<proc, records, sup, svc, broker, faults>>
          \/ /\ s \notin broker[p]
             /\ sup[s].state # "running" \/ \E q \in prior : lookup(q)
             /\ job' = rolling_back
             /\ UNCHANGED <<proc, records, sup, svc, broker, faults>>
          \/ /\ s \notin broker[p] /\ sup[s].state = "running" /\ ~pidfd_alive(p)
             /\ sup' = [sup EXCEPT ![s].entries = @ \ prior]
             /\ records' = forget(release(records, prior), owner[p].pid)
             /\ job' = rolling_back
             /\ UNCHANGED <<proc, svc, broker, faults>>
          \/ /\ s \notin broker[p] /\ sup[s].state = "running" /\ pidfd_alive(p)
             /\ \A q \in prior : ~lookup(q)
             /\ \E how \in Answers(s) :
                   LET ok == registers(svc[s].reg, p) IN
                   /\ served(s, how, svc[s].reg \cup IF ok THEN {p} ELSE {})
                   /\ IF how = "answered" /\ ok
                      THEN /\ sup' = [sup EXCEPT ![s].entries = (@ \ prior) \cup {p}]
                           /\ records' = share(release(records, prior), p)
                           /\ broker' = [broker EXCEPT ![p] = @ \cup {s}]
                           /\ job' = [job EXCEPT !.todo = Tail(@), !.fresh = Append(@, s)]
                      ELSE /\ sup' = [sup EXCEPT ![s].entries = @ \ prior]
                           /\ records' = release(records, prior)
                           /\ job' = rolling_back
                           /\ UNCHANGED broker
             /\ UNCHANGED proc
          \/ /\ s \notin broker[p] /\ sup[s].state = "running" /\ pidfd_alive(p)
             /\ \A q \in prior : ~lookup(q)
             /\ proc' = [proc EXCEPT ![owner[p].pid].alive = FALSE]
             /\ sup' = [sup EXCEPT ![s].entries = @ \ prior]
             /\ records' = release(records, prior)
             /\ job' = rolling_back
             /\ UNCHANGED <<svc, broker, faults>>
    /\ UNCHANGED owner

attach_done ==
    /\ job.op = "publish" /\ job.todo = <<>>
    /\ job' = idle
    /\ UNCHANGED <<proc, owner, records, sup, svc, broker, faults>>

roll_back_next ==
    /\ job.op = "rollback" /\ job.todo # <<>>
    /\ LET s == Head(job.todo)
           p == job.process
       IN \E how \in unregister_answers(s, p) :
             /\ unregister_process(s, p, how)
             /\ broker' = IF how = "answered" THEN [broker EXCEPT ![p] = @ \ {s}] ELSE broker
    /\ job' = [job EXCEPT !.todo = Tail(@)]
    /\ UNCHANGED <<proc, owner>>

without(p) == [q \in DOMAIN broker \ {p} |-> broker[q]]

(* Mutants: the base reference is not given back; the slot is dropped with  *)
(* publications left.                                                       *)
attach_failed_leaking ==
    /\ job.op = "rollback" /\ job.todo = <<>>
    /\ broker' = IF job.created /\ broker[job.process] = {} THEN without(job.process) ELSE broker
    /\ job' = idle
    /\ UNCHANGED <<proc, owner, records, sup, svc, faults>>

attach_failed ==
    /\ job.op = "rollback" /\ job.todo = <<>>
    /\ IF job.created /\ broker[job.process] = {}
       THEN /\ records' = release(records, {job.process})
            /\ broker' = without(job.process)
       ELSE UNCHANGED <<records, broker>>
    /\ job' = idle
    /\ UNCHANGED <<proc, owner, sup, svc, faults>>
------------------------------------------------------------------------------
(* ServiceBroker::detach_process: a publication that cannot be revoked is   *)
(* kept, and the slot and its reference with it.                            *)

detach_process(p) ==
    /\ job = idle /\ p \in DOMAIN broker
    /\ job' = [op |-> "detach", process |-> p, todo |-> ServiceOrder,
               failed |-> FALSE, next |-> {}]
    /\ UNCHANGED <<proc, owner, records, sup, svc, broker, faults>>

detach_next ==
    /\ job.op = "detach" /\ job.todo # <<>>
    /\ LET s == Head(job.todo)
           p == job.process
       IN \/ /\ s \in broker[p]
             /\ \E how \in unregister_answers(s, p) :
                   /\ unregister_process(s, p, how)
                   /\ broker' = IF how = "answered" THEN [broker EXCEPT ![p] = @ \ {s}] ELSE broker
                   /\ job' = [job EXCEPT !.todo = Tail(@), !.failed = @ \/ how # "answered"]
          \/ /\ s \notin broker[p]
             /\ job' = [job EXCEPT !.todo = Tail(@)]
             /\ UNCHANGED <<records, sup, svc, broker, faults>>
    /\ UNCHANGED <<proc, owner>>

(* The end of a detach, and of the one attach_process makes to clear a slot *)
(* whose process is dead: there the new execution is named next.            *)
detach_done ==
    /\ job.op = "detach" /\ job.todo = <<>>
    /\ IF job.failed THEN UNCHANGED <<records, broker>>
       ELSE /\ records' = release(records, {job.process})
            /\ broker' = without(job.process)
    /\ job' = IF job.failed \/ job.next = {} THEN idle
              ELSE [op |-> "acquire", next |-> job.next]
    /\ UNCHANGED <<proc, owner, sup, svc, faults>>

acquire_after_detach ==
    /\ job.op = "acquire"
    /\ \E pid \in job.next :
          IF proc[pid].alive /\ Len(owner) < MaxProcess THEN acquired(pid, broker)
          ELSE job' = idle /\ UNCHANGED <<owner, records, broker>>
    /\ UNCHANGED <<proc, sup, svc, faults>>
------------------------------------------------------------------------------
(* After start() of every service. *)
SInit ==
    /\ proc = [pid \in Pids |-> [run |-> 0, alive |-> FALSE]]
    /\ owner = <<>>
    /\ records = <<>>
    /\ sup = [s \in Services |-> [state |-> "running", generation |-> 1,
                                  entries |-> {}, history |-> 0]]
    /\ svc = [s \in Services |-> [child |-> "up", reg |-> {}, owed |-> FALSE]]
    /\ broker = <<>>
    /\ job = idle
    /\ faults = 0

(* A step of the operation in progress.                                     *)
OperationStep ==
    \/ wait_for_ready \/ republish \/ spawn_done
    \/ publish_next \/ attach_done \/ roll_back_next \/ attach_failed
    \/ detach_next \/ detach_done \/ acquire_after_detach

SNext ==
    \/ OperationStep
    \/ \E s \in Services : start(s) \/ maintain(s)
    \/ \E pid \in Pids : attach_process(pid)
    \/ \E p \in DOMAIN broker : detach_process(p)
    \/ \E pid \in Pids : fork(pid) \/ exit(pid)
    \/ \E s \in Services : \/ \E how \in {"clean", "failed"} : service_exit(s, how)
                           \/ restart_ages(s)
                           \/ \E pid \in Pids : resolve(s, pid)

SSpec == SInit /\ [][SNext]_svars
------------------------------------------------------------------------------
STypeOK ==
    /\ proc \in [Pids -> [run : 0..MaxForks, alive : BOOLEAN]]
    /\ Len(owner) <= MaxProcess /\ ToSet(owner) \subseteq [pid : Pids, run : 1..MaxForks]
    /\ DOMAIN records \subseteq DOMAIN owner
    /\ \A p \in DOMAIN records : records[p] \in 1..(1 + Cardinality(Services))
    /\ sup \in [Services -> [state : ServiceState, generation : Nat,
                             entries : SUBSET DOMAIN owner, history : 0..MaxRestarts]]
    /\ svc \in [Services -> [child : {"none", "up", "clean", "failed"},
                             reg : SUBSET DOMAIN owner, owed : BOOLEAN]]
    /\ DOMAIN broker \subseteq DOMAIN owner
    /\ \A p \in DOMAIN broker : broker[p] \subseteq Services
    /\ faults \in 0..MaxFaults

(* The references of a ProcessAuthority record are exactly its holders: the *)
(* broker slot and the supervisor entries of that ProcessId.  One release   *)
(* too few pins the identity for the life of the boot, one too many frees   *)
(* it under a holder (process_authority_linux.cpp:196).                     *)
ReferencesAreHolders ==
    \A p \in DOMAIN records :
        records[p] = Cardinality({s \in Services : p \in sup[s].entries})
                        + IF p \in DOMAIN broker THEN 1 ELSE 0

(* A running service whose control channel is in step resolves exactly the  *)
(* live identities its Supervisor has on file: after a restart every one of *)
(* them was republished (supervisor.cpp:380-402), and none that was taken   *)
(* back is left behind.                                                     *)
InStep(s) == sup[s].state = "running" /\ svc[s].child = "up" /\ ~svc[s].owed
RegistryMirrorsSupervisor ==
    \A s \in Services : InStep(s) =>
        {p \in svc[s].reg : pidfd_alive(p)} = {p \in sup[s].entries : pidfd_alive(p)}

(* What a service in step resolves for a live process is a publication the  *)
(* broker made and still owns, so a detach reaches it; and a publication    *)
(* the broker owns is on file with the service's Supervisor, so a restart   *)
(* repeats it: no failed attach, detach or rollback leaves a process        *)
(* authorised, or cut off, behind the broker's back                         *)
(* (service_broker.cpp:237-270).                                            *)
BrokerOwnsPublications ==
    /\ \A s \in Services : InStep(s) =>
          \A p \in svc[s].reg : pidfd_alive(p) => p \in DOMAIN broker /\ s \in broker[p]
    /\ \A p \in DOMAIN broker : pidfd_alive(p) =>
          \A s \in broker[p] : p \in sup[s].entries

(* Services in step that resolve the same live execution give it the same   *)
(* ProcessId, whatever detaches, restarts and new attaches came between:    *)
(* the authority names an execution once while anyone holds it              *)
(* (process_authority_linux.cpp:121-194).                                   *)
OneIdentityPerExecution ==
    \A p, q \in UNION {svc[s].reg : s \in {t \in Services : InStep(t)}} :
        pidfd_alive(p) /\ owner[p] = owner[q] => p = q

(* A service waiting for a restart runs again, or is given up as a crash    *)
(* loop, once the faults have stopped (supervisor.cpp:471-510).             *)
ServiceComesBack ==
    \A s \in Services :
        sup[s].state = "restart_wait" ~> sup[s].state \in {"running", "crash_loop"}
=============================================================================
