----------------------------- MODULE AppManager -----------------------------
(***************************************************************************)
(* ApplicationManager (system/app_manager): the Storage and Key policy of  *)
(* each application profile, replayed into every new generation of the two *)
(* services; launching, uninstalling and reaping application instances.    *)
(* Services and their supervisors appear as far as the manager sees them:  *)
(* a state, a generation, and the policy table of the running child.  The  *)
(* identity of an instance is attached and detached by the broker          *)
(* (Supervision); here only whether that succeeds.                         *)
(***************************************************************************)
EXTENDS Naturals, FiniteSets, FiniteSetsExt

CONSTANTS Apps,       \* applications
          Slots,      \* instance slots 1..n, in table order
          MaxFaults   \* bound: service deaths and late answers

VARIABLES active,     \* applications with a durable active generation
          registered, \* applications whose profile is registered
          withdrawn,  \* history: uninstalled, and no profile published since
          profile,    \* application -> [service -> enabled and published]
          bound,      \* service -> generation of the control client, 0 for none
          svc,        \* service -> state, generation, child, policy, channel
          inst,       \* slot -> the instance in it, or none
          job,        \* the operation in progress
          faults

avars == <<active, registered, withdrawn, profile, bound, svc, inst, job, faults>>

Services == {"storage", "keys"}
none == [app |-> "none", process |-> "none", session |-> FALSE, on_file |-> {}]
idle == [op |-> "idle"]

answers(s) ==
    IF ~svc[s].up THEN {"peer_died"}
    ELSE IF svc[s].owed THEN {"violation"}
    ELSE {"answered"} \cup IF faults < MaxFaults THEN {"timeout"} ELSE {}

request(s, how, policy) ==
    /\ svc' = IF how = "peer_died" THEN svc
              ELSE [svc EXCEPT ![s].policy = policy, ![s].owed = @ \/ how = "timeout"]
    /\ faults' = IF how = "timeout" THEN faults + 1 ELSE faults

(* One request to each of the services asked, answered as `how' says.       *)
asked(on) == {s \in on : svc[s].state = "running"}
replies(on) ==
    {how \in [asked(on) -> {"answered", "timeout", "violation", "peer_died"}] :
        \A s \in asked(on) : how[s] \in answers(s)}
requests(how) ==
    LET late == {s \in DOMAIN how : how[s] = "timeout"} IN
    /\ faults + Cardinality(late) <= MaxFaults
    /\ faults' = faults + Cardinality(late)
    /\ svc' = [s \in Services |-> [svc[s] EXCEPT !.owed = @ \/ s \in late]]

(* Mutant: a control client is current in every generation. *)
current_once_bound(s) == bound[s] # 0

current(s) == bound[s] = svc[s].generation
------------------------------------------------------------------------------
(* The world: packages change, services die, processes exit.               *)

activate(a) ==
    /\ job = idle /\ a \notin active
    /\ active' = active \cup {a}
    /\ UNCHANGED <<registered, withdrawn, profile, bound, svc, inst, job, faults>>

service_dies(s) ==
    /\ svc[s].up /\ faults < MaxFaults
    /\ svc' = [svc EXCEPT ![s].up = FALSE, ![s].policy = {}, ![s].owed = FALSE]
    /\ faults' = faults + 1
    /\ UNCHANGED <<active, registered, withdrawn, profile, bound, inst, job>>

instance_exits(i) ==
    /\ inst[i].process = "alive"
    /\ inst' = [inst EXCEPT ![i].process = "zombie"]
    /\ UNCHANGED <<active, registered, withdrawn, profile, bound, svc, job, faults>>
------------------------------------------------------------------------------
(* maintain(): both supervisors, then the policy, then the instances.      *)

maintained(s) ==
    IF svc[s].state = "running" /\ ~svc[s].up THEN {"stopped", "restart_wait", "crash_loop"}
    ELSE IF svc[s].state = "restart_wait" THEN {"restart_wait", "running", "crash_loop"}
    ELSE {svc[s].state}

supervised(s, state) ==
    IF state = "running" /\ svc[s].state # "running"
    THEN [state |-> "running", generation |-> svc[s].generation + 1,
          up |-> TRUE, policy |-> {}, owed |-> FALSE]
    ELSE [svc[s] EXCEPT !.state = state]

after_services(new) ==
    IF new["storage"].state = "running" /\ new["keys"].state = "running"
    THEN [op |-> "reconcile", service |-> "storage", next |-> [op |-> "reap", slot |-> 1]]
    ELSE [op |-> "reap", slot |-> 1]

pruned(visited) ==
    [i \in Slots |-> IF inst[i].process \in {"zombie", "reaped"}
                     THEN [inst[i] EXCEPT !.on_file = @ \ visited] ELSE inst[i]]

maintain_services ==
    /\ \E st \in maintained("storage"), kt \in maintained("keys") :
          LET new == [s \in Services |->
                 IF s = "storage" THEN supervised(s, st)
                 ELSE IF st = "crash_loop" THEN svc[s] ELSE supervised(s, kt)]
          IN /\ svc' = new
             /\ inst' = pruned(IF st = "crash_loop" THEN {"storage"} ELSE Services)
             /\ job' = IF "crash_loop" \in {new[s].state : s \in Services} THEN idle
                       ELSE after_services(new)
    /\ UNCHANGED <<active, registered, withdrawn, profile, bound, faults>>

maintain == job = idle /\ maintain_services

(* Mutant: a new generation does not forget what the old one was told. *)
unpublished_kept(s) == profile

(* republish_profiles_if_needed(), one service after the other: bind to a   *)
(* new generation, forget what was published to the old one, replay.        *)
unpublished(s) == [a \in Apps |-> [profile[a] EXCEPT ![s].published = FALSE]]

reconcile ==
    /\ job.op = "reconcile"
    /\ LET s == job.service
           follow == IF s = "storage" THEN [job EXCEPT !.service = "keys"] ELSE job.next
       IN \/ /\ svc[s].state # "running"
             /\ job' = idle
             /\ UNCHANGED <<profile, bound>>
          \/ /\ svc[s].state = "running" /\ current(s)
             /\ job' = follow
             /\ UNCHANGED <<profile, bound>>
          \/ /\ svc[s].state = "running" /\ ~current(s)
             /\ bound' = [bound EXCEPT ![s] = svc[s].generation]
             /\ profile' = unpublished(s)
             /\ job' = [op |-> "replay", service |-> s, next |-> follow,
                        todo |-> {a \in Apps : profile[a][s].enabled}]
    /\ UNCHANGED <<active, registered, withdrawn, svc, inst, faults>>

(* Storage refuses a root it already has; the Key policy is idempotent, and *)
(* takes two requests, of which the first may be the one that fails.        *)
accepts(s, a) == s = "storage" => a \notin svc[s].policy
admitted(s, how, a) ==
    LET with == svc[s].policy \cup {a} IN
    IF s = "storage" \/ how = "answered" THEN {with}
    ELSE IF how = "timeout" THEN {svc[s].policy, with} ELSE {svc[s].policy}

replay ==
    /\ job.op = "replay"
    /\ LET s == job.service IN
       \/ /\ job.todo = {}
          /\ job' = job.next
          /\ UNCHANGED <<profile, bound, svc, faults>>
       \/ \E a \in job.todo, how \in answers(s) :
             /\ \E policy \in admitted(s, how, a) : request(s, how, policy)
             /\ IF how = "answered" /\ accepts(s, a)
                THEN /\ profile' = [profile EXCEPT ![a][s].published = TRUE]
                     /\ job' = [job EXCEPT !.todo = @ \ {a}]
                     /\ UNCHANGED bound
                ELSE /\ profile' = unpublished(s)
                     /\ bound' = [bound EXCEPT ![s] = 0]
                     /\ job' = idle
    /\ UNCHANGED <<active, registered, withdrawn, inst>>

(* release_instance_identity: taken back from every service that has it on  *)
(* file; a supervisor that pruned the dead process has nothing on file.     *)
unreleased(how) == {s \in DOMAIN how : how[s] # "answered"}

release_instance_identity(i, how) ==
    /\ how \in replies(inst[i].on_file)
    /\ requests(how)

(* Pending requests are served; a session that is broken is closed.         *)
serviced(i) == {inst[i].session, FALSE}

(* A reaped child whose identity could not be released leaves its slot      *)
(* occupied; the next waitpid on it fails, and ends every later pass there. *)
reap ==
    /\ job.op = "reap"
    /\ LET i == job.slot
           next == IF i + 1 \in Slots THEN [job EXCEPT !.slot = i + 1] ELSE idle
       IN \/ /\ inst[i].process \in {"none", "alive"}
             /\ \E open \in serviced(i) : inst' = [inst EXCEPT ![i].session = open]
             /\ job' = next
             /\ UNCHANGED <<svc, faults>>
          \/ /\ inst[i].process = "reaped"
             /\ inst' = [inst EXCEPT ![i].session = FALSE]
             /\ job' = idle
             /\ UNCHANGED <<svc, faults>>
          \/ /\ inst[i].process = "zombie"
             /\ \E how \in replies(inst[i].on_file) :
                   /\ release_instance_identity(i, how)
                   /\ IF unreleased(how) = {}
                      THEN inst' = [inst EXCEPT ![i] = none] /\ job' = next
                      ELSE /\ inst' = [inst EXCEPT ![i] = [@ EXCEPT !.process = "reaped",
                                                 !.session = FALSE, !.on_file = unreleased(how)]]
                           /\ job' = idle
    /\ UNCHANGED <<active, registered, withdrawn, profile, bound>>
------------------------------------------------------------------------------
(* launch() and register_application_profile() both reconcile the services  *)
(* and then publish the policy of the profile, Key before Storage; the Key  *)
(* policy is taken back when it was new and Storage fails.                  *)

blank == [s \in Services |-> [enabled |-> FALSE, published |-> FALSE]]

publishing(a, goal) ==
    /\ job' = [op |-> "reconcile", service |-> "storage",
               next |-> [op |-> "publish", service |-> "keys", app |-> a, goal |-> goal,
                         was |-> profile[a]["keys"].enabled]]
    /\ withdrawn' = withdrawn \ {a}

register_application_profile(a) ==
    /\ job = idle /\ a \notin registered
    /\ publishing(a, "register")
    /\ UNCHANGED <<active, registered, profile, bound, svc, inst, faults>>

launch(a) ==
    /\ job = idle /\ a \in active \cap registered
    /\ publishing(a, "launch")
    /\ UNCHANGED <<active, registered, profile, bound, svc, inst, faults>>

give_up == [op |-> "give_up", app |-> job.app, goal |-> job.goal]
(* Mutant: the Key policy is kept when Storage fails. *)
publish_failed_kept == give_up

publish_failed ==
    IF job.service = "storage" /\ ~job.was THEN [give_up EXCEPT !.op = "unpublish"] ELSE give_up

published ==
    IF job.service = "keys" THEN [job EXCEPT !.service = "storage"]
    ELSE IF job.goal = "launch" THEN [op |-> "spawn", app |-> job.app]
    ELSE [op |-> "registered", app |-> job.app]

publish_profile ==
    /\ job.op = "publish"
    /\ LET s == job.service
           a == job.app
           flags == IF current(s) THEN profile ELSE unpublished(s)
       IN \/ /\ svc[s].state # "running"
             /\ job' = publish_failed
             /\ UNCHANGED <<profile, bound, svc, faults>>
          \/ /\ svc[s].state = "running"
             /\ bound' = [bound EXCEPT ![s] = svc[s].generation]
             /\ IF flags[a][s].published
                THEN /\ profile' = [flags EXCEPT ![a][s].enabled = TRUE]
                     /\ job' = published
                     /\ UNCHANGED <<svc, faults>>
                ELSE \E how \in answers(s) :
                        /\ \E policy \in admitted(s, how, a) : request(s, how, policy)
                        /\ IF how = "answered" /\ accepts(s, a)
                           THEN /\ profile' = [flags EXCEPT ![a][s] = [enabled |-> TRUE, published |-> TRUE]]
                                /\ job' = published
                           ELSE profile' = flags /\ job' = publish_failed
    /\ UNCHANGED <<active, registered, withdrawn, inst>>

(* revoke_key_profile(): a Key service that is down has nothing to revoke.  *)
revoke_key_profile(a) ==
    LET flags == [profile EXCEPT ![a]["keys"].enabled = FALSE]
        off == [flags EXCEPT ![a]["keys"].published = FALSE]
    IN  \/ /\ ~profile[a]["keys"].published
           /\ profile' = flags
           /\ UNCHANGED <<bound, svc, faults>>
        \/ /\ profile[a]["keys"].published /\ svc["keys"].state # "running"
           /\ profile' = off
           /\ bound' = [bound EXCEPT !["keys"] = 0]
           /\ UNCHANGED <<svc, faults>>
        \/ /\ profile[a]["keys"].published /\ svc["keys"].state = "running"
           /\ IF current("keys")
              THEN /\ \E how \in answers("keys") :
                         /\ request("keys", how, svc["keys"].policy \ {a})
                         /\ profile' = IF how = "answered" THEN off ELSE flags
                   /\ UNCHANGED bound
              ELSE /\ bound' = [bound EXCEPT !["keys"] = svc["keys"].generation]
                   /\ profile' = [b \in Apps |-> [flags[b] EXCEPT !["keys"].published = FALSE]]
                   /\ UNCHANGED <<svc, faults>>

unpublish ==
    /\ job.op = "unpublish"
    /\ revoke_key_profile(job.app)
    /\ job' = give_up
    /\ UNCHANGED <<active, registered, withdrawn, inst>>

(* A registration that failed forgets the profile.                          *)
abandon ==
    /\ job.op = "give_up"
    /\ profile' = IF job.goal = "register" THEN [profile EXCEPT ![job.app] = blank] ELSE profile
    /\ job' = idle
    /\ UNCHANGED <<active, registered, withdrawn, bound, svc, inst, faults>>

profile_registered ==
    /\ job.op = "registered"
    /\ registered' = registered \cup {job.app}
    /\ job' = idle
    /\ UNCHANGED <<active, withdrawn, profile, bound, svc, inst, faults>>

free_slots == {i \in Slots : inst[i] = none}

(* Attached to both services and ready, or killed and released again.       *)
spawn ==
    /\ job.op = "spawn"
    /\ \/ /\ free_slots # {}
          /\ \A s \in Services : svc[s].state = "running" /\ "answered" \in answers(s)
          /\ inst' = [inst EXCEPT ![Min(free_slots)] =
                         [app |-> job.app, process |-> "alive", session |-> TRUE,
                          on_file |-> Services]]
          /\ UNCHANGED <<svc, faults>>
       \/ /\ free_slots # {}
          /\ \E how \in replies(Services) : requests(how)
          /\ UNCHANGED inst
       \/ /\ free_slots = {}
          /\ UNCHANGED <<inst, svc, faults>>
    /\ job' = idle
    /\ UNCHANGED <<active, registered, withdrawn, profile, bound>>
------------------------------------------------------------------------------
(* uninstall_application(): the durable record first, then the policy, then *)
(* every instance's session and identity, then maintain().                  *)

uninstall_application(a) ==
    /\ job = idle /\ a \in active
    /\ active' = active \ {a}
    /\ withdrawn' = withdrawn \cup {a}
    /\ job' = [op |-> "revoke_keys", app |-> a]
    /\ UNCHANGED <<registered, profile, bound, svc, inst, faults>>

revoke_keys ==
    /\ job.op = "revoke_keys"
    /\ revoke_key_profile(job.app)
    /\ job' = [op |-> "revoke_storage", app |-> job.app]
    /\ UNCHANGED <<active, registered, withdrawn, inst>>

(* Mutant: the policy is revoked, and the profile stays enabled. *)
revoke_storage_once ==
    /\ job.op = "revoke_storage"
    /\ LET a == job.app IN
       IF ~profile[a]["storage"].published \/ svc["storage"].state # "running" \/ ~current("storage")
       THEN UNCHANGED <<profile, bound, svc, faults>>
       ELSE /\ \E how \in answers("storage") :
                  /\ request("storage", how, svc["storage"].policy \ {a})
                  /\ profile' = [profile EXCEPT ![a]["storage"].published = @ /\ how # "answered"]
            /\ UNCHANGED bound
    /\ job' = [op |-> "teardown", app |-> job.app,
               todo |-> {i \in Slots : inst[i].app = job.app}]
    /\ UNCHANGED <<active, registered, withdrawn, inst>>

revoke_storage ==
    /\ job.op = "revoke_storage"
    /\ LET a == job.app
           off == [profile EXCEPT ![a]["storage"].enabled = FALSE]
       IN IF ~profile[a]["storage"].published \/ svc["storage"].state # "running"
          THEN profile' = off /\ UNCHANGED <<bound, svc, faults>>
          ELSE IF ~current("storage")
          THEN /\ bound' = [bound EXCEPT !["storage"] = svc["storage"].generation]
               /\ profile' = [b \in Apps |-> [off[b] EXCEPT !["storage"].published = FALSE]]
               /\ UNCHANGED <<svc, faults>>
          ELSE /\ \E how \in answers("storage") :
                     /\ request("storage", how, svc["storage"].policy \ {a})
                     /\ profile' = IF how = "answered"
                                   THEN [off EXCEPT ![a]["storage"].published = FALSE] ELSE off
               /\ UNCHANGED bound
    /\ job' = [op |-> "teardown", app |-> job.app,
               todo |-> {i \in Slots : inst[i].app = job.app}]
    /\ UNCHANGED <<active, registered, withdrawn, inst>>

teardown ==
    /\ job.op = "teardown" /\ job.todo # {}
    /\ LET i == Min(job.todo) IN
       /\ \E how \in replies(inst[i].on_file) :
             /\ release_instance_identity(i, how)
             /\ inst' = [inst EXCEPT ![i] = [@ EXCEPT !.session = FALSE, !.on_file = unreleased(how)]]
       /\ job' = [job EXCEPT !.todo = @ \ {i}]
    /\ UNCHANGED <<active, registered, withdrawn, profile, bound>>

teardown_done ==
    /\ job.op = "teardown" /\ job.todo = {}
    /\ maintain_services
------------------------------------------------------------------------------
AInit ==
    /\ active = Apps
    /\ registered = {} /\ withdrawn = {}
    /\ profile = [a \in Apps |-> blank]
    /\ bound = [s \in Services |-> 0]
    /\ svc = [s \in Services |-> [state |-> "running", generation |-> 1, up |-> TRUE,
                                  policy |-> {}, owed |-> FALSE]]
    /\ inst = [i \in Slots |-> none]
    /\ job = idle
    /\ faults = 0

Work == reconcile \/ replay \/ reap \/ publish_profile \/ unpublish \/ abandon
          \/ profile_registered \/ spawn
          \/ revoke_keys \/ revoke_storage \/ teardown \/ teardown_done

ANext ==
    \/ maintain \/ Work
    \/ \E a \in Apps : \/ register_application_profile(a) \/ launch(a)
                       \/ uninstall_application(a) \/ activate(a)
    \/ \E s \in Services : service_dies(s)
    \/ \E i \in Slots : instance_exits(i)

ASpec == AInit /\ [][ANext]_avars
------------------------------------------------------------------------------
ATypeOK ==
    /\ active \subseteq Apps /\ registered \subseteq Apps
    /\ profile \in [Apps -> [Services -> [enabled : BOOLEAN, published : BOOLEAN]]]
    /\ bound \in [Services -> Nat]
    /\ svc \in [Services -> [state : {"running", "stopped", "restart_wait", "crash_loop"}, generation : Nat,
                             up : BOOLEAN, policy : SUBSET Apps, owed : BOOLEAN]]
    /\ inst \in [Slots -> {none} \cup
                            [app : Apps, process : {"alive", "zombie", "reaped"},
                             session : BOOLEAN, on_file : SUBSET Services]]

(* A running service whose control channel is in step.                      *)
InStep(s) == svc[s].state = "running" /\ svc[s].up /\ ~svc[s].owed

(* Once an uninstall is over, no running service still holds Storage or Key *)
(* policy of the application, no later restart of a service brings it back  *)
(* until a profile of it is published anew, and no instance keeps the       *)
(* session it could reacquire service endpoints on (lifecycle.cpp:153-181). *)
UninstalledIsRevoked ==
    job = idle =>
        /\ \A s \in Services : InStep(s) => svc[s].policy \cap withdrawn = {}
        /\ \A i \in Slots : inst[i].session => inst[i].app \in active

(* Policy is all or nothing: between operations a profile is enabled for    *)
(* both services or for neither, whichever publication or rollback failed   *)
(* on the way (storage_integration.cpp:53-88).                              *)
ProfileNeverHalfEnabled ==
    job = idle => \A a \in Apps : profile[a]["storage"].enabled = profile[a]["keys"].enabled

(* What the manager believes it published to the generation its control     *)
(* client is bound to is what that generation enforces.                     *)
PublishedIsEnforced ==
    \A s \in Services : InStep(s) /\ current(s) =>
        svc[s].policy = {a \in Apps : profile[a][s].published}

(* A service that came back gets the policy of every enabled profile again, *)
(* unless it fails, loses step or is given up first.                        *)
PolicyIsReplayed ==
    \A a \in Apps, s \in Services :
        profile[a][s].enabled ~> \/ a \in svc[s].policy \/ ~profile[a][s].enabled
                                 \/ \E t \in Services : svc[t].owed \/ svc[t].state \in {"stopped", "crash_loop"}
=============================================================================
