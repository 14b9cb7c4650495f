----------------------------- MODULE ShellTasks -----------------------------
(***************************************************************************)
(* The system shell's view of running applications: App Manager's          *)
(* lifecycle snapshot and the channel that carries it, the ShellTaskModel  *)
(* that joins it with the compositor's scene, and what the shell does with *)
(* the join: exact activation, task previews and its own chrome surface.   *)
(*                                                                         *)
(* An execution is a number; it stands for the ApplicationInstanceId, the  *)
(* application and the PeerIdentity, all fixed when it starts.  The scene  *)
(* is the part of the compositor's the shell reads; Compositor models the  *)
(* rest.  Lifecycle snapshots may be applied in another order than they    *)
(* were taken; scene snapshots carry no revision.  Feature says what a     *)
(* behaviour does with the join: "late" is the one in which the scene      *)
(* before the last may still be applied.                                   *)
(***************************************************************************)
EXTENDS Naturals, FiniteSets, TLC

CONSTANTS Features, MaxInstance, MaxSurface, MaxFrame, MaxGeneration, MaxLifecycle, MaxRevision,
          MaxTasks

VARIABLES
    manager,    \* live executions, the next one, lifecycle_cache_
    scene,      \* the compositor: surfaces, the next serial, its generation, the surface in
                \* front; surfaces made so far (history)
    inbox,      \* what the shell has fetched: lifecycle snapshots, the newest it accepted
                \* (history), the last scene and the one before it
    shell,      \* the ShellTaskModel
    held,       \* the activation intent, preview grant and chrome lease the shell holds
    made,       \* who created the surface last made under an id (history)
    feature

shell_vars == <<manager, scene, inbox, shell, held, made, feature>>

Nothing == 0
ShellPeer == 0    \* the shell's identity; executions count from 1
NoIntent == [revision |-> 0, instance |-> Nothing, root |-> Nothing, serial |-> 0]
NoGrant == [revision |-> 0, instance |-> Nothing, root |-> Nothing, buffer |-> Nothing, frame |-> 0]
NoLease == [surface |-> Nothing, bounds |-> Nothing, born |-> 0]
Places == {1, 2}     \* bounds a surface may have
Buffers == {1, 2}    \* buffers a frame may be in

(* An id holds the compositor's generation above a serial that starts over. *)
(* Mutant: the serial alone.                                               *)
serial_alone(generation, serial) == serial

make_display_object_value(generation, serial) == generation * (MaxSurface + 1) + serial

display_object_generation(id) == id \div (MaxSurface + 1)

NewModel == [tasks |-> <<>>, revision |-> 1, view |-> "home", active |-> Nothing,
             serial |-> 1, lifecycle |-> 0, connected |-> FALSE]
NoneHeld == [intent |-> NoIntent, grant |-> NoGrant, lease |-> NoLease]

ShellTasksInit ==
    /\ feature \in Features
    /\ manager = [live |-> {}, next |-> 1, revision |-> 1, cached |-> {}, initialized |-> FALSE]
    /\ scene = [surfaces |-> <<>>, next |-> 1, generation |-> 1, front |-> Nothing, born |-> 0]
    /\ inbox = [lifecycles |-> {}, scene |-> <<>>, prior |-> <<>>, newest |-> 0]
    /\ shell = NewModel /\ held = NoneHeld
    /\ made = <<>>

---------------------------------------------------------------------------
(* The applications, the compositor, and their deaths.                     *)

Instances == IF feature = "activation" THEN MaxInstance ELSE 1   \* bound: one task is enough

app_starts ==
    /\ manager.next <= Instances
    /\ manager' = [manager EXCEPT !.live = @ \cup {manager.next}, !.next = @ + 1]
    /\ UNCHANGED <<scene, inbox, shell, held, made>>

app_ends(n) ==
    /\ n \in manager.live
    /\ manager' = [manager EXCEPT !.live = @ \ {n}]
    /\ UNCHANGED <<scene, inbox, shell, held, made>>

(* A process has at most one application root.                             *)
surface_created(p, role, place) ==
    LET id == make_display_object_value(scene.generation, scene.next)
    IN /\ scene.born < MaxSurface   \* bound: surfaces made
       /\ \A s \in DOMAIN scene.surfaces : scene.surfaces[s].owner # p
       /\ scene' = [scene EXCEPT
              !.surfaces = (id :> [owner |-> p, role |-> role, bounds |-> place, visible |-> TRUE,
                                   buffer |-> Nothing, frame |-> 0, born |-> scene.born + 1]) @@ @,
              !.next = @ + 1, !.born = @ + 1]
       /\ made' = (id :> p) @@ made
       /\ UNCHANGED <<manager, inbox, shell, held>>

surface_presents(s, buffer) ==
    /\ s \in DOMAIN scene.surfaces /\ scene.surfaces[s].frame < MaxFrame
    /\ scene' = [scene EXCEPT !.surfaces[s].frame = @ + 1, !.surfaces[s].buffer = buffer]
    /\ UNCHANGED <<manager, inbox, shell, held, made>>

(* Moving a surface takes its frame away.                                  *)
set_bounds(s, place) ==
    /\ s \in DOMAIN scene.surfaces
    /\ scene' = [scene EXCEPT !.surfaces[s].bounds = place, !.surfaces[s].buffer = Nothing]
    /\ UNCHANGED <<manager, inbox, shell, held, made>>

set_visibility(s, visible) ==
    /\ s \in DOMAIN scene.surfaces
    /\ scene' = [scene EXCEPT !.surfaces[s].visible = visible]
    /\ UNCHANGED <<manager, inbox, shell, held, made>>

surface_goes(s) ==
    /\ s \in DOMAIN scene.surfaces
    /\ scene' = [scene EXCEPT !.surfaces = [t \in DOMAIN @ \ {s} |-> @[t]],
                              !.front = IF @ = s THEN Nothing ELSE @]
    /\ UNCHANGED <<manager, inbox, shell, held, made>>

compositor_restarts ==
    /\ scene.generation < MaxGeneration
    /\ scene' = [scene EXCEPT !.surfaces = <<>>, !.next = 1, !.generation = @ + 1, !.front = Nothing]
    /\ UNCHANGED <<manager, inbox, shell, held, made>>

---------------------------------------------------------------------------
(* App Manager: the revision moves when the live set differs from the one  *)
(* last reported.  There is none after MaxLifecycle: from then on every    *)
(* request is refused.                                                     *)
same_live_set == manager.live = manager.cached

sampled ==
    IF ~manager.initialized
    THEN IF manager.revision = 0 THEN manager
         ELSE [manager EXCEPT !.cached = manager.live, !.initialized = TRUE]
    ELSE IF same_live_set THEN manager
    ELSE IF manager.revision = MaxLifecycle
         THEN [manager EXCEPT !.cached = {}, !.revision = 0, !.initialized = FALSE]
    ELSE [manager EXCEPT !.cached = manager.live, !.revision = @ + 1]

lifecycle_snapshot(m) == [revision |-> m.revision, applications |-> m.cached]

snapshot_valid(l) == l.revision # 0 /\ Cardinality(l.applications) <= MaxTasks

encode_snapshot(l) == IF snapshot_valid(l) THEN l ELSE [l EXCEPT !.revision = 0]
decode_snapshot(l) == IF snapshot_valid(l) THEN {l} ELSE {}

(* ShellLifecycleControlServer answers only the shell principal.           *)
dispatch_once(peer) == IF peer = ShellPeer THEN encode_snapshot(lifecycle_snapshot(sampled))
                       ELSE [revision |-> 0, applications |-> {}]

fetches_lifecycle ==
    /\ feature = "late" \/ sampled.revision # 0   \* bound: the revisions run out only there
    /\ manager' = sampled
    /\ inbox' = [inbox EXCEPT !.lifecycles = @ \cup decode_snapshot(dispatch_once(ShellPeer))]
    /\ UNCHANGED <<scene, shell, held, made>>

fetches_scene ==
    /\ inbox' = [inbox EXCEPT !.scene = scene.surfaces,
                              !.prior = IF feature = "late" THEN inbox.scene ELSE <<>>]
    /\ UNCHANGED <<manager, scene, shell, held, made>>

---------------------------------------------------------------------------
(* The task model.                                                         *)

scene_entry_valid(e) == e.role \in {"application", "system_chrome"}

find(n) == IF n \in DOMAIN shell.tasks THEN {shell.tasks[n]} ELSE {}

(* Refused, with nothing changed, at the largest revision.                 *)
advances(m) ==
    shell.revision < MaxRevision /\ shell' = [m EXCEPT !.revision = shell.revision + 1]

(* The application root of execution n in the scene held.                  *)
roots(view, n) == {s \in DOMAIN view : view[s].role = "application" /\ view[s].owner = n}

(* Only executions with a root join; a survivor keeps its serial.          *)
joined(l, view) ==
    [n \in {n \in l.applications : roots(view, n) # {}} |->
        [root |-> CHOOSE s \in roots(view, n) : TRUE,
         serial |-> IF find(n) # {} THEN shell.tasks[n].serial ELSE 0]]

(* Mutant: whatever root the scene has.                                    *)
goes_anywhere(desired) == FALSE

goes_backwards(desired) ==
    \E n \in DOMAIN desired : find(n) # {} /\ desired[n].root < shell.tasks[n].root

(* Mutant: the active task may be gone.                                    *)
keeping_absent_active(m) == m

without_absent_active(m) ==
    IF m.active # Nothing /\ m.active \notin DOMAIN m.tasks
    THEN [m EXCEPT !.active = Nothing, !.view = "home"] ELSE m

refused_snapshot(l) == l.revision = 0 \/ l.revision < shell.lifecycle

reconcile(l, view) ==
    LET desired == joined(l, view)
        done == [shell EXCEPT !.lifecycle = l.revision]
    IN /\ shell.connected /\ l \in inbox.lifecycles
       /\ ~refused_snapshot(l)
       /\ \A s \in DOMAIN view : scene_entry_valid(view[s])
       /\ Cardinality(DOMAIN desired) <= MaxTasks /\ ~goes_backwards(desired)
       /\ IF desired = shell.tasks THEN shell' = done
          ELSE advances(without_absent_active([done EXCEPT !.tasks = desired]))
       /\ inbox' = [inbox EXCEPT !.newest = IF l.revision > @ THEN l.revision ELSE @]
       /\ UNCHANGED <<manager, scene, held, made>>

remove(n) ==
    /\ find(n) # {}
    /\ advances(without_absent_active([shell EXCEPT !.tasks = [k \in DOMAIN @ \ {n} |-> @[k]]]))
    /\ UNCHANGED <<manager, scene, inbox, held, made>>

activate(n) ==
    /\ find(n) # {} /\ shell.serial # 0
    /\ advances([shell EXCEPT !.tasks[n].serial = shell.serial, !.serial = @ + 1,
                              !.active = n, !.view = "application"])
    /\ UNCHANGED <<manager, scene, inbox, held, made>>

show_home ==
    /\ ~(shell.view = "home" /\ shell.active = Nothing)
    /\ advances([shell EXCEPT !.view = "home", !.active = Nothing])
    /\ UNCHANGED <<manager, scene, inbox, held, made>>

show_overview ==
    /\ shell.view # "overview"
    /\ advances([shell EXCEPT !.view = "overview"])
    /\ UNCHANGED <<manager, scene, inbox, held, made>>

---------------------------------------------------------------------------
(* Activation: an intent minted from one revision, committed if that is    *)
(* still the shell's, and checked once more by the compositor.             *)
(* (The serial in held.intent is history: which request of the user the    *)
(* intent was minted for.  No step reads it.)                              *)

make_activation_intent ==
    /\ shell.view = "application" /\ shell.active # Nothing /\ find(shell.active) # {}
    /\ held' = [held EXCEPT !.intent = [revision |-> shell.revision, instance |-> shell.active,
                                        root |-> shell.tasks[shell.active].root,
                                        serial |-> shell.tasks[shell.active].serial]]
    /\ UNCHANGED <<manager, scene, inbox, shell, made>>

(* Mutant: the shell may have been elsewhere in the meantime.              *)
intent_current_again(i) ==
    /\ shell.view = "application" /\ shell.active = i.instance
    /\ find(i.instance) # {} /\ shell.tasks[i.instance].root = i.root

intent_current(i) ==
    /\ i.revision = shell.revision /\ shell.view = "application" /\ shell.active = i.instance
    /\ find(i.instance) # {} /\ shell.tasks[i.instance].root = i.root

activate_exact(owner, s) == s \in DOMAIN scene.surfaces /\ scene.surfaces[s].owner = owner

commit_activation_intent ==
    /\ held.intent # NoIntent /\ intent_current(held.intent)
    /\ scene' = IF activate_exact(held.intent.instance, held.intent.root)
                THEN [scene EXCEPT !.front = held.intent.root] ELSE scene
    /\ held' = [held EXCEPT !.intent = NoIntent]
    /\ UNCHANGED <<manager, inbox, shell, made>>

---------------------------------------------------------------------------
(* Previews: a grant for one frame of a visible surface, validated against *)
(* the scene last fetched when it is used.                                 *)

capture_allowed_for(role) == role = "application"

preview_entry_allowed(n, view) ==
    LET s == shell.tasks[n].root
    IN /\ s \in DOMAIN view /\ view[s].owner = n /\ view[s].role = "application"
       /\ view[s].visible /\ capture_allowed_for(view[s].role)
       /\ view[s].buffer # Nothing /\ view[s].frame # 0

authorize_task_preview(n) ==
    LET s == shell.tasks[n].root
    IN /\ find(n) # {} /\ preview_entry_allowed(n, inbox.scene)
       /\ held' = [held EXCEPT !.grant = [revision |-> shell.revision, instance |-> n, root |-> s,
                                          buffer |-> inbox.scene[s].buffer,
                                          frame |-> inbox.scene[s].frame]]
       /\ UNCHANGED <<manager, scene, inbox, shell, made>>

validate_task_preview_grant(g, view) ==
    /\ g.revision = shell.revision
    /\ find(g.instance) # {} /\ shell.tasks[g.instance].root = g.root
    /\ preview_entry_allowed(g.instance, view)
    /\ view[g.root].buffer = g.buffer /\ view[g.root].frame = g.frame

uses_preview ==
    /\ held.grant # NoGrant /\ validate_task_preview_grant(held.grant, inbox.scene)
    /\ held' = [held EXCEPT !.grant = NoGrant]
    /\ UNCHANGED <<manager, scene, inbox, shell, made>>

---------------------------------------------------------------------------
(* The shell's own chrome surface: a lease names the surface and where it   *)
(* was when the compositor described it.                                   *)

trusted_presentation_for(role) == IF role = "system_chrome" THEN "system_chrome" ELSE "none"

descriptor_is_exact_chrome(s) ==
    /\ s \in DOMAIN scene.surfaces
    /\ scene.surfaces[s].owner = ShellPeer /\ scene.surfaces[s].role = "system_chrome"

lease_of(s) ==
    [surface |-> s, bounds |-> scene.surfaces[s].bounds, born |-> scene.surfaces[s].born]

accept_system_chrome(s) ==
    /\ held.lease = NoLease /\ descriptor_is_exact_chrome(s)
    /\ held' = [held EXCEPT !.lease = lease_of(s)]
    /\ UNCHANGED <<manager, scene, inbox, shell, made>>

(* Mutant: wherever the surface is now.                                    *)
validate_anywhere(lease, view) ==
    /\ lease # NoLease /\ lease.surface \in DOMAIN view
    /\ LET e == view[lease.surface] IN
       /\ e.owner = ShellPeer /\ e.role = "system_chrome"
       /\ trusted_presentation_for(e.role) = "system_chrome"

validate_system_chrome(lease, view) ==
    /\ lease # NoLease /\ lease.surface \in DOMAIN view
    /\ LET e == view[lease.surface] IN
       /\ e.owner = ShellPeer /\ e.role = "system_chrome" /\ e.bounds = lease.bounds
       /\ trusted_presentation_for(e.role) = "system_chrome"

(* After a compositor restart: the replacement is of a newer generation.   *)
replace_system_chrome_after_restart(s) ==
    /\ held.lease # NoLease /\ descriptor_is_exact_chrome(s)
    /\ display_object_generation(s) > display_object_generation(held.lease.surface)
    /\ held' = [held EXCEPT !.lease = lease_of(s)]
    /\ UNCHANGED <<manager, scene, inbox, shell, made>>

---------------------------------------------------------------------------
(* The shell process: a snapshot first, then the one compositor channel it *)
(* is handed; without either it exits, and is restarted with nothing.      *)
take_compositor_capability ==
    /\ inbox.lifecycles # {} /\ ~shell.connected
    /\ shell' = [shell EXCEPT !.connected = TRUE]
    /\ UNCHANGED <<manager, scene, inbox, held, made>>

shell_restarts ==
    /\ inbox.lifecycles # {}
    /\ shell' = NewModel /\ held' = NoneHeld
    /\ inbox' = [lifecycles |-> {}, scene |-> <<>>, prior |-> <<>>, newest |-> 0]
    /\ scene' = [scene EXCEPT !.surfaces =
           [s \in {s \in DOMAIN @ : @[s].owner # ShellPeer} |-> @[s]]]
    /\ UNCHANGED <<manager, made>>

surfaces_change ==
    \/ \E n \in manager.live : surface_created(n, "application", 1)
    \/ feature = "chrome" /\ \E place \in Places : surface_created(ShellPeer, "system_chrome", place)
    \/ \E s \in DOMAIN scene.surfaces :
          \/ surface_goes(s)
          \/ feature = "preview" /\ \E b \in Buffers : surface_presents(s, b)
          \/ feature = "preview" /\ \E v \in BOOLEAN : set_visibility(s, v)
          \/ feature = "preview" /\ set_bounds(s, 1)
          \/ feature = "chrome" /\ \E place \in Places : set_bounds(s, place)

ShellTasksNext ==
    /\ UNCHANGED feature
    /\ \/ surfaces_change
       \/ feature # "preview" /\ compositor_restarts
       \/ feature # "chrome" /\ app_starts
       \/ \E n \in manager.live : app_ends(n)
       \/ fetches_lifecycle \/ fetches_scene
       \/ shell_restarts
       \/ \E l \in inbox.lifecycles, view \in {inbox.scene, inbox.prior} : reconcile(l, view)
       \/ \E n \in DOMAIN shell.tasks : remove(n) \/ (feature = "activation" /\ activate(n))
       \/ take_compositor_capability
       \/ feature = "activation" /\ (show_home \/ show_overview)
       \/ feature = "activation" /\ (make_activation_intent \/ commit_activation_intent)
       \/ feature = "preview" /\ (uses_preview \/ \E n \in DOMAIN shell.tasks : authorize_task_preview(n))
       \/ feature = "chrome" /\ \E s \in DOMAIN scene.surfaces :
              accept_system_chrome(s) \/ replace_system_chrome_after_restart(s)

ShellTasksSpec == ShellTasksInit /\ [][ShellTasksNext]_shell_vars

(* TasksAreJoined: a task is an execution that was running when the newest  *)
(* lifecycle snapshot the shell accepted was taken, with a root that very  *)
(* execution created: an older snapshot applied late brings nothing back,  *)
(* and neither a shell nor a compositor restart mixes executions up.  The  *)
(* active task is one of them, and the shell shows an application only     *)
(* when one is active.  A chrome lease that validates, against the scene   *)
(* of now or the one last fetched, is for the very surface it was accepted *)
(* for, where it was then: not for one made under the same serial after a  *)
(* compositor restart, and not after it was moved.                         *)
TasksAreJoined ==
    /\ \A n \in DOMAIN shell.tasks :
           /\ made[shell.tasks[n].root] = n
           /\ \E l \in inbox.lifecycles : l.revision = inbox.newest /\ n \in l.applications
    /\ shell.active # Nothing => shell.active \in DOMAIN shell.tasks
    /\ shell.view = "application" => shell.active # Nothing
    /\ \A view \in {scene.surfaces, inbox.scene} :
           validate_system_chrome(held.lease, view) =>
               /\ view[held.lease.surface].born = held.lease.born
               /\ view[held.lease.surface].bounds = held.lease.bounds

(* ShellActsOnWhatItShows: the compositor brings a surface to the front for *)
(* the shell only while the shell shows that very execution, because of    *)
(* the same request of the user, and the surface is its root: a commit     *)
(* minted before the user went elsewhere and came back, or before a        *)
(* restart of either side, does nothing.  A preview shows the frame and    *)
(* buffer it was granted for, visible when the shell last looked.  A task  *)
(* is never put back on a root it had left, however late a scene arrives.  *)
ShellActsOnWhatItShows ==
    [][/\ scene'.front # scene.front /\ scene'.front # Nothing =>
              /\ shell.view = "application" /\ shell.connected
              /\ shell.active \in DOMAIN shell.tasks /\ shell.tasks[shell.active].root = scene'.front
              /\ shell.tasks[shell.active].serial = held.intent.serial
              /\ scene.surfaces[scene'.front].owner = shell.active
       /\ uses_preview => /\ held.grant.root \in DOMAIN inbox.scene
                          /\ inbox.scene[held.grant.root].frame = held.grant.frame
                          /\ inbox.scene[held.grant.root].visible
                          /\ inbox.scene[held.grant.root].owner = held.grant.instance
       /\ \A n \in DOMAIN shell.tasks \cap DOMAIN shell'.tasks :
              shell.tasks[n].root <= shell'.tasks[n].root]_shell_vars

=============================================================================
