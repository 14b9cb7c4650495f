----------------------------- MODULE Compositor -----------------------------
(***************************************************************************)
(* system.compositor (core/osdisplay, services/compositor): clients create *)
(* surfaces and buffers and submit frames; the shell raises applications;  *)
(* the input service asks which surface a point belongs to, and asks again *)
(* just before it delivers.  Clients die at any time and are noticed by    *)
(* their pidfd at the start of the next request; the service itself may be *)
(* replaced by one of the next generation.                                 *)
(*                                                                         *)
(* The screen is a row of points and a rectangle an interval of them.  A   *)
(* process is its own principal.  Damage, pixel formats, deadlines and the *)
(* codecs of requests that carry plain values are left out.                *)
(***************************************************************************)
EXTENDS Integers, FiniteSets, FiniteSetsExt

CONSTANTS Client,              \* processes; "shell" and "secure" are the trusted ones
          Mortal,              \* bound: those that may die
          Width,               \* configuration_.size
          Length,              \* the size of every surface and buffer
          MaxClients,          \* max_compositor_clients
          MaxSurfaces,         \* max_surfaces
          PerPrincipal,        \* max_surfaces_per_principal
          MaxBuffers,          \* max_shared_buffers
          BuffersPerPrincipal, \* max_shared_buffers_per_principal
          MaxSerial,           \* bound: surfaces and buffers made in the first generation
          MaxStack,            \* bound: activations per generation
          MaxFrame,            \* bound: frames of a surface
          MaxDisplayGeneration \* bound: generations of the service

VARIABLES clients, dead, surfaces, buffers, next_serial, next_buffer, next_stack, generation, hit

display_vars == <<clients, dead, surfaces, buffers, next_serial, next_buffer, next_stack, generation, hit>>

Role == {"application", "popup", "system_chrome", "secure_system"}
Rect == {l .. (l + Length - 1) : l \in 1 .. (Width - Length + 1)}
asked_for(p) == IF p = "shell" THEN {"system_chrome"} ELSE Role \ (IF p = "secure" THEN {"application"} ELSE {})
Serials == MaxSerial - (generation - 1)   \* bound: a later generation makes fewer
NoId == <<0, 0>>
NoHit == [surface |-> NoId]
make_display_object_value(serial) == <<generation, serial>>
put_in(f, k, v) == [x \in DOMAIN f \cup {k} |-> IF x = k THEN v ELSE f[x]]
only(f, ks) == [x \in ks |-> f[x]]

DisplayInit ==
    /\ clients = {} /\ dead = {}
    /\ surfaces = <<>> /\ buffers = <<>>
    /\ next_serial = 1 /\ next_buffer = 1 /\ next_stack = 1
    /\ generation = 1 /\ hit = NoHit
---------------------------------------------------------------------------
(* The order of the scene.                                                   *)
role_band(role) == CASE role = "system_chrome" -> 2 [] role = "secure_system" -> 3 [] OTHER -> 1
role_rank_within_band(role) == IF role = "popup" THEN 2 ELSE 1

after(s, t) ==
    LET a == surfaces[s] b == surfaces[t]
        key(x, id) == <<role_band(x.role), IF role_band(x.role) = 1 THEN x.stack ELSE 0,
                        role_rank_within_band(x.role), id[2]>>
        k == key(a, s) l == key(b, t)
    IN \E i \in 1 .. 4 : k[i] > l[i] /\ \A j \in 1 .. (i - 1) : k[j] = l[j]

drawn(s) == surfaces[s].visible /\ surfaces[s].has_frame
drawn_at(x) == {s \in DOMAIN surfaces : drawn(s) /\ x \in surfaces[s].bounds}
topmost(S) == CHOOSE s \in S : \A t \in S \ {s} : after(s, t)

obscured_above(s, x) ==
    \E t \in DOMAIN surfaces :
        /\ after(t, s) /\ drawn(t) /\ surfaces[t].owner # surfaces[s].owner
        /\ x \in surfaces[t].bounds \/ surfaces[t].bounds \cap surfaces[s].bounds # {}
---------------------------------------------------------------------------
(* dispatch_once: the dead are cleared away first, and the sender must be    *)
(* known, or be alive and find a place in the table.                         *)
note_client(p) ==
    /\ p \notin dead /\ clients \cap dead = {}
    /\ p \in clients \/ Cardinality(clients) < MaxClients
    /\ clients' = clients \cup {p}

owned(p) == {s \in DOMAIN surfaces : surfaces[s].owner = p}
children(s) == {t \in DOMAIN surfaces : surfaces[t].parent = s}

role_allowed(p, role) ==
    CASE role = "system_chrome" -> p = "shell" [] role = "secure_system" -> p = "secure" [] OTHER -> TRUE

parent_valid(p, role, parent) ==
    IF role # "popup" THEN parent = NoId ELSE parent \in owned(p) /\ surfaces[parent].role = "application"

process_has_application_surface(p) == \E s \in owned(p) : surfaces[s].role = "application"

create_surface(p, role, parent, bounds, accepts) ==
    /\ note_client(p)
    /\ role_allowed(p, role) /\ parent_valid(p, role, parent)
    /\ role = "application" => ~process_has_application_surface(p)
    /\ Cardinality(DOMAIN surfaces) < MaxSurfaces /\ Cardinality(owned(p)) < PerPrincipal
    /\ next_serial <= Serials /\ (role = "application" => next_stack <= MaxStack)
    /\ surfaces' = put_in(surfaces, make_display_object_value(next_serial),
            [owner |-> p, role |-> role, parent |-> parent, bounds |-> bounds, visible |-> FALSE,
             accepts |-> accepts, buffer |-> NoId, sequence |-> 0, has_frame |-> FALSE,
             stack |-> CASE role = "application" -> next_stack
                         [] role = "popup" -> surfaces[parent].stack
                         [] OTHER -> 0])
    /\ next_serial' = next_serial + 1
    /\ next_stack' = next_stack + (IF role = "application" THEN 1 ELSE 0)
    /\ UNCHANGED <<dead, buffers, next_buffer, generation, hit>>

find_owned_slot(p, s) == note_client(p) /\ s \in owned(p)

destroy_surface(p, s) ==
    /\ find_owned_slot(p, s)
    /\ surfaces' = only(surfaces, DOMAIN surfaces \ (children(s) \cup {s}))
    /\ UNCHANGED <<dead, buffers, next_serial, next_buffer, next_stack, generation, hit>>

set_bounds(p, s, bounds) ==
    /\ find_owned_slot(p, s)
    /\ surfaces' = [surfaces EXCEPT ![s].bounds = bounds, ![s].buffer = NoId, ![s].has_frame = FALSE]
    /\ UNCHANGED <<dead, buffers, next_serial, next_buffer, next_stack, generation, hit>>

set_visibility(p, s, visible) ==
    /\ find_owned_slot(p, s)
    /\ surfaces' = [surfaces EXCEPT ![s].visible = visible]
    /\ UNCHANGED <<dead, buffers, next_serial, next_buffer, next_stack, generation, hit>>

(* Mutant: the popups stay where they were.                                  *)
raised_alone(s) == [surfaces EXCEPT ![s].stack = next_stack]

raised(s) ==
    [t \in DOMAIN surfaces |->
        IF t \in children(s) \cup {s} THEN [surfaces[t] EXCEPT !.stack = next_stack] ELSE surfaces[t]]

(* Over the public endpoint, where the caller must be the shell, or over the *)
(* private one, where it also says whose surface it means.                   *)
activate_application(s) ==
    /\ note_client("shell")
    /\ s \in DOMAIN surfaces /\ surfaces[s].role = "application" /\ next_stack <= MaxStack
    /\ surfaces' = raised(s) /\ next_stack' = next_stack + 1
    /\ UNCHANGED <<dead, buffers, next_serial, next_buffer, generation, hit>>

activate_application_exact(expected_owner, s) ==
    /\ "shell" \notin dead /\ clients \cap dead = {}
    /\ s \in DOMAIN surfaces /\ surfaces[s].role = "application" /\ surfaces[s].owner = expected_owner
    /\ next_stack <= MaxStack
    /\ surfaces' = raised(s) /\ next_stack' = next_stack + 1
    /\ UNCHANGED <<clients, dead, buffers, next_serial, next_buffer, generation, hit>>
---------------------------------------------------------------------------
(* SharedBufferPool.                                                         *)
allocate(p, size) ==
    /\ note_client(p)
    /\ Cardinality(DOMAIN buffers) < MaxBuffers /\ next_buffer <= Serials
    /\ Cardinality({b \in DOMAIN buffers : buffers[b].owner = p}) < BuffersPerPrincipal
    /\ buffers' = put_in(buffers, make_display_object_value(next_buffer), [owner |-> p, size |-> size])
    /\ next_buffer' = next_buffer + 1
    /\ UNCHANGED <<dead, surfaces, next_serial, next_stack, generation, hit>>

(* Mutant: the scene is not told.                                            *)
invalidate_nothing(b) == surfaces

invalidate_buffer(b) ==
    [s \in DOMAIN surfaces |->
        IF surfaces[s].buffer = b THEN [surfaces[s] EXCEPT !.buffer = NoId, !.has_frame = FALSE] ELSE surfaces[s]]

release(p, b) ==
    /\ note_client(p)
    /\ b \in DOMAIN buffers /\ buffers[b].owner = p
    /\ buffers' = only(buffers, DOMAIN buffers \ {b})
    /\ surfaces' = invalidate_buffer(b)
    /\ UNCHANGED <<dead, next_serial, next_buffer, next_stack, generation, hit>>

lookup_owned(p, b) == b \in DOMAIN buffers /\ buffers[b].owner = p

buffer_fits(p, s, b) == lookup_owned(p, b) /\ buffers[b].size = Cardinality(surfaces[s].bounds)

submit_frame(p, s, b, sequence) ==
    /\ find_owned_slot(p, s) /\ buffer_fits(p, s, b)
    /\ sequence > surfaces[s].sequence
    /\ surfaces' = [surfaces EXCEPT ![s].buffer = b, ![s].sequence = sequence, ![s].has_frame = TRUE]
    /\ UNCHANGED <<dead, buffers, next_serial, next_buffer, next_stack, generation, hit>>
---------------------------------------------------------------------------
(* The input service: where does this point go, and may it still go there.   *)
trusted_presentation_for_role(role) == IF role \in {"system_chrome", "secure_system"} THEN role ELSE "none"

encode_input_hit(s, x) ==
    [surface |-> s, owner |-> surfaces[s].owner, role |-> surfaces[s].role,
     size |-> Cardinality(surfaces[s].bounds), sequence |-> surfaces[s].sequence,
     local |-> x - Min(surfaces[s].bounds), aimed |-> x,
     trusted |-> trusted_presentation_for_role(surfaces[s].role)]

decode_input_hit(h) == h # NoHit /\ h.trusted = trusted_presentation_for_role(h.role)

hit_test_input(x) ==
    LET S == {s \in drawn_at(x) : surfaces[s].accepts}
        s == topmost(S)
    IN /\ hit = NoHit /\ note_client("input")
       /\ S # {} /\ ~obscured_above(s, x)
       /\ hit' = encode_input_hit(s, x)
       /\ UNCHANGED <<dead, surfaces, buffers, next_serial, next_buffer, next_stack, generation>>

same_surface(h) ==
    /\ h.surface \in DOMAIN surfaces
    /\ LET s == surfaces[h.surface] IN
       /\ s.owner = h.owner /\ s.role = h.role /\ s.accepts /\ drawn(h.surface)
       /\ s.sequence = h.sequence /\ Cardinality(s.bounds) = h.size
       /\ h.trusted = trusted_presentation_for_role(s.role)

(* Mutant: the scene above the surface is not looked at again.               *)
validate_surface_only(h) == same_surface(h)

validate_input_hit(h) ==
    same_surface(h) /\ ~obscured_above(h.surface, Min(surfaces[h.surface].bounds) + h.local)

validate_before_delivery ==
    /\ decode_input_hit(hit) /\ note_client("input")
    /\ hit' = NoHit
    /\ UNCHANGED <<dead, surfaces, buffers, next_serial, next_buffer, next_stack, generation>>
---------------------------------------------------------------------------
process_dies(p) ==
    /\ p \in (Mortal \cap clients) \ dead
    /\ dead' = dead \cup {p}
    /\ UNCHANGED <<clients, surfaces, buffers, next_serial, next_buffer, next_stack, generation, hit>>

prune_dead_clients ==
    /\ clients \cap dead # {}
    /\ clients' = clients \ dead
    /\ surfaces' = only(surfaces, {s \in DOMAIN surfaces : surfaces[s].owner \notin clients \cap dead})
    /\ buffers' = only(buffers, {b \in DOMAIN buffers : buffers[b].owner \notin clients \cap dead})
    /\ UNCHANGED <<dead, next_serial, next_buffer, next_stack, generation, hit>>

restart_compositor ==
    /\ generation < MaxDisplayGeneration
    /\ generation' = generation + 1
    /\ clients' = {} /\ surfaces' = <<>> /\ buffers' = <<>>
    /\ next_serial' = 1 /\ next_buffer' = 1 /\ next_stack' = 1
    /\ UNCHANGED <<dead, hit>>

dispatch_surface(p) ==
    \/ \E role \in asked_for(p), parent \in DOMAIN surfaces \cup {NoId}, bounds \in Rect,
          accepts \in (IF p = "shell" THEN BOOLEAN ELSE {TRUE}) :
          create_surface(p, role, parent, bounds, accepts)
    \/ \E s \in DOMAIN surfaces :
          \/ destroy_surface(p, s)
          \/ \E visible \in BOOLEAN : set_visibility(p, s, visible)
          \/ \E bounds \in Rect : set_bounds(p, s, bounds)

dispatch_buffer(p) ==
    \/ allocate(p, Length)
    \/ \E b \in DOMAIN buffers :
          \/ release(p, b)
          \/ \E s \in DOMAIN surfaces, sequence \in 1 .. MaxFrame : submit_frame(p, s, b, sequence)

dispatch_input == validate_before_delivery \/ \E x \in 1 .. Width : hit_test_input(x)

client_calls(p) == dispatch_surface(p) \/ dispatch_buffer(p)

shell_calls == \E s \in DOMAIN surfaces, p \in Client : activate_application_exact(p, s)

DisplayNext ==
    \/ prune_dead_clients \/ restart_compositor \/ dispatch_input \/ shell_calls
    \/ \E s \in DOMAIN surfaces : activate_application(s)
    \/ \E p \in Client : process_dies(p) \/ client_calls(p)

DisplaySpec == DisplayInit /\ [][DisplayNext]_display_vars
---------------------------------------------------------------------------
(* What is on the screen is backed: a presented surface has a live buffer of *)
(* its own owner and size, its owner is watched, so that its death will be   *)
(* noticed, and a popup stands with the application it belongs to.           *)
SceneIsBacked ==
    \A s \in DOMAIN surfaces : LET x == surfaces[s] IN
        /\ x.owner \in clients /\ x.has_frame = (x.buffer # NoId)
        /\ x.has_frame => lookup_owned(x.owner, x.buffer) /\ buffers[x.buffer].size = Cardinality(x.bounds)
        /\ x.role = "popup" => /\ x.parent \in DOMAIN surfaces /\ x.stack = surfaces[x.parent].stack
                               /\ surfaces[x.parent].owner = x.owner

(* An input event is delivered to whom the user looked at: when a hit passes *)
(* its second test, the point that was aimed at still is the same point of   *)
(* the same surface, and what is drawn on top there belongs to its owner.    *)
InputGoesWhereAimed ==
    [][validate_before_delivery /\ validate_input_hit(hit) =>
        /\ Min(surfaces[hit.surface].bounds) + hit.local = hit.aimed
        /\ surfaces[topmost(drawn_at(hit.aimed))].owner = hit.owner]_display_vars
=============================================================================
