--------------------------- MODULE AddressSpaces ---------------------------
(***************************************************************************)
(* The kernel half of address spaces (kernel.cpp, address_space_epoch.cpp, *)
(* memory_grant.cpp, executable_region.cpp, process_translation.cpp) and   *)
(* the system calls of the boot image that join it to the machine half.    *)
(* The image first builds one space itself ("boot", object 0 of Space) and *)
(* admits a thread to it; then user threads create, furnish and destroy    *)
(* spaces from a fixed pool.  Capabilities are the ones the image mints:   *)
(* who holds what, over which object, with which rights.                   *)
(***************************************************************************)
EXTENDS MappingState, FiniteSetsExt

CONSTANTS Thread,           \* threads that make system calls
          Pool,             \* el0_address_spaces, a set of integers from 1
          EpochSlot,        \* 1..max_address_space_epochs
          GrantSlot,
          MaxGeneration,    \* bound: lifetimes of one epoch or grant slot
          MaxCapabilities,  \* capability table size
          MaxIssued,        \* bound: thread identifiers issued
          KernelFrame, KernelPage,           \* the one entry of the mapping manifest
          BootFrames, ProgramFrames,         \* frames boot donates, and maps
          DonateFrame, MapFrame              \* where the two grants begin

VARIABLES phase,            \* "boot", then "run"
          epoch,            \* AddressSpaceEpochAuthority: slot -> state, generation
          caps,             \* who holds which rights over which object
          grants,           \* MemoryGrantAuthority
          regions,          \* ExecutableRegionTable: a set of [space, base]
          bindings,         \* ProcessTranslationTable: a set of [thread, space, entry]
          pool,             \* El0AddressSpaceSlot: occupied and identity
          boot_id,          \* c_identity
          sealed_at,        \* entry bound in the sealed root of the boot space, or 0
          issued            \* thread identifiers issued

kernel_vars == <<phase, epoch, caps, grants, regions, bindings, pool, boot_id, sealed_at, issued>>
as_vars == <<machine_vars, kernel_vars>>

Image == 0
KernelSpaces == -1          \* the spaces of the processes boot itself runs
NoId == <<0, 0>>
Authority == <<"authority">>
SpaceObject(id) == <<"space", id>>
GrantObject(id) == <<"grant", id>>

AddressSpaceConstants ==
    /\ Space = Pool \cup {Image} /\ Image \notin Pool
    /\ KernelFrame \in Frame /\ DonateFrame \in Frame /\ MapFrame \in Frame

holds(t, object, right) == \E c \in caps : c.holder = t /\ c.object = object /\ right \in c.rights

(* AddressSpaceEpochAuthority.                                              *)
resolve(id) == id[1] \in EpochSlot /\ epoch[id[1]] = [state |-> "active", generation |-> id[2]]
free_epochs == {e \in EpochSlot : epoch[e].state = "free"}
acquired(e) == <<e, epoch[e].generation + 1>>
can_acquire == free_epochs # {} /\ epoch[Min(free_epochs)].generation < MaxGeneration

(* MemoryGrantAuthority::resolve, memory_for_capability.                    *)
grant_id(g) == <<g, grants[g].generation>>
memory_for_capability(t, g, right) == grants[g].live /\ holds(t, GrantObject(grant_id(g)), right)

mint_allowed == Cardinality(caps) < MaxCapabilities
creator_rights == {"hold", "destroy", "admit"}
minted(t, id) == [holder |-> t, object |-> SpaceObject(id), rights |-> creator_rights]

ASInit ==
    LET a == Min(Thread) grant(i) == <<i, 1>> IN
    /\ sp = [s \in Space |-> Unbound]
    /\ ledger = EmptyBag
    /\ resv = {reservation(KernelSpaces, KernelFrame, 1, "kernel_private")}
    /\ written = {} /\ trapped = FALSE
    /\ phase = "boot"
    /\ epoch = [e \in EpochSlot |-> [state |-> "free", generation |-> 0]]
    /\ grants = [g \in GrantSlot |->
                    IF g = 1 THEN [live |-> TRUE, generation |-> 1, base |-> DonateFrame, length |-> 1]
                    ELSE [live |-> TRUE, generation |-> 1, base |-> MapFrame, length |-> 2]]
    /\ caps = {[holder |-> a, object |-> Authority, rights |-> {"create"}],
               [holder |-> a, object |-> GrantObject(grant(1)), rights |-> {"donate"}]}
              \cup {[holder |-> t, object |-> GrantObject(grant(2)), rights |-> {"map"}] : t \in Thread}
    /\ regions = {} /\ bindings = {} /\ issued = 0
    /\ pool = [s \in Pool |-> [occupied |-> FALSE, id |-> NoId]]
    /\ boot_id = NoId /\ sealed_at = 0
---------------------------------------------------------------------------
(* Kernel::address_space_create: what it leaves in the two tables when the   *)
(* authority is held, and when the capability cannot be minted.              *)
kernel_create_allowed(t) == holds(t, Authority, "create") /\ can_acquire

kernel_create(t) ==
    LET e == Min(free_epochs) IN
    /\ epoch' = [epoch EXCEPT ![e] = [state |-> IF mint_allowed THEN "active" ELSE "free",
                                      generation |-> @.generation + 1]]
    /\ caps' = IF mint_allowed THEN caps \cup {minted(t, acquired(e))} ELSE caps

(* What the boot routine does while no process runs: it creates its space,   *)
(* donates frames in order, builds the root, replays the kernel's mapping    *)
(* and maps program and stack, and seals.                                    *)
boot_create ==
    LET a == Min(Thread) IN
    /\ phase = "boot" /\ boot_id = NoId /\ kernel_create_allowed(a) /\ mint_allowed
    /\ ~sp[Image].bound
    /\ sp' = [sp EXCEPT ![Image] = bind(Unbound)]
    /\ kernel_create(a)
    /\ boot_id' = acquired(Min(free_epochs))
    /\ UNCHANGED <<ledger, resv, written, trapped, phase, grants, regions, bindings, pool, sealed_at, issued>>

donate_table_page ==
    LET f == Min(BootFrames \ owned_frames(Image)) IN
    /\ phase = "boot" /\ sp[Image].bound /\ sp[Image].life = "uninitialized"
    /\ BootFrames \ owned_frames(Image) # {}
    /\ reserve_allowed(Image, f, 1, "kernel_private")
    /\ resv' = resv \cup {reservation(Image, f, 1, "kernel_private")}
    /\ sp' = [sp EXCEPT ![Image] = donate(@, f)]
    /\ UNCHANGED <<ledger, written, trapped, kernel_vars>>

initialize_translation_root ==
    /\ phase = "boot" /\ sp[Image].bound /\ sp[Image].life = "uninitialized" /\ sp[Image].arena # <<>>
    /\ sp' = [sp EXCEPT ![Image] = initialize(@)]
    /\ UNCHANGED <<ledger, resv, written, trapped, kernel_vars>>

boot_map(v, f, perm, user, stack) ==
    /\ phase = "boot" /\ sp[Image].life = "building"
    /\ stack # "none" => require_guard_page(Image, v)
    /\ map_impl(Image, v, f, 1, perm, user, stack, FALSE)
    /\ UNCHANGED kernel_vars

replay_kernel_mapping_manifest == boot_map(KernelPage, KernelFrame, "rw", FALSE, "kernel")
map_user_stack(v, f) == boot_map(v, f, "rw", TRUE, "user")

(* Boot maps the program and records the region it makes executable.         *)
map_program(v, f) ==
    /\ phase = "boot" /\ sp[Image].life = "building"
    /\ ~\E r \in regions : r.space = boot_id
    /\ map_impl(Image, v, f, 1, "rx", TRUE, "none", FALSE)
    /\ regions' = regions \cup {[space |-> boot_id, base |-> v]}
    /\ UNCHANGED <<phase, epoch, caps, grants, bindings, pool, boot_id, sealed_at, issued>>

(* TranslationRootSealer::seal.                                              *)
seal(entry) ==
    /\ phase = "boot" /\ sp[Image].life = "building" /\ sealed_at = 0
    /\ sp' = [sp EXCEPT ![Image].life = "sealed"]
    /\ sealed_at' = entry
    /\ UNCHANGED <<ledger, resv, written, trapped, phase, epoch, caps, grants, regions, bindings, pool,
                   boot_id, issued>>

(* Kernel::thread_admit with the root that was sealed.  The identifier is    *)
(* issued before the binding can be refused, and is not given back.          *)
thread_admit(t) ==
    /\ phase = "boot" /\ boot_id # NoId /\ sealed_at # 0
    /\ holds(t, SpaceObject(boot_id), "admit") /\ resolve(boot_id)
    /\ \E r \in regions : r.space = boot_id /\ r.base = sealed_at
    /\ issued < MaxIssued
    /\ issued' = issued + 1
    /\ bindings' = IF \E b \in bindings : b.space = boot_id THEN bindings
                   ELSE bindings \cup {[thread |-> issued + 1, space |-> boot_id, entry |-> sealed_at]}
    /\ UNCHANGED <<machine_vars, phase, epoch, caps, grants, regions, pool, boot_id, sealed_at>>

(* Boot hands a second thread the right to furnish the space, and starts.    *)
start_processes ==
    /\ phase = "boot"
    /\ phase' = "run"
    /\ caps' = caps \cup (IF boot_id = NoId THEN {} ELSE
                   {[holder |-> Max(Thread), object |-> SpaceObject(boot_id), rights |-> {"hold"}]})
    /\ UNCHANGED <<machine_vars, epoch, grants, regions, bindings, pool, boot_id, sealed_at, issued>>
---------------------------------------------------------------------------
free_slots == {s \in Pool : ~pool[s].occupied}
fresh(s) == [Unbound EXCEPT !.bound = sp[s].bound]
rooted(f) == initialize(donate(bind(Unbound), f))

(* The address_space_create system call: arena and builder of the slot are   *)
(* reset, the space is bound, the caller's frame becomes its root, and only  *)
(* then is the kernel asked.  Each step may refuse, and what was done before *)
(* it stays.                                                                 *)
address_space_create(t, g) ==
    /\ phase = "run" /\ free_slots # {} /\ memory_for_capability(t, g, "donate")
    /\ LET s == Min(free_slots)
           f == grants[g].base
           takes_root == ~sp[s].bound /\ reserve_allowed(s, f, 1, "kernel_private")
           e == Min(free_epochs)
       IN \/ /\ sp[s].bound
             /\ sp' = [sp EXCEPT ![s] = fresh(s)]
             /\ UNCHANGED <<resv, epoch, caps, pool>>
          \/ /\ ~sp[s].bound /\ ~takes_root
             /\ sp' = [sp EXCEPT ![s] = bind(Unbound)]
             /\ UNCHANGED <<resv, epoch, caps, pool>>
          \/ /\ takes_root
             /\ sp' = [sp EXCEPT ![s] = rooted(f)]
             /\ resv' = resv \cup {reservation(s, f, 1, "kernel_private")}
             /\ IF ~kernel_create_allowed(t) THEN UNCHANGED <<epoch, caps, pool>>
                ELSE /\ kernel_create(t)
                     /\ pool' = IF mint_allowed THEN [pool EXCEPT ![s] = [occupied |-> TRUE, id |-> acquired(e)]]
                                ELSE pool
    /\ UNCHANGED <<ledger, written, trapped, phase, grants, regions, bindings, boot_id, sealed_at, issued>>

(* Two-phase destruction: the epoch is retired first; the machine tears the  *)
(* space down; only then is the ASID free again and the capability revoked.  *)
retire_only(id) ==
    /\ epoch' = [epoch EXCEPT ![id[1]].state = "retiring"]
    /\ UNCHANGED <<machine_vars, phase, caps, grants, regions, bindings, pool, boot_id, sealed_at, issued>>

complete_destroy(t, id) ==
    /\ epoch' = [epoch EXCEPT ![id[1]].state = "free"]
    /\ caps' = caps \ {minted(t, id)}

(* Mutant: the ASID is released whether or not the machine let go.           *)
address_space_destroy_early(t, id) ==
    /\ phase = "run" /\ holds(t, SpaceObject(id), "destroy") /\ resolve(id)
    /\ LET slots == {s \in Pool : pool[s].occupied /\ pool[s].id = id} IN
       IF slots = {} \/ ~\A s \in slots : release_allowed(s)
       THEN /\ complete_destroy(t, id)
            /\ UNCHANGED <<machine_vars, phase, grants, regions, bindings, pool, boot_id, sealed_at, issued>>
       ELSE \E s \in slots :
            /\ release_address_space(s) /\ complete_destroy(t, id)
            /\ pool' = [pool EXCEPT ![s] = [occupied |-> FALSE, id |-> NoId]]
            /\ UNCHANGED <<phase, grants, regions, bindings, boot_id, sealed_at, issued>>

address_space_destroy(t, id) ==
    /\ phase = "run" /\ holds(t, SpaceObject(id), "destroy") /\ resolve(id)
    /\ LET slots == {s \in Pool : pool[s].occupied /\ pool[s].id = id} IN
       IF slots = {} \/ ~\A s \in slots : release_allowed(s)
       THEN retire_only(id)
       ELSE \E s \in slots :
            /\ release_address_space(s) /\ complete_destroy(t, id)
            /\ pool' = [pool EXCEPT ![s] = [occupied |-> FALSE, id |-> NoId]]
            /\ UNCHANGED <<phase, grants, regions, bindings, boot_id, sealed_at, issued>>

(* Boot destroys a space it built, by the same three calls.                  *)
boot_destroy ==
    LET a == Min(Thread) IN
    /\ phase = "boot" /\ boot_id # NoId /\ resolve(boot_id) /\ release_allowed(Image)
    /\ release_address_space(Image) /\ complete_destroy(a, boot_id)
    /\ boot_id' = NoId /\ sealed_at' = 0
    /\ UNCHANGED <<phase, grants, regions, bindings, pool, issued>>

(* machine_space_for.                                                        *)
machine_space_for(id) ==
    {s \in Pool : pool[s].occupied /\ pool[s].id = id} \cup (IF id = boot_id THEN {Image} ELSE {})

furnish_allowed(t, id, g) ==
    /\ holds(t, SpaceObject(id), "hold") /\ resolve(id)
    /\ memory_for_capability(t, g, "map")

(* Kernel::map_authorize: at most one executable region in the life of a     *)
(* space.                                                                    *)
map_authorize(t, id, g, perm) ==
    furnish_allowed(t, id, g) /\ (perm = "rx" => ~\E r \in regions : r.space = id)

(* Mutant: the executable region can be unmapped like any other.             *)
unmap_authorize_any(t, id, g, v) == furnish_allowed(t, id, g)

(* Kernel::unmap_authorize: the executable region stays.                     *)
unmap_authorize(t, id, g, v) ==
    furnish_allowed(t, id, g) /\ [space |-> id, base |-> v] \notin regions

(* The map system call: the whole of the grant, into absent translations     *)
(* only.                                                                     *)
map(t, id, g, v, perm) ==
    /\ phase = "run" /\ map_authorize(t, id, g, perm)
    /\ \E s \in machine_space_for(id) : map_impl(s, v, grants[g].base, grants[g].length, perm, TRUE, "none", TRUE)
    /\ regions' = IF perm = "rx" THEN regions \cup {[space |-> id, base |-> v]} ELSE regions
    /\ UNCHANGED <<phase, epoch, caps, grants, bindings, pool, boot_id, sealed_at, issued>>

unmap(t, id, g, v) ==
    /\ phase = "run" /\ unmap_authorize(t, id, g, v)
    /\ \E s \in machine_space_for(id) :
          /\ unmap_allowed(s, v, grants[g].length)
          /\ \E m \in sp[s].maps : m.at = v /\ m.length = grants[g].length /\ machine_unmap(s, m)
    /\ UNCHANGED kernel_vars

(* MemoryGrantAuthority::revoke and create: the slot's generation moves on,  *)
(* so capabilities over the old grant name nothing.                          *)
revoke_grant(g) ==
    /\ phase = "run" /\ grants[g].live
    /\ grants' = [grants EXCEPT ![g].live = FALSE]
    /\ UNCHANGED <<machine_vars, phase, epoch, caps, regions, bindings, pool, boot_id, sealed_at, issued>>

create_grant(g) ==
    LET t == Min(Thread) IN
    /\ phase = "run" /\ ~grants[g].live /\ grants[g].generation < MaxGeneration /\ mint_allowed
    /\ grants' = [grants EXCEPT ![g].live = TRUE, ![g].generation = @ + 1]
    /\ caps' = caps \cup {[holder |-> t, object |-> GrantObject(<<g, grants[g].generation + 1>>),
                            rights |-> {"map"}]}
    /\ UNCHANGED <<machine_vars, phase, epoch, regions, bindings, pool, boot_id, sealed_at, issued>>

Identities == {c.object[2] : c \in {x \in caps : x.object[1] = "space"}}

ASNext ==
    /\ ~trapped
    /\ \/ boot_create \/ donate_table_page \/ initialize_translation_root \/ boot_destroy \/ start_processes
       \/ replay_kernel_mapping_manifest
       \/ \E v \in VPage : seal(v)
       \/ \E v \in VPage, f \in ProgramFrames : map_user_stack(v, f) \/ map_program(v, f)
       \/ \E t \in Thread : thread_admit(t)
       \/ \E t \in Thread, g \in GrantSlot : address_space_create(t, g)
       \/ \E t \in Thread, id \in Identities :
             \/ address_space_destroy(t, id)
             \/ \E g \in GrantSlot, v \in VPage :
                   unmap(t, id, g, v) \/ \E perm \in Permission : map(t, id, g, v, perm)
       \/ \E g \in GrantSlot : revoke_grant(g) \/ create_grant(g)

ASSpec == ASInit /\ [][ASNext]_as_vars
---------------------------------------------------------------------------
(* A thread begins where its space's executable region begins, and as long   *)
(* as the space is live that region is what was mapped there: nothing        *)
(* unmaps it, remaps it or makes a second one.                               *)
EntryStaysExecutable ==
    /\ \A r \in regions : resolve(r.space) =>
          \A s \in machine_space_for(r.space) :
              /\ sp[s].leaf[r.base] # Absent /\ ~sp[s].leaf[r.base].uxn
              /\ \E m \in sp[s].maps : m.at = r.base /\ m.perm = "rx"
    /\ \A r, q \in regions : r.space = q.space => r = q
    /\ \A b \in bindings : resolve(b.space) => [space |-> b.space, base |-> b.entry] \in regions

(* A lifetime has one machine space and one ASID: a slot in use names an     *)
(* epoch that is active or quarantined, no two spaces name the same slot of  *)
(* the epoch table, and an ASID is free only when no bound space was built   *)
(* under it.                                                                 *)
LifetimesAreExclusive ==
    LET live == {s \in Pool : pool[s].occupied}
        id(s) == IF s = Image THEN boot_id ELSE pool[s].id
        named == live \cup (IF boot_id = NoId THEN {} ELSE {Image})
    IN /\ \A s \in named : /\ sp[s].bound
                            /\ epoch[id(s)[1]].generation = id(s)[2]
                            /\ epoch[id(s)[1]].state # "free"
       /\ \A s, r \in named : s # r => id(s)[1] # id(r)[1]

===========================================================================
