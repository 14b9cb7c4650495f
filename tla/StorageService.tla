-------------------------- MODULE StorageService --------------------------
(***************************************************************************)
(* system.storage (services/storage): applications open their private root *)
(* once and get a channel; every directory or file opened through one is   *)
(* another channel with its own rights.  The service holds a slot per      *)
(* channel; the application manager registers and unregisters roots over   *)
(* the control channel.  A volume is a tree of nodes.                      *)
(*                                                                         *)
(* A request and its dispatch are one step: the service serves one channel *)
(* at a time and a request is only read when it is served.  Its reply may  *)
(* meet a client that died in between, and that ends the service.          *)
(***************************************************************************)
EXTENDS Integers, Sequences, FiniteSets, FiniteSetsExt, SequencesExt

CONSTANTS Tenant,         \* (principal, user) pairs, numbered like the root node of their volume
          RootEntry,      \* max_private_roots
          ObjectSlot,     \* max_storage_objects
          PerPrincipal,   \* max_storage_objects_per_principal
          Name,
          MaxPath,        \* max_relative_path_bytes, in names
          Node

VARIABLES alive, identities, roots, slots, handles, fs

storage_vars == <<alive, identities, roots, slots, handles, fs>>

NoTenant == 0
NoSlot == [kind |-> "none", who |-> NoTenant]
Path == UNION {[1 .. k -> Name] : k \in 1 .. MaxPath}

directory_all == {"open_file_read", "open_file_write", "create_file", "open_directory",
                  "create_directory", "remove_file", "remove_directory", "atomic_replace"}
RequestedRights == {directory_all, {"open_file_read", "open_directory"}}
Options == [access : {"read_only", "write_only", "read_write"}, create : {"open_existing", "create_exclusive", "open_or_create"},
            truncate : BOOLEAN]

occupied(i) == slots[i].kind # "none"
is_directory(i) == slots[i].kind \in {"root", "directory"}
has_rights(i, r) == r \subseteq slots[i].rights

readable(o) == o.access # "write_only"
writable(o) == o.access # "read_only"

required_directory_rights(o) ==
    {r \in directory_all :
        \/ r = "open_file_read" /\ readable(o)
        \/ r = "open_file_write" /\ writable(o)
        \/ r = "create_file" /\ o.create # "open_existing"}

valid_options(o) == o.truncate => writable(o)

rights_for_file(o) == {"stat"} \cup (IF readable(o) THEN {"read"} ELSE {})
                              \cup (IF writable(o) THEN {"write", "sync"} ELSE {})
---------------------------------------------------------------------------
(* The file system under the service: each segment is opened in turn and   *)
(* links are never followed.  A removed directory keeps its node as long as *)
(* somebody holds it, and takes no new entry.                              *)
FreeNode == [kind |-> "none", owner |-> NoTenant, kids |-> [x \in Name |-> 0], linked |-> FALSE, data |-> 0]
NewNode(kind, w, v) == [FreeNode EXCEPT !.kind = kind, !.owner = w, !.linked = TRUE, !.data = v]

open_directory_from(n, p) ==
    LET step(m, x) == IF m = 0 THEN 0 ELSE IF fs[m].kind # "dir" THEN 0 ELSE fs[m].kids[x]
        d == FoldLeft(step, n, p)
    IN IF d # 0 /\ fs[d].kind = "dir" THEN d ELSE 0

resolve_parent(n, p) == open_directory_from(n, Front(p))

leaf_of(n, p) ==
    LET d == resolve_parent(n, p) IN IF d = 0 THEN 0 ELSE fs[d].kids[Last(p)]

free_nodes == {n \in Node : ~fs[n].linked /\ ~\E i \in ObjectSlot : occupied(i) /\ slots[i].node = n}

(* A new entry of a directory, and the loss of one.                         *)
linked_in(d, x, node) ==
    LET n == Min(free_nodes) IN [fs EXCEPT ![n] = node, ![d].kids[x] = n]

unlinked(d, x) == [fs EXCEPT ![d].kids[x] = 0, ![fs[d].kids[x]].linked = FALSE]

replaced(d, x, node) ==
    LET old == fs[d].kids[x] tree == linked_in(d, x, node) IN
    IF old = 0 THEN tree ELSE [tree EXCEPT ![old].linked = FALSE]

validate_existing_target(n) == n # 0 => fs[n].kind = "file"

empty_directory(n) == fs[n].kind = "dir" /\ \A x \in Name : fs[n].kids[x] = 0

can_create(d) == d # 0 /\ fs[d].linked /\ free_nodes # {}

(* Directory::open_file: the file there is, unless it must be new, or a new *)
(* one, unless it must exist; truncated when that was asked.                *)
volume_open_file(d, n, x, o) ==
    CASE n \in Node /\ fs[n].kind = "file" /\ o.create # "create_exclusive" ->
            {[tree |-> IF o.truncate THEN [fs EXCEPT ![n].data = 0] ELSE fs, node |-> n]}
      [] n = 0 /\ o.create # "open_existing" /\ can_create(d) ->
            {[tree |-> linked_in(d, x, NewNode("file", fs[d].owner, 0)), node |-> Min(free_nodes)]}
      [] OTHER -> {}
---------------------------------------------------------------------------
(* The root of a root slot is the registry entry, not the directory.    *)
base(i) == IF slots[i].kind = "root" THEN roots[slots[i].entry] ELSE slots[i].node

(* Mutant: the child's own view of the path is taken for its address.       *)
canonical_namespace_bare(i, p) == p

(* canonical_namespace_path with join_relative_paths.                       *)
canonical_namespace_path(i, p) == slots[i].ns \o p

path_fits(i, p) == Len(canonical_namespace_path(i, p)) <= MaxPath

owned(w) == {i \in ObjectSlot : slots[i].who = w}

free_object_slots == {i \in ObjectSlot : ~occupied(i)}

allocate_slot(w) == Cardinality(owned(w)) < PerPrincipal /\ free_object_slots # {}

(* The process ends when a reply meets a dead client: the error travels up  *)
(* to main, which takes it for the end of its own endpoint.                 *)
exits ==
    /\ alive' = FALSE
    /\ identities' = {}
    /\ roots' = [e \in RootEntry |-> NoTenant]
    /\ slots' = [i \in ObjectSlot |-> NoSlot]
    /\ handles' = [i \in ObjectSlot |-> {}]

(* send_rpc_response with the effect of the request on the volume, and the  *)
(* endpoint that is handed over with it.                                    *)
respond(tree, minted) ==
    /\ fs' = tree
    /\ \/ exits
       \/ /\ slots' = [i \in ObjectSlot |-> IF i \in DOMAIN minted THEN minted[i] ELSE slots[i]]
          /\ handles' = [i \in ObjectSlot |-> IF i \in DOMAIN minted THEN minted[i].rights ELSE handles[i]]
          /\ UNCHANGED <<alive, identities, roots>>

Refusal == <<>>        \* an answer without an endpoint

new_slot(slot) == [i \in {Min(free_object_slots)} |-> slot]
---------------------------------------------------------------------------
StorageInit ==
    /\ alive = TRUE /\ identities = {}
    /\ roots = [e \in RootEntry |-> NoTenant]
    /\ slots = [i \in ObjectSlot |-> NoSlot]
    /\ handles = [i \in ObjectSlot |-> {}]
    /\ fs = [n \in Node |-> IF n \in Tenant THEN NewNode("dir", n, 0) ELSE FreeNode]

(* The four operations of the control channel.                              *)
register_process(w) ==
    /\ alive /\ w \notin identities
    /\ identities' = identities \cup {w}
    /\ UNCHANGED <<alive, roots, slots, handles, fs>>

unregister_process(w) ==
    /\ alive /\ w \in identities
    /\ identities' = identities \ {w}
    /\ UNCHANGED <<alive, roots, slots, handles, fs>>

find_root(w) == {e \in RootEntry : roots[e] = w}
free_entries == find_root(NoTenant)

register_root(w) ==
    /\ alive /\ find_root(w) = {} /\ free_entries # {}
    /\ roots' = [roots EXCEPT ![Min(free_entries)] = w]
    /\ UNCHANGED <<alive, identities, slots, handles, fs>>

(* Mutant: what was opened below the root is closed, the root itself not.   *)
clear_children_for(w) == {i \in owned(w) : slots[i].kind # "root"}

clear_objects_for(w) == owned(w)

unregister_root(w) ==
    /\ alive /\ find_root(w) # {}
    /\ roots' = [e \in RootEntry |-> IF e \in find_root(w) THEN NoTenant ELSE roots[e]]
    /\ slots' = [i \in ObjectSlot |-> IF i \in clear_objects_for(w) THEN NoSlot ELSE slots[i]]
    /\ handles' = [i \in ObjectSlot |-> IF i \in clear_objects_for(w) THEN {} ELSE handles[i]]
    /\ UNCHANGED <<alive, identities, fs>>

restart ==
    /\ ~alive /\ alive' = TRUE
    /\ UNCHANGED <<identities, roots, slots, handles, fs>>
---------------------------------------------------------------------------
(* dispatch_main: storage_open_private_root_operation.                      *)
open_private_root(w) ==
    /\ alive /\ w \in identities
    /\ LET es == find_root(w) IN
       IF es # {} /\ allocate_slot(w)
       THEN respond(fs, new_slot([kind |-> "root", who |-> w, rights |-> directory_all, entry |-> Min(es),
                                  ns |-> <<>>, node |-> 0, via |-> directory_all]))
       ELSE respond(fs, Refusal)

(* A child of slot i: what is opened is opened before the slot is known to  *)
(* be free, and stays opened, created or truncated when there is none.      *)
open_child(i, p, kind, rights, tree, node) ==
    IF path_fits(i, p) /\ allocate_slot(slots[i].who)
    THEN respond(tree, new_slot([kind |-> kind, who |-> slots[i].who, rights |-> rights, entry |-> slots[i].entry,
                                 ns |-> canonical_namespace_path(i, p), node |-> node, via |-> slots[i].rights]))
    ELSE respond(tree, Refusal)

(* The client stubs ask for nothing the handle does not allow, and the      *)
(* service does not serve what the slot does not allow.                     *)
object_call(i) == handles[i] # {}
directory_call(i, r) == object_call(i) /\ r \subseteq handles[i]
file_call(i, r) == object_call(i) /\ r \subseteq handles[i]

dispatch_object(i, r) == alive /\ occupied(i) /\ has_rights(i, r)

asks(i, r) == directory_call(i, r) /\ dispatch_object(i, r) /\ is_directory(i) /\ base(i) # 0

open_file(i, p, o) ==
    LET outcomes == volume_open_file(resolve_parent(base(i), p), leaf_of(base(i), p), Last(p), o) IN
    /\ valid_options(o) /\ asks(i, required_directory_rights(o))
    /\ \/ outcomes = {} /\ respond(fs, Refusal)
       \/ \E f \in outcomes : open_child(i, p, "file", rights_for_file(o), f.tree, f.node)

open_directory(i, p, r) ==
    /\ asks(i, {"open_directory"} \cup r)
    /\ LET d == open_directory_from(base(i), p) IN
       IF d = 0 THEN respond(fs, Refusal) ELSE open_child(i, p, "directory", r, fs, d)

create_directory(i, p) ==
    /\ asks(i, {"create_directory"})
    /\ LET d == resolve_parent(base(i), p) IN
       /\ can_create(d) /\ leaf_of(base(i), p) = 0
       /\ respond(linked_in(d, Last(p), NewNode("dir", fs[d].owner, 0)), Refusal)

remove_file(i, p) ==
    /\ asks(i, {"remove_file"})
    /\ leaf_of(base(i), p) # 0 /\ fs[leaf_of(base(i), p)].kind = "file"
    /\ respond(unlinked(resolve_parent(base(i), p), Last(p)), Refusal)

remove_empty_directory(i, p) ==
    /\ asks(i, {"remove_directory"})
    /\ LET n == leaf_of(base(i), p) IN
       /\ n # 0 /\ empty_directory(n)
       /\ respond(unlinked(resolve_parent(base(i), p), Last(p)), Refusal)

(* Directory::atomic_replace: the temporary file becomes the entry, or      *)
(* nothing happened; an old file stays with who has it open.                *)
atomic_replace(i, p) ==
    /\ asks(i, {"atomic_replace"})
    /\ LET d == resolve_parent(base(i), p)
           n == leaf_of(base(i), p)
       IN /\ can_create(d) /\ validate_existing_target(n)
          /\ \/ respond(fs, Refusal)
             \/ respond(replaced(d, Last(p), NewNode("file", fs[d].owner, 1)), Refusal)

write_at(i) ==
    /\ file_call(i, {"write"}) /\ dispatch_object(i, {"write"}) /\ ~is_directory(i)
    /\ respond([fs EXCEPT ![slots[i].node].data = 1], Refusal)

(* A request that is not well formed is answered with an error.             *)
invalid_object_request(i) == object_call(i) /\ dispatch_object(i, {}) /\ respond(fs, Refusal)

(* Reading, the size and the sync of a file only answer.                    *)
read_at(i) ==
    /\ file_call(i, {"read"}) /\ dispatch_object(i, {"read"}) /\ ~is_directory(i)
    /\ respond(fs, Refusal)

size_or_sync(i) ==
    /\ \E r \in {"stat", "sync"} : file_call(i, {r}) /\ dispatch_object(i, {r})
    /\ ~is_directory(i) /\ respond(fs, Refusal)

(* A client drops a handle, and the service finds out when it polls.        *)
close(i) ==
    /\ occupied(i) /\ handles[i] # {}
    /\ handles' = [handles EXCEPT ![i] = {}]
    /\ UNCHANGED <<alive, identities, roots, slots, fs>>

clear_slot(i) ==
    /\ alive /\ occupied(i) /\ handles[i] = {}
    /\ slots' = [slots EXCEPT ![i] = NoSlot]
    /\ UNCHANGED <<alive, identities, roots, handles, fs>>

StorageNext ==
    \/ restart
    \/ \E w \in Tenant : \/ register_process(w) \/ unregister_process(w)
                         \/ register_root(w) \/ unregister_root(w) \/ open_private_root(w)
    \/ \E i \in ObjectSlot :
          \/ invalid_object_request(i) \/ write_at(i) \/ read_at(i) \/ size_or_sync(i)
          \/ close(i) \/ clear_slot(i)
          \/ \E p \in Path :
                \/ create_directory(i, p) \/ remove_file(i, p) \/ remove_empty_directory(i, p)
                \/ atomic_replace(i, p)
                \/ \E o \in Options : open_file(i, p, o)
                \/ \E r \in RequestedRights : open_directory(i, p, r)

StorageSpec == StorageInit /\ [][StorageNext]_storage_vars
---------------------------------------------------------------------------
(* What a channel reaches is what its application was given: its root is    *)
(* still registered, and for the same application; what it names lies in    *)
(* that application's volume, at the address the service remembers, as long *)
(* as the name exists; it grants nothing the channel it was opened through  *)
(* did not, the client believes the same, and the quota holds.              *)
HandlesAreConfined ==
    \A i \in ObjectSlot : occupied(i) =>
        LET s == slots[i] IN
        /\ roots[s.entry] = s.who
        /\ s.kind # "root" => /\ fs[s.node].owner = s.who
                              /\ fs[s.node].linked => FoldLeft(LAMBDA m, x : fs[m].kids[x], s.who, s.ns) = s.node
        /\ IF s.kind = "file" THEN "write" \in s.rights => "open_file_write" \in s.via
           ELSE s.rights \subseteq s.via
        /\ handles[i] \in {{}, s.rights}
        /\ Cardinality(owned(s.who)) <= PerPrincipal
===========================================================================
