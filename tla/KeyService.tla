---------------------------- MODULE KeyService ----------------------------
(***************************************************************************)
(* The Key service: the registry of keys and their versions (core/oskeys), *)
(* its snapshot, the application policy in front of it and the objects     *)
(* clients hold (system/services/keys).  One process serves one request at *)
(* a time; it may be killed, and the power cut, inside or between them.    *)
(*                                                                         *)
(* Key material lives in a provider, which gives the process a reference   *)
(* to it and the snapshot a blob the next process gets a new reference     *)
(* for.  A piece of material has a number; a record holds the material of  *)
(* its versions in order: version v of key k is keys[k].material[v].       *)
(***************************************************************************)
EXTENDS Integers, FiniteSets, Sequences, Functions, Snapshot

CONSTANTS KeyOwner, KeyId,
          MaxVersions,   \* max_key_versions
          MaxKeys,       \* max_key_records
          MaxObjects,    \* max_key_objects
          MaxRoots,      \* max_application_roots
          MaxMaterial    \* bound: pieces of material the provider generates

VARIABLES serving,       \* the service process is running
          keys,          \* the registry in memory
          key_file,      \* its snapshot
          material,      \* the next number the provider gives out
          dropped,       \* material whose reference the provider destroyed
          enabled,       \* ApplicationKeyPolicy: owners admitted
          roots,         \* KeyHierarchy: owners with an application root
          objects,       \* object endpoints: slot -> [id, owner]
          undo,          \* the key created for a request that failed since
          sealed,        \* history: ciphertexts handed out, [id, version, number]
          gone           \* history: keys whose destruction was acknowledged

key_vars == <<serving, keys, key_file, material, dropped, enabled, roots, objects, undo, sealed, gone>>

nobody == "nobody"
no_key == "none"

ASSUME KeyConstants == nobody \notin KeyOwner /\ no_key \notin KeyId /\ MaxObjects \in Nat

Unused == [owner |-> nobody, material |-> <<>>, destroyed |-> FALSE]
NoKeys == [k \in KeyId |-> Unused]
NoObject == [id |-> no_key, owner |-> nobody]
NoObjects == [i \in 1..MaxObjects |-> NoObject]

find(r, k) == r[k].owner # nobody
record_count(r) == Cardinality({k \in KeyId : find(r, k)})

(* authorize_record(): every key is created with all rights.                *)
authorize_record(o, k) == keys[k].owner = o /\ ~keys[k].destroyed

KeyInit ==
    /\ serving = TRUE
    /\ keys = NoKeys /\ key_file = new_file(NoKeys)
    /\ material = 1 /\ dropped = {}
    /\ enabled = {} /\ roots = {} /\ objects = NoObjects /\ undo = no_key
    /\ sealed = {} /\ gone = {}

(* The candidates the operations persist.                                   *)
adopt_generated(o, k) == [keys EXCEPT ![k] = [owner |-> o, material |-> <<material>>, destroyed |-> FALSE]]

rotate_adopt_generated(k) == [keys EXCEPT ![k].material = Append(@, material)]

tombstone(k) == [keys EXCEPT ![k].destroyed = TRUE, ![k].material = <<>>]

idle == serving /\ undo = no_key

(* What the process holds in memory goes with it.                           *)
ends ==
    /\ serving' = FALSE /\ keys' = NoKeys /\ dropped' = {}
    /\ enabled' = {} /\ roots' = {} /\ objects' = NoObjects /\ undo' = no_key

(* Mutant: the old registry is kept when the directory sync fails.          *)
persist_unadopted(candidate, how, instead, after) ==
    /\ key_file' = written(key_file, candidate, how)
    /\ IF ended(how) THEN ends
       ELSE /\ keys' = IF how = "synced" THEN candidate ELSE keys
            /\ dropped' = dropped \cup (IF how = "synced" THEN after ELSE instead)
            /\ UNCHANGED <<serving, enabled, roots>>

(* persist_candidate() and what its callers do with it: once the snapshot   *)
(* was replaced the candidate is kept in memory, whatever the sync said,    *)
(* and the references "after" are destroyed; before that, "instead".        *)
persist(candidate, how, instead, after) ==
    /\ key_file' = written(key_file, candidate, how)
    /\ IF ended(how) THEN ends
       ELSE /\ keys' = IF replaces(how) THEN candidate ELSE keys
            /\ dropped' = dropped \cup (IF replaces(how) THEN after ELSE instead)
            /\ UNCHANGED <<serving, enabled, roots>>

(* allocate_slot() takes the first of these.                                *)
free_object == {i \in 1..MaxObjects : objects[i] = NoObject}

First(S) == CHOOSE i \in S : \A j \in S : i <= j

(***************************************************************************)
(* Requests on the service's main endpoint.                                *)
(***************************************************************************)
(* key_create_operation: the key is persisted, then an object is made       *)
(* for it; when there is none left, or the answer cannot be sent, the key   *)
(* is destroyed again.                                                      *)
create(o, k) ==
    /\ idle /\ o \in enabled
    /\ ~find(keys, k) /\ record_count(keys) < MaxKeys /\ material <= MaxMaterial
    /\ material' = material + 1
    /\ \E how \in outcomes(key_file) :
          /\ persist(adopt_generated(o, k), how, {material}, {})
          /\ how = "synced" =>
                \/ /\ free_object # {}
                   /\ objects' = [objects EXCEPT ![First(free_object)] = [id |-> k, owner |-> o]]
                   /\ undo' = no_key
                \/ undo' = k /\ objects' = objects
          /\ how \in {"failed", "unsynced"} => UNCHANGED <<objects, undo>>
    /\ UNCHANGED <<sealed, gone>>

open(o, k) ==
    /\ idle /\ o \in enabled /\ authorize_record(o, k)
    /\ free_object # {}
    /\ objects' = [objects EXCEPT ![First(free_object)] = [id |-> k, owner |-> o]]
    /\ UNCHANGED <<serving, keys, key_file, material, dropped, enabled, roots, undo, sealed, gone>>

(***************************************************************************)
(* Requests on an object.                                                  *)
(***************************************************************************)
held(i) ==
    /\ objects[i] # NoObject /\ objects[i].owner \in enabled
    /\ authorize_record(objects[i].owner, objects[i].id)

(* destroy(): the tombstone is persisted first, then the references to the  *)
(* material are destroyed, which the provider may fail to do.  Ciphertexts  *)
(* under the key are given up with the snapshot that still had it.          *)
destroy_key(k, how) ==
    /\ \E lost \in {{}, Range(keys[k].material)} :
          persist(tombstone(k), how, {}, lost)
    /\ sealed' = IF replaces(how) THEN {c \in sealed : c.id # k} ELSE sealed
    /\ gone' = IF how = "synced" THEN gone \cup {k} ELSE gone

destroy(i) ==
    /\ idle /\ held(i)
    /\ \E how \in outcomes(key_file) :
          /\ destroy_key(objects[i].id, how)
          /\ objects' = IF ended(how) THEN NoObjects
                        ELSE IF how = "synced"
                             THEN [j \in 1..MaxObjects |-> IF objects[j].id = objects[i].id
                                                           THEN NoObject ELSE objects[j]]
                             ELSE objects
          /\ undo' = no_key
    /\ UNCHANGED material

(* The second half of a create() that could not be answered.  The result of *)
(* this destroy() is discarded; a failed answer ends the service loop.      *)
undo_create ==
    /\ serving /\ undo # no_key
    /\ \E how \in outcomes(key_file) :
          /\ destroy_key(undo, how)
          /\ ~ended(how) => UNCHANGED objects
          /\ undo' = no_key
    /\ UNCHANGED material

rotate(i) ==
    /\ idle /\ held(i) /\ material <= MaxMaterial
    /\ Len(keys[objects[i].id].material) < MaxVersions
    /\ material' = material + 1
    /\ \E how \in outcomes(key_file) :
          /\ persist(rotate_adopt_generated(objects[i].id), how, {material}, {})
          /\ ~ended(how) => UNCHANGED <<objects, undo>>
    /\ UNCHANGED <<sealed, gone>>

(* The current version is looked up again before every seal.                *)
seal(k) == [id |-> k, version |-> Len(keys[k].material), number |-> keys[k].material[Len(keys[k].material)]]

encrypt(i) ==
    /\ idle /\ held(i)
    /\ sealed' = sealed \cup {seal(objects[i].id)}
    /\ UNCHANGED <<serving, keys, key_file, material, dropped, enabled, roots, objects, undo, gone>>

(* The client closed its end of the object.                                 *)
clear_slot(i) ==
    /\ idle /\ objects[i] # NoObject
    /\ objects' = [objects EXCEPT ![i] = NoObject]
    /\ UNCHANGED <<serving, keys, key_file, material, dropped, enabled, roots, undo, sealed, gone>>

(***************************************************************************)
(* Requests on the control channel.                                        *)
(***************************************************************************)
(* The root an owner was given stays when the owner is disabled.  So the    *)
(* enabled owners are among those with a root, both tables hold 64 entries, *)
(* and ensure_application() has refused a principal of two users: what it   *)
(* admits policy.enable() never refuses.                                    *)
enable_application(o) ==
    /\ idle
    /\ o \in roots \/ Cardinality(roots) < MaxRoots
    /\ roots' = roots \cup {o}
    /\ enabled' = enabled \cup {o}
    /\ UNCHANGED <<serving, keys, key_file, material, dropped, objects, undo, sealed, gone>>

disable_application(o) ==
    /\ idle /\ o \in enabled
    /\ enabled' = enabled \ {o}
    /\ objects' = [i \in 1..MaxObjects |-> IF objects[i].owner = o THEN NoObject ELSE objects[i]]
    /\ UNCHANGED <<serving, keys, key_file, material, dropped, roots, undo, sealed, gone>>

(***************************************************************************)
(* The process.                                                            *)
(***************************************************************************)
start_service ==
    /\ ~serving
    /\ serving' = TRUE /\ keys' = key_file.seen
    /\ key_file' = opened(key_file)
    /\ UNCHANGED <<material, dropped, enabled, roots, objects, undo, sealed, gone>>

(* Killed, or at the end of its loop because an answer found no receiver.   *)
ServiceEnds ==
    /\ serving /\ ends
    /\ UNCHANGED <<key_file, material, sealed, gone>>

KeyPowerCut ==
    /\ ends
    /\ \E s \in key_file.cut : key_file' = after_power_cut(key_file, s)
    /\ UNCHANGED <<material, sealed, gone>>

KeyNext ==
    \/ \E o \in KeyOwner, k \in KeyId : create(o, k) \/ open(o, k)
    \/ \E i \in 1..MaxObjects : destroy(i) \/ rotate(i) \/ encrypt(i) \/ clear_slot(i)
    \/ \E o \in KeyOwner : enable_application(o) \/ disable_application(o)
    \/ undo_create \/ start_service \/ ServiceEnds \/ KeyPowerCut

KeySpec == KeyInit /\ [][KeyNext]_key_vars

(***************************************************************************)
(* Properties.                                                             *)
(***************************************************************************)
readable(r, c) ==
    /\ c.version <= Len(r[c.id].material)
    /\ r[c.id].material[c.version] = c.number

(* The snapshots a process may find: the visible one and, as long as no     *)
(* rename was relied on before the directory was synced, every snapshot a   *)
(* power cut may leave.                                                     *)
may_find(f) == {f.seen} \cup (IF f.doubt = "none" THEN f.cut ELSE {})

(* Every ciphertext the service handed out, whatever was rotated, crashed   *)
(* or failed since, names a version that memory and snapshot still hold     *)
(* with the same material and a live reference, until its key is destroyed; *)
(* a key destroyed with success never comes back to life.  A power cut may  *)
(* undo both once somebody went on after a directory sync that failed, or   *)
(* that a crash left out (persist_candidate(), rotate, destroy).            *)
KeysAreKept ==
    key_file.doubt # "exposed" =>
        \A r \in may_find(key_file) \cup (IF serving THEN {keys} ELSE {}) :
            /\ \A c \in sealed : readable(r, c) /\ c.number \notin dropped
            /\ \A k \in gone : r[k].destroyed
===========================================================================
