--------------------------- MODULE ProtectedStore ---------------------------
(***************************************************************************)
(* Encrypted objects (core/osstorage, protected_xxx.cpp): a name selects an *)
(* object and its generation in a registry; a replacement writes the       *)
(* wrapped key, the ciphertext and a commit record of the next generation, *)
(* publishes the name and retires the old generation, and every step may   *)
(* fail or be the last one before a power cut.  The registry of a user is  *)
(* kept in a sealed snapshot, and a trusted counter says which snapshots   *)
(* are too old.                                                            *)
(*                                                                         *)
(* The backend that writes (ProtectedPublicationBackend) and the counter   *)
(* are outside the repository: a write that fails is taken to have had no  *)
(* effect.  What a write contains is the number of the attempt it was made *)
(* in, so that a key opens only the ciphertext of the same attempt.        *)
(***************************************************************************)
EXTENDS Integers, FiniteSets, FiniteSetsExt

CONSTANTS User, ObjectPath,
          ObjectId,          \* the numbers the random source may draw
          MaxEntries,        \* max_protected_namespace_entries
          MaxGeneration,     \* bound: generations of an object
          MaxAttempt,        \* bound: replacements begun
          MaxSequence        \* bound: snapshots sealed per user

VARIABLES registry,          \* entries in memory: [user, path, object, generation]
          publication,       \* the replacement under way, its phase_ and what it is for
          keys, ciphertexts, \* durable: version -> attempt
          commit,            \* durable: the versions of the commit record
          snapshot,          \* durable: the sealed snapshot of each user
          old_snapshots,     \* sealed before it
          evidence,          \* the trusted counter of each user
          loaded,            \* the users whose snapshot was opened since the last power cut
          attempts

protected_vars == <<registry, publication, keys, ciphertexts, commit, snapshot, old_snapshots, evidence,
                    loaded, attempts>>

Idle == [phase |-> "idle", entry |-> {}]
NoVersions == [v \in {} |-> 0]
version(e) == <<e.user, e.object, e.generation>>
next_version(e) == <<e.user, e.object, e.generation + 1>>
entries_of(u) == {e \in registry : e.user = u}

ProtectedInit ==
    /\ registry = {} /\ publication = Idle
    /\ keys = NoVersions /\ ciphertexts = NoVersions /\ commit = {}
    /\ snapshot = [u \in User |-> [user |-> u, sequence |-> 1, entries |-> {}]]
    /\ old_snapshots = {}
    /\ evidence = [u \in User |-> 1]
    /\ loaded = User /\ attempts = 0
---------------------------------------------------------------------------
(* ProtectedNamespaceRegistry.                                               *)
find(u, p) == {e \in registry : e.user = u /\ e.path = p}

create(u, p, o) ==
    /\ u \in loaded /\ publication.phase = "idle"
    /\ find(u, p) = {} /\ Cardinality(registry) < MaxEntries
    /\ ~\E e \in registry : e.user = u /\ e.object = o
    /\ registry' = registry \cup {[user |-> u, path |-> p, object |-> o, generation |-> 1]}
    /\ UNCHANGED <<publication, keys, ciphertexts, commit, snapshot, old_snapshots, evidence, loaded, attempts>>

(* propose_next_generation changes nothing: the replacement remembers what   *)
(* it was proposed from.                                                     *)
propose_next_generation(e) ==
    /\ publication.phase = "idle" /\ e \in registry /\ e.generation < MaxGeneration
    /\ attempts < MaxAttempt
    /\ attempts' = attempts + 1
    /\ publication' = [phase |-> "proposed", entry |-> e]
    /\ UNCHANGED <<registry, keys, ciphertexts, commit, snapshot, old_snapshots, evidence, loaded>>

(* publish_generation: refused unless the entry is still the expected one.   *)
published(e) == (registry \ {e}) \cup {[e EXCEPT !.generation = @ + 1]}

(* replace_user_entries: everything of the user at once, or nothing.         *)
replaceable(u, es) ==
    /\ \A e \in es : e.user = u
    /\ \A e, f \in es : e # f => e.path # f.path /\ e.object # f.object
    /\ Cardinality(registry \ entries_of(u)) + Cardinality(es) <= MaxEntries

replace_user_entries(u, es) == (registry \ entries_of(u)) \cup es
---------------------------------------------------------------------------
(* ProtectedAtomicReplace::replace: each step may fail, and then the caller  *)
(* has its error and the replacement is over; what was written stays.        *)
advance(expected, next, effect) ==
    /\ publication.phase = expected
    /\ \/ publication' = [publication EXCEPT !.phase = next] /\ effect
       \/ publication' = Idle /\ UNCHANGED <<registry, keys, ciphertexts, commit, snapshot, old_snapshots, evidence>>
    /\ UNCHANGED <<loaded, attempts>>

put(f, v) == [x \in DOMAIN f \cup {v} |-> IF x = v THEN attempts ELSE f[x]]
without(f, v) == [x \in DOMAIN f \ {v} |-> f[x]]

persist_wrapped_key ==
    advance("proposed", "key_durable",
        /\ keys' = put(keys, next_version(publication.entry))
        /\ UNCHANGED <<registry, ciphertexts, commit, snapshot, old_snapshots, evidence>>)

persist_ciphertext ==
    advance("key_durable", "ciphertext_durable",
        /\ ciphertexts' = put(ciphertexts, next_version(publication.entry))
        /\ UNCHANGED <<registry, keys, commit, snapshot, old_snapshots, evidence>>)

(* Mutant: the commit record does not wait for the ciphertext.               *)
persist_commit_record_early ==
    advance("key_durable", "commit_record_durable",
        /\ commit' = {version(publication.entry), next_version(publication.entry)}
        /\ UNCHANGED <<registry, keys, ciphertexts, snapshot, old_snapshots, evidence>>)

persist_commit_record ==
    advance("ciphertext_durable", "commit_record_durable",
        /\ commit' = {version(publication.entry), next_version(publication.entry)}
        /\ UNCHANGED <<registry, keys, ciphertexts, snapshot, old_snapshots, evidence>>)

(* ProtectedNamespaceSnapshotCrypto::seal of the user's entries under the    *)
(* next number; the user is in the header, not in the entries.               *)
encode_entries(es) == {[path |-> e.path, object |-> e.object, generation |-> e.generation] : e \in es}

seal(u, es) == [user |-> u, sequence |-> snapshot[u].sequence + 1, entries |-> encode_entries(es)]

decode_entries(s) == {[user |-> s.user, path |-> e.path, object |-> e.object, generation |-> e.generation] : e \in s.entries}

publish_namespace ==
    LET e == publication.entry IN
    /\ publication.phase = "commit_record_durable" => snapshot[e.user].sequence < MaxSequence
    /\ advance("commit_record_durable", "sealed",
        /\ e \in registry
        /\ registry' = published(e)
        /\ snapshot' = [snapshot EXCEPT ![e.user] = seal(e.user, {f \in published(e) : f.user = e.user})]
        /\ old_snapshots' = old_snapshots \cup {snapshot[e.user]}
        /\ UNCHANGED <<keys, ciphertexts, commit, evidence>>)

advance_evidence ==
    LET u == publication.entry.user IN
    advance("sealed", "namespace_published",
        /\ evidence' = [evidence EXCEPT ![u] = snapshot[u].sequence]
        /\ UNCHANGED <<registry, keys, ciphertexts, commit, snapshot, old_snapshots>>)

retire_generation ==
    advance("namespace_published", "retired",
        /\ keys' = without(keys, version(publication.entry))
        /\ ciphertexts' = without(ciphertexts, version(publication.entry))
        /\ commit' = {}
        /\ UNCHANGED <<registry, snapshot, old_snapshots, evidence>>)

finish ==
    /\ publication.phase = "retired"
    /\ publication' = Idle
    /\ UNCHANGED <<registry, keys, ciphertexts, commit, snapshot, old_snapshots, evidence, loaded, attempts>>

power_cut ==
    /\ loaded' = {} /\ registry' = {} /\ publication' = Idle
    /\ UNCHANGED <<keys, ciphertexts, commit, snapshot, old_snapshots, evidence, attempts>>
---------------------------------------------------------------------------
(* A header or a counter of zero is invalid.  Nothing in the repository      *)
(* advances the security epoch, so all snapshots are of the current one.     *)
validate_namespace_snapshot_freshness(s) ==
    /\ s.sequence # 0 /\ evidence[s.user] # 0
    /\ s.sequence >= evidence[s.user]

(* open_and_restore, of the snapshot there is or of an older one that came   *)
(* back in its place: the power cut lost the newer one.  What a medium has   *)
(* lost it is taken not to bring back later.                                 *)
open_and_restore(u, s) ==
    /\ s.user = u /\ validate_namespace_snapshot_freshness(s) /\ replaceable(u, decode_entries(s))
    /\ publication.phase = "idle"
    /\ loaded' = loaded \cup {u}
    /\ registry' = replace_user_entries(u, decode_entries(s))
    /\ snapshot' = [snapshot EXCEPT ![u] = s]
    /\ old_snapshots' = {x \in old_snapshots : x.user # u \/ x.sequence < s.sequence}
    /\ UNCHANGED <<publication, keys, ciphertexts, commit, evidence, attempts>>

(* may_discard_staging_after_crash: without a commit record, what no name    *)
(* refers to goes; with one, the record says which of the two versions the   *)
(* name did not reach or has left.                                           *)
named == UNION {{version(e) : e \in decode_entries(s)} : s \in {snapshot[u] : u \in User}}

(* A snapshot that could still be restored keeps its material.               *)
restorable == {s \in old_snapshots \cup {snapshot[u] : u \in User} : validate_namespace_snapshot_freshness(s)}

discard_staging(v) ==
    /\ publication.phase = "idle" /\ loaded = User /\ \A u \in User : evidence[u] = snapshot[u].sequence
    /\ v \in (DOMAIN keys \cup DOMAIN ciphertexts) \ named
    /\ commit = {} \/ v \in commit
    /\ keys' = without(keys, v) /\ ciphertexts' = without(ciphertexts, v)
    /\ commit' = commit \ {v}
    /\ UNCHANGED <<registry, publication, snapshot, old_snapshots, evidence, loaded, attempts>>

(* Recovery moves the counter on when it finds the newer snapshot.           *)
recover_evidence(u) ==
    /\ publication.phase = "idle" /\ u \in loaded /\ evidence[u] < snapshot[u].sequence
    /\ evidence' = [evidence EXCEPT ![u] = snapshot[u].sequence]
    /\ UNCHANGED <<registry, publication, keys, ciphertexts, commit, snapshot, old_snapshots, loaded, attempts>>

ProtectedNext ==
    \/ \E u \in User, p \in ObjectPath, o \in ObjectId : create(u, p, o)
    \/ \E e \in registry : propose_next_generation(e)
    \/ persist_wrapped_key \/ persist_ciphertext \/ persist_commit_record
    \/ publish_namespace \/ advance_evidence \/ retire_generation \/ finish \/ power_cut
    \/ \E u \in User : recover_evidence(u) \/ \E s \in old_snapshots \cup {snapshot[u]} : open_and_restore(u, s)
    \/ \E v \in DOMAIN keys \cup DOMAIN ciphertexts : discard_staging(v)

ProtectedSpec == ProtectedInit /\ [][ProtectedNext]_protected_vars
---------------------------------------------------------------------------
(* restore_protected_object_key_v1 and ProtectedChunkCrypto::open: the key   *)
(* record and the chunk header name this very version, and the key is the    *)
(* one the chunk was sealed with.                                            *)
restores_key(v) == v \in DOMAIN keys
opens(v) == restores_key(v) /\ v \in DOMAIN ciphertexts /\ keys[v] = ciphertexts[v]

(* A committed name never refers to material that cannot be read: whatever   *)
(* snapshot a restore would accept now, each generation published in it has  *)
(* its key and the ciphertext sealed with that key.                          *)
NamesAreRecoverable ==
    \A s \in restorable : \A e \in decode_entries(s) : e.generation > 1 => opens(version(e))
===========================================================================
