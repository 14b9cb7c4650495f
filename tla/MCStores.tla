----------------------------- MODULE MCStores -----------------------------
(***************************************************************************)
(* What outlives a process: the three persistent registries, the private   *)
(* storage of applications, protected objects and the unlock state.  They  *)
(* share no state and no process, so a behaviour picks one of them         *)
(* ("focus") and the others stay at rest.                                  *)
(***************************************************************************)
EXTENDS KeyService, Registries

CONSTANTS Tenant, RootEntry, ObjectSlot, PerPrincipal, Name, MaxPath, Node,
          User, ObjectPath, ObjectId, MaxEntries, MaxObjectGeneration, MaxAttempt, MaxSequence,
          Tags, MaxTime, Uniform, Window, IterationLock, BackoffAfter, InitialBackoff,
          MaxBackoff, Thresholds, DefaultThreshold, MaxCounted, MaxRestarts,
          Alphabet, Longest, Shortest, Separation

VARIABLES alive, identities, volumes, slots, handles, fs,
          registry, publication, wrapped_keys, ciphertexts, commit, snapshot, old_snapshots,
          evidence, loaded, attempts,
          authority, domain, owed, stored, wrong, restarts, pair,
          focus

storage_vars == <<alive, identities, volumes, slots, handles, fs>>
protected_vars == <<registry, publication, wrapped_keys, ciphertexts, commit, snapshot, old_snapshots,
                    evidence, loaded, attempts>>
unlock_vars == <<authority, domain, owed, stored, wrong, restarts, pair>>

Storage == INSTANCE StorageService WITH roots <- volumes
Protected == INSTANCE ProtectedStore WITH keys <- wrapped_keys, MaxGeneration <- MaxObjectGeneration
Lock == INSTANCE Unlock

ASSUME Lock!UnlockConstants

StoresInit ==
    /\ focus \in {"keys", "packages", "principals", "storage", "protected", "unlock"}
    /\ KeyInit /\ PackageInit /\ PrincipalInit
    /\ Storage!StorageInit /\ Protected!ProtectedInit
    /\ Lock!UnlockInit /\ (focus = "unlock" \/ pair = Lock!NoPair)

StoresNext ==
    /\ UNCHANGED focus
    /\ \/ focus = "keys" /\ KeyNext
          /\ UNCHANGED <<package_vars, principal_vars, storage_vars, protected_vars, unlock_vars>>
       \/ focus = "packages" /\ PackageNext
          /\ UNCHANGED <<key_vars, principal_vars, storage_vars, protected_vars, unlock_vars>>
       \/ focus = "principals" /\ PrincipalNext
          /\ UNCHANGED <<key_vars, package_vars, storage_vars, protected_vars, unlock_vars>>
       \/ focus = "storage" /\ Storage!StorageNext
          /\ UNCHANGED <<key_vars, package_vars, principal_vars, protected_vars, unlock_vars>>
       \/ focus = "protected" /\ Protected!ProtectedNext
          /\ UNCHANGED <<key_vars, package_vars, principal_vars, storage_vars, unlock_vars>>
       \/ focus = "unlock" /\ Lock!UnlockNext
          /\ UNCHANGED <<key_vars, package_vars, principal_vars, storage_vars, protected_vars>>

StoresSpec ==
    /\ StoresInit
    /\ [][StoresNext]_<<key_vars, package_vars, principal_vars, storage_vars, protected_vars, unlock_vars, focus>>

(* StorageService: a channel reaches what its application was given.        *)
HandlesAreConfined == Storage!HandlesAreConfined

(* ProtectedStore: a committed name refers to material that can be read.    *)
NamesAreRecoverable == Protected!NamesAreRecoverable

(* Unlock: an onlooker cannot tell the credentials apart, and two slips do  *)
(* not turn one into the other.                                             *)
UnlockIsDeniable == focus = "unlock" => Lock!UnlockIsDeniable /\ Lock!EnrolledAreApart

(* Unlock: the domain is destroyed only on purpose.                         *)
DestructionIsDeliberate == Lock!DestructionIsDeliberate
===========================================================================
