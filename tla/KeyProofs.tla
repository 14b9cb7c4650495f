----------------------------- MODULE KeyProofs ------------------------------
(***************************************************************************)
(* Proofs about KeyService for any keys, owners and table sizes, and any   *)
(* number of renames in doubt.  Every snapshot that may be found reads the *)
(* ciphertexts that were reported and has the reported destructions,       *)
(* unless the power was cut after somebody worked on with a rename that    *)
(* was never synced; what the service drops from memory is the material of *)
(* no key it still serves.                                                 *)
(***************************************************************************)
EXTENDS KeyService, TLAPS

KeyRecord == [owner : KeyOwner \cup {nobody}, material : Seq(Nat), destroyed : BOOLEAN]

\* A registry of keys that load accepts, whose material came from a provider that
\* has given out the numbers below m: a key that is not destroyed has a version, and
\* no two keys share material.
KeyRegistry(r, m) ==
    /\ r \in [KeyId -> KeyRecord]
    /\ \A k \in KeyId :
          /\ r[k].owner = nobody => r[k] = Unused
          /\ r[k].owner # nobody /\ ~r[k].destroyed => r[k].material # <<>>
          /\ \A j \in DOMAIN r[k].material : r[k].material[j] < m
    /\ \A k, l \in KeyId : \A i \in DOMAIN r[k].material, j \in DOMAIN r[l].material :
          r[k].material[i] = r[l].material[j] => k = l

\* The registry reads the ciphertexts S, and the keys G are destroyed in it.
KeepsKeys(r, S, G) == (\A c \in S : readable(r, c)) /\ \A k \in G : r[k].destroyed

\* No material of the registry is in D.
Spares(r, D) == \A k \in KeyId : \A j \in DOMAIN r[k].material : r[k].material[j] \notin D

KeyTypes ==
    /\ serving \in BOOLEAN /\ material \in Nat /\ enabled \subseteq KeyOwner
    /\ undo \in KeyId \cup {no_key} /\ gone \subseteq KeyId
    /\ dropped \subseteq {n \in Nat : n < material}
    /\ objects \in [1..MaxObjects -> [id : KeyId, owner : KeyOwner] \cup {NoObject}]
    /\ sealed \subseteq [id : KeyId, version : Nat \ {0}, number : Nat]
    /\ key_file.doubt \in {"none", "relied", "exposed"}
    /\ key_file = [seen |-> key_file.seen, cut |-> key_file.cut, doubt |-> key_file.doubt]

(* The inductive invariant.  A running process has in memory what a new one would
   read, and unless somebody relied on a rename in doubt that is also what a power cut
   would leave, so a ciphertext made from memory can be read from every snapshot. *)
KeyInv ==
    /\ KeyTypes
    /\ serving => keys = key_file.seen /\ (key_file.doubt = "none" => certain(key_file))
    /\ ~serving => dropped = {} /\ objects = NoObjects
    /\ undo # no_key => serving /\ keys[undo].owner # nobody
    /\ \A r \in key_file.cut \cup {key_file.seen} : KeyRegistry(r, material)
    /\ serving => Spares(keys, dropped)
    /\ key_file.doubt # "exposed" =>
          \A r \in may_find(key_file) : KeepsKeys(r, sealed, gone)

LEMMA InitKeys == KeyInit => KeyInv
  <1> SUFFICES ASSUME KeyInit PROVE KeyInv
    OBVIOUS
  <1>1. /\ key_file = [seen |-> NoKeys, cut |-> {NoKeys}, doubt |-> "none"]
        /\ keys = NoKeys /\ serving = TRUE /\ undo = no_key /\ material = 1 /\ dropped = {}
        /\ sealed = {} /\ gone = {} /\ enabled = {} /\ objects = NoObjects
    BY DEF KeyInit, new_file
  <1>2. KeyTypes
    BY <1>1 DEF KeyTypes, NoObjects
  <1>3. Unused \in KeyRecord /\ Unused.material = <<>> /\ Unused.owner = nobody
    BY DEF Unused, KeyRecord
  <1>4. KeyRegistry(NoKeys, 1)
    BY <1>3 DEF KeyRegistry, NoKeys
  <1>5. KeepsKeys(NoKeys, sealed, gone) /\ Spares(NoKeys, dropped)
    BY <1>1 DEF KeepsKeys, Spares
  <1>6. QED BY <1>1, <1>2, <1>4, <1>5 DEF KeyInv, certain, may_find

\* A registry stays acceptable as the provider goes on.
LEMMA RegistryGrows ==
  ASSUME NEW r, NEW m \in Nat, NEW n \in Nat, m <= n, KeyRegistry(r, m)
  PROVE  KeyRegistry(r, n)
  <1>1. ASSUME NEW k \in KeyId, NEW j \in DOMAIN r[k].material
        PROVE  r[k].material[j] \in Nat /\ r[k].material[j] < n
    <2>1. r[k] \in KeyRecord
      BY DEF KeyRegistry
    <2>2. r[k].material \in Seq(Nat)
      BY <2>1 DEF KeyRecord
    <2>3. r[k].material[j] \in Nat
      BY <2>2, <1>1
    <2>4. QED BY <2>3 DEF KeyRegistry
  <1>2. QED BY <1>1 DEF KeyRegistry

(* persist(): whatever becomes of the snapshot, memory and the snapshots that may be
   found are the candidate or what they were. *)
LEMMA PersistKeys ==
  ASSUME KeyInv, serving, KeyTypes', NEW c, NEW how \in Outcome, NEW instead, NEW after,
         persist(c, how, instead, after),
         material <= material', sealed' \subseteq sealed,
         how # "synced" => gone' = gone,
         ended(how) => objects' = NoObjects,
         undo' # no_key => ~ended(how) /\ keys'[undo'].owner # nobody,
         KeyRegistry(c, material'),
         Spares(c, dropped), Spares(c, after), Spares(keys, instead),
         key_file.doubt # "exposed" /\ replaces(how) => KeepsKeys(c, sealed', gone')
  PROVE  KeyInv'
  <1> DEFINE f == key_file
  <1>1. /\ f' = [seen  |-> IF replaces(how) THEN c ELSE f.seen,
                 cut   |-> IF how = "synced" THEN {c}
                           ELSE IF replaces(how) THEN f.cut \cup {c} ELSE f.cut,
                 doubt |-> doubt_after(f, how)]
        /\ ended(how) => serving' = FALSE /\ keys' = NoKeys /\ dropped' = {} /\ undo' = no_key
        /\ ~ended(how) =>
              /\ keys' = IF replaces(how) THEN c ELSE keys
              /\ dropped' = dropped \cup (IF replaces(how) THEN after ELSE instead)
              /\ serving' = serving
    BY Zenon DEF persist, written, ends
  <1>2. /\ keys = f.seen /\ (f.doubt = "none" => f.cut = {f.seen})
        /\ f.doubt \in {"none", "relied", "exposed"}
        /\ material \in Nat /\ material' \in Nat
        /\ Spares(keys, dropped)
    BY DEF KeyInv, KeyTypes, certain
  <1>3. /\ \A r \in f.cut \cup {f.seen} : KeyRegistry(r, material')
        /\ f.doubt # "exposed" => KeepsKeys(f.seen, sealed, gone)
    BY <1>2, RegistryGrows DEF KeyInv, may_find
  <1>4. how # "synced" /\ f.doubt # "exposed" => KeepsKeys(f.seen, sealed', gone')
    BY <1>3 DEF KeepsKeys
  <1>5. /\ f'.seen = IF replaces(how) THEN c ELSE f.seen
        /\ f'.cut = IF how = "synced" THEN {c} ELSE IF replaces(how) THEN f.cut \cup {c} ELSE f.cut
        /\ f'.doubt = doubt_after(f, how)
    BY <1>1
  <1>6. \A r \in f'.cut \cup {f'.seen} : KeyRegistry(r, material')
    BY <1>3, <1>5
  <1>7. ~ended(how) => Spares(keys', dropped')
    BY <1>1, <1>2 DEF Spares
  <1>8. serving' => keys' = f'.seen /\ (f'.doubt = "none" => certain(f)')
    <2>1. CASE how \in {"lost", "cut"}
      BY <1>1, <2>1 DEF ended
    <2>2. CASE how = "failed"
      BY <1>1, <1>2, <1>5, <2>2 DEF ended, replaces, doubt_after, certain
    <2>3. CASE how \in {"unsynced", "synced"}
      BY <1>1, <1>2, <1>5, <2>3 DEF ended, replaces, doubt_after, certain
    <2>4. QED BY <2>1, <2>2, <2>3 DEF Outcome
  <1>9. ASSUME f'.doubt # "exposed", NEW r \in may_find(f')
        PROVE  KeepsKeys(r, sealed', gone')
    <2>1. f.doubt # "exposed"
      BY <1>5, <1>9 DEF doubt_after
    <2>2. CASE how \in {"lost", "failed"}
      <3>1. f'.seen = f.seen /\ f'.cut = f.cut /\ f'.doubt = f.doubt
        BY <1>5, <2>1, <2>2 DEF doubt_after, replaces
      <3>2. r = f.seen
        BY <1>2, <1>9, <3>1 DEF may_find
      <3>3. QED BY <1>4, <2>1, <2>2, <3>2
    <2>3. CASE how = "cut"
      <3>1. f'.seen = c /\ f'.cut = f.cut \cup {c} /\ f'.doubt = f.doubt
        BY <1>5, <2>1, <2>3 DEF doubt_after, replaces
      <3>2. r \in {c, f.seen}
        BY <1>2, <1>9, <3>1 DEF may_find
      <3>3. QED BY <1>4, <2>1, <2>3, <3>2 DEF replaces
    <2>4. CASE how \in {"unsynced", "synced"}
      <3>1. /\ f'.seen = c
            /\ how = "unsynced" => f'.doubt = "relied"
            /\ how = "synced" => f'.cut = {c}
        BY <1>5, <2>1, <2>4 DEF doubt_after, replaces
      <3>2. r = c
        BY <1>9, <2>4, <3>1 DEF may_find
      <3>3. QED BY <2>1, <2>4, <3>2 DEF replaces
    <2>5. QED BY <2>2, <2>3, <2>4 DEF Outcome
  <1>10. ~serving' => dropped' = {} /\ objects' = NoObjects
    BY <1>1, Zenon
  <1>11. undo' # no_key => serving' /\ keys'[undo'].owner # nobody
    BY <1>1
  <1>12. serving' => Spares(keys', dropped')
    BY <1>1, <1>7
  <1>13. QED BY <1>6, <1>8, <1>9, <1>10, <1>11, <1>12 DEF KeyInv

\* What the invariant says of the registry in memory.
LEMMA ServedKeys ==
  ASSUME KeyInv, serving
  PROVE  /\ KeyRegistry(keys, material) /\ Spares(keys, dropped)
         /\ key_file.doubt # "exposed" => KeepsKeys(keys, sealed, gone)
         /\ material \in Nat /\ gone \subseteq KeyId
         /\ sealed \subseteq [id : KeyId, version : Nat \ {0}, number : Nat]
  BY DEF KeyInv, KeyTypes, may_find

\* A ciphertext the registry reads is under material the registry has.
LEMMA ReadableMaterial ==
  ASSUME NEW r, NEW m, KeyRegistry(r, m), NEW c, c.id \in KeyId, c.version \in Nat \ {0}, readable(r, c)
  PROVE  c.version \in DOMAIN r[c.id].material /\ r[c.id].material[c.version] = c.number
  <1>1. r[c.id] \in KeyRecord
    BY DEF KeyRegistry
  <1>2. r[c.id].material \in Seq(Nat)
    BY <1>1 DEF KeyRecord
  <1>3. QED BY <1>2 DEF readable

\* adopt_generated: the new key's only version is the newest material.
LEMMA AdoptedKeys ==
  ASSUME KeyInv, serving, NEW o \in KeyOwner, NEW k \in KeyId, ~find(keys, k)
  PROVE  /\ KeyRegistry(adopt_generated(o, k), material + 1)
         /\ KeepsKeys(keys, sealed, gone) => KeepsKeys(adopt_generated(o, k), sealed, gone)
         /\ Spares(keys, {material}) /\ Spares(adopt_generated(o, k), dropped)
         /\ adopt_generated(o, k)[k].owner = o
  <1>1. PICK c : c = adopt_generated(o, k)
    OBVIOUS
  <1>2. /\ KeyRegistry(keys, material) /\ material \in Nat /\ gone \subseteq KeyId
        /\ sealed \subseteq [id : KeyId, version : Nat \ {0}, number : Nat]
    BY ServedKeys
  <1>3. keys \in [KeyId -> KeyRecord]
    BY <1>2 DEF KeyRegistry
  <1>4. /\ DOMAIN c = KeyId
        /\ c[k] = [owner |-> o, material |-> <<material>>, destroyed |-> FALSE]
        /\ \A l \in KeyId \ {k} : c[l] = keys[l]
    BY <1>1, <1>3 DEF adopt_generated
  <1>5. c[k] \in KeyRecord /\ DOMAIN c[k].material = {1} /\ c[k].material[1] = material
        /\ c[k].owner = o /\ c[k].destroyed = FALSE /\ c[k].material # <<>>
    BY <1>2, <1>4 DEF KeyRecord
  <1>6. c \in [KeyId -> KeyRecord]
    <2>1. \A l \in KeyId : c[l] \in KeyRecord
      BY <1>3, <1>4, <1>5, Zenon
    <2>2. c = [l \in KeyId |-> c[l]]
      BY <1>1, <1>3, Zenon DEF adopt_generated
    <2>3. QED BY <2>1, <2>2
  <1>7. \A l \in KeyId : \A j \in DOMAIN keys[l].material :
           keys[l].material[j] \in Nat /\ keys[l].material[j] < material
    BY <1>2, <1>3 DEF KeyRegistry, KeyRecord
  <1>8. KeyRegistry(c, material + 1)
    <2>1. \A l \in KeyId :
          /\ c[l].owner = nobody => c[l] = Unused
          /\ c[l].owner # nobody /\ ~c[l].destroyed => c[l].material # <<>>
      BY <1>2, <1>4, <1>5, KeyConstants DEF KeyRegistry
    <2>2. ASSUME NEW l \in KeyId, NEW j \in DOMAIN c[l].material
          PROVE  c[l].material[j] < material + 1
      <3>1. CASE l = k
        <4>1. c[l].material[j] = material
          BY <1>5, <3>1
        <4>2. QED BY <1>2, <4>1
      <3>2. CASE l # k
        <4>1. c[l].material[j] \in Nat /\ c[l].material[j] < material
          BY <1>4, <1>7, <3>2
        <4>2. QED BY <1>2, <4>1
      <3>3. QED BY <3>1, <3>2
    <2>3. ASSUME NEW l \in KeyId, NEW n \in KeyId, NEW i \in DOMAIN c[l].material,
                 NEW j \in DOMAIN c[n].material, c[l].material[i] = c[n].material[j]
          PROVE  l = n
      <3>1. ASSUME NEW y \in KeyId \ {k}, NEW h \in DOMAIN c[y].material
            PROVE  c[y].material[h] # material
        BY <1>2, <1>4, <1>7
      <3>2. \A h \in DOMAIN c[k].material : c[k].material[h] = material
        BY <1>5
      <3>3. CASE l # k /\ n # k
        <4>1. c[l] = keys[l] /\ c[n] = keys[n]
          BY <1>4, <3>3
        <4>2. QED BY <1>2, <2>3, <4>1 DEF KeyRegistry
      <3>4. QED BY <2>3, <3>1, <3>2, <3>3
    <2>4. QED BY <1>6, <2>1, <2>2, <2>3 DEF KeyRegistry
  <1>9. keys[k] = Unused
    BY <1>2 DEF KeyRegistry, find
  <1>10. ASSUME KeepsKeys(keys, sealed, gone), NEW x \in sealed
         PROVE  readable(c, x)
    <2>1. readable(keys, x) /\ x.id \in KeyId /\ x.version \in Nat \ {0}
      BY <1>2, <1>10 DEF KeepsKeys
    <2>2. x.version \in DOMAIN keys[x.id].material
      BY <1>2, <2>1, ReadableMaterial
    <2>3. x.id # k
      BY <1>9, <2>2 DEF Unused
    <2>4. QED BY <1>4, <2>1, <2>3 DEF readable
  <1>11. ASSUME KeepsKeys(keys, sealed, gone), NEW l \in gone
         PROVE  c[l].destroyed
    <2>1. keys[l].destroyed /\ l \in KeyId
      BY <1>2, <1>11 DEF KeepsKeys
    <2>2. l # k
      BY <1>9, <2>1 DEF Unused
    <2>3. QED BY <1>4, <2>1, <2>2
  <1>12. Spares(keys, {material})
    BY <1>2, <1>7 DEF Spares
  <1>13. Spares(c, dropped)
    <2>1. material \notin dropped /\ Spares(keys, dropped)
      BY <1>2, ServedKeys DEF KeyInv, KeyTypes
    <2>2. QED BY <1>4, <1>5, <2>1 DEF Spares
  <1>14. QED BY <1>1, <1>5, <1>8, <1>10, <1>11, <1>12, <1>13 DEF KeepsKeys

\* One more element at the end of a sequence.
LEMMA Appended ==
  ASSUME NEW S, NEW q \in Seq(S), NEW x \in S
  PROVE  /\ Len(q) \in Nat /\ DOMAIN q = 1..Len(q)
         /\ Append(q, x) \in Seq(S) /\ Append(q, x) # <<>>
         /\ DOMAIN Append(q, x) = 1..(Len(q) + 1) /\ Len(Append(q, x)) = Len(q) + 1
         /\ \A j \in 1..Len(q) : Append(q, x)[j] = q[j]
         /\ Append(q, x)[Len(q) + 1] = x
  OBVIOUS

\* rotate_adopt_generated: the versions there are stay where they are.
LEMMA RotatedKeys ==
  ASSUME KeyInv, serving, NEW k \in KeyId, ~keys[k].destroyed,
         keys[k].owner # nobody
  PROVE  /\ KeyRegistry(rotate_adopt_generated(k), material + 1)
         /\ KeepsKeys(keys, sealed, gone) => KeepsKeys(rotate_adopt_generated(k), sealed, gone)
         /\ Spares(keys, {material}) /\ Spares(rotate_adopt_generated(k), dropped)
  <1>1. PICK c : c = rotate_adopt_generated(k)
    OBVIOUS
  <1>2. /\ KeyRegistry(keys, material) /\ material \in Nat /\ gone \subseteq KeyId
        /\ sealed \subseteq [id : KeyId, version : Nat \ {0}, number : Nat]
    BY ServedKeys
  <1>3. keys \in [KeyId -> KeyRecord] /\ keys[k] \in KeyRecord /\ keys[k].material \in Seq(Nat)
    <2>1. keys \in [KeyId -> KeyRecord]
      BY <1>2 DEF KeyRegistry
    <2>2. keys[k] \in KeyRecord
      BY <2>1
    <2>3. QED BY <2>1, <2>2 DEF KeyRecord
  <1>4. /\ \A l \in KeyId \ {k} : c[l] = keys[l]
        /\ c[k] = [keys[k] EXCEPT !.material = Append(@, material)]
        /\ c = [l \in KeyId |-> c[l]]
    BY <1>1, <1>3, Zenon DEF rotate_adopt_generated
  <1>5. /\ c[k].owner = keys[k].owner /\ c[k].destroyed = keys[k].destroyed
        /\ c[k].material = Append(keys[k].material, material)
        /\ c[k] \in KeyRecord
    <2>1. Append(keys[k].material, material) \in Seq(Nat)
      BY <1>2, <1>3
    <2>2. QED BY <1>3, <1>4, <2>1, Zenon DEF KeyRecord
  <1>6. PICK n \in Nat : n = Len(keys[k].material)
    BY <1>3, Appended, <1>2
  <1>7. /\ DOMAIN keys[k].material = 1..n /\ DOMAIN c[k].material = 1..(n + 1)
        /\ \A j \in 1..n : c[k].material[j] = keys[k].material[j]
        /\ c[k].material[n + 1] = material /\ Len(c[k].material) = n + 1 /\ c[k].material # <<>>
    <2>1. PICK q \in Seq(Nat) : q = keys[k].material
      BY <1>3
    <2>2. /\ DOMAIN q = 1..Len(q) /\ Append(q, material) # <<>>
          /\ DOMAIN Append(q, material) = 1..(Len(q) + 1)
          /\ Len(Append(q, material)) = Len(q) + 1
          /\ \A j \in 1..Len(q) : Append(q, material)[j] = q[j]
          /\ Append(q, material)[Len(q) + 1] = material
      BY <1>2, Appended
    <2>3. c[k].material = Append(q, material) /\ n = Len(q)
      BY <1>5, <1>6, <2>1
    <2>4. QED BY <2>1, <2>2, <2>3
  <1>8. c \in [KeyId -> KeyRecord]
    <2>1. \A l \in KeyId : c[l] \in KeyRecord
      BY <1>3, <1>4, <1>5, Zenon
    <2>2. QED BY <1>4, <2>1
  <1>9. \A l \in KeyId : \A j \in DOMAIN keys[l].material :
           keys[l].material[j] \in Nat /\ keys[l].material[j] < material
    BY <1>2, <1>3 DEF KeyRegistry, KeyRecord
  <1>10. KeyRegistry(c, material + 1)
    <2>1. \A l \in KeyId :
          /\ c[l].owner = nobody => c[l] = Unused
          /\ c[l].owner # nobody /\ ~c[l].destroyed => c[l].material # <<>>
      BY <1>2, <1>4, <1>5, <1>7, KeyConstants, ZenonT(30) DEF KeyRegistry
    <2>2. ASSUME NEW j \in DOMAIN c[k].material PROVE c[k].material[j] < material + 1
      <3>1. CASE j = n + 1
        BY <1>2, <1>7, <3>1
      <3>2. CASE j \in 1..n
        <4>1. c[k].material[j] \in Nat /\ c[k].material[j] < material
          BY <1>7, <1>9, <3>2, Zenon
        <4>2. QED BY <1>2, <4>1
      <3>3. j \in 1..(n + 1)
        BY <1>7
      <3>4. j = n + 1 \/ j \in 1..n
        BY <1>6, <3>3
      <3>5. QED BY <3>1, <3>2, <3>4
    <2>3. ASSUME NEW l \in KeyId, NEW j \in DOMAIN c[l].material
          PROVE  c[l].material[j] < material + 1
      <3>1. CASE l = k
        BY <2>2, <3>1
      <3>2. CASE l # k
        <4>1. c[l].material[j] \in Nat /\ c[l].material[j] < material
          BY <1>4, <1>9, <3>2
        <4>2. QED BY <1>2, <4>1
      <3>3. QED BY <3>1, <3>2
    <2>4. ASSUME NEW l \in KeyId, l # k, NEW i \in DOMAIN c[l].material, NEW j \in DOMAIN c[k].material
          PROVE  c[l].material[i] # c[k].material[j]
      <3>1. CASE j = n + 1
        BY <1>2, <1>4, <1>7, <1>9, <2>4, <3>1
      <3>2. CASE j \in 1..n
        BY <1>2, <1>4, <1>7, <2>4, <3>2 DEF KeyRegistry
      <3>3. j \in 1..(n + 1)
        BY <1>7
      <3>4. j = n + 1 \/ j \in 1..n
        BY <1>6, <3>3
      <3>5. QED BY <3>1, <3>2, <3>4
    <2>5. ASSUME NEW l \in KeyId, NEW m \in KeyId, NEW i \in DOMAIN c[l].material,
                 NEW j \in DOMAIN c[m].material, c[l].material[i] = c[m].material[j]
          PROVE  l = m
      <3>1. CASE l # k /\ m # k
        <4>1. c[l] = keys[l] /\ c[m] = keys[m]
          BY <1>4, <3>1
        <4>2. QED BY <1>2, <2>5, <4>1 DEF KeyRegistry
      <3>2. QED BY <2>4, <2>5, <3>1
    <2>6. QED BY <1>8, <2>1, <2>3, <2>5 DEF KeyRegistry
  <1>11. ASSUME KeepsKeys(keys, sealed, gone), NEW x \in sealed
         PROVE  readable(c, x)
    <2>1. readable(keys, x) /\ x.id \in KeyId /\ x.version \in Nat \ {0}
      BY <1>2, <1>11 DEF KeepsKeys
    <2>2. CASE x.id # k
      BY <1>4, <2>1, <2>2 DEF readable
    <2>3. CASE x.id = k
      BY <1>6, <1>7, <2>1, <2>3 DEF readable
    <2>4. QED BY <2>2, <2>3
  <1>12. KeepsKeys(keys, sealed, gone) => \A l \in gone : c[l].destroyed
    BY <1>2, <1>4, <1>5 DEF KeepsKeys
  <1>13. Spares(keys, {material})
    BY <1>2, <1>9 DEF Spares
  <1>14. Spares(c, dropped)
    <2>1. material \notin dropped /\ Spares(keys, dropped)
      BY <1>2, ServedKeys DEF KeyInv, KeyTypes
    <2>2. ASSUME NEW j \in DOMAIN c[k].material PROVE c[k].material[j] \notin dropped
      <3>1. j \in 1..(n + 1)
        BY <1>7
      <3>2. j = n + 1 \/ j \in 1..n
        BY <1>6, <3>1
      <3>3. j \in 1..n => c[k].material[j] = keys[k].material[j] /\ j \in DOMAIN keys[k].material
        BY <1>6, <1>7
      <3>4. j = n + 1 => c[k].material[j] = material
        BY <1>7
      <3>5. QED BY <2>1, <3>2, <3>3, <3>4 DEF Spares
    <2>3. QED BY <1>4, <2>1, <2>2, Zenon DEF Spares
  <1>15. QED BY <1>1, <1>10, <1>11, <1>12, <1>13, <1>14 DEF KeepsKeys

\* tombstone: only this key's ciphertexts and material are given up.
LEMMA TombstonedKeys ==
  ASSUME KeyInv, serving, NEW k \in KeyId, keys[k].owner # nobody
  PROVE  /\ KeyRegistry(tombstone(k), material)
         /\ KeepsKeys(keys, sealed, gone)
               => KeepsKeys(tombstone(k), {c \in sealed : c.id # k}, gone \cup {k})
         /\ Spares(tombstone(k), dropped) /\ Spares(tombstone(k), Range(keys[k].material))
  <1>1. PICK c : c = tombstone(k)
    OBVIOUS
  <1>2. /\ KeyRegistry(keys, material) /\ Spares(keys, dropped)
        /\ material \in Nat /\ gone \subseteq KeyId
        /\ sealed \subseteq [id : KeyId, version : Nat \ {0}, number : Nat]
    BY ServedKeys
  <1>3. keys \in [KeyId -> KeyRecord]
    BY <1>2 DEF KeyRegistry
  <1>4. /\ \A l \in KeyId \ {k} : c[l] = keys[l]
        /\ c[k].owner = keys[k].owner /\ c[k].destroyed = TRUE /\ c[k].material = <<>>
        /\ c[k] \in KeyRecord
        /\ c = [l \in KeyId |-> c[l]]
    <2>1. c = [keys EXCEPT ![k] = [[keys[k] EXCEPT !.destroyed = TRUE] EXCEPT !.material = <<>>]]
      BY <1>1, <1>3, Zenon DEF tombstone
    <2>2. PICK v : v = [[keys[k] EXCEPT !.destroyed = TRUE] EXCEPT !.material = <<>>]
      OBVIOUS
    <2>3. keys[k] \in KeyRecord
      BY <1>3
    <2>4. /\ v.owner = keys[k].owner /\ v.destroyed = TRUE /\ v.material = <<>>
          /\ v \in KeyRecord
      <3>1. keys[k] = [owner |-> keys[k].owner, material |-> keys[k].material,
                       destroyed |-> keys[k].destroyed] /\ keys[k].owner \in KeyOwner \cup {nobody}
        BY <2>3 DEF KeyRecord
      <3>2. v = [owner |-> keys[k].owner, material |-> <<>>, destroyed |-> TRUE]
        BY <2>2, <3>1, Zenon
      <3>3. <<>> \in Seq(Nat)
        OBVIOUS
      <3>4. QED BY <3>1, <3>2, <3>3 DEF KeyRecord
    <2>5. c[k] = v /\ c = [l \in KeyId |-> c[l]] /\ \A l \in KeyId \ {k} : c[l] = keys[l]
      BY <1>3, <2>1, <2>2, Zenon
    <2>6. QED BY <2>4, <2>5
  <1>5. c \in [KeyId -> KeyRecord]
    <2>1. \A l \in KeyId : c[l] \in KeyRecord
      BY <1>3, <1>4
    <2>2. QED BY <1>4, <2>1
  <1>6. KeyRegistry(c, material)
    <2>1. ASSUME NEW l \in KeyId
          PROVE  /\ c[l].owner = nobody => c[l] = Unused
                 /\ c[l].owner # nobody /\ ~c[l].destroyed => c[l].material # <<>>
                 /\ \A j \in DOMAIN c[l].material :
                       c[l].material[j] < material /\ l # k /\ c[l] = keys[l]
      BY <1>2, <1>4 DEF KeyRegistry
    <2>2. ASSUME NEW l \in KeyId, NEW m \in KeyId, NEW i \in DOMAIN c[l].material,
                 NEW j \in DOMAIN c[m].material, c[l].material[i] = c[m].material[j]
          PROVE  l = m
      <3>1. c[l] = keys[l] /\ c[m] = keys[m]
        BY <2>1
      <3>2. QED BY <1>2, <2>2, <3>1 DEF KeyRegistry
    <2>3. QED BY <1>5, <2>1, <2>2 DEF KeyRegistry
  <1>7. KeepsKeys(keys, sealed, gone) => KeepsKeys(c, {x \in sealed : x.id # k}, gone \cup {k})
    BY <1>2, <1>4 DEF KeepsKeys, readable
  <1>8. Spares(c, dropped)
    BY <1>2, <1>4 DEF Spares
  <1>9. Spares(c, Range(keys[k].material))
    <2>1. ASSUME NEW l \in KeyId, NEW j \in DOMAIN c[l].material, NEW i \in DOMAIN keys[k].material
          PROVE  c[l].material[j] # keys[k].material[i]
      BY <1>2, <1>4 DEF KeyRegistry
    <2>2. QED BY <2>1 DEF Spares, Range
  <1>10. QED BY <1>1, <1>6, <1>7, <1>8, <1>9

\* What persist() leaves well typed.
LEMMA PersistTypes ==
  ASSUME KeyTypes, NEW c, NEW how, NEW instead, NEW after, persist(c, how, instead, after),
         material' \in Nat, material <= material',
         instead \subseteq {n \in Nat : n < material'}, after \subseteq {n \in Nat : n < material'}
  PROVE  /\ dropped' \subseteq {n \in Nat : n < material'}
         /\ serving' \in BOOLEAN /\ enabled' \subseteq KeyOwner
         /\ key_file'.doubt \in {"none", "relied", "exposed"}
         /\ key_file' = [seen |-> key_file'.seen, cut |-> key_file'.cut, doubt |-> key_file'.doubt]
         /\ ended(how) => undo' = no_key /\ objects' = NoObjects
  <1>1. key_file' = [seen  |-> IF replaces(how) THEN c ELSE key_file.seen,
                     cut   |-> IF how = "synced" THEN {c} ELSE IF replaces(how)
                               THEN key_file.cut \cup {c} ELSE key_file.cut,
                     doubt |-> doubt_after(key_file, how)]
    BY DEF persist, written
  <1>2. doubt_after(key_file, how) \in {"none", "relied", "exposed"}
    BY DEF doubt_after, KeyTypes
  <1>3. /\ key_file'.doubt \in {"none", "relied", "exposed"}
        /\ key_file' = [seen |-> key_file'.seen, cut |-> key_file'.cut, doubt |-> key_file'.doubt]
    BY <1>1, <1>2
  <1>4. /\ serving' \in BOOLEAN /\ enabled' \subseteq KeyOwner
        /\ ended(how) => undo' = no_key /\ objects' = NoObjects /\ dropped' = {}
        /\ ~ended(how) => dropped' \subseteq dropped \cup after \cup instead
    BY Zenon DEF persist, ends, KeyTypes
  <1>5. dropped' \subseteq {n \in Nat : n < material'}
    <2>1. dropped \subseteq {n \in Nat : n < material'}
      BY DEF KeyTypes
    <2>2. QED BY <1>4, <2>1, Zenon
  <1>6. QED BY <1>3, <1>4, <1>5

\* create(): the new key is the candidate.
LEMMA CreateKeys ==
  ASSUME KeyInv, NEW o \in KeyOwner, NEW k \in KeyId, create(o, k)
  PROVE  KeyInv'
  <1>1. /\ serving /\ ~find(keys, k) /\ material' = material + 1
        /\ sealed' = sealed /\ gone' = gone
    BY DEF create, idle
  <1>2. PICK how \in Outcome :
          /\ persist(adopt_generated(o, k), how, {material}, {})
          /\ how = "synced" =>
                \/ /\ objects' = [objects EXCEPT ![First(free_object)] = [id |-> k, owner |-> o]]
                   /\ undo' = no_key
                \/ undo' = k /\ objects' = objects
          /\ how \in {"failed", "unsynced"} => objects' = objects /\ undo' = undo
    BY DEF create, outcomes
  <1>3. /\ KeyTypes /\ undo = no_key /\ material \in Nat /\ dropped \subseteq {n \in Nat : n < material}
        /\ material' \in Nat /\ material <= material' /\ {material} \subseteq {n \in Nat : n < material'}
    BY <1>1 DEF KeyInv, KeyTypes, create, idle
  <1>4. objects' \in [1..MaxObjects -> [id : KeyId, owner : KeyOwner] \cup {NoObject}]
    <2>1. CASE ended(how)
      BY <1>2, <1>3, <2>1, PersistTypes DEF NoObjects
    <2>2. CASE ~ended(how)
      BY <1>2, <1>3, <2>2 DEF KeyTypes, Outcome, ended
    <2>3. QED BY <2>1, <2>2
  <1>5. KeyTypes'
    <2>1. undo' \in KeyId \cup {no_key}
      BY <1>2, <1>3, PersistTypes DEF Outcome, ended
    <2>2. QED BY <1>1, <1>2, <1>3, <1>4, <2>1, PersistTypes DEF KeyTypes
  <1>6. /\ KeyRegistry(adopt_generated(o, k), material + 1)
        /\ KeepsKeys(keys, sealed, gone) => KeepsKeys(adopt_generated(o, k), sealed, gone)
        /\ Spares(keys, {material}) /\ adopt_generated(o, k)[k].owner = o
        /\ Spares(adopt_generated(o, k), dropped) /\ Spares(adopt_generated(o, k), {})
    BY <1>1, AdoptedKeys DEF Spares
  <1>7. undo' # no_key => ~ended(how) /\ keys'[undo'].owner # nobody
    <2>1. CASE how = "synced"
      BY <1>2, <1>6, <2>1, KeyConstants DEF persist, ended, replaces
    <2>2. CASE how # "synced"
      BY <1>2, <1>3, <2>2, PersistTypes DEF Outcome, ended
    <2>3. QED BY <2>1, <2>2
  <1>8. QED
    <2>1. key_file.doubt # "exposed" => KeepsKeys(keys, sealed, gone)
      BY <1>1, ServedKeys
    <2>2. ended(how) => objects' = NoObjects
      BY <1>2, <1>3, PersistTypes
    <2>3. material <= material' /\ KeyRegistry(adopt_generated(o, k), material')
      BY <1>1, <1>3, <1>6
    <2>4. QED BY <1>1, <1>2, <1>5, <1>6, <1>7, <2>1, <2>2, <2>3, PersistKeys

\* destroy_key(): the tombstone is the candidate, and what it gives up is given up.
LEMMA DestroyedKeys ==
  ASSUME KeyInv, serving, NEW k \in KeyId, keys[k].owner # nobody,
         NEW how \in Outcome, destroy_key(k, how), material' = material, undo' = no_key,
         ~ended(how) => objects' \in [1..MaxObjects -> [id : KeyId, owner : KeyOwner] \cup {NoObject}]
  PROVE  KeyInv'
  <1>1. PICK lost \in {{}, Range(keys[k].material)} : persist(tombstone(k), how, {}, lost)
    BY Zenon DEF destroy_key
  <1>2. /\ sealed' = IF replaces(how) THEN {c \in sealed : c.id # k} ELSE sealed
        /\ gone' = IF how = "synced" THEN gone \cup {k} ELSE gone
    BY DEF destroy_key
  <1>3. /\ KeyTypes /\ material \in Nat /\ material' \in Nat /\ material <= material'
        /\ {} \subseteq {n \in Nat : n < material'} /\ lost \subseteq {n \in Nat : n < material'}
    <2>1. KeyTypes /\ material \in Nat /\ KeyRegistry(keys, material)
      BY ServedKeys DEF KeyInv, KeyTypes
    <2>2. ASSUME NEW j \in DOMAIN keys[k].material
          PROVE  keys[k].material[j] \in Nat /\ keys[k].material[j] < material
      <3>1. keys[k] \in KeyRecord
        BY <2>1 DEF KeyRegistry
      <3>2. keys[k].material \in Seq(Nat)
        BY <3>1 DEF KeyRecord
      <3>3. keys[k].material[j] \in Nat
        BY <3>2
      <3>4. QED BY <2>1, <3>3 DEF KeyRegistry
    <2>3. Range(keys[k].material) \subseteq {n \in Nat : n < material}
      BY <2>2 DEF Range
    <2>4. QED BY <2>1, <2>3
  <1>4. /\ objects' \in [1..MaxObjects -> [id : KeyId, owner : KeyOwner] \cup {NoObject}]
        /\ ended(how) => objects' = NoObjects
    BY <1>1, <1>3, PersistTypes DEF NoObjects
  <1>5. KeyTypes'
    <2>1. /\ gone' \subseteq KeyId /\ undo' \in KeyId \cup {no_key}
          /\ sealed' \subseteq [id : KeyId, version : Nat \ {0}, number : Nat]
      BY <1>2, <1>3 DEF KeyTypes
    <2>2. QED BY <1>1, <1>3, <1>4, <2>1, PersistTypes DEF KeyTypes
  <1>6. /\ KeyRegistry(tombstone(k), material')
        /\ Spares(tombstone(k), dropped) /\ Spares(tombstone(k), lost)
        /\ Spares(keys, {})
    BY <1>1, TombstonedKeys, Zenon DEF Spares
  <1>7. ASSUME key_file.doubt # "exposed", replaces(how)
        PROVE  KeepsKeys(tombstone(k), sealed', gone')
    <2>1. KeepsKeys(tombstone(k), {c \in sealed : c.id # k}, gone \cup {k})
      BY <1>7, ServedKeys, TombstonedKeys
    <2>2. QED BY <1>2, <1>7, <2>1 DEF KeepsKeys
  <1>8. sealed' \subseteq sealed /\ (how # "synced" => gone' = gone)
    BY <1>2
  <1>9. QED
    BY <1>1, <1>3, <1>4, <1>5, <1>6, <1>7, <1>8, PersistKeys

\* A held object names a key that is there and not destroyed.
LEMMA HeldKey ==
  ASSUME KeyInv, NEW i \in 1..MaxObjects, held(i)
  PROVE  /\ objects[i].id \in KeyId /\ objects[i].owner \in KeyOwner
         /\ keys[objects[i].id].owner # nobody /\ ~keys[objects[i].id].destroyed
  BY KeyConstants DEF KeyInv, KeyTypes, held, authorize_record

\* destroy(): the objects of the key go with it.
LEMMA DestroyKeys ==
  ASSUME KeyInv, NEW i \in 1..MaxObjects, destroy(i)
  PROVE  KeyInv'
  <1>1. /\ serving /\ held(i) /\ undo = no_key /\ undo' = no_key /\ material' = material
        /\ \E how \in Outcome :
              /\ destroy_key(objects[i].id, how)
              /\ objects' = IF ended(how) THEN NoObjects
                        ELSE IF how = "synced"
                             THEN [j \in 1..MaxObjects |-> IF objects[j].id = objects[i].id
                                                           THEN NoObject ELSE objects[j]]
                             ELSE objects
    BY DEF destroy, idle, outcomes
  <1>2. PICK how \in Outcome :
              /\ destroy_key(objects[i].id, how)
              /\ objects' = IF ended(how) THEN NoObjects
                        ELSE IF how = "synced"
                             THEN [j \in 1..MaxObjects |-> IF objects[j].id = objects[i].id
                                                           THEN NoObject ELSE objects[j]]
                             ELSE objects
    BY <1>1
  <1>3. objects \in [1..MaxObjects -> [id : KeyId, owner : KeyOwner] \cup {NoObject}]
    BY DEF KeyInv, KeyTypes
  <1>4. objects' \in [1..MaxObjects -> [id : KeyId, owner : KeyOwner] \cup {NoObject}]
    BY <1>2, <1>3 DEF NoObjects
  <1>5. PICK k \in KeyId : k = objects[i].id
    BY <1>1, HeldKey
  <1>6. keys[k].owner # nobody
    BY <1>1, <1>5, HeldKey
  <1>7. destroy_key(k, how)
    BY <1>2, <1>5
  <1>8. QED BY <1>1, <1>4, <1>6, <1>7, DestroyedKeys

\* undo_create: the key that no answer named is destroyed.
LEMMA UndoKeys ==
  ASSUME KeyInv, undo_create
  PROVE  KeyInv'
  <1>1. PICK how \in Outcome :
           destroy_key(undo, how) /\ (~ended(how) => objects' = objects) /\ undo' = no_key
    BY DEF undo_create, outcomes
  <1>2. /\ serving /\ undo \in KeyId /\ keys[undo].owner # nobody /\ material' = material
        /\ objects \in [1..MaxObjects -> [id : KeyId, owner : KeyOwner] \cup {NoObject}]
    BY DEF undo_create, KeyInv, KeyTypes
  <1>3. PICK k \in KeyId : k = undo
    BY <1>2
  <1>4. destroy_key(k, how) /\ keys[k].owner # nobody
    BY <1>1, <1>2, <1>3
  <1>5. QED BY <1>1, <1>2, <1>4, DestroyedKeys

\* rotate(): the candidate has one more version of the key.
LEMMA RotateKeys ==
  ASSUME KeyInv, NEW i \in 1..MaxObjects, rotate(i)
  PROVE  KeyInv'
  <1>1. /\ serving /\ undo = no_key /\ held(i) /\ material' = material + 1
        /\ sealed' = sealed /\ gone' = gone
    BY DEF rotate, idle
  <1>2. PICK k \in KeyId : k = objects[i].id
    BY <1>1, HeldKey
  <1>3. keys[k].owner # nobody /\ ~keys[k].destroyed
    BY <1>1, <1>2, HeldKey
  <1>4. PICK how \in Outcome :
          /\ persist(rotate_adopt_generated(k), how, {material}, {})
          /\ ~ended(how) => objects' = objects /\ undo' = undo
    BY <1>2 DEF rotate, outcomes
  <1>5. /\ KeyTypes /\ material \in Nat /\ material' \in Nat /\ material <= material'
        /\ {material} \subseteq {n \in Nat : n < material'}
    BY <1>1 DEF KeyInv, KeyTypes
  <1>6. /\ ended(how) => objects' = NoObjects
        /\ undo' = no_key
        /\ objects' \in [1..MaxObjects -> [id : KeyId, owner : KeyOwner] \cup {NoObject}]
    <2>1. CASE ended(how)
      BY <1>4, <1>5, <2>1, PersistTypes DEF NoObjects
    <2>2. CASE ~ended(how)
      BY <1>1, <1>4, <1>5, <2>2 DEF KeyTypes
    <2>3. QED BY <2>1, <2>2
  <1>7. KeyTypes'
    BY <1>1, <1>4, <1>5, <1>6, PersistTypes DEF KeyTypes
  <1>8. PICK c : c = rotate_adopt_generated(k)
    OBVIOUS
  <1>9. /\ KeyRegistry(c, material + 1)
        /\ KeepsKeys(keys, sealed, gone) => KeepsKeys(c, sealed, gone)
        /\ Spares(keys, {material}) /\ Spares(c, dropped) /\ Spares(c, {})
    BY <1>1, <1>3, <1>8, RotatedKeys DEF Spares
  <1>10. QED
    <2>1. key_file.doubt # "exposed" => KeepsKeys(keys, sealed, gone)
      BY <1>1, ServedKeys
    <2>2. material <= material' /\ KeyRegistry(c, material')
      BY <1>1, <1>5, <1>9
    <2>3. QED BY <1>1, <1>4, <1>6, <1>7, <1>8, <1>9, <2>1, <2>2, PersistKeys

\* encrypt(): the ciphertext is under the last version of a key in memory, which is in
\* every snapshot that may be found.
LEMMA EncryptKeys ==
  ASSUME KeyInv, NEW i \in 1..MaxObjects, encrypt(i)
  PROVE  KeyInv'
  <1>1. /\ serving /\ held(i) /\ sealed' = sealed \cup {seal(objects[i].id)}
        /\ serving' = serving /\ keys' = keys /\ key_file' = key_file /\ material' = material
        /\ dropped' = dropped /\ enabled' = enabled /\ objects' = objects /\ undo' = undo
        /\ gone' = gone
    BY DEF encrypt, idle
  <1>2. PICK k \in KeyId : k = objects[i].id
    BY <1>1, HeldKey
  <1>3. keys[k].owner # nobody /\ ~keys[k].destroyed
    BY <1>1, <1>2, HeldKey
  <1>4. keys[k].material \in Seq(Nat) /\ keys[k].material # <<>>
    <2>1. keys[k] \in KeyRecord
      BY <1>1, ServedKeys DEF KeyRegistry
    <2>2. QED BY <1>1, <1>3, <2>1, ServedKeys DEF KeyRegistry, KeyRecord
  <1>5. PICK q \in Seq(Nat) : q = keys[k].material
    BY <1>4
  <1>6. Len(q) \in Nat \ {0} /\ q[Len(q)] \in Nat
    BY <1>4, <1>5
  <1>7. PICK c : c = [id |-> k, version |-> Len(q), number |-> q[Len(q)]]
    BY Zenon
  <1>8. sealed' = sealed \cup {c}
    BY <1>1, <1>2, <1>5, <1>7 DEF seal
  <1>9. /\ c \in [id : KeyId, version : Nat \ {0}, number : Nat]
        /\ c.id = k /\ c.version = Len(q) /\ c.number = q[Len(q)]
    BY <1>6, <1>7
  <1>10. readable(keys, c)
    BY <1>5, <1>6, <1>9 DEF readable
  <1>11. KeyTypes'
    BY <1>1, <1>8, <1>9 DEF KeyInv, KeyTypes
  <1>12. key_file.doubt # "exposed" => \A r \in may_find(key_file) : KeepsKeys(r, sealed', gone')
    <2>1. \A r \in may_find(key_file) : r = keys
      BY <1>1 DEF KeyInv, may_find, certain
    <2>2. key_file.doubt # "exposed" => KeepsKeys(keys, sealed', gone')
      BY <1>1, <1>8, <1>10, ServedKeys DEF KeepsKeys
    <2>3. QED BY <2>1, <2>2
  <1>13. certain(key_file)' = certain(key_file) /\ may_find(key_file)' = may_find(key_file)
    BY <1>1 DEF certain, may_find
  <1>14. QED BY <1>1, <1>11, <1>12, <1>13, Zenon DEF KeyInv

\* The steps that only change which objects there are and which owners are admitted.
LEMMA ObjectsKeys ==
  ASSUME KeyInv, serving,
         objects' \in [1..MaxObjects -> [id : KeyId, owner : KeyOwner] \cup {NoObject}],
         enabled' \subseteq KeyOwner,
         UNCHANGED <<serving, keys, key_file, material, dropped, undo, sealed, gone>>
  PROVE  KeyInv'
  <1>1. /\ serving' = serving /\ keys' = keys /\ key_file' = key_file /\ material' = material
        /\ dropped' = dropped /\ undo' = undo /\ sealed' = sealed /\ gone' = gone
    OBVIOUS
  <1>2. KeyTypes'
    BY <1>1 DEF KeyInv, KeyTypes
  <1>3. certain(key_file)' = certain(key_file) /\ may_find(key_file)' = may_find(key_file)
    BY <1>1 DEF certain, may_find
  <1>4. QED BY <1>1, <1>2, <1>3 DEF KeyInv

\* The process ends, by itself or with the power: memory goes, the snapshots stay, and
\* a power cut leaves one of those it may leave.
LEMMA EndsKeys ==
  ASSUME KeyInv, ends, UNCHANGED <<material, sealed, gone>>,
         \/ key_file' = key_file
         \/ \E s \in key_file.cut : key_file' = after_power_cut(key_file, s)
  PROVE  KeyInv'
  <1>1. /\ serving' = FALSE /\ dropped' = {} /\ undo' = no_key /\ objects' = NoObjects /\ enabled' = {}
        /\ material' = material /\ sealed' = sealed /\ gone' = gone
    BY DEF ends
  <1>2. /\ key_file'.cut \cup {key_file'.seen} \subseteq key_file.cut \cup {key_file.seen}
        /\ key_file'.doubt \in {"none", "relied", "exposed"}
        /\ key_file' = [seen |-> key_file'.seen, cut |-> key_file'.cut, doubt |-> key_file'.doubt]
        /\ key_file'.doubt # "exposed" =>
              key_file.doubt # "exposed" /\ may_find(key_file') \subseteq may_find(key_file)
    <2>1. CASE key_file' = key_file
      BY <2>1 DEF KeyInv, KeyTypes
    <2>2. CASE \E s \in key_file.cut : key_file' = after_power_cut(key_file, s)
      <3>1. PICK s \in key_file.cut :
               key_file' = [seen |-> s, cut |-> {s},
                            doubt |-> IF key_file.doubt = "none" THEN "none" ELSE "exposed"]
        BY <2>2, Zenon DEF after_power_cut
      <3>2. /\ key_file'.seen = s /\ key_file'.cut = {s}
            /\ key_file'.doubt = IF key_file.doubt = "none" THEN "none" ELSE "exposed"
        BY <3>1
      <3>3. QED BY <3>1, <3>2 DEF may_find
    <2>3. QED BY <2>1, <2>2
  <1>3. KeyTypes'
    BY <1>1, <1>2, Zenon DEF KeyInv, KeyTypes, NoObjects
  <1>4. QED BY <1>1, <1>2, <1>3 DEF KeyInv

\* start_service: the new process reads the visible snapshot.
LEMMA StartKeys ==
  ASSUME KeyInv, start_service
  PROVE  KeyInv'
  <1>1. /\ ~serving /\ serving' = TRUE /\ keys' = key_file.seen /\ key_file' = opened(key_file)
        /\ material' = material /\ dropped' = dropped /\ enabled' = enabled /\ objects' = objects
        /\ undo' = undo /\ sealed' = sealed /\ gone' = gone
    BY DEF start_service
  <1>2. dropped = {} /\ undo = no_key
    BY <1>1 DEF KeyInv
  <1>3. key_file = [seen |-> key_file.seen, cut |-> key_file.cut, doubt |-> key_file.doubt]
    BY DEF KeyInv, KeyTypes
  <1>4. /\ key_file'.seen = key_file.seen /\ key_file'.cut = key_file.cut
        /\ key_file'.doubt = IF key_file.doubt = "none" /\ ~certain(key_file) THEN "relied"
                             ELSE key_file.doubt
        /\ key_file' = [seen |-> key_file'.seen, cut |-> key_file'.cut, doubt |-> key_file'.doubt]
    BY <1>1, <1>3 DEF opened
  <1>5. KeyTypes'
    BY <1>1, <1>4 DEF KeyInv, KeyTypes
  <1>6. key_file'.doubt = "none" => certain(key_file)'
    BY <1>4 DEF certain
  <1>7. /\ key_file'.doubt # "exposed" => key_file.doubt # "exposed"
        /\ may_find(key_file') \subseteq may_find(key_file)
    BY <1>4 DEF may_find
  <1>8. Spares(keys', dropped')
    BY <1>1, <1>2 DEF Spares
  <1>9. QED BY <1>1, <1>2, <1>4, <1>5, <1>6, <1>7, <1>8 DEF KeyInv

\* One step per action of the service.
LEMMA NextKeys == KeyInv /\ [KeyNext]_key_vars => KeyInv'
  <1> SUFFICES ASSUME KeyInv, [KeyNext]_key_vars PROVE KeyInv'
    OBVIOUS
  <1> DEFINE ObjectTable == [1..MaxObjects -> [id : KeyId, owner : KeyOwner] \cup {NoObject}]
  <1>1. objects \in ObjectTable /\ enabled \subseteq KeyOwner
    BY DEF KeyInv, KeyTypes
  <1>2. ASSUME NEW o \in KeyOwner, NEW k \in KeyId, create(o, k) PROVE KeyInv'
    BY <1>2, CreateKeys
  <1>3. ASSUME NEW o \in KeyOwner, NEW k \in KeyId, open(o, k) PROVE KeyInv'
    <2>1. objects' \in ObjectTable /\ enabled' \subseteq KeyOwner
      BY <1>1, <1>3, Zenon DEF open
    <2>2. QED BY <1>3, <2>1, ObjectsKeys DEF open, idle
  <1>4. ASSUME NEW i \in 1..MaxObjects, destroy(i) \/ rotate(i) \/ encrypt(i) PROVE KeyInv'
    BY <1>4, DestroyKeys, RotateKeys, EncryptKeys
  <1>5. ASSUME NEW i \in 1..MaxObjects, clear_slot(i) PROVE KeyInv'
    <2>1. objects' \in ObjectTable /\ enabled' \subseteq KeyOwner
      BY <1>1, <1>5 DEF clear_slot
    <2>2. QED BY <1>5, <2>1, ObjectsKeys DEF clear_slot, idle
  <1>6. ASSUME NEW o \in KeyOwner, enable_application(o) PROVE KeyInv'
    <2>1. objects' \in ObjectTable /\ enabled' \subseteq KeyOwner
      BY <1>1, <1>6 DEF enable_application
    <2>2. QED BY <1>6, <2>1, ObjectsKeys DEF enable_application, idle
  <1>7. ASSUME NEW o \in KeyOwner, disable_application(o) PROVE KeyInv'
    <2>1. objects' \in ObjectTable /\ enabled' \subseteq KeyOwner
      BY <1>1, <1>7 DEF disable_application
    <2>2. QED BY <1>7, <2>1, ObjectsKeys DEF disable_application, idle
  <1>8. ASSUME ServiceEnds \/ KeyPowerCut PROVE KeyInv'
    BY <1>8, EndsKeys DEF ServiceEnds, KeyPowerCut
  <1>9. CASE UNCHANGED key_vars
    <2>1. /\ serving' = serving /\ keys' = keys /\ key_file' = key_file /\ material' = material
          /\ dropped' = dropped /\ enabled' = enabled /\ objects' = objects /\ undo' = undo
          /\ sealed' = sealed /\ gone' = gone
      BY <1>9 DEF key_vars
    <2>2. KeyTypes'
      BY <2>1 DEF KeyInv, KeyTypes
    <2>3. certain(key_file)' = certain(key_file) /\ may_find(key_file)' = may_find(key_file)
      BY <2>1 DEF certain, may_find
    <2>4. QED BY <2>1, <2>2, <2>3 DEF KeyInv
  <1>10. QED
    BY <1>2, <1>3, <1>4, <1>5, <1>6, <1>7, <1>8, <1>9, UndoKeys, StartKeys DEF KeyNext

\* A registry that reads a ciphertext and spares the dropped references has a live one.
LEMMA KeptFromKeyInv == KeyInv => KeysAreKept
  <1> SUFFICES ASSUME KeyInv, key_file.doubt # "exposed",
                      NEW r \in may_find(key_file) \cup (IF serving THEN {keys} ELSE {})
               PROVE  /\ \A c \in sealed : readable(r, c) /\ c.number \notin dropped
                      /\ \A k \in gone : r[k].destroyed
    BY DEF KeysAreKept
  <1>1. r \in may_find(key_file) /\ (serving => r = keys)
    BY DEF KeyInv, may_find, certain
  <1>2. KeepsKeys(r, sealed, gone)
    BY <1>1 DEF KeyInv
  <1>3. ASSUME NEW c \in sealed PROVE c.number \notin dropped
    <2>1. CASE ~serving
      BY <2>1 DEF KeyInv
    <2>2. CASE serving
      <3>1. KeyRegistry(keys, material) /\ Spares(keys, dropped) /\ readable(keys, c)
            /\ c.id \in KeyId /\ c.version \in Nat \ {0}
        BY <1>1, <1>2, <2>2, ServedKeys DEF KeepsKeys
      <3>2. c.version \in DOMAIN keys[c.id].material /\ keys[c.id].material[c.version] = c.number
        BY <3>1, ReadableMaterial
      <3>3. QED BY <3>1, <3>2 DEF Spares
    <2>3. QED BY <2>1, <2>2
  <1>4. QED BY <1>2, <1>3 DEF KeepsKeys

\* Whatever is created, rotated, destroyed, killed or cut off in between, a ciphertext
\* the Key service handed out stays readable until its key is destroyed, and a key
\* destroyed with success stays destroyed (persist_candidate(), rotate, destroy).
THEOREM KeysStayKept == KeySpec => []KeysAreKept
  <1>1. KeySpec => []KeyInv
    BY InitKeys, NextKeys, PTL DEF KeySpec
  <1>2. QED BY <1>1, KeptFromKeyInv, PTL
=============================================================================
