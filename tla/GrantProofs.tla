---------------------------- MODULE GrantProofs -----------------------------
(***************************************************************************)
(* Proofs about what was handed out and has to stay so, for any packages,  *)
(* signers, applications, users, principals, domains and table sizes.      *)
(*                                                                         *)
(* PackageStore: the registry in memory and the one a new process reads    *)
(* are among those a power cut may leave, and each of those owes the same  *)
(* to the last registry reported.                                          *)
(*                                                                         *)
(* PrincipalStore: what callers were told is in the records in memory,     *)
(* these are in the snapshot a new process would read, and, unless         *)
(* somebody worked on with a rename that was never synced, in every        *)
(* snapshot a power cut may leave.                                         *)
(*                                                                         *)
(* Connections: the two authorities know nothing of each other; that a     *)
(* session's lease outlives its grant rests on identifiers drawn once, on  *)
(* grants that are never honoured again once they are not, and on leases   *)
(* that are counted before a domain is shut down.                          *)
(***************************************************************************)
EXTENDS Registries, Connections, FiniteSetTheorems, TLAPS

Generation == [id : Nat, content : Content]

PackageRecord ==
    [signer : Signer \cup {"none"}, generations : Seq(Generation), active : Nat]

\* A registry that load_snapshot() accepts.
PackageRegistry(r) == r \in [PackageId -> PackageRecord] /\ packages_consistent(r)

\* What a snapshot owes to the last registry reported and the packages in doubt since.
Owes(r, last, touched) ==
    Continues(r, last) /\ \A p \in PackageId \ touched : r[p] = last[p]

\* The registry in memory and the one a new process reads are among those a power
\* cut may leave, and each of those owes the same.
PackageInv ==
    /\ package_file = [seen |-> package_file.seen, cut |-> package_file.cut,
                       doubt |-> package_file.doubt]
    /\ announced = [last |-> announced.last, touched |-> announced.touched]
    /\ package_file.seen \in package_file.cut
    /\ packages_open => packages \in package_file.cut
    /\ PackageRegistry(announced.last)
    /\ \A r \in package_file.cut :
          PackageRegistry(r) /\ Owes(r, announced.last, announced.touched)

\* Every registry owes nothing but itself to itself.
LEMMA OwesItself == ASSUME NEW r PROVE Owes(r, r, {})
  BY DEF Owes, Continues, BeginsWith, occupied

\* A beginning of a beginning.
LEMMA BeginsTransitive ==
  ASSUME NEW S, NEW a \in Seq(S), NEW b \in Seq(S), NEW c \in Seq(S),
         BeginsWith(b, a), BeginsWith(c, b)
  PROVE  BeginsWith(c, a)
  <1>1. /\ Len(a) \in Nat /\ Len(b) \in Nat /\ Len(c) \in Nat
        /\ DOMAIN a = 1..Len(a) /\ DOMAIN b = 1..Len(b)
    OBVIOUS
  <1>2. /\ Len(a) <= Len(b) /\ \A i \in DOMAIN a : b[i] = a[i]
        /\ Len(b) <= Len(c) /\ \A i \in DOMAIN b : c[i] = b[i]
    BY DEF BeginsWith
  <1>3. Len(a) <= Len(c)
    BY <1>1, <1>2
  <1>4. ASSUME NEW i \in DOMAIN a PROVE c[i] = a[i]
    <2>1. i \in DOMAIN b
      BY <1>1, <1>2
    <2>2. QED BY <1>2, <2>1
  <1>5. QED BY <1>3, <1>4 DEF BeginsWith

\* The store begins empty.
LEMMA InitPackages == PackageInit => PackageInv
  <1> SUFFICES ASSUME PackageInit PROVE PackageInv
    OBVIOUS
  <1>1. /\ announced = [last |-> NoPackages, touched |-> {}]
        /\ package_file = [seen |-> NoPackages, cut |-> {NoPackages}, doubt |-> "none"]
        /\ packages = NoPackages
    BY DEF PackageInit, new_file
  <1>2. NoPackage \in PackageRecord
    BY DEF NoPackage, PackageRecord
  <1>3. NoPackages \in [PackageId -> PackageRecord] /\ occupied(NoPackages) = {}
    BY <1>2 DEF NoPackages, occupied
  <1>4. PackageRegistry(NoPackages)
    BY <1>3 DEF PackageRegistry, packages_consistent
  <1>5. Owes(NoPackages, NoPackages, {})
    BY OwesItself
  <1>6. QED BY <1>1, <1>4, <1>5 DEF PackageInv

\* A candidate that changes one package, and keeps its owner and generations, owes
\* what the registry it was made from owes, with that package in doubt.
LEMMA CandidateOwes ==
  ASSUME NEW r, NEW c, NEW last, NEW touched, NEW p \in PackageId,
         PackageRegistry(r), PackageRegistry(c), PackageRegistry(last),
         Owes(r, last, touched),
         \A q \in PackageId \ {p} : c[q] = r[q],
         p \in occupied(r) => c[p].signer = r[p].signer
                              /\ BeginsWith(c[p].generations, r[p].generations)
  PROVE  Owes(c, last, touched \cup {q \in PackageId : c[q] # r[q]})
  <1>1. ASSUME NEW q \in occupied(last)
        PROVE  c[q].signer = last[q].signer /\ BeginsWith(c[q].generations, last[q].generations)
    <2>1. /\ q \in PackageId /\ r[q].signer = last[q].signer
          /\ BeginsWith(r[q].generations, last[q].generations)
      BY <1>1 DEF Owes, Continues, occupied
    <2>2. last[q].generations # <<>>
      BY <1>1 DEF PackageRegistry, packages_consistent
    <2>3. last[q] \in PackageRecord /\ r[q] \in PackageRecord /\ c[q] \in PackageRecord
      BY <2>1 DEF PackageRegistry
    <2>4. /\ last[q].generations \in Seq(Generation)
          /\ r[q].generations \in Seq(Generation)
          /\ c[q].generations \in Seq(Generation)
      BY <2>3 DEF PackageRecord
    <2>5. r[q].generations # <<>>
      BY <2>1, <2>2, <2>4 DEF BeginsWith
    <2>6. q \in occupied(r)
      BY <2>1, <2>5 DEF occupied, NoPackage
    <2>7. CASE q = p
      <3>1. c[q].signer = r[q].signer /\ BeginsWith(c[q].generations, r[q].generations)
        BY <2>6, <2>7
      <3>2. BeginsWith(c[q].generations, last[q].generations)
        BY <3>1, <2>1, <2>4, BeginsTransitive
      <3>3. QED BY <2>1, <3>1, <3>2
    <2>8. CASE q # p
      <3>1. c[q] = r[q]
        BY <2>1, <2>8
      <3>2. QED BY <2>1, <3>1
    <2>9. QED BY <2>7, <2>8
  <1>2. ASSUME NEW q \in PackageId \ (touched \cup {x \in PackageId : c[x] # r[x]})
        PROVE  c[q] = last[q]
    BY DEF Owes
  <1>3. QED BY <1>1, <1>2 DEF Owes, Continues

\* Publishing such a candidate: it is reported once the directory is synced, is in
\* doubt after any other rename, and is nowhere otherwise.
LEMMA PersistPackages ==
  ASSUME PackageInv, packages_open, NEW p \in PackageId, NEW c, PackageRegistry(c),
         \A q \in PackageId \ {p} : c[q] = packages[q],
         p \in occupied(packages) => c[p].signer = packages[p].signer
                                     /\ BeginsWith(c[p].generations, packages[p].generations),
         NEW how \in outcomes(package_file), persist_packages(c, how)
  PROVE  PackageInv'
  <1> DEFINE f == package_file
  <1> DEFINE doubtful == announced.touched \cup changed(c)
  <1>1. /\ f' = [seen  |-> IF replaces(how) THEN c ELSE f.seen,
                 cut   |-> IF how = "synced" THEN {c}
                           ELSE IF replaces(how) THEN f.cut \cup {c} ELSE f.cut,
                 doubt |-> doubt_after(f, how)]
        /\ packages_open' = ~ended(how)
        /\ packages' = IF ended(how) THEN NoPackages ELSE IF how = "synced" THEN c ELSE packages
        /\ how \in {"lost", "failed", "cut", "unsynced", "synced"}
    BY DEF persist_packages, written, outcomes, Outcome
  <1>2. announced' = IF how = "synced" THEN [last |-> c, touched |-> {}]
                     ELSE IF replaces(how) THEN [last |-> announced.last, touched |-> doubtful]
                     ELSE announced
    BY DEF persist_packages, PackageInv
  <1>3. /\ packages \in f.cut /\ f.seen \in f.cut /\ PackageRegistry(announced.last)
        /\ \A r \in f.cut : PackageRegistry(r) /\ Owes(r, announced.last, announced.touched)
    BY DEF PackageInv
  <1>4. f' = [seen |-> f'.seen, cut |-> f'.cut, doubt |-> f'.doubt]
        /\ announced' = [last |-> announced'.last, touched |-> announced'.touched]
    <2>1. announced = [last |-> announced.last, touched |-> announced.touched]
      BY DEF PackageInv
    <2>2. announced' = [last |-> announced'.last, touched |-> announced'.touched]
      BY <1>2, <2>1
    <2>3. QED BY <1>1, <2>2
  <1>5. CASE how = "synced"
    <2>1. /\ f'.seen = c /\ f'.cut = {c} /\ packages' = c
          /\ announced'.last = c /\ announced'.touched = {}
      BY <1>1, <1>2, <1>5 DEF replaces, ended
    <2>2. Owes(c, c, {})
      BY OwesItself
    <2>3. QED BY <1>4, <2>1, <2>2 DEF PackageInv
  <1>6. CASE how \in {"cut", "unsynced"}
    <2>1. /\ f'.seen = c /\ f'.cut = f.cut \cup {c}
          /\ packages_open' => packages' = packages
          /\ announced'.last = announced.last /\ announced'.touched = doubtful
      BY <1>1, <1>2, <1>6 DEF replaces, ended
    <2>2. Owes(c, announced.last, doubtful)
      BY <1>3, CandidateOwes DEF changed
    <2>3. ASSUME NEW r \in f.cut PROVE Owes(r, announced.last, doubtful)
      BY <1>3 DEF Owes
    <2>4. QED BY <1>3, <1>4, <2>1, <2>2, <2>3 DEF PackageInv
  <1>7. CASE how \in {"lost", "failed"}
    <2>1. /\ f'.seen = f.seen /\ f'.cut = f.cut /\ announced' = announced
          /\ packages_open' => packages' = packages
      BY <1>1, <1>2, <1>7 DEF replaces, ended
    <2>2. QED BY <1>3, <1>4, <2>1 DEF PackageInv
  <1>8. QED BY <1>1, <1>5, <1>6, <1>7

\* A generation newer than the last one keeps the order.
LEMMA AppendIncreasing ==
  ASSUME NEW gs \in Seq(Generation), NEW e \in Generation, Increasing(gs),
         gs # <<>> => gs[Len(gs)].id < e.id
  PROVE  Increasing(Append(gs, e))
  <1> DEFINE n == Len(gs)
             new == Append(gs, e)
  <1>1. /\ n \in Nat /\ Len(new) = n + 1 /\ new[n + 1] = e /\ DOMAIN gs = 1..n
        /\ DOMAIN new = 1..(n + 1) /\ \A k \in 1..n : new[k] = gs[k] /\ gs[k] \in Generation
        /\ (n > 0 => gs # <<>>)
    OBVIOUS
  <1> HIDE DEF new, n
  <1> SUFFICES ASSUME NEW i \in 1..(n + 1), NEW j \in 1..(n + 1), i < j
               PROVE  new[i].id < new[j].id
    BY <1>1 DEF Increasing, new
  <1>2. i \in 1..n /\ n \in 1..n /\ (i = n \/ i < n) /\ (j \in 1..n \/ j = n + 1)
    BY <1>1
  <1>3. new[i] = gs[i] /\ gs[i] \in Generation /\ gs[n] \in Generation
    BY <1>1, <1>2
  <1>4. PICK a, b, z : a = gs[i].id /\ b = gs[n].id /\ z = e.id
    OBVIOUS
  <1>5. a \in Nat /\ b \in Nat /\ z \in Nat
    BY <1>3, <1>4 DEF Generation
  <1>6. CASE j \in 1..n
    BY <1>1, <1>2, <1>3, <1>6 DEF Increasing
  <1>7. CASE j = n + 1
    <2>1. b < z
      <3>1. gs # <<>>
        BY <1>1, <1>2
      <3>2. gs[n].id < e.id
        BY <3>1 DEF n
      <3>3. QED BY <1>4, <3>2
    <2>2. i < n => a < b
      BY <1>1, <1>2, <1>4 DEF Increasing
    <2>3. a < z
      <3>1. i = n => a = b
        BY <1>4
      <3>2. a = b \/ a < b
        BY <1>2, <2>2, <3>1
      <3>3. QED BY <1>5, <2>1, <3>2
    <2>4. new[j] = e
      BY <1>1, <1>7
    <2>5. QED BY <1>3, <1>4, <2>3, <2>4
  <1>8. QED BY <1>2, <1>6, <1>7

\* A generation is staged: newer than the last one, under the same owner.
LEMMA StagePackages ==
  ASSUME PackageInv, NEW p \in PackageId, NEW s \in Signer, NEW g \in 1..MaxGeneration,
         NEW x \in Content, stage_generation(p, s, g, x)
  PROVE  PackageInv'
  <1> DEFINE gs == packages[p].generations
             new == Append(gs, [id |-> g, content |-> x])
  <1>1. PICK c : c = [packages EXCEPT ![p].signer = s, ![p].generations = new]
    OBVIOUS
  <1>2. PICK how \in outcomes(package_file) : persist_packages(c, how)
    BY <1>1 DEF stage_generation
  <1>3. packages_open /\ PackageRegistry(packages)
    BY DEF stage_generation, PackageInv
  <1>4. /\ packages \in [PackageId -> PackageRecord] /\ packages[p] \in PackageRecord
        /\ gs \in Seq(Generation) /\ packages[p].active \in Nat
        /\ g \in Nat /\ [id |-> g, content |-> x] \in Generation
    <2>1. packages \in [PackageId -> PackageRecord] /\ packages[p] \in PackageRecord
      BY <1>3 DEF PackageRegistry
    <2>2. gs \in Seq(Generation) /\ packages[p].active \in Nat
      BY <2>1 DEF PackageRecord
    <2>3. g \in Nat
      OBVIOUS
    <2>4. [id |-> g, content |-> x] \in Generation
      BY <2>3 DEF Generation
    <2>5. QED BY <2>1, <2>2, <2>3, <2>4
  <1>5. /\ Len(gs) \in Nat /\ Len(new) = Len(gs) + 1 /\ new[Len(new)] = [id |-> g, content |-> x]
        /\ DOMAIN gs = 1..Len(gs) /\ DOMAIN new = 1..Len(new)
        /\ \A i \in 1..Len(gs) : new[i] = gs[i]
        /\ new \in Seq(Generation) /\ new # <<>>
    <2>1. PICK v : v = [id |-> g, content |-> x]
      OBVIOUS
    <2>2. v \in Generation /\ gs \in Seq(Generation) /\ new = Append(gs, v)
      BY <1>4, <2>1
    <2> HIDE DEF gs, new
    <2>3. /\ Len(gs) \in Nat /\ Len(new) = Len(gs) + 1 /\ new[Len(new)] = v
          /\ DOMAIN gs = 1..Len(gs) /\ DOMAIN new = 1..Len(new)
          /\ \A i \in 1..Len(gs) : new[i] = gs[i]
          /\ new \in Seq(Generation) /\ new # <<>>
      BY <2>2
    <2>4. QED BY <2>1, <2>3
  <1>6. c[p] = [signer |-> s, generations |-> new, active |-> packages[p].active]
    BY <1>1, <1>4 DEF PackageRecord
  <1>7. \A q \in PackageId \ {p} : c[q] = packages[q]
    BY <1>1, <1>4
  <1>8. c \in [PackageId -> PackageRecord]
    <2>1. c[p] \in PackageRecord
      BY <1>4, <1>5, <1>6 DEF PackageRecord
    <2>2. DOMAIN c = PackageId /\ c = [q \in PackageId |-> c[q]]
      BY <1>1, <1>4
    <2>3. QED BY <1>4, <1>7, <2>1, <2>2
  <1> HIDE DEF new, gs
  <1>9. Increasing(gs) /\ (packages[p].active # 0 => HasGeneration(gs, packages[p].active))
    <2>1. CASE p \in occupied(packages)
      BY <1>3, <2>1 DEF PackageRegistry, packages_consistent, gs
    <2>2. CASE p \notin occupied(packages)
      <3>1. gs = <<>> /\ packages[p].active = 0
        BY <2>2 DEF occupied, NoPackage, gs
      <3>2. QED BY <3>1 DEF Increasing
    <2>3. QED BY <2>1, <2>2
  <1>10. gs # <<>> => gs[Len(gs)].id < g
    BY DEF stage_generation, gs
  <1>11. Increasing(new)
    BY <1>4, <1>9, <1>10, AppendIncreasing DEF new
  <1>12. packages[p].active # 0 => HasGeneration(new, packages[p].active)
    BY <1>5, <1>9 DEF HasGeneration
  <1>13. PackageRegistry(c)
    <2> SUFFICES ASSUME NEW q \in occupied(c)
                 PROVE  /\ c[q].generations # <<>> /\ Increasing(c[q].generations)
                        /\ c[q].active # 0 => HasGeneration(c[q].generations, c[q].active)
      BY <1>8 DEF PackageRegistry, packages_consistent
    <2>1. CASE q = p
      BY <1>5, <1>6, <1>11, <1>12, <2>1
    <2>2. CASE q # p
      BY <1>3, <1>7, <2>2 DEF PackageRegistry, packages_consistent, occupied
    <2>3. QED BY <2>1, <2>2
  <1>14. p \in occupied(packages) => packages[p].signer = s
    BY DEF stage_generation
  <1>15. BeginsWith(c[p].generations, gs)
    BY <1>5, <1>6 DEF BeginsWith
  <1>16. p \in occupied(packages) => c[p].signer = packages[p].signer
    BY <1>6, <1>14
  <1>17. QED BY <1>2, <1>3, <1>7, <1>13, <1>15, <1>16, PersistPackages DEF gs

\* A generation there is becomes the active one, or none is.
LEMMA SelectPackages ==
  ASSUME PackageInv, packages_open, NEW p \in occupied(packages), NEW g \in Nat,
         g # 0 => HasGeneration(packages[p].generations, g),
         NEW how \in outcomes(package_file),
         persist_packages([packages EXCEPT ![p].active = g], how)
  PROVE  PackageInv'
  <1>1. PICK c : c = [packages EXCEPT ![p].active = g]
    OBVIOUS
  <1>2. PackageRegistry(packages) /\ p \in PackageId
    BY DEF PackageInv, occupied
  <1>3. packages \in [PackageId -> PackageRecord] /\ packages[p] \in PackageRecord
    BY <1>2 DEF PackageRegistry
  <1>4. /\ c[p] = [packages[p] EXCEPT !.active = g]
        /\ \A q \in PackageId \ {p} : c[q] = packages[q]
        /\ c \in [PackageId -> PackageRecord]
    BY <1>1, <1>2, <1>3 DEF PackageRecord
  <1>5. /\ c[p].generations = packages[p].generations /\ c[p].active = g
        /\ c[p].signer = packages[p].signer
    BY <1>3, <1>4 DEF PackageRecord
  <1>6. packages[p].generations # <<>> /\ Increasing(packages[p].generations)
    BY <1>2 DEF PackageRegistry, packages_consistent
  <1>7. PackageRegistry(c)
    <2> SUFFICES ASSUME NEW q \in occupied(c)
                 PROVE  /\ c[q].generations # <<>> /\ Increasing(c[q].generations)
                        /\ c[q].active # 0 => HasGeneration(c[q].generations, c[q].active)
      BY <1>4 DEF PackageRegistry, packages_consistent
    <2>1. CASE q = p
      BY <1>5, <1>6, <2>1
    <2>2. CASE q # p
      BY <1>2, <1>4, <2>2 DEF PackageRegistry, packages_consistent, occupied
    <2>3. QED BY <2>1, <2>2
  <1>8. BeginsWith(c[p].generations, packages[p].generations)
    <2>1. packages[p].generations \in Seq(Generation)
      BY <1>3 DEF PackageRecord
    <2>2. QED BY <1>5, <2>1 DEF BeginsWith
  <1>9. QED BY <1>1, <1>2, <1>4, <1>5, <1>7, <1>8, PersistPackages

\* A new process reads the snapshot, ends, or is cut off with the power.
LEMMA RestartPackages ==
  ASSUME PackageInv, open_packages \/ PackageProcessEnds \/ PackagePowerCut
  PROVE  PackageInv'
  <1> DEFINE f == package_file
  <1>1. f = [seen |-> f.seen, cut |-> f.cut, doubt |-> f.doubt]
    BY DEF PackageInv
  <1>2. CASE open_packages
    <2>1. /\ packages' = f.seen /\ announced' = announced
          /\ f' = [f EXCEPT !.doubt = IF f.doubt = "none" /\ ~certain(f) THEN "relied" ELSE f.doubt]
      BY <1>2, <1>1 DEF open_packages, opened
    <2>2. /\ f'.seen = f.seen /\ f'.cut = f.cut
          /\ f' = [seen |-> f'.seen, cut |-> f'.cut, doubt |-> f'.doubt]
      BY <1>1, <2>1
    <2>3. QED BY <2>1, <2>2 DEF PackageInv
  <1>3. CASE PackageProcessEnds
    BY <1>3 DEF PackageProcessEnds, PackageInv
  <1>4. CASE PackagePowerCut
    <2>1. PICK s \in f.cut : f' = after_power_cut(f, s)
      BY <1>4 DEF PackagePowerCut
    <2>2. /\ f'.seen = s /\ f'.cut = {s}
          /\ f' = [seen |-> f'.seen, cut |-> f'.cut, doubt |-> f'.doubt]
      BY <2>1 DEF after_power_cut
    <2>3. ~packages_open' /\ announced' = announced
      BY <1>4 DEF PackagePowerCut
    <2>4. QED BY <2>1, <2>2, <2>3 DEF PackageInv
  <1>5. QED BY <1>2, <1>3, <1>4

\* Every step keeps PackageInv.
LEMMA NextPackages == ASSUME PackageInv, [PackageNext]_package_vars PROVE PackageInv'
  <1>1. ASSUME NEW p \in PackageId, NEW s \in Signer, NEW g \in 1..MaxGeneration, NEW x \in Content,
               stage_generation(p, s, g, x)
        PROVE  PackageInv'
    BY <1>1, StagePackages
  <1>2. ASSUME NEW p \in PackageId, NEW s \in Signer, NEW g \in 1..MaxGeneration, activate(p, s, g)
        PROVE  PackageInv'
    <2>1. /\ packages_open /\ p \in occupied(packages) /\ HasGeneration(packages[p].generations, g)
          /\ g \in Nat
          /\ \E how \in outcomes(package_file) : persist_packages([packages EXCEPT ![p].active = g], how)
      BY <1>2 DEF activate
    <2>2. QED BY <2>1, SelectPackages
  <1>3. ASSUME NEW p \in PackageId, NEW s \in Signer, uninstall(p, s) PROVE PackageInv'
    <2>1. /\ packages_open /\ p \in occupied(packages) /\ 0 \in Nat
          /\ \E how \in outcomes(package_file) : persist_packages([packages EXCEPT ![p].active = 0], how)
      BY <1>3 DEF uninstall
    <2>2. QED BY <2>1, SelectPackages
  <1>4. CASE UNCHANGED package_vars
    BY <1>4 DEF package_vars, PackageInv
  <1>5. QED BY <1>1, <1>2, <1>3, <1>4, RestartPackages DEF PackageNext

\* What an operation of the package registry reported holds in memory and in every
\* snapshot a process that ends or a power cut may leave (core/ospkg
\* persistence_linux.cpp), for any packages, signers, contents and capacities.
THEOREM PackagesStayKept == PackageSpec => []PackagesAreKept
  <1>1. PackageInv => PackagesAreKept
    <2> SUFFICES ASSUME PackageInv PROVE PackagesAreKept
      OBVIOUS
    <2>1. \A r \in package_file.cut : PackageRegistry(r) /\ Owes(r, announced.last, announced.touched)
      BY DEF PackageInv
    <2>2. /\ package_file.seen \in package_file.cut
          /\ packages_open => packages \in package_file.cut
      BY DEF PackageInv
    <2>3. QED BY <2>1, <2>2 DEF PackagesAreKept, PackageRegistry, Owes
  <1>2. QED BY InitPackages, NextPackages, <1>1, PTL DEF PackageSpec

-----------------------------------------------------------------------------
\* Records that load() accepts.
Sound(s) ==
    /\ s.next \in Nat /\ \A k \in DOMAIN s.records : s.records[k] \in Nat
    /\ consistent(s)

\* What t records, s records.
Contains(s, t) ==
    \A k \in DOMAIN t.records : k \in DOMAIN s.records /\ s.records[k] = t.records[k]

\* Every allocation callers were told of is recorded in s.
Keeps(s, told) == \A g \in told : g[1] \in DOMAIN s.records /\ s.records[g[1]] = g[2]

PrincipalInv ==
    /\ principal_file = [seen |-> principal_file.seen, cut |-> principal_file.cut,
                         doubt |-> principal_file.doubt]
    /\ principal_file.doubt \in {"none", "relied", "exposed"}
    /\ principals_open \in BOOLEAN
    /\ principal_file.doubt # "exposed" =>
          /\ Sound(principal_file.seen)
          /\ principals_open => /\ Sound(principals) /\ Keeps(principals, handed)
                                /\ Contains(principal_file.seen, principals)
          /\ ~principals_open => Keeps(principal_file.seen, handed)
    /\ principal_file.doubt = "none" =>
          \A s \in principal_file.cut :
             /\ Sound(s) /\ Keeps(s, handed)
             /\ principals_open => Contains(s, principals)

\* The records with the next number given to one more application and user.
Candidate(k) ==
    [records |-> [l \in DOMAIN principals.records \cup {k} |->
                    IF l = k THEN principals.next ELSE principals.records[l]],
     next |-> principals.next + 1]

\* The store begins without records and nobody was told anything.
LEMMA InitPrincipals == PrincipalInit => PrincipalInv
  <1> SUFFICES ASSUME PrincipalInit PROVE PrincipalInv
    OBVIOUS
  <1>1. /\ principals = NoRecords /\ handed = {} /\ principals_open = TRUE
        /\ principal_file = [seen |-> NoRecords, cut |-> {NoRecords}, doubt |-> "none"]
    BY DEF PrincipalInit, new_file
  <1>2. NoRecords.next = 1 /\ DOMAIN NoRecords.records = {}
    BY DEF NoRecords
  <1>3. Sound(NoRecords) /\ Contains(NoRecords, NoRecords)
    BY <1>2 DEF Sound, Contains, consistent
  <1>4. Keeps(NoRecords, handed)
    BY <1>1 DEF Keeps
  <1>5. QED BY <1>1, <1>3, <1>4 DEF PrincipalInv

\* Containing is reflexive, and keeps what was kept.
LEMMA ContainersKeep ==
  ASSUME NEW s, NEW t, NEW told
  PROVE  Contains(s, s) /\ (Contains(s, t) /\ Keeps(t, told) => Keeps(s, told))
  BY DEF Contains, Keeps

\* One more application and user under a number nobody has.
LEMMA CandidateSound ==
  ASSUME Sound(principals), NEW k, k \notin DOMAIN principals.records
  PROVE  /\ Sound(Candidate(k)) /\ Contains(Candidate(k), principals)
         /\ k \in DOMAIN Candidate(k).records /\ Candidate(k).records[k] = principals.next
  <1> DEFINE c == Candidate(k)
  <1>1. /\ DOMAIN c.records = DOMAIN principals.records \cup {k}
        /\ c.next = principals.next + 1 /\ c.records[k] = principals.next
        /\ \A l \in DOMAIN principals.records : c.records[l] = principals.records[l]
    BY DEF Candidate
  <1> HIDE DEF c
  <1>2. Contains(c, principals)
    BY <1>1 DEF Contains
  <1>3. c.next \in Nat /\ \A l \in DOMAIN c.records : c.records[l] \in Nat /\ c.records[l] < c.next
    BY <1>1 DEF Sound, consistent
  <1>4. \A l, m \in DOMAIN c.records : c.records[l] = c.records[m] => l = m
    BY <1>1 DEF Sound, consistent
  <1>5. Sound(c)
    BY <1>3, <1>4 DEF Sound, consistent
  <1>6. QED BY <1>1, <1>2, <1>5 DEF c

\* A new process reads the snapshot; if that may still be undone, it relies on it.
LEMMA OpenPrincipals == ASSUME PrincipalInv, open_principals PROVE PrincipalInv'
  <1> DEFINE f == principal_file
  <1>1. /\ principals_open = FALSE /\ principals_open' = TRUE /\ principals' = f.seen
        /\ handed' = handed
        /\ f' = [seen |-> f.seen, cut |-> f.cut,
                 doubt |-> IF f.doubt = "none" /\ ~certain(f) THEN "relied" ELSE f.doubt]
    BY DEF open_principals, opened, PrincipalInv
  <1>2. f'.seen = f.seen /\ f'.cut = f.cut
        /\ f'.doubt \in {"none", "relied", "exposed"}
        /\ (f'.doubt # "exposed" => f.doubt # "exposed")
        /\ (f'.doubt = "none" => f.doubt = "none" /\ f.cut = {f.seen})
        /\ f' = [seen |-> f'.seen, cut |-> f'.cut, doubt |-> f'.doubt]
    BY <1>1 DEF PrincipalInv, certain
  <1>3. f.doubt # "exposed" => Sound(f.seen) /\ Keeps(f.seen, handed)
    BY <1>1 DEF PrincipalInv
  <1>4. Contains(f.seen, f.seen)
    BY ContainersKeep
  <1>5. QED BY <1>1, <1>2, <1>3, <1>4 DEF PrincipalInv

\* A caller asks again.
LEMMA KnownPrincipals ==
  ASSUME PrincipalInv, principals_open, NEW k, known(k),
         handed' = handed \cup {<<k, principals.records[k]>>},
         UNCHANGED <<principals, principal_file, principals_open>>
  PROVE  PrincipalInv'
  <1>1. ASSUME NEW s, Keeps(s, handed), Contains(s, principals) PROVE Keeps(s, handed')
    BY <1>1 DEF Keeps, Contains, known
  <1>2. Contains(principals, principals)
    BY ContainersKeep
  <1>3. QED BY <1>1, <1>2 DEF PrincipalInv

\* A number is given out: the caller is told once the snapshot is synced, and
\* every other outcome leaves memory, or ends the process.
LEMMA AllocatePrincipals ==
  ASSUME PrincipalInv, principals_open, NEW k, ~known(k),
         NEW how \in outcomes(principal_file),
         persist_principals(Candidate(k), how),
         handed' = IF how = "synced" THEN handed \cup {<<k, principals.next>>} ELSE handed
  PROVE  PrincipalInv'
  <1> DEFINE f == principal_file
  <1>1. PICK c : c = Candidate(k)
    OBVIOUS
  <1>2. /\ f' = [seen  |-> IF replaces(how) THEN c ELSE f.seen,
                 cut   |-> IF how = "synced" THEN {c}
                           ELSE IF replaces(how) THEN f.cut \cup {c} ELSE f.cut,
                 doubt |-> doubt_after(f, how)]
        /\ principals_open' = ~ended(how)
        /\ principals' = IF ended(how) THEN NoRecords ELSE IF how = "synced" THEN c ELSE principals
        /\ how \in {"lost", "failed", "cut", "unsynced", "synced"}
    BY <1>1 DEF persist_principals, written, outcomes, Outcome
  <1>3. ASSUME f.doubt # "exposed"
        PROVE  /\ Sound(c) /\ Contains(c, principals) /\ Contains(c, c)
               /\ Keeps(c, handed) /\ Keeps(c, handed')
               /\ Sound(f.seen) /\ Keeps(f.seen, handed) /\ Contains(f.seen, principals)
               /\ Sound(principals) /\ Keeps(principals, handed)
    <2>1. /\ Sound(principals) /\ Keeps(principals, handed) /\ Sound(f.seen)
          /\ Contains(f.seen, principals)
      BY <1>3 DEF PrincipalInv
    <2>2. /\ Sound(c) /\ Contains(c, principals)
          /\ k \in DOMAIN c.records /\ c.records[k] = principals.next
      BY <1>1, <2>1, CandidateSound DEF known
    <2>3. Keeps(c, handed) /\ Contains(c, c) /\ Keeps(f.seen, handed)
      BY <2>1, <2>2, ContainersKeep
    <2>4. Keeps(c, handed')
      BY <2>2, <2>3 DEF Keeps
    <2>5. QED BY <2>1, <2>2, <2>3, <2>4
  <1>4. f.doubt \in {"none", "relied", "exposed"}
    BY DEF PrincipalInv
  <1>5. f.doubt = "none" =>
          \A s \in f.cut : Sound(s) /\ Keeps(s, handed) /\ Contains(s, principals)
    BY DEF PrincipalInv
  <1>6. principals_open' \in BOOLEAN /\ f' = [seen |-> f'.seen, cut |-> f'.cut, doubt |-> f'.doubt]
    BY <1>2 DEF ended
  <1>7. CASE f.doubt = "exposed"
    <2>1. f'.doubt = "exposed"
      BY <1>2, <1>7 DEF doubt_after
    <2>2. QED BY <1>6, <2>1 DEF PrincipalInv
  <1>8. CASE f.doubt # "exposed" /\ how \in {"lost", "failed"}
    <2>1. /\ f'.seen = f.seen /\ f'.cut = f.cut /\ f'.doubt = f.doubt /\ handed' = handed
          /\ how = "failed" => principals_open' = TRUE /\ principals' = principals
          /\ how = "lost" => principals_open' = FALSE
      BY <1>2, <1>8 DEF doubt_after, replaces, ended
    <2>2. QED BY <1>3, <1>4, <1>5, <1>6, <1>8, <2>1 DEF PrincipalInv
  <1>9. CASE f.doubt # "exposed" /\ how = "cut"
    <2>1. /\ f'.seen = c /\ f'.cut = f.cut \cup {c} /\ f'.doubt = f.doubt /\ handed' = handed
          /\ principals_open' = FALSE
      BY <1>2, <1>9 DEF doubt_after, replaces, ended
    <2>2. QED BY <1>3, <1>4, <1>5, <1>6, <1>9, <2>1 DEF PrincipalInv
  <1>10. CASE f.doubt # "exposed" /\ how = "unsynced"
    <2>1. /\ f'.seen = c /\ f'.doubt = "relied" /\ handed' = handed
          /\ principals_open' = TRUE /\ principals' = principals
      BY <1>2, <1>10 DEF doubt_after, replaces, ended
    <2>2. QED BY <1>3, <1>6, <1>10, <2>1 DEF PrincipalInv
  <1>11. CASE f.doubt # "exposed" /\ how = "synced"
    <2>1. /\ f'.seen = c /\ f'.cut = {c} /\ f'.doubt = "none"
          /\ principals_open' = TRUE /\ principals' = c
      BY <1>2, <1>11 DEF doubt_after, replaces, ended
    <2>2. QED BY <1>3, <1>6, <1>11, <2>1 DEF PrincipalInv
  <1>12. QED BY <1>2, <1>7, <1>8, <1>9, <1>10, <1>11

\* The process ends, or the power is cut.
LEMMA EndPrincipals ==
  ASSUME PrincipalInv, PrincipalProcessEnds \/ PrincipalPowerCut
  PROVE  PrincipalInv'
  <1>1. CASE PrincipalProcessEnds
    <2>1. /\ principals_open /\ principals_open' = FALSE /\ handed' = handed
          /\ principal_file' = principal_file
      BY <1>1 DEF PrincipalProcessEnds
    <2>2. principal_file.doubt # "exposed" => Keeps(principal_file.seen, handed)
      BY <2>1, ContainersKeep DEF PrincipalInv
    <2>3. QED BY <2>1, <2>2 DEF PrincipalInv
  <1>2. CASE PrincipalPowerCut
    <2>1. PICK s \in principal_file.cut : principal_file' = after_power_cut(principal_file, s)
      BY <1>2 DEF PrincipalPowerCut
    <2>2. /\ principal_file' = [seen |-> s, cut |-> {s},
                doubt |-> IF principal_file.doubt = "none" THEN "none" ELSE "exposed"]
          /\ principals_open' = FALSE /\ handed' = handed
      BY <1>2, <2>1 DEF PrincipalPowerCut, after_power_cut
    <2>3. CASE principal_file.doubt = "none"
      <3>1. Sound(s) /\ Keeps(s, handed)
        BY <2>1, <2>3 DEF PrincipalInv
      <3>2. QED BY <2>2, <2>3, <3>1 DEF PrincipalInv
    <2>4. CASE principal_file.doubt # "none"
      BY <2>2, <2>4 DEF PrincipalInv
    <2>5. QED BY <2>3, <2>4
  <1>3. QED BY <1>1, <1>2

\* Whatever the sequence of launches, failed writes, restarts and power cuts: a
\* principal a caller was told of belongs to that application and user for ever,
\* unless the power was cut after somebody worked on with a rename whose directory
\* was never synced (principal_store_linux.cpp).
THEOREM PrincipalsStayForever == PrincipalSpec => []PrincipalsAreForever
  <1>1. PrincipalInv /\ [PrincipalNext]_principal_vars => PrincipalInv'
    <2> SUFFICES ASSUME PrincipalInv, [PrincipalNext]_principal_vars PROVE PrincipalInv'
      OBVIOUS
    <2>1. CASE open_principals
      BY <2>1, OpenPrincipals
    <2>2. ASSUME NEW k \in Key, resolve_or_allocate(k) PROVE PrincipalInv'
      <3>1. CASE known(k)
        BY <2>2, <3>1, KnownPrincipals DEF resolve_or_allocate
      <3>2. CASE ~known(k)
        <4>1. PICK how \in outcomes(principal_file) :
                /\ persist_principals(Candidate(k), how)
                /\ handed' = IF how = "synced" THEN handed \cup {<<k, principals.next>>} ELSE handed
          BY <2>2, <3>2 DEF resolve_or_allocate, Candidate
        <4>2. QED BY <2>2, <3>2, <4>1, AllocatePrincipals DEF resolve_or_allocate
      <3>3. QED BY <3>1, <3>2
    <2>3. CASE PrincipalProcessEnds \/ PrincipalPowerCut
      BY <2>3, EndPrincipals
    <2>4. CASE UNCHANGED principal_vars
      BY <2>4 DEF PrincipalInv, principal_vars
    <2>5. QED BY <2>1, <2>2, <2>3, <2>4 DEF PrincipalNext
  <1>2. PrincipalInv => PrincipalsAreForever
    <2> SUFFICES ASSUME PrincipalInv, principal_file.doubt # "exposed",
                        NEW g \in handed, NEW h \in handed
                 PROVE  g[1] = h[1] <=> g[2] = h[2]
      BY DEF PrincipalsAreForever
    <2>1. PICK s : Sound(s) /\ Keeps(s, handed)
      BY DEF PrincipalInv
    <2>2. QED BY <2>1 DEF Sound, Keeps, consistent
  <1>3. QED BY InitPrincipals, <1>1, <1>2, PTL DEF PrincipalSpec

-----------------------------------------------------------------------------
\* Both registries keep what they reported: a package generation that was announced
\* (core/ospkg), and the principal of an application for ever (core/osapp).
COROLLARY RegistriesStayKept == PackageSpec /\ PrincipalSpec => []RegistriesAreKept
  <1>1. PackagesAreKept /\ PrincipalsAreForever => RegistriesAreKept
    BY DEF RegistriesAreKept
  <1>2. QED BY PackagesStayKept, PrincipalsStayForever, <1>1, PTL

-----------------------------------------------------------------------------
\* One domain's lease authority.
AuthorityOK(a) ==
    /\ a.next \in Nat /\ a.generation \in Nat /\ IsFiniteSet(a.slots)
    /\ \A x \in a.slots : x.id \in Nat /\ x.id < a.next

LeasesOK == \A d \in Domains : AuthorityOK(leases[d])

\* The lease of a session or token was drawn from its domain's authority.
Drawn(lease) == /\ lease.domain \in Domains /\ lease.id \in Nat
                /\ lease.id < leases[lease.domain].next

\* No two holders present the same lease.
HoldersOK ==
    /\ \A s \in sessions : Drawn(s.lease)
    /\ \A t \in tokens : Drawn(t.lease)
    /\ \A s, r \in sessions : s.lease.domain = r.lease.domain /\ s.lease.id = r.lease.id => s = r
    /\ \A s \in sessions, t \in tokens :
          s.lease.domain = t.lease.domain => s.lease.id # t.lease.id

\* A grant is of the present lock and generation or of an earlier one.
GrantsOK ==
    /\ lock \in Nat /\ admission.next \in Nat /\ admission.generation \in Nat
    /\ admission = [next |-> admission.next, generation |-> admission.generation,
                    slots |-> admission.slots]
    /\ \A s \in sessions :
          /\ s.grant.data = TRUE
          /\ s.grant.id \in Nat /\ s.grant.id <= admission.next
          /\ s.grant.lock \in Nat /\ s.grant.lock <= lock
          /\ s.lease.domain = connection_subsystem_domain(s.grant.transport)

ConnectionInv ==
    /\ leases \in [Domains -> {leases[d] : d \in Domains}]
    /\ LeasesOK /\ HoldersOK /\ GrantsOK
    /\ \A g \in admission.slots : \E s \in sessions : s.grant = g
    /\ \A s \in sessions : active(s.grant) => lease_active(s.lease)

\* A session that is honoured holds its domain up.
LEMMA InvLeased == ConnectionInv => ConnectionsAreLeased
  BY DEF ConnectionInv, ConnectionsAreLeased, required_domain, GrantsOK, HoldersOK, Drawn

\* Nothing is admitted and nothing leased.
LEMMA InitConnections == ConnectionsInit => ConnectionInv
  <1> SUFFICES ASSUME ConnectionsInit PROVE ConnectionInv
    OBVIOUS
  <1>1. /\ leases = [d \in Domains |-> [next |-> 1, generation |-> 1, slots |-> {}]]
        /\ admission = [next |-> 0, generation |-> 1, slots |-> {}]
        /\ lock = 1 /\ sessions = {} /\ tokens = {}
    BY DEF ConnectionsInit
  <1>2. LeasesOK
    <2>1. ASSUME NEW d \in Domains PROVE AuthorityOK(leases[d])
      BY <1>1, FS_EmptySet DEF AuthorityOK
    <2>2. QED BY <2>1 DEF LeasesOK
  <1>3. HoldersOK /\ GrantsOK
    BY <1>1 DEF HoldersOK, GrantsOK
  <1>4. QED BY <1>1, <1>2, <1>3 DEF ConnectionInv

\* A lease is drawn: no holder has its identifier, and all others stay.
LEMMA AcquireLease ==
  ASSUME ConnectionInv, NEW d \in Domains, NEW p, NEW kind, leases' = acquire(d, p, kind)
  PROVE  /\ leases' \in [Domains -> {leases'[e] : e \in Domains}]
         /\ LeasesOK'
         /\ \A e \in Domains : /\ leases'[e].generation = leases[e].generation
                               /\ leases[e].slots \subseteq leases'[e].slots
                               /\ leases[e].next <= leases'[e].next
         /\ leases[d].next \in Nat /\ leases'[d].next = leases[d].next + 1
         /\ \E x \in leases'[d].slots : /\ x.id = leases[d].next
                                        /\ x.generation = leases[d].generation
  <1> DEFINE new == [id |-> leases[d].next, generation |-> leases[d].generation,
                     principal |-> p, kind |-> kind]
  <1>1. leases' = [leases EXCEPT ![d] =
                     [next |-> leases[d].next + 1, generation |-> leases[d].generation,
                      slots |-> leases[d].slots \cup {new}]]
    BY DEF acquire
  <1>2. leases \in [Domains -> {leases[e] : e \in Domains}]
    BY DEF ConnectionInv
  <1>3. /\ leases'[d].next = leases[d].next + 1
        /\ leases'[d].generation = leases[d].generation
        /\ leases'[d].slots = leases[d].slots \cup {new}
        /\ \A e \in Domains : e # d => leases'[e] = leases[e]
        /\ leases' \in [Domains -> {leases'[e] : e \in Domains}]
        /\ new.id = leases[d].next /\ new.generation = leases[d].generation
    BY <1>1, <1>2
  <1> HIDE DEF new
  <1>4. /\ leases[d].next \in Nat /\ leases[d].generation \in Nat /\ IsFiniteSet(leases[d].slots)
        /\ \A x \in leases[d].slots : x.id \in Nat /\ x.id < leases[d].next
    BY DEF ConnectionInv, LeasesOK, AuthorityOK
  <1>5. IsFiniteSet(leases'[d].slots)
    BY <1>3, <1>4, FS_AddElement
  <1>6. AuthorityOK(leases'[d])
    BY <1>3, <1>4, <1>5 DEF AuthorityOK
  <1>7. LeasesOK'
    BY <1>3, <1>6 DEF ConnectionInv, LeasesOK
  <1>8. ASSUME NEW e \in Domains
        PROVE  /\ leases'[e].generation = leases[e].generation
               /\ leases[e].slots \subseteq leases'[e].slots
               /\ leases[e].next <= leases'[e].next
    <2>1. leases[e].next \in Nat
      BY DEF ConnectionInv, LeasesOK, AuthorityOK
    <2>2. QED BY <1>3, <1>4, <2>1
  <1>9. QED BY <1>3, <1>4, <1>7, <1>8

\* A lease is released, or not: only slots with its identifier go.
LEMMA ReleaseLease ==
  ASSUME ConnectionInv, NEW lease, Drawn(lease),
         leases' = release_lease(lease) \/ leases' = leases
  PROVE  /\ leases' \in [Domains -> {leases'[e] : e \in Domains}]
         /\ LeasesOK'
         /\ \A e \in Domains :
               /\ leases'[e].generation = leases[e].generation
               /\ leases'[e].next = leases[e].next
               /\ \A x \in leases[e].slots :
                     x \notin leases'[e].slots => e = lease.domain /\ x.id = lease.id
  <1>1. leases \in [Domains -> {leases[e] : e \in Domains}] /\ lease.domain \in Domains
    BY DEF ConnectionInv, Drawn
  <1>2. CASE leases' = leases
    BY <1>1, <1>2 DEF ConnectionInv, LeasesOK
  <1>3. CASE leases' = release_lease(lease)
    <2> DEFINE d == lease.domain
               gone == lease_slot(lease)
    <2>1. leases' = [leases EXCEPT ![d] =
                       [next |-> leases[d].next, generation |-> leases[d].generation,
                        slots |-> leases[d].slots \ gone]]
      BY <1>3 DEF release_lease
    <2>2. \A x \in gone : x.id = lease.id
      BY DEF lease_slot
    <2> HIDE DEF gone
    <2>3. /\ leases'[d].next = leases[d].next /\ leases'[d].generation = leases[d].generation
          /\ leases'[d].slots = leases[d].slots \ gone
          /\ \A e \in Domains : e # d => leases'[e] = leases[e]
          /\ leases' \in [Domains -> {leases'[e] : e \in Domains}]
      BY <1>1, <2>1
    <2>4. /\ leases[d].next \in Nat /\ leases[d].generation \in Nat
          /\ IsFiniteSet(leases[d].slots)
          /\ \A x \in leases[d].slots : x.id \in Nat /\ x.id < leases[d].next
      BY <1>1 DEF ConnectionInv, LeasesOK, AuthorityOK
    <2>5. IsFiniteSet(leases'[d].slots)
      BY <2>3, <2>4, FS_Subset
    <2>6. AuthorityOK(leases'[d])
      BY <2>3, <2>4, <2>5 DEF AuthorityOK
    <2>7. LeasesOK'
      BY <2>3, <2>6 DEF ConnectionInv, LeasesOK
    <2>8. QED BY <2>2, <2>3, <2>7
  <1>4. QED BY <1>2, <1>3

\* A domain is shut down: it had no lease of its generation.
LEMMA QuiesceLeases ==
  ASSUME ConnectionInv, NEW d \in Domains, counts(d) = 0,
         leases' = advance_generation_after_quiesce(d)
  PROVE  /\ leases' \in [Domains -> {leases'[e] : e \in Domains}]
         /\ LeasesOK'
         /\ \A e \in Domains : leases'[e].next = leases[e].next
         /\ \A e \in Domains : e # d => leases'[e] = leases[e]
         /\ \A x \in leases[d].slots : x.generation # leases[d].generation
  <1>1. leases' = [leases EXCEPT ![d] = [next |-> leases[d].next,
                     generation |-> leases[d].generation + 1, slots |-> {}]]
    BY DEF advance_generation_after_quiesce
  <1>2. leases \in [Domains -> {leases[e] : e \in Domains}]
    BY DEF ConnectionInv
  <1>3. /\ leases'[d].next = leases[d].next
        /\ leases'[d].generation = leases[d].generation + 1
        /\ leases'[d].slots = {}
        /\ \A e \in Domains : e # d => leases'[e] = leases[e]
        /\ leases' \in [Domains -> {leases'[e] : e \in Domains}]
    BY <1>1, <1>2
  <1>4. leases[d].next \in Nat /\ leases[d].generation \in Nat /\ IsFiniteSet(leases[d].slots)
    BY DEF ConnectionInv, LeasesOK, AuthorityOK
  <1>5. AuthorityOK(leases'[d])
    BY <1>3, <1>4, FS_EmptySet DEF AuthorityOK
  <1>6. LeasesOK'
    BY <1>3, <1>5 DEF ConnectionInv, LeasesOK
  <1>7. \A x \in leases[d].slots : x.generation # leases[d].generation
    <2> DEFINE current == {x \in leases[d].slots : x.generation = leases[d].generation}
    <2>1. IsFiniteSet(current) /\ Cardinality(current) = 0
      BY <1>4, FS_Subset DEF counts
    <2>2. current = {}
      BY <2>1, FS_EmptySet
    <2>3. QED BY <2>2
  <1>8. QED BY <1>3, <1>6, <1>7

\* If no lease is touched and no old grant is honoured anew, all is as it was.
LEMMA AdmissionStep ==
  ASSUME ConnectionInv, UNCHANGED <<leases, sessions, tokens>>, GrantsOK',
         admission'.slots \subseteq admission.slots,
         \A s \in sessions : active(s.grant)' => active(s.grant)
  PROVE  ConnectionInv'
  <1>1. leases' \in [Domains -> {leases'[d] : d \in Domains}] /\ LeasesOK' /\ HoldersOK'
    BY DEF ConnectionInv, LeasesOK, HoldersOK, Drawn
  <1>2. \A g \in admission'.slots : \E s \in sessions' : s.grant = g
    BY DEF ConnectionInv
  <1>3. \A s \in sessions' : active(s.grant)' => lease_active(s.lease)'
    BY DEF ConnectionInv, lease_active, valid_for_domain, lease_slot
  <1>4. QED BY <1>1, <1>2, <1>3 DEF ConnectionInv

\* A connection is admitted with its lease, or leaves nothing behind.
LEMMA AdmitStep ==
  ASSUME ConnectionInv, NEW p, NEW t, NEW u, admit_connection_session(p, t, u)
  PROVE  ConnectionInv'
  <1>1. PICK d \in Domains : d = connection_subsystem_domain(t)
    BY DEF admit_connection_session
  <1>2. PICK g : g = Grant(t, u)
    OBVIOUS
  <1>3. PICK le : le = Token(d, leases[d].next)
    OBVIOUS
  <1>4. PICK n : n = [grant |-> g, principal |-> p, lease |-> le]
    OBVIOUS
  <1>5. /\ g.id = admission.next + 1 /\ g.generation = admission.generation /\ g.lock = lock
        /\ g.transport = t /\ g.data = TRUE
        /\ le.domain = d /\ le.id = leases[d].next /\ le.generation = leases[d].generation
        /\ n.grant = g /\ n.lease = le
        /\ lock' = lock /\ tokens' = tokens
    BY <1>2, <1>3, <1>4
       DEF Grant, Token, admit_connection_session, requires_user_authentication
  <1>6. GrantsOK /\ HoldersOK /\ LeasesOK
    BY DEF ConnectionInv
  <1>7. CASE can_acquire(d)
    <2>1. /\ admission' = admit(g) /\ leases' = acquire(d, p, "interactive")
          /\ sessions' = sessions \cup {n}
      BY <1>1, <1>2, <1>3, <1>4, <1>7 DEF admit_connection_session
    <2>2. /\ admission'.next = admission.next + 1
          /\ admission'.generation = admission.generation
          /\ admission'.slots = admission.slots \cup {g}
          /\ admission' = [next |-> admission'.next, generation |-> admission'.generation,
                           slots |-> admission'.slots]
      BY <1>5, <2>1 DEF admit
    <2>3. /\ leases' \in [Domains -> {leases'[e] : e \in Domains}]
          /\ LeasesOK'
          /\ \A e \in Domains : /\ leases'[e].generation = leases[e].generation
                                /\ leases[e].slots \subseteq leases'[e].slots
                                /\ leases[e].next <= leases'[e].next
                                /\ leases[e].next \in Nat /\ leases'[e].next \in Nat
          /\ leases[d].next \in Nat /\ leases'[d].next = leases[d].next + 1
          /\ \E x \in leases'[d].slots : /\ x.id = leases[d].next
                                         /\ x.generation = leases[d].generation
      BY <2>1, AcquireLease DEF ConnectionInv, LeasesOK, AuthorityOK
    <2>4. ASSUME NEW lease, Drawn(lease)
          PROVE  Drawn(lease)' /\ (lease.domain = d => lease.id # le.id)
      BY <1>5, <2>3, <2>4 DEF Drawn
    <2>5. Drawn(le)'
      BY <1>5, <2>3 DEF Drawn
    <2>6. HoldersOK'
      <3>1. \A s \in sessions' : Drawn(s.lease)'
        BY <1>5, <1>6, <2>1, <2>4, <2>5 DEF HoldersOK
      <3>2. \A x \in tokens' : Drawn(x.lease)'
        BY <1>5, <1>6, <2>4 DEF HoldersOK
      <3>3. \A s, r \in sessions' :
               s.lease.domain = r.lease.domain /\ s.lease.id = r.lease.id => s = r
        <4>1. ASSUME NEW s \in sessions PROVE s.lease.domain = d => s.lease.id # le.id
          BY <1>6, <2>4 DEF HoldersOK
        <4>2. QED BY <1>5, <1>6, <2>1, <4>1 DEF HoldersOK
      <3>4. \A s \in sessions', x \in tokens' :
               s.lease.domain = x.lease.domain => s.lease.id # x.lease.id
        <4>1. ASSUME NEW x \in tokens PROVE x.lease.domain = d => x.lease.id # le.id
          BY <1>6, <2>4 DEF HoldersOK
        <4>2. QED BY <1>5, <1>6, <2>1, <4>1 DEF HoldersOK
      <3>5. QED BY <3>1, <3>2, <3>3, <3>4 DEF HoldersOK
    <2>7. GrantsOK'
      BY <1>1, <1>5, <1>6, <2>1, <2>2 DEF GrantsOK
    <2>8. \A h \in admission'.slots : \E s \in sessions' : s.grant = h
      BY <1>5, <2>1, <2>2 DEF ConnectionInv
    <2>9. ASSUME NEW s \in sessions, active(s.grant)' PROVE lease_active(s.lease)'
      <3>1. s.grant.data = TRUE /\ s.grant.id \in Nat /\ s.grant.id <= admission.next
            /\ admission.next \in Nat
        BY <1>6, <2>9 DEF GrantsOK
      <3>2. s.grant # g
        BY <1>5, <3>1
      <3>3. active(s.grant)
        BY <1>5, <2>2, <2>9, <3>1, <3>2 DEF active
      <3>4. lease_active(s.lease) /\ s.lease.domain \in Domains
        BY <1>6, <2>9, <3>3 DEF ConnectionInv, HoldersOK, Drawn
      <3>5. QED BY <2>3, <3>4 DEF lease_active, valid_for_domain, lease_slot
    <2>10. lease_active(le)'
      BY <1>5, <2>3 DEF lease_active, valid_for_domain, lease_slot
    <2>11. \A s \in sessions' : active(s.grant)' => lease_active(s.lease)'
      BY <1>5, <2>1, <2>9, <2>10
    <2>12. QED BY <2>3, <2>6, <2>7, <2>8, <2>11 DEF ConnectionInv
  <1>8. CASE ~can_acquire(d)
    <2>1. admission' = rolled_back(g) /\ UNCHANGED <<leases, sessions, tokens>>
      BY <1>1, <1>2, <1>8 DEF admit_connection_session
    <2>2. admission' = [next |-> admission.next + 1, generation |-> admission.generation,
                        slots |-> admission.slots]
      BY <1>5, <1>6, <2>1 DEF rolled_back, GrantsOK
    <2>3. GrantsOK'
      BY <1>5, <1>6, <2>1, <2>2 DEF GrantsOK
    <2>4. \A s \in sessions : active(s.grant)' => active(s.grant)
      BY <1>5, <2>2 DEF active
    <2>5. QED BY <2>1, <2>2, <2>3, <2>4, AdmissionStep
  <1>9. QED BY <1>7, <1>8

\* A lease goes with a session or a token: no session that stays has it.
LEMMA LeaseGoes ==
  ASSUME ConnectionInv, NEW lease, Drawn(lease),
         leases' = release_lease(lease) \/ leases' = leases,
         lock' = lock, GrantsOK', HoldersOK',
         sessions' \subseteq sessions,
         \A s \in sessions' : s.lease.domain = lease.domain => s.lease.id # lease.id,
         \A g \in admission'.slots : \E s \in sessions' : s.grant = g,
         \A s \in sessions' : active(s.grant)' => active(s.grant)
  PROVE  ConnectionInv'
  <1>1. /\ leases' \in [Domains -> {leases'[e] : e \in Domains}]
        /\ LeasesOK'
        /\ \A e \in Domains :
              /\ leases'[e].generation = leases[e].generation
              /\ \A x \in leases[e].slots :
                    x \notin leases'[e].slots => e = lease.domain /\ x.id = lease.id
    BY ReleaseLease
  <1>2. ASSUME NEW s \in sessions', active(s.grant)' PROVE lease_active(s.lease)'
    <2>1. lease_active(s.lease) /\ s.lease.domain \in Domains
      BY <1>2 DEF ConnectionInv, HoldersOK, Drawn
    <2>2. PICK x \in leases[s.lease.domain].slots :
             x.id = s.lease.id /\ x.generation = s.lease.generation
      BY <2>1 DEF lease_active, lease_slot
    <2>3. x \in leases'[s.lease.domain].slots
      BY <1>1, <1>2, <2>1, <2>2
    <2>4. QED BY <1>1, <2>1, <2>2, <2>3 DEF lease_active, valid_for_domain, lease_slot
  <1>3. QED BY <1>1, <1>2 DEF ConnectionInv

\* A session is closed: its grant, then its lease.
LEMMA CloseStep ==
  ASSUME ConnectionInv, NEW s \in sessions, close_connection_session(s)
  PROVE  ConnectionInv'
  <1>1. /\ admission' = [admission EXCEPT !.slots = @ \ {s.grant}]
        /\ leases' = release_lease(s.lease) \/ leases' = leases
        /\ sessions' = sessions \ {s} /\ lock' = lock /\ tokens' = tokens
    BY DEF close_connection_session
  <1>2. GrantsOK /\ HoldersOK /\ Drawn(s.lease)
    BY DEF ConnectionInv, HoldersOK
  <1>3. /\ admission' = [next |-> admission.next, generation |-> admission.generation,
                         slots |-> admission.slots \ {s.grant}]
    BY <1>1, <1>2 DEF GrantsOK
  <1>4. GrantsOK'
    BY <1>1, <1>2, <1>3 DEF GrantsOK
  <1>5. \A e \in Domains : leases'[e].next = leases[e].next
    BY <1>1, <1>2, ReleaseLease
  <1>6. HoldersOK'
    BY <1>1, <1>2, <1>5 DEF HoldersOK, Drawn
  <1>7. \A r \in sessions' : r.lease.domain = s.lease.domain => r.lease.id # s.lease.id
    BY <1>1, <1>2 DEF HoldersOK
  <1>8. \A g \in admission'.slots : \E r \in sessions' : r.grant = g
    BY <1>1, <1>3 DEF ConnectionInv
  <1>9. \A r \in sessions' : active(r.grant)' => active(r.grant)
    BY <1>1, <1>2, <1>3 DEF active, GrantsOK
  <1>10. QED BY <1>1, <1>2, <1>4, <1>6, <1>7, <1>8, <1>9, LeaseGoes

\* A lease without a connection is taken.
LEMMA TakeStep ==
  ASSUME ConnectionInv, NEW d \in Domains, NEW p, NEW kind, takes_lease(d, p, kind)
  PROVE  ConnectionInv'
  <1>1. PICK le : le = Token(d, leases[d].next)
    OBVIOUS
  <1>2. PICK n : n = [principal |-> p, lease |-> le]
    OBVIOUS
  <1>3. /\ leases' = acquire(d, p, kind) /\ tokens' = tokens \cup {n}
        /\ UNCHANGED <<lock, admission, sessions>>
        /\ n.lease = le /\ le.domain = d /\ le.id = leases[d].next
    BY <1>1, <1>2 DEF takes_lease, Token
  <1>4. /\ leases' \in [Domains -> {leases'[e] : e \in Domains}]
        /\ LeasesOK'
        /\ \A e \in Domains : /\ leases'[e].generation = leases[e].generation
                              /\ leases[e].slots \subseteq leases'[e].slots
                              /\ leases[e].next <= leases'[e].next
                              /\ leases[e].next \in Nat /\ leases'[e].next \in Nat
        /\ leases[d].next \in Nat /\ leases'[d].next = leases[d].next + 1
    BY <1>3, AcquireLease DEF ConnectionInv, LeasesOK, AuthorityOK
  <1>5. ASSUME NEW lease, Drawn(lease)
        PROVE  Drawn(lease)' /\ (lease.domain = d => lease.id # le.id)
    BY <1>3, <1>4, <1>5 DEF Drawn
  <1>6. Drawn(le)'
    BY <1>3, <1>4 DEF Drawn
  <1>7. HoldersOK'
    <2>1. HoldersOK
      BY DEF ConnectionInv
    <2>2. \A s \in sessions' : Drawn(s.lease)' /\ (s.lease.domain = d => s.lease.id # le.id)
      BY <1>3, <1>5, <2>1 DEF HoldersOK
    <2>3. \A x \in tokens' : Drawn(x.lease)'
      BY <1>3, <1>5, <1>6, <2>1 DEF HoldersOK
    <2>4. \A s \in sessions', x \in tokens' :
             s.lease.domain = x.lease.domain => s.lease.id # x.lease.id
      BY <1>3, <2>1, <2>2 DEF HoldersOK
    <2>5. QED BY <1>3, <2>1, <2>2, <2>3, <2>4 DEF HoldersOK
  <1>8. GrantsOK' /\ \A g \in admission'.slots : \E s \in sessions' : s.grant = g
    BY <1>3 DEF ConnectionInv, GrantsOK
  <1>9. ASSUME NEW s \in sessions', active(s.grant)' PROVE lease_active(s.lease)'
    <2>1. active(s.grant) /\ s \in sessions
      BY <1>3, <1>9 DEF active
    <2>2. lease_active(s.lease) /\ s.lease.domain \in Domains
      BY <2>1 DEF ConnectionInv, HoldersOK, Drawn
    <2>3. QED BY <1>4, <2>2 DEF lease_active, valid_for_domain, lease_slot
  <1>10. QED BY <1>4, <1>7, <1>8, <1>9 DEF ConnectionInv

\* A lease without a connection is dropped: no session has its identifier.
LEMMA DropStep ==
  ASSUME ConnectionInv, NEW t \in tokens, NEW p, drops_lease(t, p)
  PROVE  ConnectionInv'
  <1>1. /\ leases' = release_lease(t.lease) \/ leases' = leases
        /\ tokens' \subseteq tokens /\ UNCHANGED <<lock, admission, sessions>>
    BY DEF drops_lease
  <1>2. HoldersOK /\ Drawn(t.lease)
    BY DEF ConnectionInv, HoldersOK
  <1>3. \A e \in Domains : leases'[e].next = leases[e].next
    BY <1>1, <1>2, ReleaseLease
  <1>4. HoldersOK'
    BY <1>1, <1>2, <1>3 DEF HoldersOK, Drawn
  <1>5. \A s \in sessions' : s.lease.domain = t.lease.domain => s.lease.id # t.lease.id
    BY <1>1, <1>2 DEF HoldersOK
  <1>6. /\ GrantsOK' /\ \A g \in admission'.slots : \E s \in sessions' : s.grant = g
        /\ \A s \in sessions' : active(s.grant)' => active(s.grant)
    BY <1>1 DEF ConnectionInv, GrantsOK, active
  <1>7. QED BY <1>1, <1>2, <1>4, <1>5, <1>6, LeaseGoes

\* The phone is locked: a grant of an earlier lock is not honoured again.
LEMMA LockStep ==
  ASSUME ConnectionInv, NEW revoking \in BOOLEAN, locks(revoking)
  PROVE  ConnectionInv'
  <1>1. /\ lock' = lock + 1 /\ UNCHANGED <<leases, sessions, tokens>>
        /\ \/ admission' = admission
           \/ admission' = [next |-> admission.next, generation |-> admission.generation + 1,
                            slots |-> {}]
    BY DEF locks, revoke_all
  <1>2. GrantsOK
    BY DEF ConnectionInv
  <1>3. GrantsOK'
    BY <1>1, <1>2 DEF GrantsOK
  <1>4. ASSUME NEW s \in sessions PROVE ~active(s.grant)'
    <2>1. s.grant.lock # lock'
      BY <1>1, <1>2, <1>4 DEF GrantsOK
    <2>2. QED BY <2>1 DEF active
  <1>5. admission'.slots \subseteq admission.slots
    BY <1>1
  <1>6. QED BY <1>1, <1>3, <1>4, <1>5, AdmissionStep

\* A domain is shut down: no honoured session had its lease there.
LEMMA QuiesceStep ==
  ASSUME ConnectionInv, NEW d \in Domains, quiesces(d)
  PROVE  ConnectionInv'
  <1>1. /\ counts(d) = 0 /\ leases' = advance_generation_after_quiesce(d)
        /\ UNCHANGED <<lock, admission, sessions, tokens>>
    BY DEF quiesces, plan_idle_transition
  <1>2. /\ leases' \in [Domains -> {leases'[e] : e \in Domains}]
        /\ LeasesOK'
        /\ \A e \in Domains : leases'[e].next = leases[e].next
        /\ \A e \in Domains : e # d => leases'[e] = leases[e]
        /\ \A x \in leases[d].slots : x.generation # leases[d].generation
    BY <1>1, QuiesceLeases
  <1>3. HoldersOK' /\ GrantsOK' /\ \A g \in admission'.slots : \E s \in sessions' : s.grant = g
    BY <1>1, <1>2 DEF ConnectionInv, HoldersOK, GrantsOK, Drawn
  <1>4. ASSUME NEW s \in sessions', active(s.grant)' PROVE lease_active(s.lease)'
    <2>1. active(s.grant) /\ s \in sessions
      BY <1>1, <1>4 DEF active
    <2>2. lease_active(s.lease) /\ s.lease.domain \in Domains
      BY <2>1 DEF ConnectionInv, HoldersOK, Drawn
    <2>3. s.lease.domain # d
      BY <1>2, <2>2 DEF lease_active, valid_for_domain, lease_slot
    <2>4. QED BY <1>2, <2>2, <2>3 DEF lease_active, valid_for_domain, lease_slot
  <1>5. QED BY <1>2, <1>3, <1>4 DEF ConnectionInv

\* Charging draws an identifier; everything else touches neither authority.
LEMMA OtherStep ==
  ASSUME ConnectionInv,
         \/ \E t \in Transports : charge(t)
         \/ \E v, x \in BOOLEAN : authenticates(v, x)
         \/ \E c \in {{}, {"update"}} : context_changes(c)
         \/ UNCHANGED connection_vars
  PROVE  ConnectionInv'
  <1>1. GrantsOK
    BY DEF ConnectionInv
  <1>2. /\ UNCHANGED <<lock, leases, sessions, tokens>>
        /\ \/ admission' = admission
           \/ admission' = [next |-> admission.next + 1, generation |-> admission.generation,
                            slots |-> admission.slots]
    <2>1. ASSUME NEW t \in Transports, charge(t)
          PROVE  admission' = [next |-> admission.next + 1, generation |-> admission.generation,
                               slots |-> admission.slots]
      <3>1. Grant(t, "charge_only").id = admission.next + 1 /\ ~Grant(t, "charge_only").data
        BY DEF Grant, requires_user_authentication, connection_risk
      <3>2. QED BY <2>1, <3>1 DEF charge, admit
    <2>2. QED BY <2>1 DEF charge, authenticates, context_changes, connection_vars
  <1>3. GrantsOK'
    BY <1>1, <1>2 DEF GrantsOK
  <1>4. \A s \in sessions : active(s.grant)' => active(s.grant)
    BY <1>2 DEF active
  <1>5. admission'.slots \subseteq admission.slots
    BY <1>2
  <1>6. QED BY <1>2, <1>3, <1>4, <1>5, AdmissionStep

\* However connections, leases, locking and the power policy interleave: while a
\* grant of data is honoured its domain is held up by the lease that came with it,
\* and no grant is without a session (connection_session.hpp, subsystem_lease.hpp).
THEOREM ConnectionsStayLeased == ConnectionsSpec => []ConnectionsAreLeased
  <1>1. ConnectionInv /\ [ConnectionsNext]_connection_vars => ConnectionInv'
    <2> SUFFICES ASSUME ConnectionInv, [ConnectionsNext]_connection_vars
                 PROVE  ConnectionInv'
      OBVIOUS
    <2>1. ASSUME NEW p \in Principal, NEW t \in Transports, NEW u \in Purposes,
                 admit_connection_session(p, t, u)
          PROVE  ConnectionInv'
      BY <2>1, AdmitStep
    <2>2. ASSUME NEW s \in sessions, close_connection_session(s) PROVE ConnectionInv'
      BY <2>2, CloseStep
    <2>3. ASSUME NEW d \in Domains, NEW p \in Principal, NEW k \in {"interactive", "background"},
                 takes_lease(d, p, k)
          PROVE  ConnectionInv'
      BY <2>3, TakeStep
    <2>4. ASSUME NEW t \in tokens, NEW p \in Principal, drops_lease(t, p) PROVE ConnectionInv'
      BY <2>4, DropStep
    <2>5. ASSUME NEW r \in BOOLEAN, locks(r) PROVE ConnectionInv'
      BY <2>5, LockStep
    <2>6. ASSUME NEW d \in Domains, quiesces(d) PROVE ConnectionInv'
      BY <2>6, QuiesceStep
    <2>7. CASE \/ \E t \in Transports : charge(t)
               \/ \E v, x \in BOOLEAN : authenticates(v, x)
               \/ \E c \in {{}, {"update"}} : context_changes(c)
               \/ UNCHANGED connection_vars
      BY <2>7, OtherStep
    <2>8. QED BY <2>1, <2>2, <2>3, <2>4, <2>5, <2>6, <2>7 DEF ConnectionsNext
  <1>2. QED BY InitConnections, InvLeased, <1>1, PTL DEF ConnectionsSpec
=============================================================================
