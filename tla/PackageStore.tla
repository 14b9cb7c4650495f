--------------------------- MODULE PackageStore ---------------------------
(***************************************************************************)
(* The package registry (core/ospkg): which signer owns a package          *)
(* identifier, the generations staged for it and the one that is active.   *)
(***************************************************************************)
EXTENDS Integers, FiniteSets, Sequences, Snapshot

CONSTANTS PackageId, Signer, Content,
          MaxGeneration,      \* generation numbers offered are 1..MaxGeneration
          PackageCapacity,    \* m1_registry_application_capacity
          GenerationCapacity  \* m1_registry_generations_per_application

VARIABLES packages,           \* the registry in memory
          package_file,
          packages_open,      \* the process that holds the registry is running
          announced           \* history: the last registry an operation reported, and
                              \* the packages renames changed without a report since

package_vars == <<packages, package_file, packages_open, announced>>

NoPackage == [signer |-> "none", generations |-> <<>>, active |-> 0]
NoPackages == [p \in PackageId |-> NoPackage]

occupied(r) == {p \in PackageId : r[p] # NoPackage}

Increasing(gs) == \A i, j \in DOMAIN gs : i < j => gs[i].id < gs[j].id
HasGeneration(gs, g) == \E i \in DOMAIN gs : gs[i].id = g

(* The checks of load_snapshot(), which stages and activates again.         *)
packages_consistent(r) ==
    \A p \in occupied(r) :
        /\ r[p].generations # <<>> /\ Increasing(r[p].generations)
        /\ r[p].active # 0 => HasGeneration(r[p].generations, r[p].active)

PackageInit ==
    /\ packages = NoPackages
    /\ package_file = new_file(NoPackages)
    /\ packages_open = TRUE
    /\ announced = [last |-> NoPackages, touched |-> {}]

open_packages ==
    /\ ~packages_open /\ packages_consistent(package_file.seen)
    /\ packages_open' = TRUE
    /\ packages' = package_file.seen
    /\ package_file' = opened(package_file)
    /\ UNCHANGED announced

changed(candidate) == {p \in PackageId : candidate[p] # packages[p]}

(* Mutant: success is reported although the directory sync failed.          *)
persist_packages_unchecked(candidate, how) ==
    /\ package_file' = written(package_file, candidate, how)
    /\ packages_open' = ~ended(how)
    /\ packages' = IF ended(how) THEN NoPackages
                   ELSE IF replaces(how) THEN candidate ELSE packages
    /\ announced' = IF how \in {"unsynced", "synced"} THEN [last |-> candidate, touched |-> {}]
                    ELSE IF replaces(how) THEN [announced EXCEPT !.touched = @ \cup changed(candidate)]
                    ELSE announced

persist_packages(candidate, how) ==
    /\ package_file' = written(package_file, candidate, how)
    /\ packages_open' = ~ended(how)
    /\ packages' = IF ended(how) THEN NoPackages
                   ELSE IF how = "synced" THEN candidate ELSE packages
    /\ announced' = IF how = "synced" THEN [last |-> candidate, touched |-> {}]
                    ELSE IF replaces(how) THEN [announced EXCEPT !.touched = @ \cup changed(candidate)]
                    ELSE announced

stage_generation(p, s, g, c) ==
    /\ packages_open
    /\ \/ p \notin occupied(packages) /\ Cardinality(occupied(packages)) < PackageCapacity
       \/ p \in occupied(packages) /\ packages[p].signer = s
    /\ LET gs == packages[p].generations IN gs # <<>> => gs[Len(gs)].id < g
    /\ Len(packages[p].generations) < GenerationCapacity
    /\ \E how \in outcomes(package_file) :
          persist_packages([packages EXCEPT ![p].signer = s,
                                            ![p].generations = Append(@, [id |-> g, content |-> c])], how)

activate(p, s, g) ==
    /\ packages_open
    /\ p \in occupied(packages) /\ packages[p].signer = s
    /\ HasGeneration(packages[p].generations, g)
    /\ \E how \in outcomes(package_file) : persist_packages([packages EXCEPT ![p].active = g], how)

uninstall(p, s) ==
    /\ packages_open
    /\ p \in occupied(packages) /\ packages[p].signer = s
    /\ \E how \in outcomes(package_file) : persist_packages([packages EXCEPT ![p].active = 0], how)

PackageProcessEnds ==
    /\ packages_open
    /\ packages_open' = FALSE /\ packages' = NoPackages
    /\ UNCHANGED <<package_file, announced>>

PackagePowerCut ==
    /\ \E s \in package_file.cut : package_file' = after_power_cut(package_file, s)
    /\ packages_open' = FALSE /\ packages' = NoPackages
    /\ UNCHANGED announced

PackageNext ==
    \/ open_packages
    \/ \E p \in PackageId, s \in Signer :
          \/ \E g \in 1..MaxGeneration, c \in Content : stage_generation(p, s, g, c)
          \/ \E g \in 1..MaxGeneration : activate(p, s, g)
          \/ uninstall(p, s)
    \/ PackageProcessEnds
    \/ PackagePowerCut

PackageSpec == PackageInit /\ [][PackageNext]_package_vars

BeginsWith(gs, hs) == Len(hs) <= Len(gs) /\ \A i \in DOMAIN hs : gs[i] = hs[i]

(* What a registry owes to an earlier one: owners stay, and the generations *)
(* staged are a prefix of the generations there are.                        *)
Continues(r, old) ==
    \A p \in occupied(old) :
        r[p].signer = old[p].signer /\ BeginsWith(r[p].generations, old[p].generations)

(* What an operation reported holds in memory and in every snapshot a       *)
(* process that ends or a power cut may leave: the snapshot loads, no owner *)
(* and no generation ever reported is lost or replaced in it, and an        *)
(* application reported as uninstalled, or active, is so unless a later     *)
(* operation on it failed or was interrupted.                               *)
PackagesAreKept ==
    \A r \in package_file.cut \cup {package_file.seen} \cup (IF packages_open THEN {packages} ELSE {}) :
        /\ packages_consistent(r) /\ Continues(r, announced.last)
        /\ \A p \in PackageId \ announced.touched : r[p] = announced.last[p]
===========================================================================
