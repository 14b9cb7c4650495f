-------------------------- MODULE PartitionLedger --------------------------
(***************************************************************************)
(* Time protection (core/ostime): which principal holds how many units of  *)
(* a partitionable resource, such as the ways of a cache.  The ledger is   *)
(* an array that is kept dense: what is taken back leaves a hole, and the  *)
(* last entry moves into it.  Its callers, a component that wants to be    *)
(* isolated and the supervisor burying a dead one, are not in the          *)
(* repository yet.                                                         *)
(***************************************************************************)
EXTENDS Naturals, FiniteSets, FiniteSetsExt

CONSTANTS Principal,
          Platforms,   \* what create may be called with: capabilities, capacity, floor
          Known,       \* known_time_protection_capabilities
          Requests,    \* the units asked for
          MaxHolders   \* max_partition_holders

VARIABLES books,       \* the PartitionLedger
          due          \* history: what every principal was granted and has not given back

partition_vars == <<books, due>>

NoPrincipal == "none"
Vacant == [principal |-> NoPrincipal, units |-> 0]

Opened(platform) == [capabilities |-> platform.capabilities, capacity |-> platform.capacity,
                     floor |-> platform.floor, reserved |-> 0, count |-> 0,
                     holders |-> [i \in 1..MaxHolders |-> Vacant]]

(* PartitionLedger(): nothing to give.                                     *)
Empty == Opened([capabilities |-> {}, capacity |-> 0, floor |-> 0])

creatable(platform) ==
    /\ platform.capabilities \subseteq Known
    /\ platform.capacity # 0 => /\ platform.capabilities # {}
                                /\ platform.floor \in 1 .. platform.capacity - 1
    /\ platform.capacity = 0 => platform.floor = 0

create(platform) == IF creatable(platform) THEN Opened(platform) ELSE Empty

(* Saturating.                                                             *)
available ==
    IF books.capacity <= books.floor \/ books.reserved >= books.capacity - books.floor THEN 0
    ELSE books.capacity - books.floor - books.reserved

index_of(p) == {i \in 1 .. books.count : books.holders[i].principal = p}
holds(p) == index_of(p) # {}
units_for(p) == IF holds(p) THEN books.holders[Min(index_of(p))].units ELSE 0

reserve(p, units) ==
    /\ p # NoPrincipal /\ units # 0
    /\ books.capacity # 0 /\ books.capabilities # {}
    /\ ~holds(p) /\ books.count < MaxHolders /\ units <= available
    /\ books' = [books EXCEPT !.holders[books.count + 1] = [principal |-> p, units |-> units],
                              !.count = @ + 1, !.reserved = @ + units]
    /\ due' = [due EXCEPT ![p] = units]

(* Mutant: the last entry goes, whichever was meant.                       *)
compacted_short(i) == [books.holders EXCEPT ![books.count] = Vacant]

(* The last entry moves into the hole, and its old place is cleared.       *)
compacted(i) == [books.holders EXCEPT ![i] = books.holders[books.count], ![books.count] = Vacant]

reclaim(p) ==
    LET i == Min(index_of(p)) IN
    /\ holds(p)
    /\ books' = [books EXCEPT !.holders = compacted(i), !.count = @ - 1,
                              !.reserved = @ - books.holders[i].units]
    /\ due' = [due EXCEPT ![p] = 0]

(* The voluntary way: refused, not ignored, when there is nothing to give. *)
release(p) == holds(p) /\ reclaim(p)

PartitionsInit ==
    /\ books \in {create(platform) : platform \in Platforms}
    /\ due = [p \in Principal |-> 0]

PartitionsNext ==
    \E p \in Principal : \/ \E units \in Requests : reserve(p, units)
                         \/ release(p) \/ reclaim(p)

PartitionsSpec == PartitionsInit /\ [][PartitionsNext]_partition_vars

(* PartitionsAreAccounted: the ledger answers for every principal what was  *)
(* granted and not given back, whatever was compacted since; the units      *)
(* handed out are the sum of that and leave the floor to everybody else;    *)
(* and nothing is left to read beyond the live entries.                     *)
PartitionsAreAccounted ==
    /\ \A p \in Principal : units_for(p) = due[p]
    /\ books.reserved = MapThenSumSet(LAMBDA p : due[p], Principal)
    /\ books.reserved # 0 => books.reserved + books.floor <= books.capacity /\ books.floor # 0
    /\ books.count = Cardinality({p \in Principal : due[p] # 0})
    /\ \A i \in 1 .. MaxHolders : i > books.count => books.holders[i] = Vacant
=============================================================================
