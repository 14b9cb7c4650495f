-------------------------- MODULE PrincipalStore --------------------------
(***************************************************************************)
(* The application principals (core/osapp/src/principal_store_linux.cpp):  *)
(* a principal is allocated to an application and user the first time they *)
(* are launched, and is their authorization identity for ever.             *)
(***************************************************************************)
EXTENDS Integers, FiniteSets, Snapshot

CONSTANTS Key,               \* (application, user) pairs
          PrincipalCapacity, \* m1_application_principal_capacity
          MaxPrincipal       \* the last number the allocator gives out

VARIABLES principals,        \* the records in memory and the next number
          principal_file,
          principals_open,   \* the process that holds the store is running
          handed             \* history: the allocations callers were told of

principal_vars == <<principals, principal_file, principals_open, handed>>

NoRecords == [records |-> <<>>, next |-> 1]

(* The checks of load(): numbers are distinct, and below the next one.      *)
consistent(s) ==
    /\ \A k, l \in DOMAIN s.records : s.records[k] = s.records[l] => k = l
    /\ \A k \in DOMAIN s.records : s.records[k] < s.next

PrincipalInit ==
    /\ principals = NoRecords
    /\ principal_file = new_file(NoRecords)
    /\ principals_open = TRUE
    /\ handed = {}

open_principals ==
    /\ ~principals_open /\ consistent(principal_file.seen)
    /\ principals_open' = TRUE
    /\ principals' = principal_file.seen
    /\ principal_file' = opened(principal_file)
    /\ UNCHANGED handed

(* Mutant: the record is published in memory before it is persisted.        *)
persist_principals_late(candidate, how) ==
    /\ principal_file' = written(principal_file, candidate, how)
    /\ principals_open' = ~ended(how)
    /\ principals' = IF ended(how) THEN NoRecords ELSE candidate

persist_principals(candidate, how) ==
    /\ principal_file' = written(principal_file, candidate, how)
    /\ principals_open' = ~ended(how)
    /\ principals' = IF ended(how) THEN NoRecords
                     ELSE IF how = "synced" THEN candidate ELSE principals

known(k) == k \in DOMAIN principals.records

resolve_or_allocate(k) ==
    /\ principals_open
    /\ \/ /\ known(k)
          /\ handed' = handed \cup {<<k, principals.records[k]>>}
          /\ UNCHANGED <<principals, principal_file, principals_open>>
       \/ /\ ~known(k)
          /\ Cardinality(DOMAIN principals.records) < PrincipalCapacity
          /\ principals.next <= MaxPrincipal
          /\ LET candidate == [records |-> [l \in DOMAIN principals.records \cup {k} |->
                                              IF l = k THEN principals.next ELSE principals.records[l]],
                               next |-> principals.next + 1]
             IN \E how \in outcomes(principal_file) :
                   /\ persist_principals(candidate, how)
                   /\ handed' = IF how = "synced" THEN handed \cup {<<k, principals.next>>} ELSE handed

PrincipalProcessEnds ==
    /\ principals_open
    /\ principals_open' = FALSE /\ principals' = NoRecords
    /\ UNCHANGED <<principal_file, handed>>

PrincipalPowerCut ==
    /\ \E s \in principal_file.cut : principal_file' = after_power_cut(principal_file, s)
    /\ principals_open' = FALSE /\ principals' = NoRecords
    /\ UNCHANGED handed

PrincipalNext ==
    \/ open_principals
    \/ \E k \in Key : resolve_or_allocate(k)
    \/ PrincipalProcessEnds
    \/ PrincipalPowerCut

PrincipalSpec == PrincipalInit /\ [][PrincipalNext]_principal_vars

(* A principal a caller was given belongs to that application and user for  *)
(* ever: no failed write, restart or power cut gives it to another, or      *)
(* gives them another (docs/M1_4_PRINCIPALS_SANDBOX.md:15).  The exception  *)
(* is a power cut after the store worked on with a rename whose directory   *)
(* sync had failed or never happened: persist_candidate() cannot undo the   *)
(* rename and open() does not sync the directory.                           *)
PrincipalsAreForever ==
    principal_file.doubt # "exposed" =>
        \A g, h \in handed : g[1] = h[1] <=> g[2] = h[2]
===========================================================================
