----------------------------- MODULE Capability -----------------------------
(***************************************************************************)
(* The kernel's capability table (class CapabilityTable, capability.cpp):  *)
(* a fixed array of slots in which capabilities are minted, derived from   *)
(* one another by grant, and revoked together with everything derived from *)
(* them.                                                                   *)
(*                                                                         *)
(* Every operation exists twice in the code, once for a bare ThreadId and  *)
(* once for an ExecutionAuthority (a thread and an address-space           *)
(* incarnation).  Both are covered by one action here: a holder is a       *)
(* record whose space is 0 for the ThreadId form, and held_by compares the *)
(* whole record, so neither form can exercise the other's capabilities.    *)
(***************************************************************************)
EXTENDS Naturals

CONSTANTS
    Holder,          \* the identities that call: [thread, space] records
    Object,          \* kernel objects a capability may name
    Right,           \* individual rights; a rights mask is a set of them
    MaxCapabilities, \* max_capabilities, the number of slots
    MaxDepth,        \* max_derivation_depth
    MaxId            \* bound on identifiers: next_id_ is exhausted beyond it

ASSUME HolderAssumption ==
    \A h \in Holder : DOMAIN h = {"thread", "space"}
                      /\ h.thread \in Nat \ {0} /\ h.space \in Nat
ASSUME CapabilityBounds ==
    MaxCapabilities \in Nat \ {0} /\ MaxDepth \in Nat /\ MaxId \in Nat

invalid_capability == 0

Slot == 1..MaxCapabilities
CapId == 1..MaxId

VARIABLES
    caps,     \* the slot array
    next_id   \* the next identifier mint or grant hands out

cvars == <<caps, next_id>>

\* A cleared slot.
Free ==
    [id |-> invalid_capability, parent |-> invalid_capability, parent_slot |-> 0,
     object |-> 0, rights |-> {}, holder |-> 0, transferable |-> FALSE, depth |-> 0]

Capabilities ==
    [id : CapId, parent : CapId \cup {invalid_capability},
     parent_slot : Slot \cup {0}, object : Object, rights : SUBSET Right,
     holder : Holder, transferable : BOOLEAN, depth : 0..MaxDepth]

Init == caps = [i \in Slot |-> Free] /\ next_id = 1

occupied(i) == caps[i].id # invalid_capability

held_by(i, h) == occupied(i) /\ caps[i].holder = h

\* The slot of i's parent, or 0: both the recorded slot and the recorded
\* identifier have to match.
parent_of(i) ==
    IF /\ caps[i].parent # invalid_capability
       /\ caps[caps[i].parent_slot].id = caps[i].parent
    THEN caps[i].parent_slot ELSE 0

(***************************************************************************)
(* Minting and granting fill the first free slot with a fresh identifier.  *)
(***************************************************************************)
insert(c) ==
    /\ next_id <= MaxId
    /\ \E i \in Slot :
          /\ ~occupied(i)
          /\ \A j \in Slot : j < i => occupied(j)
          /\ caps' = [caps EXCEPT ![i] = c]
    /\ next_id' = next_id + 1

mint(h, o, r, x) ==
    insert([id |-> next_id, parent |-> invalid_capability, parent_slot |-> 0,
            object |-> o, rights |-> r, holder |-> h, transferable |-> x,
            depth |-> 0])

\* Lets the granter name any rights.
Bug_grant(g, p, h, r, x) ==
    /\ g.thread # h.thread
    /\ (g.space = 0) <=> (h.space = 0)
    /\ held_by(p, g)
    /\ caps[p].transferable
    /\ caps[p].depth + 1 <= MaxDepth
    /\ insert([id |-> next_id, parent |-> caps[p].id, parent_slot |-> p,
               object |-> caps[p].object, rights |-> r, holder |-> h,
               transferable |-> x, depth |-> caps[p].depth + 1])

grant(g, p, h, r, x) ==
    /\ g.thread # h.thread
    /\ (g.space = 0) <=> (h.space = 0)
    /\ held_by(p, g)
    /\ caps[p].transferable
    /\ r \subseteq caps[p].rights
    /\ caps[p].depth + 1 <= MaxDepth
    /\ insert([id |-> next_id, parent |-> caps[p].id, parent_slot |-> p,
               object |-> caps[p].object, rights |-> r, holder |-> h,
               transferable |-> x, depth |-> caps[p].depth + 1])

(***************************************************************************)
(* Removal.  doomed(S) is the least set of occupied slots that holds S and *)
(* every slot whose parent it holds.  The code reaches it by repeated      *)
(* passes over the array, passes below; SweepReachesEveryDescendant says   *)
(* that the two agree.                                                     *)
(***************************************************************************)
closed_under_derivation(X) ==
    \A i \in Slot : occupied(i) /\ parent_of(i) \in X => i \in X

doomed(S) ==
    {i \in Slot :
        /\ occupied(i)
        /\ \A X \in SUBSET Slot :
              S \subseteq X /\ closed_under_derivation(X) => i \in X}

\* Starts the identifiers over when the table becomes empty.
Bug_sweep_doomed(S) ==
    /\ caps' = [i \in Slot |-> IF i \in doomed(S) THEN Free ELSE caps[i]]
    /\ next_id' = IF {i \in Slot : occupied(i)} \subseteq doomed(S) THEN 1
                  ELSE next_id

sweep_doomed(S) ==
    /\ caps' = [i \in Slot |-> IF i \in doomed(S) THEN Free ELSE caps[i]]
    /\ UNCHANGED next_id

\* One pass in slot order: a slot already marked in this pass marks later ones.
sweep_pass(S) ==
    LET marked[k \in 0..MaxCapabilities] ==
          IF k = 0 THEN S
          ELSE LET m == marked[k - 1]
               IN  IF occupied(k) /\ parent_of(k) \in m THEN m \cup {k} ELSE m
    IN  marked[MaxCapabilities]

\* Stops one pass early.
Bug_sweep_passes(S) ==
    LET after[n \in 0..MaxDepth] == IF n = 0 THEN S ELSE sweep_pass(after[n - 1])
    IN  after[IF MaxDepth = 0 THEN 0 ELSE MaxDepth - 1]

sweep_passes(S) ==
    LET after[n \in 0..MaxDepth] == IF n = 0 THEN S ELSE sweep_pass(after[n - 1])
    IN  after[MaxDepth]

revoke(h, i) ==
    /\ held_by(i, h) \/ (parent_of(i) # 0 /\ held_by(parent_of(i), h))
    /\ sweep_doomed({i})

\* A ThreadId, not a holder: bound and unbound capabilities alike.
held_by_thread(t) == {i \in Slot : occupied(i) /\ caps[i].holder.thread = t}

revoke_all_held_by(t) == sweep_doomed(held_by_thread(t))

-----------------------------------------------------------------------------
Next ==
    \/ \E h \in Holder, o \in Object, r \in SUBSET Right, x \in BOOLEAN :
          mint(h, o, r, x)
    \/ \E g, h \in Holder, p \in Slot, r \in SUBSET Right, x \in BOOLEAN :
          grant(g, p, h, r, x)
    \/ \E h \in Holder, i \in Slot : occupied(i) /\ revoke(h, i)
    \/ \E h \in Holder : revoke_all_held_by(h.thread)

Spec == Init /\ [][Next]_cvars

-----------------------------------------------------------------------------
\* Every slot is free or holds a capability, and identifiers stay below next_id.
TypeOK ==
    /\ caps \in [Slot -> Capabilities \cup {Free}]
    /\ next_id \in 1..(MaxId + 1)

\* Identifiers are unique and were all handed out before next_id.
IdsDistinct ==
    \A i \in Slot : occupied(i) =>
        /\ caps[i].id < next_id
        /\ \A j \in Slot : caps[j].id = caps[i].id => i = j

\* The derivation of slot i from slot p, as grant established it.
derived_from(i, p) ==
    /\ p \in Slot /\ p # i
    /\ caps[i].object = caps[p].object
    /\ caps[i].rights \subseteq caps[p].rights
    /\ caps[p].transferable
    /\ caps[i].depth = caps[p].depth + 1
    /\ caps[i].holder.thread # caps[p].holder.thread

\* No authority outlives what it was derived from, and none exceeds it: every
\* derived capability has its parent still in the table, naming the same object,
\* with at least its rights, transferable, one level up and held by a different
\* thread, whatever was revoked in between and whichever slots were reused.
DerivationIsSound ==
    \A i \in Slot :
        occupied(i) /\ caps[i].parent # invalid_capability =>
            derived_from(i, parent_of(i))

\* The bounded propagation of sweep_doomed removes exactly the subtrees it was
\* asked to remove: max_derivation_depth passes in slot order reach every
\* descendant, in whatever slots reuse has put them, and nothing else.
SweepReachesEveryDescendant ==
    \A S \in SUBSET {i \in Slot : occupied(i)} : sweep_passes(S) = doomed(S)

\* A step never gives a new meaning to an identifier handed out before it: a
\* stale reference finds nothing, or exactly what it always named.
IdentifierMeaningIsFixed ==
    /\ next_id' >= next_id
    /\ \A i \in Slot :
          caps'[i].id \in 1..(next_id - 1) => caps'[i] = caps[i]

\* IdentifierMeaningIsFixed for every step (the never-reused identifiers of
\* docs/M7_1_CAPABILITY.md).
StaleIdsStayDead == [][IdentifierMeaningIsFixed]_cvars

(* Holders for a small instance: two threads, each as itself and with an   *)
(* execution authority, so that bound and unbound delegation both happen.  *)
MCHolder ==
    {[thread |-> 1, space |-> 0], [thread |-> 2, space |-> 0],
     [thread |-> 1, space |-> 1], [thread |-> 2, space |-> 2]}

=============================================================================
