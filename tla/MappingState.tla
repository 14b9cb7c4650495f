--------------------------- MODULE MappingState ---------------------------
(***************************************************************************)
(* The machine half of address spaces (aarch64_mapping_state.hpp,          *)
(* aarch64_page_tables.hpp, machine_aarch64.cpp): per space a page-table   *)
(* builder fed by donated frames and a table of mappings; shared by all    *)
(* spaces, the ledger of physical mappings and the reservations of frames  *)
(* that hold kernel state.  Addresses are page numbers; a level-3 table    *)
(* spans two pages and a level-2 table four.                               *)
(*                                                                         *)
(* An operation that is refused changes nothing and is simply not enabled. *)
(***************************************************************************)
EXTENDS Integers, FiniteSets, Sequences, SequencesExt, Bags

CONSTANTS Space,            \* MachineAddressSpace objects of the image
          Frame, VPage,     \* physical frames and virtual pages, integers from 1
          MaxMaps,          \* max_native_mappings
          MaxLedger,        \* max_native_physical_mappings
          MaxReservations   \* max_native_physical_reservations

VARIABLES sp,               \* builder, arena and mapping table of each space
          ledger,           \* bag of NativePhysicalMapping
          resv,             \* set of NativePhysicalReservation
          written,          \* frames that hold translation descriptors
          trapped           \* os::core::invariant_violated() was reached

machine_vars == <<sp, ledger, resv, written, trapped>>

Permission == {"r", "rw", "rx"}
Absent == [frame |-> 0]
Unbound == [bound |-> FALSE, life |-> "uninitialized", arena |-> <<>>, tables |-> {},
            table_frames |-> {}, leaf |-> [v \in VPage |-> Absent], maps |-> {}]

writable(p) == p = "rw"
executable(p) == p = "rx"
pages(base, n) == base .. (base + n - 1)
overlap(a, n, b, m) == a < b + m /\ b < a + n

(* What the hardware is told: who may read, write and execute the frame.    *)
page_descriptor(f, perm) ==
    [frame |-> f, el0 |-> "none", el1 |-> IF writable(perm) THEN "rw" ELSE "ro",
     uxn |-> TRUE, pxn |-> ~executable(perm)]

user_page_descriptor(f, perm) ==
    [frame |-> f, el0 |-> IF writable(perm) THEN "rw" ELSE "ro",
     el1 |-> IF writable(perm) THEN "rw" ELSE "ro", uxn |-> ~executable(perm), pxn |-> TRUE]

(* Mutant: a reservation stops only writers, not every EL0 translation.     *)
forbidden_if_written(kind, reserver, mapper, perm, user) ==
    \/ executable(perm)
    \/ writable(perm) /\ user
    \/ kind = "kernel_object" /\ writable(perm) /\ mapper # reserver

forbidden_by_reservation(kind, reserver, mapper, perm, user) ==
    \/ user \/ executable(perm)
    \/ kind = "kernel_object" /\ writable(perm) /\ mapper # reserver

reserve_allowed(s, base, n, kind) ==
    /\ pages(base, n) \subseteq Frame
    /\ \A r \in resv : ~overlap(r.base, r.length, base, n)
    /\ \A m \in BagToSet(ledger) :
          overlap(m.base, m.length, base, n) =>
              ~forbidden_by_reservation(kind, s, m.owner, m.perm, m.user)
    /\ Cardinality(resv) < MaxReservations

reservation(s, base, n, kind) == [owner |-> s, base |-> base, length |-> n, kind |-> kind]

(* The tables a walk to the page needs below the root.                      *)
walk(v) == {<<2, v \div 4>>, <<3, v \div 2>>}
required_tables(v, n) == UNION {walk(x) : x \in pages(v, n)}
required_table_pages(v, n) == Cardinality(required_tables(v, n))

no_alias(base, n, perm) ==
    \A m \in BagToSet(ledger) :
        overlap(m.base, m.length, base, n) =>
            /\ ~(writable(m.perm) /\ executable(perm))
            /\ ~(executable(m.perm) /\ writable(perm))

map_allowed(s, v, base, n, perm, user) ==
    /\ sp[s].bound /\ sp[s].life # "uninitialized"
    /\ pages(v, n) \subseteq VPage /\ pages(base, n) \subseteq Frame
    /\ \A m \in sp[s].maps : ~overlap(m.at, m.length, v, n)
    /\ no_alias(base, n, perm)
    /\ \A r \in resv : overlap(r.base, r.length, base, n) =>
                          ~forbidden_by_reservation(r.kind, r.owner, s, perm, user)
    /\ Cardinality(sp[s].maps) < MaxMaps /\ BagCardinality(ledger) < MaxLedger
    /\ required_table_pages(v, n) <= Len(sp[s].arena)
    /\ \A x \in pages(v, n) : sp[s].leaf[x] = Absent

require_guard_page(s, v) ==
    /\ v > 1
    /\ \A m \in sp[s].maps : ~overlap(m.at, m.length, v - 1, 1)
    /\ sp[s].leaf[v - 1] = Absent

(* require_backable, require_building: demand backing may fill a hole of a   *)
(* sealed root; everything else needs a root that is being built.            *)
accepts(s, backing) == sp[s].life = "building" \/ (backing /\ sp[s].life = "sealed")

(* EarlyPageArena::allocate_page, k times: the last donated frame first.     *)
allocated(arena, k) == {arena[i] : i \in (Len(arena) - k + 1) .. Len(arena)}

(* install_leaf for each page: only absent leaves are written.               *)
install_leaf(leaf, v, base, n, perm, user) ==
    [x \in VPage |-> IF x \notin pages(v, n) THEN leaf[x]
                     ELSE IF user THEN user_page_descriptor(base + x - v, perm)
                     ELSE page_descriptor(base + x - v, perm)]

(* unmap_page for each page.                                                 *)
clear_leaf(leaf, m) == [x \in VPage |-> IF x \in pages(m.at, m.length) THEN Absent ELSE leaf[x]]

ledger_entry(s, m) ==
    [owner |-> s, base |-> m.base, length |-> m.length, perm |-> m.perm, user |-> m.user]

(* map_impl past its checks: missing tables are taken from the arena, the    *)
(* leaves are written, both tables get their entry.  A failure between the   *)
(* checks and the entries is fatal.                                          *)
map_impl(s, v, base, n, perm, user, stack, backing) ==
    LET missing == required_tables(v, n) \ sp[s].tables
        k == Cardinality(missing)
        m == [at |-> v, base |-> base, length |-> n, perm |-> perm, user |-> user, stack |-> stack]
    IN /\ map_allowed(s, v, base, n, perm, user)
       /\ IF k > Len(sp[s].arena) \/ ~accepts(s, backing)
          THEN trapped' = TRUE /\ UNCHANGED <<sp, ledger, resv, written>>
          ELSE /\ sp' = [sp EXCEPT ![s].arena = SubSeq(@, 1, Len(@) - k),
                                   ![s].tables = @ \cup missing,
                                   ![s].table_frames = @ \cup allocated(sp[s].arena, k),
                                   ![s].maps = @ \cup {m},
                                   ![s].leaf = install_leaf(@, v, base, n, perm, user)]
               /\ ledger' = ledger (+) SetToBag({ledger_entry(s, m)})
               /\ written' = written \cup sp[s].table_frames \cup allocated(sp[s].arena, k)
               /\ UNCHANGED <<resv, trapped>>

(* aarch64_create_address_space.                                            *)
bind(state) == [state EXCEPT !.bound = TRUE]

(* aarch64_donate_table_page after its reservation: the frame joins the arena.*)
donate(state, f) == [state EXCEPT !.arena = Append(@, f)]

(* EarlyStage1Builder::initialize: the root is the last frame of the arena.  *)
initialize(state) ==
    [state EXCEPT !.life = "building", !.arena = Front(@), !.table_frames = {Last(state.arena)}]

(* exact_mapping, and the refusal of a sealed root.                          *)
unmap_allowed(s, v, n) ==
    /\ sp[s].bound /\ sp[s].life # "sealed"
    /\ \E m \in sp[s].maps : m.at = v /\ m.length = n

(* retire_unmapped: both records go once the leaves are gone.                *)
retired(s, m) == ledger (-) SetToBag({ledger_entry(s, m)})

machine_unmap(s, m) ==
    /\ sp' = [sp EXCEPT ![s].maps = @ \ {m}, ![s].leaf = clear_leaf(@, m)]
    /\ ledger' = retired(s, m)
    /\ UNCHANGED <<resv, written, trapped>>

(* aarch64_release_address_space: every mapping, then every reservation      *)
(* (zeroed before it is dropped), then the ASID, then the binding.           *)
release_allowed(s) == sp[s].bound /\ (sp[s].life = "sealed" => sp[s].maps = {})

(* any_reservation, until there is none.                                     *)
owned(s) == {r \in resv : r.owner = s}
owned_frames(s) == UNION {pages(r.base, r.length) : r \in owned(s)}

(* Mutant: the reservations are dropped without zeroing what they covered.   *)
zeroed_nothing(s) == written

zeroed(s) == written \ owned_frames(s)

release_address_space(s) ==
    /\ sp' = [sp EXCEPT ![s].bound = FALSE, ![s].maps = {}, ![s].leaf = [v \in VPage |-> Absent]]
    /\ ledger' = [e \in {x \in BagToSet(ledger) : x.owner # s} |-> ledger[e]]
    /\ resv' = resv \ owned(s)
    /\ written' = zeroed(s)
    /\ UNCHANGED trapped
---------------------------------------------------------------------------
Bound == {s \in Space : sp[s].bound}
Leaves == {sp[s].leaf[v] : s \in Bound, v \in VPage} \ {Absent}
EL0(d) == d.el0 # "none"
Writes(d) == d.el1 = "rw" \/ d.el0 = "rw"
Executes(d) == ~d.uxn \/ ~d.pxn

(* No frame is writable through one translation and executable through      *)
(* another, in any two spaces, and a frame that holds translation tables is  *)
(* reserved by the space that walks it and reachable from EL0 nowhere: read  *)
(* off the descriptors, not off the ledger the checks consult.               *)
NoWritableCode ==
    /\ \A d, e \in Leaves : d.frame = e.frame => ~(Writes(d) /\ Executes(e))
    /\ \A s \in Bound : \A f \in sp[s].table_frames \cup Range(sp[s].arena) :
          sp[s].life # "uninitialized" =>
              /\ f \in owned_frames(s)
              /\ \A d \in Leaves : d.frame = f => ~EL0(d) /\ ~Executes(d)

(* The three statements of what is mapped agree: the leaves, the space's     *)
(* table, and the ledger every later check reads; a frame nobody reserves    *)
(* carries no descriptors; and the fatal branches are never reached.         *)
LedgerMirrorsLeaves ==
    /\ ~trapped
    /\ \A s \in Space : \A v \in VPage :
          sp[s].leaf[v] # Absent <=> \E m \in sp[s].maps : v \in pages(m.at, m.length)
    /\ \A s \in Space : \A m \in sp[s].maps : \A v \in pages(m.at, m.length) :
          sp[s].leaf[v].frame = m.base + v - m.at
    /\ \A e \in BagToSet(ledger) :
          ledger[e] = Cardinality({m \in sp[e.owner].maps : ledger_entry(e.owner, m) = e})
    /\ \A s \in Space : \A m \in sp[s].maps : BagIn(ledger_entry(s, m), ledger)
    /\ written \subseteq UNION {pages(r.base, r.length) : r \in resv}
===========================================================================
