--------------------------- MODULE DeviceAccess ---------------------------
(***************************************************************************)
(* Device access policies (core/osdevice): a component is granted bounded  *)
(* windows of registers by a record, which a builder assembles or which    *)
(* comes from elsewhere; the parser decides whether it is a policy, and    *)
(* permits answers for an address range.  Addresses are words up to Top,   *)
(* and arithmetic is modulo Top + 1.  Magic, version, sizes and reserved   *)
(* bytes are one bit of a record: framed.                                  *)
(***************************************************************************)
EXTENDS Integers, Sequences

CONSTANTS Top,         \* UINT64_MAX
          MaxWindows,  \* max_mmio_grants
          Domains, Dmas, Modes,  \* bytes met where a discriminant is expected
          MaxForeign   \* bound: windows of a record the builder did not make

DeviceConstants ==
    /\ Top \in Nat /\ MaxWindows \in 0 .. 4 /\ MaxForeign \in Nat
    /\ Domains \subseteq Nat /\ Dmas \subseteq Nat /\ Modes \subseteq Nat

VARIABLES builder,     \* DeviceAccessPolicyBuilder
          record,      \* the bytes at hand
          policy       \* what the parser made of them, once it has

device_vars == <<builder, record, policy>>

Word == 0 .. Top
minus(a, b) == IF b <= a THEN a - b ELSE a - b + Top + 1
plus(a, b) == IF a + b <= Top THEN a + b ELSE a + b - (Top + 1)

ExecutionDomain == [kernel_resident |-> 1, isolated_user |-> 2]
DmaCapability == [none |-> 1, iommu_confined |-> 2, unconfined |-> 3]
AccessMode == [read_only |-> 1, read_write |-> 2]
raws(enum) == {enum[n] : n \in DOMAIN enum}

Windows == [base : Word, length : Word, access : Modes]

(* An unset policy or builder grants nothing.                              *)
NoPolicy == [domain |-> ExecutionDomain.isolated_user, dma |-> DmaCapability.none, grants |-> <<>>]
NoRecord == [framed |-> FALSE, domain |-> 0, dma |-> 0, grants |-> <<>>]

grant_wraps(base, length) == length > minus(Top, base)

(* encode_common.                                                          *)
encode(p) == [framed |-> TRUE, domain |-> p.domain, dma |-> p.dma, grants |-> p.grants]

(* The end of the window before, in canonical order.                       *)
after(grants, i) == i # 1 => grants[i].base >= plus(grants[i - 1].base, grants[i - 1].length)

window_valid(g) ==
    g.access \in raws(AccessMode) /\ g.length # 0 /\ ~grant_wraps(g.base, g.length)

confined(p) == p.domain = ExecutionDomain.isolated_user /\ p.dma # DmaCapability.unconfined

parses(r) ==
    /\ r.framed /\ Len(r.grants) <= MaxWindows
    /\ r.domain \in raws(ExecutionDomain) /\ r.dma \in raws(DmaCapability)
    /\ \A i \in DOMAIN r.grants : window_valid(r.grants[i]) /\ after(r.grants, i)
    /\ ~(r.domain = ExecutionDomain.isolated_user /\ r.dma = DmaCapability.unconfined)

(* Mutant: a request longer than the window is left to the subtraction.    *)
inside_by_difference(g, base, length) ==
    base >= g.base /\ minus(base, g.base) <= minus(g.length, length)

inside(g, base, length) ==
    /\ base >= g.base /\ length <= g.length
    /\ minus(base, g.base) <= minus(g.length, length)

permits(p, base, length, mode) ==
    /\ length # 0 /\ ~grant_wraps(base, length)
    /\ \E i \in DOMAIN p.grants :
          /\ mode = AccessMode.read_write => p.grants[i].access = AccessMode.read_write
          /\ inside(p.grants[i], base, length)

-----------------------------------------------------------------------------
set_domain(d) ==
    /\ builder' = [builder EXCEPT !.domain = d]
    /\ UNCHANGED <<record, policy>>

set_dma(d) ==
    /\ builder' = [builder EXCEPT !.dma = d]
    /\ UNCHANGED <<record, policy>>

add_grant(g) ==
    /\ Len(builder.grants) < MaxWindows
    /\ g.length # 0 /\ ~grant_wraps(g.base, g.length)
    /\ after(Append(builder.grants, g), Len(builder.grants) + 1)
    /\ builder' = [builder EXCEPT !.grants = Append(@, g)]
    /\ UNCHANGED <<record, policy>>

encodes ==
    /\ record = NoRecord
    /\ record' = encode(builder)
    /\ UNCHANGED <<builder, policy>>

(* A record from elsewhere.                                                *)
arrives ==
    /\ record = NoRecord /\ builder = NoPolicy
    /\ \E n \in 0 .. MaxForeign : \E w \in [1 .. n -> Windows], d \in Domains, m \in Dmas, f \in BOOLEAN :
          record' = [framed |-> f, domain |-> d, dma |-> m, grants |-> w]
    /\ UNCHANGED <<builder, policy>>

parse_device_access_v1 ==
    /\ record # NoRecord /\ policy = NoPolicy
    /\ parses(record)
    /\ policy' = [domain |-> record.domain, dma |-> record.dma, grants |-> record.grants]
    /\ UNCHANGED <<builder, record>>

DevicesInit == builder = NoPolicy /\ record = NoRecord /\ policy = NoPolicy

DevicesNext ==
    \/ /\ record = NoRecord
       /\ \/ \E d \in raws(ExecutionDomain) : set_domain(d)
          \/ \E d \in raws(DmaCapability) : set_dma(d)
          \/ \E g \in {g \in Windows : g.access \in raws(AccessMode)} : add_grant(g)
    \/ encodes \/ arrives \/ parse_device_access_v1

DevicesSpec == DevicesInit /\ [][DevicesNext]_device_vars

(* PoliciesAreExact: a parsed policy permits exactly the ranges that lie,   *)
(* address by address, in one of its windows with that access; no address   *)
(* lies in two windows, so the order of a check cannot matter; an isolated  *)
(* component is confined; one authority has one encoding; and what the      *)
(* builder encodes is refused for one reason only, the isolation the        *)
(* platform cannot back.                                                    *)
PoliciesAreExact ==
    LET addresses(base, length) == base .. base + length - 1 IN
    /\ policy # NoPolicy =>
          /\ \A base, length \in Word, mode \in raws(AccessMode) :
                permits(policy, base, length, mode) <=>
                    /\ length # 0
                    /\ \E i \in DOMAIN policy.grants :
                          LET g == policy.grants[i] IN
                          /\ addresses(base, length) \subseteq addresses(g.base, g.length)
                          /\ mode \in {AccessMode.read_only, g.access}
          /\ \A i, j \in DOMAIN policy.grants : i # j =>
                addresses(policy.grants[i].base, policy.grants[i].length)
                    \cap addresses(policy.grants[j].base, policy.grants[j].length) = {}
          /\ policy.domain = ExecutionDomain.isolated_user => confined(policy)
          /\ encode(policy) = record
    /\ record = encode(builder) /\ confined(builder) => parses(record)
=============================================================================
