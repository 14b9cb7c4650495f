# Cookie OS: a TLA+ verification of the kernel and its services

This directory models Cookie OS, a phone operating system with its own
microkernel (`core/oskernel`) and a trusted user space of supervised services
(`system/`), checks the models with TLC on small instances and proves the central
ones with TLAPS for every instance. It is written for a reader who has the
repository open beside it. `PROJECT.json` maps every definition to the lines it
translates, every property to the run that checks it, and every hazard to the
properties that would catch it.

Run a model with `tlc -config Capability.cfg Capability` (module
and configuration of each run are in the table below), a proof with
`tlapm KernelProofs.tla`.

## 1. The system

### Kernel

One processor, no preemption inside the kernel: a system call, an interrupt or a
timer runs to completion with interrupts masked. What is hard is therefore not a
race inside one call but the many tables one call must keep in agreement, and the
work that is *suspended* between two calls of one thread.

| Part | State | Operations | What is hard |
|---|---|---|---|
| Rendezvous (`rendezvous.cpp`) | thread slots: state, partner, wake reason, priority | create, start, exit, send, receive, deliver, accept, reply, cancel, expire | slots and identities are reused while others wait for them |
| Capability table (`capability.cpp`) | slots with parent links | mint, grant, revoke, holder exit | revocation is a bounded number of passes over a table whose slots are reused |
| Endpoint IPC (`ipc_endpoint.cpp`, `ipc_continuation.cpp`, `kernel.cpp`, `aarch64_ipc_syscall.cpp`) | endpoints, pending calls, reply seals, completed replies, continuations, run queue | endpoint create and retire, send, receive, reply, expiry, thread death, completion at switch-in | a call lives in up to six tables; timeouts and deaths arrive between any two entries |
| Scheduler (`scheduler.cpp`, `aarch64_preemption.cpp`) | run queue, slices, timer | admit, retire, block, wake, boost, yield, choose | tickless: no timer when nobody waits, so turns must come from decisions |
| Interrupts (`interrupt.cpp`, `interrupt_delivery.cpp`) | source slots, counts, mask bits, one-slot deliveries | attach, detach, dispatch, collect, complete, driver death | masking protocol against late assertions, saturating counts |
| Pager (`fault_region.cpp`, `fault_delivery.cpp`, boot handlers) | declared regions, the pager's question, blocked threads | fault, ask, supply, terminate | one question slot for many waiters |
| Address spaces (`kernel.cpp`, `address_space_epoch.cpp`, `memory_grant.cpp`, `executable_region.cpp`, `process_translation.cpp`, `thread_admission.cpp`) | incarnations, grants, executable regions, capabilities | create, map, unmap, seal, admit, destroy in two phases | identifiers reused while hardware may still hold the old ones |
| Page tables (`aarch64_mapping_state.hpp`, `aarch64_page_tables.hpp`, `machine_aarch64.cpp`) | leaves, donated table frames, one ledger of frames for all spaces | bind, donate, map, unmap, release | three records of the same mapping |
| Registers, discovery, boot image | device tree, boot stages | | see section 8 |

### Trusted user space

One thread runs supervisors, broker and application manager; the services are
processes that die at any moment, answer late, and start again with empty tables.

| Part | State | Operations | What is hard |
|---|---|---|---|
| Process authority, Supervisor (`system/supervisor`) | identity records, restart state, clients on file | start, maintain, register, unregister, restart and republish | pid reuse; a death between look-up and publication |
| Service broker | attached processes | attach, roll back, detach | one of several services fails |
| Service identity (`core/osservice`) | registry inside each service | register, unregister, resolve | a late answer in a shared channel |
| Application manager (`system/app_manager`) | profiles, instances, policy flags, control clients | register profile, launch, uninstall, maintain, replay | policy must follow each new generation of a service |
| Channels (`core/osipc`, bootstrap and control protocols) | packets in flight, descriptors, request numbers | call, answer, time out, launch, READY | answers that are late, repeated or somebody else's |
| Application sessions (`app_manager`, `osaccessibility`) | endpoints minted for an execution and who holds their ends | acquire, claim, deliver, snapshot, act, reap | replacement of an end while the other is in use |
| Connections (`connection_admission.hpp`, `connection_session.hpp`, `subsystem_lease*.hpp`) | grants, sessions, leases and generations | admit, close, revoke, quiesce | late closes of an old generation |
| Key service (`core/oskeys`, `system/services/keys`) | registry, snapshot, policy, objects | create, open, rotate, destroy, encrypt, enable, disable, restart | a publication that half happened |
| Package registry, application principals (`core/ospkg`, `core/osapp`) | registry and snapshot | stage, activate, uninstall; resolve or allocate | the same, and identities that are for ever |
| Storage service (`system/services/storage`) | roots, object channels, rights, quotas | register root, open, walk, remove, restart | a channel outlives the name it was opened by |
| Protected objects (`core/osstorage`) | name registry, wrapped keys, ciphertexts, commit record, snapshots | replace in steps, seal, restore | crash order of key, ciphertext, commit record and name |
| Unlock (`osshell` `unlock.cpp`, `credential_rule.cpp`) | attempts, lockouts, the domain | submit, save, load, destroy | power loss between the decision and what it asks for |
| Compositor (`core/osdisplay`, `services/compositor`) | surfaces, buffers, clients, hits | create, present, raise, hit-test, validate, prune | what was aimed at is gone when the event is delivered |
| Shell (`osshell`) | tasks, commits, previews, chrome leases | reconcile, activate, preview | two snapshots of different age are joined |
| Toolkit, collections (`osui`, `oscollection`) | semantic tree, deltas, windows, slots | edit, route, project, plan, bind | consumers that lag behind |
| Network (`core/osnetwork`), partitions (`core/ostime`), device access (`core/osdevice`) | flows, tunnels, resolver grants, queued packets; units; windows | | generations, budgets and sums that wrap |
| Boot state | decisions | | pure rules, see section 8 |

The parts interact downwards only: the application manager drives supervisors and
broker, these publish identities and policy to services, services persist their
own state, and all of it runs on kernel IPC, capabilities and scheduling.

## 2. Modules

| Module | Models | Composed by |
|---|---|---|
| `Rendezvous` | `class Rendezvous` | `KernelIpc` extends it |
| `Capability` | `class CapabilityTable`, in both the thread and the execution-authority form | |
| `KernelIpc` | rendezvous + endpoint tables + continuations + run queue + the machine layer's issue and completion of calls | `MCKernelIpc` |
| `CallProtocol` | abstract: what endpoint IPC promises a caller | implemented by `KernelIpc` (`MCKernelIpc!ImplementsCallProtocol`) |
| `Scheduler` | `scheduler.cpp` and when the machine asks for a decision | `MCScheduler` adds what a waiting peer observes |
| `Pager`, `Interrupt` | page faults as questions, of which a boot hands over one (`pager_question_delivered`); interrupt delivery | `MCKernelEvents` |
| `AddressSpaces`, `MappingState` | the kernel half of address spaces with the system calls of the boot image, over the machine half: page tables and the frame ledger | `AddressSpaces` extends `MappingState`; `MCKernelSpaces`, with `Rendezvous` |
| `Supervision` | process authority, supervisors, identity registries, broker | `MCServices` |
| `AppManager` | profiles, policy, instances over two services | `MCServices` |
| `AppSessions` | runtime, input, accessibility and collection sessions of executions; the accessibility service | `MCServices` |
| `Channels` | one packet channel and the three protocols spoken on it | `MCServices` |
| `Connections` | admission, sessions, leases and revocation by a lock | `MCServices` |
| `NetworkFlows`, `PacketQueues` | flow leases, tunnels, resolver grants; the two packet queues under them | `MCServices` |
| `PartitionLedger`, `DeviceAccess` | partitioned units; device policies built, encoded, parsed and asked | `MCServices` |
| `Snapshot` | the temporary file, sync, rename, sync of the directory, with a crash or power cut anywhere | used by the three stores |
| `KeyService`, `PackageStore`, `PrincipalStore` | the persistent registries and, for keys, the service in front | `MCStores` |
| `StorageService`, `ProtectedStore`, `Unlock` | private storage; encrypted objects; the lock screen's authority and the enrolment rule | `MCStores` |
| `Compositor`, `TrustedMarks` | surfaces, buffers, frames, hits; the marks over system surfaces | `MCInterface` |
| `SemanticTree`, `Collections`, `ShellTasks` | an application's tree and the views of it; a virtual list and its consumer; the shell's tasks | `MCInterface` |
| `Registries` | the package registry and the principals together | `MCStores`, `GrantProofs` |
| `KernelProofs`, `KernelPendingProofs`, `KernelTableProofs`, `KernelCallProofs` | theorems about rendezvous and kernel IPC | the last two extend the second, which extends the first |
| `ObjectProofs`, `KeyProofs`, `GrantProofs`, `ServiceProofs` | theorems about capabilities, pager and interrupts; the Key service; registries and connections; network and device access | |

Names are the source's where TLA+ allows it: an action is called after the
function it translates, a variable after the member. An operation that the code
refuses changes nothing, so its refusal is the action not being enabled. Where a
handler can be interrupted by the outside world (a service dies, a process is
killed, the power is cut), the handler is several actions and a variable (`job`,
`undo`) says where it stands; nothing else of the same thread may run meanwhile.

Definitions whose names end in or describe a defect (`Bug_synchronise`,
`persist_unadopted`, ...) are not part of any specification. Each is a plausible
mistake in the definition that follows it; replacing that definition by it makes
the property named in `PROJECT.json` fail, which shows that the property says
something about the code.

`MCKernelSpaces`, `MCKernelEvents`, `MCServices`, `MCStores` and `MCInterface` each
hold components that share no state. A behaviour picks one of them at the start (`focus`) and leaves the others
as they began, so that one run asks one question of several components without
multiplying their states.

### Abstractions

- Payloads, names, credentials, descriptors and bytes on the wire or on disk are
  left out or are members of small sets.
- Time is a choice: a deadline may pass at any moment, a restart delay may be over
  or not; the scheduler's elapsed time is any value up to a slice.
- 64-bit counters that only ever order things (sequence numbers of the scheduler)
  are the order; counters whose exhaustion the code handles (capability ids,
  endpoint generations, principals) are bounded and reach their end.
- A file is what a process reads now and what a power cut may leave (`Snapshot`).
- Any thread may send to any endpoint in `KernelIpc`: which thread holds which
  endpoint capability is the subject of `Capability`.
- Addresses are page numbers with two-page tables; a screen is a row of points and a
  rectangle a set of them; a row of a collection is a key and a version.
- A conversion keeps what its decoder checks: a packet of `Channels` or
  `AppSessions` has the fields that are compared, and a malformed one is refused
  where the code refuses it. Byte counts of `PacketQueues` and addresses of
  `DeviceAccess` keep their width, as words that wrap.
- A packet whose credentials are refused ends the parse before the record of rights is
  read (`Channels!rights_read`). Such a sender is taken to bring no descriptor: it would
  have to live in another pid namespace, and nothing in the repository makes one.
- Nothing in the repository advances the security epoch of a protected namespace, so
  `ProtectedStore` has one. A medium may lose what was not synced and may be given an
  old snapshot, but does not bring back later what a power cut took.
- `policy.enable()` refuses nothing that `ensure_application()` has admitted: enabled
  applications have a root, and the two tables have the same size (64), so
  `enable_application` of `KeyService` has no roll-back between the two.
- Connections, the network authorities, the partition ledger, the protected store,
  the unlock authority and the trusted marks have no callers in the repository
  outside unit tests. Their callers are external here: any call, with any of a small
  set of arguments, in any order.

## 3. Runs

| Run | Module / configuration | States | Shows |
|---|---|---|---|
| KernelSpaces | `MCKernelSpaces` | 440 000 | of the rendezvous `NoOrphanWait` and `WakesExplained`: nobody waits for a thread that is gone, every wakeup has its true reason; of address spaces `CodeIsFixed` and `FramesAreAccounted` |
| Capability | `Capability` | 152 000 | `DerivationIsSound`, `SweepReachesEveryDescendant`, `StaleIdsStayDead`: authority only shrinks along derivation, the bounded sweep is complete, identifiers keep their meaning |
| KernelIpc | `MCKernelIpc` | 39 000 | with timeouts: `CallsAreWhole`, `ImplementsCallProtocol` (refinement), `CallsAreCompleted` (liveness) |
| KernelDeath | `KernelIpc` | 423 000 | with deaths, retirement and two priorities: `TablesAgree`, `CallerPriorityIsLent` |
| Scheduler | `MCScheduler` | 64 000 | `OneSliceAhead`, `NeverRefunded`, `PeersTakeTurns` |
| KernelEvents | `MCKernelEvents` | 28 000 | `QuestionsAreKept`, `FaultIsAnswered` of the pager; `LinesAreHonest`, `LineComesBack` of interrupts |
| Services | `MCServices` | 1 460 000 | `HoldersAgree` of identity, `PolicyIsEnforced` of policy, `EndpointsHaveOneHolder` and `EventsNeverReplay` of sessions, `AnswersAreTheirOwn` of channels, `GrantsAreHonoured` of the five authorities |
| Recovery | `MCServices` | 53 000 | `PolicyIsReplayed`, `ServiceComesBack` (liveness) |
| Stores | `MCStores` | 365 000 | `KeysAreKept`, `RegistriesAreKept` under failing writes, crashes and power cuts; `HandlesAreConfined` of storage, `NamesAreRecoverable` of protected objects, `UnlockIsDeniable` and `DestructionIsDeliberate` of the lock screen |
| Interface | `MCInterface` | 1 172 000 | `SceneIsBacked`, `InputGoesWhereAimed` of the display; `TreeIsTruthful` of the tree; `ViewIsOneRevision`, `SlotsFollowKeys` of collections; `TasksAreJoined`, `ShellActsOnWhatItShows` of the shell |
| KernelExpiryFlag | `KernelIpc` | counterexample | finding F2 below |
| PagerPatched | `Pager` | counterexample | finding F13 below |

Several of these are conjunctions of properties that are about one thing:

| Property | Says together |
|---|---|
| `CodeIsFixed` | `NoWritableCode`: no frame is writable in one place and executable in another, in any two spaces, and tables are mapped nowhere; `EntryStaysExecutable`: the page a thread was admitted to start at stays the sealed one |
| `FramesAreAccounted` | `LedgerMirrorsLeaves`: leaves, mapping tables and frame ledger are the same mappings; `LifetimesAreExclusive`: an ASID or a machine space is free only when nothing was built under it |
| `CallsAreWhole` | `SealsAreHonourable`, `RunningThreadIsComplete` |
| `TablesAgree` | `KTypeOK`, `DeathReachesEveryTable`, `IpcTablesAgree`, `RunqueueMirrorsRendezvous` |
| `QuestionsAreKept` | `AskedAtMostTwice`, `QuestionsAreSpent` (a question spends an announcement that was not made before), `WaiterIsRemembered` |
| `LinesAreHonest` | `SlotsAreOwned`, `MaskMirrorsState`, `CountIsHonest` |
| `HoldersAgree` | `ReferencesAreHolders`, `RegistryMirrorsSupervisor`, `BrokerOwnsPublications`, `OneIdentityPerExecution` |
| `PolicyIsEnforced` | `ProfileNeverHalfEnabled`, `PublishedIsEnforced`, `UninstalledIsRevoked` |
| `AnswersAreTheirOwn` | an answer reported is the peer's answer to that request, READY belongs to this launch; `DescriptorsAreOwned`: no descriptor stays open without an owner |
| `GrantsAreHonoured` | `ConnectionsAreLeased`: a connection in use holds its domain up; `NetworkIsKept`: flows fit the plan of their link, what ended stays ended, a tunnel carries one flow; `PacketsFitTheirGrant`: budgets hold without a wrapped sum, and every packet queued can be completed; `PartitionsAreAccounted`: units add up and leave the floor; `PoliciesAreExact`: a policy permits exactly the addresses of its windows |
| `RegistriesAreKept` | `PackagesAreKept`, `PrincipalsAreForever` |
| `UnlockIsDeniable` | an onlooker sees the same of the nominal and the duress credential, a lockout ends, and the authority knows whether the domain is gone; `EnrolledAreApart`: two slips of the finger do not turn one credential into the other |
| `SceneIsBacked` | what is presented has a live buffer of its owner; `MarksAreCurrent`: repainting only the damage leaves exactly the marks of the present scene |
| `TreeIsTruthful` | `InteractionIsVisible`: focus and events stay on what is visible; `ViewsAreCurrent`: renderer and assistive technology never disagree with the tree without knowing it |
| `ViewIsOneRevision` | an answer on its way has the rows of the revision that was asked for, however the application moved on while they were looked up; what is shown has the rows of the revision it is labelled with, and covers the viewport |
| `TasksAreJoined` | tasks are executions of the newest lifecycle snapshot with roots they made, and an older snapshot brings nothing back; a chrome lease validates only for the surface it was accepted for |

### Bounds, and why they are enough

- Three threads everywhere in the kernel: a caller, a server and a third that
  competes, is served next, or reuses the slot. A call ties two threads together,
  and a third is what a stale entry would be confused with.
- Capabilities: two threads, each with and without an execution authority; three
  slots and identifiers up to 5, which is a chain of depth two, its revocation in
  more than one pass, and reuse of slots afterwards.
- IPC with timeouts (KernelIpc): two servers with an endpoint each, bounded and
  unbounded receives, one priority, nobody dies and nothing is retired. IPC with
  deaths (KernelDeath): one endpoint slot with two generations, so that it is
  retired and filled again while a call to the old endpoint is outstanding; two
  priorities, threads 1 and 3 may die, no deadlines. The two are apart because of
  F2: after an expiry the endpoint's flag is stale, which the invariants about
  endpoints would report over and over. What a timeout and a death do together is
  therefore not covered.
- Scheduler: three threads, two priorities, slices of two units.
- Interrupts: three sources for two slots, a ceiling of 2 with four assertions,
  so that table and count overflow; two drivers compete for a source, and one of
  them owns two. Pager: two pageable regions and a sealed one.
- Address spaces: one space of the boot image and one slot of the pool, which is
  created, destroyed and created again, over two ASIDs with two generations; three
  pages (more than one table), nine frames, two grants, two threads.
- Services, identity: two services, two pids and two executions, registries of one
  entry, one restart in the window, two service deaths or late answers. Policy: two
  applications, one instance slot, one fault. Recovery uses one application, one
  pid and two faults of each kind.
- Sessions: two executions, three sessions of each kind, so that an end is replaced
  twice; tables of one slot, so that they are full; an input queue of one event.
  Channels: two requests, two packets in flight, two launches: every late answer has
  a later request to be confused with.
- Connections: two principals, two domains with one lease each, two grants, two
  locks, two generations. Network: two principals, a slow unmetered and a fast
  metered link, tables of two, generations that wrap at 2. Packets: two carriers,
  two generations, lengths up to 3 in a word modulo 4. Partitions: four principals
  for three entries, so that compaction moves an entry into a hole. Devices: two-bit
  addresses with two windows, which includes windows that touch, that end at the last
  address, and that would wrap.
- Stores: two keys of two versions with three pieces of material, two packages and
  signers with two generations, three applications for two principal records; at
  most two snapshots between which a power cut chooses. Storage: two tenants for one
  root slot, three channels of which an application may have two, paths of two
  names. Protected objects: two users, three attempts and three generations, three
  values of the trusted counter. Unlock: thresholds 2 and 3, time up to 4 with
  lockouts of 1 to 3, one power loss; credentials of up to three characters.
- Interface (in `MCInterface`): an application and the shell with two surfaces, a
  buffer each and two compositor generations; three marks' worth of screen; a tree
  of three nodes with a removal list of one, so that it overflows, and five revisions.
  Collections: up to three rows of height two under a viewport of two, so that a
  scrolled window shows halves of two rows and overscan meets the limit of two
  materialized rows; two changes make a revision while there is a view (without one
  they would only lengthen the list by another way), and the application may move on
  between the lookups of one answer. Shell: two executions, two surfaces, two
  compositor generations, two lifecycle snapshots that may arrive late and four shell
  revisions; a behaviour exercises one of activation, previews, chrome leases and late
  snapshots (`feature`), which share the tasks and no state of their own.

### Fairness

- `FairSpec` (IPC): a thread that stays runnable is switched to. The run uses one
  priority, and the scheduler arms its timer whenever a peer waits; that this is
  enough is `PeersTakeTurns`.
- `FairOSpec` (Scheduler): the timer that was armed fires, and a changed run queue
  is followed by a decision.
- `FaultFairness`: the pager is switched to again and again and, once handed a
  question, is at some point not interrupted before the call that answers it.
  `InterruptFairness`: a driver collects what is waiting for it and completes what
  it services, and a line that can assert again and again does. These two are
  assumptions about the user-space pager and drivers: they keep their side of the
  protocol while they live. Both may die, which the properties allow for.
- `PolicyFairness`, `IdentityFairness`: the trusted loop calls `maintain()` again
  and again and never stops inside an operation; the delay of a restart passes.

Nothing is assumed of clients, applications and supervised services: they may die,
stay silent or answer late, up to the bounded number of faults. `CHECK_DEADLOCK
FALSE` stands where a system may come to rest: all threads blocked or dead, the
bounded supply of executions or faults used up.

### What the liveness properties and the refinement leave out

- `LineComesBack` is about a source whose device respects the mask and whose driver
  has no other source and collects before it calls. For the others it is false (F3).
- `PolicyIsReplayed` ends its promise when a control channel is out of step (S4) or
  a service is stopped or given up.
- `FaultIsAnswered` asks that the pager lives and the machine was not halted, and is
  about a question that was handed over or still can be. The boot image hands over one
  question per boot (`pager_question_delivered` is never cleared), so that a thread
  whose fault comes after it waits for ever (F15).
- `ImplementsCallProtocol` is checked where nobody dies and nothing is retired. That
  retirement withdraws exactly the calls of its endpoint is proved
  (`KernelImplementsCalls`); a death is outside both.
- `NamesAreRecoverable` speaks of names of generation 2 and later: a name is created
  at generation 1 before it has any material (`protected_namespace.cpp:69-76`), and a
  power cut may leave it so.

## 4. Proofs

| Theorem | Statement |
|---|---|
| `KernelProofs!RendezvousSafe` | `Spec => [](TypeOK /\ SlotTableExact /\ NoOrphanWait /\ BlockedThreadIsClean)` |
| `KernelProofs!RendezvousWakes` | `Spec => WakesExplained` |
| `KernelProofs!PriorityIsLent` | `KSpec => []CallerPriorityIsLent` |
| `KernelTableProofs!TablesStayConsistent` | `KSpec /\ [][NoExpiry]_kvars => []TablesAgree` |
| `KernelTableProofs!TablesAgreeUntimed` | `KSpec => []TablesAgree` where `Bounded \subseteq {FALSE}` |
| `KernelCallProofs!CallsStayWhole` | `KSpec /\ [][NoDeath]_kvars => []CallsAreWhole` |
| `KernelCallProofs!KernelImplementsCalls` | `KSpec /\ [][NoDeath]_kvars => ImplementsCallProtocol` |
| `KernelCallProofs!ImmortalCalls` | `KSpec => []CallsAreWhole /\ ImplementsCallProtocol` where `Mortal = {}` |
| `ObjectProofs!CapabilitySound` | `Spec => [](TypeOK /\ IdsDistinct /\ DerivationIsSound)` |
| `ObjectProofs!CapabilityIdsFixed` | `Spec => StaleIdsStayDead` |
| `ObjectProofs!PagerKeepsQuestions` | `PSpec => []QuestionsAreKept` |
| `ObjectProofs!InterruptsAreHonest` | `ESpec => []LinesAreHonest` |
| `KeyProofs!KeysStayKept` | `KeySpec => []KeysAreKept` |
| `GrantProofs!PackagesStayKept` | `PackageSpec => []PackagesAreKept` |
| `GrantProofs!PrincipalsStayForever` | `PrincipalSpec => []PrincipalsAreForever` |
| `GrantProofs!RegistriesStayKept` | `PackageSpec /\ PrincipalSpec => []RegistriesAreKept` |
| `GrantProofs!ConnectionsStayLeased` | `ConnectionsSpec => []ConnectionsAreLeased` |
| `ServiceProofs!NetworkKeepsGrants` | `NetworkSpec => []NetworkIsKept` |
| `ServiceProofs!DevicePoliciesAreExact` | `DevicesSpec => []PoliciesAreExact` |

They hold for any set of identities, priorities, holders, objects and rights and
any table sizes, assuming that identities are positive numbers, that there is a
priority, that tables have a slot, and that bounds are natural numbers
(`ThreadIdAssumption`, `PriorityAssumption`, `MaxThreadsAssumption`,
`KernelIpcAssumption`, `HolderAssumption`, `CapabilityBounds`); that a name for nobody
is not a driver or a thread and that paged and sealed regions are apart
(`InterruptConstants`, `PagerAssumption`); that measurements of a link are numbers and
generations can be at least 1 (`NetworkConstants`); that a policy has at most four
windows, the number of `access.hpp`, over words of any width (`DeviceConstants`). The
stores and connections state what they need of their constants in the same way. Every
assumption is evaluated by a run.

*Rendezvous.* The inductive invariant is `RInv`, the conjunction in
`RendezvousSafe`. `NoOrphanWait` needs the type of `partner`, so that `exit_thread`
releases every thread that names the one that leaves. `RendezvousWakes` needs
`BlockedThreadIsClean`: without it a wakeup could show a reason left from an earlier
wait, and a receiver could be released by the exit of a thread it does not wait for.
`SlotTableExact` is a result of its own, and justifies that the model looks a thread
up by its state where the code searches the slot array. Each kind of operation has
a lemma; delivery, which updates two threads, first states its effect thread by
thread (`DeliverEffect`).

*Run queue.* `KInv` is `RInv` with the types of the IPC tables and the half of the
cache that survives everything (`CacheIsSafe`): the priority on file is the inherited
one, and who is marked runnable is ready. `inherited_priority` is a maximum over the
callers of a server; `InheritedIsHighest` characterises it, and after that only the set
of callers matters. `SynchroniseKeepsCache` is the one lemma about `synchronise`: it
keeps the cache if it reaches every thread whose callers or whose readiness changed,
and each kernel operation shows that it does. The other half, that who is ready is
marked runnable (`NoWakeForgotten`), is broken by an expired deadline (F1), which is
why `PriorityIsLent` needs no hypothesis and the next theorem does.

*Tables.* `TInv` adds `NoWakeForgotten` and the three parts of `TablesAgree` about
endpoints, pending calls and the dead. The hypothesis `NoExpiry`, no step is
`ipc_expire_one_receive`, excludes exactly the step of F2: the timer path updates
neither the endpoint's flag nor the run queue. Retirement and death are the long cases:
both release any number of callers at once. Where no receive has a deadline
(`Bounded \subseteq {FALSE}`) nothing ever expires (`UntimedKept`), and the hypothesis
goes away.

*Calls.* `PInv` says that blocked callers and pending calls name each other; it
survives everything but a death. `CInv` adds `Handover`: how far the call or receive of
a thread has come between the step that wakes it and the switch that completes it. A
receiver stays armed until it is switched to, what was delivered to it is not sealed
yet, and a caller whose answer is stored, or a receiver whose deadline expired, is ready
with nothing else to complete. Without it a thread could be resumed with two results.
The hypothesis `NoDeath` excludes `destroy_thread`, which does not take back what a
dying caller had delivered to a receiver that has not run yet (F5, F9): with deaths
`CallsAreWhole` is false. Timeouts and retirement, which no run combines, are both
covered. The refinement follows from `CInv`: the mapping is the one TLC checks
(`MCKernelIpc`), and every action is shown to be a step of `CallProtocol` or unseen.

*Capability.* The inductive invariant is the conjunction in
`CapabilitySound`. A parent is named by slot and identifier. `DerivationIsSound`
survives an insertion because only a free slot is filled and no parent is in one
(`InsertKeepsParents`), and a sweep because `doomed(S)`, the smallest set that
contains `S` and is closed under derivation, takes every child of what it removes
(`DoomedIsClosed`, `SweepKeepsParents`). `IdsDistinct` carries the bound
`id < next_id` that makes a fresh identifier fresh. That the *bounded passes* of the
code compute this closure is `SweepReachesEveryDescendant`, which only TLC checks:
its general proof is an induction over the passes.

*Pager.* `QuestionsAreKept` is inductive as it stands. `AskedAtMostTwice` alone is
not: it needs `QuestionsAreSpent`, which ties the number of questions to the two
announcements a region can make, and `WaiterIsRemembered` needs that a delivery in
use is about a paged region.

*Interrupt.* The inductive invariant is `LinesAreHonest` with the type
invariant. The mask and the count speak of owned sources, and that an owned source
has a driver (`SlotsAreOwned`) is what makes the delivery of one well typed. Dispatch
is the long case: it counts, begins service or leaves the source pending, and masks.

*Keys.* `KeyInv` says that a running process has in memory what a new one would read,
and that this is also what a power cut would leave unless somebody relied on a rename in
doubt; so a ciphertext made from memory can be read from every snapshot. Two more facts
are needed for what the service drops from the provider: no two keys share material,
and what was dropped is the material of no key on file (`Spares`).

*Packages.* `PackageInv` says that the registry in memory and the one a new process
reads are among those a power cut may leave, and that each of these owes the same to the
last registry reported: it continues it, and differs only in packages in doubt since.

*Principals.* `PrincipalInv` orders the snapshots: what was handed out is in memory,
memory is in the file as a process sees it, and, unless a directory sync failed, in
every snapshot a power cut may leave. An exposed rename (P2) ends the promise.

*Connections.* `ConnectionInv` adds that identifiers of leases were drawn from their
domain's authority, that no two holders present the same lease (`HoldersOK`), and
that a grant is of the present lock or an earlier one (`GrantsOK`). Without
`HoldersOK` the release of one session could end the lease of another.

*Network.* `NetworkInv` is `BrokerInv`, `TunnelInv` and `GrantInv`: an identifier
below the next one is live or ended, never both, and whatever is live is of the
present generation. That the flows of a principal stay within the plan of their link
is carried by each lease's *elders*, the leases that were there when it was admitted:
with it they fitted the plan then, and their number only shrinks.

*Devices.* `DeviceInv` says that the builder's windows are valid and in canonical
order and that a policy is the record it was parsed from. `InsideIsContainment` shows
that the comparison of `permits`, which never adds base and length, is containment
address by address; `WindowsAreApart`, that canonical order keeps windows disjoint.

Only model-checked: liveness and everything under fairness, the passes of a sweep, the
scheduler, address spaces, supervision, policy, sessions and channels, packets and
partitions (sums over sets), storage, protected objects, unlock and the whole
interface. Liveness, and induction over data such as the passes of a sweep, are out of
this prover's reach.

## 5. Findings

*F2, run KernelExpiryFlag.* `expire` (`kernel.cpp:396`) ends a bounded receive in
the rendezvous and leaves the endpoint's `receive_waiting` set, so that the retry
that `rendezvous.hpp:55` calls "the normal thing to do" is refused with
`receive_already_waiting` (`ipc_endpoint.cpp:340`).

*F13, run PagerPatched.* A faulting thread is taken off the run queue only
(`aarch64_boot.cpp:1407`), and the next `synchronise()` of any kernel call puts it
back, although `rendezvous.hpp:44` says that telling one of the two structures "is
not saying it at all".

Other places where code and text part, or where the code is fragile, met while
modelling. They were found by reading; unlike the two above no run demonstrates
them, except where one is named. The models follow the code.

- F1: `kernel.cpp:396-414` does not synchronise the run queue after an expiry, so
  the decision that follows does not see the woken thread;
  `docs/M7_1_KERNEL_COMPOSITION.md:29-37` says every such operation recomputes it,
  and `aarch64_boot.cpp:2395-2397` that the scheduler must see it in this decision.
- F3: a source left pending, because its driver had not collected an earlier
  delivery, is "picked up the next time that source's own line asserts"
  (`interrupt_delivery.hpp:38-41`); but service begins only on the step from
  attached to pending (`kernel.cpp:855-874`), which a pending source cannot take
  again. The same holds for a source that `end_service` returns to pending
  (`interrupt.cpp:190-198`), which "sends the driver round again"
  (`docs/M7_1_INTERRUPT.md:97`).
- F4: `docs/M7_1_INTERRUPT.md:175-177` says the longest waiting sender is served;
  `rendezvous.cpp:243-248` takes the first slot.
- F5: a ready server that was handed a caller keeps it as its partner when the
  caller dies (`rendezvous.cpp:90-115` releases blocked threads only);
  `docs/M7_1_KERNEL_COMPOSITION.md:15` says death reaches every table.
- F6: `docs/M7_1_CAPABILITY.md:103-104` says the rendezvous retains the slots of
  exited threads; `rendezvous.cpp:109-113` frees them.
- F7: retiring an endpoint wakes its callers and leaves their send continuation
  armed (`kernel.cpp:235-246`).
- F8: a deadline that passes after the receiver was handed a caller fails to wake
  it and halts the boot image (`aarch64_boot.cpp:2403-2405`); `kernel.cpp:407-410`
  takes a failed wake to mean that the receiver's address space died.
- F9: a client that dies after delivery and whose identity is reused can have its
  next call handed over twice.
- F10: `tests/unit/kernel/ipc_composition_test.cpp:146-148` says endpoint restart
  settles the continuation of a blocked receive; `kernel.cpp:238-243` cancels it
  only while the receive still waits, not when a caller was already delivered.
- F11: a dead driver's line is not masked (`kernel.cpp:188`);
  `docs/M7_1_INTERRUPT.md:113` says it is.
- F12: `dispatch_interrupt` does not make a driver blocked in receive runnable
  (`docs/M7_1_KERNEL_COMPOSITION.md:55`).
- F14: `FaultDeliveryTable::release` is never called on thread death
  (`fault_delivery.hpp:78-81`, `kernel.cpp:177-195`).
- F15: the pager is handed a question once per boot: `pager_question_delivered` of the
  boot image is set and never cleared, so that a second fault is asked about, blocks
  its thread, and reaches nobody. `Pager` models it.
- S1: `maintain()` prunes a dead process without telling the service; a reused pid
  is refused there until `resolve()` purges the entry or the service restarts.
- S2: a client that dies between look-up and publication of a republish fails the
  restart and costs restart budget.
- S3: closing a connection session after `revoke_all` returns before the lease is
  released, so that the domain cannot quiesce unless somebody releases the lease
  apart. `Connections` models it.
- S4: a control request that timed out leaves its answer in the channel; every
  later request finds its predecessor's answer and is refused until the service
  restarts. `AnswersAreTheirOwn` shows that the late answer is never taken for
  another's. The same holds of `StorageControlClient`.
- S5: a reaped child whose identity cannot be released keeps its slot, and every
  later `maintain()` ends at that slot (`manager_linux.cpp:613-625`).
- S6: a republish that failed half way registers roots again and is refused until
  Storage restarts (`storage_integration.cpp:175-183`).
- S7: a crash loop of Storage ends `maintain()` before the Key supervisor and the
  reaping (`manager_linux.cpp:584-587`).
- S8: an attach whose rollback failed leaves its broker slot until the pid is used
  again.
- S9: `register_application_profile` asks only who owns the package
  (`manager_linux.cpp:336-339`), which outlives an uninstall, and so publishes
  policy for an application that is not installed.
- S10: a limit of more than 8 restarts in the window never detects a crash loop:
  the history holds 8.
- P1: package and principal registries keep the old memory when the directory sync
  fails after the rename; the key registry adopts the new one. `PackagesAreKept`
  shows that this loses nothing that was reported.
- P2: opening a registry does not sync the directory. A principal loaded from an
  unsynced rename can be handed out and, after a power cut, be given to another
  application; `docs/M1_4_PRINCIPALS_SANDBOX.md:15` says identifiers are not
  reused. The same holds for a rotated key version or a tombstone.
  `PrincipalsAreForever` and `KeysAreKept` exclude a power cut after somebody
  worked on with a rename whose directory sync had failed or never happened
  (`doubt = "exposed"`), and fail without the exclusion.
- P3: with a provider whose `destroy` erases for good, a destroy whose directory
  sync failed, followed by a power cut, leaves a snapshot that cannot be restored;
  and a failing `load_snapshot` destroys what it had restored so far
  (`persistence_linux.cpp:180-191`). The provider in the repository only forgets a
  process-local reference, which is what `KeyService` models.
- P4: a client that closes its object between request and answer ends the Key
  service (`host_ci_main.cpp:141-146`).
- P5: application roots of the key hierarchy are never freed
  (`max_application_roots`): the 65th application that is ever enabled in one life
  of the service is refused, although 64 may have been disabled since.

Address spaces:
- A1: `create_el0_address_space` (`aarch64_boot.cpp:1324`) returns when the donated
  frame is refused, after the slot's machine space was bound; the slot is still free
  in the pool and can never be bound again. `machine_aarch64.cpp:113` says "Leave
  nothing half-bound."
- A2: `ExecutableRegionTable::forget` and the retirement of builders and boot
  translations have no caller outside tests: what a destroyed space sealed stays on
  file, and its epoch stays retiring until the reclaim is acknowledged.

Sessions and channels:
- C1: `runtime_session.cpp` says that reacquisition closes the previous service side,
  "invalidating the old capability". An end that was claimed is no longer the
  manager's to close, and the accessibility service answers `duplicate_session` for
  the new one until the old peer is gone or released.
- C2: an accessibility action request carries application and revision and no
  session; the service's calls to an application have no timeout; dispatch errors
  other than refusals end the service, which is restarted.
- C3: an input socket that is full closes the sender, and input stops until the
  application acquires it again.
- C4: a service's READY has no payload; it is matched by its request only.

Storage, protected objects, unlock:
- D1: a reply to an object client that died ends the storage service with status 0
  (`main.cpp:110`). `open_file` creates or truncates before it knows that a slot is
  free. The handler for protected replacement is never installed by `main`.
- D2: the generation of a key record has 32 bits and that of an object 64.
- D3: `unlock.hpp:354` says that an attempt is "Committed before the credential is
  evaluated, never after"; what `persisted_state()` returns before `submit` does not
  contain it. A power loss after the forgotten settings were saved and before the
  domain is destroyed leaves the domain without its erasure settings. A restart ends
  a lockout, which is documented.

Display, shell, toolkit:
- U1: a comment of `input.cpp` excludes the "same principal"; the code compares the
  whole `PeerIdentity`, which is stricter.
- U2: scene snapshots carry no revision, so the shell must use them in the order it
  fetched them; `ShellTasks` assumes it does. One application root per process is
  what keeps `reconcile` from refusing a whole scene.
- U3: `collection_change_affects_window` answers "not affected" for an empty window
  and for insertions behind a list shorter than the viewport; a consumer must also
  compare the item counts. `ViewIsOneRevision` promises coverage of the viewport only
  while the length is unchanged.

Authorities:
- N1: `broker.hpp:145-147` says that a generation that wraps "fails closed by leaving
  generation zero"; the restart after that goes on to 1. Identifiers are not reused,
  so `EndedStaysEnded` holds all the same.
- N2: releasing a flow does not retire its tunnel, and the two packet switches have
  no generation: they admit by the grant presented, also after it was revoked. A
  packet whose number equals that of one queued before under another carrier can be
  completed only after that one.
- N3: `access.cpp:319-321` has the builder refuse windows out of order, because "A
  producer should fail where the mistake is"; it does not refuse an isolated domain
  on a platform that cannot confine it, which the parser does. `PoliciesAreExact` says that this is the only
  such case.

## 6. Hazards without a property

`PROJECT.json` lists every hazard at its line. Uncovered ones say why: mutual sends
can deadlock two servers by design of synchronous IPC (`rendezvous.cpp:117`); a
decision of the scheduler that the preemption coordinator then cannot apply leaves
the two in disagreement (`aarch64_preemption.cpp:23`), which waits for a model of
the machine operations that fail; the stuck slot (S5) is modelled as it is, and no
property can hold against it; a rename that was never synced and is relied on before a
power cut (P2) is what `RegistriesAreKept` and `KeysAreKept` exclude, since the code
does not prevent it. The value of the restart limit (`supervisor.cpp:420`) is one
comparison: the properties of `Supervision` hold for any value of it and none would
notice one restart more or less.

## 7. What could follow

1. `Preemption`: the coordinator of `aarch64_preemption.cpp` with machine operations
   that fail, captured frames and deadline generations, over `Scheduler`.
2. Verified boot (`core/osboot`): stages, sealing, attestation, profile unlock and
   restore as operators over small inputs, compared with reference definitions.
3. `KeyService` with the erasure of a profile; `AppManager` with the retirement of
   launch targets.
4. A timeout and a death in one IPC run, once F2 is settled.
5. Proofs of `NeverRefunded` (Scheduler), `CodeIsFixed` and `FramesAreAccounted`.

## 8. Not modelled

Register writes, TLB and cache maintenance, the device tree and boot memory planning
(run once, no retained state), the scripted stages of the proof boot, the system-call
register encoding, the core vocabulary, the sandbox set-up (a fixed sequence that ends
the process on failure), package manifests, executable images and ciphertext envelopes
(parsers of one immutable buffer), verified boot (decisions over one record),
`recovery_policy.hpp`, relay choice and padding (pure decisions), text, layout,
motion, pixels and rasterising, the DRM backend, the shell's consent prompts, the
interface compiler, examples and fuzz drivers. `PROJECT.json` lists each with its
reason.
