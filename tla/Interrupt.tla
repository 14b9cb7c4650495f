----------------------------- MODULE Interrupt ------------------------------
(***************************************************************************)
(* Interrupt delivery to user-space drivers: the table of sources and      *)
(* their mask-until-complete protocol (interrupt.cpp), the one-slot        *)
(* hand-over of a collected count to the driver's next resume              *)
(* (interrupt_delivery.cpp), the kernel operations that join the two       *)
(* (kernel.cpp) and the controller's mask bit as the machine layer sets it *)
(* (aarch64_boot.cpp).                                                     *)
(*                                                                         *)
(* asserted is not state of the kernel: it counts the assertions the table *)
(* has absorbed and not yet reported, for CountIsHonest to compare with.   *)
(***************************************************************************)
EXTENDS Naturals, FiniteSets

CONSTANTS
    Source,        \* interrupt sources, the kernel's own numbering
    Driver,        \* threads that may attach
    Authority,     \* <<driver, source>>: who holds a capability for what
    Late,          \* sources whose assertions may arrive although masked
    Eager,         \* drivers that call before they collect what is waiting
    MaxSources,    \* the number of slots in the table
    Ceiling,       \* assertion_ceiling, the largest count
    MaxAssertions  \* bound on assertions absorbed between two reports

invalid_driver == 0

\* What the constants are.
InterruptConstants ==
    /\ invalid_driver \notin Driver
    /\ Authority \subseteq Driver \X Source
    /\ Late \subseteq Source
    /\ Eager \subseteq Driver
    /\ MaxSources \in Nat /\ Ceiling \in Nat \ {0} /\ MaxAssertions \in Nat

VARIABLES
    slot,       \* owner, state, assertions and saturated of each source
    delivery,   \* the service result waiting for each driver to resume
    spurious,   \* spurious_
    masked,     \* the controller's mask bit
    asserted    \* assertions absorbed since the last report

ivars == <<slot, delivery, spurious, masked, asserted>>

Detached ==
    [owner |-> invalid_driver, state |-> "detached", assertions |-> 0,
     saturated |-> FALSE]
NoDelivery == [armed |-> FALSE, assertions |-> 0, saturated |-> FALSE]

IInit ==
    /\ slot = [s \in Source |-> Detached]
    /\ delivery = [d \in Driver |-> NoDelivery]
    /\ spurious = 0
    /\ masked = [s \in Source |-> TRUE]
    /\ asserted = [s \in Source |-> 0]

find(s) == slot[s].state # "detached"

(***************************************************************************)
(* The driver's three calls.                                               *)
(***************************************************************************)
\* The capability the driver presents is its own, has the right and names the source.
interrupt_source_for_capability(d, s) == <<d, s>> \in Authority

attach(d, s) ==
    /\ ~find(s)
    /\ Cardinality({r \in Source : find(r)}) < MaxSources
    /\ slot' = [slot EXCEPT ![s] =
          [owner |-> d, state |-> "attached", assertions |-> 0, saturated |-> FALSE]]

interrupt_attach(d, s) ==
    /\ interrupt_source_for_capability(d, s)
    /\ attach(d, s)
    /\ masked' = [masked EXCEPT ![s] = FALSE]
    /\ asserted' = [asserted EXCEPT ![s] = 0]
    /\ UNCHANGED <<delivery, spurious>>

\* Permitted in any state.
detach(d, s) ==
    /\ find(s) /\ slot[s].owner = d
    /\ slot' = [slot EXCEPT ![s] = Detached]

\* A delivery not yet collected stays armed.
interrupt_detach(d, s) ==
    /\ interrupt_source_for_capability(d, s)
    /\ detach(d, s)
    /\ masked' = [masked EXCEPT ![s] = TRUE]
    /\ asserted' = [asserted EXCEPT ![s] = 0]
    /\ UNCHANGED <<delivery, spurious>>

\* The slot once its service is over: what arrived meanwhile is outstanding.
served(v) == [v EXCEPT !.state = IF v.assertions > 0 THEN "pending" ELSE "attached"]

end_service(d, s) ==
    /\ find(s) /\ slot[s].owner = d
    /\ slot[s].state = "in_service"
    /\ slot' = [slot EXCEPT ![s] = served(slot[s])]

\* Leaves the line masked after the last completion.
Bug_interrupt_complete(d, s) ==
    /\ interrupt_source_for_capability(d, s)
    /\ end_service(d, s)
    /\ UNCHANGED <<masked, delivery, spurious, asserted>>

interrupt_complete(d, s) ==
    /\ interrupt_source_for_capability(d, s)
    /\ end_service(d, s)
    /\ masked' = [masked EXCEPT ![s] = slot[s].assertions > 0]
    /\ UNCHANGED <<delivery, spurious, asserted>>

(***************************************************************************)
(* An assertion reaching the kernel.                                       *)
(***************************************************************************)
\* The count wraps at the ceiling.
Bug_record_wrap(v) == [v EXCEPT !.assertions = (@ + 1) % (Ceiling + 1)]

record_assertion(v) ==
    IF v.assertions = Ceiling THEN [v EXCEPT !.saturated = TRUE]
    ELSE [v EXCEPT !.assertions = @ + 1]

\* What the table makes of an assertion of an attached source: it is outstanding
\* now, or one more of those already outstanding.
dispatch(v) ==
    IF v.state = "attached"
    THEN [owner |-> v.owner, state |-> "pending", assertions |-> 1, saturated |-> FALSE]
    ELSE record_assertion(v)

\* The slot once its count has been collected, and what was collected.
begin_service(v) ==
    [owner |-> v.owner, state |-> "in_service", assertions |-> 0, saturated |-> FALSE]
collected(v) == [armed |-> TRUE, assertions |-> v.assertions, saturated |-> v.saturated]

\* dispatch_interrupt, then the mask the handler sets whoever owns the source.
\* Only the assertion that takes a source out of attached may be collected
\* (begin_service) and handed over, and only if the driver has nothing waiting.
dispatch_interrupt(s) ==
    /\ ~masked[s] \/ s \in Late
    /\ asserted[s] < MaxAssertions
    /\ masked' = [masked EXCEPT ![s] = TRUE]
    /\ \/ /\ ~find(s)
          /\ spurious' = IF spurious = Ceiling THEN spurious ELSE spurious + 1
          /\ UNCHANGED <<slot, delivery, asserted>>
       \/ /\ slot[s].state = "attached" /\ ~delivery[slot[s].owner].armed
          /\ slot' = [slot EXCEPT ![s] = begin_service(dispatch(slot[s]))]
          /\ delivery' = [delivery EXCEPT ![slot[s].owner] = collected(dispatch(slot[s]))]
          /\ asserted' = [asserted EXCEPT ![s] = 0]
          /\ UNCHANGED spurious
       \/ /\ find(s)
          /\ slot[s].state = "attached" => delivery[slot[s].owner].armed
          /\ slot' = [slot EXCEPT ![s] = dispatch(slot[s])]
          /\ asserted' = [asserted EXCEPT ![s] = @ + 1]
          /\ UNCHANGED <<delivery, spurious>>

(***************************************************************************)
(* The driver's resume, and its death.                                     *)
(***************************************************************************)
take_delivered_service(d) ==
    /\ delivery[d].armed
    /\ delivery' = [delivery EXCEPT ![d] = NoDelivery]
    /\ UNCHANGED <<slot, spurious, masked, asserted>>

\* Only the tables are told: the controller keeps the mask bit it had.
detach_all_owned_by(d) ==
    /\ delivery[d].armed \/ \E s \in Source : slot[s].owner = d
    /\ slot' = [s \in Source |-> IF slot[s].owner = d THEN Detached ELSE slot[s]]
    /\ asserted' = [s \in Source |-> IF slot[s].owner = d THEN 0 ELSE asserted[s]]
    /\ delivery' = [delivery EXCEPT ![d] = NoDelivery]
    /\ UNCHANGED <<spurious, masked>>

-----------------------------------------------------------------------------
INext ==
    \/ \E d \in Driver, s \in Source :
          /\ delivery[d].armed => d \in Eager
          /\ \/ interrupt_attach(d, s)
             \/ interrupt_detach(d, s)
             \/ interrupt_complete(d, s)
    \/ \E s \in Source : dispatch_interrupt(s)
    \/ \E d \in Driver : take_delivered_service(d) \/ detach_all_owned_by(d)

ISpec == IInit /\ [][INext]_ivars

-----------------------------------------------------------------------------
Slot == [owner : Driver \cup {invalid_driver},
         state : {"detached", "attached", "pending", "in_service"},
         assertions : 0..Ceiling, saturated : BOOLEAN]

\* Every table holds values of its type.
ITypeOK ==
    /\ slot \in [Source -> Slot]
    /\ delivery \in [Driver ->
          [armed : BOOLEAN, assertions : 0..Ceiling, saturated : BOOLEAN]]
    /\ spurious \in 0..Ceiling
    /\ masked \in [Source -> BOOLEAN]
    /\ asserted \in [Source -> 0..MaxAssertions]

\* A slot is free and clean, or belongs to a driver (find, detach).
SlotsAreOwned ==
    \A s \in Source : IF find(s) THEN slot[s].owner \in Driver ELSE slot[s] = Detached

\* The controller's mask bit says what is_masked() says: an owned source can
\* assert exactly when it is idle, from the moment its handler ran until the
\* driver has completed everything that arrived in between.
MaskMirrorsState ==
    \A s \in Source : find(s) => (masked[s] <=> slot[s].state # "attached")

\* No assertion is forgotten or invented: the count kept for a source is the
\* number of assertions not yet reported, or says that it is only a lower bound
\* and never wraps, and a source whose line is open owes its driver nothing, so
\* completing a service during which the device asserted keeps the assertion.
CountIsHonest ==
    \A s \in Source :
        find(s) =>
            /\ IF slot[s].saturated
               THEN slot[s].assertions = Ceiling /\ asserted[s] > Ceiling
               ELSE slot[s].assertions = asserted[s]
            /\ slot[s].state = "attached" => asserted[s] = 0

\* A device that respects the mask, whose drivers have no other source and
\* collect what is waiting before they call.
Alone(s) ==
    /\ s \notin Late
    /\ \A d \in Driver : <<d, s>> \in Authority =>
          d \notin Eager /\ \A r \in Source : <<d, r>> \in Authority => r = s

\* A masked line comes back: once such a source has been dispatched, its driver
\* is given it, completes it and the line can assert again, unless the driver
\* lets go of the source or dies.
LineComesBack ==
    \A s \in Source : Alone(s) =>
        (masked[s] /\ find(s) ~> ~masked[s] \/ ~find(s))

=============================================================================
