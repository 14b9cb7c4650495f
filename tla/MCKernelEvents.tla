--------------------------- MODULE MCKernelEvents ---------------------------
(***************************************************************************)
(* The asynchronous events the machine layer turns into work for user      *)
(* space: page faults (Pager) and device interrupts (Interrupt).  The two  *)
(* share no state, so a behaviour explores one of them, chosen at the      *)
(* start, and leaves the other as it began.                                *)
(***************************************************************************)
EXTENDS Pager

CONSTANTS Source, Driver, Authority, Late, Eager, MaxSources, Ceiling, MaxAssertions

VARIABLES focus, slot, serviced, spurious, masked, asserted

Int == INSTANCE Interrupt WITH delivery <- serviced

ASSUME EventConstants == Int!InterruptConstants

ivars == <<slot, serviced, spurious, masked, asserted>>
evars == <<focus, pvars, ivars>>

\* Drivers 1 and 2 compete for source 2, driver 3 has a source to itself.
MCAuthority == {<<1, 1>>, <<1, 2>>, <<2, 2>>, <<3, 3>>}

EInit == focus \in {"faults", "interrupts"} /\ PInit /\ Int!IInit

ENext ==
    /\ UNCHANGED focus
    /\ \/ focus = "faults" /\ PNext /\ UNCHANGED ivars
       \/ focus = "interrupts" /\ Int!INext /\ UNCHANGED pvars

\* Runnable threads of one priority are switched to in turn; a pager that was
\* handed its question is resumed at the call that answers it, and sooner or later
\* is not interrupted before it makes that call.
FaultFairness ==
    /\ SF_pvars(focus = "faults" /\ halted = "no" /\ on_timer /\ running' = pager)
    /\ SF_pvars(focus = "faults" /\ halted = "no" /\ \E b \in Backing : fault_supply(b))

\* A driver that is runnable is resumed and collects what is waiting for it, and
\* completes what it is servicing; a line that keeps being able to assert asserts.
InterruptFairness ==
    /\ \A d \in Driver :
          WF_evars(focus = "interrupts" /\ Int!take_delivered_service(d) /\ UNCHANGED <<focus, pvars>>)
    /\ \A d \in Driver, s \in Source :
          WF_evars(/\ focus = "interrupts" /\ ~serviced[d].armed
                   /\ Int!interrupt_complete(d, s) /\ UNCHANGED <<focus, pvars>>)
    /\ \A s \in Source :
          SF_evars(focus = "interrupts" /\ Int!dispatch_interrupt(s) /\ UNCHANGED <<focus, pvars>>)

ESpec == EInit /\ [][ENext]_evars /\ FaultFairness /\ InterruptFairness

\* The controller's mask bit says what is_masked() says of an owned source, and
\* the count kept for it is what it owes, or says that it is a lower bound
\* (Interrupt!MaskMirrorsState, Interrupt!CountIsHonest).
LinesAreHonest ==
    Int!ITypeOK /\ Int!SlotsAreOwned /\ Int!MaskMirrorsState /\ Int!CountIsHonest

\* Interrupt!LineComesBack: a dispatched line is serviced and unmasked again.
LineComesBack == Int!LineComesBack

=============================================================================
