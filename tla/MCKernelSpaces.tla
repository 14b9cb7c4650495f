--------------------------- MODULE MCKernelSpaces ---------------------------
(***************************************************************************)
(* Two parts of the kernel that share no state: the rendezvous of threads  *)
(* and the life of address spaces.  A behaviour explores one of them.      *)
(***************************************************************************)
EXTENDS Rendezvous

CONSTANTS Space, Frame, VPage, MaxMaps, MaxLedger, MaxReservations,
          Thread, Pool, EpochSlot, GrantSlot, MaxGeneration, MaxCapabilities, MaxIssued,
          KernelFrame, KernelPage, BootFrames, ProgramFrames, DonateFrame, MapFrame

VARIABLES sp, ledger, resv, written, trapped,
          phase, epoch, caps, grants, regions, bindings, pool, boot_id, sealed_at, issued,
          focus

space_vars == <<sp, ledger, resv, written, trapped, phase, epoch, caps, grants, regions, bindings,
                pool, boot_id, sealed_at, issued>>

Spaces == INSTANCE AddressSpaces

ASSUME Spaces!AddressSpaceConstants

KInit == focus \in {"threads", "spaces"} /\ Init /\ Spaces!ASInit

KNext ==
    /\ UNCHANGED focus
    /\ \/ focus = "threads" /\ Next /\ UNCHANGED space_vars
       \/ focus = "spaces" /\ Spaces!ASNext /\ UNCHANGED rvars

KernelSpacesSpec == KInit /\ [][KNext]_<<focus, rvars, space_vars>>

(* Code is fixed once admitted: no frame is both writable and executable     *)
(* anywhere and translation tables are private (MappingState!NoWritableCode), *)
(* and the page a thread was admitted to start at stays the executable one    *)
(* that was admitted (AddressSpaces!EntryStaysExecutable).                    *)
CodeIsFixed == Spaces!NoWritableCode /\ Spaces!EntryStaysExecutable

(* Frames and ASIDs are accounted for: leaves, mapping tables and the frame   *)
(* ledger agree (MappingState!LedgerMirrorsLeaves), and an ASID or a machine  *)
(* space is free only when nothing was built under it                         *)
(* (AddressSpaces!LifetimesAreExclusive).                                     *)
FramesAreAccounted == Spaces!LedgerMirrorsLeaves /\ Spaces!LifetimesAreExclusive
=============================================================================
