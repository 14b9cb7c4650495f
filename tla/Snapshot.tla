----------------------------- MODULE Snapshot -----------------------------
(***************************************************************************)
(* The snapshot file behind every persistent registry of the system: the   *)
(* candidate is written to a temporary file and synced, renamed over the   *)
(* old snapshot, and the directory is synced.  The process may end, and    *)
(* the power may be cut, between any two of these calls.                   *)
(*                                                                         *)
(* A file is a record: "seen" is the snapshot a process would read now,    *)
(* "cut" the snapshots a power cut may leave (a rename is durable only     *)
(* once the directory was synced), and "doubt" a history: whether somebody *)
(* went on working ("relied") with a rename that may still be undone, and  *)
(* whether a power cut then came ("exposed").                              *)
(***************************************************************************)
EXTENDS Integers, FiniteSets

CONSTANT MaxInDoubt   \* bound: snapshots a power cut may choose from

(* What becomes of one call of persist_candidate(): the process ends before *)
(* the rename, an error is reported before the rename, the process ends     *)
(* before the directory sync, the directory sync fails, all is well.        *)
Outcome == {"lost", "failed", "cut", "unsynced", "synced"}

(* The outcomes explored: renames without a sync pile up to the bound.      *)
outcomes(f) ==
    {how \in Outcome : how \in {"cut", "unsynced"} => Cardinality(f.cut) < MaxInDoubt}

ended(how) == how \in {"lost", "cut"}

replaces(how) == how \in {"cut", "unsynced", "synced"}

new_file(s) == [seen |-> s, cut |-> {s}, doubt |-> "none"]

certain(f) == f.cut = {f.seen}

doubt_after(f, how) ==
    IF f.doubt = "exposed" THEN "exposed"
    ELSE IF how = "synced" THEN "none"
    ELSE IF how = "unsynced" THEN "relied"
    ELSE f.doubt

(* The file after persist_candidate(c) went as "how" says.                  *)
written(f, c, how) ==
    [seen  |-> IF replaces(how) THEN c ELSE f.seen,
     cut   |-> IF how = "synced" THEN {c} ELSE IF replaces(how) THEN f.cut \cup {c} ELSE f.cut,
     doubt |-> doubt_after(f, how)]

(* A new process reads the snapshot; opening does not sync the directory.   *)
opened(f) == [f EXCEPT !.doubt = IF @ = "none" /\ ~certain(f) THEN "relied" ELSE @]

(* The snapshot a power cut left is the only one there is.                  *)
after_power_cut(f, s) ==
    [seen |-> s, cut |-> {s}, doubt |-> IF f.doubt = "none" THEN "none" ELSE "exposed"]

===========================================================================
