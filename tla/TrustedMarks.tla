---------------------------- MODULE TrustedMarks ----------------------------
(***************************************************************************)
(* core/osdisplay trusted_overlay.cpp and trusted_mark.cpp: the compositor *)
(* marks the surfaces of the system in a pass of its own after the clients *)
(* are composed.  From one presentation to the next only the damage of the *)
(* two overlays is repainted.                                              *)
(*                                                                         *)
(* The screen is the row of points along the upper stroke of the marks,    *)
(* which a mark paints over its whole length; a rectangle is an interval,  *)
(* and the preferred lengths 14 and 18 are 1 and 2.  A scene is what the   *)
(* compositor's snapshot says of its surfaces, in its order.               *)
(***************************************************************************)
EXTENDS Integers, Sequences, FiniteSets, FiniteSetsExt, SequencesExt

CONSTANTS Screen,        \* bound: points of the row
          Roles          \* bound: the roles of the surfaces, in the order of the scene

VARIABLES overlay, pixels

marks_vars == <<overlay, pixels>>

Interval == {l .. r : l \in 1 .. Screen, r \in 1 .. Screen} \ {{}}
Hidden == {}
Scene == [1 .. Len(Roles) -> Interval \cup {Hidden}]

trusted_presentation_for(role) == IF role \in {"system_chrome", "secure_system"} THEN role ELSE "none"
---------------------------------------------------------------------------
build_trusted_overlay_snapshot(scene) ==
    [s \in {x \in DOMAIN scene : scene[x] # Hidden /\ trusted_presentation_for(Roles[x]) # "none"} |->
        [presentation |-> trusted_presentation_for(Roles[s]), bounds |-> scene[s]]]

trusted_mark_bounds(entry) ==
    LET preferred_length == IF entry.presentation = "secure_system" THEN 2 ELSE 1
        length == Min({Cardinality(entry.bounds), preferred_length})
    IN (Max(entry.bounds) - length + 1) .. Max(entry.bounds)

same_attribution(left, right) == left.presentation = right.presentation /\ left.bounds = right.bounds

(* Mutant: only the new footprint of a moved mark is damaged.                *)
plan_new_footprints(previous, current) ==
    UNION {trusted_mark_bounds(current[s]) : s \in
        {x \in DOMAIN current : ~(x \in DOMAIN previous /\ same_attribution(previous[x], current[x]))}}

plan_trusted_mark_damage(previous, current) ==
    LET kept == {x \in DOMAIN previous \cap DOMAIN current : same_attribution(previous[x], current[x])}
    IN UNION ({trusted_mark_bounds(previous[s]) : s \in DOMAIN previous \ kept} \cup
              {trusted_mark_bounds(current[s]) : s \in DOMAIN current \ kept})

draw_mark(entry, target) ==
    [x \in 1 .. Screen |-> IF x \in trusted_mark_bounds(entry) THEN entry.presentation ELSE target[x]]

rasterize_trusted_marks(marks, target) ==
    FoldLeft(LAMBDA t, s : IF s \in DOMAIN marks THEN draw_mark(marks[s], t) ELSE t,
             target, [i \in 1 .. Len(Roles) |-> i])

Unmarked == [x \in 1 .. Screen |-> "client"]
---------------------------------------------------------------------------
MarksInit ==
    /\ overlay = build_trusted_overlay_snapshot([s \in 1 .. Len(Roles) |-> Hidden])
    /\ pixels = Unmarked

(* The backend repaints the damage: clients first, then the final pass.      *)
present(scene) ==
    LET current == build_trusted_overlay_snapshot(scene)
        damage == plan_trusted_mark_damage(overlay, current)
        painted == rasterize_trusted_marks(current, Unmarked)
    IN /\ overlay' = current
       /\ pixels' = [x \in 1 .. Screen |-> IF x \in damage THEN painted[x] ELSE pixels[x]]

MarksNext == \E scene \in Scene : present(scene)

MarksSpec == MarksInit /\ [][MarksNext]_marks_vars
---------------------------------------------------------------------------
(* Repainting only the damage leaves on the screen exactly the marks that a  *)
(* full pass over the presented overlay would leave: no mark of a surface    *)
(* that moved or went, none missing over a surface of the system, and none   *)
(* over an application.                                                      *)
MarksAreCurrent ==
    /\ pixels = rasterize_trusted_marks(overlay, Unmarked)
    /\ \A s \in DOMAIN overlay : Roles[s] = overlay[s].presentation
=============================================================================
