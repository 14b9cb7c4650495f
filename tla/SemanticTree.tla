--------------------------- MODULE SemanticTree ---------------------------
(***************************************************************************)
(* The semantic UI tree an application owns (core/osui tree.cpp), the      *)
(* pointer router over it (input.cpp), the accessibility projection        *)
(* (accessibility.cpp), and the two outside views of it: the copy a        *)
(* renderer keeps by draining deltas, and the last snapshot an             *)
(* accessibility service was given.                                        *)
(*                                                                         *)
(* A rectangle is the set of Points it covers.  A label is empty ("") or   *)
(* one text.  Node ids are never reused, so a function keyed by id stands  *)
(* for the slot array.                                                     *)
(***************************************************************************)
EXTENDS Naturals, FiniteSets, TLC

CONSTANTS Points, Rects, Specs, NodeStates, Labels, Styles,
          MaxNodes, MaxRemoved, MaxChildren, MaxDepth, MaxNodeId, MaxRevision

VARIABLES tree, renderer, shown, event

tree_vars == <<tree, renderer, shown, event>>

Root == 1
NoNode == 0
NoEvent == [target |-> NoNode, action |-> "none"]
Roles == {"root", "container", "text", "image", "button", "toggle", "text_field", "list",
          "list_item"}
Actions == {"activate", "focus", "toggle", "set_text", "select"}
DefaultState == [visible |-> TRUE, enabled |-> TRUE, focused |-> FALSE, selected |-> FALSE,
                 checked |-> FALSE, pressed |-> FALSE]

SemanticTreeOf(root_bounds) ==
    [nodes |-> (Root :> [parent |-> NoNode, depth |-> 0, role |-> "root", bounds |-> root_bounds,
                         actions |-> {}, state |-> DefaultState, style |-> "surface",
                         label |-> "", hidden |-> FALSE]),
     dirty |-> {Root}, removed |-> {}, overflow |-> FALSE, focused |-> NoNode,
     next_id |-> 2, revision |-> 1]

bump_revision(t) == [t EXCEPT !.revision = @ + 1]

mark_dirty(t, n) == bump_revision([t EXCEPT !.dirty = @ \cup {n}])

record_removed_that_fit(t, gone) ==
    [t EXCEPT !.removed = IF Cardinality(@ \cup gone) <= MaxRemoved THEN @ \cup gone ELSE @]

(* Bounded by the array of removed ids; past it the consumer must resync.  *)
record_removed(t, gone) ==
    [t EXCEPT !.removed = IF Cardinality(@ \cup gone) <= MaxRemoved THEN @ \cup gone
                          ELSE CHOOSE s \in SUBSET (@ \cup gone) :
                                   @ \subseteq s /\ Cardinality(s) = MaxRemoved,
              !.overflow = @ \/ Cardinality(t.removed \cup gone) > MaxRemoved]

role_valid(role) == role \in Roles
role_can_have_children(role) == role \notin {"text", "image", "text_field"}
interactive_role(role) == role \in {"button", "toggle", "text_field", "list_item"}

allowed_actions == [r \in Roles |->
    CASE r = "button" -> {"activate", "focus"}
      [] r = "toggle" -> {"activate", "focus", "toggle"}
      [] r = "text_field" -> {"focus", "set_text"}
      [] r = "list_item" -> {"activate", "focus", "select"}
      [] OTHER -> {}]

actions_valid(role, actions) == actions \subseteq allowed_actions[role]

state_valid(role, actions, state) ==
    /\ state.focused => state.visible /\ state.enabled /\ "focus" \in actions
    /\ state.pressed => state.visible /\ state.enabled /\ role \in {"button", "toggle", "list_item"}
    /\ state.checked => role = "toggle"
    /\ state.selected => role = "list_item"

label_valid_for_role(role, label, hidden) == interactive_role(role) /\ ~hidden => label # ""

find(t, n) == n \in DOMAIN t.nodes
child_count(t, parent) == Cardinality({n \in DOMAIN t.nodes : t.nodes[n].parent = parent})

(* A node and the nodes above it: what every walk up the parents visits.   *)
lineage(nodes, n) ==
    LET up[k \in 0..MaxDepth] ==
            IF k = 0 THEN {n} ELSE up[k - 1] \cup ({nodes[m].parent : m \in up[k - 1]} \ {NoNode})
    IN up[MaxDepth]

is_descendant_of(t, n, ancestor) == n # ancestor /\ ancestor \in lineage(t.nodes, n)

effectively_visible(t, n) == \A m \in lineage(t.nodes, n) : t.nodes[m].state.visible

deepest(nodes, set) == CHOOSE m \in set : \A o \in set : nodes[o].depth <= nodes[m].depth

accessible_parent(t, n) ==
    LET shown_above == {m \in lineage(t.nodes, n) \ {n} :
                            effectively_visible(t, m) /\ ~t.nodes[m].hidden}
    IN IF shown_above = {} THEN NoNode ELSE deepest(t.nodes, shown_above)

clear_focus(t) ==
    IF t.focused # NoNode /\ find(t, t.focused) /\ t.nodes[t.focused].state.focused
    THEN mark_dirty([t EXCEPT !.nodes[t.focused].state.focused = FALSE, !.focused = NoNode],
                    t.focused)
    ELSE [t EXCEPT !.focused = NoNode]

(* What add() refuses: a malformed spec, a bad parent, a full tree.        *)
addable(t, parent, spec) ==
    /\ role_valid(spec.role) /\ spec.role # "root"
    /\ actions_valid(spec.role, spec.actions)
    /\ spec.hidden => spec.actions = {}
    /\ label_valid_for_role(spec.role, spec.label, spec.hidden)
    /\ state_valid(spec.role, spec.actions, spec.state)
    /\ find(t, parent) /\ role_can_have_children(t.nodes[parent].role)
    /\ child_count(t, parent) < MaxChildren
    /\ t.nodes[parent].depth < MaxDepth
    /\ Cardinality(DOMAIN t.nodes) < MaxNodes
    /\ t.next_id # 0
    /\ spec.state.focused => effectively_visible(t, parent)

add(t, parent, spec) ==
    LET id == t.next_id
        cleared == IF spec.state.focused /\ t.focused # NoNode THEN clear_focus(t) ELSE t
        node == [f \in DOMAIN spec \cup {"parent", "depth"} |->
                     CASE f = "parent" -> parent
                       [] f = "depth" -> t.nodes[parent].depth + 1
                       [] OTHER -> spec[f]]
    IN mark_dirty([cleared EXCEPT !.nodes = @ @@ (id :> node),
                                  !.next_id = IF id = MaxNodeId THEN 0 ELSE id + 1,
                                  !.focused = IF spec.state.focused THEN id ELSE @], id)

remove_subtree(t, n) ==
    LET gone == {m \in DOMAIN t.nodes : m = n \/ is_descendant_of(t, m, n)}
        kept == [m \in DOMAIN t.nodes \ gone |-> t.nodes[m]]
    IN record_removed(bump_revision([t EXCEPT !.nodes = kept, !.dirty = @ \ gone,
                                              !.focused = IF @ \in gone THEN NoNode ELSE @]),
                      gone)

set_bounds(t, n, bounds) ==
    IF t.nodes[n].bounds = bounds THEN t
    ELSE mark_dirty([t EXCEPT !.nodes[n].bounds = bounds], n)

set_state_keeping_focus(t, n, state) ==
    LET cleared == IF state.focused /\ t.focused # n THEN clear_focus(t) ELSE t
    IN IF t.nodes[n].state = state THEN t
       ELSE mark_dirty([cleared EXCEPT !.nodes[n].state = state,
                                       !.focused = IF state.focused THEN n
                                                   ELSE IF @ = n THEN NoNode ELSE @], n)

(* Hiding an ancestor of the focused node takes the focus away first.      *)
set_state(t, n, state) ==
    LET hides == ~state.visible /\ t.focused \notin {NoNode, n} /\ is_descendant_of(t, t.focused, n)
        moves == state.focused /\ t.focused # n
        cleared == IF hides \/ moves THEN clear_focus(t) ELSE t
    IN IF t.nodes[n].state = state THEN t
       ELSE mark_dirty([cleared EXCEPT !.nodes[n].state = state,
                                       !.focused = IF state.focused THEN n
                                                   ELSE IF @ = n THEN NoNode ELSE @], n)

settable(t, n, state) ==
    /\ n # Root
    /\ state_valid(t.nodes[n].role, t.nodes[n].actions, state)
    /\ state.focused => \A m \in lineage(t.nodes, n) \ {n} : t.nodes[m].state.visible

set_label(t, n, label) ==
    IF t.nodes[n].label = label THEN t
    ELSE mark_dirty([t EXCEPT !.nodes[n].label = label], n)

set_style(t, n, style) ==
    IF t.nodes[n].style = style THEN t
    ELSE mark_dirty([t EXCEPT !.nodes[n].style = style], n)

focusable(t, n) ==
    "focus" \in t.nodes[n].actions /\ t.nodes[n].state.enabled /\ effectively_visible(t, n)

focus(t, n) ==
    IF t.focused = n /\ t.nodes[n].state.focused THEN t
    ELSE mark_dirty([clear_focus(t) EXCEPT !.nodes[n].state.focused = TRUE, !.focused = n], n)

(* The event the tree hands to the application, or none.                   *)
dispatch_action(t, n, action) ==
    IF /\ find(t, n) /\ action \in t.nodes[n].actions
       /\ t.nodes[n].state.enabled /\ effectively_visible(t, n)
    THEN [target |-> n, action |-> action] ELSE NoEvent

accessibility_snapshot(t) ==
    LET seen == {n \in DOMAIN t.nodes : ~t.nodes[n].hidden /\ effectively_visible(t, n)}
    IN [n \in seen |-> [f \in {"role", "bounds", "state", "actions", "label"} |-> t.nodes[n][f]]
                       @@ ("parent" :> accessible_parent(t, n))]

renderer_snapshot(t) == t.nodes

renderer_delta(t) == [changed |-> t.dirty, removed |-> t.removed, full_resync |-> t.overflow]

take_renderer_delta(t) == [t EXCEPT !.dirty = {}, !.removed = {}, !.overflow = FALSE]

(* How a consumer uses a delta: re-read what changed, drop what went, or   *)
(* start again from renderer_snapshot when it must resync.                 *)
applied(copy, delta, t) ==
    IF delta.full_resync THEN renderer_snapshot(t)
    ELSE [n \in (DOMAIN copy \ delta.removed) \cup delta.changed |->
              IF n \in delta.changed THEN t.nodes[n] ELSE copy[n]]

---------------------------------------------------------------------------
(* Pointer routing (input.cpp).                                            *)

pointer_action_valid(action) == action # "set_text"

topmost_hit(t, p) ==
    LET hit == {n \in DOMAIN t.nodes : effectively_visible(t, n) /\ p \in t.nodes[n].bounds}
    IN IF hit = {} THEN NoNode
       ELSE CHOOSE n \in hit : \A m \in hit \ {n} :
                \/ t.nodes[m].depth < t.nodes[n].depth
                \/ t.nodes[m].depth = t.nodes[n].depth /\ m < n

(* From the topmost node up, while the point stays inside, to the first    *)
(* enabled node that has the action.                                       *)
route_pointer_action(t, p, action) ==
    LET top == topmost_hit(t, p)
        path == lineage(t.nodes, top)
        takes == {n \in path : t.nodes[n].state.enabled /\ action \in t.nodes[n].actions}
        target == deepest(t.nodes, takes)
        below == {n \in path : t.nodes[n].depth >= t.nodes[target].depth}
    IN IF top = NoNode THEN NoNode
       ELSE IF takes = {} THEN NoNode
       ELSE IF \A n \in below : p \in t.nodes[n].bounds THEN target ELSE NoNode

---------------------------------------------------------------------------
(* The accessibility boundary (accessibility.cpp).                         *)

accessibility_action_valid(action) == action # "set_text"

accessibility_service_snapshot(t) ==
    [revision |-> t.revision, semantic |-> accessibility_snapshot(t)]

accessibility_request_accepted(t, revision, n, action) ==
    /\ revision # 0 /\ revision = t.revision
    /\ accessibility_action_valid(action)
    /\ find(t, n) /\ ~t.nodes[n].hidden

(* What the transport accepts of a snapshot (osaccessibility transport.cpp): *)
(* one root, every parent present, every chain ending at the root in depth. *)
snapshot_structure_valid(s) ==
    /\ s # <<>> /\ Cardinality(DOMAIN s) <= MaxNodes
    /\ \A n \in DOMAIN s : /\ role_valid(s[n].role) /\ s[n].actions \subseteq Actions
                           /\ (s[n].parent = NoNode) = (s[n].role = "root")
                           /\ s[n].parent \in {NoNode} \cup (DOMAIN s \ {n})
    /\ Cardinality({n \in DOMAIN s : s[n].parent = NoNode}) = 1
    /\ \A n \in DOMAIN s : \E r \in lineage(s, n) : s[r].parent = NoNode

---------------------------------------------------------------------------
TreeInit ==
    /\ tree = SemanticTreeOf(Points)
    /\ renderer = [n \in {} |-> NoNode]
    /\ shown = [revision |-> 0, semantic |-> [n \in {} |-> NoNode]]
    /\ event = NoEvent

changed_to(t) ==
    /\ tree' = t
    /\ t.revision <= MaxRevision
    /\ event' = NoEvent
    /\ UNCHANGED <<renderer, shown>>

(* The application edits its tree.                                         *)
application_edits ==
    \/ \E parent \in DOMAIN tree.nodes, spec \in Specs :
           addable(tree, parent, spec) /\ changed_to(add(tree, parent, spec))
    \/ \E n \in DOMAIN tree.nodes :
           \/ n # Root /\ changed_to(remove_subtree(tree, n))
           \/ \E b \in Rects : changed_to(set_bounds(tree, n, b))
           \/ \E s \in NodeStates : settable(tree, n, s) /\ changed_to(set_state(tree, n, s))
           \/ \E l \in Labels : /\ label_valid_for_role(tree.nodes[n].role, l, tree.nodes[n].hidden)
                                /\ changed_to(set_label(tree, n, l))
           \/ \E s \in Styles : changed_to(set_style(tree, n, s))
           \/ focusable(tree, n) /\ changed_to(focus(tree, n))
    \/ changed_to(clear_focus(tree))

(* Where an accepted action goes: focus() or an event of the application.  *)
acted(n, action) ==
    IF action = "focus"
    THEN /\ focusable(tree, n)
         /\ tree' = focus(tree, n) /\ tree'.revision <= MaxRevision
         /\ event' = [target |-> n, action |-> action]
    ELSE /\ dispatch_action(tree, n, action) # NoEvent
         /\ event' = dispatch_action(tree, n, action)
         /\ UNCHANGED tree

dispatch_pointer_action(p, action) ==
    /\ pointer_action_valid(action)
    /\ route_pointer_action(tree, p, action) # NoNode
    /\ acted(route_pointer_action(tree, p, action), action)
    /\ UNCHANGED <<renderer, shown>>

dispatch_accessibility_action(n, action) ==
    /\ accessibility_request_accepted(tree, shown.revision, n, action)
    /\ acted(n, action)
    /\ UNCHANGED <<renderer, shown>>

accessibility_looks ==
    /\ shown' = accessibility_service_snapshot(tree)
    /\ event' = NoEvent
    /\ UNCHANGED <<tree, renderer>>

renderer_drains ==
    /\ renderer' = applied(renderer, renderer_delta(tree), tree)
    /\ tree' = take_renderer_delta(tree)
    /\ event' = NoEvent
    /\ UNCHANGED shown

TreeNext ==
    \/ application_edits
    \/ accessibility_looks
    \/ renderer_drains
    \/ \E p \in Points, a \in Actions : dispatch_pointer_action(p, a)
    \/ \E n \in 1..MaxNodeId, a \in Actions : dispatch_accessibility_action(n, a)

TreeSpec == TreeInit /\ [][TreeNext]_tree_vars

---------------------------------------------------------------------------
(* InteractionIsVisible: keyboard focus and events never sit on something  *)
(* the user cannot see.  focused_ names exactly the node whose state says   *)
(* focused; that node is enabled, focusable and visible with everything    *)
(* above it, whatever was hidden, disabled, removed or added meanwhile; an *)
(* event just delivered went to an enabled, visible node with the action.  *)
InteractionIsVisible ==
    /\ \A n \in DOMAIN tree.nodes : tree.nodes[n].state.focused <=> tree.focused = n
    /\ tree.focused # NoNode => find(tree, tree.focused) /\ focusable(tree, tree.focused)
    /\ event # NoEvent => /\ dispatch_action(tree, event.target, event.action) = event
                          /\ event.action = "focus" => tree.focused = event.target

(* ViewsAreCurrent: the views outside the tree never silently disagree with *)
(* it.  A renderer that applies the pending delta (or resyncs when told to) *)
(* has exactly the tree; a snapshot whose revision is still the tree's is   *)
(* what a new snapshot would be, so an accepted accessibility action acts  *)
(* on what was shown; and every snapshot is one the transport accepts.     *)
ViewsAreCurrent ==
    /\ applied(renderer, renderer_delta(tree), tree) = renderer_snapshot(tree)
    /\ shown.revision = tree.revision => shown.semantic = accessibility_snapshot(tree)
    /\ snapshot_structure_valid(accessibility_snapshot(tree))
===========================================================================
