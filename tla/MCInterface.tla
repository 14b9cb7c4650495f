---------------------------- MODULE MCInterface ----------------------------
(***************************************************************************)
(* What the user sees and touches: the display, the trusted marks, the     *)
(* semantic tree of an application, collections and the shell.  Each is    *)
(* its own set of objects, so a behaviour picks one of them ("focus") and  *)
(* the others stay at rest.                                                *)
(***************************************************************************)
EXTENDS Naturals, Sequences, FiniteSets

VARIABLES clients, dead, surfaces, buffers, next_serial, next_buffer, next_stack, generation, hit,
          overlay, pixels,
          tree, renderer, shown, event,
          source, log, past, view, slots, call,
          manager, scene, inbox, shell, held, made, feature,
          focus

display_vars == <<clients, dead, surfaces, buffers, next_serial, next_buffer, next_stack, generation, hit>>
marks_vars == <<overlay, pixels>>
tree_vars == <<tree, renderer, shown, event>>
collection_vars == <<source, log, past, view, slots, call>>
shell_vars == <<manager, scene, inbox, shell, held, made, feature>>

(* An application, which may die, and the shell; the service restarts once. *)
Display == INSTANCE Compositor WITH
    Client <- {"a", "shell"}, Mortal <- {"a"}, Width <- 3, Length <- 2, MaxClients <- 3,
    MaxSurfaces <- 2, PerPrincipal <- 2, MaxBuffers <- 2, BuffersPerPrincipal <- 1,
    MaxSerial <- 2, MaxStack <- 2, MaxFrame <- 1, MaxDisplayGeneration <- 2

Marks == INSTANCE TrustedMarks WITH
    Screen <- 3, Roles <- <<"application", "system_chrome", "secure_system">>

(* A container hidden from assistive technology and a focused button.       *)
Plain == [visible |-> TRUE, enabled |-> TRUE, focused |-> FALSE, selected |-> FALSE,
          checked |-> FALSE, pressed |-> FALSE]
Box == [role |-> "container", bounds |-> {1, 2}, actions |-> {}, state |-> Plain,
        style |-> "surface", label |-> "", hidden |-> TRUE]
Button == [role |-> "button", bounds |-> {1}, actions |-> {"activate", "focus"},
           state |-> [Plain EXCEPT !.focused = TRUE], style |-> "surface", label |-> "l",
           hidden |-> FALSE]
Tree == INSTANCE SemanticTree WITH
    Points <- {1, 2}, Rects <- {{1}}, Specs <- {Box, Button}, Labels <- {"l"}, Styles <- {"surface"},
    NodeStates <- {Plain, [Plain EXCEPT !.visible = FALSE], [Plain EXCEPT !.enabled = FALSE]},
    MaxNodes <- 3, MaxRemoved <- 1, MaxChildren <- 2, MaxDepth <- 2, MaxNodeId <- 3, MaxRevision <- 5

(* Rows two high under a viewport of two: a scrolled window shows halves of  *)
(* two rows, and overscan then meets the limit of two materialized rows.    *)
Collection == INSTANCE Collections WITH
    Key <- {1, 2, 3}, MaxItems <- 3, MaxRevision <- 2, MaxChanges <- 2, MaxMaterialized <- 2,
    Extent <- 2, Viewport <- 2, MaxOverscan <- 1

Task == INSTANCE ShellTasks WITH
    Features <- {"activation", "preview", "chrome", "late"}, MaxInstance <- 2, MaxSurface <- 2, MaxFrame <- 2,
    MaxGeneration <- 2, MaxLifecycle <- 2, MaxRevision <- 4, MaxTasks <- 2

(* A component at rest has one initial state.                               *)
InterfaceInit ==
    /\ focus \in {"display", "marks", "tree", "collections", "shell"}
    /\ Display!DisplayInit /\ Marks!MarksInit /\ Tree!TreeInit
    /\ Collection!CollectionsInit /\ (focus = "collections" \/ source.items = <<>>)
    /\ Task!ShellTasksInit /\ (focus = "shell" \/ feature = "chrome")

InterfaceNext ==
    /\ UNCHANGED focus
    /\ \/ focus = "display" /\ Display!DisplayNext
          /\ UNCHANGED <<marks_vars, tree_vars, collection_vars, shell_vars>>
       \/ focus = "marks" /\ Marks!MarksNext
          /\ UNCHANGED <<display_vars, tree_vars, collection_vars, shell_vars>>
       \/ focus = "tree" /\ Tree!TreeNext
          /\ UNCHANGED <<display_vars, marks_vars, collection_vars, shell_vars>>
       \/ focus = "collections" /\ Collection!CollectionsNext
          /\ UNCHANGED <<display_vars, marks_vars, tree_vars, shell_vars>>
       \/ focus = "shell" /\ Task!ShellTasksNext
          /\ UNCHANGED <<display_vars, marks_vars, tree_vars, collection_vars>>

InterfaceSpec ==
    /\ InterfaceInit
    /\ [][InterfaceNext]_<<display_vars, marks_vars, tree_vars, collection_vars, shell_vars, focus>>

(* What is on the screen is backed by live buffers of its owners            *)
(* (Compositor!SceneIsBacked), and the marks over it are those of the       *)
(* surfaces shown (TrustedMarks!MarksAreCurrent).                           *)
SceneIsBacked ==
    /\ focus = "display" => Display!SceneIsBacked
    /\ focus = "marks" => Marks!MarksAreCurrent

(* Compositor: input reaches the owner of what the user aimed at.           *)
InputGoesWhereAimed == Display!InputGoesWhereAimed

(* Focus and events stay on what is visible, and neither the renderer nor   *)
(* assistive technology silently disagrees with the tree                    *)
(* (SemanticTree!InteractionIsVisible, SemanticTree!ViewsAreCurrent).       *)
TreeIsTruthful == focus = "tree" => Tree!InteractionIsVisible /\ Tree!ViewsAreCurrent

(* A view is what the application had at one revision                       *)
(* (Collections!ViewIsOneRevision).                                         *)
ViewIsOneRevision == focus = "collections" => Collection!ViewIsOneRevision

(* Collections: a row that stays keeps its slot.                            *)
SlotsFollowKeys == Collection!SlotsFollowKeys

(* ShellTasks: a task is a running execution and its own root surface.      *)
TasksAreJoined == focus = "shell" => Task!TasksAreJoined

(* ShellTasks: only what the shell shows is brought forward or previewed.   *)
ShellActsOnWhatItShows == Task!ShellActsOnWhatItShows

===========================================================================
