---------------------------- MODULE Collections ----------------------------
(***************************************************************************)
(* A virtual list shared by an application and a trusted consumer:  the    *)
(* window planner and slot recycler (core/osui collection.cpp), change     *)
(* sets (collection_changes.cpp), published content                        *)
(* (collection_content.cpp) and the session between the two sides          *)
(* (core/oscollection session.cpp, transport.cpp).                         *)
(*                                                                         *)
(* The data source is the application's: a sequence of [key, version]      *)
(* rows that moves from revision to revision by a change set, at any       *)
(* moment: between the snapshot a window is planned on and the request for *)
(* its content, and between two lookups of the server that answers it.     *)
(* The consumer is the one those operations are written for: it keeps its  *)
(* window while collection_change_affects_window says it may, and fetches  *)
(* it again otherwise.                                                     *)
(***************************************************************************)
EXTENDS Integers, Sequences, FiniteSets, SequencesExt

CONSTANTS Key, MaxItems, MaxRevision, MaxChanges, MaxMaterialized, Extent, Viewport, MaxOverscan

VARIABLES
    source,    \* [revision, items] of the application
    log,       \* revision -> the change set that leaves it
    past,      \* history: revision -> items
    view,      \* the consumer's window: [revision, window, items]
    slots,     \* CollectionRecycler::slots_: slot -> key
    call       \* the content request under way: what was asked, the revision the server
               \* captured, what it has looked up, what it answered

collection_vars == <<source, log, past, view, slots, call>>

NoKey == 0
Session == 1
Failed == [first |-> -1, count |-> 0, offset |-> 0, extent |-> 0]
NoView == [revision |-> 0, window |-> Failed, items |-> <<>>]
NoCall == [phase |-> "none"]
Kinds == {"insert", "remove", "move", "update", "reset"}

---------------------------------------------------------------------------
(* collection.cpp: which items a viewport needs.                           *)

least(a, b) == IF a < b THEN a ELSE b

(* Mutant: the last row is counted only when all of it shows.              *)
plan_window_floor(count, scroll, overscan) ==
    LET total == count * Extent
        max_scroll == IF total > Viewport THEN total - Viewport ELSE 0
        visible_first == scroll \div Extent
        visible_end == least(total, scroll + Viewport) \div Extent
        first == IF visible_first > overscan THEN visible_first - overscan ELSE 0
        end == least(count, least(visible_end, count) + overscan)
    IN IF scroll > max_scroll \/ end - first > MaxMaterialized THEN Failed
       ELSE [first |-> first, count |-> end - first, offset |-> first * Extent - scroll,
             extent |-> total]

plan_collection_window(count, scroll, overscan) ==
    LET total == count * Extent
        max_scroll == IF total > Viewport THEN total - Viewport ELSE 0
        visible_first == scroll \div Extent
        visible_end == (least(total, scroll + Viewport) + Extent - 1) \div Extent
        first == IF visible_first > overscan THEN visible_first - overscan ELSE 0
        end == least(count, least(visible_end, count) + overscan)
    IN IF scroll > max_scroll \/ overscan > MaxOverscan THEN Failed
       ELSE IF count = 0 THEN [first |-> 0, count |-> 0, offset |-> 0, extent |-> 0]
       ELSE IF end - first > MaxMaterialized THEN Failed
       ELSE [first |-> first, count |-> end - first, offset |-> first * Extent - scroll,
             extent |-> total]

window_valid_for_recycling(w) ==
    w # Failed /\ w.count <= MaxMaterialized /\ w.first + w.count <= MaxItems

data_snapshot_valid(s) == s.revision # 0 /\ s.item_count <= MaxItems

collection_data_snapshot == [revision |-> source.revision, item_count |-> Len(source.items)]

window_items(items, w) == SubSeq(items, w.first + 1, w.first + w.count)

(* CollectionRecycler::bind: keys that stay keep their slot, the others    *)
(* take the free slots in order.                                           *)
bind_afresh(table, keys) ==
    [k \in DOMAIN table |-> IF k <= Len(keys) THEN keys[k] ELSE NoKey]

(* Mutant: a key is given a slot although it has one.                      *)
bind_without_lookup(table, keys) ==
    LET free == {k \in DOMAIN table : table[k] \notin Range(keys)}
        rank(k) == Cardinality({j \in free : j <= k})
    IN [k \in DOMAIN table |->
            IF k \notin free THEN table[k]
            ELSE IF rank(k) <= Len(keys) THEN keys[rank(k)] ELSE NoKey]

bind(table, keys) ==
    LET kept == [k \in DOMAIN table |-> IF table[k] \in Range(keys) THEN table[k] ELSE NoKey]
        fresh == SelectSeq(keys, LAMBDA key : key \notin Range(kept))
        rank(k) == Cardinality({j \in 1..k : kept[j] = NoKey})
    IN [k \in DOMAIN table |->
            IF kept[k] # NoKey THEN kept[k]
            ELSE IF rank(k) <= Len(fresh) THEN fresh[rank(k)] ELSE NoKey]

(* The overload for collections that do not move: the index is the key.    *)
bind_window(table, w) == bind(table, [i \in 1..w.count |-> w.first + i])

reset(table) == [k \in DOMAIN table |-> NoKey]

---------------------------------------------------------------------------
(* collection_changes.cpp: changes apply in order, each to what the ones   *)
(* before it left.                                                         *)

(* The new item count, or -1.                                              *)
apply_change(c, count, final, alone) ==
    LET fits == c.count # 0 /\ c.index + c.count <= count
    IN CASE c.kind = "insert" /\ c.count # 0 /\ c.dest = 0 /\ c.index <= count
                /\ count + c.count <= MaxItems -> count + c.count
         [] c.kind = "remove" /\ fits /\ c.dest = 0 -> count - c.count
         [] c.kind = "move" /\ fits /\ c.dest <= count - c.count -> count
         [] c.kind = "update" /\ fits /\ c.dest = 0 -> count
         [] c.kind = "reset" /\ alone /\ c.index = 0 /\ c.count = 0 /\ c.dest = 0 -> final
         [] OTHER -> -1

collection_change_set_valid(cs) ==
    LET count[i \in 0..Len(cs.changes)] ==
            IF i = 0 THEN cs.old
            ELSE IF count[i - 1] = -1 THEN -1
            ELSE apply_change(cs.changes[i], count[i - 1], cs.new, Len(cs.changes) = 1)
    IN /\ cs.from # 0 /\ cs.to # 0 /\ cs.from # cs.to
       /\ cs.old <= MaxItems /\ cs.new <= MaxItems
       /\ Len(cs.changes) \in 1..MaxChanges
       /\ count[Len(cs.changes)] = cs.new

(* Source failures and malformed transitions alike leave nothing to apply. *)
collection_changes_since(revision) ==
    IF revision # 0 /\ revision \in DOMAIN log /\ log[revision].from = revision
       /\ collection_change_set_valid(log[revision])
    THEN log[revision] ELSE [from |-> 0]

window_valid(w, old_count) ==
    w.count <= MaxMaterialized /\ w.first + w.count <= old_count

touches_visible_rows(c, w) ==
    LET end == w.first + w.count
    IN CASE c.kind \in {"insert", "remove", "update"} ->
                c.index < end /\ c.index + c.count > w.first
         [] c.kind = "move" -> c.index < end \/ c.dest < end
         [] OTHER -> TRUE

(* Conservative: a structural edit before the end of the window counts.    *)
touches(c, w) ==
    LET end == w.first + w.count
    IN CASE c.kind \in {"insert", "remove"} -> c.index < end
         [] c.kind = "move" -> c.index < end \/ c.dest < end
         [] c.kind = "update" -> c.index < end /\ c.index + c.count > w.first
         [] OTHER -> TRUE

collection_change_affects_window(cs, w) ==
    w.count # 0 /\ \E i \in DOMAIN cs.changes : touches(cs.changes[i], w)

---------------------------------------------------------------------------
(* The session (session.cpp): requests name the session's revision; an     *)
(* answer for another revision, or for another window, is refused.         *)

request_window_valid(w) == w # Failed /\ w.count <= MaxMaterialized /\ w.first + w.count <= MaxItems

validate_window_against_snapshot(w, s) ==
    /\ w.first + w.count <= s.item_count
    /\ s.item_count = 0 => w.first = 0 /\ w.count = 0
    /\ w.extent = s.item_count * Extent

content_window_valid(v) ==
    /\ v.revision # 0 /\ Len(v.items) = v.window.count
    /\ \A i, j \in DOMAIN v.items : v.items[i].key # NoKey /\ (v.items[i].key = v.items[j].key => i = j)

(* The encodable values are the valid ones, and decoding checks the same.  *)
NoSnapshot == [revision |-> 0, item_count |-> 0]
NoChanges == [from |-> 0]
NoRequest == [session |-> 0]

snapshot_v1(s) == IF data_snapshot_valid(s) THEN s ELSE NoSnapshot
change_set_v1(cs) == IF cs.from # 0 /\ collection_change_set_valid(cs) THEN cs ELSE NoChanges
content_window_v1(v) == IF content_window_valid(v) THEN v ELSE NoView

session_request(session) == IF session = 0 THEN NoRequest ELSE [session |-> session]
changes_request(session, revision) ==
    IF session = 0 \/ revision = 0 THEN NoRequest
    ELSE [session |-> session, revision |-> revision]
content_request(session, revision, w) ==
    IF session = 0 \/ revision = 0 \/ ~request_window_valid(w) THEN NoRequest
    ELSE [session |-> session, revision |-> revision, window |-> w]

(* CollectionSessionServer::dispatch_once, one operator per operation.     *)
serve_snapshot(request) ==
    IF request.session # Session THEN NoSnapshot ELSE snapshot_v1(collection_data_snapshot)

serve_changes(request) ==
    IF request.session # Session THEN NoChanges
    ELSE change_set_v1(collection_changes_since(request.revision))

(* The content of a window takes several calls into the data source, and   *)
(* the application may move on between any two of them.  The source        *)
(* refuses a lookup at a revision it has left.                             *)
answered(v) == [phase |-> "answered", request |-> call.request, answer |-> content_window_v1(v)]

recyclable(w, s) ==
    window_valid_for_recycling(w) /\ data_snapshot_valid(s) /\ w.first + w.count <= s.item_count

(* Mutant: the request's revision is not compared with the captured one.   *)
serve_any_revision ==
    LET s == collection_data_snapshot
        r == call.request
    IN /\ call.phase = "requested"
       /\ call' = IF r.session = Session /\ validate_window_against_snapshot(r.window, s)
                     /\ recyclable(r.window, s)
                  THEN [phase |-> "serving", request |-> r, revision |-> s.revision,
                        keys |-> <<>>, items |-> <<>>]
                  ELSE answered(NoView)
       /\ UNCHANGED <<source, log, past, view, slots>>

serve_content ==
    LET s == collection_data_snapshot
        r == call.request
    IN /\ call.phase = "requested"
       /\ call' = IF r.session = Session /\ s.revision = r.revision
                     /\ validate_window_against_snapshot(r.window, s) /\ recyclable(r.window, s)
                  THEN [phase |-> "serving", request |-> r, revision |-> s.revision,
                        keys |-> <<>>, items |-> <<>>]
                  ELSE answered(NoView)
       /\ UNCHANGED <<source, log, past, view, slots>>

item_key_at(revision, index) ==
    IF revision = source.revision /\ index < Len(source.items)
    THEN source.items[index + 1].key ELSE NoKey

item_content_at(revision, index, key) ==
    IF /\ revision = source.revision /\ index < Len(source.items)
       /\ source.items[index + 1].key = key
    THEN {source.items[index + 1]} ELSE {}

(* One key: zero and duplicate keys are refused like stale ones.           *)
build_collection_recycle_request ==
    LET w == call.request.window
        key == item_key_at(call.revision, w.first + Len(call.keys))
    IN /\ call.phase = "serving" /\ Len(call.keys) < w.count
       /\ call' = IF key = NoKey \/ key \in Range(call.keys) THEN answered(NoView)
                  ELSE [call EXCEPT !.keys = Append(@, key)]
       /\ UNCHANGED <<source, log, past, view, slots>>

(* Mutant: the revision looked up is the one the source has by now.        *)
present_revision == source.revision

captured_revision == call.revision

(* Then the content of one row, under the key just validated.              *)
build_collection_content_window ==
    LET w == call.request.window
        n == Len(call.items)
        row == item_content_at(captured_revision, w.first + n, call.keys[n + 1])
    IN /\ call.phase = "serving" /\ Len(call.keys) = w.count /\ n < w.count
       /\ call' = IF row = {} THEN answered(NoView)
                  ELSE [call EXCEPT !.items = @ \o SetToSeq(row)]
       /\ UNCHANGED <<source, log, past, view, slots>>

sends_content ==
    /\ call.phase = "serving" /\ Len(call.items) = call.request.window.count
    /\ call' = answered([revision |-> call.revision, window |-> call.request.window,
                         items |-> call.items])
    /\ UNCHANGED <<source, log, past, view, slots>>

(* The client keeps an answer only for what it asked.                      *)
snapshot == snapshot_v1(serve_snapshot(session_request(Session)))

changes_since(revision) ==
    LET cs == change_set_v1(serve_changes(changes_request(Session, revision)))
    IN IF cs.from = revision THEN cs ELSE NoChanges

(* The answer to a content request, if it is for what was asked.           *)
content_window ==
    LET got == content_window_v1(call.answer)
    IN IF got.revision = call.request.revision /\ got.window = call.request.window
       THEN got ELSE NoView

---------------------------------------------------------------------------
(* What a change means for the rows (collection_changes.hpp).              *)
edited(items, c, new_row) ==
    LET cut == SubSeq(items, 1, c.index) \o SubSeq(items, c.index + c.count + 1, Len(items))
        taken == SubSeq(items, c.index + 1, c.index + c.count)
    IN CASE c.kind = "insert" -> SubSeq(items, 1, c.index) \o <<new_row>>
                                 \o SubSeq(items, c.index + 1, Len(items))
         [] c.kind = "remove" -> cut
         [] c.kind = "move" -> SubSeq(cut, 1, c.dest) \o taken \o SubSeq(cut, c.dest + 1, Len(cut))
         [] c.kind = "update" -> [i \in DOMAIN items |->
                IF i \in c.index + 1 .. c.index + c.count
                THEN [items[i] EXCEPT !.version = 1 - @] ELSE items[i]]
         [] OTHER -> Reverse(items)

steps(items) ==
    {c \in [kind : Kinds, index : 0..MaxItems, count : 0..1, dest : 0..MaxItems] :
         apply_change(c, Len(items), Len(items), TRUE) # -1}

unused(items) == Key \ {items[i].key : i \in DOMAIN items}

row_for(items, c) ==
    [key |-> IF c.kind = "insert" THEN CHOOSE k \in unused(items) : TRUE ELSE NoKey, version |-> 0]

doable(items, c) == c.kind = "insert" => unused(items) # {}

CollectionsInit ==
    /\ \E n \in 0..least(MaxItems, Cardinality(Key)) :
           source = [revision |-> 1,
                     items |-> [i \in 1..n |-> [key |-> i, version |-> 0]]]
    /\ log = <<>>
    /\ past = (1 :> source.items)
    /\ view = NoView
    /\ slots = [k \in 1..MaxMaterialized |-> NoKey]
    /\ call = NoCall

moves_on(items, changes) ==
    LET r == source.revision
        set == [from |-> r, to |-> r + 1, old |-> Len(source.items), new |-> Len(items),
                changes |-> changes]
    IN /\ source' = [revision |-> r + 1, items |-> items]
       /\ log' = log @@ (r :> set)
       /\ past' = past @@ (r + 1 :> items)
       /\ UNCHANGED <<view, slots, call>>

(* Bound: sets of two changes come where a view has to follow them.         *)
application_changes ==
    /\ source.revision < MaxRevision
    /\ \E c \in steps(source.items) :
           LET once == edited(source.items, c, row_for(source.items, c))
           IN /\ doable(source.items, c)
              /\ \/ moves_on(once, <<c>>)
                 \/ \E d \in steps(once) :
                        /\ view # NoView /\ call = NoCall /\ c.kind # "reset" /\ d.kind # "reset" /\ doable(once, d)
                        /\ moves_on(edited(once, d, row_for(once, d)), <<c, d>>)

(* Materialize: plan a window over the snapshot of now, ask for it, and    *)
(* when the answer comes, show it and bind its rows.                       *)
consumer_plans(scroll, overscan) ==
    LET s == snapshot
        w == plan_collection_window(s.item_count, scroll, overscan)
    IN /\ call = NoCall /\ s # NoSnapshot /\ w # Failed
       /\ call' = [phase |-> "requested", request |-> content_request(Session, s.revision, w)]
       /\ UNCHANGED <<source, log, past, view, slots>>

consumer_shows ==
    /\ call.phase = "answered"
    /\ IF content_window = NoView THEN UNCHANGED <<view, slots>>
       ELSE /\ view' = content_window
            /\ slots' = bind(slots, [i \in DOMAIN content_window.items |-> content_window.items[i].key])
    /\ call' = NoCall
    /\ UNCHANGED <<source, log, past>>

(* A consumer with nothing to show may start over, or, while the list has   *)
(* not moved, lay its rows out by index alone.                             *)
consumer_binds_by_index(scroll, overscan) ==
    LET w == plan_collection_window(snapshot.item_count, scroll, overscan)
    IN /\ call = NoCall /\ view = NoView /\ log = <<>> /\ window_valid_for_recycling(w)
       /\ slots' = bind_window(slots, w)
       /\ UNCHANGED <<source, log, past, view, call>>

consumer_resets ==
    /\ call = NoCall /\ view = NoView
    /\ slots' = reset(slots)
    /\ UNCHANGED <<source, log, past, view, call>>

(* Catch up by one transition: keep the window if it is not affected.      *)
consumer_catches_up ==
    LET cs == changes_since(view.revision)
    IN /\ call = NoCall /\ view # NoView /\ cs.from # 0
       /\ view' = IF window_valid(view.window, cs.old)
                     /\ ~collection_change_affects_window(cs, view.window)
                  THEN [view EXCEPT !.revision = cs.to]
                  ELSE NoView
       /\ UNCHANGED <<source, log, past, slots, call>>

session_serves ==
    serve_content \/ build_collection_recycle_request \/ build_collection_content_window \/ sends_content

CollectionsNext ==
    \/ application_changes
    \/ session_serves
    \/ consumer_shows \/ consumer_catches_up \/ consumer_resets
    \/ \E scroll \in 0..(MaxItems * Extent), o \in 0..MaxOverscan :
           consumer_plans(scroll, o) \/ consumer_binds_by_index(scroll, o)

CollectionsSpec == CollectionsInit /\ [][CollectionsNext]_collection_vars

keys_of(items) == {items[i].key : i \in DOMAIN items}

(* ViewIsOneRevision: an answer on its way holds, row for row, what the     *)
(* application had at the revision that was asked for, however it moved on *)
(* while its server looked the rows up.  What the consumer shows is, row   *)
(* for row, what the application had at the one revision the view is       *)
(* labelled with, also after transitions it skipped because they do not    *)
(* affect its window; and while the list is as long as when the window was *)
(* planned, the window covers every item the viewport can show.            *)
ViewIsOneRevision ==
    /\ call.phase = "answered" /\ call.answer # NoView =>
           /\ call.answer.revision = call.request.revision
           /\ call.answer.items = window_items(past[call.request.revision], call.request.window)
    /\ view # NoView =>
        /\ view.window.first + view.window.count <= Len(past[view.revision])
        /\ view.items = window_items(past[view.revision], view.window)
        /\ LET w == view.window IN w.extent = Len(past[view.revision]) * Extent => \A i \in 1..Len(past[view.revision]) :
               LET top == (i - 1) * Extent - (w.first * Extent - w.offset)
               IN top < Viewport /\ top + Extent > 0 => i - 1 \in w.first .. w.first + w.count - 1

(* SlotsFollowKeys: no key ever has two slots; when the rows of a window    *)
(* are bound, every row has a slot and no other key has, and a row that    *)
(* stays in the window keeps its slot, however its index moved.            *)
SlotsFollowKeys ==
    [][/\ \A j, k \in DOMAIN slots' : slots'[j] = slots'[k] /\ slots'[j] # NoKey => j = k
       /\ call.phase = "answered" /\ content_window # NoView /\ consumer_shows =>
              /\ Range(slots') \ {NoKey} = keys_of(content_window.items)
              /\ \A k \in DOMAIN slots :
                     slots[k] \in keys_of(content_window.items) => slots'[k] = slots[k]]_collection_vars
===========================================================================
