---------------------------- MODULE ObjectProofs ----------------------------
(***************************************************************************)
(* Proofs about the kernel's objects that stand between a thread and what  *)
(* it waits for or holds.                                                  *)
(*                                                                         *)
(* Capability, for every number of slots, every depth bound and every set  *)
(* of holders, objects and rights.                                         *)
(*                                                                         *)
(* Pager and Interrupt, as MCKernelEvents composes them: page faults, for  *)
(* any threads, any regions and any way the kernel may back them, and      *)
(* device interrupts, for any sources, any drivers and any ceiling of the  *)
(* assertion count.                                                        *)
(***************************************************************************)
EXTENDS MCKernelEvents, Capability, TLAPS

\* The inductive invariant: DerivationIsSound needs the type of the slots, and
\* IdsDistinct that every identifier in use is below next_id.
CInv == TypeOK /\ IdsDistinct /\ DerivationIsSound

\* The empty table satisfies the invariant.
LEMMA InitCInv == Init => CInv
  BY CapabilityBounds
     DEF Init, CInv, TypeOK, IdsDistinct, DerivationIsSound, occupied, Free,
         invalid_capability, Slot

\* doomed(S) contains every occupied slot whose parent it contains.
LEMMA DoomedIsClosed ==
  ASSUME NEW S, NEW i \in Slot, occupied(i), parent_of(i) \in doomed(S)
  PROVE  i \in doomed(S)
  BY DEF doomed, closed_under_derivation

\* What a sweep leaves in place: survivors are untouched, and so is the parent
\* of every survivor that has one.
LEMMA SweepKeepsParents ==
  ASSUME CInv, NEW S, sweep_doomed(S)
  PROVE  CInv'
  <1> DEFINE D == doomed(S)
  <1>1. /\ \A i \in Slot : i \in D => caps'[i] = Free
        /\ \A i \in Slot : i \notin D => caps'[i] = caps[i]
        /\ DOMAIN caps' = Slot
        /\ next_id' = next_id
    BY DEF sweep_doomed
  <1> HIDE DEF D
  <1>2. TypeOK'
    BY <1>1 DEF CInv, TypeOK, sweep_doomed
  <1>3. \A i \in Slot : occupied(i)' => i \notin D /\ occupied(i)
    BY <1>1 DEF occupied, Free, invalid_capability
  <1>4. IdsDistinct'
    BY <1>1, <1>3 DEF CInv, IdsDistinct, occupied, Free, invalid_capability
  <1>5. ASSUME NEW i \in Slot, occupied(i)', caps'[i].parent # invalid_capability
        PROVE  /\ parent_of(i) \in Slot
               /\ parent_of(i) \notin D
               /\ parent_of(i)' = parent_of(i)
    <2>1. i \notin D /\ occupied(i) /\ caps'[i] = caps[i]
      BY <1>1, <1>3, <1>5
    <2>2. parent_of(i) \in Slot
      BY <1>5, <2>1 DEF CInv, DerivationIsSound, derived_from
    <2>3. parent_of(i) \notin D
      BY <2>1, DoomedIsClosed DEF D
    <2>4. caps'[parent_of(i)] = caps[parent_of(i)]
      BY <1>1, <2>2, <2>3
    <2>5. parent_of(i) = caps[i].parent_slot
      BY <2>2, CapabilityBounds DEF parent_of, Slot
    <2>6. QED BY <2>1, <2>2, <2>3, <2>4, <2>5 DEF parent_of, Slot
  <1>6. DerivationIsSound'
    BY <1>1, <1>3, <1>5 DEF CInv, DerivationIsSound, derived_from
  <1>7. QED BY <1>2, <1>4, <1>6 DEF CInv

\* A new capability fills a free slot, and touches no other.
LEMMA InsertEffect ==
  ASSUME CInv, NEW c \in Capabilities, c.id = next_id, insert(c)
  PROVE  \E i \in Slot :
            /\ ~occupied(i)
            /\ caps'[i] = c
            /\ \A j \in Slot : j # i => caps'[j] = caps[j]
            /\ next_id' = next_id + 1
            /\ TypeOK'
            /\ IdsDistinct'
  <1>1. PICK i \in Slot : ~occupied(i) /\ caps' = [caps EXCEPT ![i] = c]
    BY DEF insert
  <1>2. caps'[i] = c /\ \A j \in Slot : j # i => caps'[j] = caps[j]
    BY <1>1 DEF CInv, TypeOK
  <1>3. next_id \in Nat /\ next_id <= MaxId /\ next_id' = next_id + 1
    BY CapabilityBounds DEF CInv, TypeOK, insert
  <1>4. TypeOK'
    BY <1>1, <1>3, CapabilityBounds DEF CInv, TypeOK, insert
  <1>5. \A j \in Slot : caps[j].id \in Nat /\ (occupied(j) => caps[j].id < next_id)
    BY CapabilityBounds
       DEF CInv, TypeOK, IdsDistinct, Capabilities, CapId, Free, invalid_capability
  <1>6. IdsDistinct'
    BY <1>1, <1>2, <1>3, <1>5
       DEF CInv, IdsDistinct, occupied, invalid_capability
  <1>7. QED BY <1>1, <1>2, <1>3, <1>4, <1>6

\* Slots that were occupied keep their parents when a new one is filled.
LEMMA InsertKeepsParents ==
  ASSUME CInv, NEW i \in Slot, ~occupied(i),
         \A j \in Slot : j # i => caps'[j] = caps[j]
  PROVE  \A j \in Slot : occupied(j) /\ caps[j].parent # invalid_capability =>
            j # i /\ caps'[j] = caps[j]
            /\ parent_of(j) \in Slot \ {i} /\ parent_of(j)' = parent_of(j)
  <1> TAKE j \in Slot
  <1> HAVE occupied(j) /\ caps[j].parent # invalid_capability
  <1>1. j # i /\ caps'[j] = caps[j]
    OBVIOUS
  <1>2. parent_of(j) \in Slot
    BY DEF CInv, DerivationIsSound, derived_from
  <1>3. parent_of(j) = caps[j].parent_slot /\ caps[parent_of(j)].id = caps[j].parent
    BY <1>2, CapabilityBounds DEF parent_of, Slot
  <1>4. parent_of(j) # i
    BY <1>3 DEF occupied
  <1>5. QED BY <1>1, <1>2, <1>3, <1>4 DEF parent_of, Slot

\* So their derivations stay sound; only the new slot remains to be looked at.
LEMMA InsertSound ==
  ASSUME CInv, NEW i \in Slot, NEW c, ~occupied(i), caps'[i] = c,
         \A j \in Slot : j # i => caps'[j] = caps[j],
         c.parent # invalid_capability => (derived_from(i, parent_of(i)))'
  PROVE  DerivationIsSound'
  <1> SUFFICES ASSUME NEW j \in Slot, occupied(j)', caps'[j].parent # invalid_capability
               PROVE  (derived_from(j, parent_of(j)))'
    BY DEF DerivationIsSound
  <1>1. CASE j = i
    BY <1>1
  <1>2. CASE j # i
    <2>1. occupied(j) /\ caps[j].parent # invalid_capability
      BY <1>2 DEF occupied
    <2>2. /\ caps'[j] = caps[j]
          /\ parent_of(j) \in Slot \ {i} /\ parent_of(j)' = parent_of(j)
      BY <2>1, InsertKeepsParents
    <2>3. caps'[parent_of(j)] = caps[parent_of(j)]
      BY <2>2
    <2>4. derived_from(j, parent_of(j))
      BY <2>1 DEF CInv, DerivationIsSound
    <2>5. QED BY <2>2, <2>3, <2>4 DEF derived_from
  <1>3. QED BY <1>1, <1>2

(* mint preserves the invariant: a root capability has no parent to agree with. *)
LEMMA MintCInv ==
  ASSUME CInv, NEW h \in Holder, NEW o \in Object, NEW r \in SUBSET Right,
         NEW x \in BOOLEAN, mint(h, o, r, x)
  PROVE  CInv'
  <1> DEFINE c == [id |-> next_id, parent |-> invalid_capability,
                   parent_slot |-> 0, object |-> o, rights |-> r, holder |-> h,
                   transferable |-> x, depth |-> 0]
  <1>1. insert(c)
    BY DEF mint
  <1>2. c \in Capabilities /\ c.id = next_id /\ c.parent = invalid_capability
    BY <1>1, CapabilityBounds DEF insert, Capabilities, CInv, TypeOK, CapId
  <1> HIDE DEF c
  <1>3. PICK i \in Slot :
            /\ ~occupied(i) /\ caps'[i] = c
            /\ \A j \in Slot : j # i => caps'[j] = caps[j]
            /\ TypeOK' /\ IdsDistinct'
    BY <1>1, <1>2, InsertEffect
  <1>4. DerivationIsSound'
    BY <1>2, <1>3, InsertSound
  <1>5. QED BY <1>3, <1>4 DEF CInv

\* The guards of grant are what makes the new derivation sound.
LEMMA GrantCInv ==
  ASSUME CInv, NEW g \in Holder, NEW h \in Holder, NEW p \in Slot,
         NEW r \in SUBSET Right, NEW x \in BOOLEAN, grant(g, p, h, r, x)
  PROVE  CInv'
  <1> DEFINE c == [id |-> next_id, parent |-> caps[p].id, parent_slot |-> p,
                   object |-> caps[p].object, rights |-> r, holder |-> h,
                   transferable |-> x, depth |-> caps[p].depth + 1]
  <1>1. /\ insert(c) /\ occupied(p) /\ g.thread # h.thread
        /\ caps[p].holder = g /\ caps[p].transferable
        /\ r \subseteq caps[p].rights /\ caps[p].depth + 1 <= MaxDepth
    BY DEF grant, held_by
  <1>2. caps[p] \in Capabilities
    BY <1>1 DEF CInv, TypeOK, occupied, Free
  <1>3. c \in Capabilities
    BY <1>1, <1>2, CapabilityBounds DEF insert, Capabilities, CInv, TypeOK, CapId
  <1>4. /\ c.id = next_id /\ c.parent = caps[p].id /\ c.parent_slot = p
        /\ c.object = caps[p].object /\ c.rights = r /\ c.holder = h
        /\ c.depth = caps[p].depth + 1
    OBVIOUS
  <1> HIDE DEF c
  <1>5. PICK i \in Slot :
            /\ ~occupied(i) /\ caps'[i] = c
            /\ \A j \in Slot : j # i => caps'[j] = caps[j]
            /\ TypeOK' /\ IdsDistinct'
    BY <1>1, <1>3, <1>4, InsertEffect
  <1>6. p # i /\ caps'[p] = caps[p]
    BY <1>1, <1>5
  <1>7. parent_of(i)' = p
    BY <1>1, <1>4, <1>5, <1>6 DEF parent_of, occupied
  <1>8. (derived_from(i, parent_of(i)))'
    BY <1>1, <1>4, <1>5, <1>6, <1>7 DEF derived_from
  <1>9. DerivationIsSound'
    BY <1>5, <1>8, InsertSound
  <1>10. QED BY <1>5, <1>9 DEF CInv

\* Every step keeps the invariant.
LEMMA NextCInv == CInv /\ [Next]_cvars => CInv'
  <1> SUFFICES ASSUME CInv, [Next]_cvars PROVE CInv'
    OBVIOUS
  <1>1. ASSUME NEW h \in Holder, NEW o \in Object, NEW r \in SUBSET Right,
               NEW x \in BOOLEAN, mint(h, o, r, x)
        PROVE  CInv'
    BY <1>1, MintCInv
  <1>2. ASSUME NEW g \in Holder, NEW h \in Holder, NEW p \in Slot,
               NEW r \in SUBSET Right, NEW x \in BOOLEAN, grant(g, p, h, r, x)
        PROVE  CInv'
    BY <1>2, GrantCInv
  <1>3. ASSUME NEW h \in Holder, NEW i \in Slot, revoke(h, i)
        PROVE  CInv'
    BY <1>3, SweepKeepsParents DEF revoke
  <1>4. ASSUME NEW h \in Holder, revoke_all_held_by(h.thread)
        PROVE  CInv'
    BY <1>4, SweepKeepsParents DEF revoke_all_held_by
  <1>5. CASE UNCHANGED cvars
    <2>1. caps' = caps /\ next_id' = next_id
      BY <1>5 DEF cvars
    <2>2. TypeOK' /\ IdsDistinct'
      BY <2>1 DEF CInv, TypeOK, IdsDistinct, occupied
    <2>3. DerivationIsSound'
      BY <2>1 DEF CInv, DerivationIsSound, derived_from, occupied, parent_of
    <2>4. QED BY <2>2, <2>3 DEF CInv
  <1>6. QED BY <1>1, <1>2, <1>3, <1>4, <1>5 DEF Next

\* No capability survives the one it was derived from or exceeds its rights, and
\* identifiers are never shared, for every table size and every history.
THEOREM CapabilitySound == Spec => [](TypeOK /\ IdsDistinct /\ DerivationIsSound)
  BY InitCInv, NextCInv, PTL DEF Spec, CInv

\* An identifier handed out once never comes to name anything else.
THEOREM CapabilityIdsFixed == Spec => StaleIdsStayDead
  <1>1. ASSUME CInv, Next PROVE IdentifierMeaningIsFixed
    <2>1. ASSUME NEW c, c.id = next_id, insert(c)
          PROVE  IdentifierMeaningIsFixed
      <3>1. PICK i \in Slot : caps' = [caps EXCEPT ![i] = c]
        BY <2>1 DEF insert
      <3>2. next_id' = next_id + 1 /\ next_id \in Nat
        BY <1>1, <2>1, CapabilityBounds DEF insert, CInv, TypeOK
      <3>3. QED BY <1>1, <2>1, <3>1, <3>2
                DEF CInv, TypeOK, IdentifierMeaningIsFixed
    <2>2. ASSUME NEW S, sweep_doomed(S)
          PROVE  IdentifierMeaningIsFixed
      <3>1. next_id' = next_id /\ next_id \in Nat
        BY <1>1, <2>2, CapabilityBounds DEF sweep_doomed, CInv, TypeOK
      <3>2. QED BY <2>2, <3>1
                DEF sweep_doomed, IdentifierMeaningIsFixed, Free, invalid_capability
    <2>3. ASSUME NEW h \in Holder, NEW o \in Object, NEW r \in SUBSET Right,
                 NEW x \in BOOLEAN, mint(h, o, r, x)
          PROVE  IdentifierMeaningIsFixed
      BY <2>1, <2>3 DEF mint
    <2>4. ASSUME NEW g \in Holder, NEW h \in Holder, NEW p \in Slot,
                 NEW r \in SUBSET Right, NEW x \in BOOLEAN, grant(g, p, h, r, x)
          PROVE  IdentifierMeaningIsFixed
      BY <2>1, <2>4 DEF grant
    <2>5. ASSUME NEW h \in Holder, NEW i \in Slot, revoke(h, i)
          PROVE  IdentifierMeaningIsFixed
      BY <2>2, <2>5 DEF revoke
    <2>6. ASSUME NEW h \in Holder, revoke_all_held_by(h.thread)
          PROVE  IdentifierMeaningIsFixed
      BY <2>2, <2>6 DEF revoke_all_held_by
    <2>7. QED BY <1>1, <2>3, <2>4, <2>5, <2>6 DEF Next
  <1>2. CInv /\ [Next]_cvars => [IdentifierMeaningIsFixed]_cvars
    BY <1>1
  <1>3. QED BY InitCInv, NextCInv, <1>2, PTL DEF Spec, StaleIdsStayDead

-----------------------------------------------------------------------------
\* All regions are unbacked and unannounced, and nobody waits.
LEMMA InitQuestions == PInit => QuestionsAreKept
  <1> SUFFICES ASSUME PInit PROVE QuestionsAreKept
    OBVIOUS
  <1> USE PagerAssumption DEF PInit, NoDelivery, invalid_thread, undeclared, Region
  <1>1. PTypeOK
    BY DEF PTypeOK, RegionState
  <1>2. AskedAtMostTwice /\ QuestionsAreSpent /\ WaiterIsRemembered
    BY DEF AskedAtMostTwice, QuestionsAreSpent, WaiterIsRemembered
  <1>3. QED BY <1>1, <1>2 DEF QuestionsAreKept

\* Whoever is resumed, the question stays the one it was: the pager's resume only
\* turns a pending one into a delivered one (collected).
LEMMA RescheduleKeeps ==
  ASSUME NEW queue, queue \subseteq Thread, NEW d, reschedule(queue, d),
         d \in [state : {"free", "pending", "delivered"}, region : Region \cup {undeclared},
                faulting : Thread \cup {invalid_thread}],
         running \in Thread, halted \in {"no", "nothing_runnable", "resume_failed"},
         pager_question_delivered \in BOOLEAN
  PROVE  /\ running' \in Thread
         /\ delivery' \in [state : {"free", "pending", "delivered"},
                           region : Region \cup {undeclared},
                           faulting : Thread \cup {invalid_thread}]
         /\ delivery'.region = d.region /\ delivery'.faulting = d.faulting
         /\ delivery'.state = "free" <=> d.state = "free"
         /\ halted' \in {"no", "nothing_runnable", "resume_failed"}
         /\ pager_question_delivered' \in BOOLEAN
  <1>1. ASSUME NEW t PROVE
          /\ collected(d, t) \in [state : {"free", "pending", "delivered"},
                                  region : Region \cup {undeclared},
                                  faulting : Thread \cup {invalid_thread}]
          /\ collected(d, t).region = d.region /\ collected(d, t).faulting = d.faulting
          /\ collected(d, t).state = "free" <=> d.state = "free"
    <2>1. \/ collected(d, t) = d
          \/ collected(d, t) = [d EXCEPT !.state = "delivered"] /\ d.state = "pending"
      BY DEF collected, hands_over
    <2>2. PICK c : c = collected(d, t)
      OBVIOUS
    <2>3. c = d \/ (c = [d EXCEPT !.state = "delivered"] /\ d.state = "pending")
      BY <2>1, <2>2
    <2>4. QED BY <2>2, <2>3
  <1>2. pager_question_delivered' \in BOOLEAN
    <2>1. ASSUME NEW t, pager_question_delivered' = (pager_question_delivered \/ hands_over(d, t))
          PROVE  pager_question_delivered' \in BOOLEAN
      BY <2>1 DEF hands_over
    <2>2. QED BY <2>1 DEF reschedule
  <1>3. QED BY <1>1, <1>2 DEF reschedule

\* Spending an announcement sets one that was not set, and unsets none.
LEMMA SpentAnnouncement ==
  ASSUME NEW v \in RegionState
  PROVE  /\ spent(v) \in RegionState
         /\ v.announced_backing => spent(v).announced_backing
         /\ v.announced_private => spent(v).announced_private
         /\ v.backing = "unbacked" => spent(v).announced_backing
         /\ v.backing = "backed_shared" => spent(v).announced_private
  BY DEF spent, RegionState

\* A question is asked: nobody waited, because the slot was free.
LEMMA AskedQuestions ==
  ASSUME QuestionsAreKept, NEW r \in Region \cup {undeclared}, NEW write \in BOOLEAN,
         fault_asked(r, write)
  PROVE  QuestionsAreKept'
  <1> USE PagerAssumption DEF QuestionsAreKept, PTypeOK
  <1>1. /\ r \in Paged /\ r \in Region /\ running # pager /\ delivery.state = "free"
        /\ region' = [region EXCEPT ![r] = spent(region[r])]
        /\ questions' = [questions EXCEPT ![r] = @ + 1]
        /\ waits' = [waits EXCEPT ![running] = r]
        /\ runnable' = runnable \ {running}
        /\ live' = live
    BY DEF fault_asked, announces, may_arm, announced, Region
  <1>2. /\ running' \in Thread /\ delivery'.region = r /\ delivery'.faulting = running
        /\ delivery'.state # "free"
        /\ delivery' \in [state : {"free", "pending", "delivered"},
                          region : Region \cup {undeclared},
                          faulting : Thread \cup {invalid_thread}]
        /\ halted' \in {"no", "nothing_runnable", "resume_failed"}
        /\ pager_question_delivered' \in BOOLEAN
    <2> DEFINE d == [state |-> "pending", region |-> r, faulting |-> running]
    <2>1. d \in [state : {"free", "pending", "delivered"}, region : Region \cup {undeclared},
                 faulting : Thread \cup {invalid_thread}]
      BY <1>1
    <2>2. reschedule(runnable', d)
      BY DEF fault_asked
    <2>3. d.region = r /\ d.faulting = running /\ d.state = "pending"
      OBVIOUS
    <2> HIDE DEF d
    <2>4. runnable' \subseteq Thread
      BY <1>1
    <2>5. QED BY <2>1, <2>2, <2>3, <2>4, RescheduleKeeps
  <1>3. /\ region[r] \in RegionState /\ spent(region[r]) \in RegionState
        /\ region[r].announced_backing => spent(region[r]).announced_backing
        /\ region[r].announced_private => spent(region[r]).announced_private
        /\ \/ ~region[r].announced_backing /\ spent(region[r]).announced_backing
           \/ ~region[r].announced_private /\ spent(region[r]).announced_private
    BY <1>1, SpentAnnouncement DEF fault_asked, announces
  <1>4. PTypeOK'
    BY <1>1, <1>2, <1>3
  <1>5. QuestionsAreSpent'
    BY <1>1, <1>3 DEF QuestionsAreSpent, Region
  <1>6. AskedAtMostTwice'
    BY <1>1, <1>3 DEF QuestionsAreSpent, AskedAtMostTwice, Region
  <1>7. WaiterIsRemembered'
    BY <1>1, <1>2 DEF WaiterIsRemembered
  <1>8. QED BY <1>4, <1>5, <1>6, <1>7

\* Nobody may be asked: at most an announcement is spent, and a thread is gone.
LEMMA FatalQuestions ==
  ASSUME QuestionsAreKept, NEW r \in Region \cup {undeclared}, NEW write \in BOOLEAN,
         fault_fatal(r, write)
  PROVE  QuestionsAreKept'
  <1> USE PagerAssumption DEF QuestionsAreKept, PTypeOK
  <1>1. /\ running' \in Thread /\ delivery'.region = delivery.region
        /\ delivery'.faulting = delivery.faulting
        /\ delivery'.state = "free" <=> delivery.state = "free"
        /\ delivery' \in [state : {"free", "pending", "delivered"},
                          region : Region \cup {undeclared},
                          faulting : Thread \cup {invalid_thread}]
        /\ halted' \in {"no", "nothing_runnable", "resume_failed"}
        /\ pager_question_delivered' \in BOOLEAN
    <2>1. reschedule(runnable \ {running}, delivery) /\ runnable \ {running} \subseteq Thread
      BY DEF fault_fatal
    <2>2. QED BY <2>1, RescheduleKeeps
  <1>2. /\ region' \in [Region -> RegionState] /\ questions' = questions
        /\ \A q \in Region : /\ region[q].announced_backing => region'[q].announced_backing
                             /\ region[q].announced_private => region'[q].announced_private
    <2>1. CASE region' = region
      BY <2>1 DEF fault_fatal
    <2>2. CASE region' = announced(r) /\ r \in Region
      <3>1. /\ region[r] \in RegionState /\ spent(region[r]) \in RegionState
            /\ region[r].announced_backing => spent(region[r]).announced_backing
            /\ region[r].announced_private => spent(region[r]).announced_private
        BY <2>2, SpentAnnouncement
      <3>2. QED BY <2>2, <3>1 DEF announced, fault_fatal
    <2>3. QED BY <2>1, <2>2 DEF fault_fatal, announces, Region
  <1>3. /\ live' \subseteq live /\ runnable' \subseteq live' /\ waits' \in [Thread -> Region \cup {undeclared}]
        /\ \A t \in live' : waits'[t] = waits[t]
    BY DEF fault_fatal
  <1>4. PTypeOK'
    BY <1>1, <1>2, <1>3
  <1>5. QuestionsAreSpent' /\ AskedAtMostTwice'
    BY <1>2 DEF QuestionsAreSpent, AskedAtMostTwice, Region
  <1>6. WaiterIsRemembered'
    BY <1>1, <1>3 DEF WaiterIsRemembered
  <1>7. QED BY <1>4, <1>5, <1>6

\* The pager answers: the one thread that waited does not any more, or is gone.
LEMMA SuppliedQuestions ==
  ASSUME QuestionsAreKept, NEW b \in Backing, fault_supply(b)
  PROVE  QuestionsAreKept'
  <1> USE PagerAssumption DEF QuestionsAreKept, PTypeOK
  <1> DEFINE q == delivery.region
  <1>1. /\ q \in Paged /\ q \in Region /\ region[q] \in RegionState
        /\ delivery.state = "delivered"
        /\ region' = [region EXCEPT ![q] = [region[q] EXCEPT !.backing = b]]
        /\ live' = live /\ questions' = questions
    BY DEF fault_supply, Region
  <1>2. /\ region' \in [Region -> RegionState]
        /\ \A s \in Region : /\ region'[s].announced_backing = region[s].announced_backing
                             /\ region'[s].announced_private = region[s].announced_private
    <2>1. /\ [region[q] EXCEPT !.backing = b] \in RegionState
          /\ [region[q] EXCEPT !.backing = b].announced_backing = region[q].announced_backing
          /\ [region[q] EXCEPT !.backing = b].announced_private = region[q].announced_private
      BY <1>1 DEF RegionState
    <2>2. QED BY <1>1, <2>1
  <1>3. /\ delivery'.state = "free" /\ running' \in Thread
        /\ delivery' \in [state : {"free", "pending", "delivered"},
                          region : Region \cup {undeclared},
                          faulting : Thread \cup {invalid_thread}]
        /\ halted' \in {"no", "nothing_runnable", "resume_failed"}
        /\ pager_question_delivered' \in BOOLEAN
        /\ waits' \in [Thread -> Region \cup {undeclared}]
        /\ runnable' \subseteq live
        /\ \A t \in live : waits'[t] = undeclared
    <2>1. /\ NoDelivery \in [state : {"free", "pending", "delivered"},
                             region : Region \cup {undeclared},
                             faulting : Thread \cup {invalid_thread}]
          /\ NoDelivery.state = "free"
      BY DEF NoDelivery
    <2>2. \A t \in live : waits[t] # undeclared => t = delivery.faulting
      BY DEF WaiterIsRemembered
    <2>3. CASE delivery.faulting \in live
      <3>1. /\ waits' = [waits EXCEPT ![delivery.faulting] = undeclared]
            /\ runnable' = runnable \cup {delivery.faulting}
            /\ reschedule(runnable', NoDelivery)
        BY <2>3 DEF fault_supply
      <3>2. runnable' \subseteq live /\ runnable' \subseteq Thread
        BY <2>3, <3>1
      <3>3. /\ delivery'.state = "free" /\ running' \in Thread
            /\ delivery' \in [state : {"free", "pending", "delivered"},
                              region : Region \cup {undeclared},
                              faulting : Thread \cup {invalid_thread}]
            /\ halted' \in {"no", "nothing_runnable", "resume_failed"}
            /\ pager_question_delivered' \in BOOLEAN
        BY <2>1, <3>1, <3>2, RescheduleKeeps
      <3>4. QED BY <2>2, <3>1, <3>2, <3>3
    <2>4. CASE delivery.faulting \notin live
      BY <2>1, <2>2, <2>4 DEF fault_supply
    <2>5. QED BY <2>3, <2>4
  <1>4. PTypeOK'
    BY <1>1, <1>2, <1>3
  <1>5. QuestionsAreSpent' /\ AskedAtMostTwice'
    BY <1>1, <1>2 DEF QuestionsAreSpent, AskedAtMostTwice, Region
  <1>6. WaiterIsRemembered'
    BY <1>1, <1>3 DEF WaiterIsRemembered
  <1>7. QED BY <1>4, <1>5, <1>6

\* A timer or another call chooses who runs and leaves the rest alone.
LEMMA OtherQuestions ==
  ASSUME QuestionsAreKept, on_timer \/ kernel_call
  PROVE  QuestionsAreKept'
  <1> USE DEF QuestionsAreKept, PTypeOK
  <1>1. /\ runnable' \subseteq live /\ live' = live /\ region' = region /\ waits' = waits
        /\ questions' = questions /\ reschedule(runnable', delivery)
    BY DEF on_timer, kernel_call
  <1>2. /\ running' \in Thread /\ delivery'.region = delivery.region
        /\ delivery'.faulting = delivery.faulting
        /\ delivery'.state = "free" <=> delivery.state = "free"
        /\ delivery' \in [state : {"free", "pending", "delivered"},
                          region : Region \cup {undeclared},
                          faulting : Thread \cup {invalid_thread}]
        /\ halted' \in {"no", "nothing_runnable", "resume_failed"}
        /\ pager_question_delivered' \in BOOLEAN
    BY <1>1, RescheduleKeeps
  <1>3. PTypeOK'
    BY <1>1, <1>2
  <1>4. AskedAtMostTwice' /\ QuestionsAreSpent' /\ WaiterIsRemembered'
    BY <1>1, <1>2 DEF AskedAtMostTwice, QuestionsAreSpent, WaiterIsRemembered
  <1>5. QED BY <1>3, <1>4

\* No faulting thread is stranded and no region is asked about a third time,
\* however faults, answers, deaths and other calls interleave (fault_region.cpp
\* resolve, fault_delivery.cpp, the fault and supply handlers of the boot image).
THEOREM PagerKeepsQuestions == PSpec => []QuestionsAreKept
  <1>1. QuestionsAreKept /\ [PNext]_pvars => QuestionsAreKept'
    <2> SUFFICES ASSUME QuestionsAreKept, [PNext]_pvars PROVE QuestionsAreKept'
      OBVIOUS
    <2>1. ASSUME NEW r \in Region \cup {undeclared}, NEW write \in BOOLEAN, el0_fault(r, write)
          PROVE  QuestionsAreKept'
      BY <2>1, AskedQuestions, FatalQuestions DEF el0_fault
    <2>2. ASSUME NEW b \in Backing, fault_supply(b) PROVE QuestionsAreKept'
      BY <2>2, SuppliedQuestions
    <2>3. CASE on_timer \/ kernel_call
      BY <2>3, OtherQuestions
    <2>4. CASE UNCHANGED pvars
      BY <2>4 DEF QuestionsAreKept, PTypeOK, AskedAtMostTwice, QuestionsAreSpent,
                  WaiterIsRemembered, pvars
    <2>5. QED BY <2>1, <2>2, <2>3, <2>4 DEF PNext
  <1>2. QED BY InitQuestions, <1>1, PTL DEF PSpec

-----------------------------------------------------------------------------
\* LinesAreHonest is inductive as it stands: the mask and the count are about owned
\* sources, and that an owned source has a driver is what types a delivery.

\* What an operation makes of one slot, field by field.
LEMMA ServedSlot ==
  ASSUME NEW v \in Int!Slot, Int!InterruptConstants
  PROVE  /\ Int!served(v) \in Int!Slot /\ Int!served(v).owner = v.owner
         /\ Int!served(v).assertions = v.assertions /\ Int!served(v).saturated = v.saturated
         /\ v.assertions > 0 => Int!served(v).state = "pending"
         /\ ~(v.assertions > 0) => Int!served(v).state = "attached"
  BY DEF Int!Slot, Int!served, Int!InterruptConstants

\* An assertion makes an idle source outstanding with a count of one, and adds
\* to the count of any other up to the ceiling (dispatch, record_assertion).
LEMMA DispatchedSlot ==
  ASSUME Int!InterruptConstants, NEW v \in Int!Slot, v.state # "detached"
  PROVE  /\ Int!dispatch(v) \in Int!Slot /\ Int!dispatch(v).owner = v.owner
         /\ Int!dispatch(v).state \in {"pending", "in_service"}
         /\ v.state = "attached" => Int!dispatch(v).assertions = 1 /\ ~Int!dispatch(v).saturated
         /\ v.state # "attached" /\ v.assertions = Ceiling =>
               Int!dispatch(v).assertions = Ceiling /\ Int!dispatch(v).saturated
         /\ v.state # "attached" /\ v.assertions # Ceiling =>
               /\ Int!dispatch(v).assertions = v.assertions + 1
               /\ Int!dispatch(v).saturated = v.saturated
  <1> USE DEF Int!InterruptConstants, Int!Slot
  <1>1. CASE v.state = "attached"
    BY <1>1 DEF Int!dispatch
  <1>2. CASE v.state # "attached" /\ v.assertions = Ceiling
    BY <1>2 DEF Int!dispatch, Int!record_assertion
  <1>3. CASE v.state # "attached" /\ v.assertions # Ceiling
    BY <1>3 DEF Int!dispatch, Int!record_assertion
  <1>4. QED BY <1>1, <1>2, <1>3

\* The count is collected with the hand-over (begin_service).
LEMMA CollectedSlot ==
  ASSUME NEW v \in Int!Slot, Int!InterruptConstants
  PROVE  /\ Int!begin_service(v) \in Int!Slot /\ Int!begin_service(v).owner = v.owner
         /\ Int!begin_service(v).state = "in_service"
         /\ Int!begin_service(v).assertions = 0 /\ ~Int!begin_service(v).saturated
         /\ Int!collected(v) \in [armed : BOOLEAN, assertions : 0..Ceiling, saturated : BOOLEAN]
  BY DEF Int!Slot, Int!begin_service, Int!collected, Int!InterruptConstants

\* Nothing is attached at the start.
LEMMA InitLines ==
  ASSUME Int!InterruptConstants, Int!IInit
  PROVE  LinesAreHonest
  BY DEF Int!InterruptConstants, Int!IInit, LinesAreHonest, Int!ITypeOK, Int!Slot, Int!SlotsAreOwned, Int!MaskMirrorsState,
         Int!CountIsHonest, Int!find, Int!Detached, Int!NoDelivery, Int!invalid_driver

\* A driver takes a free source, idle and with its line open.
LEMMA AttachLines ==
  ASSUME Int!InterruptConstants, LinesAreHonest, NEW d \in Driver, NEW s \in Source, Int!interrupt_attach(d, s)
  PROVE  LinesAreHonest'
  <1> USE DEF Int!InterruptConstants, LinesAreHonest, Int!ITypeOK, Int!Slot, Int!interrupt_attach, Int!attach
  <1>1. Int!ITypeOK'
    OBVIOUS
  <1>2. Int!SlotsAreOwned'
    BY DEF Int!SlotsAreOwned, Int!find, Int!Detached
  <1>3. Int!MaskMirrorsState'
    BY DEF Int!MaskMirrorsState, Int!find
  <1>4. Int!CountIsHonest'
    BY DEF Int!CountIsHonest, Int!find
  <1>5. QED BY <1>1, <1>2, <1>3, <1>4

\* A driver lets a source go, in whatever state it is.
LEMMA DetachLines ==
  ASSUME Int!InterruptConstants, LinesAreHonest, NEW d \in Driver, NEW s \in Source, Int!interrupt_detach(d, s)
  PROVE  LinesAreHonest'
  <1> USE DEF Int!InterruptConstants, LinesAreHonest, Int!ITypeOK, Int!Slot, Int!interrupt_detach, Int!detach, Int!Detached, Int!invalid_driver
  <1>1. Int!ITypeOK'
    OBVIOUS
  <1>2. Int!SlotsAreOwned'
    BY DEF Int!SlotsAreOwned, Int!find
  <1>3. Int!MaskMirrorsState'
    BY DEF Int!MaskMirrorsState, Int!find
  <1>4. Int!CountIsHonest'
    BY DEF Int!CountIsHonest, Int!find
  <1>5. QED BY <1>1, <1>2, <1>3, <1>4

\* A completion opens the line again exactly when nothing arrived meanwhile.
LEMMA CompleteLines ==
  ASSUME Int!InterruptConstants, LinesAreHonest, NEW d \in Driver, NEW s \in Source, Int!interrupt_complete(d, s)
  PROVE  LinesAreHonest'
  <1> USE DEF Int!InterruptConstants, LinesAreHonest, Int!ITypeOK
  <1>1. /\ Int!find(s) /\ slot[s].state = "in_service"
        /\ slot' = [slot EXCEPT ![s] = Int!served(slot[s])]
        /\ masked' = [masked EXCEPT ![s] = slot[s].assertions > 0]
        /\ UNCHANGED <<serviced, spurious, asserted>>
    BY DEF Int!interrupt_complete, Int!end_service
  <1>2. /\ slot[s] \in Int!Slot /\ Int!served(slot[s]) \in Int!Slot /\ Int!served(slot[s]).owner = slot[s].owner
        /\ Int!served(slot[s]).assertions = slot[s].assertions
        /\ Int!served(slot[s]).saturated = slot[s].saturated
        /\ slot[s].assertions > 0 => Int!served(slot[s]).state = "pending"
        /\ ~(slot[s].assertions > 0) => Int!served(slot[s]).state = "attached"
    BY ServedSlot
  <1>3. Int!ITypeOK'
    BY <1>1, <1>2
  <1>4. Int!SlotsAreOwned'
    BY <1>1, <1>2 DEF Int!SlotsAreOwned, Int!find, Int!Detached
  <1>5. Int!MaskMirrorsState'
    BY <1>1, <1>2 DEF Int!MaskMirrorsState, Int!find
  <1>6. Int!CountIsHonest'
    <2>1. PICK v : v = Int!served(slot[s])
      OBVIOUS
    <2>2. slot'[s] = v /\ asserted' = asserted /\ \A r \in Source \ {s} : slot'[r] = slot[r]
      BY <1>1, <2>1
    <2>3. /\ IF v.saturated THEN v.assertions = Ceiling /\ asserted[s] > Ceiling
             ELSE v.assertions = asserted[s]
          /\ v.state = "attached" => asserted[s] = 0
      BY <1>1, <1>2, <2>1 DEF Int!CountIsHonest, Int!find, Int!Slot
    <2>4. QED BY <2>2, <2>3 DEF Int!CountIsHonest, Int!find
  <1>7. QED BY <1>3, <1>4, <1>5, <1>6

\* An assertion masks its line, and is counted, handed over or spurious.
LEMMA DispatchLines ==
  ASSUME Int!InterruptConstants, LinesAreHonest, NEW s \in Source, Int!dispatch_interrupt(s)
  PROVE  LinesAreHonest'
  <1> USE DEF Int!InterruptConstants, LinesAreHonest, Int!ITypeOK
  <1>1. /\ masked' = [masked EXCEPT ![s] = TRUE]
        /\ asserted[s] < MaxAssertions
    BY DEF Int!dispatch_interrupt
  <1>2. CASE /\ ~Int!find(s)
             /\ spurious' = IF spurious = Ceiling THEN spurious ELSE spurious + 1
             /\ UNCHANGED <<slot, serviced, asserted>>
    <2>1. Int!ITypeOK' /\ Int!SlotsAreOwned'
      BY <1>1, <1>2 DEF Int!SlotsAreOwned, Int!find
    <2>2. Int!MaskMirrorsState' /\ Int!CountIsHonest'
      BY <1>1, <1>2 DEF Int!MaskMirrorsState, Int!CountIsHonest, Int!find
    <2>3. QED BY <2>1, <2>2
  <1>3. CASE /\ slot[s].state = "attached" /\ ~serviced[slot[s].owner].armed
             /\ slot' = [slot EXCEPT ![s] = Int!begin_service(Int!dispatch(slot[s]))]
             /\ serviced' = [serviced EXCEPT ![slot[s].owner] = Int!collected(Int!dispatch(slot[s]))]
             /\ asserted' = [asserted EXCEPT ![s] = 0]
             /\ UNCHANGED spurious
    <2>1. /\ slot[s] \in Int!Slot /\ Int!dispatch(slot[s]) \in Int!Slot
          /\ Int!dispatch(slot[s]).owner = slot[s].owner /\ slot[s].owner \in Driver
      BY <1>3, DispatchedSlot DEF Int!SlotsAreOwned, Int!find
    <2> DEFINE v == Int!begin_service(Int!dispatch(slot[s]))
    <2>2. /\ v \in Int!Slot /\ v.owner = slot[s].owner /\ v.state = "in_service"
          /\ v.assertions = 0 /\ ~v.saturated
          /\ Int!collected(Int!dispatch(slot[s])) \in
                [armed : BOOLEAN, assertions : 0..Ceiling, saturated : BOOLEAN]
      BY <2>1, CollectedSlot
    <2> HIDE DEF v
    <2>3. slot' = [slot EXCEPT ![s] = v]
      BY <1>3 DEF v
    <2>4. Int!ITypeOK'
      <3>1. slot' \in [Source -> Int!Slot]
        BY <2>2, <2>3
      <3>2. /\ serviced' \in [Driver ->
                  [armed : BOOLEAN, assertions : 0..Ceiling, saturated : BOOLEAN]]
            /\ spurious' \in 0..Ceiling
        <4> DEFINE c == Int!collected(Int!dispatch(slot[s]))
        <4>1. serviced' = [serviced EXCEPT ![slot[s].owner] = c] /\ spurious' = spurious
          BY <1>3
        <4>2. c \in [armed : BOOLEAN, assertions : 0..Ceiling, saturated : BOOLEAN]
          BY <2>2
        <4> DEFINE D == [armed : BOOLEAN, assertions : 0..Ceiling, saturated : BOOLEAN]
        <4>3. serviced \in [Driver -> D] /\ spurious \in 0..Ceiling /\ c \in D
          BY <4>2
        <4> HIDE DEF c, D
        <4>4. serviced' \in [Driver -> D] /\ spurious' \in 0..Ceiling
          BY <2>1, <4>1, <4>3
        <4>5. QED BY <4>4 DEF D
      <3>3. masked' \in [Source -> BOOLEAN] /\ asserted' \in [Source -> 0..MaxAssertions]
        <4>1. /\ masked \in [Source -> BOOLEAN] /\ asserted \in [Source -> 0..MaxAssertions]
              /\ MaxAssertions \in Nat
          OBVIOUS
        <4>2. asserted' = [asserted EXCEPT ![s] = 0]
          BY <1>3
        <4> HIDE DEF Int!InterruptConstants, LinesAreHonest, Int!ITypeOK
        <4>3. QED BY <1>1, <4>1, <4>2
      <3>4. QED BY <3>1, <3>2, <3>3
    <2>5. Int!SlotsAreOwned'
      BY <2>1, <2>2, <2>3 DEF Int!SlotsAreOwned, Int!find, Int!Detached
    <2>6. Int!MaskMirrorsState'
      BY <1>1, <2>2, <2>3 DEF Int!MaskMirrorsState, Int!find
    <2>7. Int!CountIsHonest'
      BY <1>3, <2>2, <2>3 DEF Int!CountIsHonest, Int!find
    <2>8. QED BY <2>4, <2>5, <2>6, <2>7
  <1>4. CASE /\ Int!find(s)
             /\ slot' = [slot EXCEPT ![s] = Int!dispatch(slot[s])]
             /\ asserted' = [asserted EXCEPT ![s] = @ + 1]
             /\ UNCHANGED <<serviced, spurious>>
    <2>1. /\ Int!dispatch(slot[s]) \in Int!Slot
          /\ Int!dispatch(slot[s]).owner = slot[s].owner /\ slot[s].owner \in Driver
          /\ Int!dispatch(slot[s]).state \in {"pending", "in_service"}
      BY <1>4, DispatchedSlot DEF Int!SlotsAreOwned, Int!find
    <2>2. IF Int!dispatch(slot[s]).saturated
          THEN Int!dispatch(slot[s]).assertions = Ceiling /\ asserted[s] + 1 > Ceiling
          ELSE Int!dispatch(slot[s]).assertions = asserted[s] + 1
      <3>1. PICK v, n : v = slot[s] /\ n = asserted[s]
        OBVIOUS
      <3>2. /\ v.state # "detached" /\ v \in Int!Slot /\ n \in Nat
            /\ IF v.saturated THEN v.assertions = Ceiling /\ n > Ceiling ELSE v.assertions = n
            /\ v.state = "attached" => n = 0
        BY <1>4, <3>1 DEF Int!CountIsHonest, Int!find
      <3> HIDE DEF LinesAreHonest, Int!ITypeOK
      <3>3. v.assertions \in Nat /\ Ceiling \in Nat
        BY <3>2 DEF Int!Slot, Int!InterruptConstants
      <3> HIDE DEF Int!InterruptConstants
      <3>4. QED BY <3>1, <3>2, <3>3, DispatchedSlot
    <2>3. Int!ITypeOK'
      <3>1. slot' \in [Source -> Int!Slot]
        BY <1>4, <2>1
      <3>2. masked' \in [Source -> BOOLEAN] /\ asserted' \in [Source -> 0..MaxAssertions]
        BY <1>1, <1>4
      <3>3. QED BY <1>4, <3>1, <3>2
    <2>4. Int!SlotsAreOwned'
      BY <1>4, <2>1 DEF Int!SlotsAreOwned, Int!find, Int!Detached
    <2>5. Int!MaskMirrorsState'
      BY <1>1, <1>4, <2>1 DEF Int!MaskMirrorsState, Int!find
    <2>6. Int!CountIsHonest'
      BY <1>4, <2>1, <2>2 DEF Int!CountIsHonest, Int!find
    <2>7. QED BY <2>3, <2>4, <2>5, <2>6
  <1>5. QED BY <1>2, <1>3, <1>4 DEF Int!dispatch_interrupt

\* What waited for a driver is collected.
LEMMA TakeLines ==
  ASSUME Int!InterruptConstants, LinesAreHonest, NEW d \in Driver, Int!take_delivered_service(d)
  PROVE  LinesAreHonest'
  <1>1. /\ serviced' = [serviced EXCEPT ![d] = Int!NoDelivery]
        /\ slot' = slot /\ spurious' = spurious /\ masked' = masked /\ asserted' = asserted
    BY DEF Int!take_delivered_service
  <1>2. Int!ITypeOK'
    BY <1>1 DEF Int!InterruptConstants, LinesAreHonest, Int!ITypeOK, Int!NoDelivery
  <1>3. Int!SlotsAreOwned' /\ Int!MaskMirrorsState' /\ Int!CountIsHonest'
    BY <1>1 DEF LinesAreHonest, Int!SlotsAreOwned, Int!MaskMirrorsState, Int!CountIsHonest, Int!find
  <1>4. QED BY <1>2, <1>3 DEF LinesAreHonest

\* A driver dies: its sources are free, whatever their mask bits say.
LEMMA DeathLines ==
  ASSUME Int!InterruptConstants, LinesAreHonest, NEW d \in Driver, Int!detach_all_owned_by(d)
  PROVE  LinesAreHonest'
  <1> USE DEF Int!InterruptConstants, LinesAreHonest, Int!ITypeOK, Int!Slot, Int!detach_all_owned_by, Int!Detached, Int!invalid_driver, Int!NoDelivery
  <1>1. Int!ITypeOK'
    <2>1. slot' \in [Source -> Int!Slot]
      <3>1. Int!Detached \in Int!Slot /\ slot \in [Source -> Int!Slot]
        OBVIOUS
      <3>2. slot' = [s \in Source |-> IF slot[s].owner = d THEN Int!Detached ELSE slot[s]]
        OBVIOUS
      <3> HIDE DEF Int!InterruptConstants, LinesAreHonest, Int!ITypeOK, Int!Slot, Int!Detached
      <3>3. QED BY <3>1, <3>2
    <2>2. serviced' \in [Driver ->
                [armed : BOOLEAN, assertions : 0..Ceiling, saturated : BOOLEAN]]
      OBVIOUS
    <2>3. asserted' \in [Source -> 0..MaxAssertions]
      <3>1. /\ asserted \in [Source -> 0..MaxAssertions] /\ MaxAssertions \in Nat
            /\ asserted' = [s \in Source |-> IF slot[s].owner = d THEN 0 ELSE asserted[s]]
        OBVIOUS
      <3> HIDE DEF Int!InterruptConstants, LinesAreHonest, Int!ITypeOK, Int!Slot, Int!Detached
      <3>2. QED BY <3>1
    <2>4. /\ spurious \in 0..Ceiling /\ masked \in [Source -> BOOLEAN]
          /\ UNCHANGED <<spurious, masked>>
      OBVIOUS
    <2> HIDE DEF Int!InterruptConstants, LinesAreHonest, Int!Slot, Int!detach_all_owned_by
    <2>5. QED BY <2>1, <2>2, <2>3, <2>4
  <1>2. Int!SlotsAreOwned'
    BY DEF Int!SlotsAreOwned, Int!find
  <1>3. Int!MaskMirrorsState'
    BY DEF Int!MaskMirrorsState, Int!find
  <1>4. Int!CountIsHonest'
    BY DEF Int!CountIsHonest, Int!find
  <1>5. QED BY <1>1, <1>2, <1>3, <1>4

\* Interrupt delivery is honest: the mask bit of every owned source says whether
\* it is idle, and its count is the number of assertions not yet reported or
\* says that it is a lower bound, whatever assertions, completions, detachments
\* and deaths come in whatever order (interrupt.cpp, interrupt_delivery.cpp).
THEOREM InterruptsAreHonest == ESpec => []LinesAreHonest
  <1>1. EInit => LinesAreHonest
    BY InitLines, EventConstants DEF EInit
  <1>2. LinesAreHonest /\ [ENext]_evars => LinesAreHonest'
    <2> SUFFICES ASSUME LinesAreHonest, [ENext]_evars PROVE LinesAreHonest'
      OBVIOUS
    <2> USE EventConstants
    <2>1. ASSUME NEW d \in Driver, NEW s \in Source,
                 \/ Int!interrupt_attach(d, s) \/ Int!interrupt_detach(d, s)
                 \/ Int!interrupt_complete(d, s)
          PROVE  LinesAreHonest'
      BY <2>1, AttachLines, DetachLines, CompleteLines
    <2>2. ASSUME NEW s \in Source, Int!dispatch_interrupt(s) PROVE LinesAreHonest'
      BY <2>2, DispatchLines
    <2>3. ASSUME NEW d \in Driver, Int!take_delivered_service(d) \/ Int!detach_all_owned_by(d)
          PROVE  LinesAreHonest'
      BY <2>3, TakeLines, DeathLines
    <2>4. CASE UNCHANGED ivars
      BY <2>4 DEF LinesAreHonest, Int!ITypeOK, Int!SlotsAreOwned, Int!MaskMirrorsState,
                  Int!CountIsHonest, Int!find, ivars
    <2>5. CASE Int!INext
      BY <2>1, <2>2, <2>3, <2>5 DEF Int!INext
    <2>6. QED BY <2>4, <2>5 DEF ENext, evars
  <1>3. QED BY <1>1, <1>2, PTL DEF ESpec
=============================================================================
