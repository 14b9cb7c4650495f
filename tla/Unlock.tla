------------------------------- MODULE Unlock -------------------------------
(***************************************************************************)
(* The lock screen's UnlockAuthority (osshell unlock.cpp), the caller that *)
(* carries out its directives and saves its state, and the enrolment rule  *)
(* for the two credentials of an owner (credential_rule.cpp).              *)
(*                                                                         *)
(* Time is the monotonic clock since boot in coarse units; a submission    *)
(* may come at any time, and one earlier than the last is refused.  The    *)
(* caller is external: it destroys the domain it is told to, saves         *)
(* persisted_state when it likes, and may lose power between any two steps.*)
(***************************************************************************)
EXTENDS Naturals, Sequences, TLC

CONSTANTS
    Tags,               \* nonzero credential tags
    MaxTime,            \* bound on the clock since boot
    Uniform,            \* uniform_unlock_nanoseconds
    Window,             \* iteration_window_nanoseconds
    IterationLock,      \* iteration_lock_nanoseconds
    BackoffAfter,       \* attempts_before_backoff
    InitialBackoff,     \* initial_backoff_nanoseconds
    MaxBackoff,         \* maximum_backoff_nanoseconds
    Thresholds,         \* minimum..maximum_erasure_threshold
    DefaultThreshold,   \* default_erasure_threshold
    MaxCounted,         \* maximum_counted_attempts
    MaxRestarts,        \* bound on power losses
    Alphabet, Longest,  \* the credentials tried at enrolment
    Shortest,           \* minimum_credential_bytes
    Separation          \* minimum_duress_separation

VARIABLES
    authority,  \* the UnlockAuthority
    domain,     \* DomainPresence, as the key service finds it
    owed,       \* a destroy directive the caller has not carried out yet
    stored,     \* the PersistedUnlockState on disk, with the history it stands for
    wrong,      \* guesses evaluated since a valid credential (history)
    restarts,
    pair        \* the enrolled nominal and duress credentials, when that is looked at

unlock_vars == <<authority, domain, owed, stored, wrong, restarts, pair>>

NoTag == 0
Classes == {"nominal", "duress", "invalid"}

(* static_assert: the lock outlasts the window.                            *)
UnlockConstants ==
    /\ IterationLock > Window /\ NoTag \notin Tags
    /\ DefaultThreshold \in Thresholds /\ MaxCounted >= BackoffAfter

UnlockAuthority ==
    [tag |-> NoTag, at |-> 0, history |-> FALSE, attempts |-> 0, until |-> 0, last |-> 0,
     destroyed |-> FALSE, enabled |-> FALSE, chosen |-> FALSE, threshold |-> DefaultThreshold]

PersistedUnlockState(u) ==
    [attempts |-> u.attempts, enabled |-> u.enabled, chosen |-> u.chosen,
     threshold |-> u.threshold]

later_of(a, b) == IF a > b THEN a ELSE b

restorable(s) ==
    s.enabled => s.threshold \in Thresholds /\ s.chosen

restore_unasked(u, s, presence) ==
    IF ~restorable(s) THEN u
    ELSE [u EXCEPT !.attempts = s.attempts, !.enabled = s.enabled, !.chosen = s.chosen,
                   !.threshold = s.threshold]

(* Nothing measured in time survives; destruction is read off the domain.  *)
restore(u, s, presence) ==
    IF ~restorable(s) THEN u
    ELSE [u EXCEPT !.attempts = s.attempts, !.destroyed = presence = "absent",
                   !.enabled = s.enabled, !.chosen = s.chosen, !.threshold = s.threshold]

forget_after_destruction(u) ==
    [u EXCEPT !.destroyed = TRUE, !.enabled = FALSE, !.chosen = FALSE,
              !.threshold = DefaultThreshold, !.attempts = 0]

configure_erasure(u, enabled, threshold) ==
    IF enabled /\ threshold \notin Thresholds THEN u
    ELSE [u EXCEPT !.enabled = enabled, !.chosen = TRUE,
                   !.threshold = IF enabled THEN threshold ELSE @]

note_enrollment(u) == [u EXCEPT !.tag = NoTag, !.at = 0, !.history = FALSE]

doubled[steps \in Nat] ==
    IF steps = 0 THEN InitialBackoff
    ELSE IF doubled[steps - 1] >= MaxBackoff \div 2 THEN MaxBackoff
    ELSE doubled[steps - 1] * 2

backoff_for(attempts) ==
    IF attempts < BackoffAfter THEN 0
    ELSE LET b == doubled[attempts - BackoffAfter] IN IF b > MaxBackoff THEN MaxBackoff ELSE b

---------------------------------------------------------------------------
(* submit returns the authority and the outcome.                           *)
Outcome(disposition, destroy, release, again) ==
    [disposition |-> disposition, destroy |-> destroy, release |-> release, again |-> again]

(* A credential of nobody's: counted, delayed, and at the owner's threshold *)
(* answered as duress is.                                                  *)
submit_invalid(u, now) ==
    LET attempts == IF u.attempts < MaxCounted THEN u.attempts + 1 ELSE u.attempts
        backoff == backoff_for(attempts)
        counted == [u EXCEPT !.attempts = attempts,
                             !.until = IF backoff # 0 THEN now + backoff ELSE @]
        reached == u.enabled /\ attempts >= u.threshold
        erase == reached /\ ~u.destroyed
        after == IF erase THEN forget_after_destruction(counted) ELSE counted
        release == now + Uniform
    IN IF reached
       THEN [state |-> [after EXCEPT !.until = 0, !.attempts = 0],
             outcome |-> Outcome("granted", erase, release, release)]
       ELSE [state |-> counted,
             outcome |-> Outcome("refused", FALSE, release, later_of(release, counted.until))]

(* One of the owner's: destruction first, then the iteration rule, which   *)
(* reads the tag and the time and nothing else.                            *)
submit_valid_uncounted(u, now, class, tag) ==
    LET destroy == class = "duress" /\ ~u.destroyed
        base == IF destroy THEN forget_after_destruction(u) ELSE u
        iterated == u.history /\ now - u.at <= Window /\ tag # u.tag
        seen == [base EXCEPT !.tag = tag, !.at = now, !.history = TRUE]
        release == now + Uniform
    IN IF iterated
       THEN [state |-> [seen EXCEPT !.until = now + IterationLock],
             outcome |-> Outcome("locked", destroy, release, later_of(release, now + IterationLock))]
       ELSE [state |-> seen, outcome |-> Outcome("granted", destroy, release, release)]

submit_valid(u, now, class, tag) ==
    LET destroy == class = "duress" /\ ~u.destroyed
        base == IF destroy THEN forget_after_destruction(u) ELSE u
        iterated == u.history /\ now - u.at <= Window /\ tag # u.tag
        seen == [base EXCEPT !.tag = tag, !.at = now, !.history = TRUE, !.attempts = 0]
        release == now + Uniform
    IN IF iterated
       THEN [state |-> [seen EXCEPT !.until = now + IterationLock],
             outcome |-> Outcome("locked", destroy, release, later_of(release, now + IterationLock))]
       ELSE [state |-> seen, outcome |-> Outcome("granted", destroy, release, release)]

submittable(u, now, class, tag) ==
    /\ (class = "invalid") <=> (tag = NoTag)
    /\ now >= u.last

(* While locked nothing is evaluated, counted or remembered.               *)
submit(u, now, class, tag) ==
    LET v == [u EXCEPT !.last = now]
    IN IF now < u.until
       THEN [state |-> v, outcome |-> Outcome("locked", FALSE, now + Uniform,
                                              later_of(now + Uniform, u.until))]
       ELSE IF class = "invalid" THEN submit_invalid(v, now)
       ELSE submit_valid(v, now, class, tag)

---------------------------------------------------------------------------
(* Enrolment: unrestricted Damerau-Levenshtein distance of two credentials,*)
(* by its table; row and column 0 of the code are its sentinels.           *)

Fewest(S) == CHOOSE x \in S : \A y \in S : x <= y
LastBefore(s, c, n) == Fewest({n + 1 - k : k \in {k \in 1..n : s[k] = c}} \cup {n + 1})

(* distance[<<i, j>>]: prefixes of length i and j.                         *)
damerau_levenshtein_adjacent(first, second) ==
    LET d[p \in (0..Len(first)) \X (0..Len(second))] ==
            LET i == p[1]
                j == p[2]
            IN IF i = 0 \/ j = 0 THEN i + j
               ELSE Fewest({d[<<i - 1, j - 1>>] + (IF first[i] = second[j] THEN 0 ELSE 1),
                            d[<<i, j - 1>>] + 1, d[<<i - 1, j>>] + 1}
                           \cup (IF i > 1 /\ j > 1 /\ first[i] = second[j - 1] /\ first[i - 1] = second[j]
                                 THEN {d[<<i - 2, j - 2>>] + 1} ELSE {}))
    IN d[<<Len(first), Len(second)>>]

damerau_levenshtein(first, second) ==
    LET d[p \in (0..Len(first)) \X (0..Len(second))] ==
            LET i == p[1]
                j == p[2]
                row == i - LastBefore(first, second[j], i - 1)
                column == j - LastBefore(second, first[i], j - 1)
            IN IF i = 0 \/ j = 0 THEN i + j
               ELSE Fewest({d[<<i - 1, j - 1>>] + (IF first[i] = second[j] THEN 0 ELSE 1),
                            d[<<i, j - 1>>] + 1, d[<<i - 1, j>>] + 1}
                           \cup (IF row = 0 \/ column = 0 THEN {}
                                 ELSE {d[<<row - 1, column - 1>>] + (i - row - 1) + 1
                                       + (j - column - 1)}))
    IN d[<<Len(first), Len(second)>>]

validate_duress_enrollment(nominal, duress) ==
    /\ Len(nominal) >= Shortest /\ Len(duress) >= Shortest
    /\ damerau_levenshtein(nominal, duress) >= Separation

---------------------------------------------------------------------------
Credentials == UNION {[1..n -> Alphabet] : n \in 0..Longest}
NoPair == <<>>

UnlockInit ==
    /\ authority = UnlockAuthority
    /\ domain = "present" /\ owed = FALSE
    /\ stored = PersistedUnlockState(UnlockAuthority) @@ [wrong |-> 0]
    /\ wrong = 0 /\ restarts = 0
    /\ pair \in {NoPair} \cup {p \in Credentials \X Credentials :
                                  validate_duress_enrollment(p[1], p[2])}

submits(now, class, tag) ==
    LET r == submit(authority, now, class, tag)
        evaluated == now >= authority.until
    IN /\ submittable(authority, now, class, tag) /\ ~owed
       /\ authority' = r.state
       /\ owed' = r.outcome.destroy
       /\ wrong' = IF ~evaluated THEN wrong
                   ELSE IF class # "invalid" \/ r.outcome.disposition = "granted" THEN 0
                   ELSE IF wrong < MaxCounted THEN wrong + 1 ELSE wrong
       /\ UNCHANGED <<domain, stored, restarts>>

(* The caller: the key service destroys the domain before anything shows.  *)
destroys_domain ==
    /\ owed
    /\ domain' = "absent" /\ owed' = FALSE
    /\ UNCHANGED <<authority, stored, wrong, restarts>>

saves ==
    /\ stored' = PersistedUnlockState(authority) @@ [wrong |-> wrong]
    /\ UNCHANGED <<authority, domain, owed, wrong, restarts>>

power_is_lost ==
    /\ restarts < MaxRestarts
    /\ restarts' = restarts + 1
    /\ authority' = restore(UnlockAuthority, stored, domain)
    /\ owed' = FALSE
    /\ wrong' = stored.wrong
    /\ UNCHANGED <<domain, stored>>

owner_configures(enabled, threshold) ==
    /\ ~owed
    /\ authority' = configure_erasure(authority, enabled, threshold)
    /\ UNCHANGED <<domain, owed, stored, wrong, restarts>>

owner_enrols ==
    /\ ~owed
    /\ authority' = note_enrollment(authority)
    /\ UNCHANGED <<domain, owed, stored, wrong, restarts>>

UnlockNext ==
    /\ pair = NoPair /\ UNCHANGED pair
    /\ \/ \E now \in 0..MaxTime, class \in Classes, tag \in Tags \cup {NoTag} :
              submits(now, class, tag)
       \/ destroys_domain \/ saves \/ power_is_lost \/ owner_enrols
       \/ \E enabled \in BOOLEAN, threshold \in 0..MaxCounted :
              owner_configures(enabled, threshold)

UnlockSpec == UnlockInit /\ [][UnlockNext]_unlock_vars

---------------------------------------------------------------------------
Observed(r) == [disposition |-> r.outcome.disposition, release |-> r.outcome.release,
                again |-> r.outcome.again]

(* UnlockIsDeniable: whatever happened before, what an onlooker sees of a   *)
(* submission is the same for the nominal and the duress credential; the   *)
(* authority believes the domain destroyed exactly when it is, or when the *)
(* caller still owes it, also after a power loss; and the lock the         *)
(* iteration rule sets ends: once it does, any credential of the owner is  *)
(* accepted (unlock.cpp static_assert and submit).                         *)
UnlockIsDeniable ==
    /\ \A now \in authority.last .. MaxTime, tag \in Tags :
           Observed(submit(authority, now, "nominal", tag))
             = Observed(submit(authority, now, "duress", tag))
    /\ authority.destroyed <=> domain = "absent" \/ owed
    /\ authority.history /\ authority.attempts = 0 /\ authority.until >= authority.at + IterationLock =>
           \A tag \in Tags :
               submit(authority, authority.until, "nominal", tag).outcome.disposition = "granted"

(* DestructionIsDeliberate: the domain is given up only for the duress      *)
(* credential, or after as many wrong guesses in a row as the owner chose, *)
(* none of them evaluated during a lockout.                                *)
DestructionIsDeliberate ==
    [][owed' /\ ~owed =>
           \/ \E now \in 0..MaxTime, tag \in Tags : submits(now, "duress", tag)
           \/ authority.enabled /\ authority.chosen /\ wrong + 1 >= authority.threshold]_unlock_vars

(* One slip of the finger: nothing, a character changed, added, dropped, or *)
(* two neighbours swapped.                                                 *)
Slips(s) ==
    LET n == Len(s)
    IN {s} \cup {[s EXCEPT ![i] = c] : i \in 1..n, c \in Alphabet}
           \cup {SubSeq(s, 1, i) \o <<c>> \o SubSeq(s, i + 1, n) : i \in 0..n, c \in Alphabet}
           \cup {SubSeq(s, 1, i - 1) \o SubSeq(s, i + 1, n) : i \in 1..n}
           \cup {[s EXCEPT ![i] = s[i + 1], ![i + 1] = s[i]] : i \in 1..(n - 1)}

(* EnrolledAreApart: two slips do not turn one enrolled credential into the *)
(* other, although the distance is computed by the alphabet table          *)
(* (credential_rule.cpp).                                                  *)
EnrolledAreApart ==
    pair # NoPair => Slips(pair[1]) \cap Slips(pair[2]) = {}
=============================================================================
