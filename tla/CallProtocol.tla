---------------------------- MODULE CallProtocol ----------------------------
(***************************************************************************)
(* What endpoint IPC promises a caller, whatever tables implement it: a    *)
(* call is asked, taken up by its server once, answered once by that same  *)
(* server, and the answer is collected once.  A call that will never be    *)
(* answered is withdrawn, together with others of the same server or of    *)
(* the same dying thread, and an answer is only ever lost with the caller  *)
(* it belongs to.                                                          *)
(***************************************************************************)
CONSTANTS
    Thread,
    NoThread    \* not a Thread

VARIABLES
    phase,   \* where each thread's call stands
    peer     \* the server it is addressed to, while it is outstanding

pvars == <<phase, peer>>

ProtocolInit ==
    /\ phase = [t \in Thread |-> "idle"]
    /\ peer = [t \in Thread |-> NoThread]

Outstanding(s) == {c \in Thread : phase[c] \in {"asked", "held"} /\ peer[c] = s}

Ask(c, s) ==
    /\ c # s /\ phase[c] = "idle"
    /\ phase' = [phase EXCEPT ![c] = "asked"]
    /\ peer' = [peer EXCEPT ![c] = s]

Accept(c) ==
    /\ phase[c] = "asked"
    /\ phase' = [phase EXCEPT ![c] = "held"]
    /\ UNCHANGED peer

Answer(c) ==
    /\ phase[c] = "held"
    /\ phase' = [phase EXCEPT ![c] = "answered"]
    /\ peer' = [peer EXCEPT ![c] = NoThread]

Collect(c) ==
    /\ phase[c] = "answered"
    /\ phase' = [phase EXCEPT ![c] = "idle"]
    /\ UNCHANGED peer

Withdraw(C) ==
    /\ phase' = [t \in Thread |-> IF t \in C THEN "idle" ELSE phase[t]]
    /\ peer' = [t \in Thread |-> IF t \in C THEN NoThread ELSE peer[t]]

ProtocolNext ==
    \/ \E c, s \in Thread : Ask(c, s)
    \/ \E c \in Thread : Accept(c) \/ Answer(c) \/ Collect(c)
    \/ \E s \in Thread : \E C \in SUBSET (Outstanding(s) \cup {s}) : Withdraw(C)

ProtocolSpec == ProtocolInit /\ [][ProtocolNext]_pvars

=============================================================================
