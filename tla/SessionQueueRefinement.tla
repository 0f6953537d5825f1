----------------------- MODULE SessionQueueRefinement -----------------------
(* The session queue implements SerialSession.  The waiting list of a session  *)
(* is that of the sessionQueue its map entry names; its batch in work is that  *)
(* of the goroutine between the take and the end of the Runner; a cancelled    *)
(* waiter is stopped from the take on, though its notice is posted later.      *)
EXTENDS SessionQueue

HoldsBatch(c) == drainPC[c] \in {"forget", "unmark", "notify", "run", "running"}

Submitted == {c \in Call : enqPC[c] \in {"ack", "spawn", "done"}}

PendingOf(s) == IF sessions[s] = None THEN << >> ELSE waiters[sessions[s]]

ActiveOf(s) ==
    IF \E c \in Call : HoldsBatch(c) /\ Sid(c) = s
    THEN batch[CHOOSE c \in Call : HoldsBatch(c) /\ Sid(c) = s]
    ELSE << >>

TakenOut == UNION {MsgsIn(dropped[c]) : c \in {d \in Call : drainPC[d] # "partition"}}

Serial == INSTANCE SerialSession WITH
    Msg       <- Call,
    SidOf     <- [c \in Call |-> Sid(c)],
    submitted <- Submitted,
    requested <- {c \in Call : cancelled[c]},
    pending   <- [s \in Session |-> PendingOf(s)],
    active    <- [s \in Session |-> ActiveOf(s)],
    ran       <- ran,
    stopped   <- stopped \cup TakenOut

\* Every behaviour of the goroutines, locks and maps is, seen from outside, a
\* behaviour of one serial worker per session (the two promises of
\* sessionqueue.go:15-25): batches take all waiters in arrival order, never
\* overlap on a session, and give each message one outcome.
SerialSpec == Serial!Spec

=============================================================================
