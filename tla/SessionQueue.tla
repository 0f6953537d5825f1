---------------------------- MODULE SessionQueue ----------------------------
(* One process life of sessionqueue.Queue: Enqueue, the drain goroutines and   *)
(* MarkCancelled, split at every lock hand-over and at every effect that       *)
(* another goroutine, or the disk, can see.                                    *)
(*                                                                             *)
(* A call of Enqueue is named by an element of Call.  The Msg the call         *)
(* allocates, the sessionQueue it allocates when it finds none, and the drain  *)
(* goroutine it starts are named by that same element: each is created at most *)
(* once per call, so the name is the pointer.                                  *)
EXTENDS Integers, Sequences, FiniteSets

CONSTANTS
    Call,       \* Enqueue calls, each with its Msg
    Key,        \* (channel, ts) identities
    Session,    \* session ids
    KeyOf,      \* the key of a call's message; two calls may share one (redelivery)
    SessionOf,  \* the session a key derives
    Reaction,   \* MarkCancelled calls
    None        \* nil

ASSUME NoneAssumption == None \notin Call
ASSUME KeyOfAssumption == KeyOf \in [Call -> Key]
ASSUME SessionOfAssumption == SessionOf \in [Key -> Session]

VARIABLES
    qmu,          \* holder of Queue.mu while it is held across a step
    sessions,     \* Queue.sessions
    queuedByMsg,  \* Queue.queuedByMsg
    sqmu,         \* holder of each sessionQueue.mu while held across a step
    running,      \* sessionQueue.running
    waiters,      \* sessionQueue.waiters
    enqPC,        \* where each Enqueue call is
    sqOf,         \* the sessionQueue an Enqueue call, and then its drain, works on
    drainPC,      \* where each drain goroutine is
    batch,        \* drain's local batch
    dropped,      \* drain's local cancelled
    todo,         \* messages of the drain whose marker is still to be removed
    inflight,     \* the WaitGroup's counter
    markers,      \* keys with a marker file
    saved,        \* calls whose writeMarker succeeded
    cancelled,    \* Msg.cancelled
    rxPC,         \* where each MarkCancelled call is
    rxMsg,        \* the Msg a MarkCancelled call found
    ran,          \* messages handed to the Runner
    stopped       \* messages handed to onCancel

mapVars   == <<qmu, sessions, queuedByMsg>>
sqVars    == <<sqmu, running, waiters>>
enqVars   == <<enqPC, sqOf>>
drainVars == <<drainPC, batch, dropped, todo, inflight>>
diskVars  == <<markers, saved>>
rxVars    == <<cancelled, rxPC, rxMsg>>
outVars   == <<ran, stopped>>
vars == <<mapVars, sqVars, enqVars, drainVars, diskVars, rxVars, outVars>>

EnqStates   == {"idle", "marked", "locked", "ack", "spawn", "done"}
ActiveStates == {"loop", "partition", "forget", "unmark", "notify", "run",
                 "running", "grace"}
LeavingStates == {"gc", "gcLocked", "exit"}
DrainStates == ActiveStates \cup LeavingStates \cup {"none", "gone"}

Sid(c) == SessionOf[KeyOf[c]]
MsgsIn(seq) == {seq[i] : i \in 1..Len(seq)}

TypeOK ==
    /\ qmu \in Call \cup {None}
    /\ sessions \in [Session -> Call \cup {None}]
    /\ queuedByMsg \in [Key -> Call \cup {None}]
    /\ sqmu \in [Call -> Call \cup {None}]
    /\ running \in [Call -> BOOLEAN]
    /\ waiters \in [Call -> Seq(Call)]
    /\ enqPC \in [Call -> EnqStates]
    /\ sqOf \in [Call -> Call \cup {None}]
    /\ drainPC \in [Call -> DrainStates]
    /\ batch \in [Call -> Seq(Call)]
    /\ dropped \in [Call -> Seq(Call)]
    /\ todo \in [Call -> Seq(Call)]
    /\ inflight \in Nat
    /\ markers \subseteq Key
    /\ saved \subseteq Call
    /\ cancelled \in [Call -> BOOLEAN]
    /\ rxPC \in [Reaction -> {"idle", "found", "true", "false"}]
    /\ rxMsg \in [Reaction -> Call \cup {None}]
    /\ ran \subseteq Call
    /\ stopped \subseteq Call

\* New: both maps empty, no call and no goroutine yet.
EmptyQueue ==
    /\ qmu = None
    /\ sessions = [s \in Session |-> None]
    /\ queuedByMsg = [k \in Key |-> None]
    /\ sqmu = [c \in Call |-> None]
    /\ running = [c \in Call |-> FALSE]
    /\ waiters = [c \in Call |-> << >>]
    /\ enqPC = [c \in Call |-> "idle"]
    /\ sqOf = [c \in Call |-> None]
    /\ drainPC = [c \in Call |-> "none"]
    /\ batch = [c \in Call |-> << >>]
    /\ dropped = [c \in Call |-> << >>]
    /\ todo = [c \in Call |-> << >>]
    /\ inflight = 0
    /\ saved = {}
    /\ cancelled = [c \in Call |-> FALSE]
    /\ rxPC = [r \in Reaction |-> "idle"]
    /\ rxMsg = [r \in Reaction |-> None]
    /\ ran = {}
    /\ stopped = {}

\* Nothing on disk.
Init == EmptyQueue /\ markers = {}

(* --------------------------- Enqueue ------------------------------------- *)

\* The atomic write of the marker file, which may fail.
PersistMarker(c) ==
    \/ /\ markers' = markers \cup {KeyOf[c]}
       /\ saved' = saved \cup {c}
    \/ UNCHANGED diskVars

\* The removal of a marker file: a missing file is no error, a failed removal
\* leaves the file.
RemoveMarker(k) ==
    \/ markers' = markers \ {k}
    \/ UNCHANGED markers

\* The marker is written first; a failed write is logged and the call goes on.
WriteMarker(c) ==
    /\ enqPC[c] = "idle"
    /\ enqPC' = [enqPC EXCEPT ![c] = "marked"]
    /\ PersistMarker(c)
    /\ UNCHANGED <<mapVars, sqVars, sqOf, drainVars, rxVars, outVars>>

\* Mutant: q.mu is released before the append, the lock order of the fixed bug.
LookUpSession_Unlocks(c) ==
    LET sq == IF sessions[Sid(c)] = None THEN c ELSE sessions[Sid(c)]
    IN  /\ enqPC[c] = "marked"
        /\ qmu = None
        /\ sessions' = [sessions EXCEPT ![Sid(c)] = sq]
        /\ queuedByMsg' = [queuedByMsg EXCEPT ![KeyOf[c]] = c]
        /\ sqOf' = [sqOf EXCEPT ![c] = sq]
        /\ enqPC' = [enqPC EXCEPT ![c] = "locked"]
        /\ UNCHANGED <<qmu, sqVars, drainVars, diskVars, rxVars, outVars>>

\* Take q.mu, find or create the session's queue, index the message.
LookUpSession(c) ==
    LET found == sessions[Sid(c)]
        sq == IF found = None THEN c ELSE found
    IN  /\ enqPC[c] = "marked"
        /\ qmu = None
        /\ qmu' = c
        /\ sessions' = [sessions EXCEPT ![Sid(c)] = sq]
        /\ queuedByMsg' = [queuedByMsg EXCEPT ![KeyOf[c]] = c]
        /\ sqOf' = [sqOf EXCEPT ![c] = sq]
        /\ enqPC' = [enqPC EXCEPT ![c] = "locked"]
        /\ UNCHANGED <<sqVars, drainVars, diskVars, rxVars, outVars>>

\* Still under q.mu: append under sq.mu, claim the queue if nobody runs it,
\* release both locks.
AppendWaiter(c) ==
    LET sq == sqOf[c]
    IN  /\ enqPC[c] = "locked"
        /\ sqmu[sq] = None
        /\ waiters' = [waiters EXCEPT ![sq] = Append(@, c)]
        /\ running' = [running EXCEPT ![sq] = TRUE]
        /\ enqPC' = [enqPC EXCEPT ![c] = IF running[sq] THEN "ack" ELSE "spawn"]
        /\ qmu' = None
        /\ UNCHANGED <<sessions, queuedByMsg, sqmu, sqOf, drainVars, diskVars,
                       rxVars, outVars>>

\* A predecessor runs: onAck, and the call returns.
Ack(c) ==
    /\ enqPC[c] = "ack"
    /\ enqPC' = [enqPC EXCEPT ![c] = "done"]
    /\ UNCHANGED <<mapVars, sqVars, sqOf, drainVars, diskVars, rxVars, outVars>>

\* Mutant: the goroutine is not counted.
SpawnDrain_NoAdd(c) ==
    /\ enqPC[c] = "spawn"
    /\ enqPC' = [enqPC EXCEPT ![c] = "done"]
    /\ drainPC' = [drainPC EXCEPT ![c] = "loop"]
    /\ UNCHANGED <<mapVars, sqVars, sqOf, batch, dropped, todo, inflight, diskVars,
                   rxVars, outVars>>

\* Outside the locks: inflight.Add(1), go q.drain(...).
SpawnDrain(c) ==
    /\ enqPC[c] = "spawn"
    /\ enqPC' = [enqPC EXCEPT ![c] = "done"]
    /\ inflight' = inflight + 1
    /\ drainPC' = [drainPC EXCEPT ![c] = "loop"]
    /\ UNCHANGED <<mapVars, sqVars, sqOf, batch, dropped, todo, diskVars, rxVars,
                   outVars>>

(* ---------------------------- drain -------------------------------------- *)

\* Mutant: the running flag stays up.
LeaveEmpty_KeepsFlag(c) ==
    /\ drainPC[c] = "loop"
    /\ sqmu[sqOf[c]] = None
    /\ waiters[sqOf[c]] = << >>
    /\ drainPC' = [drainPC EXCEPT ![c] = "gc"]
    /\ UNCHANGED <<mapVars, sqVars, enqVars, batch, dropped, todo, inflight,
                   diskVars, rxVars, outVars>>

\* No waiter left: give the queue up under sq.mu, then go and collect it.
LeaveEmpty(c) ==
    LET sq == sqOf[c]
    IN  /\ drainPC[c] = "loop"
        /\ sqmu[sq] = None
        /\ waiters[sq] = << >>
        /\ running' = [running EXCEPT ![sq] = FALSE]
        /\ drainPC' = [drainPC EXCEPT ![c] = "gc"]
        /\ UNCHANGED <<mapVars, sqmu, waiters, enqVars, batch, dropped, todo,
                       inflight, diskVars, rxVars, outVars>>

\* Mutant: the candidate is not compared with the map's current queue.
LockForGC_AnyQueue(c) ==
    /\ drainPC[c] = "gc"
    /\ qmu = None
    /\ qmu' = c
    /\ drainPC' = [drainPC EXCEPT ![c] = "gcLocked"]
    /\ UNCHANGED <<sessions, queuedByMsg, sqVars, enqVars, batch, dropped, todo,
                   inflight, diskVars, rxVars, outVars>>

\* Take q.mu; only the map's current queue is a candidate for deletion.
LockForGC(c) ==
    /\ drainPC[c] = "gc"
    /\ qmu = None
    /\ IF sessions[Sid(c)] = sqOf[c]
       THEN /\ qmu' = c
            /\ drainPC' = [drainPC EXCEPT ![c] = "gcLocked"]
       ELSE /\ drainPC' = [drainPC EXCEPT ![c] = "exit"]
            /\ UNCHANGED qmu
    /\ UNCHANGED <<sessions, queuedByMsg, sqVars, enqVars, batch, dropped, todo,
                   inflight, diskVars, rxVars, outVars>>

\* Under q.mu then sq.mu: recheck, delete the entry if the queue is idle.
Collect(c) ==
    LET sq == sqOf[c]
    IN  /\ drainPC[c] = "gcLocked"
        /\ sqmu[sq] = None
        /\ IF waiters[sq] = << >> /\ ~running[sq]
           THEN sessions' = [sessions EXCEPT ![Sid(c)] = None]
           ELSE UNCHANGED sessions
        /\ qmu' = None
        /\ drainPC' = [drainPC EXCEPT ![c] = "exit"]
        /\ UNCHANGED <<queuedByMsg, sqVars, enqVars, batch, dropped, todo,
                       inflight, diskVars, rxVars, outVars>>

\* The deferred inflight.Done().
DrainDone(c) ==
    /\ drainPC[c] = "exit"
    /\ drainPC' = [drainPC EXCEPT ![c] = "gone"]
    /\ inflight' = inflight - 1
    /\ UNCHANGED <<mapVars, sqVars, enqVars, batch, dropped, todo, diskVars,
                   rxVars, outVars>>

\* Waiters: hold sq.mu over the partition loop.
BeginTake(c) ==
    LET sq == sqOf[c]
    IN  /\ drainPC[c] = "loop"
        /\ sqmu[sq] = None
        /\ waiters[sq] # << >>
        /\ sqmu' = [sqmu EXCEPT ![sq] = c]
        /\ drainPC' = [drainPC EXCEPT ![c] = "partition"]
        /\ UNCHANGED <<mapVars, running, waiters, enqVars, batch, dropped, todo,
                       inflight, diskVars, rxVars, outVars>>

Visited(c) == Len(batch[c]) + Len(dropped[c])

\* Mutant: the flag is not looked at.
PartitionOne_IgnoresFlag(c) ==
    /\ drainPC[c] = "partition"
    /\ Visited(c) < Len(waiters[sqOf[c]])
    /\ batch' = [batch EXCEPT ![c] = Append(@, waiters[sqOf[c]][Visited(c) + 1])]
    /\ UNCHANGED <<mapVars, sqVars, enqVars, drainPC, dropped, todo, inflight,
                   diskVars, rxVars, outVars>>

\* One turn of the loop: an atomic load of the flag, which MarkCancelled sets
\* without holding any lock.
PartitionOne(c) ==
    LET sq == sqOf[c]
        m == waiters[sq][Visited(c) + 1]
    IN  /\ drainPC[c] = "partition"
        /\ Visited(c) < Len(waiters[sq])
        /\ IF cancelled[m]
           THEN /\ dropped' = [dropped EXCEPT ![c] = Append(@, m)]
                /\ UNCHANGED batch
           ELSE /\ batch' = [batch EXCEPT ![c] = Append(@, m)]
                /\ UNCHANGED dropped
        /\ UNCHANGED <<mapVars, sqVars, enqVars, drainPC, todo, inflight,
                       diskVars, rxVars, outVars>>

\* Mutant: the waiting list is not emptied.
EndTake_KeepsWaiters(c) ==
    /\ drainPC[c] = "partition"
    /\ Visited(c) = Len(waiters[sqOf[c]])
    /\ sqmu' = [sqmu EXCEPT ![sqOf[c]] = None]
    /\ drainPC' = [drainPC EXCEPT ![c] = "forget"]
    /\ UNCHANGED <<mapVars, running, waiters, enqVars, batch, dropped, todo,
                   inflight, diskVars, rxVars, outVars>>

\* sq.waiters = nil, and sq.mu is released.
EndTake(c) ==
    LET sq == sqOf[c]
    IN  /\ drainPC[c] = "partition"
        /\ Visited(c) = Len(waiters[sq])
        /\ waiters' = [waiters EXCEPT ![sq] = << >>]
        /\ sqmu' = [sqmu EXCEPT ![sq] = None]
        /\ drainPC' = [drainPC EXCEPT ![c] = "forget"]
        /\ UNCHANGED <<mapVars, running, enqVars, batch, dropped, todo, inflight,
                       diskVars, rxVars, outVars>>

\* Mutant: the entries of cancelled messages are left in the index.
Forget_BatchOnly(c) ==
    LET taken == {KeyOf[m] : m \in MsgsIn(batch[c])}
    IN  /\ drainPC[c] = "forget"
        /\ qmu = None
        /\ queuedByMsg' = [k \in Key |-> IF k \in taken THEN None ELSE queuedByMsg[k]]
        /\ todo' = [todo EXCEPT ![c] = batch[c] \o dropped[c]]
        /\ drainPC' = [drainPC EXCEPT ![c] = "unmark"]
        /\ UNCHANGED <<qmu, sessions, sqVars, enqVars, batch, dropped, inflight,
                       diskVars, rxVars, outVars>>

\* Mutant: only the cancelled messages' markers are removed.
Forget_KeepsMarkers(c) ==
    LET taken == {KeyOf[m] : m \in MsgsIn(batch[c]) \cup MsgsIn(dropped[c])}
    IN  /\ drainPC[c] = "forget"
        /\ qmu = None
        /\ queuedByMsg' = [k \in Key |-> IF k \in taken THEN None ELSE queuedByMsg[k]]
        /\ todo' = [todo EXCEPT ![c] = dropped[c]]
        /\ drainPC' = [drainPC EXCEPT ![c] = "unmark"]
        /\ UNCHANGED <<qmu, sessions, sqVars, enqVars, batch, dropped, inflight,
                       diskVars, rxVars, outVars>>

\* Under q.mu: delete the index entry of every key taken, whoever owns it now.
Forget(c) ==
    LET taken == {KeyOf[m] : m \in MsgsIn(batch[c]) \cup MsgsIn(dropped[c])}
    IN  /\ drainPC[c] = "forget"
        /\ qmu = None
        /\ queuedByMsg' = [k \in Key |-> IF k \in taken THEN None ELSE queuedByMsg[k]]
        /\ todo' = [todo EXCEPT ![c] = batch[c] \o dropped[c]]
        /\ drainPC' = [drainPC EXCEPT ![c] = "unmark"]
        /\ UNCHANGED <<qmu, sessions, sqVars, enqVars, batch, dropped, inflight,
                       diskVars, rxVars, outVars>>

\* removeMarker for the next message, batch first and then cancelled; a failure
\* is logged.
Unmark(c) ==
    /\ drainPC[c] = "unmark"
    /\ todo[c] # << >>
    /\ RemoveMarker(KeyOf[Head(todo[c])])
    /\ todo' = [todo EXCEPT ![c] = Tail(@)]
    /\ UNCHANGED <<mapVars, sqVars, enqVars, drainPC, batch, dropped, inflight,
                   saved, rxVars, outVars>>

UnmarkEnd(c) ==
    /\ drainPC[c] = "unmark"
    /\ todo[c] = << >>
    /\ drainPC' = [drainPC EXCEPT ![c] = "notify"]
    /\ UNCHANGED <<mapVars, sqVars, enqVars, batch, dropped, todo, inflight,
                   diskVars, rxVars, outVars>>

\* onCancel for every cancelled waiter (a panic in it is recovered); with an
\* empty batch the loop starts over.
NotifyCancelled(c) ==
    /\ drainPC[c] = "notify"
    /\ stopped' = stopped \cup MsgsIn(dropped[c])
    /\ dropped' = [dropped EXCEPT ![c] = << >>]
    /\ drainPC' = [drainPC EXCEPT ![c] = IF batch[c] = << >> THEN "loop" ELSE "run"]
    /\ UNCHANGED <<mapVars, sqVars, enqVars, batch, todo, inflight, diskVars,
                   rxVars, ran>>

\* safeRun calls the Runner on the batch.
StartRun(c) ==
    /\ drainPC[c] = "run"
    /\ ran' = ran \cup MsgsIn(batch[c])
    /\ drainPC' = [drainPC EXCEPT ![c] = "running"]
    /\ UNCHANGED <<mapVars, sqVars, enqVars, batch, dropped, todo, inflight,
                   diskVars, rxVars, stopped>>

\* The Runner returns or panics; safeRun recovers the panic, so both go on.
EndRun(c) ==
    /\ drainPC[c] = "running"
    /\ drainPC' = [drainPC EXCEPT ![c] = "grace"]
    /\ batch' = [batch EXCEPT ![c] = << >>]
    /\ UNCHANGED <<mapVars, sqVars, enqVars, dropped, todo, inflight, diskVars,
                   rxVars, outVars>>

\* time.Sleep(q.grace), then the next turn of the loop.
EndGrace(c) ==
    /\ drainPC[c] = "grace"
    /\ drainPC' = [drainPC EXCEPT ![c] = "loop"]
    /\ UNCHANGED <<mapVars, sqVars, enqVars, batch, dropped, todo, inflight,
                   diskVars, rxVars, outVars>>

(* ------------------------- MarkCancelled --------------------------------- *)

\* Look the message up under q.mu.
FindQueued(r) ==
    /\ rxPC[r] = "idle"
    /\ qmu = None
    /\ \E k \in Key :
         IF queuedByMsg[k] = None
         THEN /\ rxPC' = [rxPC EXCEPT ![r] = "false"]
              /\ UNCHANGED rxMsg
         ELSE /\ rxPC' = [rxPC EXCEPT ![r] = "found"]
              /\ rxMsg' = [rxMsg EXCEPT ![r] = queuedByMsg[k]]
    /\ UNCHANGED <<mapVars, sqVars, enqVars, drainVars, diskVars, cancelled, outVars>>

\* After the unlock: CompareAndSwap(false, true), whose outcome is returned.
SetCancelled(r) ==
    /\ rxPC[r] = "found"
    /\ cancelled' = [cancelled EXCEPT ![rxMsg[r]] = TRUE]
    /\ rxPC' = [rxPC EXCEPT ![r] = IF cancelled[rxMsg[r]] THEN "false" ELSE "true"]
    /\ rxMsg' = [rxMsg EXCEPT ![r] = None]
    /\ UNCHANGED <<mapVars, sqVars, enqVars, drainVars, diskVars, outVars>>

(* ------------------------ the specification ------------------------------ *)

EnqueueProgress(c) ==
    LookUpSession(c) \/ AppendWaiter(c) \/ Ack(c) \/ SpawnDrain(c)

TakeStep(c) == BeginTake(c) \/ PartitionOne(c) \/ EndTake(c)
BatchStep(c) ==
    \/ Forget(c) \/ Unmark(c) \/ UnmarkEnd(c) \/ NotifyCancelled(c)
    \/ StartRun(c) \/ EndRun(c) \/ EndGrace(c)
LeaveStep(c) == LeaveEmpty(c) \/ LockForGC(c) \/ Collect(c) \/ DrainDone(c)
DrainStep(c) == TakeStep(c) \/ BatchStep(c) \/ LeaveStep(c)

CancelStep(r) == FindQueued(r) \/ SetCancelled(r)

\* No call in progress and no goroutine alive.
Quiet ==
    /\ \A c \in Call : enqPC[c] \in {"idle", "done"}
    /\ inflight = 0

\* Every call of the instance is over: the model has nothing left to do.
Finished ==
    /\ Quiet
    /\ \A c \in Call : enqPC[c] = "done"
    /\ \A r \in Reaction : rxPC[r] \in {"true", "false"}
    /\ UNCHANGED vars

Next ==
    \/ \E c \in Call : WriteMarker(c) \/ EnqueueProgress(c) \/ DrainStep(c)
    \/ \E r \in Reaction : CancelStep(r)
    \/ Finished

Spec == Init /\ [][Next]_vars

\* A started Enqueue and a started goroutine keep running, and the Runner
\* returns; arrivals and reactions are the outside world's.
Fairness ==
    /\ \A c \in Call : WF_vars(EnqueueProgress(c)) /\ WF_vars(DrainStep(c))
    /\ \A r \in Reaction : WF_vars(SetCancelled(r))

FairSpec == Spec /\ Fairness

(* --------------------------- properties ---------------------------------- *)

\* The goroutine, started or about to be, that owns a session's queue.
Serving(c) == enqPC[c] = "spawn" \/ drainPC[c] \in ActiveStates

\* At most one spawn per session: two goroutines that may hand a batch to the
\* Runner never exist for the same session id, whichever sessionQueue object
\* each of them holds (sessionqueue.go:17-19, the duplicate-spawn race of
\* 203-213).
OneDrainPerSession ==
    \A c, d \in Call :
        Serving(c) /\ Serving(d) /\ Sid(c) = Sid(d) => c = d

\* No message is stranded: a queue with waiters is the one its session's map
\* entry names and has a goroutine, or a call about to start one, working on it.
NoStrandedWaiter ==
    \A q \in Call : waiters[q] # << >> =>
        /\ sessions[Sid(q)] = q
        /\ \E c \in Call : Serving(c) /\ sqOf[c] = q

\* Drain-on-SIGTERM accounts for queued work: once no Enqueue is in progress and
\* the WaitGroup is at zero, no waiter is left, every message has had its
\* outcome, and neither map has leaked an entry (sessionqueue.go:152-153,
\* 255-266).
QuietIsClean ==
    Quiet =>
        /\ \A q \in Call : waiters[q] = << >> /\ ~running[q]
        /\ \A c \in Call : enqPC[c] = "done" => c \in ran \cup stopped
        /\ \A s \in Session : sessions[s] = None
        /\ \A k \in Key : queuedByMsg[k] = None

\* Every message accepted by Enqueue is eventually run or answered with the stop
\* notice: nobody waits for ever behind a predecessor.
EveryMessageAnswered ==
    \A c \in Call : enqPC[c] = "marked" ~> c \in ran \cup stopped

\* A message whose flag is set while it waits and no drain is partitioning its
\* queue gets the stop notice and has not been run (sessionqueue.go:369-374).
CancelledWaiterIsStopped ==
    \A c, q \in Call :
        c \in MsgsIn(waiters[q]) /\ cancelled[c] /\ sqmu[q] = None
            ~> (c \in stopped /\ c \notin ran)

\* What MarkCancelled's comment promises: a true result means the message is
\* not folded into a batch (sessionqueue.go:369-374).
CancelKeepsMessageOut == \A c \in Call : cancelled[c] => c \notin ran

(* ----------------- the inductive invariant of the proofs ------------------ *)

\* Before its lookup, nothing refers to the sessionQueue a call may create.
Untouched(c) ==
    /\ drainPC[c] = "none"
    /\ ~running[c]
    /\ waiters[c] = << >>
    /\ \A d \in Call : sqOf[d] # c
    /\ \A s \in Session : sessions[s] # c

\* How far an Enqueue call has come bounds what it, and its drain, refer to.
PhaseInv ==
    \A c \in Call :
        /\ enqPC[c] \in {"idle", "marked"} => Untouched(c)
        /\ enqPC[c] \notin {"idle", "marked"} => sqOf[c] \in Call
        /\ drainPC[c] # "none" => enqPC[c] = "done"

\* A sessionQueue belongs to one session.
SameSession ==
    /\ \A s \in Session : sessions[s] \in Call => Sid(sessions[s]) = s
    /\ \A c \in Call : sqOf[c] \in Call => Sid(sqOf[c]) = Sid(c)

\* Whoever is between two steps under q.mu holds it, and the map entry it read
\* is still there.
MapLocked ==
    \A c \in Call :
        enqPC[c] = "locked" \/ drainPC[c] = "gcLocked" =>
            /\ qmu = c
            /\ sessions[Sid(c)] = sqOf[c]

\* A goroutine that serves a queue owns its running flag and serves the queue
\* the map names; no two serve one queue.
ServerOwns ==
    /\ \A c \in Call : Serving(c) =>
          running[sqOf[c]] /\ sessions[Sid(c)] = sqOf[c]
    /\ \A c, d \in Call : Serving(c) /\ Serving(d) /\ sqOf[c] = sqOf[d] => c = d

\* A queue with waiters is flagged, and a flagged queue is served.
WaitersServed ==
    \A q \in Call :
        /\ waiters[q] # << >> => running[q]
        /\ running[q] => \E c \in Call : Serving(c) /\ sqOf[c] = q

\* The WaitGroup counts the goroutines alive.
Alive == {c \in Call : drainPC[c] \notin {"none", "gone"}}
InflightCounts == IsFiniteSet(Alive) /\ inflight = Cardinality(Alive)

\* Who works on a session's queue, and under which lock: the strengthening that
\* makes OneDrainPerSession and NoStrandedWaiter inductive.
QueueInv ==
    /\ PhaseInv
    /\ SameSession
    /\ MapLocked
    /\ ServerOwns
    /\ WaitersServed
    /\ InflightCounts

=============================================================================
