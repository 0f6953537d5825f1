---------------------------- MODULE QueueRecovery ---------------------------
(* The session queue over several process lives.  A kill (OOMKill, SIGKILL)    *)
(* takes the memory of SessionQueue and leaves the marker files; at the next   *)
(* boot Replay reads them one file at a time, purges the stale ones and         *)
(* re-enqueues the others.  Nothing orders this before the live messages of    *)
(* the new life, which arrive, wait and are run meanwhile.  Several calls      *)
(* share a key: the live delivery of a message and its replays.                *)
EXTENDS SessionQueue

CONSTANTS
    Staleness,  \* queueStaleness, in ticks
    MaxTime,    \* bound: the clock stops there
    MaxKills,   \* bound: kills in a behaviour
    Corrupt     \* keys whose marker file cannot be read back

ASSUME TimeAssumption == Staleness \in Nat /\ MaxTime \in Nat /\ MaxKills \in Nat
ASSUME CorruptAssumption == Corrupt \subseteq Key

VARIABLES
    phase,      \* "down", "scanning", "replaying" or "serving"
    unread,     \* keys whose marker file the scan has not come to yet
    scanned,      \* EnqueuedAt of the markers the scan has read, Never for the others
    toReplay,   \* fresh markers of the scan, not yet re-injected
    toPurge,    \* stale markers of the scan, not yet removed
    now,        \* wall clock, in ticks
    stamp,      \* EnqueuedAt of each key's marker
    arrived,    \* when a key's message was first delivered, -1 before
    leaked,     \* keys a drain failed to remove the marker of
    expired,    \* keys purged as stale
    readLive,   \* keys whose marker a scan read while this life had them at work
    unmarkedAtKill, \* keys a kill caught in a drain's hands with their marker gone
    kills       \* kills so far

scanVars == <<phase, unread, scanned, toReplay, toPurge>>
clockVars == <<now, stamp, arrived>>
ghostVars == <<leaked, expired, readLive, unmarkedAtKill, kills>>
recVars == <<scanVars, clockVars, ghostVars>>
allVars == <<vars, recVars>>

Never == -1

RecTypeOK ==
    /\ TypeOK
    /\ phase \in {"down", "scanning", "replaying", "serving"}
    /\ unread \subseteq Key
    /\ scanned \in [Key -> {Never} \cup (0..MaxTime)]
    /\ toReplay \subseteq Key /\ toPurge \subseteq Key
    /\ now \in 0..MaxTime
    /\ stamp \in [Key -> 0..MaxTime]
    /\ arrived \in [Key -> {Never} \cup (0..MaxTime)]
    /\ leaked \subseteq Key /\ expired \subseteq Key
    /\ readLive \subseteq Key /\ unmarkedAtKill \subseteq Key
    /\ kills \in 0..MaxKills

NothingFound == [k \in Key |-> Never]

\* An earlier life may have left files that cannot be read back.
RecInit ==
    /\ EmptyQueue
    /\ markers \in SUBSET Corrupt
    /\ phase = "down"
    /\ unread = {} /\ scanned = NothingFound
    /\ toReplay = {} /\ toPurge = {}
    /\ now = 0
    /\ stamp = [k \in Key |-> 0]
    /\ arrived = [k \in Key |-> IF k \in markers THEN 0 ELSE Never]
    /\ leaked = {} /\ expired = {} /\ readLive = {} /\ unmarkedAtKill = {}
    /\ kills = 0

IdleCalls(k) == {c \in Call : KeyOf[c] = k /\ enqPC[c] = "idle"}

\* Enqueue starts for key k: the marker, if it gets written, carries the present
\* time, whether the message is new or replayed.
BeginEnqueue(k) ==
    /\ IdleCalls(k) # {}
    /\ WriteMarker(CHOOSE c \in IdleCalls(k) : TRUE)
    /\ stamp' = IF saved' = saved THEN stamp ELSE [stamp EXCEPT ![k] = now]

\* Live delivery of a new message, at any moment of a life.
Arrive(k) ==
    /\ phase # "down"
    /\ arrived[k] = Never
    /\ BeginEnqueue(k)
    /\ arrived' = [arrived EXCEPT ![k] = now]
    /\ UNCHANGED <<scanVars, now, ghostVars>>

\* Boot: Replay starts, and with it the walk over the workspaces.
Boot ==
    /\ phase = "down"
    /\ phase' = "scanning"
    /\ unread' = Key
    /\ UNCHANGED <<vars, scanned, toReplay, toPurge, clockVars, ghostVars>>

\* This life's calls and drains have a message of key k on its way to an answer.
AtWork(k) ==
    \E c, q \in Call :
        /\ KeyOf[c] = k
        /\ \/ enqPC[c] \in {"marked", "locked"}
           \/ c \in MsgsIn(waiters[q]) \cup MsgsIn(batch[q]) \cup MsgsIn(dropped[q])

\* loadMarkers: unreadable or malformed files are logged and skipped.
Loadable == markers \ Corrupt

\* The scan comes to one key's file.  A file that was not yet listed, or is no
\* longer there, gives nothing.
ReadMarker(k) ==
    /\ phase = "scanning"
    /\ k \in unread
    /\ unread' = unread \ {k}
    /\ scanned' = IF k \in Loadable THEN [scanned EXCEPT ![k] = stamp[k]] ELSE scanned
    /\ readLive' = readLive \cup {j \in {k} \cap Loadable : AtWork(j)}
    /\ UNCHANGED <<vars, phase, toReplay, toPurge, clockVars, leaked, expired,
                   unmarkedAtKill, kills>>

Loaded == {k \in Key : scanned[k] # Never}

\* markerStale, of a marker the scan has read.
Stale(k) == now - scanned[k] > Staleness

\* Mutant: one unreadable file makes the whole scan fail.
Judge_BadFileBlocks ==
    LET loaded == IF markers \cap Corrupt = {} THEN Loaded ELSE {}
    IN  /\ phase = "scanning" /\ unread = {}
        /\ phase' = "replaying"
        /\ scanned' = NothingFound
        /\ toPurge' = {k \in loaded : Stale(k)}
        /\ toReplay' = {k \in loaded : ~Stale(k)}
        /\ UNCHANGED <<vars, unread, clockVars, ghostVars>>

\* All files read: the clock is read once for all of them.
Judge ==
    /\ phase = "scanning" /\ unread = {}
    /\ phase' = "replaying"
    /\ scanned' = NothingFound
    /\ toPurge' = {k \in Loaded : Stale(k)}
    /\ toReplay' = {k \in Loaded : ~Stale(k)}
    /\ UNCHANGED <<vars, unread, clockVars, ghostVars>>

\* Mutant: a fresh marker is consumed when it is replayed.
Reinject_Consumes(k) ==
    /\ phase = "replaying"
    /\ k \in toReplay
    /\ markers' = markers \ {k}
    /\ \E c \in IdleCalls(k) : enqPC' = [enqPC EXCEPT ![c] = "marked"]
    /\ toReplay' = toReplay \ {k}
    /\ UNCHANGED <<mapVars, sqVars, sqOf, drainVars, saved, rxVars, outVars, phase,
                   unread, scanned, toPurge, clockVars, ghostVars>>

\* reinject: the agent routes the message to Enqueue again; its marker stays.
Reinject(k) ==
    /\ phase = "replaying"
    /\ k \in toReplay
    /\ BeginEnqueue(k)
    /\ toReplay' = toReplay \ {k}
    /\ UNCHANGED <<phase, unread, scanned, toPurge, now, arrived, ghostVars>>

\* A stale marker is removed without replay; a failed remove is logged.
Purge(k) ==
    /\ phase = "replaying"
    /\ k \in toPurge
    /\ toPurge' = toPurge \ {k}
    /\ RemoveMarker(k)
    /\ expired' = expired \cup {k}
    /\ UNCHANGED <<mapVars, sqVars, enqVars, drainVars, saved, rxVars, outVars, phase,
                   unread, scanned, toReplay, clockVars, leaked, readLive,
                   unmarkedAtKill, kills>>

EndReplay ==
    /\ phase = "replaying"
    /\ toReplay = {} /\ toPurge = {}
    /\ phase' = "serving"
    /\ UNCHANGED <<vars, unread, scanned, toReplay, toPurge, clockVars, ghostVars>>

Answered(k) == \E c \in ran \cup stopped : KeyOf[c] = k

\* The keys of the messages a drain has taken off its waiting list.
InHands ==
    {KeyOf[m] : m \in UNION {MsgsIn(batch[c]) \cup MsgsIn(dropped[c]) :
                             c \in {d \in Call : drainPC[d] # "partition"}}}

\* OOMKill or SIGKILL at any moment: memory is gone, the disk stays.
Kill ==
    /\ phase # "down"
    /\ kills < MaxKills
    /\ kills' = kills + 1
    /\ phase' = "down"
    /\ unread' = {} /\ scanned' = NothingFound
    /\ toReplay' = {} /\ toPurge' = {}
    /\ unmarkedAtKill' = unmarkedAtKill \cup {k \in InHands \ markers : ~Answered(k)}
    /\ qmu' = None
    /\ sessions' = [s \in Session |-> None]
    /\ queuedByMsg' = [k \in Key |-> None]
    /\ sqmu' = [c \in Call |-> None]
    /\ running' = [c \in Call |-> FALSE]
    /\ waiters' = [c \in Call |-> << >>]
    /\ enqPC' = [c \in Call |-> IF enqPC[c] = "idle" THEN "idle" ELSE "done"]
    /\ sqOf' = [c \in Call |-> None]
    /\ drainPC' = [c \in Call |-> IF drainPC[c] = "none" THEN "none" ELSE "gone"]
    /\ batch' = [c \in Call |-> << >>]
    /\ dropped' = [c \in Call |-> << >>]
    /\ todo' = [c \in Call |-> << >>]
    /\ inflight' = 0
    /\ rxPC' = [r \in Reaction |-> IF rxPC[r] = "found" THEN "false" ELSE rxPC[r]]
    /\ rxMsg' = [r \in Reaction |-> None]
    /\ UNCHANGED <<diskVars, cancelled, outVars, clockVars, leaked, expired, readLive>>

Tick ==
    /\ now < MaxTime
    /\ now' = now + 1
    /\ UNCHANGED <<vars, scanVars, stamp, arrived, ghostVars>>

\* The steps of the live process, and the record of a failed removal.
FailedRemoval(c) ==
    IF drainPC[c] = "unmark" /\ todo[c] # << >>
    THEN {KeyOf[Head(todo[c])]} \cap markers'
    ELSE {}

EnqueueInLife(c) == EnqueueProgress(c) /\ UNCHANGED recVars
DrainInLife(c) ==
    /\ DrainStep(c)
    /\ leaked' = leaked \cup FailedRemoval(c)
    /\ UNCHANGED <<scanVars, clockVars, expired, readLive, unmarkedAtKill, kills>>
CancelInLife(r) == phase # "down" /\ CancelStep(r) /\ UNCHANGED recVars

BootStep ==
    \/ Boot \/ Judge \/ EndReplay
    \/ \E k \in Key : ReadMarker(k) \/ Reinject(k) \/ Purge(k)

RecFinished ==
    /\ Quiet
    /\ phase = "serving"
    /\ now = MaxTime
    /\ UNCHANGED allVars

RecNext ==
    \/ BootStep
    \/ \E k \in Key : Arrive(k)
    \/ \E c \in Call : EnqueueInLife(c) \/ DrainInLife(c)
    \/ \E r \in Reaction : CancelInLife(r)
    \/ Kill
    \/ Tick
    \/ RecFinished

RecSpec == RecInit /\ [][RecNext]_allVars

\* The pod is restarted and its goroutines run.
RecFairness ==
    /\ WF_allVars(BootStep)
    /\ \A c \in Call : WF_allVars(EnqueueInLife(c)) /\ WF_allVars(DrainInLife(c))

RecFairSpec == RecSpec /\ RecFairness

(* --------------------------- properties ---------------------------------- *)

\* The state is well typed, and a message whose marker was once written is never
\* lost silently: at every moment it is on disk, in a drain's hands or answered,
\* unless it was purged after more than the cutoff since its arrival, or a kill came
\* while a drain held it, after the removal of its marker and before its answer
\* (sessionqueue.go:33-41, 172-177, 295-299, 506-509).
NoSilentLoss ==
    /\ RecTypeOK
    /\ \A k \in Key : (\E c \in saved : KeyOf[c] = k) =>
        \/ k \in markers \cup InHands \cup unmarkedAtKill
        \/ k \in expired /\ now - arrived[k] > Staleness
        \/ Answered(k)

RunsOf(k) == {c \in ran : KeyOf[c] = k}

\* A message is run a second time only if the drain failed to remove its marker,
\* or a boot scan came upon the marker while the same life had the message at work
\* (sessionqueue.go:295-305, 453-504, 529-554).
RunTwiceHasCause ==
    \A k \in Key \ (leaked \cup readLive) : \A c, d \in RunsOf(k) : c = d

\* One bad file must not block the others: a message whose readable marker
\* survives a kill is answered in the end, unless a scan finds it stale or a later
\* kill catches it in a drain's hands with its marker gone (sessionqueue.go:449-452,
\* 525-528).
SurvivorIsAnswered ==
    \A k \in Key \ Corrupt :
        phase = "down" /\ k \in markers
            ~> (Answered(k) \/ k \in unmarkedAtKill \cup expired)

=============================================================================
