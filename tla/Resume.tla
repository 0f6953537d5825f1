-------------------------------- MODULE Resume ------------------------------
(* Turns that a restart interrupts (resume), and the Claude sessions they run  *)
(* in (session).  A graceful stop leaves a marker per turn in work; the next   *)
(* boot replays the markers straight into the handler, beside the session      *)
(* queue, which keeps running one turn per session.  A deploy between the two  *)
(* may have changed the persona and the layout of the workspaces.  The CLI     *)
(* and its lock, the queue and the handler are external.                       *)
EXTENDS Integers, FiniteSets

CONSTANTS
    Msg,        \* messages
    Channel,    \* [Msg -> channel]
    Thread,     \* [Msg -> the ts of the thread's root, or NoThread]
    Loop,       \* [Msg -> loop id, or NoLoop]
    NoThread, NoLoop,
    Corrupt,    \* messages whose marker, of an earlier life, cannot be read back
    HomeKnown,  \* whether $HOME is set
    Staleness,  \* in ticks
    Downtimes,  \* bound: how long the pod may be down; no time passes in between
    MaxBoots,   \* bound: boots in a behaviour
    MaxDeploys, \* bound: boots that bring another persona or layout
    MaxFaults   \* bound: file operations that fail

ASSUME MessageAssumption ==
    /\ Corrupt \subseteq Msg /\ HomeKnown \in BOOLEAN
    /\ \A m \in Msg : Thread[m] = NoThread \/ Thread[m] \in Msg
ASSUME BoundAssumption ==
    {Staleness, MaxBoots, MaxDeploys, MaxFaults} \cup Downtimes \subseteq Nat

VARIABLES
    covered,    \* whether the queue's grace outlasts the release of a lock, for good
    phase,      \* "up", "draining" or "down"
    persona,    \* of the instructions deployed
    layout,     \* where a turn works: its channel's directory or the shared base
    turn,       \* what became of each message
    resumed,    \* the messages whose turn came from a marker
    flag,       \* --session-id or --resume, as ResolveFlag chose it
    markers,    \* marker files: <<workspace, message>>
    age,        \* how long ago each message was interrupted, as its marker says
    toReplay,   \* markers of the boot scan, not yet replayed
    transcripts,\* session files: [workspace, uuid], with who began them
    held,       \* messages whose process has ended and whose lock is not yet released
    runs,       \* per message: times it ran, less the times it was interrupted
    leaked,     \* messages whose marker could not be removed
    unwritten,  \* messages whose marker could not be written
    boots, deploys, faults

fileVars == <<markers, age, toReplay, leaked, unwritten>>
deployVars == <<covered, phase, persona, layout, boots, deploys>>
vars == <<deployVars, turn, resumed, flag, fileVars, transcripts, held, runs, faults>>

Base == "base"
Least(a, b) == IF a < b THEN a ELSE b
Outcome == {"answered", "dropped", "expired", "killed"}
Working == {"starting", "running"}

(* ------------------------------- sessions -------------------------------- *)

\* Namespace: the prefix and a hash of the persona.
Namespace == persona

\* Key and UUID, which is as good as injective.
Key(m) ==
    <<Namespace, Channel[m],
      IF Loop[m] # NoLoop THEN Loop[m]
      ELSE IF Thread[m] = NoThread THEN m ELSE Thread[m]>>

Workspace(m) == IF layout = Base THEN Base ELSE Channel[m]

\* Mutant: the session file is looked for in every workspace.
ResolveFlag_Glob(m) ==
    IF \E t \in transcripts : t.uuid = Key(m) THEN "--resume" ELSE "--session-id"

\* ResolveFlagForWorkspace: whether this workspace has the session's file.
ResolveFlag(m) ==
    IF HomeKnown /\ \E t \in transcripts : t.uuid = Key(m) /\ t.workspace = Workspace(m)
    THEN "--resume" ELSE "--session-id"

\* What a conversation is to its users, whatever the code derives from it.
Conversation(m) ==
    <<Channel[m], IF Loop[m] # NoLoop THEN Loop[m]
                  ELSE IF Thread[m] = NoThread THEN m ELSE Thread[m]>>

\* The CLI holds a lock per session while a process runs in it, and some time after.
Locked(m) == \E o \in Msg :
                /\ Key(o) = Key(m)
                /\ (o # m /\ turn[o] = "running") \/ o \in held

\* The CLI refuses a locked session, and --session-id on one that has a file:
\* both in the words that IsLockRace looks for.
InUse(m) ==
    \/ Locked(m)
    \/ /\ flag[m] = "--session-id"
       /\ \E t \in transcripts : t.uuid = Key(m) /\ t.workspace = Workspace(m)

Persisted(m) ==
    transcripts \cup {[workspace |-> Workspace(m), uuid |-> Key(m),
                       by |-> Conversation(m), persona |-> persona]}

TypeOK ==
    /\ covered \in BOOLEAN
    /\ phase \in {"up", "draining", "down"}
    /\ persona \in 0..MaxDeploys /\ layout \in {Base, "channel"}
    /\ turn \in [Msg -> {"new", "waiting", "interrupted"} \cup Working \cup Outcome]
    /\ resumed \subseteq Msg
    /\ flag \in [Msg -> {"--session-id", "--resume"}]
    /\ \A mk \in markers \cup toReplay : mk[2] \in Msg
    /\ age \in [Msg -> 0..(Staleness + 1)]
    /\ \A s, t \in transcripts : s.uuid = t.uuid /\ s.workspace = t.workspace => s = t
    /\ held \subseteq Msg /\ runs \in [Msg -> Int]
    /\ leaked \subseteq Msg /\ unwritten \subseteq Msg
    /\ boots \in 0..MaxBoots /\ deploys \in 0..MaxDeploys /\ faults \in 0..MaxFaults

(* ------------------------------- the files ------------------------------- *)

Fault == faults < MaxFaults /\ faults' = faults + 1

\* WriteMarker: tmp and rename, so that a marker is there whole or not at all.
WriteMarker(m) ==
    \/ /\ markers' = markers \cup {<<Workspace(m), m>>}
       /\ age' = [age EXCEPT ![m] = 0]
       /\ UNCHANGED <<unwritten, faults>>
    \/ Fault /\ unwritten' = unwritten \cup {m} /\ UNCHANGED <<markers, age>>

\* Mutant: the path is taken from the present layout.
RemoveMarkers_Derived(m, paths) ==
    /\ markers' = markers \ {<<Workspace(m), m>>}
    /\ UNCHANGED <<leaked, faults>>

\* RemoveMarker and RemoveMarkerFile: what is not there is no error.
RemoveMarkers(m, paths) ==
    \/ markers' = markers \ paths /\ UNCHANGED <<leaked, faults>>
    \/ /\ markers \cap paths # {}
       /\ Fault /\ leaked' = leaked \cup {m} /\ UNCHANGED markers

\* Mutant: the base's own directory is not scanned.
LoadMarkers_NoBase == {mk \in markers : mk[1] # Base /\ mk[2] \notin Corrupt}

\* Mutant: a bad file ends the scan.
LoadMarkers_BadFileBlocks ==
    IF \E mk \in markers : mk[2] \in Corrupt THEN {} ELSE markers

\* LoadMarkers: every channel's directory and the base's own; a corrupt file is
\* skipped.
LoadMarkers == {mk \in markers : mk[2] \notin Corrupt}

\* Stale, of an age.
Stale(a) == a > Staleness

(* ------------------------------- the turns ------------------------------- *)

\* A live message is enqueued; its queue marker survives until it is taken.
Arrive(m) ==
    /\ phase = "up" /\ turn[m] = "new"
    /\ Thread[m] # NoThread => turn[Thread[m]] # "new"
    /\ turn' = [turn EXCEPT ![m] = "waiting"]
    /\ UNCHANGED <<deployVars, resumed, flag, fileVars, transcripts, held, runs, faults>>

\* The handler starts: it clears a prior interrupt record and resolves the flag.
BeginTurn(m, paths) ==
    /\ RemoveMarkers(m, paths \cup {<<Workspace(m), m>>})
    /\ turn' = [turn EXCEPT ![m] = "starting"]
    /\ flag' = [flag EXCEPT ![m] = ResolveFlag(m)]

\* Mutant: the queue does not sleep between two turns.
Take_NoGrace(m) ==
    /\ phase = "up" /\ turn[m] = "waiting"
    /\ \A o \in Msg \ resumed : turn[o] \in Working => Conversation(o) # Conversation(m)
    /\ BeginTurn(m, {})
    /\ UNCHANGED <<deployVars, resumed, age, toReplay, unwritten, transcripts, held, runs>>

\* The session queue runs one turn per session at a time, and sleeps its grace
\* between two of them, which may be 0 and need not outlast the lock.
Take(m) ==
    /\ phase = "up" /\ turn[m] = "waiting"
    /\ \A o \in Msg \ resumed : turn[o] \in Working => Conversation(o) # Conversation(m)
    /\ covered => \A o \in held \ resumed : Conversation(o) # Conversation(m)
    /\ BeginTurn(m, {})
    /\ UNCHANGED <<deployVars, resumed, age, toReplay, unwritten, transcripts, held, runs>>

\* A marker of the scan is removed and its turn goes straight to the handler.
Replay(mk) ==
    /\ phase = "up" /\ mk \in toReplay
    /\ toReplay' = toReplay \ {mk}
    /\ resumed' = resumed \cup {mk[2]}
    /\ BeginTurn(mk[2], {mk})
    /\ UNCHANGED <<deployVars, age, unwritten, transcripts, held, runs>>

\* The process starts.  What IsLockRace recognises is swallowed.
Launch(m) ==
    /\ phase = "up" /\ turn[m] = "starting"
    /\ IF InUse(m)
       THEN turn' = [turn EXCEPT ![m] = "dropped"] /\ UNCHANGED runs
       ELSE /\ turn' = [turn EXCEPT ![m] = "running"]
            /\ runs' = [runs EXCEPT ![m] = @ + 1]
    /\ UNCHANGED <<deployVars, resumed, flag, fileVars, transcripts, held, faults>>

\* The session's file appears some time into its first turn.
Persist(m) ==
    /\ turn[m] = "running" /\ phase # "down"
    /\ flag[m] = "--session-id" /\ Persisted(m) # transcripts
    /\ transcripts' = Persisted(m)
    /\ UNCHANGED <<deployVars, turn, resumed, flag, fileVars, held, runs, faults>>

\* The process ends; its lock outlives it.
Finish(m) ==
    /\ turn[m] = "running" /\ phase # "down"
    /\ turn' = [turn EXCEPT ![m] = "answered"]
    /\ transcripts' = IF flag[m] = "--session-id" THEN Persisted(m) ELSE transcripts
    /\ held' = held \cup {m}
    /\ UNCHANGED <<deployVars, resumed, flag, fileVars, runs, faults>>

\* Claude Code releases a lock asynchronously from the process exit.
Release(m) ==
    /\ m \in held /\ held' = held \ {m}
    /\ UNCHANGED <<deployVars, turn, resumed, flag, fileVars, transcripts, runs, faults>>

(* ------------------------------- restarts -------------------------------- *)

\* SIGTERM, if another boot is to come.
Drain ==
    /\ phase = "up" /\ boots < MaxBoots
    /\ phase' = "draining"
    /\ UNCHANGED <<covered, persona, layout, boots, deploys, turn, resumed, flag,
                   fileVars, transcripts, held, runs, faults>>

\* The cancelled turn leaves its marker.
Interrupt(m) ==
    /\ phase = "draining" /\ turn[m] \in Working
    /\ WriteMarker(m)
    /\ turn' = [turn EXCEPT ![m] = "interrupted"]
    /\ runs' = IF turn[m] = "running" THEN [runs EXCEPT ![m] = @ - 1] ELSE runs
    /\ UNCHANGED <<deployVars, resumed, flag, toReplay, leaked, transcripts, held>>

\* The process ends: drained, or killed with turns in work.
Stop ==
    /\ phase \in {"up", "draining"} /\ boots < MaxBoots
    /\ phase' = "down"
    /\ turn' = [m \in Msg |-> IF turn[m] \in Working THEN "killed" ELSE turn[m]]
    /\ toReplay' = {} /\ held' = {}
    /\ UNCHANGED <<covered, persona, layout, boots, deploys, resumed, flag, markers,
                   age, leaked, unwritten, transcripts, runs, faults>>

\* Boot, perhaps of another version: stale markers are swept, the others are to be
\* replayed.
Boot ==
    /\ phase = "down"
    /\ phase' = "up" /\ boots' = boots + 1
    /\ \/ UNCHANGED <<persona, layout, deploys>>
       \/ /\ deploys < MaxDeploys /\ deploys' = deploys + 1
          /\ persona' \in {persona, persona + 1} /\ layout' \in {Base, "channel"}
    /\ \E down \in Downtimes :
         LET older == [m \in Msg |-> IF \E mk \in markers : mk[2] = m
                                     THEN Least(age[m] + down, Staleness + 1) ELSE 0]
             stale == {mk \in LoadMarkers : Stale(older[mk[2]])}
         IN  /\ age' = older
             /\ markers' = markers \ stale
             /\ toReplay' = LoadMarkers \ stale
             /\ turn' = [m \in Msg |->
                  IF turn[m] = "interrupted" /\ \E mk \in stale : mk[2] = m
                  THEN "expired" ELSE turn[m]]
    /\ resumed' = {}
    /\ UNCHANGED <<covered, flag, leaked, unwritten, transcripts, held, runs, faults>>

(* ---------------------------- specification ------------------------------ *)

Init ==
    /\ covered \in BOOLEAN /\ phase = "up" /\ persona = 0 /\ layout \in {Base, "channel"}
    /\ turn = [m \in Msg |-> IF m \in Corrupt THEN "interrupted" ELSE "new"]
    /\ resumed = {}
    /\ flag = [m \in Msg |-> "--session-id"]
    /\ markers = {<<Workspace(m), m>> : m \in Corrupt} /\ age = [m \in Msg |-> 0] /\ toReplay = {}
    /\ transcripts = {} /\ held = {} /\ runs = [m \in Msg |-> 0]
    /\ leaked = {} /\ unwritten = {} /\ boots = 0 /\ deploys = 0 /\ faults = 0

TurnStep(m) == Take(m) \/ Launch(m) \/ Finish(m) \/ Interrupt(m)
ReplayStep == \E mk \in toReplay : Replay(mk)

Next ==
    \/ \E m \in Msg : Arrive(m) \/ TurnStep(m) \/ Persist(m) \/ Release(m)
    \/ ReplayStep
    \/ Drain \/ Stop \/ Boot

\* The handlers, the CLI and the boot replay get on; a drain comes to its end, and
\* the pod is started again.  No restart is due.
Fairness ==
    /\ WF_vars(phase = "draining" /\ Stop) /\ WF_vars(Boot) /\ WF_vars(ReplayStep)
    /\ \A m \in Msg : WF_vars(TurnStep(m))

Spec == Init /\ [][Next]_vars /\ Fairness

(* ----------------------------- properties -------------------------------- *)

\* A booted agent has no interrupted turn that it is not about to replay, of either
\* layout and beside corrupt files, unless its own marker could not be written or
\* read (resume.go:117-145).
InterruptedIsReplayed ==
    phase = "up" => \A m \in Msg : turn[m] = "interrupted" =>
        (\E mk \in toReplay : mk[2] = m) \/ m \in unwritten \cup Corrupt

\* The state is well typed, and a turn runs once, and once more for each time it was
\* interrupted, unless a marker could not be removed (resume.go:93-107).
RunsOncePerInterrupt == TypeOK /\ \A m \in Msg : runs[m] <= 1 \/ m \in leaked

\* A message is dropped for a session in use only beside a turn resumed into the
\* same session, or, when the queue's grace is too short, for the lock that a turn
\* of its own conversation has left behind (session.go:138-142,
\* sessionqueue.go:335-342).
DroppedOnlyForALock ==
    [][\A m \in Msg : turn[m] = "starting" /\ turn'[m] = "dropped" =>
          \/ m \in resumed
          \/ \E o \in resumed \ {m} : Conversation(o) = Conversation(m)
          \/ ~covered /\ \E o \in held : Conversation(o) = Conversation(m)]_vars

\* The session that the present persona has begun for the conversation in this
\* workspace.
Own(m) == {t \in transcripts : /\ t.workspace = Workspace(m) /\ t.persona = persona
                               /\ t.by = Conversation(m)}

\* A turn goes on with its own conversation if that has a session in this workspace
\* under the present persona, and starts one afresh only if it has none; between the
\* choice of the flag and the start others may begin or end (session.go:5-24).
ResumesOwnTranscript ==
    [][\A m \in Msg : Launch(m) /\ turn'[m] = "running" =>
          IF flag[m] = "--resume" THEN \E t \in Own(m) : t.uuid = Key(m)
                                  ELSE Own(m) = {}]_vars

\* An interrupted turn whose marker is there and readable is answered in the end, or
\* dropped for a session in use, expired or killed.
InterruptedIsSettled ==
    \A m \in Msg \ Corrupt :
        turn[m] = "interrupted" ~> turn[m] \in Outcome \/ m \in unwritten

=============================================================================
