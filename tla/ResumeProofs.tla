---------------------------- MODULE ResumeProofs -----------------------------
(* No interrupted turn is forgotten or run twice, and no turn goes on with     *)
(* another one's session, for any messages, restarts, deploys and faults.      *)
EXTENDS Resume, TLAPS

\* A session file of this conversation, in this workspace.
Began(m) == \E t \in transcripts : t.uuid = Key(m) /\ t.workspace = Workspace(m)

\* Unless its removal failed once, a message has a marker only while its turn is
\* interrupted, never two, and none to be replayed that is not on disk.
MarkerInv ==
    \A m \in Msg \ leaked :
        /\ \A mk \in markers : mk[2] = m => turn[m] = "interrupted"
        /\ \A mk, ml \in markers : mk[2] = m /\ ml[2] = m => mk = ml
        /\ \A mk \in toReplay : mk[2] = m => mk \in markers

\* An interrupted turn has its marker, and is to be replayed once the agent is up.
ReplayInv ==
    \A m \in Msg : turn[m] = "interrupted" =>
        \/ m \in unwritten \cup Corrupt
        \/ /\ \E mk \in markers : mk[2] = m
           /\ phase = "up" => \E mk \in toReplay : mk[2] = m

\* The balance of runs and interrupts is that of where the turn is.
RunInv ==
    \A m \in Msg \ leaked :
        runs[m] <= IF turn[m] \in {"running"} \cup Outcome THEN 1 ELSE 0

\* A session file bears the key of whoever began it.
FileOf(t, m, p) ==
    /\ t.uuid = <<p, Conversation(m)[1], Conversation(m)[2]>>
    /\ t.by = Conversation(m) /\ t.persona = p
    /\ t = [workspace |-> t.workspace, uuid |-> t.uuid, by |-> t.by, persona |-> t.persona]

SessionInv ==
    /\ persona <= deploys
    /\ \A t \in transcripts : \E m \in Msg, p \in Nat : FileOf(t, m, p)
    /\ \A m \in Msg : turn[m] = "starting" /\ flag[m] = "--resume" => Began(m)

\* Turns of the session queue keep out of one another's way, and of their locks when
\* the grace outlasts them: only a replayed turn can be in a conversation beside one
\* of them, or begin its session file.
LiveInv ==
    /\ phase # "up" => boots < MaxBoots
    /\ phase = "down" => held = {} /\ \A m \in Msg : turn[m] \notin Working
    /\ covered => \A m, o \in Msg \ resumed :
          turn[m] \in Working /\ o \in held => Conversation(m) # Conversation(o)
    /\ \A m, o \in Msg \ resumed :
          m # o /\ turn[m] \in Working /\ turn[o] \in Working
              => Conversation(m) # Conversation(o)
    /\ HomeKnown => \A m \in Msg \ resumed :
          turn[m] = "starting" /\ flag[m] = "--session-id" /\ Began(m)
              => \E o \in resumed : Conversation(o) = Conversation(m)

Inv == TypeOK /\ MarkerInv /\ ReplayInv /\ RunInv /\ SessionInv /\ LiveInv

(* -------------------------------- keys ----------------------------------- *)

\* A key is the persona and the conversation.
LEMMA KeyParts ==
    /\ \A m : Key(m) = <<persona, Conversation(m)[1], Conversation(m)[2]>>
    /\ \A m, o : Key(m) = Key(o) => Conversation(m) = Conversation(o)
BY DEF Key, Namespace, Conversation

\* Keys and workspaces change with a deploy only.
LEMMA SameKeys ==
    ASSUME persona' = persona, layout' = layout
    PROVE  \A m : Key(m)' = Key(m) /\ Workspace(m)' = Workspace(m)
BY DEF Key, Namespace, Workspace

LEMMA SameBegan ==
    ASSUME persona' = persona, layout' = layout, transcripts' = transcripts
    PROVE  \A m : Began(m)' <=> Began(m)
BY SameKeys DEF Began

\* Two files of one key in one workspace are one file.
LEMMA OneFile ==
    ASSUME NEW s, NEW t, NEW m, NEW o, NEW p, NEW q, FileOf(s, m, p), FileOf(t, o, q),
           s.uuid = t.uuid, s.workspace = t.workspace
    PROVE  s = t
<1>1. p = q /\ Conversation(m) = Conversation(o)
  BY DEF FileOf, Conversation
<1> QED
  BY <1>1 DEF FileOf

LEMMA PersistedIs ==
    ASSUME TypeOK, SessionInv, NEW m \in Msg
    PROVE  /\ \A t \in Persisted(m) : \E o \in Msg, p \in Nat : FileOf(t, o, p)
           /\ transcripts \subseteq Persisted(m)
           /\ \A t \in Persisted(m) \ transcripts : t.uuid = Key(m)
<1> DEFINE f == [workspace |-> Workspace(m), uuid |-> Key(m),
                 by |-> Conversation(m), persona |-> persona]
<1>1. FileOf(f, m, persona)
  BY KeyParts DEF FileOf
<1>2. persona \in Nat /\ f.uuid = Key(m) /\ Persisted(m) = transcripts \cup {f}
  BY DEF TypeOK, Persisted
<1> HIDE DEF f
<1> QED
  BY <1>1, <1>2 DEF SessionInv

(* ------------------------------- the steps ------------------------------- *)

LEMMA InitHasInv == Init => Inv
<1> SUFFICES ASSUME Init PROVE Inv
  OBVIOUS
<1>1. TypeOK
  BY MessageAssumption, BoundAssumption DEF Init, TypeOK
<1>2. MarkerInv /\ ReplayInv /\ RunInv
  BY MessageAssumption DEF Init, MarkerInv, ReplayInv, RunInv, Outcome
<1>3. SessionInv /\ LiveInv
  BY MessageAssumption DEF Init, SessionInv, LiveInv, Began, Working
<1> QED
  BY <1>1, <1>2, <1>3 DEF Inv

LEMMA ArriveKeepsInv ==
    ASSUME Inv, NEW m \in Msg, Arrive(m)
    PROVE  Inv'
<1>1. /\ turn[m] = "new" /\ turn' = [turn EXCEPT ![m] = "waiting"]
      /\ UNCHANGED <<deployVars, resumed, flag, fileVars, transcripts, held, runs, faults>>
  BY DEF Arrive
<1>2. TypeOK'
  BY <1>1 DEF Inv, TypeOK, deployVars, fileVars
<1>3. MarkerInv' /\ ReplayInv' /\ RunInv'
  BY <1>1 DEF Inv, TypeOK, MarkerInv, ReplayInv, RunInv, deployVars, fileVars, Outcome
<1>4. SessionInv' /\ LiveInv'
  <2>1. \A o : Began(o)' <=> Began(o)
    BY <1>1, SameBegan DEF deployVars
  <2> QED
    BY <1>1, <2>1 DEF Inv, TypeOK, SessionInv, LiveInv, deployVars, Working
<1> QED
  BY <1>2, <1>3, <1>4 DEF Inv

\* What a handler does when it begins: the message's own markers go, or it leaks,
\* and the flag says whether the conversation has a file here.
LEMMA BeginEffect ==
    ASSUME TypeOK, NEW m \in Msg, NEW paths, \A p \in paths : p[2] = m, BeginTurn(m, paths)
    PROVE  /\ turn' = [turn EXCEPT ![m] = "starting"]
           /\ flag' = [flag EXCEPT ![m] = flag'[m]]
           /\ flag'[m] \in {"--session-id", "--resume"}
           /\ flag'[m] = "--resume" => Began(m)
           /\ HomeKnown /\ flag'[m] = "--session-id" => ~Began(m)
           /\ markers' \subseteq markers
           /\ \A mk \in markers : mk[2] # m => mk \in markers'
           /\ leaked \subseteq leaked' /\ leaked' \subseteq leaked \cup {m}
           /\ m \notin leaked' => markers' \cap paths = {}
           /\ faults' \in 0..MaxFaults
<1>1. /\ turn' = [turn EXCEPT ![m] = "starting"]
      /\ flag' = [flag EXCEPT ![m] = ResolveFlag(m)]
      /\ RemoveMarkers(m, paths \cup {<<Workspace(m), m>>})
  BY DEF BeginTurn
<1>2. /\ ResolveFlag(m) \in {"--session-id", "--resume"}
      /\ ResolveFlag(m) = "--resume" => Began(m)
      /\ HomeKnown /\ ResolveFlag(m) = "--session-id" => ~Began(m)
  BY DEF ResolveFlag, Began
<1>3. flag'[m] = ResolveFlag(m)
  BY <1>1 DEF TypeOK
<1>4. faults' \in 0..MaxFaults
  BY <1>1, BoundAssumption DEF RemoveMarkers, Fault, TypeOK
<1>5. /\ markers' \subseteq markers
      /\ \A mk \in markers : mk[2] # m => mk \in markers'
      /\ leaked \subseteq leaked' /\ leaked' \subseteq leaked \cup {m}
      /\ m \notin leaked' => markers' \cap paths = {}
  BY <1>1 DEF RemoveMarkers
<1> QED
  BY <1>1, <1>2, <1>3, <1>4, <1>5

\* The queue starts a turn: it has not run, and none of its kind is in work in the
\* conversation.
LEMMA TakeKeepsInv ==
    ASSUME Inv, NEW m \in Msg, Take(m)
    PROVE  Inv'
<1>1. /\ turn[m] = "waiting" /\ phase = "up"
      /\ \A o \in Msg \ resumed : turn[o] \in Working => Conversation(o) # Conversation(m)
      /\ covered => \A o \in held \ resumed : Conversation(o) # Conversation(m)
      /\ UNCHANGED <<deployVars, resumed, age, toReplay, unwritten, transcripts, held, runs>>
  BY DEF Take
<1>2. /\ turn' = [turn EXCEPT ![m] = "starting"]
      /\ flag' = [flag EXCEPT ![m] = flag'[m]]
      /\ flag'[m] \in {"--session-id", "--resume"}
      /\ flag'[m] = "--resume" => Began(m)
      /\ HomeKnown /\ flag'[m] = "--session-id" => ~Began(m)
      /\ markers' \subseteq markers
      /\ \A mk \in markers : mk[2] # m => mk \in markers'
      /\ leaked \subseteq leaked' /\ leaked' \subseteq leaked \cup {m}
      /\ faults' \in 0..MaxFaults
  <2>1. BeginTurn(m, {}) /\ \A p \in {} : p[2] = m
    BY DEF Take
  <2> QED
    BY <2>1, BeginEffect DEF Inv
<1>3. TypeOK'
  BY <1>1, <1>2 DEF Inv, TypeOK, deployVars, Working
<1>4. MarkerInv'
  BY <1>1, <1>2 DEF Inv, TypeOK, MarkerInv
<1>5. ReplayInv'
  BY <1>1, <1>2 DEF Inv, TypeOK, ReplayInv, deployVars
<1>6. RunInv'
  BY <1>1, <1>2 DEF Inv, TypeOK, RunInv, Outcome
<1>7. \A o : Began(o)' <=> Began(o)
  BY <1>1, SameBegan DEF deployVars
<1>8. SessionInv'
  BY <1>1, <1>2, <1>7 DEF Inv, TypeOK, SessionInv, deployVars
<1>9. LiveInv'
  BY <1>1, <1>2, <1>7 DEF Inv, TypeOK, LiveInv, deployVars, Working
<1> QED
  BY <1>3, <1>4, <1>5, <1>6, <1>8, <1>9 DEF Inv

\* A marker is replayed: the turn was interrupted, unless its marker had leaked.
LEMMA ReplayKeepsInv ==
    ASSUME Inv, NEW mk \in toReplay, Replay(mk)
    PROVE  Inv'
<1> DEFINE m == mk[2]
<1>1. /\ phase = "up" /\ toReplay' = toReplay \ {mk} /\ resumed' = resumed \cup {m}
      /\ UNCHANGED <<deployVars, age, unwritten, transcripts, held, runs>>
      /\ m \in Msg
  BY DEF Replay, Inv, TypeOK
<1>2. /\ turn' = [turn EXCEPT ![m] = "starting"]
      /\ flag' = [flag EXCEPT ![m] = flag'[m]]
      /\ flag'[m] \in {"--session-id", "--resume"}
      /\ flag'[m] = "--resume" => Began(m)
      /\ markers' \subseteq markers
      /\ \A ml \in markers : ml[2] # m => ml \in markers'
      /\ leaked \subseteq leaked' /\ leaked' \subseteq leaked \cup {m}
      /\ m \notin leaked' => markers' \cap {mk} = {}
      /\ faults' \in 0..MaxFaults
  <2>1. BeginTurn(m, {mk}) /\ \A p \in {mk} : p[2] = m
    BY DEF Replay
  <2> QED
    BY <1>1, <2>1, BeginEffect DEF Inv
<1> HIDE DEF m
<1>3. TypeOK'
  BY <1>1, <1>2 DEF Inv, TypeOK, deployVars, Working
<1>4. MarkerInv'
  <2> SUFFICES ASSUME NEW o \in Msg \ leaked'
               PROVE  /\ \A ml \in markers' : ml[2] = o => turn'[o] = "interrupted"
                      /\ \A mn, ml \in markers' : mn[2] = o /\ ml[2] = o => mn = ml
                      /\ \A ml \in toReplay' : ml[2] = o => ml \in markers'
    BY DEF MarkerInv
  <2>1. CASE o # m
    BY <1>1, <1>2, <2>1 DEF Inv, TypeOK, MarkerInv
  <2>2. CASE o = m
    <3>1. \A ml \in markers \cup toReplay : ml[2] = m => ml = mk
      BY <1>2, <2>2 DEF Inv, MarkerInv, m
    <3> QED
      BY <1>1, <1>2, <2>2, <3>1
  <2> QED
    BY <2>1, <2>2
<1>5. ReplayInv'
  <2> SUFFICES ASSUME NEW o \in Msg, turn'[o] = "interrupted"
               PROVE  \/ o \in unwritten' \cup Corrupt
                      \/ /\ \E ml \in markers' : ml[2] = o
                         /\ phase' = "up" => \E ml \in toReplay' : ml[2] = o
    BY DEF ReplayInv
  <2>1. o # m /\ turn[o] = "interrupted"
    BY <1>1, <1>2 DEF Inv, TypeOK
  <2> QED
    BY <1>1, <1>2, <2>1 DEF Inv, ReplayInv, m
<1>6. RunInv'
  <2>1. m \notin leaked' => turn[m] = "interrupted"
    BY <1>1, <1>2 DEF Inv, MarkerInv, m
  <2> QED
    BY <1>1, <1>2, <2>1 DEF Inv, TypeOK, RunInv, Outcome
<1>7. \A o : Began(o)' <=> Began(o)
  BY <1>1, SameBegan DEF deployVars
<1>8. SessionInv'
  BY <1>1, <1>2, <1>7 DEF Inv, TypeOK, SessionInv, deployVars
<1>9. LiveInv'
  BY <1>1, <1>2, <1>7 DEF Inv, TypeOK, LiveInv, deployVars, Working
<1> QED
  BY <1>3, <1>4, <1>5, <1>6, <1>8, <1>9 DEF Inv

\* The process starts, or meets a session in use.
LEMMA LaunchKeepsInv ==
    ASSUME Inv, NEW m \in Msg, Launch(m)
    PROVE  Inv'
<1>1. /\ turn[m] = "starting" /\ phase = "up"
      /\ \/ turn' = [turn EXCEPT ![m] = "dropped"] /\ UNCHANGED runs
         \/ /\ turn' = [turn EXCEPT ![m] = "running"]
            /\ runs' = [runs EXCEPT ![m] = @ + 1]
      /\ UNCHANGED <<deployVars, resumed, flag, fileVars, transcripts, held, faults>>
  BY DEF Launch
<1>2. TypeOK'
  BY <1>1 DEF Inv, TypeOK, deployVars, fileVars, Working, Outcome
<1>3. MarkerInv' /\ ReplayInv'
  BY <1>1 DEF Inv, TypeOK, MarkerInv, ReplayInv, deployVars, fileVars
<1>4. RunInv'
  BY <1>1 DEF Inv, TypeOK, RunInv, fileVars, Outcome
<1>5. \A o : Began(o)' <=> Began(o)
  BY <1>1, SameBegan DEF deployVars
<1>6. SessionInv' /\ LiveInv'
  BY <1>1, <1>5 DEF Inv, TypeOK, SessionInv, LiveInv, deployVars, Working
<1> QED
  BY <1>2, <1>3, <1>4, <1>6 DEF Inv

\* A running turn's file appears, during the turn or at its end.
LEMMA FileKeepsInv ==
    ASSUME Inv, NEW m \in Msg, Persist(m) \/ Finish(m)
    PROVE  Inv'
<1>1. /\ turn[m] = "running" /\ phase # "down"
      /\ turn' = turn \/ turn' = [turn EXCEPT ![m] = "answered"]
      /\ transcripts' = transcripts \/ transcripts' = Persisted(m)
      /\ held' = held \/ (held' = held \cup {m} /\ turn'[m] = "answered")
      /\ UNCHANGED <<deployVars, resumed, flag, fileVars, runs, faults>>
  BY DEF Persist, Finish, Inv, TypeOK
<1>2. /\ \A t \in transcripts' : \E o \in Msg, p \in Nat : FileOf(t, o, p)
      /\ transcripts \subseteq transcripts'
      /\ \A t \in transcripts' \ transcripts : t.uuid = Key(m)
  BY <1>1, PersistedIs DEF Inv, SessionInv
<1>3. TypeOK'
  <2>1. \A s, t \in transcripts' : s.uuid = t.uuid /\ s.workspace = t.workspace => s = t
    BY <1>2, OneFile
  <2> QED
    BY <1>1, <2>1 DEF Inv, TypeOK, deployVars, fileVars, Outcome, Working
<1>4. MarkerInv' /\ ReplayInv' /\ RunInv'
  BY <1>1 DEF Inv, TypeOK, MarkerInv, ReplayInv, RunInv, deployVars, fileVars, Outcome
<1>5. \A o : /\ Began(o) => Began(o)'
             /\ Began(o)' => Began(o) \/ Conversation(o) = Conversation(m)
  <2>1. \A o : Key(o)' = Key(o) /\ Workspace(o)' = Workspace(o)
    BY <1>1, SameKeys DEF deployVars
  <2> QED
    BY <1>2, <2>1, KeyParts DEF Began
<1>6. SessionInv'
  BY <1>1, <1>2, <1>5 DEF Inv, TypeOK, SessionInv, deployVars
<1>7. LiveInv'
  <2>1. ASSUME HomeKnown, NEW o \in Msg \ resumed, turn'[o] = "starting",
               flag[o] = "--session-id", Began(o)'
        PROVE  \E r \in resumed : Conversation(r) = Conversation(o)
    <3>1. turn[o] = "starting" /\ o # m
      BY <1>1, <2>1 DEF Inv, TypeOK
    <3>2. CASE Began(o)
      BY <2>1, <3>1, <3>2 DEF Inv, LiveInv
    <3>3. CASE Conversation(o) = Conversation(m)
      <4>1. m \in resumed
        BY <1>1, <3>1, <3>3 DEF Inv, LiveInv, Working
      <4> QED
        BY <3>3, <4>1
    <3> QED
      BY <1>5, <2>1, <3>2, <3>3
  <2>2. \A o \in Msg : turn'[o] \in Working => turn[o] \in Working
    BY <1>1 DEF Inv, TypeOK, Working
  <2>3. ASSUME covered, NEW o \in Msg \ resumed, NEW p \in Msg \ resumed,
               turn'[o] \in Working, p \in held'
        PROVE  Conversation(o) # Conversation(p)
    <3>1. turn[o] \in Working
      BY <2>2, <2>3
    <3>2. CASE p \in held
      BY <2>3, <3>1, <3>2 DEF Inv, LiveInv
    <3>3. CASE p \notin held
      <4>1. p = m /\ o # m /\ turn[m] \in Working
        BY <1>1, <2>3, <3>3 DEF Working
      <4> QED
        BY <2>3, <3>1, <4>1 DEF Inv, LiveInv
    <3> QED
      BY <3>2, <3>3
  <2> QED
    BY <1>1, <2>1, <2>2, <2>3 DEF Inv, LiveInv, deployVars
<1> QED
  BY <1>3, <1>4, <1>6, <1>7 DEF Inv

\* A lock is released.
LEMMA ReleaseKeepsInv ==
    ASSUME Inv, NEW m \in Msg, Release(m)
    PROVE  Inv'
<1>1. /\ held' = held \ {m}
      /\ UNCHANGED <<deployVars, turn, resumed, flag, fileVars, transcripts, runs, faults>>
  BY DEF Release
<1>2. TypeOK' /\ MarkerInv' /\ ReplayInv' /\ RunInv'
  BY <1>1 DEF Inv, TypeOK, MarkerInv, ReplayInv, RunInv, deployVars, fileVars
<1>3. \A o : Began(o)' <=> Began(o)
  BY <1>1, SameBegan DEF deployVars
<1>4. SessionInv' /\ LiveInv'
  BY <1>1, <1>3 DEF Inv, SessionInv, LiveInv, deployVars
<1> QED
  BY <1>2, <1>4 DEF Inv

\* The cancelled turn leaves its marker, or the failure to write it is on record.
LEMMA InterruptKeepsInv ==
    ASSUME Inv, NEW m \in Msg, Interrupt(m)
    PROVE  Inv'
<1>1. /\ phase = "draining" /\ turn[m] \in Working
      /\ turn' = [turn EXCEPT ![m] = "interrupted"]
      /\ runs' = IF turn[m] = "running" THEN [runs EXCEPT ![m] = @ - 1] ELSE runs
      /\ UNCHANGED <<deployVars, resumed, flag, toReplay, leaked, transcripts, held>>
  BY DEF Interrupt
<1>2. \/ /\ markers' = markers \cup {<<Workspace(m), m>>}
         /\ age' = [age EXCEPT ![m] = 0] /\ UNCHANGED <<unwritten, faults>>
      \/ /\ unwritten' = unwritten \cup {m} /\ UNCHANGED <<markers, age>>
         /\ faults < MaxFaults /\ faults' = faults + 1
  BY DEF Interrupt, WriteMarker, Fault
<1>3. TypeOK'
  <2>1. faults' \in 0..MaxFaults /\ age' \in [Msg -> 0..(Staleness + 1)]
    BY <1>2, BoundAssumption DEF Inv, TypeOK
  <2>2. runs' \in [Msg -> Int]
    BY <1>1 DEF Inv, TypeOK
  <2>3. unwritten' \subseteq Msg /\ \A mk \in markers' \cup toReplay' : mk[2] \in Msg
    BY <1>1, <1>2 DEF Inv, TypeOK
  <2> QED
    BY <1>1, <2>1, <2>2, <2>3 DEF Inv, TypeOK, deployVars
<1>4. MarkerInv'
  <2>1. m \notin leaked => \A mk \in markers \cup toReplay : mk[2] # m
    BY <1>1 DEF Inv, MarkerInv, Working
  <2>2. \A mk \in markers' : mk \in markers \/ mk = <<Workspace(m), m>>
    BY <1>2
  <2> QED
    BY <1>1, <1>2, <2>1, <2>2 DEF Inv, TypeOK, MarkerInv
<1>5. ReplayInv'
  <2> SUFFICES ASSUME NEW o \in Msg, turn'[o] = "interrupted", o \notin unwritten' \cup Corrupt
               PROVE  \E mk \in markers' : mk[2] = o
    BY <1>1 DEF ReplayInv, deployVars
  <2>1. CASE o = m
    <3>1. <<Workspace(m), m>> \in markers' /\ <<Workspace(m), m>>[2] = m
      BY <1>2, <2>1
    <3> QED
      BY <2>1, <3>1
  <2>2. CASE o # m
    BY <1>1, <1>2, <2>2 DEF Inv, TypeOK, ReplayInv
  <2> QED
    BY <2>1, <2>2
<1>6. RunInv'
  BY <1>1 DEF Inv, TypeOK, RunInv, Working, Outcome
<1>7. \A o : Began(o)' <=> Began(o)
  BY <1>1, SameBegan DEF deployVars
<1>8. SessionInv' /\ LiveInv'
  BY <1>1, <1>7 DEF Inv, TypeOK, SessionInv, LiveInv, deployVars, Working
<1> QED
  BY <1>3, <1>4, <1>5, <1>6, <1>8 DEF Inv

\* A drain, or the end of the process.
LEMMA DownKeepsInv ==
    ASSUME Inv, Drain \/ Stop
    PROVE  Inv'
<1>1. /\ phase' \in {"draining", "down"} /\ boots < MaxBoots
      /\ \/ turn' = turn /\ phase' # "down"
         \/ turn' = [m \in Msg |-> IF turn[m] \in Working THEN "killed" ELSE turn[m]]
      /\ toReplay' \subseteq toReplay /\ held' \subseteq held
      /\ phase' = "down" => held' = {}
      /\ UNCHANGED <<covered, persona, layout, boots, deploys, resumed, flag, markers,
                     age, leaked, unwritten, transcripts, runs, faults>>
  BY DEF Drain, Stop, fileVars
<1>2. TypeOK'
  BY <1>1 DEF Inv, TypeOK, Outcome
<1>3. \A m \in Msg : /\ turn'[m] # turn[m] => turn[m] \in Working /\ turn'[m] = "killed"
                     /\ turn'[m] \in Working => turn[m] \in Working /\ phase' # "down"
  BY <1>1 DEF Working
<1>4. MarkerInv' /\ ReplayInv'
  BY <1>1, <1>3 DEF Inv, MarkerInv, ReplayInv, Working
<1>5. RunInv'
  BY <1>1, <1>3 DEF Inv, TypeOK, RunInv, Working, Outcome
<1>6. \A o : Began(o)' <=> Began(o)
  BY <1>1, SameBegan
<1>7. SessionInv'
  BY <1>1, <1>3, <1>6 DEF Inv, SessionInv
<1>8. LiveInv'
  BY <1>1, <1>3, <1>6 DEF Inv, LiveInv
<1> QED
  BY <1>2, <1>4, <1>5, <1>7, <1>8 DEF Inv

\* A boot, perhaps of another version: what it does not replay it expires.
LEMMA BootKeepsInv ==
    ASSUME Inv, Boot
    PROVE  Inv'
<1>1. /\ phase = "down" /\ phase' = "up" /\ boots' = boots + 1 /\ resumed' = {}
      /\ UNCHANGED <<covered, flag, leaked, unwritten, transcripts, held, runs, faults>>
      /\ \/ UNCHANGED <<persona, layout, deploys>>
         \/ /\ deploys < MaxDeploys /\ deploys' = deploys + 1
            /\ persona' \in {persona, persona + 1} /\ layout' \in {Base, "channel"}
  BY DEF Boot
<1>2. PICK down \in Downtimes :
         LET older == [m \in Msg |-> IF \E mk \in markers : mk[2] = m
                                     THEN Least(age[m] + down, Staleness + 1) ELSE 0]
             stale == {mk \in LoadMarkers : Stale(older[mk[2]])}
         IN  /\ age' = older
             /\ markers' = markers \ stale
             /\ toReplay' = LoadMarkers \ stale
             /\ turn' = [m \in Msg |->
                  IF turn[m] = "interrupted" /\ \E mk \in stale : mk[2] = m
                  THEN "expired" ELSE turn[m]]
  BY DEF Boot
<1> DEFINE older == [m \in Msg |-> IF \E mk \in markers : mk[2] = m
                                   THEN Least(age[m] + down, Staleness + 1) ELSE 0]
           stale == {mk \in LoadMarkers : Stale(older[mk[2]])}
<1>3. /\ age' = older /\ markers' = markers \ stale /\ toReplay' = LoadMarkers \ stale
      /\ turn' = [m \in Msg |->
                    IF turn[m] = "interrupted" /\ \E mk \in stale : mk[2] = m
                    THEN "expired" ELSE turn[m]]
  BY <1>2
<1>4. older \in [Msg -> 0..(Staleness + 1)]
  <2>1. down \in Nat /\ Staleness \in Nat
    BY BoundAssumption
  <2>2. ASSUME NEW m \in Msg PROVE Least(age[m] + down, Staleness + 1) \in 0..(Staleness + 1)
    <3>1. age[m] \in 0..(Staleness + 1)
      BY DEF Inv, TypeOK
    <3> QED
      BY <2>1, <3>1 DEF Least
  <2>3. 0 \in 0..(Staleness + 1)
    BY <2>1
  <2> QED
    BY <2>2, <2>3
<1>5. /\ LoadMarkers = {mk \in markers : mk[2] \notin Corrupt}
      /\ stale \subseteq LoadMarkers
      /\ \A mk, ml \in LoadMarkers : mk[2] = ml[2] => (mk \in stale <=> ml \in stale)
  BY DEF LoadMarkers
<1> HIDE DEF older, stale
<1>6. /\ \A m \in Msg : turn'[m] = turn[m] \/ (turn[m] = "interrupted" /\ turn'[m] = "expired")
      /\ \A m \in Msg : turn'[m] = "interrupted" =>
            turn[m] = "interrupted" /\ ~ \E mk \in stale : mk[2] = m
      /\ \A m \in Msg : turn[m] = "interrupted" /\ ~(\E mk \in stale : mk[2] = m)
            => turn'[m] = "interrupted"
  <2> SUFFICES ASSUME NEW m \in Msg
               PROVE  /\ turn'[m] = turn[m] \/ (turn[m] = "interrupted" /\ turn'[m] = "expired")
                      /\ turn'[m] = "interrupted" =>
                            turn[m] = "interrupted" /\ ~ \E mk \in stale : mk[2] = m
                      /\ turn[m] = "interrupted" /\ ~(\E mk \in stale : mk[2] = m)
                            => turn'[m] = "interrupted"
    OBVIOUS
  <2>1. turn'[m] = IF turn[m] = "interrupted" /\ \E mk \in stale : mk[2] = m
                   THEN "expired" ELSE turn[m]
    BY <1>3
  <2> QED
    BY <2>1
<1>7. TypeOK'
  <2>1. \A mk \in markers' \cup toReplay' : mk[2] \in Msg
    BY <1>3, <1>5 DEF Inv, TypeOK
  <2>2. turn' \in [Msg -> {"new", "waiting", "interrupted"} \cup Working \cup Outcome]
    <3>1. DOMAIN turn' = Msg /\ turn' = [m \in Msg |-> turn'[m]]
      BY <1>3
    <3>2. \A m \in Msg : turn'[m] \in {"new", "waiting", "interrupted"} \cup Working \cup Outcome
      BY <1>6 DEF Inv, TypeOK, Outcome
    <3> QED
      BY <3>1, <3>2
  <2>3. persona' \in 0..MaxDeploys /\ deploys' \in 0..MaxDeploys
    BY <1>1, BoundAssumption DEF Inv, TypeOK, SessionInv
  <2>4. boots' \in 0..MaxBoots
    BY <1>1, BoundAssumption DEF Inv, TypeOK, LiveInv
  <2> QED
    BY <1>1, <1>3, <1>4, <2>1, <2>2, <2>3, <2>4 DEF Inv, TypeOK
<1>8. MarkerInv'
  BY <1>1, <1>3, <1>5, <1>6 DEF Inv, MarkerInv
<1>9. ReplayInv'
  <2> SUFFICES ASSUME NEW m \in Msg, turn'[m] = "interrupted", m \notin unwritten \cup Corrupt
               PROVE  (\E mk \in markers' : mk[2] = m) /\ (\E mk \in toReplay' : mk[2] = m)
    BY <1>1 DEF ReplayInv
  <2>1. PICK mk \in markers : mk[2] = m
    BY <1>6 DEF Inv, ReplayInv
  <2> QED
    BY <1>3, <1>5, <1>6, <2>1
<1>10. RunInv'
  BY <1>1, <1>6 DEF Inv, TypeOK, RunInv, Outcome
<1>11. \A m \in Msg : turn'[m] \notin Working
  BY <1>1, <1>6 DEF Inv, LiveInv, Working
<1>12. SessionInv' /\ LiveInv'
  <2>1. persona' <= deploys'
    BY <1>1 DEF Inv, SessionInv, TypeOK
  <2> QED
    BY <1>1, <1>11, <2>1 DEF Inv, SessionInv, LiveInv, Working
<1> QED
  BY <1>7, <1>8, <1>9, <1>10, <1>12 DEF Inv

LEMMA NextKeepsInv == Inv /\ [Next]_vars => Inv'
<1> SUFFICES ASSUME Inv, [Next]_vars PROVE Inv'
  OBVIOUS
<1>1. ASSUME UNCHANGED vars PROVE Inv'
  <2>1. \A o : Began(o)' <=> Began(o)
    BY <1>1, SameBegan DEF vars, deployVars
  <2> QED
    BY <1>1, <2>1 DEF vars, deployVars, fileVars, Inv, TypeOK, MarkerInv, ReplayInv, RunInv,
           SessionInv, LiveInv
<1> QED
  BY <1>1, ArriveKeepsInv, TakeKeepsInv, ReplayKeepsInv, LaunchKeepsInv, FileKeepsInv,
     ReleaseKeepsInv, InterruptKeepsInv, DownKeepsInv, BootKeepsInv DEF Next, TurnStep, ReplayStep

\* What is known of every reachable state, of markers, runs and session files.
THEOREM ResumeInvariant == Spec => []Inv
BY InitHasInv, NextKeepsInv, PTL DEF Spec

\* A booted agent has no interrupted turn that it is not about to replay, unless
\* its own marker could not be written or read (resume.go:117-145).
THEOREM InterruptsAreReplayed == Spec => []InterruptedIsReplayed
<1>1. Inv => InterruptedIsReplayed
  BY DEF Inv, ReplayInv, InterruptedIsReplayed
<1> QED
  BY <1>1, ResumeInvariant, PTL

\* A turn runs once, and once more for each time it was interrupted, unless a marker
\* could not be removed (resume.go:93-107).
THEOREM RunsAreCounted == Spec => []RunsOncePerInterrupt
<1>1. Inv => RunsOncePerInterrupt
  BY DEF Inv, TypeOK, RunInv, RunsOncePerInterrupt
<1> QED
  BY <1>1, ResumeInvariant, PTL

\* With a home directory to look for session files in, a message of the queue is
\* dropped for a session in use only beside a replayed turn of its conversation, or,
\* when the grace is too short, for the lock that a turn of its own conversation has
\* left behind (session.go:138-142, sessionqueue.go:335-342).
THEOREM OnlyALockDrops == HomeKnown => (Spec => DroppedOnlyForALock)
<1> SUFFICES ASSUME HomeKnown PROVE Spec => DroppedOnlyForALock
  OBVIOUS
<1>1. ASSUME Inv, Next, NEW m \in Msg, turn[m] = "starting", turn'[m] = "dropped"
      PROVE  \/ m \in resumed
             \/ \E o \in resumed \ {m} : Conversation(o) = Conversation(m)
             \/ ~covered /\ \E o \in held : Conversation(o) = Conversation(m)
  <2>1. Launch(m) /\ InUse(m)
    BY <1>1 DEF Next, TurnStep, ReplayStep, Arrive, Take, Replay, BeginTurn, Launch, Persist,
           Finish, Release, Interrupt, Drain, Stop, Boot, Inv, TypeOK, Working
  <2> SUFFICES ASSUME m \notin resumed
               PROVE  \/ \E o \in resumed : Conversation(o) = Conversation(m)
                      \/ ~covered /\ \E o \in held : Conversation(o) = Conversation(m)
    OBVIOUS
  <2>2. CASE Locked(m)
    <3>1. PICK o \in Msg : /\ Conversation(o) = Conversation(m)
                           /\ (o # m /\ turn[o] = "running") \/ o \in held
      BY <2>2, KeyParts DEF Locked
    <3>2. CASE o \in resumed
      BY <3>1, <3>2
    <3>3. CASE o \notin resumed
      BY <1>1, <3>1, <3>3 DEF Inv, LiveInv, Working
    <3> QED
      BY <3>2, <3>3
  <2>3. CASE flag[m] = "--session-id" /\ Began(m)
    BY <1>1, <2>3 DEF Inv, LiveInv
  <2> QED
    BY <2>1, <2>2, <2>3 DEF InUse, Began
<1>2. Inv /\ [Next]_vars =>
        [\A m \in Msg : turn[m] = "starting" /\ turn'[m] = "dropped" =>
            \/ m \in resumed
            \/ \E o \in resumed \ {m} : Conversation(o) = Conversation(m)
            \/ ~covered /\ \E o \in held : Conversation(o) = Conversation(m)]_vars
  BY <1>1
<1> QED
  BY <1>2, ResumeInvariant, PTL DEF Spec, DroppedOnlyForALock

\* A turn goes on with the session of its own conversation, persona and workspace,
\* and starts one afresh only if there is none (session.go:5-24).
THEOREM TurnsKeepTheirSession == Spec => ResumesOwnTranscript
<1>1. ASSUME Inv, NEW m \in Msg, Launch(m), turn'[m] = "running"
      PROVE  IF flag[m] = "--resume" THEN \E t \in Own(m) : t.uuid = Key(m)
                                     ELSE Own(m) = {}
  <2>1. turn[m] = "starting" /\ ~InUse(m)
    BY <1>1 DEF Launch, Inv, TypeOK
  <2>2. \A t \in transcripts : t.uuid = Key(m) <=> t.persona = persona /\ t.by = Conversation(m)
    <3> SUFFICES ASSUME NEW t \in transcripts
                 PROVE  t.uuid = Key(m) <=> t.persona = persona /\ t.by = Conversation(m)
      OBVIOUS
    <3>1. PICK o \in Msg, p \in Nat : FileOf(t, o, p)
      BY <1>1 DEF Inv, SessionInv
    <3>2. Conversation(o) = <<Conversation(o)[1], Conversation(o)[2]>>
          /\ Conversation(m) = <<Conversation(m)[1], Conversation(m)[2]>>
      BY DEF Conversation
    <3>3. Key(m) = <<persona, Conversation(m)[1], Conversation(m)[2]>>
      BY KeyParts
    <3> QED
      BY <3>1, <3>2, <3>3 DEF FileOf
  <2>3. CASE flag[m] = "--resume"
    <3>1. Began(m)
      BY <1>1, <2>1, <2>3 DEF Inv, SessionInv
    <3> QED
      BY <2>2, <2>3, <3>1 DEF Began, Own
  <2>4. CASE flag[m] = "--session-id"
    BY <2>1, <2>2, <2>4 DEF InUse, Own
  <2> QED
    BY <1>1, <2>3, <2>4 DEF Inv, TypeOK
<1>2. Inv /\ [Next]_vars =>
        [\A m \in Msg : Launch(m) /\ turn'[m] = "running" =>
            IF flag[m] = "--resume" THEN \E t \in Own(m) : t.uuid = Key(m)
                                    ELSE Own(m) = {}]_vars
  BY <1>1
<1> QED
  BY <1>2, ResumeInvariant, PTL DEF Spec, ResumesOwnTranscript

=============================================================================
