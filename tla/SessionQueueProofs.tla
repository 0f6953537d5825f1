------------------------- MODULE SessionQueueProofs -------------------------
(* Theorems about SessionQueue, among them that it implements SerialSession,   *)
(* and about QueueRecovery, for any sets of calls, keys, sessions, reactions,  *)
(* any number of kills and any cutoff.                                         *)
EXTENDS SessionQueueRefinement, QueueRecovery, FiniteSetTheorems, SequenceTheorems, TLAPS

(* The actions change the variables in groups; most proofs need all of them.   *)
USE DEF mapVars, sqVars, enqVars, drainVars, diskVars, rxVars, outVars

\* Sid is a session.
LEMMA SidType == \A c \in Call : Sid(c) \in Session
BY KeyOfAssumption, SessionOfAssumption DEF Sid

\* The messages of a list are messages.
LEMMA MsgsInType == \A seq \in Seq(Call) : MsgsIn(seq) \subseteq Call
BY DEF MsgsIn

\* The messages of a list with one more at its end.
LEMMA AppendMsgs ==
    ASSUME NEW seq \in Seq(Call), NEW m \in Call
    PROVE  /\ Len(Append(seq, m)) = Len(seq) + 1
           /\ MsgsIn(Append(seq, m)) = MsgsIn(seq) \cup {m}
<1>1. /\ Len(Append(seq, m)) = Len(seq) + 1 /\ Len(seq) \in Nat
      /\ \A i \in 1..Len(seq) : Append(seq, m)[i] = seq[i]
      /\ Append(seq, m)[Len(seq) + 1] = m
  OBVIOUS
<1>2. \A i : i \in 1..(Len(seq) + 1) <=> i \in 1..Len(seq) \/ i = Len(seq) + 1
  BY <1>1
<1> QED
  BY <1>1, <1>2 DEF MsgsIn

\* The WaitGroup's counter is a natural number, and a live goroutine is counted.
LEMMA CountedDrain ==
    ASSUME InflightCounts, NEW c \in Call, drainPC[c] = "exit"
    PROVE  inflight \in Nat /\ inflight # 0
<1>1. c \in Alive
  BY DEF Alive
<1>2. IsFiniteSet(Alive) /\ inflight = Cardinality(Alive)
  BY DEF InflightCounts
<1>3. Cardinality(Alive) \in Nat
  BY <1>2, FS_CardinalityType
<1>4. Cardinality(Alive) # 0
  BY <1>1, <1>2, FS_EmptySet
<1> QED
  BY <1>2, <1>3, <1>4

\* Enqueue's steps keep the types.
LEMMA EnqueueTypes ==
    ASSUME TypeOK, NEW c \in Call, enqPC[c] = "locked" => sqOf[c] \in Call,
           WriteMarker(c) \/ EnqueueProgress(c)
    PROVE  TypeOK'
<1>1. CASE WriteMarker(c)
  <2>1. KeyOf[c] \in Key
    BY KeyOfAssumption
  <2> QED
    BY <1>1, <2>1 DEF WriteMarker, PersistMarker, TypeOK, EnqStates
<1>2. CASE LookUpSession(c)
  <2>1. /\ sqOf' \in [Call -> Call \cup {None}]
        /\ sessions' \in [Session -> Call \cup {None}]
        /\ queuedByMsg' \in [Key -> Call \cup {None}]
        /\ enqPC' \in [Call -> EnqStates]
        /\ qmu' \in Call \cup {None}
    BY <1>2, SidType, KeyOfAssumption DEF LookUpSession, TypeOK, EnqStates
  <2> QED
    BY <1>2, <2>1 DEF LookUpSession, TypeOK
<1>3. CASE AppendWaiter(c)
  <2>1. sqOf[c] \in Call
    BY <1>3 DEF AppendWaiter
  <2>2. Append(waiters[sqOf[c]], c) \in Seq(Call)
    BY <2>1 DEF TypeOK
  <2>3. waiters' \in [Call -> Seq(Call)]
    BY <1>3, <2>2 DEF AppendWaiter, TypeOK
  <2> QED
    BY <1>3, <2>3 DEF AppendWaiter, TypeOK, EnqStates
<1>4. CASE Ack(c)
  BY <1>4 DEF Ack, TypeOK, EnqStates
<1>5. CASE SpawnDrain(c)
  BY <1>5 DEF SpawnDrain, TypeOK, EnqStates, DrainStates, ActiveStates
<1> QED
  BY <1>1, <1>2, <1>3, <1>4, <1>5 DEF EnqueueProgress

\* The drain's steps keep the types.
LEMMA DrainTypes ==
    ASSUME TypeOK, InflightCounts, NEW c \in Call,
           drainPC[c] \notin {"none", "gone"} => sqOf[c] \in Call, DrainStep(c)
    PROVE  TypeOK'
<1> USE DEF TypeOK, DrainStates, ActiveStates, LeavingStates
<1>0. drainPC[c] \notin {"none", "gone"} => sqOf[c] \in Call
  OBVIOUS
<1>1. CASE LeaveEmpty(c)
  BY <1>1 DEF LeaveEmpty
<1>2. CASE LockForGC(c)
  BY <1>2 DEF LockForGC
<1>3. CASE Collect(c)
  BY <1>3, SidType DEF Collect
<1>4. CASE DrainDone(c)
  <2>1. inflight - 1 \in Nat
    BY <1>4, CountedDrain DEF DrainDone
  <2> QED
    BY <1>4, <2>1 DEF DrainDone
<1>5. CASE BeginTake(c)
  BY <1>5 DEF BeginTake
<1>6. CASE PartitionOne(c)
  <2> DEFINE w == waiters[sqOf[c]]
             n == Visited(c) + 1
  <2>1. w \in Seq(Call)
    BY <1>0, <1>6 DEF PartitionOne
  <2>2. n \in 1..Len(w)
    <3>1. Len(batch[c]) \in Nat /\ Len(dropped[c]) \in Nat /\ Len(w) \in Nat
      BY <2>1
    <3>2. Visited(c) < Len(w)
      BY <1>6 DEF PartitionOne
    <3>3. Visited(c) \in Nat
      BY <3>1 DEF Visited
    <3> HIDE DEF w
    <3> QED
      BY <3>1, <3>2, <3>3
  <2>3. w[n] \in Call
    BY <2>1, <2>2
  <2>4. Append(dropped[c], w[n]) \in Seq(Call) /\ Append(batch[c], w[n]) \in Seq(Call)
    BY <2>3
  <2>5. batch' \in [Call -> Seq(Call)] /\ dropped' \in [Call -> Seq(Call)]
    BY <1>6, <2>4 DEF PartitionOne
  <2> QED
    BY <1>6, <2>5 DEF PartitionOne
<1>7. CASE EndTake(c)
  <2>1. << >> \in Seq(Call)
    OBVIOUS
  <2>2. waiters' \in [Call -> Seq(Call)]
    BY <1>7, <2>1 DEF EndTake
  <2> QED
    BY <1>7, <2>2 DEF EndTake
<1>8. CASE Forget(c)
  <2>1. batch[c] \o dropped[c] \in Seq(Call)
    OBVIOUS
  <2>2. todo' \in [Call -> Seq(Call)]
    BY <1>8, <2>1 DEF Forget
  <2>3. queuedByMsg' \in [Key -> Call \cup {None}]
    BY <1>8 DEF Forget
  <2> QED
    BY <1>8, <2>2, <2>3 DEF Forget
<1>9. CASE Unmark(c)
  <2>1. Tail(todo[c]) \in Seq(Call)
    BY <1>9 DEF Unmark
  <2>2. todo' \in [Call -> Seq(Call)]
    BY <1>9, <2>1 DEF Unmark
  <2>3. markers' \subseteq Key
    BY <1>9 DEF Unmark, RemoveMarker
  <2> QED
    BY <1>9, <2>2, <2>3 DEF Unmark
<1>10. CASE UnmarkEnd(c)
  BY <1>10 DEF UnmarkEnd
<1>11. CASE NotifyCancelled(c)
  <2>1. dropped' \in [Call -> Seq(Call)] /\ stopped' \subseteq Call
    BY <1>11, MsgsInType DEF NotifyCancelled
  <2> QED
    BY <1>11, <2>1 DEF NotifyCancelled
<1>12. CASE StartRun(c)
  <2>1. ran' \subseteq Call
    BY <1>12, MsgsInType DEF StartRun
  <2> QED
    BY <1>12, <2>1 DEF StartRun
<1>13. CASE EndRun(c)
  BY <1>13 DEF EndRun
<1>14. CASE EndGrace(c)
  BY <1>14 DEF EndGrace
<1> QED
  BY <1>1, <1>2, <1>3, <1>4, <1>5, <1>6, <1>7, <1>8, <1>9, <1>10, <1>11,
     <1>12, <1>13, <1>14 DEF DrainStep, TakeStep, BatchStep, LeaveStep

\* MarkCancelled's steps keep the types.
LEMMA CancelTypes ==
    ASSUME TypeOK, NEW r \in Reaction, CancelStep(r)
    PROVE  TypeOK'
<1>1. CASE FindQueued(r)
  BY <1>1 DEF FindQueued, TypeOK
<1>2. CASE SetCancelled(r)
  BY <1>2 DEF SetCancelled, TypeOK
<1> QED
  BY <1>1, <1>2 DEF CancelStep

\* A step that at most moves one goroutine from one working state to another
\* concerns nobody else.
LEMMA SameServers ==
    ASSUME TypeOK, QueueInv, NEW c \in Call,
           UNCHANGED <<qmu, sessions, running, waiters, enqPC, sqOf, inflight>>,
           \/ UNCHANGED drainPC
           \/ /\ drainPC[c] \in ActiveStates
              /\ \E p \in ActiveStates : drainPC' = [drainPC EXCEPT ![c] = p]
    PROVE  QueueInv'
<1>1. \A d \in Call : /\ drainPC'[d] \in ActiveStates <=> drainPC[d] \in ActiveStates
                      /\ drainPC'[d] \notin ActiveStates => drainPC'[d] = drainPC[d]
                      /\ drainPC[d] \notin ActiveStates => drainPC'[d] = drainPC[d]
  BY DEF TypeOK
<1>2. \A d \in Call : Serving(d)' <=> Serving(d)
  BY <1>1 DEF Serving
<1>3. \A d \in Call : drainPC'[d] = "none" <=> drainPC[d] = "none"
  BY <1>1 DEF ActiveStates
<1>4. \A d \in Call : drainPC'[d] = "gcLocked" <=> drainPC[d] = "gcLocked"
  BY <1>1 DEF ActiveStates
<1>5. Alive' = Alive
  BY <1>1 DEF Alive, ActiveStates
<1>6. PhaseInv'
  BY <1>3 DEF QueueInv, PhaseInv, Untouched
<1>7. SameSession' /\ MapLocked'
  BY <1>4 DEF QueueInv, SameSession, MapLocked
<1>8. ServerOwns'
  BY <1>2 DEF QueueInv, ServerOwns
<1>9. WaitersServed'
  BY <1>2 DEF QueueInv, WaitersServed
<1>10. InflightCounts'
  BY <1>5 DEF QueueInv, InflightCounts
<1> QED
  BY <1>6, <1>7, <1>8, <1>9, <1>10 DEF QueueInv

\* The three steps of an Enqueue call that change who may serve a queue.
LEMMA LookUpKeepsInv ==
    ASSUME TypeOK, QueueInv, NEW c \in Call, LookUpSession(c)
    PROVE  QueueInv'
<1> DEFINE found == sessions[Sid(c)]
           sq == IF found = None THEN c ELSE found
<1>1. /\ enqPC[c] = "marked" /\ qmu = None /\ qmu' = c
      /\ sessions' = [sessions EXCEPT ![Sid(c)] = sq]
      /\ sqOf' = [sqOf EXCEPT ![c] = sq]
      /\ enqPC' = [enqPC EXCEPT ![c] = "locked"]
      /\ UNCHANGED <<running, waiters, drainPC, inflight>>
  BY DEF LookUpSession
<1>2. sq \in Call /\ Sid(sq) = Sid(c) /\ (found # None => sq = found)
  BY SidType DEF TypeOK, QueueInv, SameSession
<1>3. Untouched(c)
  BY <1>1 DEF QueueInv, PhaseInv
<1>4. \A d \in Call : Serving(d)' <=> Serving(d)
  BY <1>1 DEF Serving, TypeOK
<1>5. \A d \in Call : Serving(d) => d # c /\ sqOf[d] \in Call
  BY <1>1, <1>3 DEF Serving, QueueInv, PhaseInv, Untouched, ActiveStates
<1>6. \A d \in Call : enqPC[d] # "locked" /\ drainPC[d] # "gcLocked"
  BY <1>1, NoneAssumption DEF QueueInv, MapLocked
<1>7. PhaseInv'
  <2> SUFFICES ASSUME NEW d \in Call
               PROVE  /\ enqPC'[d] \in {"idle", "marked"} => Untouched(d)'
                      /\ enqPC'[d] \notin {"idle", "marked"} => sqOf'[d] \in Call
                      /\ drainPC'[d] # "none" => enqPC'[d] = "done"
    BY DEF PhaseInv
  <2>1. CASE d = c
    BY <1>1, <1>2, <1>3, <2>1 DEF TypeOK, Untouched
  <2>2. CASE d # c
    <3>1. enqPC'[d] = enqPC[d] /\ sqOf'[d] = sqOf[d] /\ drainPC'[d] = drainPC[d]
      BY <1>1, <2>2 DEF TypeOK
    <3>2. Untouched(d) => Untouched(d)'
      <4> SUFFICES ASSUME Untouched(d) PROVE Untouched(d)'
        OBVIOUS
      <4>1. sq # d
        BY <2>2, SidType DEF Untouched
      <4> QED
        BY <1>1, <4>1, SidType DEF Untouched, TypeOK
    <3> QED
      BY <3>1, <3>2 DEF QueueInv, PhaseInv
  <2> QED
    BY <2>1, <2>2
<1>8. SameSession'
  BY <1>1, <1>2, SidType DEF QueueInv, SameSession, TypeOK
<1>9. MapLocked'
  BY <1>1, <1>6, SidType DEF MapLocked, TypeOK
<1>10. \A d \in Call : Serving(d) => sessions'[Sid(d)] = sessions[Sid(d)]
  <2> SUFFICES ASSUME NEW d \in Call, Serving(d)
               PROVE  sessions'[Sid(d)] = sessions[Sid(d)]
    OBVIOUS
  <2>1. sessions[Sid(d)] = sqOf[d] /\ sqOf[d] # None
    BY <1>5, NoneAssumption DEF QueueInv, ServerOwns
  <2> QED
    BY <1>1, <1>2, <2>1, SidType DEF TypeOK
<1>11. ServerOwns'
  BY <1>1, <1>4, <1>5, <1>10 DEF QueueInv, ServerOwns, TypeOK
<1>12. WaitersServed'
  BY <1>1, <1>4, <1>5 DEF QueueInv, WaitersServed, TypeOK
<1>13. InflightCounts'
  BY <1>1 DEF QueueInv, InflightCounts, Alive
<1> QED
  BY <1>7, <1>8, <1>9, <1>11, <1>12, <1>13 DEF QueueInv

LEMMA AppendKeepsInv ==
    ASSUME TypeOK, QueueInv, NEW c \in Call, AppendWaiter(c)
    PROVE  QueueInv'
<1> DEFINE sq == sqOf[c]
<1>1. /\ enqPC[c] = "locked"
      /\ waiters' = [waiters EXCEPT ![sq] = Append(@, c)]
      /\ running' = [running EXCEPT ![sq] = TRUE]
      /\ enqPC' = [enqPC EXCEPT ![c] = IF running[sq] THEN "ack" ELSE "spawn"]
      /\ qmu' = None
      /\ UNCHANGED <<sessions, sqOf, drainPC, inflight>>
  BY DEF AppendWaiter
<1>2. sq \in Call /\ drainPC[c] = "none"
  BY <1>1 DEF QueueInv, PhaseInv
<1>3. qmu = c /\ sessions[Sid(c)] = sq
  BY <1>1 DEF QueueInv, MapLocked
<1>4. \A d \in Call : d # c => (Serving(d)' <=> Serving(d))
  BY <1>1 DEF Serving, TypeOK
<1>5. ~Serving(c) /\ (Serving(c)' <=> ~running[sq])
  BY <1>1, <1>2 DEF Serving, TypeOK, ActiveStates
<1>6. PhaseInv'
  BY <1>1, <1>2 DEF QueueInv, PhaseInv, Untouched, TypeOK
<1>7. SameSession'
  BY <1>1 DEF QueueInv, SameSession
<1>8. MapLocked'
  BY <1>1, <1>3 DEF QueueInv, MapLocked, PhaseInv, TypeOK
<1>9. ServerOwns'
  <2>1. \A d \in Call : Serving(d) =>
           running[sqOf[d]] /\ running'[sqOf[d]] /\ sessions[Sid(d)] = sqOf[d]
    BY <1>1 DEF QueueInv, ServerOwns, TypeOK
  <2>2. running'[sq]
    BY <1>1, <1>2 DEF TypeOK
  <2>3. \A d \in Call : Serving(d)' => running'[sqOf[d]] /\ sessions[Sid(d)] = sqOf[d]
    BY <1>3, <1>4, <2>1, <2>2
  <2>4. \A d \in Call : Serving(c)' /\ Serving(d)' /\ sqOf[d] = sq => d = c
    BY <1>4, <1>5, <2>1
  <2>5. \A d, e \in Call : Serving(d)' /\ Serving(e)' /\ sqOf[d] = sqOf[e] => d = e
    <3> SUFFICES ASSUME NEW d \in Call, NEW e \in Call, Serving(d)', Serving(e)',
                        sqOf[d] = sqOf[e]
                 PROVE  d = e
      OBVIOUS
    <3>1. CASE d = c \/ e = c
      BY <2>4, <3>1
    <3>2. CASE d # c /\ e # c
      BY <1>4, <3>2 DEF QueueInv, ServerOwns
    <3> QED
      BY <3>1, <3>2
  <2> QED
    BY <1>1, <2>3, <2>5 DEF ServerOwns
<1>10. WaitersServed'
  <2> SUFFICES ASSUME NEW q \in Call
               PROVE  /\ waiters'[q] # << >> => running'[q]
                      /\ running'[q] => \E d \in Call : Serving(d)' /\ sqOf'[d] = q
    BY DEF WaitersServed
  <2>1. CASE q # sq
    BY <1>1, <1>4, <1>5, <2>1 DEF QueueInv, WaitersServed, TypeOK
  <2>2. CASE q = sq /\ running[sq]
    BY <1>1, <1>2, <1>4, <1>5, <2>2 DEF QueueInv, WaitersServed, TypeOK
  <2>3. CASE q = sq /\ ~running[sq]
    BY <1>1, <1>2, <1>5, <2>3 DEF TypeOK
  <2> QED
    BY <2>1, <2>2, <2>3
<1>11. InflightCounts'
  BY <1>1 DEF QueueInv, InflightCounts, Alive
<1> QED
  BY <1>6, <1>7, <1>8, <1>9, <1>10, <1>11 DEF QueueInv

\* inflight.Add and inflight.Done keep the count right.
LEMMA SpawnCounts ==
    ASSUME TypeOK, InflightCounts, NEW c \in Call, drainPC[c] = "none", SpawnDrain(c)
    PROVE  InflightCounts'
<1>1. Alive' = Alive \cup {c} /\ c \notin Alive /\ inflight' = inflight + 1
  BY DEF SpawnDrain, Alive, TypeOK
<1>2. IsFiniteSet(Alive) /\ inflight = Cardinality(Alive)
  BY DEF InflightCounts
<1> QED
  BY <1>1, <1>2, FS_AddElement DEF InflightCounts

LEMMA DoneCounts ==
    ASSUME TypeOK, InflightCounts, NEW c \in Call, DrainDone(c)
    PROVE  InflightCounts'
<1>1. Alive' = Alive \ {c} /\ c \in Alive /\ inflight' = inflight - 1
  BY DEF DrainDone, Alive, TypeOK
<1>2. IsFiniteSet(Alive) /\ inflight = Cardinality(Alive)
  BY DEF InflightCounts
<1> QED
  BY <1>1, <1>2, FS_RemoveElement DEF InflightCounts

LEMMA SpawnKeepsInv ==
    ASSUME TypeOK, QueueInv, NEW c \in Call, SpawnDrain(c)
    PROVE  QueueInv'
<1>1. /\ enqPC[c] = "spawn"
      /\ enqPC' = [enqPC EXCEPT ![c] = "done"]
      /\ inflight' = inflight + 1
      /\ drainPC' = [drainPC EXCEPT ![c] = "loop"]
      /\ UNCHANGED <<qmu, sessions, running, waiters, sqOf>>
  BY DEF SpawnDrain
<1>2. drainPC[c] = "none" /\ sqOf[c] \in Call
  BY <1>1 DEF QueueInv, PhaseInv
<1>3. \A d \in Call : Serving(d)' <=> Serving(d)
  BY <1>1 DEF Serving, TypeOK, ActiveStates
<1>4. PhaseInv'
  BY <1>1, <1>2 DEF QueueInv, PhaseInv, Untouched, TypeOK
<1>5. SameSession' /\ MapLocked'
  BY <1>1 DEF QueueInv, SameSession, MapLocked, TypeOK
<1>6. ServerOwns' /\ WaitersServed'
  BY <1>1, <1>3 DEF QueueInv, ServerOwns, WaitersServed
<1>7. InflightCounts'
  BY <1>2, SpawnCounts DEF QueueInv
<1> QED
  BY <1>4, <1>5, <1>6, <1>7 DEF QueueInv

\* The rest of an Enqueue call: the marker and the acknowledgement.
LEMMA EnqueueKeepsInv ==
    ASSUME TypeOK, QueueInv, NEW c \in Call, WriteMarker(c) \/ EnqueueProgress(c)
    PROVE  QueueInv'
<1>1. CASE WriteMarker(c) \/ Ack(c)
  <2>1. /\ UNCHANGED <<qmu, sessions, running, waiters, sqOf, drainPC, inflight>>
        /\ \/ enqPC[c] = "idle" /\ enqPC' = [enqPC EXCEPT ![c] = "marked"]
           \/ enqPC[c] = "ack" /\ enqPC' = [enqPC EXCEPT ![c] = "done"]
    BY <1>1 DEF WriteMarker, Ack
  <2>2. \A d \in Call : Serving(d)' <=> Serving(d)
    BY <2>1 DEF Serving, TypeOK
  <2>3. PhaseInv'
    BY <2>1 DEF QueueInv, PhaseInv, Untouched, TypeOK
  <2>4. SameSession' /\ MapLocked'
    BY <2>1 DEF QueueInv, SameSession, MapLocked, TypeOK
  <2>5. ServerOwns' /\ WaitersServed'
    BY <2>1, <2>2 DEF QueueInv, ServerOwns, WaitersServed
  <2>6. InflightCounts'
    BY <2>1 DEF QueueInv, InflightCounts, Alive
  <2> QED
    BY <2>3, <2>4, <2>5, <2>6 DEF QueueInv
<1> QED
  BY <1>1, LookUpKeepsInv, AppendKeepsInv, SpawnKeepsInv DEF EnqueueProgress

\* A drain's exit: giving up the flag, the recheck under both locks, Done.
LEMMA LeaveEmptyKeepsInv ==
    ASSUME TypeOK, QueueInv, NEW c \in Call, LeaveEmpty(c)
    PROVE  QueueInv'
<1> DEFINE sq == sqOf[c]
<1>1. /\ drainPC[c] = "loop" /\ waiters[sq] = << >>
      /\ running' = [running EXCEPT ![sq] = FALSE]
      /\ drainPC' = [drainPC EXCEPT ![c] = "gc"]
      /\ UNCHANGED <<qmu, sessions, waiters, enqPC, sqOf, inflight>>
  BY DEF LeaveEmpty
<1>2. sq \in Call /\ enqPC[c] = "done" /\ Serving(c)
  BY <1>1 DEF QueueInv, PhaseInv, Serving, ActiveStates
<1>3. \A d \in Call : d # c => (Serving(d)' <=> Serving(d))
  BY <1>1 DEF Serving, TypeOK
<1>4. ~Serving(c)'
  BY <1>1, <1>2 DEF Serving, TypeOK, ActiveStates
<1>5. \A d \in Call : Serving(d) /\ sqOf[d] = sq => d = c
  BY <1>2 DEF QueueInv, ServerOwns
<1>6. PhaseInv'
  BY <1>1, <1>2 DEF QueueInv, PhaseInv, Untouched, TypeOK
<1>7. SameSession' /\ MapLocked'
  BY <1>1 DEF QueueInv, SameSession, MapLocked, TypeOK
<1>8. ServerOwns'
  <2>1. \A d \in Call : Serving(d)' => Serving(d) /\ sqOf[d] # sq
    BY <1>3, <1>4, <1>5
  <2>2. \A d \in Call : Serving(d)' => running'[sqOf[d]] /\ sessions[Sid(d)] = sqOf[d]
    BY <1>1, <2>1 DEF QueueInv, ServerOwns, TypeOK
  <2>3. \A d, e \in Call : Serving(d)' /\ Serving(e)' /\ sqOf[d] = sqOf[e] => d = e
    BY <2>1 DEF QueueInv, ServerOwns
  <2> QED
    BY <1>1, <2>2, <2>3 DEF ServerOwns
<1>9. WaitersServed'
  BY <1>1, <1>2, <1>3, <1>4 DEF QueueInv, WaitersServed, TypeOK
<1>10. InflightCounts'
  <2>1. Alive' = Alive
    BY <1>1 DEF Alive, TypeOK
  <2> QED
    BY <1>1, <2>1 DEF QueueInv, InflightCounts
<1> QED
  BY <1>6, <1>7, <1>8, <1>9, <1>10 DEF QueueInv

LEMMA LockForGCKeepsInv ==
    ASSUME TypeOK, QueueInv, NEW c \in Call, LockForGC(c)
    PROVE  QueueInv'
<1>1. /\ drainPC[c] = "gc" /\ qmu = None
      /\ \/ /\ sessions[Sid(c)] = sqOf[c]
            /\ qmu' = c
            /\ drainPC' = [drainPC EXCEPT ![c] = "gcLocked"]
         \/ drainPC' = [drainPC EXCEPT ![c] = "exit"] /\ qmu' = qmu
      /\ UNCHANGED <<sessions, running, waiters, enqPC, sqOf, inflight>>
  BY DEF LockForGC
<1>2. \A d \in Call : Serving(d)' <=> Serving(d)
  BY <1>1 DEF Serving, TypeOK, ActiveStates
<1>3. \A d \in Call : enqPC[d] # "locked" /\ drainPC[d] # "gcLocked"
  BY <1>1, NoneAssumption DEF QueueInv, MapLocked
<1>4. PhaseInv'
  BY <1>1 DEF QueueInv, PhaseInv, Untouched, TypeOK
<1>5. SameSession' /\ MapLocked'
  BY <1>1, <1>3 DEF QueueInv, SameSession, MapLocked, TypeOK
<1>6. ServerOwns' /\ WaitersServed'
  BY <1>1, <1>2 DEF QueueInv, ServerOwns, WaitersServed
<1>7. InflightCounts'
  <2>1. Alive' = Alive
    BY <1>1 DEF Alive, TypeOK
  <2> QED
    BY <1>1, <2>1 DEF QueueInv, InflightCounts
<1> QED
  BY <1>4, <1>5, <1>6, <1>7 DEF QueueInv

LEMMA CollectKeepsInv ==
    ASSUME TypeOK, QueueInv, NEW c \in Call, Collect(c)
    PROVE  QueueInv'
<1> DEFINE sq == sqOf[c]
<1>1. /\ drainPC[c] = "gcLocked"
      /\ \/ /\ ~running[sq]
            /\ sessions' = [sessions EXCEPT ![Sid(c)] = None]
         \/ sessions' = sessions
      /\ qmu' = None
      /\ drainPC' = [drainPC EXCEPT ![c] = "exit"]
      /\ UNCHANGED <<running, waiters, enqPC, sqOf, inflight>>
  BY DEF Collect
<1>2. qmu = c /\ sessions[Sid(c)] = sq /\ enqPC[c] = "done" /\ sq \in Call
  BY <1>1 DEF QueueInv, MapLocked, PhaseInv
<1>3. \A d \in Call : Serving(d)' <=> Serving(d)
  BY <1>1 DEF Serving, TypeOK, ActiveStates
<1>4. \A d \in Call : d # c => enqPC[d] # "locked" /\ drainPC[d] # "gcLocked"
  BY <1>2 DEF QueueInv, MapLocked
<1>5. PhaseInv'
  <2>1. \A d \in Call, s \in Session : sessions[s] # d => sessions'[s] # d
    BY <1>1, NoneAssumption DEF TypeOK
  <2> QED
    BY <1>1, <1>2, <2>1 DEF QueueInv, PhaseInv, Untouched, TypeOK
<1>6. SameSession'
  BY <1>1, NoneAssumption DEF QueueInv, SameSession, TypeOK
<1>7. MapLocked'
  BY <1>1, <1>2, <1>4 DEF MapLocked, TypeOK
<1>8. \A d \in Call : Serving(d) => sessions'[Sid(d)] = sessions[Sid(d)]
  <2> SUFFICES ASSUME NEW d \in Call, Serving(d), ~running[sq], Sid(d) = Sid(c)
               PROVE  FALSE
    BY <1>1, SidType DEF TypeOK
  <2>1. running[sqOf[d]] /\ sqOf[d] = sq
    BY <1>2 DEF QueueInv, ServerOwns
  <2> QED
    BY <2>1
<1>9. ServerOwns' /\ WaitersServed'
  BY <1>1, <1>3, <1>8 DEF QueueInv, ServerOwns, WaitersServed
<1>10. InflightCounts'
  <2>1. Alive' = Alive
    BY <1>1 DEF Alive, TypeOK
  <2> QED
    BY <1>1, <2>1 DEF QueueInv, InflightCounts
<1> QED
  BY <1>5, <1>6, <1>7, <1>9, <1>10 DEF QueueInv

LEMMA DoneKeepsInv ==
    ASSUME TypeOK, QueueInv, NEW c \in Call, DrainDone(c)
    PROVE  QueueInv'
<1>1. /\ drainPC[c] = "exit"
      /\ drainPC' = [drainPC EXCEPT ![c] = "gone"]
      /\ inflight' = inflight - 1
      /\ UNCHANGED <<qmu, sessions, running, waiters, enqPC, sqOf>>
  BY DEF DrainDone
<1>2. \A d \in Call : Serving(d)' <=> Serving(d)
  BY <1>1 DEF Serving, TypeOK, ActiveStates
<1>3. PhaseInv'
  BY <1>1 DEF QueueInv, PhaseInv, Untouched, TypeOK
<1>4. SameSession' /\ MapLocked'
  BY <1>1 DEF QueueInv, SameSession, MapLocked, TypeOK
<1>5. ServerOwns' /\ WaitersServed'
  BY <1>1, <1>2 DEF QueueInv, ServerOwns, WaitersServed
<1>6. InflightCounts'
  BY DoneCounts DEF QueueInv
<1> QED
  BY <1>3, <1>4, <1>5, <1>6 DEF QueueInv

\* Emptying the waiting list needs nothing of anybody.
LEMMA EndTakeKeepsInv ==
    ASSUME TypeOK, QueueInv, NEW c \in Call, EndTake(c)
    PROVE  QueueInv'
<1>1. /\ drainPC[c] = "partition"
      /\ waiters' = [waiters EXCEPT ![sqOf[c]] = << >>]
      /\ drainPC' = [drainPC EXCEPT ![c] = "forget"]
      /\ UNCHANGED <<qmu, sessions, running, enqPC, sqOf, inflight>>
  BY DEF EndTake
<1>2. \A d \in Call : Serving(d)' <=> Serving(d)
  BY <1>1 DEF Serving, TypeOK, ActiveStates
<1>3. PhaseInv'
  BY <1>1 DEF QueueInv, PhaseInv, Untouched, TypeOK
<1>4. SameSession' /\ MapLocked'
  BY <1>1 DEF QueueInv, SameSession, MapLocked, TypeOK
<1>5. ServerOwns' /\ WaitersServed'
  BY <1>1, <1>2 DEF QueueInv, ServerOwns, WaitersServed, TypeOK
<1>6. InflightCounts'
  <2>1. Alive' = Alive
    BY <1>1 DEF Alive, TypeOK
  <2> QED
    BY <1>1, <2>1 DEF QueueInv, InflightCounts
<1> QED
  BY <1>3, <1>4, <1>5, <1>6 DEF QueueInv

\* The rest of a drain's loop moves it between working states.
LEMMA DrainKeepsInv ==
    ASSUME TypeOK, QueueInv, NEW c \in Call, DrainStep(c)
    PROVE  QueueInv'
<1>1. CASE BeginTake(c)
  BY <1>1, SameServers DEF BeginTake, ActiveStates
<1>2. CASE PartitionOne(c)
  BY <1>2, SameServers DEF PartitionOne
<1>3. CASE Forget(c)
  BY <1>3, SameServers DEF Forget, ActiveStates
<1>4. CASE Unmark(c)
  BY <1>4, SameServers DEF Unmark
<1>5. CASE UnmarkEnd(c)
  BY <1>5, SameServers DEF UnmarkEnd, ActiveStates
<1>6. CASE NotifyCancelled(c)
  BY <1>6, SameServers DEF NotifyCancelled, ActiveStates
<1>7. CASE StartRun(c)
  BY <1>7, SameServers DEF StartRun, ActiveStates
<1>8. CASE EndRun(c)
  BY <1>8, SameServers DEF EndRun, ActiveStates
<1>9. CASE EndGrace(c)
  BY <1>9, SameServers DEF EndGrace, ActiveStates
<1> QED
  BY <1>1, <1>2, <1>3, <1>4, <1>5, <1>6, <1>7, <1>8, <1>9, EndTakeKeepsInv,
     LeaveEmptyKeepsInv, LockForGCKeepsInv, CollectKeepsInv, DoneKeepsInv
     DEF DrainStep, TakeStep, BatchStep, LeaveStep

\* MarkCancelled touches neither the queues nor their goroutines.
LEMMA CancelKeepsInv ==
    ASSUME TypeOK, QueueInv, UNCHANGED <<mapVars, sqVars, enqVars, drainVars>>
    PROVE  QueueInv'
BY DEF QueueInv, PhaseInv, Untouched, SameSession, MapLocked, ServerOwns, Serving,
       WaitersServed, InflightCounts, Alive

LEMMA InitHasInv == Init => TypeOK /\ QueueInv
<1> SUFFICES ASSUME Init PROVE TypeOK /\ QueueInv
  OBVIOUS
<1>1. TypeOK
  BY DEF Init, EmptyQueue, TypeOK, EnqStates, DrainStates
<1>2. PhaseInv /\ SameSession /\ MapLocked
  BY NoneAssumption DEF Init, EmptyQueue, PhaseInv, Untouched, SameSession, MapLocked
<1>3. ServerOwns /\ WaitersServed
  BY DEF Init, EmptyQueue, ServerOwns, WaitersServed, Serving, ActiveStates
<1>4. InflightCounts
  <2>1. Alive = {}
    BY DEF Init, EmptyQueue, Alive
  <2> QED
    BY <2>1, FS_EmptySet DEF Init, EmptyQueue, InflightCounts
<1> QED
  BY <1>1, <1>2, <1>3, <1>4 DEF QueueInv

LEMMA NextKeepsInv ==
    TypeOK /\ QueueInv /\ [Next]_vars => TypeOK' /\ QueueInv'
<1> SUFFICES ASSUME TypeOK, QueueInv, [Next]_vars
             PROVE  TypeOK' /\ QueueInv'
  OBVIOUS
<1>1. /\ InflightCounts
      /\ \A c \in Call : /\ enqPC[c] = "locked" => sqOf[c] \in Call
                         /\ drainPC[c] \notin {"none", "gone"} => sqOf[c] \in Call
  BY DEF QueueInv, PhaseInv
<1>2. ASSUME NEW c \in Call, WriteMarker(c) \/ EnqueueProgress(c)
      PROVE  TypeOK' /\ QueueInv'
  <2>1. TypeOK'
    BY <1>1, <1>2, EnqueueTypes
  <2> QED
    BY <1>2, <2>1, EnqueueKeepsInv
<1>3. ASSUME NEW c \in Call, DrainStep(c)
      PROVE  TypeOK' /\ QueueInv'
  <2>1. TypeOK'
    BY <1>1, <1>3, DrainTypes
  <2> QED
    BY <1>3, <2>1, DrainKeepsInv
<1>4. ASSUME NEW r \in Reaction, CancelStep(r)
      PROVE  TypeOK' /\ QueueInv'
  <2>1. UNCHANGED <<mapVars, sqVars, enqVars, drainVars>>
    BY <1>4 DEF CancelStep, FindQueued, SetCancelled
  <2> QED
    BY <1>4, <2>1, CancelTypes, CancelKeepsInv
<1>5. CASE UNCHANGED vars
  <2>1. TypeOK'
    BY <1>5 DEF vars, TypeOK
  <2>2. UNCHANGED <<mapVars, sqVars, enqVars, drainVars>>
    BY <1>5 DEF vars
  <2> QED
    BY <2>1, <2>2, CancelKeepsInv
<1> QED
  BY <1>2, <1>3, <1>4, <1>5 DEF Next, Finished

\* The inductive invariant holds of every behaviour: the lock, ownership and
\* counting discipline of Enqueue and drain.
THEOREM QueueInvariant == Spec => [](TypeOK /\ QueueInv)
BY InitHasInv, NextKeepsInv, PTL DEF Spec

\* The variables keep their types; in particular the WaitGroup's counter never
\* goes below zero, which would panic (sessionqueue.go:234, 249).
THEOREM TypesHold == Spec => []TypeOK
BY QueueInvariant, PTL

LEMMA InvSerializes == TypeOK /\ QueueInv => OneDrainPerSession
BY DEF QueueInv, ServerOwns, OneDrainPerSession

\* At most one goroutine serves a session at any time, for any number of
\* concurrent Enqueue calls and any interleaving with the garbage collection of
\* idle sessions (sessionqueue.go:17-19, 203-213).
THEOREM Serialization == Spec => []OneDrainPerSession
BY QueueInvariant, InvSerializes, PTL

LEMMA InvServesWaiters == TypeOK /\ QueueInv => NoStrandedWaiter
<1> SUFFICES ASSUME TypeOK, QueueInv, NEW q \in Call, waiters[q] # << >>
             PROVE  /\ sessions[Sid(q)] = q
                    /\ \E c \in Call : Serving(c) /\ sqOf[c] = q
  BY DEF NoStrandedWaiter
<1>1. PICK c \in Call : Serving(c) /\ sqOf[c] = q
  BY DEF QueueInv, WaitersServed
<1>2. sessions[Sid(c)] = q
  BY <1>1 DEF QueueInv, ServerOwns
<1>3. Sid(q) = Sid(c)
  BY <1>1 DEF QueueInv, SameSession
<1> QED
  BY <1>1, <1>2, <1>3

\* No waiter is left in a queue nobody serves or the map has forgotten, however
\* a drain's exit interleaves with new arrivals (sessionqueue.go:251-268).
THEOREM WaitersAreServed == Spec => []NoStrandedWaiter
BY QueueInvariant, InvServesWaiters, PTL

(* ------------------- what is left when all is quiet ---------------------- *)

\* Where a drain has a batch, or is still making one.
TakingStates == {"partition", "forget", "unmark", "notify"}
BatchStates == {"forget", "unmark", "notify", "run", "running"}

\* Whether a message waits in a queue, or is in the hands of a drain.
Waiting(m) == \E q \in Call : m \in MsgsIn(waiters[q])
Held(m, states) ==
    \E d \in Call : drainPC[d] \in states /\ m \in MsgsIn(batch[d]) \cup MsgsIn(dropped[d])

\* A drain's locals: while it partitions it holds sq.mu and what it has visited
\* is in one of the lists; a list is empty where it is not in use; a batch in
\* work has been handed to the Runner.
HeldBy(c) ==
    /\ drainPC[c] = "partition" =>
          /\ sqmu[sqOf[c]] = c
          /\ Visited(c) <= Len(waiters[sqOf[c]])
          /\ \A i \in 1..Visited(c) :
                waiters[sqOf[c]][i] \in MsgsIn(batch[c]) \cup MsgsIn(dropped[c])
    /\ drainPC[c] \notin BatchStates \cup {"partition"} => batch[c] = << >>
    /\ drainPC[c] \notin TakingStates => dropped[c] = << >>
    /\ drainPC[c] = "running" => MsgsIn(batch[c]) \subseteq ran

HeldInv == \A c \in Call : HeldBy(c)

\* An accepted message waits, is held by a drain, or has its outcome.
Served(m) == m \in ran \cup stopped \/ Waiting(m) \/ Held(m, BatchStates)
AnsweredInv == \A c \in Call : enqPC[c] \in {"ack", "spawn", "done"} => Served(c)

\* An index entry names a message of its key that is being queued, waits, or was
\* taken by a drain that is about to delete the entry.
Indexed(m) == enqPC[m] = "locked" \/ Waiting(m) \/ Held(m, {"forget"})
IndexInv ==
    \A k \in Key, m \in Call : queuedByMsg[k] = m => KeyOf[m] = k /\ Indexed(m)

\* A map entry names a queue that is run, about to be run, or about to be
\* collected.
Attended(q) ==
    \/ running[q]
    \/ \E c \in Call : sqOf[c] = q /\ (enqPC[c] = "locked" \/ drainPC[c] \in {"gc", "gcLocked"})
EntryInv == \A s \in Session, q \in Call : sessions[s] = q => Attended(q)

CleanInv == HeldInv /\ AnsweredInv /\ IndexInv /\ EntryInv

\* A take is over only at the end of the waiting list: the lists then hold all
\* of it.
LEMMA TakenAll ==
    ASSUME TypeOK, QueueInv, HeldInv, NEW c \in Call, EndTake(c)
    PROVE  MsgsIn(waiters[sqOf[c]]) \subseteq MsgsIn(batch[c]) \cup MsgsIn(dropped[c])
<1>1. drainPC[c] = "partition" /\ Visited(c) = Len(waiters[sqOf[c]])
  BY DEF EndTake
<1>2. \A i \in 1..Len(waiters[sqOf[c]]) :
          waiters[sqOf[c]][i] \in MsgsIn(batch[c]) \cup MsgsIn(dropped[c])
  BY <1>1 DEF HeldInv, HeldBy
<1> QED
  BY <1>2 DEF MsgsIn

\* A drain that stays where it is keeps what it has, if nobody changes the queue
\* it partitions.
LEMMA OtherHeld ==
    ASSUME NEW d \in Call, HeldBy(d), drainPC'[d] = drainPC[d], batch'[d] = batch[d],
           dropped'[d] = dropped[d], ran \subseteq ran',
           drainPC[d] = "partition" =>
               /\ sqOf'[d] = sqOf[d]
               /\ sqmu'[sqOf[d]] = sqmu[sqOf[d]]
               /\ waiters'[sqOf[d]] = waiters[sqOf[d]]
    PROVE  HeldBy(d)'
<1>1. Visited(d)' = Visited(d)
  BY DEF Visited
<1>2. MsgsIn(batch'[d]) = MsgsIn(batch[d]) /\ MsgsIn(dropped'[d]) = MsgsIn(dropped[d])
  OBVIOUS
<1> QED
  BY <1>1, <1>2 DEF HeldBy

\* Nobody but its own drain touches what a partitioning drain looks at.
LEMMA EnqueueKeepsHeld ==
    ASSUME TypeOK, QueueInv, HeldInv, NEW c \in Call, WriteMarker(c) \/ EnqueueProgress(c)
    PROVE  HeldInv'
<1>1. UNCHANGED <<sqmu, batch, dropped, ran>>
  BY DEF EnqueueProgress, WriteMarker, LookUpSession, AppendWaiter, Ack, SpawnDrain
<1> SUFFICES ASSUME NEW d \in Call PROVE HeldBy(d)'
  BY DEF HeldInv
<1>2. HeldBy(d)
  BY DEF HeldInv
<1>3. CASE WriteMarker(c) \/ Ack(c)
  BY <1>1, <1>2, <1>3, OtherHeld DEF WriteMarker, Ack
<1>4. CASE LookUpSession(c)
  <2>1. drainPC[d] = "partition" => sqOf'[d] = sqOf[d]
    BY <1>4 DEF LookUpSession, QueueInv, PhaseInv, TypeOK
  <2> QED
    BY <1>1, <1>2, <1>4, <2>1, OtherHeld DEF LookUpSession
<1>5. CASE AppendWaiter(c)
  <2>1. ASSUME drainPC[d] = "partition"
        PROVE  waiters'[sqOf[d]] = waiters[sqOf[d]]
    <3>1. sqOf[d] # sqOf[c] /\ sqOf[d] \in Call
      BY <1>2, <1>5, <2>1, NoneAssumption DEF AppendWaiter, HeldBy, QueueInv, PhaseInv
    <3> QED
      BY <1>5, <3>1 DEF AppendWaiter, TypeOK
  <2> QED
    BY <1>1, <1>2, <1>5, <2>1, OtherHeld DEF AppendWaiter
<1>6. CASE SpawnDrain(c)
  <2>1. drainPC[c] = "none" /\ drainPC' = [drainPC EXCEPT ![c] = "loop"]
    BY <1>6 DEF SpawnDrain, QueueInv, PhaseInv
  <2>2. UNCHANGED <<sqOf, waiters>>
    BY <1>6 DEF SpawnDrain
  <2>3. CASE d = c
    BY <1>1, <1>2, <2>1, <2>3 DEF HeldBy, TypeOK, BatchStates, TakingStates
  <2>4. CASE d # c
    BY <1>1, <1>2, <2>1, <2>2, <2>4, OtherHeld DEF TypeOK
  <2> QED
    BY <2>3, <2>4
<1> QED
  BY <1>3, <1>4, <1>5, <1>6 DEF EnqueueProgress

\* One turn of the partition loop visits the next message.
LEMMA PartitionNext ==
    ASSUME TypeOK, QueueInv, NEW c \in Call, PartitionOne(c)
    PROVE  LET w == waiters[sqOf[c]]
               n == Visited(c) + 1
           IN  /\ Visited(c) \in Nat /\ n \in 1..Len(w) /\ w[n] \in Call
               /\ Visited(c)' = n
<1> DEFINE w == waiters[sqOf[c]]
           n == Visited(c) + 1
           nb == Len(batch[c])
           nd == Len(dropped[c])
           nb2 == Len(batch'[c])
           nd2 == Len(dropped'[c])
<1>1. /\ drainPC[c] = "partition" /\ Visited(c) < Len(w)
      /\ \/ dropped' = [dropped EXCEPT ![c] = Append(@, w[n])] /\ batch' = batch
         \/ batch' = [batch EXCEPT ![c] = Append(@, w[n])] /\ dropped' = dropped
  BY DEF PartitionOne
<1>2. w \in Seq(Call) /\ batch[c] \in Seq(Call) /\ dropped[c] \in Seq(Call)
  BY <1>1 DEF TypeOK, QueueInv, PhaseInv
<1>3. nb \in Nat /\ nd \in Nat /\ Len(w) \in Nat /\ Visited(c) = nb + nd
  BY <1>2, LenProperties DEF Visited
<1> HIDE DEF nb, nd
<1>4. Visited(c) \in Nat /\ n \in 1..Len(w)
  BY <1>1, <1>3
<1>5. w[n] \in Call
  BY <1>2, <1>4, ElementOfSeq
<1>6. \/ dropped'[c] = Append(dropped[c], w[n]) /\ batch'[c] = batch[c]
      \/ batch'[c] = Append(batch[c], w[n]) /\ dropped'[c] = dropped[c]
  BY <1>1 DEF TypeOK
<1>7. \A s \in Seq(Call) : Len(Append(s, w[n])) = Len(s) + 1
  BY <1>5, AppendMsgs
<1> HIDE DEF w
<1>8. (nd2 = nd + 1 /\ nb2 = nb) \/ (nb2 = nb + 1 /\ nd2 = nd)
  BY <1>2, <1>6, <1>7 DEF nb, nd
<1>9. Visited(c)' = n
  <2>1. Visited(c)' = nb2 + nd2
    BY DEF Visited
  <2> HIDE DEF nb2, nd2
  <2> QED
    BY <1>3, <1>8, <2>1
<1> QED
  BY <1>4, <1>5, <1>9 DEF w

\* One turn of the partition loop puts the message it visits into a list.
LEMMA PartitionKeepsHeld ==
    ASSUME TypeOK, QueueInv, HeldInv, NEW c \in Call, PartitionOne(c)
    PROVE  HeldBy(c)'
<1> DEFINE w == waiters[sqOf[c]]
           n == Visited(c) + 1
<1>1. /\ drainPC[c] = "partition"
      /\ \/ dropped' = [dropped EXCEPT ![c] = Append(@, w[n])] /\ batch' = batch
         \/ batch' = [batch EXCEPT ![c] = Append(@, w[n])] /\ dropped' = dropped
      /\ UNCHANGED <<waiters, sqmu, drainPC, sqOf, ran>>
  BY DEF PartitionOne
<1>2. batch[c] \in Seq(Call) /\ dropped[c] \in Seq(Call)
  BY DEF TypeOK
<1>3. Visited(c) \in Nat /\ n \in 1..Len(w) /\ w[n] \in Call /\ Visited(c)' = n
  BY PartitionNext
<1>4. \/ dropped'[c] = Append(dropped[c], w[n]) /\ batch'[c] = batch[c]
      \/ batch'[c] = Append(batch[c], w[n]) /\ dropped'[c] = dropped[c]
  BY <1>1 DEF TypeOK
<1>5. \A s \in Seq(Call) : MsgsIn(Append(s, w[n])) = MsgsIn(s) \cup {w[n]}
  BY <1>3, AppendMsgs
<1> HIDE DEF w
<1>6. MsgsIn(batch'[c]) \cup MsgsIn(dropped'[c])
         = MsgsIn(batch[c]) \cup MsgsIn(dropped[c]) \cup {w[n]}
  BY <1>2, <1>4, <1>5
<1>7. \A i \in 1..n : i \in 1..Visited(c) \/ i = n
  BY <1>3
<1>8. \A i \in 1..n : w[i] \in MsgsIn(batch'[c]) \cup MsgsIn(dropped'[c])
  BY <1>1, <1>6, <1>7 DEF HeldInv, HeldBy, w
<1>9. n <= Len(w)
  BY <1>3
<1>10. /\ sqmu'[sqOf'[c]] = c
       /\ Visited(c)' <= Len(waiters'[sqOf'[c]])
       /\ \A i \in 1..Visited(c)' :
             waiters'[sqOf'[c]][i] \in MsgsIn(batch'[c]) \cup MsgsIn(dropped'[c])
  BY <1>1, <1>3, <1>8, <1>9 DEF HeldInv, HeldBy, w
<1> QED
  BY <1>1, <1>10 DEF HeldBy, BatchStates, TakingStates

\* A drain's step leaves the other drains alone and takes back no outcome.
LEMMA DrainFrame ==
    ASSUME TypeOK, NEW c \in Call, DrainStep(c)
    PROVE  /\ UNCHANGED <<enqPC, sqOf, rxVars>>
           /\ drainPC[c] # "none"
           /\ ran \subseteq ran' /\ stopped \subseteq stopped'
           /\ \A d \in Call : d # c =>
                 drainPC'[d] = drainPC[d] /\ batch'[d] = batch[d] /\ dropped'[d] = dropped[d]
<1>1. CASE LeaveStep(c)
  BY <1>1 DEF TypeOK, LeaveStep, LeaveEmpty, LockForGC, Collect, DrainDone
<1>2. CASE TakeStep(c)
  BY <1>2 DEF TypeOK, TakeStep, BeginTake, PartitionOne, EndTake
<1>3. CASE Forget(c) \/ Unmark(c) \/ UnmarkEnd(c) \/ NotifyCancelled(c)
  BY <1>3 DEF TypeOK, Forget, Unmark, UnmarkEnd, NotifyCancelled
<1>4. CASE StartRun(c) \/ EndRun(c) \/ EndGrace(c)
  BY <1>4 DEF TypeOK, StartRun, EndRun, EndGrace
<1> QED
  BY <1>1, <1>2, <1>3, <1>4 DEF DrainStep, BatchStep

\* Nobody but its drain, between the two steps of a take, empties or locks the
\* queue it partitions.
LEMMA PartitionedQueue ==
    ASSUME TypeOK, QueueInv, HeldInv, NEW c \in Call, DrainStep(c),
           NEW d \in Call, d # c, drainPC[d] = "partition"
    PROVE  sqmu'[sqOf[d]] = sqmu[sqOf[d]] /\ waiters'[sqOf[d]] = waiters[sqOf[d]]
<1>1. sqOf[d] \in Call /\ sqmu[sqOf[d]] = d
  BY DEF HeldInv, HeldBy, QueueInv, PhaseInv
<1>2. CASE BeginTake(c)
  BY <1>1, <1>2, NoneAssumption DEF BeginTake, TypeOK
<1>3. CASE EndTake(c)
  <2>1. sqmu[sqOf[c]] = c
    BY <1>3 DEF EndTake, HeldInv, HeldBy
  <2> QED
    BY <1>1, <1>3, <2>1 DEF EndTake, TypeOK
<1>4. CASE ~BeginTake(c) /\ ~EndTake(c)
  BY <1>4 DEF DrainStep, TakeStep, BatchStep, LeaveStep, LeaveEmpty, LockForGC, Collect,
         DrainDone, PartitionOne, Forget, Unmark, UnmarkEnd, NotifyCancelled, StartRun,
         EndRun, EndGrace
<1> QED
  BY <1>2, <1>3, <1>4

LEMMA DrainKeepsHeld ==
    ASSUME TypeOK, QueueInv, HeldInv, NEW c \in Call, DrainStep(c)
    PROVE  HeldInv'
<1> USE DEF BatchStates, TakingStates
<1>1. /\ UNCHANGED sqOf
      /\ drainPC[c] # "none" /\ sqOf[c] \in Call
      /\ ran \subseteq ran'
      /\ \A d \in Call : d # c =>
            drainPC'[d] = drainPC[d] /\ batch'[d] = batch[d] /\ dropped'[d] = dropped[d]
  BY DrainFrame DEF QueueInv, PhaseInv
<1>2. HeldBy(c)
  BY DEF HeldInv
<1>3. ASSUME NEW d \in Call, d # c
      PROVE  HeldBy(d)'
  <2>1. drainPC[d] = "partition" =>
           sqmu'[sqOf[d]] = sqmu[sqOf[d]] /\ waiters'[sqOf[d]] = waiters[sqOf[d]]
    BY <1>3, PartitionedQueue
  <2> QED
    BY <1>1, <1>3, <2>1, OtherHeld DEF HeldInv
<1>4. HeldBy(c)'
  <2>1. CASE LeaveStep(c)
    <3>1. /\ drainPC[c] \in {"loop", "gc", "gcLocked", "exit"}
          /\ drainPC'[c] \in {"gc", "gcLocked", "exit", "gone"}
          /\ UNCHANGED <<batch, dropped>>
      BY <2>1 DEF LeaveStep, LeaveEmpty, LockForGC, Collect, DrainDone, TypeOK
    <3> QED
      BY <1>2, <3>1 DEF HeldBy
  <2>2. CASE BeginTake(c)
    <3>1. /\ drainPC[c] = "loop" /\ drainPC'[c] = "partition" /\ sqmu'[sqOf[c]] = c
          /\ UNCHANGED <<waiters, batch, dropped>>
      BY <1>1, <2>2 DEF BeginTake, TypeOK
    <3>2. batch'[c] = << >> /\ dropped'[c] = << >>
      BY <1>2, <3>1 DEF HeldBy
    <3>3. Visited(c)' = 0
      BY <3>2 DEF Visited
    <3>4. waiters[sqOf[c]] \in Seq(Call)
      BY <1>1 DEF TypeOK
    <3>5. 0 <= Len(waiters[sqOf[c]])
      BY <3>4, LenProperties
    <3> QED
      BY <1>1, <3>1, <3>3, <3>5 DEF HeldBy
  <2>3. CASE PartitionOne(c)
    BY <2>3, PartitionKeepsHeld
  <2>4. CASE EndTake(c)
    BY <2>4 DEF EndTake, HeldBy, TypeOK
  <2>5. CASE Forget(c) \/ Unmark(c) \/ UnmarkEnd(c)
    BY <1>2, <2>5 DEF Forget, Unmark, UnmarkEnd, HeldBy, TypeOK
  <2>6. CASE NotifyCancelled(c)
    <3>1. /\ dropped'[c] = << >> /\ UNCHANGED batch
          /\ drainPC'[c] = IF batch[c] = << >> THEN "loop" ELSE "run"
      BY <2>6 DEF NotifyCancelled, TypeOK
    <3> QED
      BY <3>1 DEF HeldBy
  <2>7. CASE StartRun(c)
    <3>1. /\ drainPC[c] = "run" /\ drainPC'[c] = "running" /\ UNCHANGED <<batch, dropped>>
          /\ MsgsIn(batch[c]) \subseteq ran'
      BY <2>7 DEF StartRun, TypeOK
    <3> QED
      BY <1>2, <3>1 DEF HeldBy
  <2>8. CASE EndRun(c)
    <3>1. /\ drainPC[c] = "running" /\ drainPC'[c] = "grace" /\ batch'[c] = << >>
          /\ UNCHANGED dropped
      BY <2>8 DEF EndRun, TypeOK
    <3> QED
      BY <1>2, <3>1 DEF HeldBy
  <2>9. CASE EndGrace(c)
    BY <1>2, <2>9 DEF EndGrace, HeldBy, TypeOK
  <2> QED
    BY <2>1, <2>2, <2>3, <2>4, <2>5, <2>6, <2>7, <2>8, <2>9
       DEF DrainStep, TakeStep, BatchStep
<1> QED
  BY <1>3, <1>4 DEF HeldInv

\* Enqueue adds to the waiting lists and starts drains that hold nothing.
LEMMA EnqueueKeepsPlaces ==
    ASSUME TypeOK, QueueInv, NEW c \in Call, WriteMarker(c) \/ EnqueueProgress(c),
           NEW m \in Call, NEW states, "none" \notin states
    PROVE  /\ Waiting(m) => Waiting(m)'
           /\ Held(m, states) => Held(m, states)'
<1>1. UNCHANGED <<batch, dropped>>
  BY DEF EnqueueProgress, WriteMarker, LookUpSession, AppendWaiter, Ack, SpawnDrain
<1>2. \A d \in Call : drainPC[d] # "none" => drainPC'[d] = drainPC[d]
  BY DEF EnqueueProgress, WriteMarker, LookUpSession, AppendWaiter, Ack, SpawnDrain,
         QueueInv, PhaseInv, TypeOK
<1>3. \A q \in Call : MsgsIn(waiters[q]) \subseteq MsgsIn(waiters'[q])
  <2>1. CASE AppendWaiter(c)
    <3>1. \A q \in Call : waiters'[q] = waiters[q] \/ waiters'[q] = Append(waiters[q], c)
      BY <2>1 DEF AppendWaiter, TypeOK
    <3>2. \A q \in Call : waiters[q] \in Seq(Call)
      BY DEF TypeOK
    <3>3. \A q \in Call : MsgsIn(Append(waiters[q], c)) = MsgsIn(waiters[q]) \cup {c}
      BY <3>2, AppendMsgs
    <3> QED
      BY <3>1, <3>3
  <2>2. CASE ~AppendWaiter(c)
    BY <2>2 DEF EnqueueProgress, WriteMarker, LookUpSession, Ack, SpawnDrain
  <2> QED
    BY <2>1, <2>2
<1> QED
  BY <1>1, <1>2, <1>3 DEF Waiting, Held

\* A message that is accepted is never out of everybody's hands.
LEMMA DrainKeepsServed ==
    ASSUME TypeOK, QueueInv, HeldInv, NEW c \in Call, DrainStep(c),
           NEW m \in Call, Served(m)
    PROVE  Served(m)'
<1>1. /\ ran \subseteq ran' /\ stopped \subseteq stopped'
      /\ \A d \in Call : d # c =>
            drainPC'[d] = drainPC[d] /\ batch'[d] = batch[d] /\ dropped'[d] = dropped[d]
  BY DrainFrame
<1>2. Waiting(m) => Served(m)'
  <2>1. CASE EndTake(c)
    <3>1. /\ waiters' = [waiters EXCEPT ![sqOf[c]] = << >>]
          /\ drainPC'[c] = "forget" /\ UNCHANGED <<batch, dropped>>
      BY <2>1 DEF EndTake, TypeOK
    <3>2. m \in MsgsIn(waiters[sqOf[c]]) => Held(m, BatchStates)'
      BY <2>1, <3>1, TakenAll DEF Held, BatchStates
    <3>3. \A q \in Call : q # sqOf[c] => waiters'[q] = waiters[q]
      BY <3>1 DEF TypeOK
    <3> QED
      BY <3>2, <3>3 DEF Waiting, Served
  <2>2. CASE ~EndTake(c)
    <3>1. UNCHANGED waiters
      BY <2>2 DEF DrainStep, TakeStep, BatchStep, LeaveStep, LeaveEmpty, LockForGC, Collect,
             DrainDone, BeginTake, PartitionOne, Forget, Unmark, UnmarkEnd, NotifyCancelled,
             StartRun, EndRun, EndGrace
    <3> QED
      BY <3>1 DEF Waiting, Served
  <2> QED
    BY <2>1, <2>2
<1>3. ASSUME drainPC[c] \in BatchStates, m \in MsgsIn(batch[c]) \cup MsgsIn(dropped[c])
      PROVE  Served(m)'
  <2> USE DEF BatchStates, TakingStates
  <2>1. MsgsIn(<< >>) = {}
    BY DEF MsgsIn
  <2>2. HeldBy(c)
    BY DEF HeldInv
  <2>3. CASE Forget(c) \/ Unmark(c) \/ UnmarkEnd(c)
    BY <1>3, <2>3 DEF Forget, Unmark, UnmarkEnd, Served, Held, TypeOK
  <2>4. CASE NotifyCancelled(c)
    <3>1. /\ stopped' = stopped \cup MsgsIn(dropped[c]) /\ UNCHANGED batch
          /\ drainPC'[c] = IF batch[c] = << >> THEN "loop" ELSE "run"
      BY <2>4 DEF NotifyCancelled, TypeOK
    <3> QED
      BY <1>3, <2>1, <3>1 DEF Served, Held
  <2>5. CASE StartRun(c)
    <3>1. drainPC'[c] = "running" /\ UNCHANGED <<batch, dropped>>
      BY <2>5 DEF StartRun, TypeOK
    <3> QED
      BY <1>3, <3>1 DEF Served, Held
  <2>6. CASE EndRun(c)
    BY <1>1, <1>3, <2>1, <2>2, <2>6 DEF EndRun, HeldBy, Served
  <2>7. drainPC[c] \notin {"loop", "partition", "gc", "gcLocked", "exit", "grace"}
    BY <1>3
  <2> QED
    BY <2>3, <2>4, <2>5, <2>6, <2>7 DEF DrainStep, TakeStep, BatchStep, LeaveStep, LeaveEmpty,
       LockForGC, Collect, DrainDone, BeginTake, PartitionOne, EndTake, EndGrace
<1> QED
  BY <1>1, <1>2, <1>3 DEF Served, Held

LEMMA AnsweredKept ==
    ASSUME TypeOK, QueueInv, HeldInv, AnsweredInv, NEW c \in Call,
           WriteMarker(c) \/ EnqueueProgress(c) \/ DrainStep(c)
    PROVE  AnsweredInv'
<1> SUFFICES ASSUME NEW m \in Call, enqPC'[m] \in {"ack", "spawn", "done"}
             PROVE  Served(m)'
  BY DEF AnsweredInv
<1>1. CASE DrainStep(c)
  <2>1. UNCHANGED enqPC
    BY <1>1, DrainFrame
  <2> QED
    BY <1>1, <2>1, DrainKeepsServed DEF AnsweredInv
<1>2. CASE WriteMarker(c) \/ EnqueueProgress(c)
  <2>1. UNCHANGED <<ran, stopped>>
    BY <1>2 DEF EnqueueProgress, WriteMarker, LookUpSession, AppendWaiter, Ack, SpawnDrain
  <2>2. CASE AppendWaiter(c) /\ m = c
    <3>1. sqOf[c] \in Call
      BY <2>2 DEF AppendWaiter, QueueInv, PhaseInv
    <3>2. waiters'[sqOf[c]] = Append(waiters[sqOf[c]], c)
      BY <2>2, <3>1 DEF AppendWaiter, TypeOK
    <3>3. waiters[sqOf[c]] \in Seq(Call)
      BY <3>1 DEF TypeOK
    <3>4. c \in MsgsIn(waiters'[sqOf[c]])
      BY <3>2, <3>3, AppendMsgs
    <3>5. Waiting(c)'
      BY <3>1, <3>4 DEF Waiting
    <3> QED
      BY <2>2, <3>5 DEF Served
  <2>3. CASE ~(AppendWaiter(c) /\ m = c)
    <3>1. enqPC[m] \in {"ack", "spawn", "done"}
      BY <1>2, <2>3 DEF EnqueueProgress, WriteMarker, LookUpSession, AppendWaiter, Ack,
             SpawnDrain, TypeOK
    <3>2. Served(m)
      BY <3>1 DEF AnsweredInv
    <3>3. "none" \notin BatchStates
      BY DEF BatchStates
    <3> QED
      BY <1>2, <2>1, <3>2, <3>3, EnqueueKeepsPlaces DEF Served
  <2> QED
    BY <2>2, <2>3
<1> QED
  BY <1>1, <1>2

\* What a message indexed under its key still has to go through.
LEMMA IndexKept ==
    ASSUME TypeOK, QueueInv, HeldInv, IndexInv, NEW c \in Call,
           WriteMarker(c) \/ EnqueueProgress(c) \/ DrainStep(c)
    PROVE  IndexInv'
<1> SUFFICES ASSUME NEW k \in Key, NEW m \in Call, queuedByMsg'[k] = m
             PROVE  KeyOf[m] = k /\ Indexed(m)'
  BY DEF IndexInv
<1>1. CASE LookUpSession(c) /\ k = KeyOf[c]
  <2>1. m = c /\ enqPC'[c] = "locked"
    BY <1>1 DEF LookUpSession, TypeOK
  <2> QED
    BY <1>1, <2>1 DEF Indexed
<1>2. ASSUME ~(LookUpSession(c) /\ k = KeyOf[c])
      PROVE  KeyOf[m] = k /\ Indexed(m)
  <2>1. m = queuedByMsg[k]
    <3>1. CASE Forget(c)
      BY <3>1, NoneAssumption DEF Forget
    <3>2. CASE LookUpSession(c)
      BY <1>2, <3>2, KeyOfAssumption DEF LookUpSession, TypeOK
    <3>3. CASE ~Forget(c) /\ ~LookUpSession(c)
      BY <3>3 DEF WriteMarker, EnqueueProgress, AppendWaiter, Ack, SpawnDrain, DrainStep,
             TakeStep, BatchStep, LeaveStep, LeaveEmpty, LockForGC, Collect, DrainDone,
             BeginTake, PartitionOne, EndTake, Unmark, UnmarkEnd, NotifyCancelled,
             StartRun, EndRun, EndGrace
    <3> QED
      BY <3>1, <3>2, <3>3
  <2> QED
    BY <2>1 DEF IndexInv
<1>3. CASE WriteMarker(c) \/ EnqueueProgress(c)
  <2> SUFFICES ASSUME ~(LookUpSession(c) /\ k = KeyOf[c]) PROVE KeyOf[m] = k /\ Indexed(m)'
    BY <1>1
  <2>1. CASE Waiting(m) \/ Held(m, {"forget"})
    BY <1>2, <1>3, <2>1, EnqueueKeepsPlaces DEF Indexed
  <2>2. CASE enqPC[m] = "locked" /\ m # c
    BY <1>2, <1>3, <2>2 DEF Indexed, TypeOK, WriteMarker, EnqueueProgress, LookUpSession,
           AppendWaiter, Ack, SpawnDrain
  <2>3. CASE enqPC[m] = "locked" /\ m = c
    <3>1. AppendWaiter(c)
      BY <1>3, <2>3 DEF WriteMarker, EnqueueProgress, LookUpSession, Ack, SpawnDrain
    <3>2. sqOf[c] \in Call
      BY <3>1 DEF AppendWaiter, QueueInv, PhaseInv
    <3>3. waiters'[sqOf[c]] = Append(waiters[sqOf[c]], c) /\ waiters[sqOf[c]] \in Seq(Call)
      BY <3>1, <3>2 DEF AppendWaiter, TypeOK
    <3>4. c \in MsgsIn(waiters'[sqOf[c]])
      BY <3>3, AppendMsgs
    <3>5. Waiting(c)'
      BY <3>2, <3>4 DEF Waiting
    <3> QED
      BY <1>2, <2>3, <3>5 DEF Indexed
  <2> QED
    BY <1>2, <2>1, <2>2, <2>3 DEF Indexed
<1>4. CASE DrainStep(c)
  <2>1. ~LookUpSession(c)
    BY <1>4, DrainFrame DEF LookUpSession, QueueInv, PhaseInv, Untouched
  <2>2. CASE Forget(c)
    <3>1. /\ UNCHANGED <<enqPC, waiters, batch, dropped>>
          /\ drainPC' = [drainPC EXCEPT ![c] = "unmark"]
      BY <2>2 DEF Forget
    <3>2. k \notin {KeyOf[n] : n \in MsgsIn(batch[c]) \cup MsgsIn(dropped[c])}
      BY <2>2, NoneAssumption DEF Forget
    <3>3. m \notin MsgsIn(batch[c]) \cup MsgsIn(dropped[c])
      BY <1>2, <2>1, <3>2
    <3> QED
      BY <1>2, <2>1, <3>1, <3>3 DEF Indexed, Waiting, Held, TypeOK
  <2>3. CASE EndTake(c)
    <3>1. /\ waiters' = [waiters EXCEPT ![sqOf[c]] = << >>]
          /\ drainPC' = [drainPC EXCEPT ![c] = "forget"]
          /\ drainPC[c] = "partition"
          /\ UNCHANGED <<batch, dropped, enqPC>>
      BY <2>3 DEF EndTake
    <3>2. m \in MsgsIn(waiters[sqOf[c]]) => Held(m, {"forget"})'
      BY <2>3, <3>1, TakenAll DEF Held, TypeOK
    <3>3. \A q \in Call : q # sqOf[c] => waiters'[q] = waiters[q]
      BY <3>1 DEF TypeOK
    <3>4. Waiting(m) => Indexed(m)'
      BY <3>2, <3>3 DEF Waiting, Indexed
    <3>5. Held(m, {"forget"}) => Held(m, {"forget"})'
      BY <3>1 DEF Held, TypeOK
    <3> QED
      BY <1>2, <2>1, <3>1, <3>4, <3>5 DEF Indexed
  <2>4. CASE ~Forget(c) /\ ~EndTake(c)
    <3>1. /\ UNCHANGED <<enqPC, waiters>>
          /\ drainPC[c] # "forget"
          /\ \A d \in Call : d # c => /\ drainPC'[d] = drainPC[d]
                                      /\ batch'[d] = batch[d] /\ dropped'[d] = dropped[d]
      BY <1>4, <2>4 DEF DrainStep, TakeStep, BatchStep, LeaveStep, LeaveEmpty, LockForGC,
             Collect, DrainDone, BeginTake, PartitionOne, Unmark, UnmarkEnd,
             NotifyCancelled, StartRun, EndRun, EndGrace, TypeOK
    <3>2. Held(m, {"forget"}) => Held(m, {"forget"})'
      BY <3>1 DEF Held
    <3>3. Waiting(m) => Waiting(m)'
      BY <3>1 DEF Waiting
    <3> QED
      BY <1>2, <2>1, <3>1, <3>2, <3>3 DEF Indexed
  <2> QED
    BY <2>2, <2>3, <2>4
<1> QED
  BY <1>3, <1>4

\* A queue stays attended as long as a map entry names it.
LEMMA EntryKept ==
    ASSUME TypeOK, QueueInv, EntryInv, NEW c \in Call,
           WriteMarker(c) \/ EnqueueProgress(c) \/ DrainStep(c)
    PROVE  EntryInv'
<1> SUFFICES ASSUME NEW s \in Session, NEW q \in Call, sessions'[s] = q
             PROVE  Attended(q)'
  BY DEF EntryInv
<1>1. CASE LookUpSession(c)
  <2>1. /\ enqPC'[c] = "locked" /\ sqOf'[c] = sessions'[Sid(c)]
        /\ s # Sid(c) => sessions'[s] = sessions[s]
        /\ \A d \in Call : d # c => sqOf'[d] = sqOf[d] /\ enqPC'[d] = enqPC[d]
        /\ drainPC[c] = "none" /\ enqPC[c] # "locked"
        /\ UNCHANGED <<running, drainPC>>
    BY <1>1, SidType DEF LookUpSession, TypeOK, QueueInv, PhaseInv, Untouched
  <2>2. CASE s = Sid(c)
    BY <2>1, <2>2 DEF Attended
  <2>3. CASE s # Sid(c)
    BY <2>1, <2>3 DEF EntryInv, Attended
  <2> QED
    BY <2>2, <2>3
<1>2. CASE AppendWaiter(c)
  <2>1. /\ sqOf[c] \in Call /\ running' = [running EXCEPT ![sqOf[c]] = TRUE]
        /\ UNCHANGED <<sessions, sqOf, drainPC>>
        /\ \A d \in Call : d # c => enqPC'[d] = enqPC[d]
    BY <1>2 DEF AppendWaiter, TypeOK, QueueInv, PhaseInv
  <2>2. running'[sqOf[c]] /\ (running[q] => running'[q])
    BY <2>1 DEF TypeOK
  <2>3. Attended(q)
    BY <2>1 DEF EntryInv
  <2> QED
    BY <2>1, <2>2, <2>3 DEF Attended
<1>3. CASE WriteMarker(c) \/ Ack(c) \/ SpawnDrain(c)
  <2>1. /\ UNCHANGED <<sessions, sqOf, running>>
        /\ (drainPC[c] \notin {"gc", "gcLocked"} \/ UNCHANGED drainPC)
        /\ enqPC[c] # "locked"
        /\ \A d \in Call : d # c => enqPC'[d] = enqPC[d] /\ drainPC'[d] = drainPC[d]
    BY <1>3 DEF WriteMarker, Ack, SpawnDrain, TypeOK, QueueInv, PhaseInv
  <2> QED
    BY <2>1 DEF EntryInv, Attended
<1>4. CASE LeaveEmpty(c)
  <2>1. /\ UNCHANGED <<sessions, sqOf, enqPC>>
        /\ running' = [running EXCEPT ![sqOf[c]] = FALSE]
        /\ drainPC[c] = "loop" /\ drainPC' = [drainPC EXCEPT ![c] = "gc"]
    BY <1>4 DEF LeaveEmpty
  <2>2. CASE q = sqOf[c]
    BY <2>1, <2>2 DEF Attended, TypeOK
  <2>3. CASE q # sqOf[c]
    BY <2>1, <2>3 DEF EntryInv, Attended, TypeOK
  <2> QED
    BY <2>2, <2>3
<1>5. CASE LockForGC(c)
  <2>1. /\ UNCHANGED <<sessions, sqOf, enqPC, running>>
        /\ drainPC[c] = "gc"
        /\ \A d \in Call : d # c => drainPC'[d] = drainPC[d]
        /\ drainPC'[c] = "gcLocked" \/ sessions[Sid(c)] # sqOf[c]
    BY <1>5 DEF LockForGC, TypeOK
  <2>2. sqOf[c] = q => drainPC'[c] = "gcLocked"
    BY <2>1 DEF QueueInv, PhaseInv, SameSession, TypeOK
  <2> QED
    BY <2>1, <2>2 DEF EntryInv, Attended
<1>6. CASE Collect(c)
  <2> DEFINE sq == sqOf[c]
  <2>1. /\ drainPC[c] = "gcLocked" /\ sq \in Call
        /\ UNCHANGED <<sqOf, enqPC, running>>
        /\ \A d \in Call : d # c => drainPC'[d] = drainPC[d]
        /\ \/ sessions' = [sessions EXCEPT ![Sid(c)] = None]
           \/ UNCHANGED sessions /\ (waiters[sq] # << >> \/ running[sq])
    BY <1>6 DEF Collect, TypeOK, QueueInv, PhaseInv
  <2>2. waiters[sq] # << >> => running[sq]
    BY <2>1 DEF QueueInv, WaitersServed
  <2>3. sessions[s] = q /\ (q = sq => running[sq])
    <3>1. CASE sessions' = [sessions EXCEPT ![Sid(c)] = None]
      <4>1. s # Sid(c) /\ sessions[s] = q
        BY <3>1, NoneAssumption DEF TypeOK
      <4> QED
        BY <2>1, <4>1 DEF QueueInv, SameSession
    <3>2. CASE UNCHANGED sessions /\ (waiters[sq] # << >> \/ running[sq])
      BY <2>2, <3>2
    <3> QED
      BY <2>1, <3>1, <3>2
  <2> QED
    BY <2>1, <2>3 DEF EntryInv, Attended
<1>7. CASE DrainDone(c) \/ TakeStep(c) \/ BatchStep(c)
  <2>1. /\ UNCHANGED <<sessions, sqOf, enqPC, running>>
        /\ drainPC[c] \notin {"gc", "gcLocked"}
        /\ \A d \in Call : d # c => drainPC'[d] = drainPC[d]
    BY <1>7 DEF TakeStep, BatchStep, DrainDone, BeginTake, PartitionOne, EndTake, Forget,
           Unmark, UnmarkEnd, NotifyCancelled, StartRun, EndRun, EndGrace, TypeOK
  <2> QED
    BY <2>1 DEF EntryInv, Attended
<1> QED
  BY <1>1, <1>2, <1>3, <1>4, <1>5, <1>6, <1>7 DEF EnqueueProgress, DrainStep, LeaveStep

LEMMA InitIsClean == Init => CleanInv
<1> SUFFICES ASSUME Init PROVE CleanInv
  OBVIOUS
<1>1. HeldInv
  BY DEF Init, EmptyQueue, HeldInv, HeldBy, BatchStates, TakingStates
<1>2. AnsweredInv
  BY DEF Init, EmptyQueue, AnsweredInv
<1>3. IndexInv /\ EntryInv
  BY NoneAssumption DEF Init, EmptyQueue, IndexInv, EntryInv
<1> QED
  BY <1>1, <1>2, <1>3 DEF CleanInv

\* MarkCancelled moves no message.
LEMMA CancelKeepsClean ==
    ASSUME CleanInv, UNCHANGED <<mapVars, sqVars, enqVars, drainVars, outVars>>
    PROVE  CleanInv'
<1>1. HeldInv'
  BY OtherHeld DEF CleanInv, HeldInv
<1>2. \A m : /\ Waiting(m) <=> Waiting(m)'
             /\ Held(m, BatchStates) <=> Held(m, BatchStates)'
             /\ Held(m, {"forget"}) <=> Held(m, {"forget"})'
  BY DEF Waiting, Held, BatchStates
<1>3. AnsweredInv' /\ IndexInv'
  <2>1. \A m : Served(m) <=> Served(m)'
    BY <1>2 DEF Served
  <2>2. \A m : Indexed(m) <=> Indexed(m)'
    BY <1>2 DEF Indexed
  <2> QED
    BY <2>1, <2>2 DEF CleanInv, AnsweredInv, IndexInv
<1>4. EntryInv'
  BY DEF CleanInv, EntryInv, Attended
<1> QED
  BY <1>1, <1>3, <1>4 DEF CleanInv

LEMMA NextKeepsClean ==
    TypeOK /\ QueueInv /\ CleanInv /\ [Next]_vars => CleanInv'
<1> SUFFICES ASSUME TypeOK, QueueInv, CleanInv, [Next]_vars
             PROVE  CleanInv'
  OBVIOUS
<1>1. ASSUME NEW c \in Call, WriteMarker(c) \/ EnqueueProgress(c) \/ DrainStep(c)
      PROVE  CleanInv'
  BY <1>1, EnqueueKeepsHeld, DrainKeepsHeld, AnsweredKept, IndexKept, EntryKept DEF CleanInv
<1>2. ASSUME NEW r \in Reaction, CancelStep(r)
      PROVE  CleanInv'
  BY <1>2, CancelKeepsClean DEF CancelStep, FindQueued, SetCancelled
<1>3. CASE UNCHANGED vars
  BY <1>3, CancelKeepsClean DEF vars
<1> QED
  BY <1>1, <1>2, <1>3 DEF Next, Finished

LEMMA InvIsClean == TypeOK /\ QueueInv /\ CleanInv => QuietIsClean
<1> SUFFICES ASSUME TypeOK, QueueInv, CleanInv, Quiet
             PROVE  /\ \A q \in Call : waiters[q] = << >> /\ ~running[q]
                    /\ \A c \in Call : enqPC[c] = "done" => c \in ran \cup stopped
                    /\ \A s \in Session : sessions[s] = None
                    /\ \A k \in Key : queuedByMsg[k] = None
  BY DEF QuietIsClean
<1>1. \A c \in Call : drainPC[c] \in {"none", "gone"} /\ enqPC[c] \in {"idle", "done"}
  <2>1. Alive = {}
    BY FS_EmptySet DEF Quiet, QueueInv, InflightCounts
  <2> QED
    BY <2>1 DEF Quiet, Alive
<1>2. \A c \in Call : ~Serving(c)
  BY <1>1 DEF Serving, ActiveStates
<1>3. \A q \in Call : waiters[q] = << >> /\ ~running[q]
  BY <1>2 DEF QueueInv, WaitersServed
<1>4. \A m : ~Waiting(m) /\ ~Held(m, BatchStates)
  BY <1>1, <1>3 DEF Waiting, Held, BatchStates, MsgsIn
<1>5. \A m : ~Held(m, {"forget"})
  BY <1>1 DEF Held
<1>6. \A c \in Call : enqPC[c] = "done" => c \in ran \cup stopped
  BY <1>4 DEF CleanInv, AnsweredInv, Served
<1>7. \A s \in Session : sessions[s] = None
  <2>1. \A q \in Call : ~Attended(q)
    BY <1>1, <1>3 DEF Attended
  <2> QED
    BY <2>1 DEF CleanInv, EntryInv, TypeOK
<1>8. \A k \in Key : queuedByMsg[k] = None
  <2>1. \A m \in Call : ~Indexed(m)
    BY <1>1, <1>4, <1>5 DEF Indexed
  <2> QED
    BY <2>1 DEF CleanInv, IndexInv, TypeOK
<1> QED
  BY <1>3, <1>6, <1>7, <1>8

\* When the WaitGroup is at zero and no Enqueue is under way, every accepted
\* message has been run or answered and neither map has kept an entry: what the
\* wait of a SIGTERM relies on (sessionqueue.go:152-153, 255-266).
THEOREM QuietQueueIsClean == Spec => []QuietIsClean
<1>1. Init => TypeOK /\ QueueInv /\ CleanInv
  BY InitHasInv, InitIsClean
<1>2. TypeOK /\ QueueInv /\ CleanInv /\ [Next]_vars => (TypeOK /\ QueueInv /\ CleanInv)'
  BY NextKeepsInv, NextKeepsClean
<1> QED
  BY <1>1, <1>2, InvIsClean, PTL DEF Spec

(* --------------------- the refinement, step by step ---------------------- *)

\* A message waits once, in the queue its call found, and has no outcome yet.
WaitOnce ==
    \A q \in Call :
        /\ \A i, j \in 1..Len(waiters[q]) : waiters[q][i] = waiters[q][j] => i = j
        /\ \A m \in MsgsIn(waiters[q]) :
              /\ sqOf[m] = q /\ m \in Submitted
              /\ m \notin ran \cup stopped /\ ~Held(m, BatchStates)

\* A message taken is in one list of the drain of its queue, which has no outcome
\* for it before it calls the Runner; the Runner is not called for nothing.
HeldOnceBy(d) ==
    drainPC[d] \in BatchStates =>
        /\ MsgsIn(batch[d]) \cap MsgsIn(dropped[d]) = {}
        /\ drainPC[d] \in {"run", "running"} => batch[d] # << >>
        /\ \A m \in MsgsIn(batch[d]) \cup MsgsIn(dropped[d]) :
              /\ sqOf[m] = sqOf[d] /\ m \in Submitted
              /\ drainPC[d] # "running" => m \notin ran \cup stopped
HoldOnce == \A d \in Call : HeldOnceBy(d)

\* A list, as long as its members are among the first n of another one and in
\* the same order.
OrderedIn(part, seq, n) ==
    \E f \in [1..Len(part) -> 1..n] :
        /\ \A i, j \in 1..Len(part) : i < j => f[i] < f[j]
        /\ \A i \in 1..Len(part) : part[i] = seq[f[i]]

\* What a partitioning drain has so far: visited messages only, the batch in their
\* order, and among the others none but messages asked to be cancelled.
TakenBy(c) ==
    drainPC[c] = "partition" =>
        /\ waiters[sqOf[c]] # << >>
        /\ \A m \in MsgsIn(batch[c]) \cup MsgsIn(dropped[c]) :
              \E i \in 1..Visited(c) : m = waiters[sqOf[c]][i]
        /\ MsgsIn(batch[c]) \cap MsgsIn(dropped[c]) = {}
        /\ \A m \in MsgsIn(dropped[c]) : cancelled[m]
        /\ OrderedIn(batch[c], waiters[sqOf[c]], Visited(c))
TakeOrder == \A c \in Call : TakenBy(c)

\* An outcome is that of an accepted message, and so is a message a reaction
\* found.
SubmittedOnly ==
    /\ ran \cup stopped \subseteq Submitted
    /\ \A r \in Reaction : rxPC[r] = "found" => rxMsg[r] \in Submitted

PlaceInv == WaitOnce /\ HoldOnce /\ TakeOrder /\ SubmittedOnly

\* An Enqueue call changes nothing about the messages accepted before.
LEMMA EnqueueFrame ==
    ASSUME TypeOK, QueueInv, NEW c \in Call, WriteMarker(c) \/ EnqueueProgress(c)
    PROVE  /\ UNCHANGED <<sqmu, batch, dropped, ran, stopped, rxVars>>
           /\ \A m \in Submitted : m \in Submitted' /\ sqOf'[m] = sqOf[m]
           /\ \A d \in Call : \/ drainPC'[d] = drainPC[d]
                              \/ d = c /\ drainPC[d] = "none" /\ drainPC'[d] = "loop"
           /\ \A d \in Call : drainPC[d] # "none" => d \in Submitted
           /\ ~AppendWaiter(c) => UNCHANGED waiters
<1>1. CASE WriteMarker(c) \/ Ack(c)
  BY <1>1 DEF WriteMarker, Ack, TypeOK, QueueInv, PhaseInv, Submitted
<1>2. CASE LookUpSession(c)
  BY <1>2 DEF LookUpSession, TypeOK, QueueInv, PhaseInv, Submitted
<1>3. CASE AppendWaiter(c)
  BY <1>3 DEF AppendWaiter, TypeOK, QueueInv, PhaseInv, Submitted
<1>4. CASE SpawnDrain(c)
  BY <1>4 DEF SpawnDrain, TypeOK, QueueInv, PhaseInv, Submitted
<1> QED
  BY <1>1, <1>2, <1>3, <1>4 DEF EnqueueProgress

LEMMA EnqueueKeepsWaitOnce ==
    ASSUME TypeOK, QueueInv, PlaceInv, NEW c \in Call, WriteMarker(c) \/ EnqueueProgress(c)
    PROVE  WaitOnce'
<1>1. \A m : Held(m, BatchStates)' => Held(m, BatchStates)
  BY EnqueueFrame DEF Held, BatchStates
<1>2. ASSUME NEW q \in Call, NEW m \in Call, m \in MsgsIn(waiters[q])
      PROVE  /\ sqOf'[m] = q /\ m \in Submitted'
             /\ m \notin ran' \cup stopped' /\ ~Held(m, BatchStates)'
  BY <1>1, <1>2, EnqueueFrame DEF PlaceInv, WaitOnce
<1>3. CASE ~AppendWaiter(c)
  <2>1. \A q \in Call : MsgsIn(waiters[q]) \subseteq Call
    BY MsgsInType DEF TypeOK
  <2> QED
    BY <1>2, <1>3, <2>1, EnqueueFrame DEF PlaceInv, WaitOnce
<1>4. CASE AppendWaiter(c)
  <2> DEFINE sq == sqOf[c]
             w == waiters[sq]
  <2>1. /\ enqPC[c] = "locked" /\ enqPC'[c] \in {"ack", "spawn"}
        /\ UNCHANGED <<sqOf, ran, stopped>>
        /\ sq \in Call /\ w \in Seq(Call)
        /\ waiters'[sq] = Append(w, c)
        /\ \A q \in Call : q # sq => waiters'[q] = waiters[q]
    BY <1>4 DEF AppendWaiter, TypeOK, QueueInv, PhaseInv
  <2>2. c \notin Submitted /\ c \in Submitted'
    BY <2>1 DEF Submitted
  <2>3. c \notin ran \cup stopped /\ ~Held(c, BatchStates) /\ c \notin MsgsIn(w)
    BY <2>1, <2>2 DEF PlaceInv, SubmittedOnly, HoldOnce, HeldOnceBy, Held, WaitOnce
  <2> SUFFICES ASSUME NEW q \in Call
               PROVE  /\ \A i, j \in 1..Len(waiters'[q]) :
                            waiters'[q][i] = waiters'[q][j] => i = j
                      /\ \A m \in MsgsIn(waiters'[q]) :
                            /\ sqOf'[m] = q /\ m \in Submitted'
                            /\ m \notin ran' \cup stopped' /\ ~Held(m, BatchStates)'
    BY DEF WaitOnce
  <2>4. MsgsIn(waiters[q]) \subseteq Call /\ waiters[q] \in Seq(Call)
    BY MsgsInType DEF TypeOK
  <2>5. CASE q # sq
    BY <1>2, <2>1, <2>4, <2>5 DEF PlaceInv, WaitOnce
  <2>6. CASE q = sq
    <3>1. MsgsIn(waiters'[q]) = MsgsIn(w) \cup {c}
      BY <2>1, <2>6, AppendMsgs
    <3>2. /\ Len(waiters'[q]) = Len(w) + 1 /\ Len(w) \in Nat
          /\ \A i \in 1..Len(w) : waiters'[q][i] = w[i] /\ w[i] # c
          /\ waiters'[q][Len(w) + 1] = c
      BY <2>1, <2>3, <2>6, AppendProperties, LenProperties DEF MsgsIn
    <3>3. \A i, j \in 1..Len(w) : w[i] = w[j] => i = j
      BY <2>1 DEF PlaceInv, WaitOnce
    <3>4. \A i \in 1..Len(waiters'[q]) : i \in 1..Len(w) \/ i = Len(w) + 1
      BY <3>2
    <3>5. \A i, j \in 1..Len(waiters'[q]) : waiters'[q][i] = waiters'[q][j] => i = j
      BY <3>2, <3>3, <3>4
    <3>6. /\ sqOf'[c] = q /\ c \notin ran' \cup stopped' /\ ~Held(c, BatchStates)'
      BY <1>1, <2>1, <2>3, <2>6
    <3> QED
      BY <1>2, <2>2, <2>4, <2>6, <3>1, <3>5, <3>6
  <2> QED
    BY <2>5, <2>6
<1> QED
  BY <1>3, <1>4

\* A drain that does not move keeps its lists' places.
LEMMA OtherHeldOnce ==
    ASSUME NEW d \in Call, HeldOnceBy(d), drainPC'[d] = drainPC[d], batch'[d] = batch[d],
           dropped'[d] = dropped[d], sqOf'[d] = sqOf[d],
           \A m \in Submitted : m \in Submitted' /\ sqOf'[m] = sqOf[m],
           \A m \in MsgsIn(batch[d]) \cup MsgsIn(dropped[d]) :
               drainPC[d] \in BatchStates /\ m \notin ran \cup stopped
                   => m \notin ran' \cup stopped'
    PROVE  HeldOnceBy(d)'
<1>1. MsgsIn(batch'[d]) = MsgsIn(batch[d]) /\ MsgsIn(dropped'[d]) = MsgsIn(dropped[d])
  OBVIOUS
<1> QED
  BY <1>1 DEF HeldOnceBy

LEMMA OtherTaken ==
    ASSUME NEW d \in Call, TakenBy(d), drainPC'[d] = drainPC[d], batch'[d] = batch[d],
           dropped'[d] = dropped[d], sqOf'[d] = sqOf[d],
           drainPC[d] = "partition" => waiters'[sqOf[d]] = waiters[sqOf[d]],
           \A m \in MsgsIn(dropped[d]) : cancelled[m] => cancelled'[m]
    PROVE  TakenBy(d)'
<1>1. MsgsIn(batch'[d]) = MsgsIn(batch[d]) /\ MsgsIn(dropped'[d]) = MsgsIn(dropped[d])
  OBVIOUS
<1>2. Visited(d)' = Visited(d)
  BY DEF Visited
<1>3. drainPC[d] = "partition" =>
         OrderedIn(batch[d], waiters[sqOf[d]], Visited(d))
             = OrderedIn(batch'[d], waiters'[sqOf'[d]], Visited(d)')
  BY <1>2
<1> QED
  BY <1>1, <1>2, <1>3 DEF TakenBy

\* The other invariants, through an Enqueue call.
LEMMA EnqueueKeepsPlaceInv ==
    ASSUME TypeOK, QueueInv, HeldInv, PlaceInv, NEW c \in Call,
           WriteMarker(c) \/ EnqueueProgress(c)
    PROVE  PlaceInv'
<1>1. HoldOnce'
  <2> SUFFICES ASSUME NEW d \in Call PROVE HeldOnceBy(d)'
    BY DEF HoldOnce
  <2>1. CASE drainPC'[d] = drainPC[d] /\ drainPC[d] # "none"
    <3>1. sqOf'[d] = sqOf[d]
      BY <2>1, EnqueueFrame
    <3> QED
      BY <2>1, <3>1, EnqueueFrame, OtherHeldOnce DEF PlaceInv, HoldOnce
  <2>2. CASE drainPC'[d] \in {"none", "loop"}
    BY <2>2 DEF HeldOnceBy, BatchStates
  <2> QED
    BY <2>1, <2>2, EnqueueFrame
<1>2. TakeOrder'
  <2> SUFFICES ASSUME NEW d \in Call PROVE TakenBy(d)'
    BY DEF TakeOrder
  <2>1. CASE drainPC'[d] = drainPC[d] /\ drainPC[d] = "partition"
    <3>1. sqOf'[d] = sqOf[d] /\ sqOf[d] \in Call /\ sqmu[sqOf[d]] = d
      BY <2>1, EnqueueFrame DEF QueueInv, PhaseInv, HeldInv, HeldBy
    <3>2. waiters'[sqOf[d]] = waiters[sqOf[d]]
      <4>1. CASE AppendWaiter(c)
        BY <3>1, <4>1, NoneAssumption DEF AppendWaiter, TypeOK
      <4> QED
        BY <4>1, EnqueueFrame
    <3> QED
      BY <2>1, <3>1, <3>2, EnqueueFrame, OtherTaken DEF PlaceInv, TakeOrder
  <2>2. CASE drainPC'[d] # "partition"
    BY <2>2 DEF TakenBy
  <2> QED
    BY <2>1, <2>2, EnqueueFrame
<1>3. SubmittedOnly'
  BY EnqueueFrame DEF PlaceInv, SubmittedOnly
<1> QED
  BY <1>1, <1>2, <1>3, EnqueueKeepsWaitOnce DEF PlaceInv

\* Two drains of one queue are one drain.
LEMMA OneHolder ==
    ASSUME QueueInv, NEW c \in Call, NEW d \in Call, sqOf[c] = sqOf[d],
           drainPC[c] \in BatchStates \cup {"partition"},
           drainPC[d] \in BatchStates \cup {"partition"}
    PROVE  c = d
BY DEF QueueInv, ServerOwns, Serving, ActiveStates, BatchStates

\* At the end of a take its two lists are exactly what waited.
LEMMA TakenExactly ==
    ASSUME TypeOK, QueueInv, HeldInv, PlaceInv, NEW c \in Call, EndTake(c)
    PROVE  MsgsIn(waiters[sqOf[c]]) = MsgsIn(batch[c]) \cup MsgsIn(dropped[c])
<1>1. drainPC[c] = "partition" /\ Visited(c) = Len(waiters[sqOf[c]])
  BY DEF EndTake
<1>2. \A m \in MsgsIn(batch[c]) \cup MsgsIn(dropped[c]) :
         \E i \in 1..Len(waiters[sqOf[c]]) : m = waiters[sqOf[c]][i]
  <2>1. TakenBy(c)
    BY DEF PlaceInv, TakeOrder
  <2>2. \A m \in MsgsIn(batch[c]) \cup MsgsIn(dropped[c]) :
           \E i \in 1..Visited(c) : m = waiters[sqOf[c]][i]
    BY <1>1, <2>1 DEF TakenBy
  <2> QED
    BY <1>1, <2>2
<1>3. \A m : (\E i \in 1..Len(waiters[sqOf[c]]) : m = waiters[sqOf[c]][i])
               => m \in MsgsIn(waiters[sqOf[c]])
  BY DEF MsgsIn
<1> QED
  BY <1>2, <1>3, TakenAll

\* What a drain's step adds to the outcomes was in its lists.
LEMMA NewOutcomes ==
    ASSUME TypeOK, NEW c \in Call, DrainStep(c)
    PROVE  \/ UNCHANGED <<ran, stopped>>
           \/ /\ drainPC[c] = "run" /\ drainPC'[c] = "running"
              /\ ran' = ran \cup MsgsIn(batch[c]) /\ UNCHANGED <<stopped, batch, dropped>>
           \/ /\ drainPC[c] = "notify" /\ UNCHANGED <<ran, batch>>
              /\ stopped' = stopped \cup MsgsIn(dropped[c]) /\ dropped'[c] = << >>
              /\ drainPC'[c] = IF batch[c] = << >> THEN "loop" ELSE "run"
<1>1. CASE StartRun(c)
  BY <1>1 DEF StartRun, TypeOK
<1>2. CASE NotifyCancelled(c)
  BY <1>2 DEF NotifyCancelled, TypeOK
<1>3. CASE ~StartRun(c) /\ ~NotifyCancelled(c)
  BY <1>3 DEF DrainStep, TakeStep, BatchStep, LeaveStep, LeaveEmpty, LockForGC, Collect,
         DrainDone, BeginTake, PartitionOne, EndTake, Forget, Unmark, UnmarkEnd, EndRun,
         EndGrace
<1> QED
  BY <1>1, <1>2, <1>3

LEMMA DrainKeepsWaitOnce ==
    ASSUME TypeOK, QueueInv, HeldInv, PlaceInv, NEW c \in Call, DrainStep(c)
    PROVE  WaitOnce'
<1> SUFFICES ASSUME NEW q \in Call
             PROVE  /\ \A i, j \in 1..Len(waiters'[q]) :
                          waiters'[q][i] = waiters'[q][j] => i = j
                    /\ \A m \in MsgsIn(waiters'[q]) :
                          /\ sqOf'[m] = q /\ m \in Submitted'
                          /\ m \notin ran' \cup stopped' /\ ~Held(m, BatchStates)'
  BY DEF WaitOnce
<1>1. waiters'[q] = waiters[q] \/ (EndTake(c) /\ q = sqOf[c] /\ waiters'[q] = << >>)
  <2>1. CASE EndTake(c)
    BY <2>1 DEF EndTake, TypeOK
  <2>2. CASE ~EndTake(c)
    BY <2>2 DEF DrainStep, TakeStep, BatchStep, LeaveStep, LeaveEmpty, LockForGC, Collect,
           DrainDone, BeginTake, PartitionOne, Forget, Unmark, UnmarkEnd, NotifyCancelled,
           StartRun, EndRun, EndGrace
  <2> QED
    BY <2>1, <2>2
<1>2. CASE waiters'[q] = << >>
  BY <1>2 DEF MsgsIn
<1>3. CASE waiters'[q] = waiters[q] /\ waiters'[q] # << >>
  <2>1. UNCHANGED <<enqPC, sqOf>>
    BY DrainFrame
  <2> SUFFICES ASSUME NEW m \in MsgsIn(waiters[q])
               PROVE  m \notin ran' \cup stopped' /\ ~Held(m, BatchStates)'
    BY <1>3, <2>1 DEF PlaceInv, WaitOnce, Submitted
  <2>2. m \notin ran \cup stopped /\ ~Held(m, BatchStates) /\ sqOf[m] = q
    BY DEF PlaceInv, WaitOnce
  <2>3. drainPC[c] \in BatchStates => m \notin MsgsIn(batch[c]) \cup MsgsIn(dropped[c])
    BY <2>2 DEF Held
  <2>4. m \notin ran' \cup stopped'
    BY <2>2, <2>3, NewOutcomes DEF BatchStates
  <2>5. ASSUME drainPC'[c] \in BatchStates, m \in MsgsIn(batch'[c]) \cup MsgsIn(dropped'[c])
        PROVE  FALSE
    <3>1. CASE EndTake(c)
      <4>1. UNCHANGED <<batch, dropped>> /\ waiters'[sqOf[c]] = << >>
        BY <3>1 DEF EndTake, TypeOK, QueueInv, PhaseInv
      <4>2. m \in MsgsIn(waiters[sqOf[c]]) /\ sqOf[c] \in Call
        BY <2>5, <3>1, <4>1, TakenExactly DEF EndTake, QueueInv, PhaseInv
      <4>3. q = sqOf[c]
        BY <2>2, <4>2 DEF PlaceInv, WaitOnce
      <4> QED
        BY <1>3, <4>1, <4>3
    <3>2. CASE ~EndTake(c)
      <4>1. /\ drainPC[c] \in BatchStates
            /\ batch'[c] = batch[c]
            /\ dropped'[c] \in {dropped[c], << >>}
        BY <2>5, <3>2 DEF DrainStep, TakeStep, BatchStep, LeaveStep, LeaveEmpty, LockForGC,
               Collect, DrainDone, BeginTake, PartitionOne, Forget, Unmark, UnmarkEnd,
               NotifyCancelled, StartRun, EndRun, EndGrace, TypeOK, BatchStates
      <4>2. MsgsIn(<< >>) = {}
        BY DEF MsgsIn
      <4> QED
        BY <2>3, <2>5, <4>1, <4>2
    <3> QED
      BY <3>1, <3>2
  <2>6. ~Held(m, BatchStates)'
    BY <2>2, <2>5, DrainFrame DEF Held
  <2> QED
    BY <2>4, <2>6
<1> QED
  BY <1>1, <1>2, <1>3

LEMMA DrainKeepsHoldOnce ==
    ASSUME TypeOK, QueueInv, HeldInv, PlaceInv, NEW c \in Call, DrainStep(c)
    PROVE  HoldOnce'
<1>1. UNCHANGED <<enqPC, sqOf>> /\ Submitted' = Submitted
  BY DrainFrame DEF Submitted
<1>2. ASSUME NEW d \in Call, d # c
      PROVE  HeldOnceBy(d)'
  <2>1. HeldOnceBy(d)
    BY DEF PlaceInv, HoldOnce
  <2>2. ASSUME NEW m \in MsgsIn(batch[d]) \cup MsgsIn(dropped[d]),
               drainPC[d] \in BatchStates, m \notin ran \cup stopped
        PROVE  m \notin ran' \cup stopped'
    <3>1. ASSUME drainPC[c] \in BatchStates, m \in MsgsIn(batch[c]) \cup MsgsIn(dropped[c])
          PROVE  FALSE
      <4>1. sqOf[c] = sqOf[m] /\ sqOf[d] = sqOf[m]
        BY <2>1, <2>2, <3>1 DEF PlaceInv, HoldOnce, HeldOnceBy
      <4> QED
        BY <1>2, <2>2, <3>1, <4>1, OneHolder
    <3> QED
      BY <2>2, <3>1, NewOutcomes DEF BatchStates
  <2> QED
    BY <1>1, <1>2, <2>1, <2>2, DrainFrame, OtherHeldOnce
<1>3. HeldOnceBy(c)'
  <2> USE DEF BatchStates
  <2>1. HeldOnceBy(c) /\ MsgsIn(<< >>) = {}
    BY DEF PlaceInv, HoldOnce, MsgsIn
  <2>2. CASE EndTake(c)
    <3>1. /\ drainPC[c] = "partition" /\ drainPC'[c] = "forget"
          /\ UNCHANGED <<batch, dropped, ran, stopped>>
      BY <2>2 DEF EndTake, TypeOK
    <3>2. sqOf[c] \in Call
      BY <3>1 DEF QueueInv, PhaseInv
    <3>3. MsgsIn(batch[c]) \cap MsgsIn(dropped[c]) = {}
      BY <3>1 DEF PlaceInv, TakeOrder, TakenBy
    <3>4. \A m \in MsgsIn(batch[c]) \cup MsgsIn(dropped[c]) :
             sqOf[m] = sqOf[c] /\ m \in Submitted /\ m \notin ran \cup stopped
      BY <2>2, <3>2, TakenExactly DEF PlaceInv, WaitOnce
    <3> QED
      BY <1>1, <3>1, <3>3, <3>4 DEF HeldOnceBy
  <2>3. CASE Forget(c) \/ Unmark(c) \/ UnmarkEnd(c)
    <3>1. /\ drainPC[c] \in {"forget", "unmark"} /\ drainPC'[c] \in {"unmark", "notify"}
          /\ UNCHANGED <<batch, dropped, ran, stopped>>
      BY <2>3 DEF Forget, Unmark, UnmarkEnd, TypeOK
    <3> QED
      BY <1>1, <2>1, <3>1 DEF HeldOnceBy
  <2>4. CASE NotifyCancelled(c)
    <3>1. /\ drainPC[c] = "notify" /\ UNCHANGED <<ran, batch>>
          /\ stopped' = stopped \cup MsgsIn(dropped[c]) /\ dropped'[c] = << >>
          /\ drainPC'[c] = IF batch[c] = << >> THEN "loop" ELSE "run"
      BY <2>4 DEF NotifyCancelled, TypeOK
    <3> QED
      BY <1>1, <2>1, <3>1 DEF HeldOnceBy
  <2>5. CASE StartRun(c)
    <3>1. /\ drainPC[c] = "run" /\ drainPC'[c] = "running"
          /\ UNCHANGED <<batch, dropped>>
      BY <2>5 DEF StartRun, TypeOK
    <3> QED
      BY <1>1, <2>1, <3>1 DEF HeldOnceBy
  <2>6. CASE LeaveStep(c) \/ BeginTake(c) \/ PartitionOne(c) \/ EndRun(c) \/ EndGrace(c)
    <3>1. drainPC'[c] \notin BatchStates
      BY <2>6 DEF LeaveStep, LeaveEmpty, LockForGC, Collect, DrainDone, BeginTake,
             PartitionOne, EndRun, EndGrace, TypeOK
    <3> QED
      BY <3>1 DEF HeldOnceBy
  <2> QED
    BY <2>2, <2>3, <2>4, <2>5, <2>6 DEF DrainStep, TakeStep, BatchStep
<1> QED
  BY <1>2, <1>3 DEF HoldOnce

\* A list in order within the first n stays so within more of them, and may be
\* continued with the next one.
LEMMA OrderedMore ==
    ASSUME NEW part \in Seq(Call), NEW seq, NEW n \in Nat, OrderedIn(part, seq, n)
    PROVE  /\ OrderedIn(part, seq, n + 1)
           /\ seq[n + 1] \in Call => OrderedIn(Append(part, seq[n + 1]), seq, n + 1)
<1> DEFINE k == Len(part)
           e == seq[n + 1]
<1>1. PICK f \in [1..k -> 1..n] :
         /\ \A i, j \in 1..k : i < j => f[i] < f[j]
         /\ \A i \in 1..k : part[i] = seq[f[i]]
  BY DEF OrderedIn
<1>2. k \in Nat
  BY LenProperties
<1>3. OrderedIn(part, seq, n + 1)
  <2>1. f \in [1..k -> 1..(n + 1)]
    <3>1. \A x \in 1..n : x \in 1..(n + 1)
      OBVIOUS
    <3> HIDE DEF k
    <3> QED
      BY <1>1, <3>1
  <2> QED
    BY <1>1, <2>1 DEF OrderedIn
<1>4. ASSUME e \in Call
      PROVE  OrderedIn(Append(part, e), seq, n + 1)
  <2> DEFINE p == Append(part, e)
             g == [i \in 1..(k + 1) |-> IF i = k + 1 THEN n + 1 ELSE f[i]]
  <2>1. /\ Len(p) = k + 1
        /\ \A i \in 1..k : p[i] = part[i]
        /\ p[k + 1] = e
    BY <1>4, AppendProperties
  <2> HIDE DEF k, p, e
  <2>2. \A i \in 1..(k + 1) : i = k + 1 \/ (i \in 1..k /\ i # k + 1)
    BY <1>2
  <2>3. \A i \in 1..k : f[i] \in 1..n
    BY <1>1
  <2>4. g \in [1..(k + 1) -> 1..(n + 1)]
    <3>1. \A i \in 1..(k + 1) : (IF i = k + 1 THEN n + 1 ELSE f[i]) \in 1..(n + 1)
      BY <2>2, <2>3
    <3> QED
      BY <3>1
  <2>5. \A i \in 1..(k + 1) : g[i] = IF i = k + 1 THEN n + 1 ELSE f[i]
    OBVIOUS
  <2> HIDE DEF g
  <2>6. \A i, j \in 1..(k + 1) : i < j => g[i] < g[j]
    <3> SUFFICES ASSUME NEW i \in 1..(k + 1), NEW j \in 1..(k + 1), i < j
                 PROVE  g[i] < g[j]
      OBVIOUS
    <3>1. i \in 1..k /\ i # k + 1 /\ g[i] = f[i] /\ f[i] \in 1..n
      BY <1>2, <2>3, <2>5
    <3>2. CASE j = k + 1
      BY <2>5, <3>1, <3>2
    <3>3. CASE j # k + 1
      BY <1>1, <2>2, <2>5, <3>1, <3>3
    <3> QED
      BY <3>2, <3>3
  <2>7. \A i \in 1..(k + 1) : p[i] = seq[g[i]]
    BY <1>1, <2>1, <2>2, <2>5 DEF e
  <2> QED
    BY <2>1, <2>4, <2>6, <2>7 DEF OrderedIn, p
<1> QED
  BY <1>3, <1>4

LEMMA PartitionKeepsTaken ==
    ASSUME TypeOK, QueueInv, HeldInv, PlaceInv, NEW c \in Call, PartitionOne(c)
    PROVE  TakenBy(c)'
<1> DEFINE w == waiters[sqOf[c]]
           n == Visited(c) + 1
<1>1. /\ drainPC[c] = "partition" /\ Visited(c) < Len(w)
      /\ \/ /\ dropped' = [dropped EXCEPT ![c] = Append(@, w[n])] /\ batch' = batch
            /\ cancelled[w[n]]
         \/ batch' = [batch EXCEPT ![c] = Append(@, w[n])] /\ dropped' = dropped
      /\ UNCHANGED <<waiters, drainPC, sqOf, cancelled>>
  BY DEF PartitionOne
<1>2. sqOf[c] \in Call /\ w \in Seq(Call) /\ batch[c] \in Seq(Call) /\ dropped[c] \in Seq(Call)
  BY <1>1 DEF TypeOK, QueueInv, PhaseInv
<1>3. Visited(c) \in Nat /\ n \in 1..Len(w) /\ w[n] \in Call /\ Visited(c)' = n
  BY PartitionNext
<1>4. TakenBy(c)
  BY DEF PlaceInv, TakeOrder
<1>5. \A i, j \in 1..Len(w) : w[i] = w[j] => i = j
  BY <1>2 DEF PlaceInv, WaitOnce
<1>6. \A i \in 1..Visited(c) : i \in 1..Len(w) /\ i \in 1..n /\ i # n
  <2>1. Len(w) \in Nat
    BY <1>2, LenProperties
  <2> HIDE DEF w
  <2> QED
    BY <1>1, <1>3, <2>1
<1>7. w[n] \notin MsgsIn(batch[c]) \cup MsgsIn(dropped[c])
  BY <1>1, <1>3, <1>4, <1>5, <1>6 DEF TakenBy
<1>8. \/ /\ dropped'[c] = Append(dropped[c], w[n]) /\ batch'[c] = batch[c]
         /\ cancelled[w[n]]
      \/ batch'[c] = Append(batch[c], w[n]) /\ dropped'[c] = dropped[c]
  BY <1>1 DEF TypeOK
<1>9. \A s \in Seq(Call) : MsgsIn(Append(s, w[n])) = MsgsIn(s) \cup {w[n]}
  BY <1>3, AppendMsgs
<1>10. \/ /\ MsgsIn(dropped'[c]) = MsgsIn(dropped[c]) \cup {w[n]} /\ cancelled[w[n]]
          /\ MsgsIn(batch'[c]) = MsgsIn(batch[c])
       \/ /\ MsgsIn(batch'[c]) = MsgsIn(batch[c]) \cup {w[n]}
          /\ MsgsIn(dropped'[c]) = MsgsIn(dropped[c])
  BY <1>2, <1>8, <1>9
<1>11. OrderedIn(batch'[c], w, n)
  <2>1. OrderedIn(batch[c], w, Visited(c))
    BY <1>1, <1>4 DEF TakenBy
  <2> HIDE DEF w
  <2> QED
    BY <1>2, <1>3, <1>8, <2>1, OrderedMore
<1>12. \A m \in MsgsIn(batch'[c]) \cup MsgsIn(dropped'[c]) : \E i \in 1..n : m = w[i]
  <2>1. \A m \in MsgsIn(batch[c]) \cup MsgsIn(dropped[c]) : \E i \in 1..Visited(c) : m = w[i]
    BY <1>1, <1>4 DEF TakenBy
  <2>2. n \in 1..n
    BY <1>3
  <2> QED
    BY <1>6, <1>10, <2>1, <2>2
<1>13. /\ MsgsIn(batch'[c]) \cap MsgsIn(dropped'[c]) = {}
       /\ \A m \in MsgsIn(dropped'[c]) : cancelled'[m]
  BY <1>1, <1>4, <1>7, <1>10 DEF TakenBy
<1>14. w # << >> /\ waiters'[sqOf'[c]] = w
  BY <1>1, <1>4 DEF TakenBy
<1> HIDE DEF w, n
<1> QED
  BY <1>3, <1>11, <1>12, <1>13, <1>14 DEF TakenBy

LEMMA DrainKeepsTakeOrder ==
    ASSUME TypeOK, QueueInv, HeldInv, PlaceInv, NEW c \in Call, DrainStep(c)
    PROVE  TakeOrder'
<1> SUFFICES ASSUME NEW d \in Call PROVE TakenBy(d)'
  BY DEF TakeOrder
<1>1. TakenBy(d)
  BY DEF PlaceInv, TakeOrder
<1>2. CASE d # c
  BY <1>1, <1>2, DrainFrame, PartitionedQueue, OtherTaken
<1>3. CASE d = c /\ BeginTake(c)
  <2>1. /\ drainPC[c] = "loop" /\ waiters[sqOf[c]] # << >>
        /\ UNCHANGED <<waiters, sqOf, batch, dropped>>
    BY <1>3 DEF BeginTake
  <2>2. batch'[c] = << >> /\ dropped'[c] = << >>
    BY <2>1 DEF HeldInv, HeldBy, BatchStates, TakingStates
  <2>3. MsgsIn(<< >>) = {} /\ Len(<< >>) = 0
    BY DEF MsgsIn
  <2>4. OrderedIn(<< >>, waiters[sqOf[c]], Visited(c)')
    <3> DEFINE f == [i \in 1..0 |-> i]
    <3>1. \A i : i \notin 1..0
      OBVIOUS
    <3>2. f \in [1..0 -> 1..Visited(c)']
      BY <3>1
    <3> QED
      BY <2>3, <3>1, <3>2 DEF OrderedIn
  <2> QED
    BY <1>3, <2>1, <2>2, <2>3, <2>4 DEF TakenBy
<1>4. CASE d = c /\ PartitionOne(c)
  BY <1>4, PartitionKeepsTaken
<1>5. CASE d = c /\ ~BeginTake(c) /\ ~PartitionOne(c)
  <2>1. drainPC'[c] # "partition"
    BY <1>5 DEF DrainStep, TakeStep, BatchStep, LeaveStep, LeaveEmpty, LockForGC, Collect,
           DrainDone, EndTake, Forget, Unmark, UnmarkEnd, NotifyCancelled, StartRun, EndRun,
           EndGrace, TypeOK
  <2> QED
    BY <1>5, <2>1 DEF TakenBy
<1> QED
  BY <1>2, <1>3, <1>4, <1>5

\* MarkCancelled moves no message, and finds none but accepted ones: an entry
\* whose call is still in Enqueue is under q.mu.
LEMMA CancelKeepsPlaceInv ==
    ASSUME TypeOK, QueueInv, CleanInv, PlaceInv, NEW r \in Reaction, CancelStep(r)
    PROVE  PlaceInv'
<1>1. UNCHANGED <<mapVars, sqVars, enqVars, drainVars, outVars>>
  BY DEF CancelStep, FindQueued, SetCancelled
<1>2. Submitted' = Submitted /\ \A m : Held(m, BatchStates)' <=> Held(m, BatchStates)
  BY <1>1 DEF Submitted, Held
<1>3. WaitOnce'
  BY <1>1, <1>2 DEF PlaceInv, WaitOnce
<1>4. HoldOnce'
  BY <1>1, <1>2, OtherHeldOnce DEF PlaceInv, HoldOnce
<1>5. TakeOrder'
  <2>1. \A m \in Call : cancelled[m] => cancelled'[m]
    BY DEF CancelStep, FindQueued, SetCancelled, TypeOK
  <2>2. \A d \in Call : MsgsIn(dropped[d]) \subseteq Call
    BY MsgsInType DEF TypeOK
  <2> QED
    BY <1>1, <2>1, <2>2, OtherTaken DEF PlaceInv, TakeOrder
<1>6. \A q \in Reaction : rxPC'[q] = "found" => rxMsg'[q] \in Submitted
  <2>1. CASE FindQueued(r)
    <3>1. PICK k \in Key :
             IF queuedByMsg[k] = None
             THEN rxPC' = [rxPC EXCEPT ![r] = "false"] /\ UNCHANGED rxMsg
             ELSE /\ rxPC' = [rxPC EXCEPT ![r] = "found"]
                  /\ rxMsg' = [rxMsg EXCEPT ![r] = queuedByMsg[k]]
      BY <2>1 DEF FindQueued
    <3>2. queuedByMsg[k] # None => queuedByMsg[k] \in Submitted
      <4> SUFFICES ASSUME NEW m \in Call, queuedByMsg[k] = m PROVE m \in Submitted
        BY DEF TypeOK
      <4>1. enqPC[m] # "locked"
        BY <2>1, NoneAssumption DEF FindQueued, QueueInv, MapLocked
      <4>2. Waiting(m) \/ Held(m, {"forget"})
        BY <4>1 DEF CleanInv, IndexInv, Indexed
      <4> QED
        BY <4>2 DEF Waiting, Held, PlaceInv, WaitOnce, HoldOnce, HeldOnceBy, BatchStates
    <3> QED
      BY <3>1, <3>2 DEF PlaceInv, SubmittedOnly, TypeOK
  <2>2. CASE SetCancelled(r)
    BY <2>2 DEF SetCancelled, PlaceInv, SubmittedOnly, TypeOK
  <2> QED
    BY <2>1, <2>2 DEF CancelStep
<1>7. SubmittedOnly'
  BY <1>1, <1>2, <1>6 DEF PlaceInv, SubmittedOnly
<1> QED
  BY <1>3, <1>4, <1>5, <1>7 DEF PlaceInv

LEMMA DrainKeepsPlaceInv ==
    ASSUME TypeOK, QueueInv, HeldInv, PlaceInv, NEW c \in Call, DrainStep(c)
    PROVE  PlaceInv'
<1>1. UNCHANGED <<enqPC, rxPC, rxMsg>>
  BY DrainFrame
<1>2. ran' \cup stopped' \subseteq Submitted
  BY NewOutcomes DEF PlaceInv, SubmittedOnly, HoldOnce, HeldOnceBy, BatchStates
<1>3. SubmittedOnly'
  BY <1>1, <1>2 DEF PlaceInv, SubmittedOnly, Submitted
<1> QED
  BY <1>3, DrainKeepsWaitOnce, DrainKeepsHoldOnce, DrainKeepsTakeOrder DEF PlaceInv

LEMMA InitHasPlaces == Init => PlaceInv
<1> SUFFICES ASSUME Init PROVE PlaceInv
  OBVIOUS
<1>1. WaitOnce
  BY DEF Init, EmptyQueue, WaitOnce, MsgsIn
<1>2. HoldOnce /\ TakeOrder /\ SubmittedOnly
  BY DEF Init, EmptyQueue, HoldOnce, HeldOnceBy, TakeOrder, TakenBy, SubmittedOnly, BatchStates
<1> QED
  BY <1>1, <1>2 DEF PlaceInv

\* All that is known of a reachable state.
StateInv == TypeOK /\ QueueInv /\ CleanInv /\ PlaceInv

LEMMA NextKeepsStateInv == StateInv /\ [Next]_vars => StateInv'
<1> SUFFICES ASSUME StateInv, [Next]_vars PROVE StateInv'
  OBVIOUS
<1>1. TypeOK' /\ QueueInv' /\ CleanInv'
  BY NextKeepsInv, NextKeepsClean DEF StateInv
<1>2. ASSUME NEW c \in Call, WriteMarker(c) \/ EnqueueProgress(c) \/ DrainStep(c)
      PROVE  PlaceInv'
  BY <1>2, EnqueueKeepsPlaceInv, DrainKeepsPlaceInv DEF StateInv, CleanInv
<1>3. ASSUME NEW r \in Reaction, CancelStep(r)
      PROVE  PlaceInv'
  BY <1>3, CancelKeepsPlaceInv DEF StateInv
<1>4. ASSUME UNCHANGED vars
      PROVE  PlaceInv'
  <2>1. \A d \in Call : HeldOnceBy(d)' /\ TakenBy(d)'
    BY <1>4, OtherHeldOnce, OtherTaken DEF vars, StateInv, PlaceInv, HoldOnce, TakeOrder, Submitted
  <2>2. Submitted' = Submitted /\ \A m : Held(m, BatchStates)' <=> Held(m, BatchStates)
    BY <1>4 DEF vars, Submitted, Held
  <2>3. WaitOnce' /\ SubmittedOnly'
    BY <1>4, <2>2 DEF vars, StateInv, PlaceInv, WaitOnce, SubmittedOnly
  <2> QED
    BY <2>1, <2>3 DEF PlaceInv, HoldOnce, TakeOrder
<1>5. PlaceInv'
  BY <1>2, <1>3, <1>4 DEF Next, Finished
<1> QED
  BY <1>1, <1>5 DEF StateInv

(* ---------------------------- the mapping -------------------------------- *)

\* The batch in work of a session, before and after a step: that of its drain.
LEMMA ActiveOne ==
    ASSUME QueueInv, NEW s, NEW c \in Call, HoldsBatch(c), Sid(c) = s
    PROVE  ActiveOf(s) = batch[c]
<1>1. \A d \in Call : HoldsBatch(d) /\ Sid(d) = s => d = c
  BY DEF QueueInv, ServerOwns, Serving, ActiveStates, HoldsBatch
<1> QED
  BY <1>1 DEF ActiveOf

LEMMA ActiveOneNext ==
    ASSUME QueueInv', NEW s, NEW c \in Call, HoldsBatch(c)', Sid(c) = s
    PROVE  ActiveOf(s)' = batch'[c]
<1>1. \A d \in Call : HoldsBatch(d)' /\ Sid(d) = s => d = c
  BY DEF QueueInv, ServerOwns, Serving, ActiveStates, HoldsBatch
<1> QED
  BY <1>1 DEF ActiveOf

LEMMA ActiveNone ==
    ASSUME NEW s, \A c \in Call : ~(HoldsBatch(c) /\ Sid(c) = s)
    PROVE  ActiveOf(s) = << >>
BY DEF ActiveOf

LEMMA ActiveNoneNext ==
    ASSUME NEW s, \A c \in Call : ~(HoldsBatch(c)' /\ Sid(c) = s)
    PROVE  ActiveOf(s)' = << >>
BY DEF ActiveOf

\* The batches in work change only with the drain that steps.
LEMMA ActiveElsewhere ==
    ASSUME QueueInv, QueueInv', NEW c \in Call,
           \A d \in Call : d # c => (HoldsBatch(d)' <=> HoldsBatch(d)) /\ batch'[d] = batch[d],
           NEW s, \/ s # Sid(c)
                  \/ (HoldsBatch(c)' <=> HoldsBatch(c)) /\ batch'[c] = batch[c]
                  \/ ~HoldsBatch(c) /\ HoldsBatch(c)' /\ batch'[c] = << >>
                        /\ \A d \in Call : Sid(d) = s => ~HoldsBatch(d)
                  \/ HoldsBatch(c) /\ ~HoldsBatch(c)' /\ batch[c] = << >>
    PROVE  ActiveOf(s)' = ActiveOf(s)
<1>1. ASSUME NEW d \in Call, HoldsBatch(d), HoldsBatch(d)', Sid(d) = s, batch'[d] = batch[d]
      PROVE  ActiveOf(s)' = ActiveOf(s)
  BY <1>1, ActiveOne, ActiveOneNext
<1>2. CASE \A d \in Call : ~(HoldsBatch(d) /\ Sid(d) = s) /\ ~(HoldsBatch(d)' /\ Sid(d) = s)
  BY <1>2, ActiveNone, ActiveNoneNext
<1>3. CASE Sid(c) = s /\ ~HoldsBatch(c) /\ HoldsBatch(c)' /\ batch'[c] = << >>
            /\ \A d \in Call : Sid(d) = s => ~HoldsBatch(d)
  BY <1>3, ActiveNone, ActiveOneNext
<1>4. CASE Sid(c) = s /\ HoldsBatch(c) /\ ~HoldsBatch(c)' /\ batch[c] = << >>
  <2>1. \A d \in Call : HoldsBatch(d) /\ Sid(d) = s => d = c
    BY <1>4 DEF QueueInv, ServerOwns, Serving, ActiveStates, HoldsBatch
  <2>2. \A d \in Call : ~(HoldsBatch(d)' /\ Sid(d) = s)
    BY <1>4, <2>1
  <2> QED
    BY <1>4, <2>2, ActiveOne, ActiveNoneNext
<1> QED
  BY <1>1, <1>2, <1>3, <1>4

\* Who is stopped, seen from outside.
LEMMA TakenOutIs ==
    \A m : m \in TakenOut <=>
              \E d \in Call : drainPC[d] # "partition" /\ m \in MsgsIn(dropped[d])
BY DEF TakenOut

LEMMA TakenOutNext ==
    \A m : m \in TakenOut' <=>
              \E d \in Call : drainPC'[d] # "partition" /\ m \in MsgsIn(dropped'[d])
BY DEF TakenOut

\* Nothing that a caller sees has changed.
LEMMA SeenUnchanged ==
    ASSUME Submitted' = Submitted, cancelled' = cancelled, ran' = ran,
           \A s \in Session : PendingOf(s)' = PendingOf(s) /\ ActiveOf(s)' = ActiveOf(s),
           stopped' \cup TakenOut' = stopped \cup TakenOut
    PROVE  UNCHANGED Serial!vars
BY DEF Serial!vars

LEMMA ActiveUnmoved ==
    ASSUME QueueInv, QueueInv', NEW s,
           \A d \in Call : (HoldsBatch(d)' <=> HoldsBatch(d)) /\ batch'[d] = batch[d]
    PROVE  ActiveOf(s)' = ActiveOf(s)
<1>1. ASSUME NEW d \in Call, HoldsBatch(d), Sid(d) = s
      PROVE  ActiveOf(s)' = ActiveOf(s)
  BY <1>1, ActiveOne, ActiveOneNext
<1>2. CASE \A d \in Call : ~(HoldsBatch(d) /\ Sid(d) = s)
  BY <1>2, ActiveNone, ActiveNoneNext
<1> QED
  BY <1>1, <1>2

LEMMA StoppedSame ==
    ASSUME NEW c \in Call,
           \A d \in Call : d # c => drainPC'[d] = drainPC[d] /\ dropped'[d] = dropped[d],
           \/ /\ drainPC[c] # "partition" /\ drainPC'[c] # "partition"
              /\ dropped'[c] = dropped[c] /\ stopped' = stopped
           \/ drainPC[c] = "partition" /\ drainPC'[c] = "partition" /\ stopped' = stopped
           \/ drainPC'[c] = "partition" /\ dropped[c] = << >> /\ stopped' = stopped
           \/ /\ drainPC[c] # "partition" /\ drainPC'[c] # "partition"
              /\ dropped'[c] = << >> /\ stopped' = stopped \cup MsgsIn(dropped[c])
    PROVE  stopped' \cup TakenOut' = stopped \cup TakenOut
<1>1. MsgsIn(<< >>) = {}
  BY DEF MsgsIn
<1>2. ASSUME NEW m PROVE m \in stopped' \cup TakenOut' <=> m \in stopped \cup TakenOut
  BY <1>1, TakenOutIs, TakenOutNext
<1> QED
  BY <1>2

\* The waiting lists change only where a map entry or a list does.
LEMMA PendingSame ==
    ASSUME NEW s, sessions'[s] = sessions[s], waiters'[sessions[s]] = waiters[sessions[s]]
    PROVE  PendingOf(s)' = PendingOf(s)
BY DEF PendingOf

\* An accepted call: its message joins the end of its session's list.
LEMMA AppendIsSubmit ==
    ASSUME StateInv, StateInv', NEW c \in Call, AppendWaiter(c)
    PROVE  Serial!Submit(c)
<1> DEFINE sq == sqOf[c]
           s == Sid(c)
<1>1. /\ enqPC[c] = "locked" /\ enqPC'[c] \in {"ack", "spawn"}
      /\ \A d \in Call : d # c => enqPC'[d] = enqPC[d]
      /\ UNCHANGED <<sessions, sqOf, drainVars, rxVars, ran, stopped>>
      /\ waiters' = [waiters EXCEPT ![sq] = Append(@, c)]
  BY DEF AppendWaiter, StateInv, TypeOK
<1>2. c \notin Submitted /\ Submitted' = Submitted \cup {c}
  BY <1>1 DEF Submitted
<1>3. sq \in Call /\ sessions[s] = sq /\ sq # None /\ s \in Session
  BY <1>1, NoneAssumption, SidType DEF StateInv, QueueInv, PhaseInv, MapLocked
<1>4. PendingOf(s)' = Append(PendingOf(s), c)
  BY <1>1, <1>3 DEF PendingOf, StateInv, TypeOK
<1>5. ASSUME NEW t \in Session, t # s
      PROVE  PendingOf(t)' = PendingOf(t)
  <2>1. sessions[t] # sq
    BY <1>3, <1>5 DEF StateInv, QueueInv, SameSession
  <2>2. sessions[t] \in Call => waiters'[sessions[t]] = waiters[sessions[t]]
    BY <1>1, <2>1 DEF StateInv, TypeOK
  <2> QED
    BY <1>1, <2>2 DEF PendingOf, StateInv, TypeOK
<1>6. \A t \in Session : ActiveOf(t)' = ActiveOf(t)
  BY <1>1, ActiveUnmoved DEF StateInv, HoldsBatch
<1>7. TakenOut' = TakenOut
  BY <1>1 DEF TakenOut
<1>8. [t \in Session |-> PendingOf(t)']
        = [[t \in Session |-> PendingOf(t)] EXCEPT ![s] = Append(@, c)]
  BY <1>3, <1>4, <1>5
<1> HIDE DEF s, sq
<1>9. s = [d \in Call |-> Sid(d)][c]
  BY DEF s
<1> QED
  BY <1>1, <1>2, <1>6, <1>7, <1>8, <1>9 DEF Serial!Submit

\* What a take leaves in the batch is the waiting list without the cancelled.
LEMMA BatchIsRest ==
    ASSUME StateInv, NEW c \in Call, EndTake(c)
    PROVE  batch[c] \in Serial!Without(waiters[sqOf[c]], MsgsIn(dropped[c]))
<1> DEFINE w == waiters[sqOf[c]]
           b == batch[c]
           rest == Serial!Members(w) \ MsgsIn(dropped[c])
<1>1. drainPC[c] = "partition" /\ Visited(c) = Len(w)
  BY DEF EndTake
<1>2. sqOf[c] \in Call /\ w \in Seq(Call) /\ b \in Seq(Call) /\ dropped[c] \in Seq(Call)
  BY <1>1 DEF StateInv, TypeOK, QueueInv, PhaseInv
<1>3. MsgsIn(w) = MsgsIn(b) \cup MsgsIn(dropped[c])
  BY TakenExactly DEF StateInv, CleanInv
<1>4. MsgsIn(b) \cap MsgsIn(dropped[c]) = {} /\ OrderedIn(b, w, Len(w))
  BY <1>1 DEF StateInv, PlaceInv, TakeOrder, TakenBy
<1>5. Serial!Members(w) = MsgsIn(w) /\ Serial!Members(b) = MsgsIn(b)
  BY DEF Serial!Members, MsgsIn
<1>6. Serial!Members(b) = rest
  BY <1>3, <1>4, <1>5
<1>7. Serial!InOrder(b, w)
  BY <1>4 DEF OrderedIn, Serial!InOrder
<1>8. Len(b) \in 0..Len(w)
  <2>1. Len(b) \in Nat /\ Len(dropped[c]) \in Nat /\ Len(w) \in Nat
    BY <1>2, LenProperties
  <2>2. Len(b) + Len(dropped[c]) = Len(w)
    BY <1>1 DEF Visited
  <2> HIDE DEF b, w
  <2> QED
    BY <2>1, <2>2
<1>9. b \in [1..Len(b) -> rest]
  <2>1. b \in [1..Len(b) -> Call]
    BY <1>2, LenProperties
  <2>2. \A i \in 1..Len(b) : b[i] \in MsgsIn(b)
    BY DEF MsgsIn
  <2> QED
    BY <1>5, <1>6, <2>1, <2>2
<1> HIDE DEF b, w
<1> QED
  BY <1>6, <1>7, <1>8, <1>9 DEF Serial!Without, rest, b, w

\* The end of a take: the session's whole list is claimed at once.
LEMMA EndTakeIsClaim ==
    ASSUME StateInv, StateInv', NEW c \in Call, EndTake(c)
    PROVE  Serial!Claim(Sid(c))
<1> DEFINE sq == sqOf[c]
           s == Sid(c)
           drop == MsgsIn(dropped[c])
<1>1. /\ drainPC[c] = "partition" /\ drainPC'[c] = "forget"
      /\ \A d \in Call : d # c => drainPC'[d] = drainPC[d]
      /\ UNCHANGED <<sessions, enqVars, batch, dropped, rxVars, ran, stopped>>
      /\ waiters' = [waiters EXCEPT ![sq] = << >>]
  BY DEF EndTake, StateInv, TypeOK
<1>2. sq \in Call /\ sessions[s] = sq /\ sq # None /\ s \in Session
  BY <1>1, NoneAssumption, SidType
     DEF StateInv, QueueInv, PhaseInv, ServerOwns, Serving, ActiveStates
<1>3. PendingOf(s) = waiters[sq] /\ waiters[sq] # << >> /\ PendingOf(s)' = << >>
  <2>1. waiters[sq] # << >>
    BY <1>1 DEF StateInv, PlaceInv, TakeOrder, TakenBy
  <2> QED
    BY <1>1, <1>2, <2>1 DEF PendingOf, StateInv, TypeOK
<1>4. ASSUME NEW t \in Session, t # s
      PROVE  PendingOf(t)' = PendingOf(t)
  <2>1. sessions[t] # sq
    BY <1>2, <1>4 DEF StateInv, QueueInv, SameSession
  <2>2. sessions[t] \in Call => waiters'[sessions[t]] = waiters[sessions[t]]
    BY <1>1, <2>1 DEF StateInv, TypeOK
  <2> QED
    BY <1>1, <2>2 DEF PendingOf, StateInv, TypeOK
<1>5. ActiveOf(s) = << >>
  <2>1. \A d \in Call : Serving(d) /\ Sid(d) = Sid(c) => d = c
    BY <1>1, InvSerializes DEF OneDrainPerSession, StateInv, Serving, ActiveStates
  <2>2. \A d \in Call : ~(HoldsBatch(d) /\ Sid(d) = s)
    BY <1>1, <2>1 DEF HoldsBatch, Serving, ActiveStates
  <2> QED
    BY <2>2, ActiveNone
<1>6. ActiveOf(s)' = batch[c]
  BY <1>1, ActiveOneNext DEF HoldsBatch, StateInv
<1>7. ASSUME NEW t \in Session, t # s
      PROVE  ActiveOf(t)' = ActiveOf(t)
  BY <1>1, <1>7, ActiveElsewhere DEF HoldsBatch, StateInv
<1>8. stopped' \cup TakenOut' = (stopped \cup TakenOut) \cup drop
  <2>1. ASSUME NEW m
        PROVE  m \in TakenOut' <=> m \in TakenOut \/ m \in drop
    BY <1>1, TakenOutIs, TakenOutNext
  <2> QED
    BY <1>1, <2>1
<1>9. drop \in SUBSET (Serial!Members(PendingOf(s)) \cap {d \in Call : cancelled[d]})
  <2>1. drop \subseteq MsgsIn(waiters[sq]) /\ drop \subseteq Call
    BY <1>1, TakenExactly, MsgsInType DEF StateInv, CleanInv, TypeOK
  <2>2. \A m \in drop : cancelled[m]
    BY <1>1 DEF StateInv, PlaceInv, TakeOrder, TakenBy
  <2> QED
    BY <1>3, <2>1, <2>2 DEF Serial!Members, MsgsIn
<1>10. batch[c] \in Serial!Without(PendingOf(s), drop)
  BY <1>3, BatchIsRest
<1>11. [t \in Session |-> PendingOf(t)']
         = [[t \in Session |-> PendingOf(t)] EXCEPT ![s] = << >>]
  BY <1>2, <1>3, <1>4
<1>12. [t \in Session |-> ActiveOf(t)']
         = [[t \in Session |-> ActiveOf(t)] EXCEPT ![s] = batch[c]]
  BY <1>2, <1>6, <1>7
<1>13. Submitted' = Submitted
  BY <1>1 DEF Submitted
<1>14. /\ [t \in Session |-> PendingOf(t)][s] = PendingOf(s)
       /\ [t \in Session |-> ActiveOf(t)][s] = ActiveOf(s)
  BY <1>2
<1> HIDE DEF s, sq, drop
<1>15. Serial!Claim(s)
  <2>1. /\ [t \in Session |-> PendingOf(t)][s] # << >>
        /\ [t \in Session |-> ActiveOf(t)][s] = << >>
    BY <1>3, <1>5, <1>14
  <2>2. drop \in SUBSET (Serial!Members([t \in Session |-> PendingOf(t)][s])
                            \cap {d \in Call : cancelled[d]})
    BY <1>9, <1>14
  <2>3. batch[c] \in Serial!Without([t \in Session |-> PendingOf(t)][s], drop)
    BY <1>10, <1>14
  <2>4. UNCHANGED <<ran, cancelled>>
    BY <1>1
  <2> QED
    BY <1>8, <1>11, <1>12, <1>13, <2>1, <2>2, <2>3, <2>4 DEF Serial!Claim
<1> QED
  BY <1>15 DEF s

\* The Runner is called on the batch in work, for messages without an outcome.
LEMMA StartRunIsStart ==
    ASSUME StateInv, StateInv', NEW c \in Call, StartRun(c)
    PROVE  Serial!Start(Sid(c))
<1> DEFINE s == Sid(c)
<1>1. /\ drainPC[c] = "run" /\ drainPC'[c] = "running"
      /\ \A d \in Call : d # c => drainPC'[d] = drainPC[d]
      /\ ran' = ran \cup MsgsIn(batch[c])
      /\ UNCHANGED <<sessions, waiters, enqVars, batch, dropped, rxVars, stopped>>
  BY DEF StartRun, StateInv, TypeOK
<1>2. ActiveOf(s) = batch[c] /\ s \in Session
  BY <1>1, ActiveOne, SidType DEF HoldsBatch, StateInv
<1>3. /\ batch[c] # << >>
      /\ \A m \in MsgsIn(batch[c]) : m \notin ran \cup stopped /\ sqOf[m] = sqOf[c]
  BY <1>1 DEF StateInv, PlaceInv, HoldOnce, HeldOnceBy, BatchStates
<1>4. ASSUME NEW m \in MsgsIn(batch[c]) PROVE m \notin TakenOut
  <2> SUFFICES ASSUME NEW d \in Call, drainPC[d] # "partition", m \in MsgsIn(dropped[d])
               PROVE  FALSE
    BY TakenOutIs
  <2>1. drainPC[d] \in BatchStates
    <3>1. MsgsIn(<< >>) = {}
      BY DEF MsgsIn
    <3> QED
      BY <3>1 DEF StateInv, CleanInv, HeldInv, HeldBy, BatchStates, TakingStates
  <2>2. sqOf[d] = sqOf[c]
    BY <1>3, <2>1 DEF StateInv, PlaceInv, HoldOnce, HeldOnceBy
  <2>3. d = c
    BY <1>1, <2>1, <2>2, OneHolder DEF StateInv, BatchStates
  <2> QED
    BY <1>1, <2>3 DEF StateInv, PlaceInv, HoldOnce, HeldOnceBy, BatchStates
<1>5. \A t \in Session : ActiveOf(t)' = ActiveOf(t)
  BY <1>1, ActiveUnmoved DEF StateInv, HoldsBatch
<1>6. \A t \in Session : PendingOf(t)' = PendingOf(t)
  BY <1>1, PendingSame
<1>7. stopped' \cup TakenOut' = stopped \cup TakenOut
  BY <1>1, StoppedSame
<1>8. Submitted' = Submitted
  BY <1>1 DEF Submitted
<1>9. [t \in Session |-> ActiveOf(t)][s] = batch[c]
  BY <1>2
<1> HIDE DEF s
<1>10. Serial!Start(s)
  <2>1. Serial!Members(batch[c]) = MsgsIn(batch[c])
    BY DEF Serial!Members, MsgsIn
  <2>2. MsgsIn(batch[c]) \cap (ran \cup (stopped \cup TakenOut)) = {}
    BY <1>3, <1>4
  <2> QED
    BY <1>1, <1>3, <1>5, <1>6, <1>7, <1>8, <1>9, <2>1, <2>2 DEF Serial!Start
<1> QED
  BY <1>10 DEF s

\* The Runner returns: the session's batch is no longer in work.
LEMMA EndRunIsFinish ==
    ASSUME StateInv, StateInv', NEW c \in Call, EndRun(c)
    PROVE  Serial!Finish(Sid(c))
<1> DEFINE s == Sid(c)
<1>1. /\ drainPC[c] = "running" /\ drainPC'[c] = "grace"
      /\ \A d \in Call : d # c => drainPC'[d] = drainPC[d] /\ batch'[d] = batch[d]
      /\ UNCHANGED <<sessions, waiters, enqVars, dropped, rxVars, ran, stopped>>
  BY DEF EndRun, StateInv, TypeOK
<1>2. ActiveOf(s) = batch[c] /\ s \in Session
  BY <1>1, ActiveOne, SidType DEF HoldsBatch, StateInv
<1>3. batch[c] # << >> /\ MsgsIn(batch[c]) \subseteq ran
  BY <1>1 DEF StateInv, PlaceInv, HoldOnce, HeldOnceBy, BatchStates, CleanInv, HeldInv, HeldBy
<1>4. ActiveOf(s)' = << >>
  <2>1. \A d \in Call : HoldsBatch(d) /\ Sid(d) = s => d = c
    BY <1>1 DEF StateInv, QueueInv, ServerOwns, Serving, ActiveStates, HoldsBatch
  <2>2. \A d \in Call : ~(HoldsBatch(d)' /\ Sid(d) = s)
    BY <1>1, <2>1 DEF HoldsBatch
  <2> QED
    BY <2>2, ActiveNoneNext
<1>5. ASSUME NEW t \in Session, t # s PROVE ActiveOf(t)' = ActiveOf(t)
  BY <1>1, <1>5, ActiveElsewhere DEF HoldsBatch, StateInv
<1>6. \A t \in Session : PendingOf(t)' = PendingOf(t)
  BY <1>1, PendingSame
<1>7. stopped' \cup TakenOut' = stopped \cup TakenOut
  BY <1>1, StoppedSame
<1>8. Submitted' = Submitted
  BY <1>1 DEF Submitted
<1>9. [t \in Session |-> ActiveOf(t)][s] = batch[c]
  BY <1>2
<1>10. [t \in Session |-> ActiveOf(t)']
         = [[t \in Session |-> ActiveOf(t)] EXCEPT ![s] = << >>]
  BY <1>2, <1>4, <1>5
<1> HIDE DEF s
<1>11. Serial!Finish(s)
  <2>1. Serial!Members(batch[c]) = MsgsIn(batch[c])
    BY DEF Serial!Members, MsgsIn
  <2> QED
    BY <1>1, <1>3, <1>6, <1>7, <1>8, <1>9, <1>10, <2>1 DEF Serial!Finish
<1> QED
  BY <1>11 DEF s

\* The flag of a message that a reaction found is set.
LEMMA SetIsRequest ==
    ASSUME StateInv, StateInv', NEW r \in Reaction, NEW m \in Call, m = rxMsg[r],
           SetCancelled(r)
    PROVE  Serial!Request(m)
<1>1. /\ m \in Submitted
      /\ cancelled' = [cancelled EXCEPT ![m] = TRUE]
      /\ UNCHANGED <<mapVars, sqVars, enqVars, drainVars, outVars>>
  BY DEF SetCancelled, StateInv, PlaceInv, SubmittedOnly, Submitted
<1>2. {d \in Call : cancelled'[d]} = {d \in Call : cancelled[d]} \cup {m}
  BY <1>1 DEF StateInv, TypeOK
<1>3. /\ \A t \in Session : ActiveOf(t)' = ActiveOf(t) /\ PendingOf(t)' = PendingOf(t)
      /\ TakenOut' = TakenOut /\ Submitted' = Submitted
  BY <1>1, ActiveUnmoved, PendingSame DEF StateInv, HoldsBatch, TakenOut, Submitted
<1> QED
  BY <1>1, <1>2, <1>3 DEF Serial!Request

\* The steps of Enqueue other than the append show nothing.
LEMMA EnqueueStutters ==
    ASSUME StateInv, StateInv', NEW c \in Call,
           WriteMarker(c) \/ LookUpSession(c) \/ Ack(c) \/ SpawnDrain(c)
    PROVE  UNCHANGED Serial!vars
<1>1. /\ UNCHANGED <<waiters, batch, dropped, cancelled, ran, stopped>>
      /\ \A d \in Call : \/ drainPC'[d] = drainPC[d]
                         \/ d = c /\ drainPC[d] = "none" /\ drainPC'[d] = "loop"
  <2>1. WriteMarker(c) \/ EnqueueProgress(c)
    BY DEF EnqueueProgress
  <2>2. UNCHANGED waiters
    BY DEF WriteMarker, LookUpSession, Ack, SpawnDrain
  <2> QED
    BY <2>1, <2>2, EnqueueFrame DEF StateInv
<1>2. Submitted' = Submitted
  BY DEF WriteMarker, LookUpSession, Ack, SpawnDrain, Submitted, StateInv, TypeOK
<1>3. \A t \in Session : ActiveOf(t)' = ActiveOf(t)
  <2>1. \A d \in Call : HoldsBatch(d)' <=> HoldsBatch(d)
    BY <1>1 DEF HoldsBatch
  <2> QED
    BY <1>1, <2>1, ActiveUnmoved DEF StateInv
<1>4. stopped' \cup TakenOut' = stopped \cup TakenOut
  BY <1>1, TakenOutIs, TakenOutNext
<1>5. ASSUME NEW t \in Session PROVE PendingOf(t)' = PendingOf(t)
  <2>1. CASE sessions'[t] = sessions[t]
    BY <1>1, <2>1, PendingSame
  <2>2. CASE sessions'[t] # sessions[t]
    <3>1. LookUpSession(c)
      BY <2>2 DEF WriteMarker, Ack, SpawnDrain
    <3>2. /\ enqPC[c] = "marked" /\ sessions[t] = None /\ sessions'[t] = c
      BY <2>2, <3>1 DEF LookUpSession, StateInv, TypeOK
    <3>3. waiters[c] = << >>
      BY <3>2 DEF StateInv, QueueInv, PhaseInv, Untouched
    <3> QED
      BY <1>1, <3>2, <3>3, NoneAssumption DEF PendingOf
  <2> QED
    BY <2>1, <2>2
<1> QED
  BY <1>1, <1>2, <1>3, <1>4, <1>5, SeenUnchanged

\* A take under way shows nothing, nor does a goroutine that leaves, or one that
\* clears the index and the markers and posts the stop notices.
LEMMA DrainStutters ==
    ASSUME StateInv, StateInv', NEW c \in Call, DrainStep(c),
           ~EndTake(c), ~StartRun(c), ~EndRun(c)
    PROVE  UNCHANGED Serial!vars
<1>1. UNCHANGED <<enqVars, waiters, rxVars, ran>> /\ Submitted' = Submitted
  <2>1. UNCHANGED <<enqVars, waiters, rxVars, ran>>
    BY DEF DrainStep, TakeStep, BatchStep, LeaveStep, LeaveEmpty, LockForGC, Collect,
           DrainDone, BeginTake, PartitionOne, Forget, Unmark, UnmarkEnd, NotifyCancelled,
           EndGrace
  <2> QED
    BY <2>1 DEF Submitted
<1>2. \A d \in Call : d # c => /\ drainPC'[d] = drainPC[d] /\ batch'[d] = batch[d]
                               /\ dropped'[d] = dropped[d]
  BY DrainFrame DEF StateInv, CleanInv
<1>3. ASSUME NEW t \in Session PROVE PendingOf(t)' = PendingOf(t)
  <2>1. CASE sessions'[t] = sessions[t]
    BY <1>1, <2>1, PendingSame
  <2>2. CASE sessions'[t] # sessions[t]
    <3>1. Collect(c)
      BY <2>2 DEF DrainStep, TakeStep, BatchStep, LeaveStep, LeaveEmpty, LockForGC,
             DrainDone, BeginTake, PartitionOne, Forget, Unmark, UnmarkEnd,
             NotifyCancelled, EndGrace
    <3>2. /\ drainPC[c] = "gcLocked" /\ waiters[sqOf[c]] = << >>
          /\ t = Sid(c) /\ sessions'[t] = None
      BY <2>2, <3>1 DEF Collect, StateInv, TypeOK
    <3>3. sessions[t] = sqOf[c]
      BY <3>2 DEF StateInv, QueueInv, MapLocked
    <3> QED
      BY <3>2, <3>3 DEF PendingOf
  <2> QED
    BY <2>1, <2>2
<1>4. \/ /\ drainPC[c] \in {"loop", "gc", "gcLocked", "exit", "grace"}
         /\ drainPC'[c] \in {"loop", "gc", "gcLocked", "exit", "gone"}
         /\ UNCHANGED <<batch, dropped, stopped>>
      \/ /\ drainPC[c] = "loop" /\ drainPC'[c] = "partition"
         /\ UNCHANGED <<batch, dropped, stopped>>
      \/ drainPC[c] = "partition" /\ drainPC'[c] = "partition" /\ UNCHANGED stopped
      \/ /\ drainPC[c] \in {"forget", "unmark"} /\ drainPC'[c] \in {"unmark", "notify"}
         /\ UNCHANGED <<batch, dropped, stopped>>
      \/ /\ drainPC[c] = "notify" /\ UNCHANGED batch /\ dropped'[c] = << >>
         /\ stopped' = stopped \cup MsgsIn(dropped[c])
         /\ drainPC'[c] = IF batch[c] = << >> THEN "loop" ELSE "run"
  BY DEF DrainStep, TakeStep, BatchStep, LeaveStep, LeaveEmpty, LockForGC, Collect, DrainDone,
         BeginTake, PartitionOne, Forget, Unmark, UnmarkEnd, NotifyCancelled, EndGrace,
         StateInv, TypeOK
<1>5. ASSUME NEW t \in Session PROVE ActiveOf(t)' = ActiveOf(t)
  <2>1. CASE drainPC[c] = "notify"
    BY <1>2, <1>4, <2>1, ActiveElsewhere DEF HoldsBatch, StateInv
  <2>2. CASE drainPC[c] # "notify"
    <3>1. \/ ~HoldsBatch(c) /\ ~HoldsBatch(c)'
          \/ HoldsBatch(c) /\ HoldsBatch(c)' /\ batch'[c] = batch[c]
      <4>1. \/ /\ drainPC[c] \notin {"forget", "unmark", "notify", "run", "running"}
               /\ drainPC'[c] \notin {"forget", "unmark", "notify", "run", "running"}
            \/ /\ drainPC[c] \in {"forget", "unmark"} /\ drainPC'[c] \in {"unmark", "notify"}
               /\ batch'[c] = batch[c]
        BY <1>4, <2>2
      <4> QED
        BY <4>1 DEF HoldsBatch
    <3>2. ASSUME NEW d \in Call, HoldsBatch(d), Sid(d) = t
          PROVE  ActiveOf(t)' = ActiveOf(t)
      <4>1. HoldsBatch(d)' /\ batch'[d] = batch[d]
        BY <1>2, <3>1, <3>2 DEF HoldsBatch
      <4> QED
        BY <3>2, <4>1, ActiveOne, ActiveOneNext DEF StateInv
    <3>3. CASE \A d \in Call : ~(HoldsBatch(d) /\ Sid(d) = t)
      <4>1. \A d \in Call : ~(HoldsBatch(d)' /\ Sid(d) = t)
        BY <1>2, <3>1, <3>3 DEF HoldsBatch
      <4> QED
        BY <3>3, <4>1, ActiveNone, ActiveNoneNext
    <3> QED
      BY <3>2, <3>3
  <2> QED
    BY <2>1, <2>2
<1>6. stopped' \cup TakenOut' = stopped \cup TakenOut
  <2>1. CASE drainPC'[c] = "partition" /\ drainPC[c] # "partition"
    <3>1. dropped[c] = << >> /\ stopped' = stopped
      BY <1>4, <2>1 DEF StateInv, CleanInv, HeldInv, HeldBy, BatchStates, TakingStates
    <3> QED
      BY <1>2, <2>1, <3>1, StoppedSame
  <2>2. CASE ~(drainPC'[c] = "partition" /\ drainPC[c] # "partition")
    BY <1>2, <1>4, <2>2, StoppedSame
  <2> QED
    BY <2>1, <2>2
<1> QED
  BY <1>1, <1>3, <1>5, <1>6, SeenUnchanged

\* MarkCancelled's lookup, and the end of everything, show nothing.
LEMMA IdleStutters ==
    ASSUME StateInv, StateInv',
           (\E r \in Reaction : FindQueued(r)) \/ UNCHANGED vars
    PROVE  UNCHANGED Serial!vars
<1>1. UNCHANGED <<mapVars, sqVars, enqVars, drainVars, cancelled, outVars>>
  BY DEF FindQueued, vars
<1>2. /\ \A t \in Session : ActiveOf(t)' = ActiveOf(t) /\ PendingOf(t)' = PendingOf(t)
      /\ TakenOut' = TakenOut /\ Submitted' = Submitted
  BY <1>1, ActiveUnmoved, PendingSame DEF StateInv, HoldsBatch, TakenOut, Submitted
<1> QED
  BY <1>1, <1>2, SeenUnchanged

LEMMA InitIsSerialInit == Init => Serial!Init
<1> SUFFICES ASSUME Init PROVE Serial!Init
  OBVIOUS
<1>1. \A s \in Session : PendingOf(s) = << >>
  BY DEF Init, EmptyQueue, PendingOf
<1>2. \A s \in Session : ActiveOf(s) = << >>
  BY ActiveNone DEF Init, EmptyQueue, HoldsBatch
<1>3. TakenOut = {}
  BY TakenOutIs DEF Init, EmptyQueue, MsgsIn
<1>4. Submitted = {} /\ {c \in Call : cancelled[c]} = {}
  BY DEF Init, EmptyQueue, Submitted
<1> QED
  BY <1>1, <1>2, <1>3, <1>4 DEF Init, EmptyQueue, Serial!Init

\* Each step of the goroutines is one of the serial worker, or shows nothing.
LEMMA StepIsSerial ==
    ASSUME StateInv, StateInv', [Next]_vars
    PROVE  [Serial!Next]_(Serial!vars)
<1>1. ASSUME NEW c \in Call, WriteMarker(c) \/ EnqueueProgress(c)
      PROVE  [Serial!Next]_(Serial!vars)
  <2>1. CASE AppendWaiter(c)
    BY <2>1, AppendIsSubmit DEF Serial!Next
  <2> QED
    BY <1>1, <2>1, EnqueueStutters DEF EnqueueProgress
<1>2. ASSUME NEW c \in Call, DrainStep(c)
      PROVE  [Serial!Next]_(Serial!vars)
  <2>1. CASE EndTake(c)
    BY <2>1, SidType, EndTakeIsClaim DEF Serial!Next
  <2>2. CASE StartRun(c)
    BY <2>2, SidType, StartRunIsStart DEF Serial!Next
  <2>3. CASE EndRun(c)
    BY <2>3, SidType, EndRunIsFinish DEF Serial!Next
  <2> QED
    BY <1>2, <2>1, <2>2, <2>3, DrainStutters
<1>3. ASSUME NEW r \in Reaction, SetCancelled(r)
      PROVE  [Serial!Next]_(Serial!vars)
  <2>1. PICK m \in Call : m = rxMsg[r]
    BY <1>3 DEF SetCancelled, StateInv, PlaceInv, SubmittedOnly, Submitted
  <2>2. Serial!Request(m)
    BY <1>3, <2>1, SetIsRequest
  <2> QED
    BY <2>2 DEF Serial!Next
<1>4. ASSUME NEW r \in Reaction, FindQueued(r)
      PROVE  [Serial!Next]_(Serial!vars)
  BY <1>4, IdleStutters
<1>5. CASE UNCHANGED vars
  BY <1>5, IdleStutters
<1>6. CASE Next /\ ~UNCHANGED vars
  <2>1. \/ \E c \in Call : WriteMarker(c) \/ EnqueueProgress(c) \/ DrainStep(c)
        \/ \E r \in Reaction : SetCancelled(r) \/ FindQueued(r)
    BY <1>6 DEF Next, Finished, CancelStep
  <2> QED
    BY <1>1, <1>2, <1>3, <1>4, <2>1
<1> QED
  BY <1>5, <1>6

\* Every behaviour of the locks, goroutines and maps is one of a serial worker per
\* session: batches take all waiters in arrival order, never overlap on a session,
\* and give each message one outcome (sessionqueue.go:15-25).
THEOREM QueueIsSerial == Spec => SerialSpec
<1>1. Init => StateInv
  BY InitHasInv, InitIsClean, InitHasPlaces DEF StateInv
<1>2. StateInv /\ [Next]_vars => StateInv'
  BY NextKeepsStateInv
<1>3. StateInv /\ StateInv' /\ [Next]_vars => [Serial!Next]_(Serial!vars)
  BY StepIsSerial
<1>4. Init => Serial!Init
  BY InitIsSerialInit
<1> QED
  BY <1>1, <1>2, <1>3, <1>4, PTL DEF Spec, SerialSpec, Serial!Spec

(* ------------------- kills, restarts and replays ------------------------- *)

\* A message that this life of the process works on.
ListsOf(d) == MsgsIn(batch[d]) \cup MsgsIn(dropped[d])
Taken(m) == \E d \in Call : m \in ListsOf(d)
Present(m) == enqPC[m] \in {"marked", "locked"} \/ Waiting(m) \/ Taken(m)

\* What a goroutine, or a call before it has one, refers to and holds: a list is
\* empty where it is not in use, a batch in work has been handed to the Runner, and
\* a marker still to be removed is that of a message it took.
LocalBy(c) ==
    /\ enqPC[c] = "idle" => c \notin saved
    /\ enqPC[c] \in {"locked", "ack", "spawn"} => sqOf[c] \in Call
    /\ drainPC[c] \notin {"none", "gone"} => sqOf[c] \in Call
    /\ drainPC[c] # "none" => enqPC[c] = "done"
    /\ drainPC[c] \notin BatchStates \cup {"partition"} => batch[c] = << >>
    /\ drainPC[c] \notin TakingStates => dropped[c] = << >>
    /\ drainPC[c] = "running" => MsgsIn(batch[c]) \subseteq ran
    /\ drainPC[c] = "unmark" => MsgsIn(todo[c]) \subseteq ListsOf(c)
LocalInv == \A c \in Call : LocalBy(c)

\* What the boot's scan has read and not yet dealt with.
Pending == toReplay \cup Loaded

\* A message on disk, or of the boot's scan, has arrived; its file is no older than
\* that, and what is purged has waited for longer than the cutoff.
TimeInv ==
    /\ \A k \in markers \cup Pending \cup toPurge \cup expired : arrived[k] # Never
    /\ \A c \in ran : arrived[KeyOf[c]] # Never
    /\ \A k \in Key : arrived[k] <= now
    /\ \A k \in markers : arrived[k] <= stamp[k]
    /\ \A k \in Loaded : arrived[k] <= scanned[k]
    /\ \A k \in toPurge \cup expired : now - arrived[k] > Staleness

\* A key is worked on once in a life, by its live call or by one replay, unless the
\* scan read its marker beside the live call.
OnceInv ==
    /\ phase = "down" => toReplay = {} /\ toPurge = {} /\ \A c \in Call : ~Present(c)
    /\ phase # "scanning" => Loaded = {}
    /\ \A c \in Call : Present(c) =>
          /\ arrived[KeyOf[c]] # Never
          /\ KeyOf[c] \notin readLive =>
                /\ KeyOf[c] \notin Pending
                /\ \A d \in Call : Present(d) /\ KeyOf[d] = KeyOf[c] => d = c

\* The keys a marker may be there for a second time.
Excused == leaked \cup readLive

\* Before the Runner is called the markers of the batch are gone, but for those
\* whose removal failed or which a replay beside the live call has written again.
UnmarkedBy(d) ==
    drainPC[d] \in {"unmark", "notify", "run", "running"} =>
        \A m \in ListsOf(d) :
            \/ KeyOf[m] \in Excused
            \/ KeyOf[m] \notin markers
            \/ drainPC[d] = "unmark" /\ \E x \in MsgsIn(todo[d]) : KeyOf[x] = KeyOf[m]
UnmarkedInv == \A d \in Call : UnmarkedBy(d)

\* A message that was run is neither on disk nor in work a second time, but for
\* those keys.
RunInv ==
    \A c \in ran : KeyOf[c] \notin Excused =>
        /\ KeyOf[c] \notin markers \cup Pending
        /\ \A d \in Call : KeyOf[d] = KeyOf[c] /\ (Present(d) \/ d \in ran) => d = c

Inv ==
    /\ RecTypeOK /\ InflightCounts /\ LocalInv /\ TimeInv
    /\ OnceInv /\ UnmarkedInv /\ RunInv /\ NoSilentLoss

(* ------------------------------- helpers ---------------------------------- *)

LEMMA Clock == 0 \in 0..MaxTime /\ 0..MaxTime \subseteq Nat /\ Never \notin 0..MaxTime
               /\ Never \in Int /\ Never < 0
BY TimeAssumption DEF Never

\* What of the state the invariant is about, one part at a time.
LEMMA InvParts ==
    ASSUME RecTypeOK', InflightCounts', LocalInv', TimeInv', OnceInv', UnmarkedInv', RunInv',
           \A k \in Key : (\E c \in saved' : KeyOf[c] = k) =>
               \/ k \in markers' \cup InHands' \cup unmarkedAtKill'
               \/ k \in expired' /\ now' - arrived'[k] > Staleness
               \/ Answered(k)'
    PROVE  Inv'
BY DEF Inv, NoSilentLoss

\* The keys in the drains' hands, element by element.
LEMMA HandsAre ==
    \A k : k \in InHands <=>
        \E d \in Call : drainPC[d] # "partition" /\ \E m \in ListsOf(d) : KeyOf[m] = k
BY DEF InHands, ListsOf

LEMMA HandsNext ==
    \A k : k \in InHands' <=>
        \E d \in Call : drainPC'[d] # "partition" /\ \E m \in ListsOf(d)' : KeyOf[m] = k
BY DEF InHands, ListsOf

\* A list is a list of calls; what it is when empty, concatenated or shortened.
LEMMA ListMsgs ==
    /\ MsgsIn(<< >>) = {}
    /\ \A s, t \in Seq(Call) : MsgsIn(s \o t) = MsgsIn(s) \cup MsgsIn(t)
    /\ \A s \in Seq(Call) : s # << >> =>
          /\ Head(s) \in Call /\ Tail(s) \in Seq(Call)
          /\ MsgsIn(s) = {Head(s)} \cup MsgsIn(Tail(s))
<1>1. MsgsIn(<< >>) = {}
  BY DEF MsgsIn
<1>2. ASSUME NEW s \in Seq(Call), NEW t \in Seq(Call)
      PROVE  MsgsIn(s \o t) = MsgsIn(s) \cup MsgsIn(t)
  <2>1. /\ Len(s) \in Nat /\ Len(t) \in Nat /\ Len(s \o t) = Len(s) + Len(t)
        /\ \A i \in 1..(Len(s) + Len(t)) :
              (s \o t)[i] = IF i <= Len(s) THEN s[i] ELSE t[i - Len(s)]
    BY ConcatProperties, LenProperties
  <2>2. ASSUME NEW x \in MsgsIn(s \o t) PROVE x \in MsgsIn(s) \cup MsgsIn(t)
    <3>1. PICK i \in 1..(Len(s) + Len(t)) : x = (s \o t)[i]
      BY <2>1 DEF MsgsIn
    <3>2. CASE i <= Len(s)
      BY <2>1, <3>1, <3>2 DEF MsgsIn
    <3>3. CASE i > Len(s)
      <4>1. i - Len(s) \in 1..Len(t) /\ x = t[i - Len(s)]
        BY <2>1, <3>1, <3>3
      <4> QED
        BY <4>1 DEF MsgsIn
    <3> QED
      BY <2>1, <3>2, <3>3
  <2>3. ASSUME NEW x \in MsgsIn(s) PROVE x \in MsgsIn(s \o t)
    <3>1. PICK i \in 1..Len(s) : x = s[i]
      BY DEF MsgsIn
    <3>2. i \in 1..(Len(s) + Len(t)) /\ i <= Len(s)
      BY <2>1
    <3> QED
      BY <2>1, <3>1, <3>2 DEF MsgsIn
  <2>4. ASSUME NEW x \in MsgsIn(t) PROVE x \in MsgsIn(s \o t)
    <3>1. PICK i \in 1..Len(t) : x = t[i]
      BY DEF MsgsIn
    <3> DEFINE j == i + Len(s)
    <3>2. j \in 1..(Len(s) + Len(t)) /\ ~(j <= Len(s)) /\ j - Len(s) = i
      BY <2>1
    <3> HIDE DEF j
    <3>3. x = (s \o t)[j]
      BY <2>1, <3>1, <3>2
    <3> QED
      BY <2>1, <3>2, <3>3 DEF MsgsIn
  <2> QED
    BY <2>2, <2>3, <2>4
<1>3. ASSUME NEW s \in Seq(Call), s # << >>
      PROVE  /\ Head(s) \in Call /\ Tail(s) \in Seq(Call)
             /\ MsgsIn(s) = {Head(s)} \cup MsgsIn(Tail(s))
  <2>1. /\ Len(s) \in Nat /\ Len(s) >= 1 /\ Head(s) = s[1] /\ Head(s) \in Call
        /\ Tail(s) \in Seq(Call) /\ Len(Tail(s)) = Len(s) - 1
        /\ \A i \in 1..(Len(s) - 1) : Tail(s)[i] = s[i + 1]
    BY <1>3, HeadTailProperties, LenProperties, EmptySeq
  <2>2. ASSUME NEW x \in MsgsIn(s), x # Head(s) PROVE x \in MsgsIn(Tail(s))
    <3>1. PICK i \in 1..Len(s) : x = s[i]
      BY DEF MsgsIn
    <3> DEFINE j == i - 1
    <3>2. j \in 1..(Len(s) - 1) /\ j + 1 = i
      BY <2>1, <2>2, <3>1
    <3> HIDE DEF j
    <3>3. x = Tail(s)[j]
      BY <2>1, <3>1, <3>2
    <3> QED
      BY <2>1, <3>2, <3>3 DEF MsgsIn
  <2>3. ASSUME NEW x \in MsgsIn(Tail(s)) PROVE x \in MsgsIn(s)
    <3>1. PICK i \in 1..(Len(s) - 1) : x = Tail(s)[i]
      BY <2>1 DEF MsgsIn
    <3>2. i + 1 \in 1..Len(s) /\ x = s[i + 1]
      BY <2>1, <3>1
    <3> QED
      BY <3>2 DEF MsgsIn
  <2>4. Head(s) \in MsgsIn(s)
    BY <2>1 DEF MsgsIn
  <2> QED
    BY <2>1, <2>2, <2>3, <2>4
<1> QED
  BY <1>1, <1>2, <1>3

\* The call that starts with BeginEnqueue.
LEMMA BeginIs ==
    ASSUME NEW k \in Key, BeginEnqueue(k)
    PROVE  \E c \in Call :
              /\ KeyOf[c] = k /\ enqPC[c] = "idle" /\ WriteMarker(c)
              /\ stamp' = IF saved' = saved THEN stamp ELSE [stamp EXCEPT ![k] = now]
<1> DEFINE c == CHOOSE c \in IdleCalls(k) : TRUE
<1>1. c \in IdleCalls(k)
  BY DEF BeginEnqueue
<1> HIDE DEF c
<1>2. WriteMarker(c) /\ stamp' = IF saved' = saved THEN stamp ELSE [stamp EXCEPT ![k] = now]
  BY DEF BeginEnqueue, c
<1> QED
  BY <1>1, <1>2 DEF IdleCalls

\* A new delivery or a replay keeps the invariant: nothing else of its key is at
\* work, nor has been run with its marker removed.
LEMMA BeginKeepsInv ==
    ASSUME Inv, NEW k \in Key, BeginEnqueue(k), phase # "down",
           UNCHANGED <<phase, unread, scanned, toPurge, now, ghostVars>>,
           toReplay' \subseteq toReplay,
           arrived' \in [Key -> {Never} \cup (0..MaxTime)],
           \A j \in Key : j # k \/ arrived[k] # Never => arrived'[j] = arrived[j],
           arrived'[k] # Never, arrived'[k] <= now,
           \/ k \in readLive
           \/ k \notin Pending' /\ \A c \in Call : Present(c) => KeyOf[c] # k,
           k \in Excused \/ \A c \in ran : KeyOf[c] # k
    PROVE  Inv'
<1> USE DEF Inv, ghostVars
<1>1. PICK c \in Call :
        /\ KeyOf[c] = k /\ enqPC[c] = "idle" /\ WriteMarker(c)
        /\ stamp' = IF saved' = saved THEN stamp ELSE [stamp EXCEPT ![k] = now]
  BY BeginIs
<1>2. /\ enqPC' = [enqPC EXCEPT ![c] = "marked"]
      /\ \/ markers' = markers \cup {k} /\ saved' = saved \cup {c}
         \/ markers' = markers /\ saved' = saved
      /\ UNCHANGED <<mapVars, sqVars, sqOf, drainVars, rxVars, outVars>>
  BY <1>1 DEF WriteMarker, PersistMarker
<1>3. TypeOK /\ enqPC \in [Call -> EnqStates] /\ ran \subseteq Call
  BY DEF RecTypeOK, TypeOK
<1>4. c \notin saved /\ drainPC[c] = "none"
  BY <1>1 DEF LocalInv, LocalBy
<1>5. RecTypeOK'
  <2>1. TypeOK'
    BY <1>1, <1>3, EnqueueTypes
  <2>2. stamp' \in [Key -> 0..MaxTime]
    BY <1>1 DEF RecTypeOK
  <2> QED
    BY <2>1, <2>2 DEF RecTypeOK
<1>6. InflightCounts'
  BY <1>2 DEF InflightCounts, Alive
<1>7. \A d : ListsOf(d)' = ListsOf(d) /\ (Waiting(d)' <=> Waiting(d)) /\ (Taken(d)' <=> Taken(d))
  BY <1>2 DEF ListsOf, Waiting, Taken
<1>8. LocalInv'
  BY <1>2, <1>3, <1>4, <1>7 DEF LocalInv, LocalBy
<1>9. \A d \in Call : Present(d)' => Present(d) \/ d = c
  BY <1>2, <1>3, <1>7 DEF Present
<1>10. TimeInv'
  <2>1. /\ \A j \in Key : arrived[j] # Never => arrived'[j] = arrived[j]
        /\ Loaded' = Loaded /\ Loaded \subseteq Key /\ Pending' \subseteq Pending
    BY DEF Loaded, Pending
  <2>2. \A j \in markers' : j = k \/ j \in markers
    BY <1>2
  <2>3. \A j \in markers' \cup Pending' \cup toPurge' \cup expired' : arrived'[j] # Never
    BY <2>1, <2>2 DEF TimeInv, Pending, RecTypeOK, TypeOK
  <2>4. \A d \in ran' : arrived'[KeyOf[d]] # Never
    BY <1>2, <1>3, <2>1, KeyOfAssumption DEF TimeInv
  <2>5. \A j \in Key : arrived'[j] <= now'
    BY DEF TimeInv
  <2>6. \A j \in markers' : arrived'[j] <= stamp'[j]
    <3>1. CASE saved' = saved
      <4>1. markers' = markers /\ stamp' = stamp
        BY <1>1, <1>2, <1>4, <3>1
      <4> QED
        BY <2>1, <4>1 DEF TimeInv, RecTypeOK, TypeOK
    <3>2. CASE saved' # saved
      <4>1. stamp' = [stamp EXCEPT ![k] = now]
        BY <1>1, <3>2
      <4> QED
        BY <2>1, <2>2, <4>1 DEF TimeInv, RecTypeOK, TypeOK
    <3> QED
      BY <3>1, <3>2
  <2>7. \A j \in toPurge' \cup expired' : now' - arrived'[j] > Staleness
    BY <2>1 DEF TimeInv, RecTypeOK
  <2>8. \A j \in Loaded' : arrived'[j] <= scanned'[j]
    BY <2>1 DEF TimeInv, Pending
  <2> QED
    BY <2>3, <2>4, <2>5, <2>6, <2>7, <2>8 DEF TimeInv
<1>11. OnceInv'
  <2>1. Loaded' = Loaded /\ Pending' \subseteq Pending
    BY DEF Loaded, Pending
  <2>2. ASSUME NEW d \in Call, Present(d)'
        PROVE  /\ arrived'[KeyOf[d]] # Never
               /\ KeyOf[d] \notin readLive =>
                     /\ KeyOf[d] \notin Pending'
                     /\ \A e \in Call : Present(e)' /\ KeyOf[e] = KeyOf[d] => e = d
    <3>1. CASE d = c
      BY <1>1, <1>9, <3>1
    <3>2. CASE d # c
      <4>1. Present(d) /\ KeyOf[d] \in Key /\ (KeyOf[d] # k \/ k \in readLive)
        BY <1>9, <2>2, <3>2, KeyOfAssumption
      <4>2. KeyOf[d] # k =>
               \A e \in Call : Present(e)' /\ KeyOf[e] = KeyOf[d] => Present(e)
        BY <1>1, <1>9
      <4> QED
        BY <2>1, <4>1, <4>2 DEF OnceInv
    <3> QED
      BY <3>1, <3>2
  <2> QED
    BY <2>1, <2>2 DEF OnceInv
<1>12. UnmarkedInv'
  <2> SUFFICES ASSUME NEW d \in Call,
                      drainPC'[d] \in {"unmark", "notify", "run", "running"},
                      NEW m \in ListsOf(d)'
               PROVE  \/ KeyOf[m] \in Excused'
                      \/ KeyOf[m] \notin markers'
                      \/ /\ drainPC'[d] = "unmark"
                         /\ \E x \in MsgsIn(todo'[d]) : KeyOf[x] = KeyOf[m]
    BY DEF UnmarkedInv, UnmarkedBy
  <2>1. m \in ListsOf(d) /\ Taken(m)
    BY <1>7 DEF Taken
  <2>2. m \in Call
    BY <1>3, <2>1, MsgsInType DEF ListsOf, TypeOK
  <2>3. KeyOf[m] # k \/ k \in readLive
    BY <2>1, <2>2 DEF Present
  <2> QED
    BY <1>2, <2>1, <2>3 DEF UnmarkedInv, UnmarkedBy, Excused
<1>13. RunInv'
  <2> SUFFICES ASSUME NEW d \in ran, KeyOf[d] \notin Excused
               PROVE  /\ KeyOf[d] \notin markers' \cup Pending'
                      /\ \A e \in Call : KeyOf[e] = KeyOf[d] /\ (Present(e)' \/ e \in ran) => e = d
    BY <1>2 DEF RunInv, Excused
  <2>1. KeyOf[d] # k /\ Pending' \subseteq Pending
    BY DEF Loaded, Pending
  <2> QED
    BY <1>1, <1>2, <1>9, <2>1 DEF RunInv
<1>14. ASSUME NEW j \in Key, NEW d \in saved', KeyOf[d] = j
       PROVE  \/ j \in markers' \cup InHands' \cup unmarkedAtKill'
              \/ j \in expired' /\ now' - arrived'[j] > Staleness
              \/ Answered(j)'
  <2>1. CASE d \notin saved
    BY <1>1, <1>2, <1>14, <2>1
  <2>2. CASE d \in saved
    <3>1. InHands' = InHands /\ (Answered(j)' <=> Answered(j)) /\ markers \subseteq markers'
      BY <1>2 DEF InHands, Answered
    <3>2. j \in expired => arrived'[j] = arrived[j]
      BY DEF TimeInv
    <3> QED
      BY <1>14, <2>2, <3>1, <3>2 DEF NoSilentLoss
  <2> QED
    BY <2>1, <2>2
<1> QED
  BY <1>5, <1>6, <1>8, <1>10, <1>11, <1>12, <1>13, <1>14, InvParts

LEMMA ArriveKeepsInv == ASSUME Inv, NEW k \in Key, Arrive(k) PROVE Inv'
<1> USE DEF Inv
<1>1. /\ phase # "down" /\ arrived[k] = Never /\ BeginEnqueue(k)
      /\ arrived' = [arrived EXCEPT ![k] = now]
      /\ UNCHANGED <<scanVars, now, ghostVars>>
  BY DEF Arrive
<1>2. /\ now \in 0..MaxTime /\ now \in Nat /\ arrived \in [Key -> {Never} \cup (0..MaxTime)]
      /\ ran \subseteq Call
  BY Clock DEF RecTypeOK, TypeOK
<1>3. /\ arrived' \in [Key -> {Never} \cup (0..MaxTime)]
      /\ arrived'[k] # Never /\ arrived'[k] <= now
      /\ \A j \in Key : j # k \/ arrived[k] # Never => arrived'[j] = arrived[j]
  BY <1>1, <1>2, Clock
<1>4. k \notin Pending'
  BY <1>1 DEF TimeInv, Pending, Loaded, scanVars
<1>5. \A c \in Call : Present(c) => KeyOf[c] # k
  BY <1>1 DEF OnceInv
<1>6. \A c \in ran : KeyOf[c] # k
  BY <1>1 DEF TimeInv
<1> QED
  BY <1>1, <1>3, <1>4, <1>5, <1>6, BeginKeepsInv DEF scanVars

LEMMA ReinjectKeepsInv == ASSUME Inv, NEW k \in Key, Reinject(k) PROVE Inv'
<1> USE DEF Inv
<1>1. /\ phase = "replaying" /\ k \in toReplay /\ BeginEnqueue(k)
      /\ toReplay' = toReplay \ {k}
      /\ UNCHANGED <<phase, unread, scanned, toPurge, now, arrived, ghostVars>>
  BY DEF Reinject
<1>2. k \in Pending /\ k \notin Pending'
  BY <1>1 DEF OnceInv, Pending, Loaded
<1>3. arrived' \in [Key -> {Never} \cup (0..MaxTime)] /\ arrived[k] # Never /\ arrived[k] <= now
  BY <1>1, <1>2 DEF RecTypeOK, TimeInv
<1>4. k \in readLive \/ \A c \in Call : Present(c) => KeyOf[c] # k
  BY <1>2 DEF OnceInv
<1>5. k \in Excused \/ \A c \in ran : KeyOf[c] # k
  BY <1>2 DEF RunInv
<1> QED
  BY <1>1, <1>2, <1>3, <1>4, <1>5, BeginKeepsInv

(* ----------------- the boot, the clock and the reactions ------------------ *)

\* Steps of nobody's Enqueue or drain, which may at most remove a marker.
LEMMA LifeUnmoved ==
    ASSUME Inv, markers' \subseteq markers,
           UNCHANGED <<waiters, enqVars, drainVars, saved, outVars>>
    PROVE  /\ InflightCounts' /\ LocalInv'
           /\ UNCHANGED Excused => UnmarkedInv'
           /\ \A d : Present(d)' <=> Present(d)
           /\ InHands' = InHands /\ \A k : Answered(k)' <=> Answered(k)
<1> USE DEF Inv
<1>1. \A d : ListsOf(d)' = ListsOf(d) /\ (Waiting(d)' <=> Waiting(d)) /\ (Taken(d)' <=> Taken(d))
  BY DEF ListsOf, Waiting, Taken
<1>2. InflightCounts' /\ LocalInv'
  BY <1>1 DEF InflightCounts, Alive, LocalInv, LocalBy
<1>3. UNCHANGED Excused => UnmarkedInv'
  BY <1>1 DEF UnmarkedInv, UnmarkedBy
<1>4. \A d : Present(d)' <=> Present(d)
  BY <1>1 DEF Present
<1>5. InHands' = InHands /\ \A k : Answered(k)' <=> Answered(k)
  BY DEF InHands, Answered
<1> QED
  BY <1>2, <1>3, <1>4, <1>5

\* What the scan has at work is what this life's calls and drains have.
LEMMA AtWorkIs == \A k : AtWork(k) <=> \E c \in Call : KeyOf[c] = k /\ Present(c)
BY DEF AtWork, Present, Waiting, Taken, ListsOf

\* A step of the boot that reads a file or sorts what was read, the end of the
\* replay, the clock or a reaction.
LEMMA BootKeepsInv ==
    ASSUME Inv, \/ Boot \/ Judge \/ EndReplay \/ Tick \/ UNCHANGED allVars
                \/ \E k \in Key : ReadMarker(k)
                \/ \E r \in Reaction : CancelInLife(r)
    PROVE  Inv'
<1> USE DEF Inv, scanVars, clockVars, ghostVars
<1> USE DEF Boot, Judge, EndReplay, Tick
<1>1. /\ UNCHANGED <<mapVars, sqVars, enqVars, drainVars, diskVars, outVars>>
      /\ UNCHANGED <<stamp, arrived, leaked, expired, unmarkedAtKill, kills>>
  BY DEF ReadMarker, CancelInLife, CancelStep, FindQueued, SetCancelled, vars,
         allVars, recVars
<1>2. /\ InflightCounts' /\ LocalInv'
      /\ \A d : (Present(d)' <=> Present(d)) /\ ListsOf(d)' = ListsOf(d)
      /\ InHands' = InHands /\ \A k : Answered(k)' <=> Answered(k)
  BY <1>1, LifeUnmoved DEF ListsOf
<1>3. TypeOK'
  <2>1. ASSUME NEW r \in Reaction, CancelInLife(r) PROVE TypeOK'
    BY <2>1, CancelTypes DEF CancelInLife, RecTypeOK
  <2>2. CASE UNCHANGED vars
    BY <2>2 DEF vars, TypeOK, RecTypeOK
  <2> QED
    BY <2>1, <2>2 DEF ReadMarker, allVars
<1>4. /\ now \in Nat /\ Staleness \in Nat
      /\ arrived \in [Key -> Int] /\ stamp \in [Key -> Int] /\ markers \subseteq Key
      /\ scanned \in [Key -> Int]
      /\ toPurge \subseteq Key /\ expired \subseteq Key
  BY Clock, TimeAssumption DEF RecTypeOK, TypeOK
<1>5. now' \in 0..MaxTime /\ now' \in Nat /\ now <= now'
  <2>1. now' = now \/ (now < MaxTime /\ now' = now + 1)
    BY DEF ReadMarker, CancelInLife, vars, allVars, recVars
  <2>2. now \in 0..MaxTime
    BY DEF RecTypeOK
  <2> QED
    BY <1>4, <2>1, <2>2, TimeAssumption
\* What the scan has read, before and after.
<1> DEFINE Read ==
         /\ RecTypeOK'
         /\ readLive \subseteq readLive'
         /\ \A k \in Pending' :
               \/ k \in Pending
               \/ k \in markers /\ (k \in readLive' \/ \A c \in Call : Present(c) => KeyOf[c] # k)
         /\ \A k \in Loaded' : \/ k \in Loaded /\ scanned'[k] = scanned[k]
                               \/ k \in markers /\ scanned'[k] = stamp[k]
         /\ \A k \in toPurge' : k \in toPurge \/ (k \in Loaded /\ Stale(k))
         /\ phase' = "down" => phase = "down" /\ UNCHANGED <<toReplay, toPurge>>
         /\ phase' # "scanning" => Loaded' = {}
<1>6. Read
  <2>1. ASSUME NEW k \in Key, ReadMarker(k) PROVE Read
    <3> USE DEF ReadMarker
    <3>1. RecTypeOK'
      BY <1>3, <2>1 DEF RecTypeOK, Loadable
    <3>2. CASE k \notin Loadable
      BY <2>1, <3>1, <3>2 DEF Pending, Loaded
    <3>3. CASE k \in Loadable
      <4>1. /\ scanned' = [scanned EXCEPT ![k] = stamp[k]] /\ k \in markers
            /\ readLive' = readLive \cup {j \in {k} : AtWork(j)}
        BY <2>1, <3>3 DEF Loadable
      <4>2. \A j \in Loaded' : \/ j \in Loaded /\ scanned'[j] = scanned[j]
                               \/ j = k /\ scanned'[j] = stamp[j]
        BY <1>4, <4>1 DEF Loaded
      <4>3. k \in readLive' \/ \A c \in Call : Present(c) => KeyOf[c] # k
        BY <4>1, AtWorkIs
      <4> QED
        BY <2>1, <3>1, <4>1, <4>2, <4>3 DEF Pending
    <3> QED
      BY <3>2, <3>3
  <2>2. CASE Judge
    <3>1. Loaded' = {} /\ Loaded \subseteq Key /\ NothingFound \in [Key -> {Never}]
      BY <2>2 DEF Loaded, NothingFound
    <3>2. RecTypeOK'
      BY <1>1, <1>3, <2>2, <3>1 DEF RecTypeOK
    <3> QED
      BY <2>2, <3>1, <3>2 DEF Pending
  <2>3. CASE Boot \/ EndReplay \/ Tick \/ UNCHANGED allVars \/ \E r \in Reaction : CancelInLife(r)
    <3>1. /\ UNCHANGED <<scanned, toReplay, toPurge, readLive>> /\ unread' \subseteq Key
          /\ phase' \in {"down", "scanning", "replaying", "serving"}
          /\ phase' = "down" => phase = "down"
          /\ phase' # "scanning" => phase # "scanning"
      BY <2>3 DEF CancelInLife, allVars, recVars, RecTypeOK
    <3>2. RecTypeOK'
      BY <1>1, <1>3, <1>5, <3>1 DEF RecTypeOK
    <3>3. Loaded' = Loaded /\ Pending' = Pending
      BY <3>1 DEF Loaded, Pending
    <3> QED
      BY <3>1, <3>2, <3>3 DEF OnceInv
  <2> QED
    BY <2>1, <2>2, <2>3
<1>7. Pending \subseteq Key /\ Loaded \subseteq Key
  BY DEF RecTypeOK, Pending, Loaded
<1>8. TimeInv'
  <2>1. \A k \in Key : arrived[k] <= now'
    BY <1>4, <1>5 DEF TimeInv
  <2>2. \A k \in toPurge' : now' - arrived[k] > Staleness
    <3> SUFFICES ASSUME NEW k \in toPurge' PROVE now' - arrived[k] > Staleness
      OBVIOUS
    <3>1. CASE k \in toPurge
      BY <1>4, <1>5, <3>1 DEF TimeInv
    <3>2. CASE k \in Loaded /\ Stale(k)
      <4>1. now - scanned[k] > Staleness /\ arrived[k] <= scanned[k] /\ k \in Key
        BY <1>7, <3>2 DEF Stale, TimeInv
      <4> QED
        BY <1>4, <1>5, <4>1
    <3> QED
      BY <1>6, <3>1, <3>2
  <2>3. \A k \in expired : now' - arrived[k] > Staleness
    BY <1>4, <1>5 DEF TimeInv
  <2>4. \A k \in Loaded' : arrived[k] <= scanned'[k]
    BY <1>6 DEF TimeInv
  <2>5. \A k \in Pending' \cup toPurge' : arrived[k] # Never
    BY <1>6 DEF TimeInv, Pending
  <2> QED
    BY <1>1, <2>1, <2>2, <2>3, <2>4, <2>5 DEF TimeInv
<1>9. OnceInv'
  BY <1>1, <1>2, <1>6 DEF OnceInv
<1>10. RunInv' /\ UnmarkedInv'
  <2>1. Excused \subseteq Excused'
    BY <1>1, <1>6 DEF Excused
  <2>2. RunInv'
    BY <1>1, <1>2, <1>6, <2>1 DEF RunInv
  <2>3. UnmarkedInv'
    BY <1>1, <1>2, <2>1 DEF UnmarkedInv, UnmarkedBy
  <2> QED
    BY <2>2, <2>3
<1>11. ASSUME NEW k \in Key, NEW c \in saved', KeyOf[c] = k
       PROVE  \/ k \in markers' \cup InHands' \cup unmarkedAtKill'
              \/ k \in expired' /\ now' - arrived'[k] > Staleness
              \/ Answered(k)'
  <2>1. k \in expired => now' - arrived[k] > Staleness
    BY <1>4, <1>5 DEF TimeInv
  <2> QED
    BY <1>1, <1>2, <1>11, <2>1 DEF NoSilentLoss
<1> QED
  BY <1>2, <1>6, <1>8, <1>9, <1>10, <1>11, InvParts

\* A stale marker that is purged is one whose message has waited for longer than
\* the cutoff.
LEMMA PurgeKeepsInv == ASSUME Inv, NEW k \in Key, Purge(k) PROVE Inv'
<1> USE DEF Inv, clockVars
<1>1. /\ phase = "replaying" /\ k \in toPurge /\ toPurge' = toPurge \ {k}
      /\ markers' \in {markers, markers \ {k}} /\ expired' = expired \cup {k}
      /\ UNCHANGED <<mapVars, sqVars, enqVars, drainVars, saved, rxVars, outVars>>
      /\ UNCHANGED <<phase, unread, scanned, toReplay, clockVars>>
      /\ UNCHANGED <<leaked, readLive, unmarkedAtKill, kills>>
  BY DEF Purge, RemoveMarker
<1>2. /\ InflightCounts' /\ LocalInv' /\ UnmarkedInv'
      /\ \A d : Present(d)' <=> Present(d)
      /\ InHands' = InHands /\ \A j : Answered(j)' <=> Answered(j)
  BY <1>1, LifeUnmoved DEF Excused
<1>3. RecTypeOK'
  BY <1>1 DEF RecTypeOK, TypeOK
<1>4. TimeInv'
  BY <1>1 DEF TimeInv, Pending, Loaded
<1>5. OnceInv' /\ RunInv'
  BY <1>1, <1>2 DEF OnceInv, RunInv, Pending, Loaded, Excused
<1>6. ASSUME NEW j \in Key, NEW c \in saved', KeyOf[c] = j
      PROVE  \/ j \in markers' \cup InHands' \cup unmarkedAtKill'
             \/ j \in expired' /\ now' - arrived'[j] > Staleness
             \/ Answered(j)'
  <2>1. k \in expired' /\ now - arrived[k] > Staleness
    BY <1>1 DEF TimeInv
  <2> QED
    BY <1>1, <1>2, <1>6, <2>1 DEF NoSilentLoss
<1> QED
  BY <1>2, <1>3, <1>4, <1>5, <1>6, InvParts

\* The kill ends what the process works on; what its drains held is counted.
LEMMA KillKeepsInv == ASSUME Inv, Kill PROVE Inv'
<1> USE DEF Inv, clockVars
<1>1. /\ phase' = "down" /\ toReplay' = {} /\ toPurge' = {}
      /\ unread' = {} /\ scanned' = NothingFound
      /\ unmarkedAtKill' = unmarkedAtKill \cup {k \in InHands \ markers : ~Answered(k)}
      /\ enqPC' = [c \in Call |-> IF enqPC[c] = "idle" THEN "idle" ELSE "done"]
      /\ drainPC' = [c \in Call |-> IF drainPC[c] = "none" THEN "none" ELSE "gone"]
      /\ waiters' = [c \in Call |-> << >>]
      /\ batch' = [c \in Call |-> << >>] /\ dropped' = [c \in Call |-> << >>]
      /\ todo' = [c \in Call |-> << >>]
      /\ inflight' = 0
      /\ UNCHANGED <<diskVars, outVars, clockVars, leaked, expired, readLive>>
  BY DEF Kill
<1>2. \A c \in Call : ~Present(c)' /\ ListsOf(c)' = {}
  BY <1>1, ListMsgs DEF Present, Waiting, Taken, ListsOf
<1>3. RecTypeOK'
  <2>1. TypeOK'
    <3>1. << >> \in Seq(Call)
      BY EmptySeq
    <3>2. /\ sessions' = [s \in Session |-> None] /\ queuedByMsg' = [k \in Key |-> None]
          /\ sqmu' = [c \in Call |-> None] /\ running' = [c \in Call |-> FALSE]
          /\ sqOf' = [c \in Call |-> None] /\ rxMsg' = [r \in Reaction |-> None]
          /\ rxPC' = [r \in Reaction |-> IF rxPC[r] = "found" THEN "false" ELSE rxPC[r]]
          /\ qmu' = None /\ cancelled' = cancelled
      BY DEF Kill
    <3>3. /\ rxPC' \in [Reaction -> {"idle", "found", "true", "false"}]
          /\ enqPC' \in [Call -> EnqStates] /\ drainPC' \in [Call -> DrainStates]
      BY <1>1, <3>2 DEF RecTypeOK, TypeOK, EnqStates, DrainStates
    <3> QED
      BY <1>1, <3>1, <3>2, <3>3 DEF RecTypeOK, TypeOK
  <2>2. unmarkedAtKill' \subseteq Key
    <3>1. InHands \subseteq Key
      <4>1. \A d \in Call : ListsOf(d) \subseteq Call
        BY MsgsInType DEF RecTypeOK, TypeOK, ListsOf
      <4> QED
        BY <4>1, HandsAre, KeyOfAssumption
    <3> QED
      BY <1>1, <3>1 DEF RecTypeOK
  <2>3. kills' \in 0..MaxKills
    BY TimeAssumption DEF Kill, RecTypeOK
  <2> QED
    BY <1>1, <2>1, <2>2, <2>3 DEF RecTypeOK, NothingFound
<1>4. InflightCounts'
  <2>1. Alive' = {}
    BY <1>1 DEF Alive
  <2> QED
    BY <1>1, <2>1, FS_EmptySet DEF InflightCounts
<1>5. LocalInv'
  BY <1>1 DEF LocalInv, LocalBy, RecTypeOK, TypeOK, TakingStates, BatchStates
<1>6. TimeInv' /\ OnceInv' /\ RunInv'
  <2>1. Pending' = {} /\ Loaded' = {}
    BY <1>1 DEF Pending, Loaded, NothingFound
  <2> QED
    BY <1>1, <1>2, <2>1 DEF TimeInv, OnceInv, RunInv, Excused
<1>7. UnmarkedInv'
  BY <1>2 DEF UnmarkedInv, UnmarkedBy
<1>8. ASSUME NEW k \in Key, NEW c \in saved', KeyOf[c] = k
      PROVE  \/ k \in markers' \cup InHands' \cup unmarkedAtKill'
             \/ k \in expired' /\ now' - arrived'[k] > Staleness
             \/ Answered(k)'
  <2>1. Answered(k)' <=> Answered(k)
    BY <1>1 DEF Answered
  <2> QED
    BY <1>1, <1>8, <2>1 DEF NoSilentLoss
<1> QED
  BY <1>3, <1>4, <1>5, <1>6, <1>7, <1>8, InvParts

(* ---------------------- the calls and the drains -------------------------- *)

\* What Enqueue's steps after the marker change: the call is queued where it says,
\* and its drain starts with nothing in its hands.
LEMMA EnqueueMoves ==
    ASSUME Inv, NEW c \in Call, EnqueueProgress(c)
    PROVE  /\ UNCHANGED <<batch, dropped, todo, diskVars, outVars>>
           /\ \A m \in Call : Present(m)' => Present(m)
           /\ \/ UNCHANGED <<drainPC, inflight>>
              \/ SpawnDrain(c) /\ drainPC[c] = "none"
           /\ LocalInv'
<1> USE DEF Inv
<1>1. /\ enqPC \in [Call -> EnqStates] /\ drainPC \in [Call -> DrainStates]
      /\ sqOf \in [Call -> Call \cup {None}] /\ waiters \in [Call -> Seq(Call)]
      /\ sessions \in [Session -> Call \cup {None}]
  BY DEF RecTypeOK, TypeOK
<1>2. LocalBy(c)
  BY DEF LocalInv
<1>3. CASE LookUpSession(c)
  <2>1. /\ enqPC[c] = "marked" /\ enqPC' = [enqPC EXCEPT ![c] = "locked"]
        /\ \E q \in Call : sqOf' = [sqOf EXCEPT ![c] = q]
        /\ UNCHANGED <<sqVars, drainVars, diskVars, outVars>>
    BY <1>1, <1>3, SidType DEF LookUpSession
  <2>2. \A m \in Call : Present(m)' => Present(m)
    BY <1>1, <2>1 DEF Present, Waiting, Taken, ListsOf
  <2>3. LocalInv'
    BY <1>1, <2>1 DEF LocalInv, LocalBy, ListsOf
  <2> QED
    BY <2>1, <2>2, <2>3
<1>4. CASE AppendWaiter(c)
  <2>1. /\ enqPC[c] = "locked" /\ sqOf[c] \in Call
        /\ waiters' = [waiters EXCEPT ![sqOf[c]] = Append(@, c)]
        /\ enqPC' = [enqPC EXCEPT ![c] = IF running[sqOf[c]] THEN "ack" ELSE "spawn"]
        /\ UNCHANGED <<sqOf, drainVars, diskVars, outVars>>
    BY <1>2, <1>4 DEF AppendWaiter, LocalBy
  <2>2. \A m \in Call : Waiting(m)' => Waiting(m) \/ m = c
    <3>1. \A q \in Call : MsgsIn(waiters'[q]) \subseteq MsgsIn(waiters[q]) \cup {c}
      BY <1>1, <2>1, AppendMsgs
    <3> QED
      BY <3>1 DEF Waiting
  <2>3. \A m \in Call : Present(m)' => Present(m)
    BY <1>1, <2>1, <2>2 DEF Present, Taken, ListsOf
  <2>4. LocalInv'
    BY <1>1, <2>1 DEF LocalInv, LocalBy, ListsOf
  <2> QED
    BY <2>1, <2>3, <2>4
<1>5. CASE Ack(c)
  <2>1. /\ enqPC[c] = "ack" /\ enqPC' = [enqPC EXCEPT ![c] = "done"]
        /\ UNCHANGED <<sqOf, sqVars, drainVars, diskVars, outVars>>
    BY <1>5 DEF Ack
  <2>2. \A m \in Call : Present(m)' => Present(m)
    BY <1>1, <2>1 DEF Present, Waiting, Taken, ListsOf
  <2>3. LocalInv'
    BY <1>1, <2>1 DEF LocalInv, LocalBy, ListsOf
  <2> QED
    BY <2>1, <2>2, <2>3
<1>6. CASE SpawnDrain(c)
  <2>1. /\ enqPC[c] = "spawn" /\ enqPC' = [enqPC EXCEPT ![c] = "done"]
        /\ drainPC' = [drainPC EXCEPT ![c] = "loop"]
        /\ UNCHANGED <<sqOf, sqVars, batch, dropped, todo, diskVars, outVars>>
    BY <1>6 DEF SpawnDrain
  <2>2. drainPC[c] = "none" /\ sqOf[c] \in Call
    BY <1>1, <1>2, <2>1 DEF LocalBy
  <2>3. \A m \in Call : Present(m)' => Present(m)
    BY <1>1, <2>1 DEF Present, Waiting, Taken, ListsOf
  <2>4. LocalInv'
    BY <1>1, <2>1, <2>2 DEF LocalInv, LocalBy, ListsOf, BatchStates, TakingStates
  <2> QED
    BY <1>6, <2>1, <2>2, <2>3, <2>4
<1> QED
  BY <1>3, <1>4, <1>5, <1>6 DEF EnqueueProgress

LEMMA EnqueueInLifeKeepsInv == ASSUME Inv, NEW c \in Call, EnqueueInLife(c) PROVE Inv'
<1> USE DEF Inv, recVars, scanVars, clockVars, ghostVars
<1>1. EnqueueProgress(c) /\ UNCHANGED recVars
  BY DEF EnqueueInLife
<1>2. /\ UNCHANGED <<batch, dropped, todo, diskVars, outVars>>
      /\ \A m \in Call : Present(m)' => Present(m)
      /\ \/ UNCHANGED <<drainPC, inflight>>
         \/ SpawnDrain(c) /\ drainPC[c] = "none"
      /\ LocalInv'
  BY <1>1, EnqueueMoves
<1>3. RecTypeOK'
  <2>1. TypeOK'
    BY <1>1, EnqueueTypes DEF RecTypeOK, LocalInv, LocalBy
  <2> QED
    BY <1>1, <2>1 DEF RecTypeOK
<1>4. InflightCounts'
  <2>1. CASE UNCHANGED <<drainPC, inflight>>
    BY <2>1 DEF InflightCounts, Alive
  <2>2. CASE SpawnDrain(c) /\ drainPC[c] = "none"
    BY <2>2, SpawnCounts DEF RecTypeOK
  <2> QED
    BY <1>2, <2>1, <2>2
<1>5. \A d \in Call : \/ drainPC'[d] = drainPC[d]
                      \/ drainPC[d] = "none" /\ drainPC'[d] = "loop"
  BY <1>2 DEF SpawnDrain, RecTypeOK, TypeOK
<1>6. \A d : ListsOf(d)' = ListsOf(d)
  BY <1>2 DEF ListsOf
<1>7. \A k : (k \in InHands' <=> k \in InHands) /\ (Answered(k)' <=> Answered(k))
  BY <1>2, <1>5, <1>6, HandsAre, HandsNext DEF Answered
<1>8. TimeInv' /\ OnceInv' /\ RunInv'
  <2>1. UNCHANGED <<Pending, Loaded, Excused>>
    BY <1>1 DEF Pending, Loaded, Excused
  <2> QED
    BY <1>1, <1>2, <2>1 DEF TimeInv, OnceInv, RunInv
<1>9. UnmarkedInv'
  BY <1>1, <1>2, <1>5, <1>6 DEF UnmarkedInv, UnmarkedBy, Excused
<1> QED
  BY <1>1, <1>2, <1>3, <1>4, <1>7, <1>8, <1>9, InvParts DEF NoSilentLoss

\* What a drain has in its lists comes from its queue.
LEMMA DrainLists ==
    ASSUME Inv, NEW c \in Call, DrainStep(c)
    PROVE  /\ UNCHANGED <<enqVars, saved>> /\ drainPC[c] \notin {"none", "gone"}
           /\ \A d \in Call \ {c} :
                 /\ drainPC'[d] = drainPC[d] /\ batch'[d] = batch[d]
                 /\ dropped'[d] = dropped[d] /\ todo'[d] = todo[d]
           /\ \A m \in Call : Waiting(m)' => Waiting(m)
           /\ \A m \in ListsOf(c)' : m \in ListsOf(c) \/ Waiting(m)
           /\ \A m \in Call : Present(m)' => Present(m)
<1> USE DEF Inv
<1>1. /\ drainPC \in [Call -> DrainStates] /\ waiters \in [Call -> Seq(Call)]
      /\ batch \in [Call -> Seq(Call)] /\ dropped \in [Call -> Seq(Call)]
      /\ todo \in [Call -> Seq(Call)]
  BY DEF RecTypeOK, TypeOK
<1>2. UNCHANGED <<enqVars, saved>> /\ drainPC[c] \notin {"none", "gone"}
  BY DEF DrainStep, TakeStep, BatchStep, LeaveStep, LeaveEmpty, LockForGC, Collect, DrainDone,
         BeginTake, PartitionOne, EndTake, Forget, Unmark, UnmarkEnd, NotifyCancelled,
         StartRun, EndRun, EndGrace
<1>3. \A d \in Call \ {c} :
         /\ drainPC'[d] = drainPC[d] /\ batch'[d] = batch[d]
         /\ dropped'[d] = dropped[d] /\ todo'[d] = todo[d]
  <2>1. \A d \in Call \ {c} :
           drainPC'[d] = drainPC[d] /\ batch'[d] = batch[d] /\ dropped'[d] = dropped[d]
    BY DrainFrame DEF RecTypeOK
  <2>2. \A d \in Call \ {c} : todo'[d] = todo[d]
    BY <1>1 DEF DrainStep, TakeStep, BatchStep, LeaveStep, LeaveEmpty, LockForGC, Collect,
           DrainDone, BeginTake, PartitionOne, EndTake, Forget, Unmark, UnmarkEnd,
           NotifyCancelled, StartRun, EndRun, EndGrace
  <2> QED
    BY <2>1, <2>2
<1>4. \A m \in Call : Waiting(m)' => Waiting(m)
  <2>1. CASE EndTake(c)
    <3>1. \A q \in Call : MsgsIn(waiters'[q]) \subseteq MsgsIn(waiters[q])
      BY <1>1, <2>1, ListMsgs DEF EndTake
    <3> QED
      BY <3>1 DEF Waiting
  <2>2. CASE ~EndTake(c)
    <3>1. UNCHANGED waiters
      BY <2>2 DEF DrainStep, TakeStep, BatchStep, LeaveStep, LeaveEmpty, LockForGC, Collect,
             DrainDone, BeginTake, PartitionOne, Forget, Unmark, UnmarkEnd, NotifyCancelled,
             StartRun, EndRun, EndGrace
    <3> QED
      BY <3>1 DEF Waiting
  <2> QED
    BY <2>1, <2>2
<1>5. \A m \in ListsOf(c)' : m \in ListsOf(c) \/ Waiting(m)
  <2>1. CASE PartitionOne(c)
    <3> DEFINE w == waiters[sqOf[c]]
               nb == Len(batch[c])
               nd == Len(dropped[c])
               n == nb + nd + 1
               x == w[n]
    <3>1. /\ drainPC[c] = "partition" /\ nb + nd < Len(w)
          /\ \/ dropped' = [dropped EXCEPT ![c] = Append(@, x)] /\ batch' = batch
             \/ batch' = [batch EXCEPT ![c] = Append(@, x)] /\ dropped' = dropped
      BY <2>1 DEF PartitionOne, Visited
    <3>2. sqOf[c] \in Call /\ w \in Seq(Call)
      BY <1>1, <3>1 DEF LocalInv, LocalBy
    <3>3. nb \in Nat /\ nd \in Nat /\ Len(w) \in Nat
      BY <1>1, <3>2, LenProperties
    <3>4. n \in 1..Len(w)
      <4> HIDE DEF w, nb, nd
      <4> QED
        BY <3>1, <3>3
    <3>5. x \in Call /\ Waiting(x)
      <4> HIDE DEF n
      <4> QED
        BY <3>2, <3>4, ElementOfSeq DEF Waiting, MsgsIn
    <3> HIDE DEF w, nb, nd, n, x
    <3>6. ListsOf(c)' = ListsOf(c) \cup {x}
      <4>1. CASE dropped' = [dropped EXCEPT ![c] = Append(@, x)] /\ batch' = batch
        <5>1. MsgsIn(dropped'[c]) = MsgsIn(dropped[c]) \cup {x}
          BY <1>1, <3>5, <4>1, AppendMsgs
        <5> QED
          BY <4>1, <5>1 DEF ListsOf
      <4>2. CASE batch' = [batch EXCEPT ![c] = Append(@, x)] /\ dropped' = dropped
        <5>1. MsgsIn(batch'[c]) = MsgsIn(batch[c]) \cup {x}
          BY <1>1, <3>5, <4>2, AppendMsgs
        <5> QED
          BY <4>2, <5>1 DEF ListsOf
      <4> QED
        BY <3>1, <4>1, <4>2
    <3> QED
      BY <3>5, <3>6
  <2>2. CASE NotifyCancelled(c) \/ EndRun(c)
    <3>1. ListsOf(c)' \subseteq ListsOf(c)
      BY <1>1, <2>2, ListMsgs DEF NotifyCancelled, EndRun, ListsOf
    <3> QED
      BY <3>1
  <2>3. CASE ~PartitionOne(c) /\ ~NotifyCancelled(c) /\ ~EndRun(c)
    <3>1. UNCHANGED <<batch, dropped>>
      BY <2>3 DEF DrainStep, TakeStep, BatchStep, LeaveStep, LeaveEmpty, LockForGC, Collect,
             DrainDone, BeginTake, EndTake, Forget, Unmark, UnmarkEnd, StartRun, EndGrace
    <3> QED
      BY <3>1 DEF ListsOf
  <2> QED
    BY <2>1, <2>2, <2>3
<1>6. \A m \in Call : Present(m)' => Present(m)
  <2>1. \A d \in Call \ {c} : ListsOf(d)' = ListsOf(d)
    BY <1>3 DEF ListsOf
  <2>2. \A m : Taken(m)' => Taken(m) \/ Waiting(m)
    BY <1>5, <2>1 DEF Taken
  <2> QED
    BY <1>2, <1>4, <2>2 DEF Present
<1> QED
  BY <1>2, <1>3, <1>4, <1>5, <1>6

\* What a drain holds it answers or keeps, and it takes no marker but of a message
\* it holds.
LEMMA DrainKeepsHands ==
    ASSUME Inv, NEW c \in Call, DrainStep(c)
    PROVE  /\ markers' \subseteq markers
           /\ \A k \in markers \ markers' : k \in InHands'
           /\ \A k \in InHands : k \in InHands' \/ Answered(k)'
           /\ \A m \in ListsOf(c) : m \in ListsOf(c)' \/ m \in ran' \cup stopped'
<1> USE DEF Inv
<1>1. /\ drainPC \in [Call -> DrainStates] /\ waiters \in [Call -> Seq(Call)]
      /\ batch \in [Call -> Seq(Call)] /\ dropped \in [Call -> Seq(Call)]
      /\ todo \in [Call -> Seq(Call)]
      /\ ran \subseteq ran' /\ stopped \subseteq stopped'
      /\ LocalBy(c)
  BY DrainFrame DEF RecTypeOK, TypeOK, LocalInv
<1>2. \A m \in ListsOf(c) : m \in ListsOf(c)' \/ m \in ran' \cup stopped'
  <2>1. CASE PartitionOne(c)
    <3> DEFINE x == waiters[sqOf[c]][Visited(c) + 1]
    <3>1. /\ drainPC[c] = "partition"
          /\ \/ dropped' = [dropped EXCEPT ![c] = Append(@, x)] /\ batch' = batch
             \/ batch' = [batch EXCEPT ![c] = Append(@, x)] /\ dropped' = dropped
      BY <2>1 DEF PartitionOne
    <3>2. Visited(c) + 1 \in 1..Len(waiters[sqOf[c]]) /\ x \in Call
      <4> DEFINE w == waiters[sqOf[c]]
                 nb == Len(batch[c])
                 nd == Len(dropped[c])
      <4>1. w \in Seq(Call) /\ nb + nd < Len(w)
        BY <1>1, <2>1, <3>1 DEF LocalBy, PartitionOne, Visited
      <4>2. nb \in Nat /\ nd \in Nat /\ Len(w) \in Nat
        BY <1>1, <4>1, LenProperties
      <4>3. nb + nd + 1 \in 1..Len(w)
        <5> HIDE DEF w, nb, nd
        <5> QED
          BY <4>1, <4>2
      <4>4. w[nb + nd + 1] \in Call
        <5> HIDE DEF w, nb, nd
        <5> QED
          BY <4>1, <4>3, ElementOfSeq
      <4> QED
        BY <4>3, <4>4 DEF Visited
    <3> HIDE DEF x
    <3>3. ListsOf(c) \subseteq ListsOf(c)'
      <4>1. CASE dropped' = [dropped EXCEPT ![c] = Append(@, x)] /\ batch' = batch
        <5>1. MsgsIn(dropped'[c]) = MsgsIn(dropped[c]) \cup {x}
          BY <1>1, <3>2, <4>1, AppendMsgs
        <5> QED
          BY <4>1, <5>1 DEF ListsOf
      <4>2. CASE batch' = [batch EXCEPT ![c] = Append(@, x)] /\ dropped' = dropped
        <5>1. MsgsIn(batch'[c]) = MsgsIn(batch[c]) \cup {x}
          BY <1>1, <3>2, <4>2, AppendMsgs
        <5> QED
          BY <4>2, <5>1 DEF ListsOf
      <4> QED
        BY <3>1, <4>1, <4>2
    <3> QED
      BY <3>3
  <2>2. CASE NotifyCancelled(c)
    BY <2>2 DEF NotifyCancelled, ListsOf
  <2>3. CASE EndRun(c)
    BY <1>1, <2>3 DEF EndRun, ListsOf, LocalBy
  <2>4. CASE ~PartitionOne(c) /\ ~NotifyCancelled(c) /\ ~EndRun(c)
    <3>1. UNCHANGED <<batch, dropped>>
      BY <2>4 DEF DrainStep, TakeStep, BatchStep, LeaveStep, LeaveEmpty, LockForGC, Collect,
             DrainDone, BeginTake, EndTake, Forget, Unmark, UnmarkEnd, StartRun, EndGrace
    <3> QED
      BY <3>1 DEF ListsOf
  <2> QED
    BY <2>1, <2>2, <2>3, <2>4
<1>3. drainPC[c] # "partition" /\ drainPC'[c] = "partition" => ListsOf(c) = {}
  <2>1. CASE BeginTake(c)
    <3>1. batch[c] = << >> /\ dropped[c] = << >>
      BY <1>1, <2>1 DEF BeginTake, LocalBy, BatchStates, TakingStates
    <3> QED
      BY <3>1, ListMsgs DEF ListsOf
  <2>2. CASE ~BeginTake(c)
    BY <1>1, <2>2 DEF DrainStep, TakeStep, BatchStep, LeaveStep, LeaveEmpty, LockForGC, Collect,
       DrainDone, PartitionOne, EndTake, Forget, Unmark, UnmarkEnd, NotifyCancelled, StartRun,
       EndRun, EndGrace
  <2> QED
    BY <2>1, <2>2
<1>4. \A d \in Call \ {c} : drainPC'[d] = drainPC[d] /\ ListsOf(d)' = ListsOf(d)
  BY DrainLists DEF ListsOf
<1>5. \A k \in InHands : k \in InHands' \/ Answered(k)'
  <2> SUFFICES ASSUME NEW k \in InHands PROVE k \in InHands' \/ Answered(k)'
    OBVIOUS
  <2>1. PICK d \in Call : drainPC[d] # "partition" /\ \E m \in ListsOf(d) : KeyOf[m] = k
    BY HandsAre
  <2>2. PICK m \in ListsOf(d) : KeyOf[m] = k
    BY <2>1
  <2>3. CASE d = c
    <3>1. m \in ListsOf(c)' \/ m \in ran' \cup stopped'
      BY <1>2, <2>2, <2>3
    <3>2. drainPC'[c] # "partition"
      BY <1>3, <2>1, <2>2, <2>3
    <3> QED
      BY <2>2, <3>1, <3>2, HandsNext DEF Answered
  <2>4. CASE d # c
    BY <1>4, <2>1, <2>2, <2>4, HandsNext
  <2> QED
    BY <2>3, <2>4
<1>6. markers' \subseteq markers /\ \A k \in markers \ markers' : k \in InHands'
  <2>1. CASE Unmark(c)
    <3> DEFINE h == Head(todo[c])
    <3>1. /\ drainPC[c] = "unmark" /\ todo[c] # << >> /\ UNCHANGED <<drainPC, batch, dropped>>
          /\ markers' \in {markers, markers \ {KeyOf[h]}}
      BY <2>1 DEF Unmark, RemoveMarker
    <3>2. h \in ListsOf(c)
      <4>1. h \in MsgsIn(todo[c])
        BY <1>1, <3>1, ListMsgs
      <4> QED
        BY <1>1, <3>1, <4>1 DEF LocalBy
    <3>3. KeyOf[h] \in InHands'
      <4>1. h \in ListsOf(c)' /\ drainPC'[c] # "partition"
        BY <3>1, <3>2 DEF ListsOf
      <4> HIDE DEF h
      <4> QED
        BY <4>1, HandsNext
    <3> HIDE DEF h
    <3> QED
      BY <3>1, <3>3
  <2>2. CASE ~Unmark(c)
    BY <2>2 DEF DrainStep, TakeStep, BatchStep, LeaveStep, LeaveEmpty, LockForGC, Collect,
       DrainDone, BeginTake, PartitionOne, EndTake, Forget, UnmarkEnd, NotifyCancelled, StartRun,
       EndRun, EndGrace
  <2> QED
    BY <2>1, <2>2
<1> QED
  BY <1>2, <1>5, <1>6

\* A drain's lists are empty where they are not in use, what it runs is its batch,
\* and what it still has to unmark it holds.
LEMMA DrainKeepsLocal == ASSUME Inv, NEW c \in Call, DrainStep(c) PROVE LocalInv'
<1> USE DEF Inv
<1>1. /\ drainPC \in [Call -> DrainStates] /\ waiters \in [Call -> Seq(Call)]
      /\ batch \in [Call -> Seq(Call)] /\ dropped \in [Call -> Seq(Call)]
      /\ todo \in [Call -> Seq(Call)]
      /\ LocalBy(c)
  BY DEF RecTypeOK, TypeOK, LocalInv
<1>2. /\ UNCHANGED <<enqVars, saved>> /\ drainPC[c] \notin {"none", "gone"}
      /\ ran \subseteq ran'
      /\ \A d \in Call \ {c} :
            /\ drainPC'[d] = drainPC[d] /\ batch'[d] = batch[d]
            /\ dropped'[d] = dropped[d] /\ todo'[d] = todo[d]
  BY DrainLists, DrainFrame DEF RecTypeOK
<1>3. \A d \in Call \ {c} : LocalBy(d)'
  <2> SUFFICES ASSUME NEW d \in Call \ {c} PROVE LocalBy(d)'
    OBVIOUS
  <2>1. LocalBy(d) /\ ListsOf(d)' = ListsOf(d)
    BY <1>2 DEF LocalInv, ListsOf
  <2> QED
    BY <1>2, <2>1 DEF LocalBy
<1>4. /\ drainPC'[c] \notin BatchStates \cup {"partition"} => batch'[c] = << >>
      /\ drainPC'[c] \notin TakingStates => dropped'[c] = << >>
  <2> USE DEF BatchStates, TakingStates, LocalBy
  <2>1. CASE LeaveStep(c)
    BY <1>1, <2>1 DEF LeaveStep, LeaveEmpty, LockForGC, Collect, DrainDone
  <2>2. CASE TakeStep(c)
    BY <1>1, <2>2 DEF TakeStep, BeginTake, PartitionOne, EndTake
  <2>3. CASE Forget(c) \/ Unmark(c) \/ UnmarkEnd(c)
    BY <1>1, <2>3 DEF Forget, Unmark, UnmarkEnd
  <2>4. CASE NotifyCancelled(c) \/ StartRun(c) \/ EndRun(c) \/ EndGrace(c)
    BY <1>1, <2>4 DEF NotifyCancelled, StartRun, EndRun, EndGrace
  <2> QED
    BY <2>1, <2>2, <2>3, <2>4 DEF DrainStep, BatchStep
<1>5. drainPC'[c] = "running" => MsgsIn(batch'[c]) \subseteq ran'
  <2>1. CASE StartRun(c)
    BY <2>1 DEF StartRun
  <2>2. CASE ~StartRun(c)
    BY <1>1, <2>2 DEF DrainStep, TakeStep, BatchStep, LeaveStep, LeaveEmpty, LockForGC, Collect,
       DrainDone, BeginTake, PartitionOne, EndTake, Forget, Unmark, UnmarkEnd, NotifyCancelled,
       EndRun, EndGrace
  <2> QED
    BY <2>1, <2>2
<1>6. drainPC'[c] = "unmark" => MsgsIn(todo'[c]) \subseteq ListsOf(c)'
  <2>1. CASE Forget(c)
    <3>1. todo'[c] = batch[c] \o dropped[c] /\ UNCHANGED <<batch, dropped>>
      BY <1>1, <2>1 DEF Forget
    <3>2. MsgsIn(todo'[c]) = ListsOf(c)
      BY <1>1, <3>1, ListMsgs DEF ListsOf
    <3> QED
      BY <3>1, <3>2 DEF ListsOf
  <2>2. CASE Unmark(c)
    <3>1. /\ drainPC[c] = "unmark" /\ todo[c] # << >> /\ todo'[c] = Tail(todo[c])
          /\ UNCHANGED <<batch, dropped>>
      BY <1>1, <2>2 DEF Unmark
    <3>2. MsgsIn(todo'[c]) \subseteq MsgsIn(todo[c])
      BY <1>1, <3>1, ListMsgs
    <3> QED
      BY <1>1, <3>1, <3>2 DEF LocalBy, ListsOf
  <2>3. CASE ~Forget(c) /\ ~Unmark(c)
    BY <1>1, <2>3 DEF DrainStep, TakeStep, BatchStep, LeaveStep, LeaveEmpty, LockForGC, Collect,
       DrainDone, BeginTake, PartitionOne, EndTake, UnmarkEnd, NotifyCancelled, StartRun, EndRun,
       EndGrace
  <2> QED
    BY <2>1, <2>2, <2>3
<1>7. LocalBy(c)'
  BY <1>1, <1>2, <1>4, <1>5, <1>6 DEF LocalBy
<1> QED
  BY <1>3, <1>7 DEF LocalInv

\* The markers of a batch are gone before it is run, or known to be left.
LEMMA DrainKeepsUnmarked ==
    ASSUME Inv, NEW c \in Call, DrainStep(c), leaked' = leaked \cup FailedRemoval(c),
           UNCHANGED readLive
    PROVE  UnmarkedInv'
<1> USE DEF Inv
<1>1. /\ drainPC \in [Call -> DrainStates] /\ batch \in [Call -> Seq(Call)]
      /\ dropped \in [Call -> Seq(Call)] /\ todo \in [Call -> Seq(Call)]
      /\ markers' \subseteq markers
      /\ Excused \subseteq Excused' /\ FailedRemoval(c) \subseteq Excused'
  BY DrainKeepsHands DEF RecTypeOK, TypeOK, Excused
<1>2. ASSUME NEW d \in Call \ {c} PROVE UnmarkedBy(d)'
  <2>1. /\ drainPC'[d] = drainPC[d] /\ todo'[d] = todo[d] /\ ListsOf(d)' = ListsOf(d)
        /\ UnmarkedBy(d)
    BY DrainLists DEF ListsOf, UnmarkedInv
  <2> QED
    BY <1>1, <2>1 DEF UnmarkedBy
<1>3. ASSUME drainPC'[c] \in {"unmark", "notify", "run", "running"}, NEW m \in ListsOf(c)'
      PROVE  \/ KeyOf[m] \in Excused' \/ KeyOf[m] \notin markers'
             \/ drainPC'[c] = "unmark" /\ \E x \in MsgsIn(todo'[c]) : KeyOf[x] = KeyOf[m]
  <2>1. CASE Forget(c)
    <3>1. /\ todo'[c] = batch[c] \o dropped[c] /\ UNCHANGED <<batch, dropped>>
          /\ drainPC'[c] = "unmark"
      BY <1>1, <2>1 DEF Forget
    <3>2. MsgsIn(todo'[c]) = ListsOf(c)'
      BY <1>1, <3>1, ListMsgs DEF ListsOf
    <3> QED
      BY <1>3, <3>1, <3>2
  <2>2. CASE Unmark(c)
    <3> DEFINE h == Head(todo[c])
    <3>1. /\ drainPC[c] = "unmark" /\ todo[c] # << >> /\ todo'[c] = Tail(todo[c])
          /\ UNCHANGED <<drainPC, batch, dropped>>
          /\ FailedRemoval(c) = {KeyOf[h]} \cap markers'
      BY <1>1, <2>2 DEF Unmark, FailedRemoval
    <3>2. MsgsIn(todo[c]) = {h} \cup MsgsIn(todo'[c])
      BY <1>1, <3>1, ListMsgs
    <3>3. \/ KeyOf[m] \in Excused \/ KeyOf[m] \notin markers
          \/ \E x \in MsgsIn(todo[c]) : KeyOf[x] = KeyOf[m]
      BY <1>3, <3>1 DEF ListsOf, UnmarkedInv, UnmarkedBy
    <3> HIDE DEF h
    <3> QED
      BY <1>1, <3>1, <3>2, <3>3
  <2>3. CASE UnmarkEnd(c)
    <3>1. /\ drainPC[c] = "unmark" /\ todo[c] = << >> /\ UNCHANGED <<batch, dropped>>
      BY <2>3 DEF UnmarkEnd
    <3> QED
      BY <1>1, <1>3, <3>1, ListMsgs DEF ListsOf, UnmarkedInv, UnmarkedBy
  <2>4. CASE NotifyCancelled(c) \/ StartRun(c)
    <3>1. drainPC[c] \in {"notify", "run"} /\ ListsOf(c)' \subseteq ListsOf(c)
      BY <1>1, <2>4, ListMsgs DEF NotifyCancelled, StartRun, ListsOf
    <3> QED
      BY <1>1, <1>3, <3>1 DEF UnmarkedInv, UnmarkedBy
  <2>5. CASE ~(Forget(c) \/ Unmark(c) \/ UnmarkEnd(c) \/ NotifyCancelled(c) \/ StartRun(c))
    <3>1. drainPC'[c] \notin {"unmark", "notify", "run", "running"}
      BY <1>1, <2>5 DEF DrainStep, TakeStep, BatchStep, LeaveStep, LeaveEmpty, LockForGC,
         Collect, DrainDone, BeginTake, PartitionOne, EndTake, EndRun, EndGrace
    <3> QED
      BY <1>3, <3>1
  <2> QED
    BY <2>1, <2>2, <2>3, <2>4, <2>5
<1> QED
  BY <1>2, <1>3 DEF UnmarkedInv, UnmarkedBy

\* What is run a second time is a message whose marker was left.
LEMMA DrainKeepsRun ==
    ASSUME Inv, NEW c \in Call, DrainInLife(c)
    PROVE  RunInv' /\ \A m \in ran' : m \in ran \/ (m \in Call /\ Present(m))
<1> USE DEF Inv
<1>1. /\ DrainStep(c) /\ Excused \subseteq Excused' /\ Pending' = Pending
      /\ drainPC \in [Call -> DrainStates] /\ batch \in [Call -> Seq(Call)]
      /\ ran \subseteq Call
  BY DEF DrainInLife, RecTypeOK, TypeOK, Excused, Pending, Loaded, scanVars
<1>2. markers' \subseteq markers /\ \A m \in Call : Present(m)' => Present(m)
  BY <1>1, DrainKeepsHands, DrainLists
<1>3. \A m \in ran' : m \in ran \/ (StartRun(c) /\ m \in ListsOf(c))
  <2>1. CASE StartRun(c)
    BY <2>1 DEF StartRun, ListsOf
  <2>2. CASE ~StartRun(c)
    <3>1. ran' = ran
      BY <1>1, <2>2 DEF DrainStep, TakeStep, BatchStep, LeaveStep, LeaveEmpty, LockForGC, Collect,
         DrainDone, BeginTake, PartitionOne, EndTake, Forget, Unmark, UnmarkEnd, NotifyCancelled,
         EndRun, EndGrace
    <3> QED
      BY <3>1
  <2> QED
    BY <2>1, <2>2
<1>4. \A m \in ListsOf(c) : m \in Call /\ Present(m)
  <2>1. ListsOf(c) \subseteq Call
    BY MsgsInType DEF RecTypeOK, TypeOK, ListsOf
  <2> QED
    BY <2>1 DEF Present, Taken
<1>5. ASSUME NEW m \in ran', KeyOf[m] \notin Excused'
      PROVE  /\ KeyOf[m] \notin markers' \cup Pending'
             /\ \A d \in Call :
                   KeyOf[d] = KeyOf[m] /\ (Present(d)' \/ d \in ran') => d = m
  <2>1. KeyOf[m] \notin Excused
    BY <1>1, <1>5
  <2>2. \A d \in Call : Present(d)' \/ d \in ran' => Present(d) \/ d \in ran
    BY <1>2, <1>3, <1>4
  <2>3. CASE m \in ran
    BY <1>1, <1>2, <2>1, <2>2, <2>3 DEF RunInv
  <2>4. CASE StartRun(c) /\ m \in ListsOf(c)
    <3>1. m \in Call /\ Present(m)
      BY <1>4, <2>4
    <3>2. drainPC[c] = "run" /\ markers' = markers
      BY <2>4 DEF StartRun
    <3>3. KeyOf[m] \notin markers
      BY <2>1, <2>4, <3>2 DEF UnmarkedInv, UnmarkedBy
    <3>4. /\ KeyOf[m] \notin Pending
          /\ \A d \in Call : Present(d) /\ KeyOf[d] = KeyOf[m] => d = m
      BY <2>1, <3>1 DEF OnceInv, Excused
    <3>5. \A d \in ran : KeyOf[d] = KeyOf[m] => m = d
      BY <2>1, <3>1 DEF RunInv
    <3> QED
      BY <1>1, <2>2, <3>2, <3>3, <3>4, <3>5
  <2> QED
    BY <1>3, <2>3, <2>4
<1> QED
  BY <1>3, <1>4, <1>5 DEF RunInv

LEMMA DrainInLifeKeepsInv == ASSUME Inv, NEW c \in Call, DrainInLife(c) PROVE Inv'
<1> USE DEF Inv, scanVars, clockVars
<1>1. /\ DrainStep(c) /\ leaked' = leaked \cup FailedRemoval(c)
      /\ UNCHANGED <<scanVars, clockVars, expired, readLive, unmarkedAtKill, kills>>
      /\ UNCHANGED <<Pending, Loaded>>
  BY DEF DrainInLife, Pending, Loaded
<1>2. /\ markers' \subseteq markers
      /\ \A k \in markers \ markers' : k \in InHands'
      /\ \A k \in InHands : k \in InHands' \/ Answered(k)'
  BY <1>1, DrainKeepsHands
<1>3. /\ UNCHANGED saved /\ \A m \in Call : Present(m)' => Present(m)
      /\ ran \subseteq ran' /\ stopped \subseteq stopped'
  BY <1>1, DrainLists, DrainFrame DEF RecTypeOK
<1>4. RunInv' /\ \A m \in ran' : m \in ran \/ (m \in Call /\ Present(m))
  BY DrainKeepsRun
<1>5. RecTypeOK'
  <2>1. TypeOK'
    BY <1>1, DrainTypes DEF RecTypeOK, LocalInv, LocalBy
  <2>2. FailedRemoval(c) \subseteq Key
    BY <2>1 DEF FailedRemoval, TypeOK
  <2> QED
    BY <1>1, <2>1, <2>2 DEF RecTypeOK
<1>6. InflightCounts'
  <2>1. CASE DrainDone(c)
    BY <2>1, DoneCounts DEF RecTypeOK
  <2>2. CASE ~DrainDone(c)
    <3>1. /\ UNCHANGED inflight
          /\ drainPC[c] \notin {"none", "gone"} /\ drainPC'[c] \notin {"none", "gone"}
      BY <1>1, <2>2 DEF RecTypeOK, TypeOK, DrainStep, TakeStep, BatchStep, LeaveStep, LeaveEmpty,
         LockForGC, Collect, BeginTake, PartitionOne, EndTake, Forget, Unmark, UnmarkEnd,
         NotifyCancelled, StartRun, EndRun, EndGrace
    <3>2. \A d \in Call : d # c => drainPC'[d] = drainPC[d]
      BY <1>1, DrainFrame DEF RecTypeOK
    <3>3. Alive' = Alive
      BY <3>1, <3>2 DEF Alive
    <3> QED
      BY <3>1, <3>3 DEF InflightCounts
  <2> QED
    BY <2>1, <2>2
<1>7. LocalInv' /\ UnmarkedInv'
  BY <1>1, DrainKeepsLocal, DrainKeepsUnmarked
<1>8. TimeInv'
  <2>1. \A m \in ran' : arrived[KeyOf[m]] # Never
    BY <1>4 DEF TimeInv, OnceInv
  <2> QED
    BY <1>1, <1>2, <2>1 DEF TimeInv
<1>9. OnceInv'
  BY <1>1, <1>3 DEF OnceInv
<1>10. ASSUME NEW k \in Key, NEW m \in saved', KeyOf[m] = k
       PROVE  \/ k \in markers' \cup InHands' \cup unmarkedAtKill'
              \/ k \in expired' /\ now' - arrived'[k] > Staleness
              \/ Answered(k)'
  <2>1. \/ k \in markers \cup InHands \cup unmarkedAtKill
        \/ k \in expired /\ now - arrived[k] > Staleness
        \/ Answered(k)
    BY <1>3, <1>10 DEF NoSilentLoss
  <2>2. Answered(k) => Answered(k)'
    BY <1>3 DEF Answered
  <2> QED
    BY <1>1, <1>2, <2>1, <2>2
<1> QED
  BY <1>4, <1>5, <1>6, <1>7, <1>8, <1>9, <1>10, InvParts

(* ------------------------------ theorems ---------------------------------- *)

LEMMA InitHasRecInv == RecInit => Inv
<1> SUFFICES ASSUME RecInit PROVE Inv
  OBVIOUS
<1>1. RecTypeOK
  <2>1. TypeOK
    <3>1. << >> \in Seq(Call)
      BY EmptySeq
    <3> QED
      BY <3>1, CorruptAssumption DEF RecInit, EmptyQueue, TypeOK, EnqStates, DrainStates
  <2> QED
    BY <2>1, Clock, TimeAssumption, CorruptAssumption DEF RecInit, NothingFound, RecTypeOK
<1>2. InflightCounts
  <2>1. Alive = {}
    BY DEF RecInit, EmptyQueue, Alive
  <2> QED
    BY <2>1, FS_EmptySet DEF RecInit, EmptyQueue, InflightCounts
<1>3. \A c \in Call : ~Present(c) /\ ListsOf(c) = {}
  BY ListMsgs DEF RecInit, EmptyQueue, Present, Waiting, Taken, ListsOf
<1>4. LocalInv
  BY DEF RecInit, EmptyQueue, LocalInv, LocalBy, BatchStates, TakingStates
<1>5. TimeInv /\ Loaded = {} /\ Pending = {}
  <2>1. Loaded = {} /\ Pending = {}
    BY DEF RecInit, NothingFound, Loaded, Pending
  <2>2. markers \subseteq Key
    BY CorruptAssumption DEF RecInit
  <2> QED
    BY <2>1, <2>2, Clock, TimeAssumption DEF RecInit, EmptyQueue, TimeInv
<1>6. OnceInv /\ UnmarkedInv /\ RunInv
  BY <1>3, <1>5 DEF RecInit, EmptyQueue, OnceInv, UnmarkedInv, UnmarkedBy, RunInv
<1>7. NoSilentLoss
  BY <1>1 DEF RecInit, EmptyQueue, NoSilentLoss
<1> QED
  BY <1>1, <1>2, <1>4, <1>5, <1>6, <1>7 DEF Inv

LEMMA StepKeepsRecInv == Inv /\ [RecNext]_allVars => Inv'
<1> SUFFICES ASSUME Inv, [RecNext]_allVars PROVE Inv'
  OBVIOUS
<1>1. ASSUME NEW k \in Key, Reinject(k) \/ Purge(k) \/ Arrive(k) PROVE Inv'
  BY <1>1, ReinjectKeepsInv, PurgeKeepsInv, ArriveKeepsInv
<1>2. ASSUME NEW c \in Call, EnqueueInLife(c) \/ DrainInLife(c) PROVE Inv'
  BY <1>2, EnqueueInLifeKeepsInv, DrainInLifeKeepsInv
<1>3. CASE \/ Boot \/ Judge \/ EndReplay \/ Tick \/ UNCHANGED allVars
           \/ \E k \in Key : ReadMarker(k)
           \/ \E r \in Reaction : CancelInLife(r)
  BY <1>3, BootKeepsInv
<1>4. CASE Kill
  BY <1>4, KillKeepsInv
<1> QED
  BY <1>1, <1>2, <1>3, <1>4 DEF RecNext, BootStep, RecFinished

\* Over any number of kills and restarts a message whose marker was written is on
\* disk, in a drain's hands or answered, but for the two cases NoSilentLoss names
\* (sessionqueue.go:33-41, 172-177, 295-299, 506-509).
THEOREM NothingIsLost == RecSpec => []NoSilentLoss
<1>1. Inv => NoSilentLoss
  BY DEF Inv
<1> QED
  BY <1>1, InitHasRecInv, StepKeepsRecInv, PTL DEF RecSpec

\* A message runs again only if the drain failed to remove its marker, or a scan
\* read the marker beside the message's own delivery (sessionqueue.go:295-305,
\* 453-504, 529-554).
THEOREM RunsAreUnique == RecSpec => []RunTwiceHasCause
<1>1. Inv => RunTwiceHasCause
  BY DEF Inv, RunInv, RunTwiceHasCause, RunsOf, Excused, RecTypeOK, TypeOK
<1> QED
  BY <1>1, InitHasRecInv, StepKeepsRecInv, PTL DEF RecSpec

=============================================================================
