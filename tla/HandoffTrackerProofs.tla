------------------------- MODULE HandoffTrackerProofs -------------------------
(* The caps on handoffs hold and no admission is lost, for any number of calls *)
(* and threads and all caps, when the calls are made on one tracker.           *)
EXTENDS HandoffTracker, FiniteSetTheorems, SequenceTheorems, TLAPS

\* The calls share one tracker, and its mutex.
OneTracker == \A t, u \in Tracker : t = u

Ask == [to : Agent, thread : Thread]
InCall(c) == pc[c] \in {"locked", "loaded", "written"}

\* A call holds the mutex of its tracker until it returns.
HoldInv ==
    \A c \in Call :
        /\ InCall(c) => tracker[c] \in Tracker /\ mu[tracker[c]] = c /\ args[c] \in Ask
        /\ pc[c] = "loaded" => loaded[c] = file
        /\ outcome[c] = "admitted" => pc[c] = "returned" /\ args[c] \in Ask

\* The admitted handoffs are in the past, none on a day after the one counted.
TimeInv ==
    /\ IsFiniteSet(Admitted)
    /\ file.globalDailyKey <= Day(now)
    /\ \A c \in Admitted : at[c] <= now /\ Day(at[c]) <= file.globalDailyKey

HopsAfter(hops, x) == {i \in 1..Len(hops) : hops[i].at > x}
SpawnsAfter(th, x) == {c \in AdmittedIn(th) : at[c] > x}
SpawnsOn(day) == {c \in Admitted : Day(at[c]) = day}

\* A thread's hops are its admissions, at the same times.
CountsAgree(x) ==
    \A th \in Thread :
        Cardinality(HopsAfter(file.threads[th], x)) = Cardinality(SpawnsAfter(th, x))
CountInv == \A x \in Int : CountsAgree(x)

\* The day's tally, and no two hops in a row to one agent.
DailyInv == file.globalDailyN = Cardinality(SpawnsOn(file.globalDailyKey))
TurnsInv ==
    \A th \in Thread : \A i \in 2..Len(file.threads[th]) :
        file.threads[th][i - 1].to # file.threads[th][i].to

\* What a call has written adds its hop to the file, and there is room for it.
WrittenInv ==
    \A c \in Call : pc[c] = "written" =>
        LET th == args[c].thread
            hops == file.threads[th]
        IN  /\ at[c] <= now
            /\ tmp = [threads |-> [file.threads EXCEPT ![th] =
                                     Append(@, [from |-> From(args[c].to), to |-> args[c].to,
                                                at |-> at[c]])],
                      globalDailyKey |-> Day(at[c]),
                      globalDailyN |-> Cardinality(SpawnsOn(Day(at[c]))) + 1]
            /\ file.globalDailyKey <= Day(at[c])
            /\ \A d \in Admitted : at[d] <= at[c]
            /\ Cardinality(SpawnsAfter(th, at[c] - HopWindow)) < MaxHopsPerThread
            /\ Cardinality(AdmittedIn(th)) < MaxSpawnsPerThread
            /\ Cardinality(SpawnsOn(Day(at[c]))) < MaxSpawnsPerDay
            /\ hops # << >> => hops[Len(hops)].to # args[c].to

Inv == TypeOK /\ HoldInv /\ TimeInv /\ CountInv /\ DailyInv /\ TurnsInv /\ WrittenInv /\ CapsHold

(* ------------------------------- counting --------------------------------- *)

LEMMA Parameters ==
    /\ MaxHopsPerThread \in Nat /\ MaxSpawnsPerThread \in Nat /\ MaxSpawnsPerDay \in Nat
    /\ HopWindow \in Nat /\ DayLength \in Nat /\ DayLength > 0 /\ MaxTime \in Nat
    /\ Time \subseteq Nat
BY CapAssumption DEF Time

\* Days follow each other.
LEMMA DayGrows ==
    ASSUME NEW s \in Nat, NEW t \in Nat, s <= t
    PROVE  Day(s) \in Nat /\ Day(s) <= Day(t)
BY Parameters DEF Day

\* One more hop counts in the windows that it falls in.
LEMMA AppendCounts ==
    ASSUME NEW hops \in Seq(Hop), NEW h \in Hop, NEW x \in Int
    PROVE  /\ IsFiniteSet(HopsAfter(hops, x)) /\ Cardinality(HopsAfter(hops, x)) \in Nat
           /\ Cardinality(HopsAfter(Append(hops, h), x))
                = Cardinality(HopsAfter(hops, x)) + IF h.at > x THEN 1 ELSE 0
<1> DEFINE n == Len(hops)
<1>1. /\ n \in Nat /\ Len(Append(hops, h)) = n + 1
      /\ \A i \in 1..n : Append(hops, h)[i] = hops[i]
      /\ Append(hops, h)[n + 1] = h
  BY AppendProperties
<1>2. IsFiniteSet(HopsAfter(hops, x)) /\ Cardinality(HopsAfter(hops, x)) \in Nat
  <2>1. IsFiniteSet(1..n)
    BY <1>1, FS_Interval
  <2> QED
    BY <2>1, FS_Subset, FS_CardinalityType DEF HopsAfter
<1>3. n + 1 \notin HopsAfter(hops, x)
  BY <1>1 DEF HopsAfter
<1>4. CASE h.at > x
  <2>1. HopsAfter(Append(hops, h), x) = HopsAfter(hops, x) \cup {n + 1}
    BY <1>1, <1>4 DEF HopsAfter
  <2> QED
    BY <1>2, <1>3, <1>4, <2>1, FS_AddElement
<1>5. CASE ~(h.at > x)
  <2>1. HopsAfter(Append(hops, h), x) = HopsAfter(hops, x)
    BY <1>1, <1>5 DEF HopsAfter
  <2> QED
    BY <1>2, <1>5, <2>1
<1> QED
  BY <1>2, <1>4, <1>5

\* Sets of admissions are finite.
LEMMA AdmittedCount ==
    ASSUME TimeInv, NEW S, S \subseteq Admitted
    PROVE  IsFiniteSet(S) /\ Cardinality(S) \in Nat
BY FS_Subset, FS_CardinalityType DEF TimeInv

\* All hops of a thread, and all its admissions, are after the beginning.
LEMMA LengthCounts ==
    ASSUME TypeOK, CountInv, NEW th \in Thread
    PROVE  Len(file.threads[th]) = Cardinality(AdmittedIn(th))
<1> DEFINE hops == file.threads[th]
           x == 0 - 1
<1>1. hops \in Seq(Hop) /\ Len(hops) \in Nat
  BY DEF TypeOK, State
<1>2. x \in Int /\ \A t \in Time : t > x
  BY Parameters
<1> HIDE DEF x
<1>3. HopsAfter(hops, x) = 1..Len(hops)
  <2>1. \A i \in 1..Len(hops) : hops[i] \in Hop
    BY <1>1, ElementOfSeq
  <2> QED
    BY <1>2, <2>1 DEF HopsAfter, Hop
<1>4. SpawnsAfter(th, x) = AdmittedIn(th)
  BY <1>2 DEF SpawnsAfter, AdmittedIn, Admitted, TypeOK
<1>5. Cardinality(1..Len(hops)) = Len(hops)
  BY <1>1, FS_Interval
<1> QED
  BY <1>2, <1>3, <1>4, <1>5 DEF CountInv, CountsAgree

(* --------------------------------- steps ---------------------------------- *)

\* One call at a time is past the lock.
LEMMA OneCall ==
    ASSUME OneTracker, HoldInv, NEW c \in Call, NEW d \in Call, InCall(c), InCall(d)
    PROVE  c = d
BY DEF OneTracker, HoldInv

\* As long as the file stays and no call is told otherwise, so do the tallies.
LEMMA TallyKept ==
    ASSUME Inv, UNCHANGED file, now' \in Time, now <= now',
           \A c \in Call : outcome'[c] = "admitted" <=> outcome[c] = "admitted",
           \A c \in Admitted : at'[c] = at[c] /\ args'[c] = args[c]
    PROVE  /\ Admitted' = Admitted
           /\ \A th \in Thread : AdmittedIn(th)' = AdmittedIn(th)
           /\ \A th \in Thread, x \in Int : SpawnsAfter(th, x)' = SpawnsAfter(th, x)
           /\ \A day : SpawnsOn(day)' = SpawnsOn(day)
           /\ TimeInv' /\ CountInv' /\ DailyInv' /\ TurnsInv' /\ CapsHold'
<1> USE DEF Inv
<1>1. Admitted' = Admitted
  BY DEF Admitted
<1>2. \A th \in Thread : AdmittedIn(th)' = AdmittedIn(th)
  BY <1>1 DEF AdmittedIn
<1>3. \A th \in Thread, x \in Int : SpawnsAfter(th, x)' = SpawnsAfter(th, x)
  BY <1>2 DEF SpawnsAfter, AdmittedIn
<1>4. \A day : SpawnsOn(day)' = SpawnsOn(day)
  BY <1>1 DEF SpawnsOn
<1>5. TimeInv'
  <2>1. Day(now) <= Day(now')
    BY DayGrows, Parameters DEF TypeOK
  <2>2. Day(now) \in Int /\ Day(now') \in Int /\ file.globalDailyKey \in Int
    BY DayGrows, Parameters DEF TypeOK, State, NoDay
  <2>3. \A c \in Admitted : at[c] \in Nat
    BY Parameters DEF TypeOK, Admitted
  <2>4. now \in Nat /\ now' \in Nat
    BY Parameters DEF TypeOK
  <2>5. \A c \in Admitted : at'[c] <= now' /\ Day(at'[c]) <= file.globalDailyKey
    BY <2>3, <2>4 DEF TimeInv
  <2>6. file.globalDailyKey <= Day(now')
    BY <2>1, <2>2 DEF TimeInv
  <2> QED
    BY <1>1, <2>5, <2>6 DEF TimeInv, Day
<1>6. CountInv'
  <2> SUFFICES ASSUME NEW x \in Int, NEW th \in Thread
               PROVE  Cardinality(HopsAfter(file.threads[th], x))'
                        = Cardinality(SpawnsAfter(th, x))'
    BY DEF CountInv, CountsAgree
  <2>1. HopsAfter(file.threads[th], x)' = HopsAfter(file.threads[th], x)
    BY DEF HopsAfter
  <2> QED
    BY <1>3, <2>1 DEF CountInv, CountsAgree
<1>7. DailyInv' /\ TurnsInv'
  BY <1>4 DEF DailyInv, TurnsInv
<1>8. CapsHold'
  <2>1. \A th \in Thread, t \in Time :
          {c \in AdmittedIn(th) : at[c] <= t /\ at[c] > t - HopWindow}'
            = {c \in AdmittedIn(th) : at[c] <= t /\ at[c] > t - HopWindow}
    BY <1>2 DEF AdmittedIn
  <2>2. \A t \in Time :
          {c \in Admitted : Day(at[c]) = Day(t)}' = {c \in Admitted : Day(at[c]) = Day(t)}
    BY <1>1 DEF Day
  <2> QED
    BY <1>2, <2>1, <2>2 DEF CapsHold
<1> QED
  BY <1>1, <1>2, <1>3, <1>4, <1>5, <1>6, <1>7, <1>8

\* The steps that neither write nor rename leave what was written as it is.
LEMMA WrittenKept ==
    ASSUME Inv, UNCHANGED <<file, tmp>>, now' \in Time, now <= now',
           \A c \in Call : outcome'[c] = "admitted" <=> outcome[c] = "admitted",
           \A c \in Admitted : at'[c] = at[c] /\ args'[c] = args[c],
           \A c \in Call : pc'[c] = "written" =>
               pc[c] = "written" /\ at'[c] = at[c] /\ args'[c] = args[c]
    PROVE  WrittenInv'
<1> SUFFICES ASSUME NEW c \in Call, pc'[c] = "written"
             PROVE  LET th == args'[c].thread
                        hops == file.threads[th]
                    IN  /\ at'[c] <= now'
                        /\ tmp = [threads |-> [file.threads EXCEPT ![th] =
                                      Append(@, [from |-> From(args'[c].to),
                                                 to |-> args'[c].to, at |-> at'[c]])],
                                  globalDailyKey |-> Day(at'[c]),
                                  globalDailyN |-> Cardinality(SpawnsOn(Day(at[c]))') + 1]
                        /\ file.globalDailyKey <= Day(at'[c])
                        /\ \A d \in Admitted' : at'[d] <= at'[c]
                        /\ Cardinality(SpawnsAfter(args[c].thread, at[c] - HopWindow)')
                             < MaxHopsPerThread
                        /\ Cardinality(AdmittedIn(args[c].thread)') < MaxSpawnsPerThread
                        /\ Cardinality(SpawnsOn(Day(at[c]))') < MaxSpawnsPerDay
                        /\ hops # << >> => hops[Len(hops)].to # args'[c].to
  BY DEF WrittenInv, Day, From
<1> DEFINE th == args[c].thread
           x == at[c] - HopWindow
<1>1. pc[c] = "written" /\ at'[c] = at[c] /\ args'[c] = args[c] /\ InCall(c)
  BY DEF InCall
<1>2. /\ th \in Thread /\ at[c] \in Nat /\ now \in Nat /\ now' \in Nat /\ x \in Int
  <2>1. args[c] \in Ask /\ at[c] \in Time /\ now \in Time
    BY <1>1 DEF Inv, HoldInv, TypeOK
  <2>2. at[c] \in Nat /\ now \in Nat /\ now' \in Nat /\ HopWindow \in Nat
    BY <2>1, Parameters
  <2> QED
    BY <2>1, <2>2 DEF Ask
<1>3. /\ Admitted' = Admitted /\ AdmittedIn(th)' = AdmittedIn(th)
      /\ SpawnsAfter(th, x)' = SpawnsAfter(th, x)
      /\ SpawnsOn(Day(at[c]))' = SpawnsOn(Day(at[c]))
  <2>1. /\ Admitted' = Admitted
        /\ \A h \in Thread : AdmittedIn(h)' = AdmittedIn(h)
        /\ \A h \in Thread, y \in Int : SpawnsAfter(h, y)' = SpawnsAfter(h, y)
        /\ \A day : SpawnsOn(day)' = SpawnsOn(day)
    BY TallyKept
  <2> QED
    BY <1>1, <1>2, <2>1 DEF Day
<1> QED
  BY <1>1, <1>2, <1>3 DEF Inv, WrittenInv

\* A call that returns has let go of its mutex; the others keep what they have.
LEMMA ReturnIs ==
    ASSUME TypeOK, HoldInv, NEW c \in Call, InCall(c),
           NEW result \in Drop \cup {"admitted", "error"}, Return(c, result)
    PROVE  /\ pc' \in [Call -> {"idle", "locked", "loaded", "written", "returned"}]
           /\ outcome' \in [Call -> Drop \cup {"none", "admitted", "error"}]
           /\ mu' \in [Tracker -> Call \cup {None}]
           /\ tracker' \in [Call -> Tracker \cup {None}]
           /\ args' \in [Call -> Ask \cup {None}]
           /\ pc'[c] = "returned" /\ outcome'[c] = result
           /\ result = "admitted" => args'[c] = args[c]
           /\ \A d \in Call : d # c =>
                 /\ pc'[d] = pc[d] /\ outcome'[d] = outcome[d]
                 /\ args'[d] = args[d] /\ tracker'[d] = tracker[d]
                 /\ InCall(d) => mu'[tracker[d]] = d
<1> USE DEF Return, TypeOK
<1>1. pc' \in [Call -> {"idle", "locked", "loaded", "written", "returned"}]
      /\ pc'[c] = "returned" /\ \A d \in Call : d # c => pc'[d] = pc[d]
  OBVIOUS
<1>2. outcome' \in [Call -> Drop \cup {"none", "admitted", "error"}]
      /\ outcome'[c] = result /\ \A d \in Call : d # c => outcome'[d] = outcome[d]
  OBVIOUS
<1>3. args' \in [Call -> Ask \cup {None}] /\ (result = "admitted" => args'[c] = args[c])
      /\ \A d \in Call : d # c => args'[d] = args[d]
  BY DEF Ask
<1>4. tracker' \in [Call -> Tracker \cup {None}]
      /\ \A d \in Call : d # c => tracker'[d] = tracker[d]
  OBVIOUS
<1>5. mu' \in [Tracker -> Call \cup {None}]
      /\ \A d \in Call : d # c /\ InCall(d) => mu'[tracker[d]] = d
  <2>1. tracker[c] \in Tracker /\ mu[tracker[c]] = c
    BY DEF HoldInv
  <2>2. \A d \in Call : d # c /\ InCall(d) =>
          tracker[d] \in Tracker /\ mu[tracker[d]] = d /\ tracker[d] # tracker[c]
    BY <2>1 DEF HoldInv
  <2> QED
    BY <2>1, <2>2
<1> QED
  BY <1>1, <1>2, <1>3, <1>4, <1>5

\* A call that is told to drop, or of an error, leaves nothing behind but the
\* temporary file of a rename that failed.
LEMMA ReturnKeepsInv ==
    ASSUME Inv, NEW c \in Call, InCall(c), NEW result \in Drop \cup {"error"},
           Return(c, result), UNCHANGED <<now, killSwitch, file, tmp>>,
           loaded' \in [Call -> State \cup {None}], at' \in [Call -> Time],
           \A d \in Call : d # c => loaded'[d] = loaded[d] /\ at'[d] = at[d]
    PROVE  Inv'
<1> USE DEF Inv
<1>1. /\ pc' \in [Call -> {"idle", "locked", "loaded", "written", "returned"}]
      /\ outcome' \in [Call -> Drop \cup {"none", "admitted", "error"}]
      /\ mu' \in [Tracker -> Call \cup {None}]
      /\ tracker' \in [Call -> Tracker \cup {None}]
      /\ args' \in [Call -> Ask \cup {None}]
      /\ pc'[c] = "returned" /\ outcome'[c] = result
      /\ \A d \in Call : d # c =>
            /\ pc'[d] = pc[d] /\ outcome'[d] = outcome[d]
            /\ args'[d] = args[d] /\ tracker'[d] = tracker[d]
            /\ InCall(d) => mu'[tracker[d]] = d
  BY ReturnIs
<1>2. result # "admitted" /\ outcome[c] # "admitted"
  BY DEF Drop, HoldInv, InCall
<1>3. TypeOK'
  BY <1>1 DEF TypeOK, Ask
<1>4. HoldInv'
  BY <1>1, <1>2 DEF HoldInv, InCall
<1>5. /\ \A d \in Call : outcome'[d] = "admitted" <=> outcome[d] = "admitted"
      /\ \A d \in Admitted : at'[d] = at[d] /\ args'[d] = args[d]
      /\ \A d \in Call : pc'[d] = "written" =>
            pc[d] = "written" /\ at'[d] = at[d] /\ args'[d] = args[d]
      /\ now' \in Time /\ now <= now'
  BY <1>1, <1>2, Parameters DEF Admitted, TypeOK
<1>6. TimeInv' /\ CountInv' /\ DailyInv' /\ TurnsInv' /\ CapsHold'
  BY <1>5, TallyKept
<1>7. WrittenInv'
  BY <1>5, WrittenKept
<1> QED
  BY <1>3, <1>4, <1>6, <1>7

LEMMA InitHasInv == Init => Inv
<1> SUFFICES ASSUME Init PROVE Inv
  OBVIOUS
<1> USE DEF Init
<1>1. Admitted = {} /\ \A th \in Thread : AdmittedIn(th) = {}
  BY DEF Admitted, AdmittedIn
<1>2. IsFiniteSet({}) /\ Cardinality({}) = 0
  BY FS_EmptySet
<1>3. \A th \in Thread : file.threads[th] = << >> /\ Len(file.threads[th]) = 0
  BY DEF ZeroState
<1>4. 0 \in Time /\ file \in State
  <2>1. 0 \in Time
    BY Parameters DEF Time
  <2>2. << >> \in Seq(Hop)
    BY EmptySeq
  <2> QED
    BY <2>1, <2>2 DEF ZeroState, State
<1>5. TypeOK
  BY <1>4 DEF TypeOK
<1>6. HoldInv
  BY DEF HoldInv, InCall
<1>7. TimeInv
  <2>1. file.globalDailyKey = -1 /\ Day(now) \in Nat
    BY DayGrows DEF ZeroState, NoDay
  <2> QED
    BY <1>1, <1>2, <2>1 DEF TimeInv
<1>8. CountInv
  <2>1. \A th \in Thread, x \in Int :
          HopsAfter(file.threads[th], x) = {} /\ SpawnsAfter(th, x) = {}
    BY <1>1, <1>3 DEF HopsAfter, SpawnsAfter
  <2> QED
    BY <2>1 DEF CountInv, CountsAgree
<1>9. DailyInv /\ TurnsInv
  <2>1. SpawnsOn(file.globalDailyKey) = {} /\ file.globalDailyN = 0
    BY <1>1 DEF SpawnsOn, ZeroState
  <2> QED
    BY <1>2, <1>3, <2>1 DEF DailyInv, TurnsInv
<1>10. WrittenInv
  BY DEF WrittenInv
<1>11. CapsHold
  <2>1. \A th \in Thread, t \in Time :
          {c \in AdmittedIn(th) : at[c] <= t /\ at[c] > t - HopWindow} = {}
    BY <1>1
  <2>2. \A t \in Time : {c \in Admitted : Day(at[c]) = Day(t)} = {}
    BY <1>1
  <2>3. 0 <= MaxHopsPerThread /\ 0 <= MaxSpawnsPerThread /\ 0 <= MaxSpawnsPerDay
    BY Parameters
  <2> QED
    BY <1>1, <1>2, <2>1, <2>2, <2>3 DEF CapsHold
<1> QED
  BY <1>5, <1>6, <1>7, <1>8, <1>9, <1>10, <1>11 DEF Inv

LEMMA BeginKeepsInv == ASSUME Inv, NEW c \in Call, Begin(c) PROVE Inv'
<1> USE DEF Inv
<1>1. PICK t \in Tracker, to \in Agent, th \in Thread :
        /\ mu[t] = None /\ mu' = [mu EXCEPT ![t] = c]
        /\ tracker' = [tracker EXCEPT ![c] = t]
        /\ args' = [args EXCEPT ![c] = [to |-> to, thread |-> th]]
  BY DEF Begin
<1>2. /\ pc[c] = "idle" /\ pc' = [pc EXCEPT ![c] = "locked"]
      /\ UNCHANGED <<now, killSwitch, file, tmp, loaded, at, outcome>>
  BY DEF Begin
<1>3. [to |-> to, thread |-> th] \in Ask
  BY DEF Ask
<1>4. TypeOK'
  BY <1>1, <1>2 DEF TypeOK
<1>5. /\ pc'[c] = "locked" /\ tracker'[c] = t /\ mu'[t] = c /\ args'[c] \in Ask
      /\ \A d \in Call : d # c =>
            pc'[d] = pc[d] /\ tracker'[d] = tracker[d] /\ args'[d] = args[d]
      /\ \A u \in Tracker : u # t => mu'[u] = mu[u]
  BY <1>1, <1>2, <1>3 DEF TypeOK
<1>6. \A d \in Call : d # None
  BY CallAssumption
<1>7. HoldInv'
  BY <1>1, <1>2, <1>5, <1>6 DEF HoldInv, InCall
<1>8. /\ \A d \in Admitted : at'[d] = at[d] /\ args'[d] = args[d]
      /\ \A d \in Call : pc'[d] = "written" =>
            pc[d] = "written" /\ at'[d] = at[d] /\ args'[d] = args[d]
      /\ now' \in Time /\ now <= now'
  BY <1>2, <1>5, Parameters DEF Admitted, HoldInv, TypeOK
<1>9. TimeInv' /\ CountInv' /\ DailyInv' /\ TurnsInv' /\ CapsHold'
  BY <1>2, <1>8, TallyKept
<1>10. WrittenInv'
  BY <1>2, <1>8, WrittenKept
<1> QED
  BY <1>4, <1>7, <1>9, <1>10

LEMMA LoadKeepsInv == ASSUME Inv, NEW c \in Call, Load(c) PROVE Inv'
<1> USE DEF Inv
<1>1. pc[c] = "locked" /\ UNCHANGED <<now, killSwitch, file, tmp, at>> /\ InCall(c)
  BY DEF Load, InCall
<1>2. CASE Return(c, "error") /\ UNCHANGED loaded
  BY <1>1, <1>2, ReturnKeepsInv DEF TypeOK
<1>3. CASE /\ loaded' = [loaded EXCEPT ![c] = file]
           /\ pc' = [pc EXCEPT ![c] = "loaded"]
           /\ UNCHANGED <<mu, tracker, args, outcome>>
  <2>1. TypeOK'
    BY <1>1, <1>3 DEF TypeOK
  <2>2. /\ pc'[c] = "loaded" /\ loaded'[c] = file
        /\ \A d \in Call : d # c => pc'[d] = pc[d] /\ loaded'[d] = loaded[d]
    BY <1>3 DEF TypeOK
  <2>3. HoldInv'
    BY <1>1, <1>3, <2>2 DEF HoldInv, InCall
  <2>4. /\ \A d \in Call : pc'[d] = "written" => pc[d] = "written"
        /\ now' \in Time /\ now <= now'
    BY <1>1, <2>2, Parameters DEF TypeOK
  <2>5. TimeInv' /\ CountInv' /\ DailyInv' /\ TurnsInv' /\ CapsHold'
    BY <1>1, <1>3, <2>4, TallyKept
  <2>6. WrittenInv'
    BY <1>1, <1>3, <2>4, WrittenKept
  <2> QED
    BY <2>1, <2>3, <2>5, <2>6
<1> QED
  BY <1>2, <1>3 DEF Load

\* The checks hand out no verdict but theirs.
LEMMA VerdictIsDrop ==
    \A s, to, th : Verdict(s, to, th) \in Drop \cup {"admitted"}
BY DEF Verdict, Drop

LEMMA RefusalsKeepInv ==
    ASSUME Inv, NEW c \in Call, RefuseByKillSwitch(c) \/ Refuse(c)
    PROVE  Inv'
<1>1. CASE RefuseByKillSwitch(c)
  <2>1. InCall(c) /\ "kill_switch" \in Drop
    BY <1>1 DEF RefuseByKillSwitch, InCall, Drop
  <2> QED
    BY <1>1, <2>1, ReturnKeepsInv DEF RefuseByKillSwitch, Inv, TypeOK
<1>2. CASE Refuse(c)
  <2>1. PICK v \in Drop : Return(c, v)
    BY <1>2, VerdictIsDrop DEF Refuse
  <2>2. /\ InCall(c) /\ loaded' = [loaded EXCEPT ![c] = None]
        /\ UNCHANGED <<now, killSwitch, file, tmp, at>>
    BY <1>2 DEF Refuse, InCall
  <2>3. /\ loaded' \in [Call -> State \cup {None}]
        /\ \A d \in Call : d # c => loaded'[d] = loaded[d]
    BY <2>2 DEF Inv, TypeOK
  <2> QED
    BY <2>1, <2>2, <2>3, ReturnKeepsInv DEF Inv, TypeOK
<1> QED
  BY <1>1, <1>2

\* The flag is set and the clock goes on while calls are under way.
LEMMA OutsideKeepsInv ==
    ASSUME Inv, UNCHANGED <<file, tmp, mu, pc, tracker, args, loaded, at, outcome>>,
           killSwitch' \in BOOLEAN, now' \in Time, now <= now'
    PROVE  Inv'
<1> USE DEF Inv
<1>1. TypeOK' /\ HoldInv'
  BY DEF TypeOK, HoldInv, InCall
<1>2. TimeInv' /\ CountInv' /\ DailyInv' /\ TurnsInv' /\ CapsHold'
  BY TallyKept
<1>3. WrittenInv'
  BY WrittenKept
<1> QED
  BY <1>1, <1>2, <1>3

\* The daily counter, after its reset, is that of today's admissions.
LEMMA TodayCounts ==
    ASSUME Inv
    PROVE  Today(file) = [threads |-> file.threads, globalDailyKey |-> Day(now),
                          globalDailyN |-> Cardinality(SpawnsOn(Day(now)))]
<1> USE DEF Inv
<1>1. file = [threads |-> file.threads, globalDailyKey |-> file.globalDailyKey,
              globalDailyN |-> file.globalDailyN]
  BY DEF TypeOK, State
<1>2. CASE file.globalDailyKey = Day(now)
  BY <1>1, <1>2 DEF Today, DailyInv
<1>3. CASE file.globalDailyKey # Day(now)
  <2>1. SpawnsOn(Day(now)) = {}
    <3>1. file.globalDailyKey \in Int /\ Day(now) \in Int
      BY DayGrows, Parameters DEF TypeOK, State, NoDay
    <3>2. \A c \in Admitted : Day(at[c]) \in Int /\ Day(at[c]) <= file.globalDailyKey
      <4>1. \A c \in Admitted : at[c] \in Nat
        BY Parameters DEF TypeOK, Admitted
      <4> QED
        BY <4>1, DayGrows DEF TimeInv
    <3>3. file.globalDailyKey <= Day(now)
      BY DEF TimeInv
    <3> QED
      BY <1>3, <3>1, <3>2, <3>3 DEF SpawnsOn
  <2>2. Cardinality(SpawnsOn(Day(now))) = 0
    BY <2>1, FS_EmptySet
  <2>3. Today(file) = [file EXCEPT !.globalDailyKey = Day(now), !.globalDailyN = 0]
    BY <1>3 DEF Today
  <2>4. Today(file) = [threads |-> file.threads, globalDailyKey |-> Day(now),
                       globalDailyN |-> 0]
    BY <1>1, <2>3
  <2> QED
    BY <2>2, <2>4
<1> QED
  BY <1>2, <1>3

LEMMA AdmitKeepsInv == ASSUME OneTracker, Inv, NEW c \in Call, Admit(c) PROVE Inv'
<1> DEFINE to == args[c].to
           th == args[c].thread
           hops == file.threads[th]
           n == Cardinality(SpawnsOn(Day(now)))
           hop == [from |-> From(to), to |-> to, at |-> now]
           new == [threads |-> [file.threads EXCEPT ![th] = Append(@, hop)],
                   globalDailyKey |-> Day(now), globalDailyN |-> n + 1]
           today == [threads |-> file.threads, globalDailyKey |-> Day(now),
                     globalDailyN |-> n]
<1> USE DEF Inv
<1>1. /\ pc[c] = "loaded" /\ InCall(c) /\ loaded[c] = file
      /\ loaded' = [loaded EXCEPT ![c] = None] /\ UNCHANGED <<now, killSwitch, file>>
  BY DEF Admit, InCall, HoldInv
<1>2. /\ to \in Agent /\ th \in Thread /\ now \in Time /\ now \in Nat /\ n \in Nat
      /\ hops \in Seq(Hop) /\ hop \in Hop
  <2>1. args[c] \in Ask /\ now \in Time
    BY <1>1 DEF HoldInv, TypeOK
  <2>2. n \in Nat
    BY AdmittedCount DEF SpawnsOn
  <2>3. From(to) \in Agent
    BY DEF From, Agent
  <2> QED
    BY <2>1, <2>2, <2>3, Parameters DEF Ask, Hop, TypeOK, State
<1>3. Today(loaded[c]) = today
  BY <1>1, TodayCounts
<1>4. /\ loaded' \in [Call -> State \cup {None}]
      /\ \A d \in Call : d # c => loaded'[d] = loaded[d]
  BY <1>1 DEF TypeOK
<1>5. CASE Return(c, "error") /\ UNCHANGED <<tmp, at>>
  BY <1>1, <1>4, <1>5, ReturnKeepsInv DEF TypeOK
<1>6. CASE /\ tmp' = WithHop(Today(loaded[c]), to, th)
           /\ at' = [at EXCEPT ![c] = now]
           /\ pc' = [pc EXCEPT ![c] = "written"]
           /\ UNCHANGED <<mu, tracker, args, outcome>>
  <2>1. WithHop(today, to, th) = new
    <3>1. file.threads \in [Thread -> Seq(Hop)]
      BY DEF TypeOK, State
    <3>2. WithHop(today, to, th).threads = new.threads
      BY <1>2, <3>1 DEF WithHop
    <3>3. /\ WithHop(today, to, th).globalDailyKey = Day(now)
          /\ WithHop(today, to, th).globalDailyN = n + 1
          /\ DOMAIN WithHop(today, to, th) = {"threads", "globalDailyKey", "globalDailyN"}
      BY DEF WithHop
    <3>4. WithHop(today, to, th) = [i \in DOMAIN WithHop(today, to, th) |->
                                      WithHop(today, to, th)[i]]
      BY DEF WithHop
    <3> QED
      BY <3>2, <3>3, <3>4
  <2>2. tmp' = new
    BY <1>3, <1>6, <2>1
  <2>3. new \in State
    <3>1. Append(hops, hop) \in Seq(Hop)
      BY <1>2, AppendProperties
    <3>2. [file.threads EXCEPT ![th] = Append(@, hop)] \in [Thread -> Seq(Hop)]
      BY <1>2, <3>1 DEF TypeOK, State
    <3> QED
      BY <1>2, <3>2 DEF State
  <2>4. TypeOK'
    BY <1>1, <1>2, <1>4, <1>6, <2>2, <2>3 DEF TypeOK
  <2>5. /\ pc'[c] = "written" /\ at'[c] = now
        /\ \A d \in Call : d # c => pc'[d] = pc[d] /\ at'[d] = at[d]
    BY <1>6 DEF TypeOK
  <2>6. HoldInv'
    BY <1>1, <1>4, <1>6, <2>5 DEF HoldInv, InCall
  <2>7. c \notin Admitted /\ now' \in Time /\ now <= now'
    BY <1>1, <1>2 DEF Admitted, HoldInv
  <2>8. \A d \in Admitted : at'[d] = at[d] /\ args'[d] = args[d]
    BY <1>6, <2>5, <2>7 DEF Admitted
  <2>9. /\ Admitted' = Admitted
        /\ \A h \in Thread : AdmittedIn(h)' = AdmittedIn(h)
        /\ \A h \in Thread, x \in Int : SpawnsAfter(h, x)' = SpawnsAfter(h, x)
        /\ \A day : SpawnsOn(day)' = SpawnsOn(day)
        /\ TimeInv' /\ CountInv' /\ DailyInv' /\ TurnsInv' /\ CapsHold'
    BY <1>1, <1>6, <2>7, <2>8, TallyKept
  <2>10. /\ n < MaxSpawnsPerDay /\ Len(hops) < MaxSpawnsPerThread
         /\ Cardinality(Recent(hops)) < MaxHopsPerThread
         /\ hops # << >> => hops[Len(hops)].to # to
    <3>1. Verdict(today, to, th) = "admitted"
      BY <1>3 DEF Admit
    <3>2. /\ ~(n >= MaxSpawnsPerDay) /\ ~(Len(hops) >= MaxSpawnsPerThread)
          /\ ~(Cardinality(Recent(hops)) >= MaxHopsPerThread)
          /\ ~(hops # << >> /\ hops[Len(hops)].to = to)
      BY <3>1 DEF Verdict
    <3>3. Len(hops) \in Nat
      BY <1>2
    <3>4. now - HopWindow \in Int
      BY <1>2, Parameters
    <3>5. Cardinality(Recent(hops)) \in Nat
      BY <1>2, <3>4, AppendCounts DEF Recent, HopsAfter
    <3> QED
      BY <1>2, <3>2, <3>3, <3>5, Parameters
  <2>11. Cardinality(AdmittedIn(th)) < MaxSpawnsPerThread
    BY <1>2, <2>10, LengthCounts
  <2>12. Cardinality(SpawnsAfter(th, now - HopWindow)) < MaxHopsPerThread
    <3>1. now - HopWindow \in Int
      BY <1>2, Parameters
    <3>2. Recent(hops) = HopsAfter(hops, now - HopWindow)
      BY DEF Recent, HopsAfter
    <3> QED
      BY <1>2, <2>10, <3>1, <3>2 DEF CountInv, CountsAgree
  <2>13. file.globalDailyKey <= Day(now) /\ \A d \in Admitted : at[d] <= now
    BY DEF TimeInv
  <2>14. WrittenInv'
    <3> SUFFICES ASSUME NEW d \in Call, pc'[d] = "written"
                 PROVE  LET h == args[d].thread
                        IN  /\ at'[d] <= now
                            /\ tmp' = [threads |-> [file.threads EXCEPT ![h] =
                                           Append(@, [from |-> From(args[d].to),
                                                      to |-> args[d].to, at |-> at'[d]])],
                                       globalDailyKey |-> Day(at'[d]),
                                       globalDailyN |->
                                           Cardinality(SpawnsOn(Day(at[d]))') + 1]
                            /\ file.globalDailyKey <= Day(at'[d])
                            /\ \A e \in Admitted' : at'[e] <= at'[d]
                            /\ Cardinality(SpawnsAfter(args[d].thread, at[d] - HopWindow)')
                                 < MaxHopsPerThread
                            /\ Cardinality(AdmittedIn(args[d].thread)')
                                 < MaxSpawnsPerThread
                            /\ Cardinality(SpawnsOn(Day(at[d]))') < MaxSpawnsPerDay
                            /\ file.threads[h] # << >> =>
                                 file.threads[h][Len(file.threads[h])].to # args[d].to
      BY <1>1, <1>6 DEF WrittenInv, Day, From
    <3>1. d = c
      BY <1>1, <2>5, OneCall DEF InCall
    <3>2. now - HopWindow \in Int
      BY <1>2, Parameters
    <3>3. SpawnsOn(Day(at[c]))' = SpawnsOn(Day(now))
      BY <2>5, <2>9 DEF Day
    <3>4. SpawnsAfter(args[c].thread, at[c] - HopWindow)' = SpawnsAfter(th, now - HopWindow)
      BY <1>2, <1>6, <2>5, <2>9, <3>2
    <3>5. AdmittedIn(args[c].thread)' = AdmittedIn(th)
      BY <1>2, <1>6, <2>9
    <3>6. at'[c] <= now /\ file.globalDailyKey <= Day(at'[c])
      BY <1>2, <2>5, <2>13
    <3>7. \A e \in Admitted' : at'[e] <= at'[c]
      BY <2>5, <2>8, <2>9, <2>13
    <3>8. /\ Cardinality(SpawnsAfter(args[c].thread, at[c] - HopWindow)') < MaxHopsPerThread
          /\ Cardinality(AdmittedIn(args[c].thread)') < MaxSpawnsPerThread
          /\ Cardinality(SpawnsOn(Day(at[c]))') < MaxSpawnsPerDay
      BY <2>10, <2>11, <2>12, <3>3, <3>4, <3>5
    <3>9. Cardinality(SpawnsOn(Day(at[c]))') = n
      BY <3>3
    <3>10. tmp' = [threads |-> [file.threads EXCEPT ![th] =
                                 Append(@, [from |-> From(to), to |-> to, at |-> at'[c]])],
                   globalDailyKey |-> Day(at'[c]),
                   globalDailyN |-> Cardinality(SpawnsOn(Day(at[c]))') + 1]
      BY <2>2, <2>5, <3>9
    <3> QED
      BY <2>10, <3>1, <3>6, <3>7, <3>8, <3>10
  <2> QED
    BY <2>4, <2>6, <2>9, <2>14
<1> QED
  BY <1>5, <1>6 DEF Admit

\* A rename that succeeds puts the new hop in the file and admits the handoff.
LEMMA RenameKeepsInv == ASSUME OneTracker, Inv, NEW c \in Call, Rename(c) PROVE Inv'
<1> DEFINE to == args[c].to
           th == args[c].thread
           a == at[c]
           hops == file.threads[th]
           hop == [from |-> From(to), to |-> to, at |-> a]
<1> USE DEF Inv
<1>1. /\ pc[c] = "written" /\ InCall(c) /\ outcome[c] # "admitted" /\ args[c] \in Ask
      /\ UNCHANGED <<now, killSwitch, loaded>>
  BY DEF Rename, InCall, HoldInv
<1>2. /\ to \in Agent /\ th \in Thread /\ a \in Time /\ a \in Nat /\ hops \in Seq(Hop)
      /\ hop \in Hop /\ Len(hops) \in Nat
  <2>1. From(to) \in Agent
    BY DEF From, Agent
  <2>2. a \in Time /\ a \in Nat
    BY Parameters DEF TypeOK
  <2>3. to \in Agent /\ th \in Thread
    BY <1>1 DEF Ask
  <2>4. hops \in Seq(Hop) /\ Len(hops) \in Nat
    BY <2>3, LenProperties DEF TypeOK, State
  <2>5. hop \in Hop
    BY <2>1, <2>2, <2>3 DEF Hop
  <2> QED
    BY <2>2, <2>3, <2>4, <2>5
<1>3. /\ a <= now
      /\ tmp = [threads |-> [file.threads EXCEPT ![th] = Append(@, hop)],
                globalDailyKey |-> Day(a), globalDailyN |-> Cardinality(SpawnsOn(Day(a))) + 1]
      /\ file.globalDailyKey <= Day(a) /\ \A d \in Admitted : at[d] <= a
      /\ Cardinality(SpawnsAfter(th, a - HopWindow)) < MaxHopsPerThread
      /\ Cardinality(AdmittedIn(th)) < MaxSpawnsPerThread
      /\ Cardinality(SpawnsOn(Day(a))) < MaxSpawnsPerDay
      /\ hops # << >> => hops[Len(hops)].to # to
  BY <1>1 DEF WrittenInv
<1>4. CASE /\ tmp = None \/ DiskFails
           /\ Return(c, "error") /\ at' = [at EXCEPT ![c] = 0] /\ UNCHANGED <<file, tmp>>
  <2>1. /\ at' \in [Call -> Time] /\ loaded' \in [Call -> State \cup {None}]
        /\ \A d \in Call : d # c => loaded'[d] = loaded[d] /\ at'[d] = at[d]
    BY <1>1, <1>4, Parameters DEF TypeOK, Time
  <2> QED
    BY <1>1, <1>4, <2>1, ReturnKeepsInv
<1>5. CASE /\ tmp # None /\ file' = tmp /\ tmp' = None
           /\ Return(c, "admitted") /\ UNCHANGED at
  <2>1. /\ pc' \in [Call -> {"idle", "locked", "loaded", "written", "returned"}]
        /\ outcome' \in [Call -> Drop \cup {"none", "admitted", "error"}]
        /\ mu' \in [Tracker -> Call \cup {None}]
        /\ tracker' \in [Call -> Tracker \cup {None}]
        /\ args' \in [Call -> Ask \cup {None}]
        /\ pc'[c] = "returned" /\ outcome'[c] = "admitted" /\ args'[c] = args[c]
        /\ \A d \in Call : d # c =>
              /\ pc'[d] = pc[d] /\ outcome'[d] = outcome[d]
              /\ args'[d] = args[d] /\ tracker'[d] = tracker[d]
              /\ InCall(d) => mu'[tracker[d]] = d
    BY <1>1, <1>5, ReturnIs
  <2>2. \A d \in Call : d # c => ~InCall(d)
    BY <1>1, OneCall
  <2>3. TypeOK'
    <3>1. file' \in State
      BY <1>5, <1>1, <1>3, <2>1 DEF TypeOK
    <3> QED
      BY <1>1, <1>5, <2>1, <3>1 DEF TypeOK, Ask
  <2>4. HoldInv'
    BY <1>1, <2>1, <2>2 DEF HoldInv, InCall
  <2>5. /\ file'.globalDailyKey = Day(a)
        /\ file'.globalDailyN = Cardinality(SpawnsOn(Day(a))) + 1
        /\ file'.threads[th] = Append(hops, hop)
        /\ \A h \in Thread : h # th => file'.threads[h] = file.threads[h]
    <3>1. file.threads \in [Thread -> Seq(Hop)]
      BY DEF TypeOK, State
    <3> QED
      BY <1>2, <1>3, <1>5, <3>1
  <2>6. /\ c \notin Admitted /\ Admitted' = Admitted \cup {c}
        /\ \A d \in Admitted' : args'[d] = args[d] /\ at'[d] = at[d]
    BY <1>1, <1>5, <2>1 DEF Admitted
  <2>7. \A h \in Thread : AdmittedIn(h)' = AdmittedIn(h) \cup (IF h = th THEN {c} ELSE {})
    BY <2>6 DEF AdmittedIn
  <2>8. \A h \in Thread, x \in Int :
          SpawnsAfter(h, x)' = SpawnsAfter(h, x) \cup (IF h = th /\ a > x THEN {c} ELSE {})
    BY <1>5, <2>7 DEF SpawnsAfter
  <2>9. SpawnsOn(Day(a))' = SpawnsOn(Day(a)) \cup {c}
    BY <1>5, <2>6 DEF SpawnsOn, Day
  <2>10. \A S : S \subseteq Admitted =>
           /\ IsFiniteSet(S) /\ Cardinality(S) \in Nat
           /\ IsFiniteSet(S \cup {c}) /\ Cardinality(S \cup {c}) = Cardinality(S) + 1
    BY <2>6, AdmittedCount, FS_AddElement
  <2>11. TimeInv'
    <3>1. IsFiniteSet(Admitted')
      BY <2>6, <2>10
    <3>2. now \in Nat /\ \A d \in Admitted : at[d] \in Nat
      BY Parameters DEF TypeOK, Admitted
    <3>3. Day(a) <= Day(now) /\ \A d \in Admitted : Day(at[d]) <= Day(a)
      BY <1>2, <1>3, <3>2, DayGrows
    <3>4. \A d \in Admitted' : at[d] <= now /\ Day(at[d]) <= Day(a)
      BY <1>2, <1>3, <2>6, <3>3, DayGrows DEF TimeInv
    <3> QED
      BY <1>1, <1>5, <2>5, <3>1, <3>3, <3>4 DEF TimeInv, Day
  <2>12. CountInv'
    <3> SUFFICES ASSUME NEW x \in Int, NEW h \in Thread
                 PROVE  Cardinality(HopsAfter(file'.threads[h], x))
                          = Cardinality(SpawnsAfter(h, x)')
      BY DEF CountInv, CountsAgree, HopsAfter
    <3>1. Cardinality(HopsAfter(file.threads[h], x)) = Cardinality(SpawnsAfter(h, x))
      BY DEF CountInv, CountsAgree
    <3>2. CASE h # th
      BY <2>5, <2>8, <3>1, <3>2
    <3>3. CASE h = th
      <4>1. Cardinality(HopsAfter(file'.threads[h], x))
              = Cardinality(HopsAfter(hops, x)) + IF hop.at > x THEN 1 ELSE 0
        BY <1>2, <2>5, <3>3, AppendCounts
      <4>2. SpawnsAfter(h, x) \subseteq Admitted
        BY DEF SpawnsAfter, AdmittedIn
      <4>3. Cardinality(HopsAfter(hops, x)) \in Nat
        BY <1>2, AppendCounts
      <4>4. CASE a > x
        <5>1. SpawnsAfter(h, x)' = SpawnsAfter(h, x) \cup {c}
          BY <2>8, <3>3, <4>4
        <5>2. Cardinality(SpawnsAfter(h, x)') = Cardinality(SpawnsAfter(h, x)) + 1
          BY <2>10, <4>2, <5>1
        <5> QED
          BY <3>1, <3>3, <4>1, <4>4, <5>2
      <4>5. CASE ~(a > x)
        <5>1. SpawnsAfter(h, x)' = SpawnsAfter(h, x)
          BY <2>8, <4>5
        <5> QED
          BY <3>1, <3>3, <4>1, <4>3, <4>5, <5>1
      <4> QED
        BY <4>4, <4>5
    <3> QED
      BY <3>2, <3>3
  <2>13. DailyInv'
    <3>1. SpawnsOn(file.globalDailyKey)' = SpawnsOn(Day(a))'
      BY <1>5, <2>5 DEF SpawnsOn, Day
    <3>2. SpawnsOn(Day(a)) \subseteq Admitted
      BY DEF SpawnsOn
    <3> QED
      BY <2>5, <2>9, <2>10, <3>1, <3>2 DEF DailyInv
  <2>14. TurnsInv'
    <3> SUFFICES ASSUME NEW h \in Thread, NEW i \in 2..Len(file'.threads[h])
                 PROVE  file'.threads[h][i - 1].to # file'.threads[h][i].to
      BY DEF TurnsInv
    <3>1. CASE h # th
      BY <2>5, <3>1 DEF TurnsInv
    <3>2. CASE h = th
      <4>1. /\ Len(Append(hops, hop)) = Len(hops) + 1
            /\ Append(hops, hop)[Len(hops) + 1] = hop
            /\ \A j \in 1..Len(hops) : Append(hops, hop)[j] = hops[j]
        BY <1>2, AppendProperties
      <4>2. file'.threads[h] = Append(hops, hop)
        BY <2>5, <3>2
      <4>3. i \in 2..(Len(hops) + 1)
        BY <4>1, <4>2
      <4>4. CASE i \in 2..Len(hops)
        <5>1. i \in 1..Len(hops) /\ i - 1 \in 1..Len(hops)
          BY <1>2, <4>4
        <5>2. hops[i - 1].to # hops[i].to
          BY <1>2, <4>4 DEF TurnsInv
        <5> QED
          BY <4>1, <4>2, <5>1, <5>2
      <4>5. CASE i = Len(hops) + 1
        <5>1. i - 1 = Len(hops) /\ Len(hops) \in 1..Len(hops)
          BY <1>2, <4>3, <4>5
        <5>2. hops # << >>
          BY <5>1, EmptySeq
        <5>3. file'.threads[h][i - 1] = hops[Len(hops)] /\ file'.threads[h][i] = hop
          BY <4>1, <4>2, <4>5, <5>1
        <5> QED
          BY <1>3, <5>2, <5>3
      <4>6. i \in 2..Len(hops) \/ i = Len(hops) + 1
        BY <1>2, <4>3
      <4> QED
        BY <4>4, <4>5, <4>6
    <3> QED
      BY <3>1, <3>2
  <2>15. WrittenInv'
    BY <2>1, <2>2 DEF WrittenInv, InCall
  <2>16. CapsHold'
    <3>1. ASSUME NEW h \in Thread, NEW t \in Time
          PROVE  Cardinality({d \in AdmittedIn(h) : at[d] <= t /\ at[d] > t - HopWindow}')
                   <= MaxHopsPerThread
      <4> DEFINE S == {d \in AdmittedIn(h) : at[d] <= t /\ at[d] > t - HopWindow}
      <4>1. Cardinality(S) <= MaxHopsPerThread /\ S \subseteq Admitted
        BY DEF CapsHold, AdmittedIn
      <4>2. S' = IF h = th /\ a <= t /\ a > t - HopWindow THEN S \cup {c} ELSE S
        <5>1. \A d : d \in AdmittedIn(h)' <=> d \in AdmittedIn(h) \/ (h = th /\ d = c)
          BY <2>7
        <5>2. S' = {d \in AdmittedIn(h)' : at[d] <= t /\ at[d] > t - HopWindow}
          BY <1>5
        <5> QED
          BY <5>1, <5>2
      <4>3. CASE h = th /\ a <= t /\ a > t - HopWindow
        <5> DEFINE W == SpawnsAfter(th, a - HopWindow)
        <5>1. t \in Nat /\ HopWindow \in Nat /\ \A d \in Admitted : at[d] \in Nat
          BY Parameters DEF TypeOK, Admitted
        <5>2. S \subseteq W
          BY <1>2, <4>1, <4>3, <5>1 DEF SpawnsAfter
        <5>3. W \subseteq Admitted
          BY DEF SpawnsAfter, AdmittedIn
        <5>4. Cardinality(S) <= Cardinality(W)
          BY <2>10, <5>2, <5>3, FS_Subset
        <5>5. Cardinality(S') = Cardinality(S) + 1
          BY <2>10, <4>1, <4>2, <4>3
        <5>6. Cardinality(S) \in Nat /\ Cardinality(W) \in Nat
          BY <2>10, <4>1, <5>3
        <5>7. Cardinality(W) < MaxHopsPerThread
          BY <1>3
        <5> QED
          BY <5>4, <5>5, <5>6, <5>7, Parameters
      <4> QED
        BY <4>1, <4>2, <4>3
    <3>2. ASSUME NEW h \in Thread
          PROVE  Cardinality(AdmittedIn(h)') <= MaxSpawnsPerThread
      <4>1. AdmittedIn(h) \subseteq Admitted /\ Cardinality(AdmittedIn(h)) <= MaxSpawnsPerThread
        BY DEF CapsHold, AdmittedIn
      <4>2. CASE h # th
        BY <2>7, <4>1, <4>2
      <4>3. CASE h = th
        <5>0. AdmittedIn(h)' = AdmittedIn(h) \cup {c}
          BY <2>7, <4>3
        <5>1. Cardinality(AdmittedIn(h)') = Cardinality(AdmittedIn(h)) + 1
          BY <2>10, <4>1, <5>0
        <5>2. Cardinality(AdmittedIn(h)) \in Nat
          BY <2>10, <4>1
        <5> QED
          BY <1>3, <4>3, <5>1, <5>2, Parameters
      <4> QED
        BY <4>2, <4>3
    <3>3. ASSUME NEW t \in Time
          PROVE  Cardinality({d \in Admitted : Day(at[d]) = Day(t)}') <= MaxSpawnsPerDay
      <4>1. Cardinality(SpawnsOn(Day(t))) <= MaxSpawnsPerDay /\ SpawnsOn(Day(t)) \subseteq Admitted
        BY DEF CapsHold, SpawnsOn
      <4>2. {d \in Admitted : Day(at[d]) = Day(t)}'
              = IF Day(t) = Day(a) THEN SpawnsOn(Day(t)) \cup {c} ELSE SpawnsOn(Day(t))
        BY <1>5, <2>6 DEF SpawnsOn, Day
      <4>3. CASE Day(t) = Day(a)
        <5>1. Cardinality(SpawnsOn(Day(t)) \cup {c}) = Cardinality(SpawnsOn(Day(a))) + 1
          BY <2>10, <4>1, <4>3
        <5>2. Cardinality(SpawnsOn(Day(a))) \in Nat
          BY <2>10, <4>1, <4>3
        <5>3. Cardinality(SpawnsOn(Day(t)) \cup {c}) <= MaxSpawnsPerDay
          BY <1>3, <5>1, <5>2, Parameters
        <5> QED
          BY <4>2, <4>3, <5>3
      <4>4. CASE Day(t) # Day(a)
        BY <4>1, <4>2, <4>4
      <4> QED
        BY <4>3, <4>4
    <3> QED
      BY <3>1, <3>2, <3>3 DEF CapsHold
  <2> QED
    BY <2>3, <2>4, <2>11, <2>12, <2>13, <2>14, <2>15, <2>16
<1> QED
  BY <1>1, <1>4, <1>5 DEF Rename

(* ------------------------------- theorems --------------------------------- *)

\* The tracker's file, the calls and the admissions agree as the invariant says, for
\* calls that share a tracker (tracker.go:133-240).
THEOREM TrackerInvariant == OneTracker => (Spec => []Inv)
<1> SUFFICES ASSUME OneTracker PROVE Spec => []Inv
  OBVIOUS
<1>1. Init => Inv
  BY InitHasInv
<1>2. Inv /\ [Next]_vars => Inv'
  <2> SUFFICES ASSUME Inv, [Next]_vars PROVE Inv'
    OBVIOUS
  <2>1. ASSUME NEW c \in Call, AdmitOrDrop(c) PROVE Inv'
    BY <2>1, BeginKeepsInv, RefusalsKeepInv, LoadKeepsInv, AdmitKeepsInv, RenameKeepsInv
    DEF AdmitOrDrop
  <2>2. ASSUME NEW engaged \in BOOLEAN, SetKillSwitch(engaged) PROVE Inv'
    <3>1. now \in Time /\ now <= now
      BY Parameters DEF Inv, TypeOK
    <3> QED
      BY <2>2, <3>1, OutsideKeepsInv DEF SetKillSwitch
  <2>3. CASE Tick
    <3>1. now' \in Time /\ now <= now'
      BY <2>3, Parameters DEF Tick, Inv, TypeOK, Time
    <3> QED
      BY <2>3, <3>1, OutsideKeepsInv DEF Tick, Inv, TypeOK
  <2>4. CASE UNCHANGED vars
    <3>1. now \in Time /\ now <= now
      BY Parameters DEF Inv, TypeOK
    <3> QED
      BY <2>4, <3>1, OutsideKeepsInv DEF vars, Inv, TypeOK
  <2> QED
    BY <2>1, <2>2, <2>3, <2>4 DEF Next
<1> QED
  BY <1>1, <1>2, PTL DEF Spec

\* None of the three caps is exceeded, whatever their values, the interleaving of the
\* calls and the failures of the disk (tracker.go:5-11).
THEOREM CapsAreKept == OneTracker => (Spec => []CapsHold)
<1> SUFFICES ASSUME OneTracker PROVE Spec => []CapsHold
  OBVIOUS
<1>1. Inv => CapsHold
  BY DEF Inv
<1> QED
  BY <1>1, TrackerInvariant, PTL

\* No admitted handoff is forgotten, and none is recorded that was not admitted
\* (tracker.go:85-87, 171-173, 227-237).
THEOREM TallyIsKept == OneTracker => (Spec => []TallyMatches)
<1> SUFFICES ASSUME OneTracker PROVE Spec => []TallyMatches
  OBVIOUS
<1>1. Inv => TallyMatches
  BY LengthCounts DEF Inv, DailyInv, TurnsInv, SpawnsOn, TallyMatches
<1> QED
  BY <1>1, TrackerInvariant, PTL

=============================================================================
