---------------------------- MODULE ProgressProofs ----------------------------
(* What an operator sees of a turn, for every choice of the durations, of the  *)
(* number of phrases and of the attempts allowed.                              *)
EXTENDS Progress, TLAPS

\* Who is posting, and whether a line is left.
PostingInv ==
    /\ pinger = "posting" <=> line # None
    /\ milestone # None => stage = "running"
    /\ pinger \in {"waiting", "posting"} => idx < Phrases
    /\ pinger = "ended" => idx >= Phrases \/ stage = "done"

\* A fast failure is over before the opening line: as long as another attempt may
\* follow, the first timer still runs.
EarlyInv ==
    /\ attempt <= MaxAttempts - 1
    /\ stage = "pick" =>
          /\ ~Posted /\ line = None
          /\ pinger = "waiting" => timer + attempt * FastFailWindow >= FirstBase
    /\ /\ stage \in {"running", "exited"} /\ attempt < MaxAttempts - 1
       /\ age <= FastFailWindow /\ ~Posted
       => /\ line = None
          /\ pinger = "waiting" => timer + age + attempt * FastFailWindow >= FirstBase

\* LastPostedAt is the last of all posts; a line waits for its gap and its interval, a
\* milestone for its debounce, and what comes out after their test comes out after
\* they were sent.
ApartInv ==
    /\ \A k \in Kind : since[k] # None => lastPosted <= since[k]
    /\ line # None => FloorOrCrossed(MinGap, line)
    /\ milestone # None => FloorOrCrossed(Debounce, milestone)
    /\ since["heartbeat"] # None =>
          /\ pinger = "waiting" => since["heartbeat"] + timer >= BackstopBase
          /\ pinger = "posting" => since["heartbeat"] >= BackstopBase
    /\ milestone # None /\ since["milestone"] # None => since["milestone"] >= Debounce

\* After the answer time stands still for the pinger, but for a line on its way.
AnswerInv ==
    since["answer"] # None =>
        /\ stage \in {"stopping", "done"}
        /\ pinger # "posting" => lastPosted = 0

\* The longest silence that a timer and a line once held can make.
MaxWait == MinGap + BackstopBase + BackstopWindow - 2

SilentInv ==
    /\ pinger = "waiting" => timer <= BackstopBase + BackstopWindow - 1
    /\ Posted /\ pinger = "waiting" => lastPosted + timer <= MaxWait
    /\ Posted /\ pinger = "posting" => lastPosted <= MaxWait + line

\* The reader keeps up with the agent until a line over its limit.
OutputInv ==
    /\ stage = "running" => reading = ~oversized
    /\ stage \in {"running", "exited"} /\ ~oversized => finalText = result

Inv == TypeOK /\ PostingInv /\ ApartInv /\ AnswerInv /\ SilentInv /\ OutputInv

\* What the attempts take together, if each but the last fails fast, is less than
\* the opening interval.
FailuresAreFast == (MaxAttempts - 1) * FastFailWindow < FirstBase

LEMMA Durations ==
    /\ MinGap \in Nat \ {0} /\ FirstBase \in Nat /\ FirstWindow \in Nat \ {0}
    /\ BackstopBase \in Nat /\ BackstopWindow \in Nat \ {0}
    /\ PostDelay \in Nat /\ Debounce \in Nat /\ FastFailWindow \in Nat
    /\ Phrases \in Nat \ {0} /\ MaxAttempts \in Nat \ {0} /\ Old \in Nat
    /\ FirstBase + FirstWindow <= BackstopBase + BackstopWindow
    /\ Old > MinGap + BackstopBase + BackstopWindow + 2 * PostDelay
    /\ Old > FastFailWindow /\ Old >= Debounce
    /\ MaxWait \in Nat /\ MaxWait < Old
    /\ BackstopBase + BackstopWindow - 1 <= MaxWait
BY DurationAssumption DEF MaxWait

\* A line that is held waits for the gap and another interval at most.
LEMMA HeldWait ==
    ASSUME NEW t \in Nat, NEW u \in Nat,
           t < MinGap, u <= BackstopBase + BackstopWindow - 1
    PROVE  t + u <= MaxWait
<1>1. MinGap \in Int /\ BackstopBase \in Int /\ BackstopWindow \in Int
  BY Durations
<1> QED
  BY <1>1 DEF MaxWait

\* Both timers are set within what they may hold.
LEMMA Timers ==
    /\ Timer(FirstBase, FirstWindow) \subseteq Delay
    /\ Timer(BackstopBase, BackstopWindow) \subseteq Delay
    /\ \A t \in Timer(FirstBase, FirstWindow) :
          t >= FirstBase /\ t <= BackstopBase + BackstopWindow - 1
    /\ \A t \in Timer(BackstopBase, BackstopWindow) :
          t >= BackstopBase /\ t <= BackstopBase + BackstopWindow - 1
BY Durations DEF Timer, Delay

\* Ages grow together until they stop.
LEMMA Ages ==
    ASSUME NEW a \in 0..Old
    PROVE  /\ Older(a) \in 0..Old /\ Older(a) # None
           /\ a <= Older(a) /\ Older(a) <= a + 1
           /\ a < Old => Older(a) = a + 1
           /\ Older(None) = None
BY Durations DEF Older, None

\* What passes the test on LastPostedAt is at its floor to every post so far.
LEMMA QuietFor ==
    ASSUME TypeOK, ApartInv, NEW floor \in Nat, lastPosted >= floor
    PROVE  \A k \in Kind : since[k] # None => since[k] >= floor
<1> SUFFICES ASSUME NEW k \in Kind, since[k] # None PROVE since[k] >= floor
  OBVIOUS
<1>1. since[k] \in 0..Old /\ lastPosted \in 0..Old /\ Old \in Nat
  BY Durations DEF TypeOK
<1>2. lastPosted <= since[k]
  BY DEF ApartInv
<1> QED
  BY <1>1, <1>2

\* What comes out while a post is on its way crosses it, and no more.
LEMMA CrossedStays ==
    ASSUME NEW floor, NEW sent \in Nat, FloorOrCrossed(floor, sent), NEW kind \in Kind,
           since'[kind] = 0, \A k \in Kind : k # kind => since'[k] = since[k]
    PROVE  \A k \in Kind : since'[k] # None => since'[k] >= floor \/ since'[k] <= sent
BY DEF FloorOrCrossed

LEMMA InitHasInv == Init => Inv
<1> SUFFICES ASSUME Init PROVE Inv
  OBVIOUS
<1> USE DEF Init
<1>1. pinger \in {"off", "waiting"} /\ timer \in Delay
      /\ (pinger = "waiting" => timer <= BackstopBase + BackstopWindow - 1)
  BY Timers, Durations DEF Delay
<1>2. TypeOK
  <2>1. /\ attempt \in 0..MaxAttempts /\ age \in 0..Old /\ lastPosted \in 0..Old
        /\ idx \in 0..Phrases
    BY Durations
  <2>2. since \in [Kind -> {None} \cup (0..Old)]
    OBVIOUS
  <2>3. {reading, result, finalText, oversized} \subseteq BOOLEAN /\ exit \in Exits
        /\ {milestone, line} \subseteq {None} \cup (0..PostDelay)
    BY DEF Exits
  <2> QED
    BY <1>1, <2>1, <2>2, <2>3 DEF TypeOK
<1>3. PostingInv /\ AnswerInv /\ OutputInv
  BY <1>1, Durations DEF PostingInv, AnswerInv, OutputInv, Kind
<1>4. ~Posted /\ ApartInv
  BY DEF ApartInv, FloorOrCrossed, Posted, Kind
<1>5. SilentInv
  BY <1>1, <1>4 DEF SilentInv
<1> QED
  BY <1>2, <1>3, <1>4, <1>5 DEF Inv

\* A tick: no timer passes its end and no post its delay.
LEMMA TickKeepsInv == ASSUME Inv, Tick PROVE Inv'
<1> USE DEF Inv
<1>1. UNCHANGED <<stage, attempt, exit, reading, result, finalText, oversized, pinger, idx>>
  BY DEF Tick
<1>2. /\ timer \in Nat /\ timer' \in Delay /\ Delay \subseteq Nat
      /\ pinger = "waiting" => timer' = timer - 1
  BY Durations DEF Tick, TypeOK, Delay
<1>3. /\ age' \in 0..Old
      /\ lastPosted \in 0..Old /\ lastPosted' \in 0..Old /\ lastPosted' = Older(lastPosted)
      /\ lastPosted' <= lastPosted + 1
  BY Ages DEF Tick, TypeOK
<1>4. /\ line = None => line' = None
      /\ line # None => line \in Nat /\ line' = line + 1 /\ line' \in 0..PostDelay
      /\ milestone = None => milestone' = None
      /\ milestone # None => milestone' \in 0..PostDelay
  <2>1. \A a \in 0..PostDelay : a # PostDelay => Older(a) = a + 1 /\ a + 1 \in 0..PostDelay
    BY Durations DEF Older, None
  <2>2. /\ line \in {None} \cup (0..PostDelay) /\ line # PostDelay
        /\ milestone \in {None} \cup (0..PostDelay) /\ milestone # PostDelay
    BY DEF Tick, TypeOK
  <2>3. Older(None) = None /\ 0..PostDelay \subseteq Nat
    BY Durations DEF Older
  <2> QED
    BY <2>1, <2>2, <2>3 DEF Tick
<1>5. /\ \A k \in Kind : since[k] \in {None} \cup (0..Old)
      /\ \A k \in Kind : since'[k] = Older(since[k])
      /\ since' \in [Kind -> {None} \cup (0..Old)]
  <2>1. \A k \in Kind : since[k] \in {None} \cup (0..Old)
    BY DEF TypeOK
  <2>2. \A k \in Kind : Older(since[k]) \in {None} \cup (0..Old)
    <3>1. Older(None) = None /\ \A a \in 0..Old : Older(a) \in 0..Old
      BY Ages DEF Older
    <3> QED
      BY <2>1, <3>1
  <2> QED
    BY <2>1, <2>2 DEF Tick
<1>6. \A k \in Kind : (since'[k] = None <=> since[k] = None)
  BY <1>5, Ages
<1>7. \A k \in Kind : since[k] # None => since'[k] >= since[k]
  BY <1>5, Ages
<1>8. Posted' <=> Posted
  BY <1>6 DEF Posted
<1>9. TypeOK'
  BY <1>1, <1>2, <1>3, <1>4, <1>5 DEF TypeOK
<1>10. PostingInv'
  BY <1>1, <1>4, Durations DEF PostingInv, None
<1>11. ApartInv'
  <2>1. ASSUME NEW k \in Kind, since[k] # None PROVE lastPosted' <= since'[k]
    <3>1. lastPosted <= since[k] /\ since[k] \in 0..Old
      BY <1>5, <2>1 DEF ApartInv, FloorOrCrossed
    <3> QED
      BY <1>3, <1>5, <3>1, Durations DEF Older, None
  <2>2. ASSUME since["heartbeat"] # None
        PROVE  /\ pinger = "waiting" => since'["heartbeat"] + timer' >= BackstopBase
               /\ pinger = "posting" => since'["heartbeat"] >= BackstopBase
    <3>1. since["heartbeat"] \in 0..Old /\ since'["heartbeat"] = Older(since["heartbeat"])
      BY <1>5, <2>2 DEF Kind
    <3>2. \/ since["heartbeat"] = Old /\ since'["heartbeat"] = Old
          \/ since'["heartbeat"] = since["heartbeat"] + 1
      BY <3>1, Durations DEF Older, None
    <3>3. Old \in Nat /\ BackstopBase \in Nat /\ BackstopBase <= Old
      BY Durations
    <3> QED
      BY <1>2, <2>2, <3>1, <3>2, <3>3 DEF ApartInv, FloorOrCrossed
  <2>3. milestone # None /\ since["milestone"] # None => since'["milestone"] >= Debounce
    BY <1>5, <1>7, Durations DEF ApartInv, FloorOrCrossed, Kind, None
  <2>4. ASSUME NEW floor \in Nat, NEW sent \in Nat, FloorOrCrossed(floor, sent)
        PROVE  \A k \in Kind : since'[k] # None => since'[k] >= floor \/ since'[k] <= sent + 1
    <3> SUFFICES ASSUME NEW k \in Kind, since'[k] # None
                 PROVE  since'[k] >= floor \/ since'[k] <= sent + 1
      OBVIOUS
    <3>1. since[k] \in 0..Old /\ since'[k] = Older(since[k]) /\ since[k] # None
      BY <1>5, <1>6
    <3>2. since[k] <= since'[k] /\ since'[k] <= since[k] + 1 /\ since'[k] \in 0..Old
      BY <3>1, Ages
    <3>3. since[k] >= floor \/ since[k] <= sent
      BY <2>4, <3>1 DEF FloorOrCrossed
    <3> QED
      BY <3>1, <3>2, <3>3, Durations
  <2>5. line' # None => FloorOrCrossed(MinGap, line)'
    <3>1. line' # None => line # None /\ line \in Nat /\ line' = line + 1
      BY <1>4
    <3> QED
      BY <2>4, <3>1, Durations DEF ApartInv, FloorOrCrossed
  <2>6. milestone' # None => FloorOrCrossed(Debounce, milestone)'
    <3>1. milestone' # None => milestone # None /\ milestone \in Nat /\ milestone' = milestone + 1
      BY Durations DEF Tick, TypeOK, Older, None
    <3> QED
      BY <2>4, <3>1, Durations DEF ApartInv, FloorOrCrossed
  <2>7. milestone' # None => milestone # None
    BY <1>4
  <2> QED
    BY <1>1, <1>6, <2>1, <2>2, <2>3, <2>5, <2>6, <2>7 DEF ApartInv, Kind
<1>12. AnswerInv'
  <2>1. since["answer"] # None => line # None
    BY DEF AnswerInv, Tick
  <2> QED
    BY <1>1, <1>6, <2>1 DEF AnswerInv, PostingInv, Kind
<1>13. SilentInv'
  BY <1>1, <1>2, <1>3, <1>4, <1>8, Durations DEF SilentInv, PostingInv
<1>14. OutputInv'
  BY <1>1 DEF OutputInv
<1> QED
  BY <1>9, <1>10, <1>11, <1>12, <1>13, <1>14

\* The timer fires after its interval, and a line goes out after the gap or is held.
LEMMA TimerFiresKeepsInv == ASSUME Inv, TimerFires PROVE Inv'
<1> USE DEF Inv
<1>1. /\ UNCHANGED <<stage, turnVars, streamVars, postVars, idx>>
      /\ pinger = "waiting" /\ timer = 0 /\ line = None
  BY DEF TimerFires, PostingInv
<1>2. UNCHANGED <<attempt, age, exit, reading, milestone, result, finalText, oversized,
                  lastPosted, since>>
  BY <1>1 DEF turnVars, streamVars, postVars
<1>3. CASE lastPosted >= MinGap /\ pinger' = "posting" /\ line' = 0 /\ UNCHANGED timer
  <2>1. TypeOK' /\ PostingInv'
    BY <1>1, <1>2, <1>3, Durations DEF TypeOK, PostingInv, None
  <2>2. AnswerInv' /\ OutputInv'
    BY <1>1, <1>2, <1>3, Durations DEF AnswerInv, OutputInv
  <2>3. ApartInv'
    <3>1. since["heartbeat"] \in {None} \cup (0..Old)
      BY DEF TypeOK, Kind
    <3>2. FloorOrCrossed(MinGap, line)'
      BY <1>2, <1>3, QuietFor, Durations DEF FloorOrCrossed
    <3>3. milestone' # None => FloorOrCrossed(Debounce, milestone)'
      BY <1>2 DEF ApartInv, FloorOrCrossed
    <3>4. since["heartbeat"] # None => since["heartbeat"] >= BackstopBase
      BY <1>1, <3>1, Durations DEF ApartInv, None
    <3> QED
      BY <1>1, <1>2, <1>3, <3>2, <3>3, <3>4 DEF ApartInv
  <2>4. SilentInv'
    BY <1>1, <1>2, <1>3, Durations DEF SilentInv, TypeOK, Posted
  <2> QED
    BY <2>1, <2>2, <2>3, <2>4
<1>4. CASE /\ lastPosted < MinGap /\ UNCHANGED <<pinger, line>>
           /\ timer' \in Timer(BackstopBase, BackstopWindow)
  <2>1. timer' \in Delay /\ timer' >= BackstopBase /\ timer' \in Nat
        /\ timer' <= BackstopBase + BackstopWindow - 1
    BY <1>4, Timers, Durations DEF Delay
  <2>2. TypeOK' /\ PostingInv' /\ AnswerInv' /\ OutputInv'
    BY <1>1, <1>2, <1>4, <2>1 DEF TypeOK, PostingInv, AnswerInv, OutputInv
  <2>3. ApartInv'
    <3>1. since["heartbeat"] \in {None} \cup (0..Old)
      BY DEF TypeOK, Kind
    <3> QED
      BY <1>1, <1>2, <1>4, <2>1, <3>1, Durations DEF ApartInv, FloorOrCrossed, None
  <2>4. SilentInv'
    <3>1. lastPosted \in Nat
      BY Durations DEF TypeOK
    <3>2. lastPosted + timer' <= MaxWait
      <4>1. lastPosted < MinGap
        BY <1>4
      <4> QED
        BY <2>1, <3>1, <4>1, HeldWait
    <3> QED
      BY <1>1, <1>2, <1>4, <2>1, <3>2 DEF SilentInv
  <2> QED
    BY <2>2, <2>3, <2>4
<1>5. lastPosted >= MinGap \/ lastPosted < MinGap
  BY Durations DEF TypeOK
<1> QED
  BY <1>1, <1>3, <1>4, <1>5 DEF TimerFires

\* A post stamps LastPostedAt and is the youngest of its kind.
LEMMA PostIs ==
    ASSUME TypeOK, NEW kind \in Kind, Post(kind)
    PROVE  /\ lastPosted' = 0 /\ lastPosted' \in 0..Old
           /\ since' \in [Kind -> {None} \cup (0..Old)]
           /\ since'[kind] = 0
           /\ \A k \in Kind : k # kind => since'[k] = since[k]
           /\ \A k \in Kind : since'[k] # None => lastPosted' <= since'[k]
<1>1. 0 \in 0..Old /\ None # 0 /\ \A i \in 0..Old : 0 <= i
  BY Durations DEF None
<1>2. since \in [Kind -> {None} \cup (0..Old)]
  BY DEF TypeOK
<1>3. lastPosted' = 0 /\ since' = [since EXCEPT ![kind] = 0]
  BY DEF Post
<1> QED
  BY <1>1, <1>2, <1>3

LEMMA PostPingKeepsInv == ASSUME Inv, PostPing PROVE Inv'
<1> USE DEF Inv
<1>1. /\ UNCHANGED <<stage, attempt, age, exit, reading, milestone, result, finalText,
                     oversized>>
      /\ pinger = "posting" /\ line' = None /\ idx' = idx + 1
  BY DEF PostPing, turnVars, streamVars
<1>2. /\ lastPosted' = 0 /\ lastPosted' \in 0..Old
      /\ since' \in [Kind -> {None} \cup (0..Old)]
      /\ since'["heartbeat"] = 0
      /\ \A k \in Kind : k # "heartbeat" => since'[k] = since[k]
      /\ \A k \in Kind : since'[k] # None => lastPosted' <= since'[k]
  BY PostIs DEF PostPing, Kind
<1>3. \/ pinger' = "ended" /\ idx' >= Phrases /\ UNCHANGED timer
      \/ /\ pinger' = "waiting" /\ idx' < Phrases
         /\ timer' \in Delay /\ timer' \in Nat /\ timer' >= BackstopBase
         /\ timer' <= BackstopBase + BackstopWindow - 1
  <2>1. idx \in Nat
    BY DEF TypeOK
  <2> QED
    BY <1>1, <2>1, Timers, Durations DEF PostPing, Delay
<1>4. TypeOK'
  <2>1. idx' \in 0..Phrases
    BY <1>1, Durations DEF TypeOK, PostingInv
  <2> QED
    BY <1>1, <1>2, <1>3, <2>1 DEF TypeOK
<1>5. PostingInv' /\ OutputInv'
  BY <1>1, <1>3 DEF PostingInv, OutputInv
<1>6. ApartInv'
  <2>1. milestone' # None => FloorOrCrossed(Debounce, milestone)'
    <3>1. milestone # None => milestone \in Nat
      BY Durations DEF TypeOK, None
    <3>2. "heartbeat" \in Kind
      BY DEF Kind
    <3>3. milestone # None => \A k \in Kind :
             since'[k] # None => since'[k] >= Debounce \/ since'[k] <= milestone
      BY <1>2, <3>1, <3>2, CrossedStays DEF ApartInv
    <3> QED
      BY <1>1, <3>3 DEF FloorOrCrossed
  <2>2. milestone' # None /\ since'["milestone"] # None => since'["milestone"] >= Debounce
    BY <1>1, <1>2 DEF ApartInv, Kind
  <2>3. pinger' = "waiting" => since'["heartbeat"] + timer' >= BackstopBase
    BY <1>2, <1>3, Durations
  <2> QED
    BY <1>1, <1>2, <1>3, <2>1, <2>2, <2>3 DEF ApartInv
<1>7. AnswerInv'
  BY <1>1, <1>2 DEF AnswerInv, Kind
<1>8. SilentInv'
  BY <1>2, <1>3, Durations DEF SilentInv
<1> QED
  BY <1>4, <1>5, <1>6, <1>7, <1>8

LEMMA SeeDoneKeepsInv == ASSUME Inv, SeeDone PROVE Inv'
<1> USE DEF Inv, SeeDone, turnVars, streamVars, postVars
<1>1. TypeOK' /\ OutputInv'
  BY DEF TypeOK, OutputInv
<1>2. PostingInv' /\ AnswerInv' /\ SilentInv'
  BY DEF PostingInv, AnswerInv, SilentInv
<1>3. ApartInv'
  BY DEF ApartInv, FloorOrCrossed
<1> QED
  BY <1>1, <1>2, <1>3

\* What is posted is posted within the debounce that was tested.
LEMMA WriteLineKeepsInv ==
    ASSUME Inv, NEW l \in LineKind, WriteLine(l)
    PROVE  Inv'
<1> USE DEF Inv, WriteLine
<1>1. UNCHANGED <<stage, attempt, age, exit, pinger, timer, line, idx, lastPosted, since>>
  BY DEF turnVars, pingVars, postVars
<1>2. {reading, result, finalText, oversized} \subseteq BOOLEAN
  BY DEF TypeOK
<1>3. TypeOK'
  <2>1. {reading', result', finalText', oversized'} \subseteq BOOLEAN
    BY <1>2 DEF Reads
  <2>2. milestone' \in {None} \cup (0..PostDelay)
    BY Durations DEF ShouldPost
  <2> QED
    BY <1>1, <2>1, <2>2 DEF TypeOK
<1>4. PostingInv'
  BY <1>1 DEF PostingInv
<1>5. ApartInv'
  <2>1. milestone' # None => lastPosted >= Debounce
    BY DEF ShouldPost
  <2>2. lastPosted \in Int /\ (since["milestone"] # None => since["milestone"] \in Int)
    BY DEF TypeOK, Kind
  <2>3. milestone' # None => \A k \in Kind : since[k] # None => since[k] >= Debounce
    BY <2>1, QuietFor, Durations
  <2>4. /\ milestone' # None => FloorOrCrossed(Debounce, milestone)'
        /\ line' # None => FloorOrCrossed(MinGap, line)'
    BY <1>1, <2>3 DEF ApartInv, FloorOrCrossed
  <2>5. "milestone" \in Kind
    BY DEF Kind
  <2> HIDE DEF WriteLine
  <2> QED
    BY <1>1, <2>3, <2>4, <2>5 DEF ApartInv
<1>6. AnswerInv' /\ SilentInv'
  BY <1>1 DEF AnswerInv, SilentInv, Posted
<1>7. OutputInv'
  <2>1. stage' = "running" /\ reading = ~oversized /\ (~oversized => finalText = result)
    BY <1>1 DEF OutputInv
  <2>2. l # "oversized" \/ oversized' = TRUE
    BY <1>2
  <2>3. CASE l = "oversized"
    BY <1>2, <2>1, <2>3 DEF Reads, OutputInv
  <2>4. CASE l # "oversized"
    BY <1>2, <2>1, <2>4 DEF Reads, OutputInv
  <2> QED
    BY <2>3, <2>4
<1> QED
  BY <1>3, <1>4, <1>5, <1>6, <1>7

LEMMA PostMilestoneKeepsInv == ASSUME Inv, PostMilestone PROVE Inv'
<1> USE DEF Inv, PostMilestone
<1>1. /\ UNCHANGED <<stage, attempt, age, exit, reading, result, finalText, oversized,
                     pinger, timer, line, idx>>
      /\ milestone # None /\ milestone' = None
  BY DEF turnVars, pingVars
<1>2. /\ lastPosted' = 0 /\ lastPosted' \in 0..Old
      /\ since' \in [Kind -> {None} \cup (0..Old)]
      /\ \A k \in Kind : k # "milestone" => since'[k] = since[k]
      /\ \A k \in Kind : since'[k] # None => lastPosted' <= since'[k]
  BY PostIs DEF Kind
<1>3. TypeOK'
  BY <1>1, <1>2 DEF TypeOK
<1>4. PostingInv' /\ OutputInv'
  BY <1>1 DEF PostingInv, OutputInv
<1>5. ApartInv'
  <2>1. line' # None => FloorOrCrossed(MinGap, line)'
    <3>1. line # None => line \in Nat
      BY Durations DEF TypeOK, None
    <3>2. "milestone" \in Kind /\ since'["milestone"] = 0
      BY PostIs DEF Kind
    <3>3. line # None => \A k \in Kind :
             since'[k] # None => since'[k] >= MinGap \/ since'[k] <= line
      BY <1>2, <3>1, <3>2, CrossedStays DEF ApartInv
    <3> QED
      BY <1>1, <3>3 DEF FloorOrCrossed
  <2> QED
    BY <1>1, <1>2, <2>1 DEF ApartInv, Kind
<1>6. AnswerInv'
  BY <1>1, <1>2 DEF AnswerInv, Kind
<1>7. SilentInv'
  <2>1. timer \in Nat /\ (pinger = "posting" => line \in Nat)
    BY Durations DEF TypeOK, Delay, PostingInv
  <2> QED
    BY <1>1, <1>2, <2>1, Durations DEF SilentInv
<1> QED
  BY <1>3, <1>4, <1>5, <1>6, <1>7

LEMMA StartKeepsInv == ASSUME Inv, Start PROVE Inv'
<1> USE DEF Inv, Start
<1>1. UNCHANGED <<attempt, exit, milestone, pinger, timer, line, idx, lastPosted, since>>
  BY DEF pingVars, postVars
<1>2. TypeOK'
  <2>1. age' \in 0..Old
    BY Durations
  <2>2. {reading', result', finalText', oversized'} \subseteq BOOLEAN
    OBVIOUS
  <2> QED
    BY <1>1, <2>1, <2>2 DEF TypeOK
<1>3. PostingInv' /\ OutputInv'
  BY <1>1 DEF PostingInv, OutputInv
<1>4. ApartInv' /\ AnswerInv' /\ SilentInv'
  BY <1>1 DEF ApartInv, FloorOrCrossed, AnswerInv, SilentInv, Posted
<1> QED
  BY <1>2, <1>3, <1>4

LEMMA ExitKeepsInv ==
    ASSUME Inv, NEW how \in Exits, Exit(how)
    PROVE  Inv'
<1> USE DEF Inv, Exit
<1>1. UNCHANGED <<attempt, age, reading, milestone, result, finalText, oversized,
                  pinger, timer, line, idx, lastPosted, since>>
  BY DEF streamVars, pingVars, postVars
<1>2. TypeOK' /\ PostingInv' /\ OutputInv'
  BY <1>1 DEF TypeOK, PostingInv, OutputInv
<1>3. ApartInv' /\ AnswerInv' /\ SilentInv'
  BY <1>1 DEF ApartInv, FloorOrCrossed, AnswerInv, SilentInv, Posted
<1> QED
  BY <1>2, <1>3

\* Another attempt is within those allowed.
LEMMA RetryIsAllowed ==
    ASSUME TypeOK, NEW untried, NEW fast,
           ShouldRetry(Decision(attempt, MaxAttempts, exit, Posted, untried, fast))
    PROVE  attempt < MaxAttempts - 1 /\ ~Posted /\ fast
BY Durations DEF ShouldRetry, Decision, AllowedAttempts

LEMMA DecideKeepsInv == ASSUME Inv, Decide PROVE Inv'
<1> USE DEF Inv
<1>1. /\ UNCHANGED <<exit, reading, milestone, result, finalText, oversized,
                     pinger, timer, line, idx, lastPosted, since>>
      /\ stage = "exited"
  BY DEF Decide, streamVars, pingVars, postVars
<1>2. \/ stage' = "pick" /\ attempt' = attempt + 1 /\ attempt < MaxAttempts - 1
         /\ UNCHANGED age
      \/ stage' = "answering" /\ age' = 0 /\ UNCHANGED attempt
  BY RetryIsAllowed DEF Decide
<1>3. TypeOK'
  <2>1. attempt' \in 0..MaxAttempts /\ age' \in 0..Old
    BY <1>2, Durations DEF TypeOK
  <2> QED
    BY <1>1, <1>2, <2>1 DEF TypeOK
<1>4. PostingInv' /\ OutputInv'
  BY <1>1, <1>2 DEF PostingInv, OutputInv
<1>5. ApartInv' /\ AnswerInv' /\ SilentInv'
  BY <1>1, <1>2 DEF ApartInv, FloorOrCrossed, AnswerInv, SilentInv, Posted
<1> QED
  BY <1>3, <1>4, <1>5

LEMMA AnswerKeepsInv == ASSUME Inv, Answer PROVE Inv'
<1> USE DEF Inv
<1>1. /\ UNCHANGED <<attempt, age, exit, reading, milestone, result, finalText,
                     oversized, pinger, timer, line, idx>>
      /\ stage = "answering" /\ stage' = "stopping"
  BY DEF Answer, turnVars, streamVars, pingVars
<1>2. CASE UNCHANGED <<lastPosted, since>>
  <2>1. TypeOK' /\ PostingInv' /\ OutputInv'
    BY <1>1, <1>2 DEF TypeOK, PostingInv, OutputInv
  <2>2. ApartInv' /\ AnswerInv' /\ SilentInv'
    BY <1>1, <1>2 DEF ApartInv, FloorOrCrossed, AnswerInv, SilentInv, Posted
  <2> QED
    BY <2>1, <2>2
<1>3. CASE Post("answer")
  <2>1. /\ lastPosted' = 0 /\ lastPosted' \in 0..Old
        /\ since' \in [Kind -> {None} \cup (0..Old)]
        /\ \A k \in Kind : k # "answer" => since'[k] = since[k]
        /\ \A k \in Kind : since'[k] # None => lastPosted' <= since'[k]
    BY <1>3, PostIs DEF Kind
  <2>2. TypeOK' /\ PostingInv' /\ OutputInv'
    BY <1>1, <2>1 DEF TypeOK, PostingInv, OutputInv
  <2>3. ApartInv' /\ AnswerInv'
    <3>1. line # None => line \in Nat
      BY Durations DEF TypeOK, None
    <3>2. "answer" \in Kind /\ since'["answer"] = 0
      BY <1>3, PostIs DEF Kind
    <3>3. line # None => \A k \in Kind :
             since'[k] # None => since'[k] >= MinGap \/ since'[k] <= line
      BY <2>1, <3>1, <3>2, CrossedStays DEF ApartInv
    <3>4. line' # None => FloorOrCrossed(MinGap, line)'
      BY <1>1, <3>3 DEF FloorOrCrossed
    <3>5. milestone' = None
      BY <1>1 DEF PostingInv
    <3>6. ApartInv'
      BY <1>1, <2>1, <3>4, <3>5 DEF ApartInv, Kind
    <3> QED
      BY <1>1, <2>1, <3>6 DEF AnswerInv, Kind
  <2>4. SilentInv'
    <3>1. timer \in Nat /\ (pinger = "posting" => line \in Nat)
      BY Durations DEF TypeOK, Delay, PostingInv
    <3> QED
      BY <1>1, <2>1, <3>1, Durations DEF SilentInv
  <2> QED
    BY <2>2, <2>3, <2>4
<1> QED
  BY <1>2, <1>3 DEF Answer, postVars

LEMMA CloseDoneKeepsInv == ASSUME Inv, CloseDone PROVE Inv'
<1> USE DEF Inv, CloseDone
<1>1. UNCHANGED <<attempt, age, exit, reading, milestone, result, finalText, oversized,
                  pinger, timer, line, idx, lastPosted, since>>
  BY DEF turnVars, streamVars, pingVars, postVars
<1>2. TypeOK' /\ PostingInv' /\ OutputInv'
  BY <1>1 DEF TypeOK, PostingInv, OutputInv
<1>3. ApartInv' /\ AnswerInv' /\ SilentInv'
  BY <1>1 DEF ApartInv, FloorOrCrossed, AnswerInv, SilentInv, Posted
<1> QED
  BY <1>2, <1>3

LEMMA InvIsInductive == Inv /\ [Next]_vars => Inv'
<1> SUFFICES ASSUME Inv, [Next]_vars PROVE Inv'
  OBVIOUS
<1>1. CASE Tick
  BY <1>1, TickKeepsInv
<1>2. CASE PingerStep
  BY <1>2, TimerFiresKeepsInv, PostPingKeepsInv, SeeDoneKeepsInv DEF PingerStep
<1>3. CASE StreamStep
  BY <1>3, WriteLineKeepsInv, PostMilestoneKeepsInv DEF StreamStep
<1>4. CASE HandlerStep
  BY <1>4, StartKeepsInv, DecideKeepsInv, AnswerKeepsInv, CloseDoneKeepsInv DEF HandlerStep
<1>5. CASE \E how \in Exits : Exit(how)
  BY <1>5, ExitKeepsInv
<1>6. CASE UNCHANGED vars
  <2> USE <1>6 DEF Inv, vars, turnVars, streamVars, pingVars, postVars
  <2>1. TypeOK' /\ PostingInv' /\ OutputInv'
    BY DEF TypeOK, PostingInv, OutputInv
  <2>2. ApartInv' /\ AnswerInv' /\ SilentInv'
    BY DEF ApartInv, FloorOrCrossed, AnswerInv, SilentInv, Posted
  <2> QED
    BY <2>1, <2>2
<1> QED
  BY <1>1, <1>2, <1>3, <1>4, <1>5, <1>6 DEF Next, Finished

(* ---------------------------- early failures ------------------------------ *)

\* The time that n attempts take leaves some of the opening interval.
LEMMA SpentIsLess ==
    ASSUME NEW n \in Nat, n <= MaxAttempts - 1, FailuresAreFast
    PROVE  /\ n * FastFailWindow \in Nat
           /\ n * FastFailWindow < FirstBase
           /\ (n + 1) * FastFailWindow = n * FastFailWindow + FastFailWindow
<1>1. FastFailWindow \in Nat /\ MaxAttempts \in Nat /\ FirstBase \in Nat
  BY Durations
<1>2. (n + 1) * FastFailWindow = n * FastFailWindow + FastFailWindow
  BY <1>1
<1>3. PICK d \in Nat : MaxAttempts - 1 = n + d
  <2>1. MaxAttempts - 1 - n \in Nat
    BY <1>1
  <2> QED
    BY <1>1, <2>1
<1>4. (n + d) * FastFailWindow = n * FastFailWindow + d * FastFailWindow
  BY <1>1
<1>5. n * FastFailWindow \in Nat /\ d * FastFailWindow \in Nat
  BY <1>1
<1> QED
  BY <1>1, <1>2, <1>3, <1>4, <1>5 DEF FailuresAreFast

LEMMA InitIsEarly == ASSUME Init, FailuresAreFast PROVE EarlyInv
<1>1. attempt = 0 /\ 0 * FastFailWindow = 0 /\ 0 <= MaxAttempts - 1
  BY Durations DEF Init
<1>2. ~Posted /\ line = None /\ stage = "pick"
  BY DEF Init, Posted, Kind
<1>3. pinger = "waiting" => timer >= FirstBase /\ timer \in Nat
  BY Timers, Durations DEF Init, Delay
<1> QED
  BY <1>1, <1>2, <1>3 DEF EarlyInv

LEMMA EarlyIsInductive ==
    ASSUME Inv, EarlyInv, FailuresAreFast, [Next]_vars
    PROVE  EarlyInv'
<1> DEFINE spent == attempt * FastFailWindow
           Fast == /\ stage \in {"running", "exited"} /\ attempt < MaxAttempts - 1
                   /\ age <= FastFailWindow /\ ~Posted
<1>1. /\ attempt \in Nat /\ attempt <= MaxAttempts - 1
      /\ timer \in Nat /\ age \in 0..Old /\ FastFailWindow \in Nat /\ FastFailWindow < Old
      /\ FirstBase \in Nat /\ MaxAttempts \in Nat /\ Old \in Nat
  BY Durations DEF Inv, TypeOK, EarlyInv, Delay
<1>2. /\ spent \in Nat /\ spent < FirstBase
      /\ (attempt + 1) * FastFailWindow = spent + FastFailWindow
  BY <1>1, SpentIsLess
<1>3. attempt < MaxAttempts - 1 => spent + FastFailWindow < FirstBase
  BY <1>1, <1>2, SpentIsLess
<1>4. /\ stage = "pick" => /\ ~Posted /\ line = None
                           /\ pinger = "waiting" => timer + spent >= FirstBase
      /\ Fast => line = None /\ (pinger = "waiting" => timer + age + spent >= FirstBase)
  BY DEF EarlyInv
<1> SUFFICES /\ attempt' <= MaxAttempts - 1
             /\ stage' = "pick" => /\ ~Posted' /\ line' = None
                                   /\ pinger' = "waiting" => timer' + spent' >= FirstBase
             /\ Fast' => line' = None
                         /\ (pinger' = "waiting" => timer' + age' + spent' >= FirstBase)
  BY DEF EarlyInv
<1> HIDE DEF spent
<1>5. CASE Tick
  <2>1. /\ stage \in {"running", "answering"} \/ line # None
        /\ UNCHANGED <<stage, attempt, pinger>> /\ age' = Older(age)
        /\ pinger = "waiting" => timer > 0 /\ timer' = timer - 1
        /\ line = None => line' = None
    BY <1>5 DEF Tick, Older
  <2>2. age' <= FastFailWindow => age' = age + 1
    BY <1>1, <2>1 DEF Older, None
  <2>3. spent' = spent
    BY <2>1 DEF spent
  <2>4. Posted' <=> Posted
    <3>1. \A k \in Kind : since[k] \in {None} \cup (0..Old) /\ since'[k] = Older(since[k])
      BY <1>5 DEF Tick, Inv, TypeOK
    <3>2. \A k \in Kind : since'[k] = None <=> since[k] = None
      <4>1. Older(None) = None /\ \A a \in 0..Old : Older(a) # None /\ a # None
        BY Ages, Durations DEF Older, None
      <4> QED
        BY <3>1, <4>1
    <3> QED
      BY <3>2 DEF Posted
  <2>5. Fast' => Fast
    BY <1>1, <2>1, <2>2, <2>4
  <2> QED
    BY <1>1, <1>2, <1>4, <2>1, <2>2, <2>3, <2>5
<1>6. CASE TimerFires
  <2>1. pinger = "waiting" /\ timer = 0
        /\ UNCHANGED <<stage, attempt, age, since>>
    BY <1>6 DEF TimerFires, turnVars, postVars
  <2>2. stage # "pick" /\ ~Fast
    BY <1>1, <1>2, <1>3, <1>4, <2>1
  <2>3. Fast' <=> Fast
    BY <2>1 DEF Posted
  <2> QED
    BY <1>1, <2>1, <2>2, <2>3
<1>7. CASE PostPing
  <2>1. UNCHANGED <<stage, attempt, age>> /\ line # None /\ since'["heartbeat"] = 0
    BY <1>7, PostIs DEF PostPing, turnVars, Inv, PostingInv, Kind
  <2>2. Posted'
    BY <2>1 DEF Posted, Kind, None
  <2> QED
    BY <1>1, <1>4, <2>1, <2>2
<1>8. CASE SeeDone
  BY <1>1, <1>8 DEF SeeDone, turnVars
<1>9. CASE \E l \in LineKind : WriteLine(l)
  <2>1. UNCHANGED <<stage, attempt, age, since, pinger, timer, line>>
    BY <1>9 DEF WriteLine, turnVars, postVars, pingVars
  <2> QED
    BY <1>1, <1>4, <2>1 DEF Posted, spent
<1>10. CASE PostMilestone
  <2>1. UNCHANGED <<stage, attempt, age>> /\ stage = "running" /\ since'["milestone"] = 0
    BY <1>10, PostIs DEF PostMilestone, turnVars, Inv, PostingInv, Kind
  <2>2. Posted'
    BY <2>1 DEF Posted, Kind, None
  <2> QED
    BY <1>1, <2>1, <2>2
<1>11. CASE Start
  <2>1. /\ stage = "pick" /\ stage' = "running" /\ age' = 0
        /\ UNCHANGED <<attempt, since, pinger, timer, line>>
    BY <1>11 DEF Start, postVars, pingVars
  <2> QED
    BY <1>1, <1>2, <1>4, <2>1 DEF spent
<1>12. CASE \E how \in Exits : Exit(how)
  <2>1. /\ stage = "running" /\ stage' = "exited"
        /\ UNCHANGED <<attempt, age, since, pinger, timer, line>>
    BY <1>12 DEF Exit, postVars, pingVars
  <2> QED
    BY <1>1, <1>4, <2>1 DEF Posted, spent
<1>13. CASE Decide
  <2>1. UNCHANGED <<since, pinger, timer, line>> /\ stage = "exited"
    BY <1>13 DEF Decide, postVars, pingVars
  <2>2. \/ /\ stage' = "pick" /\ attempt' = attempt + 1 /\ attempt < MaxAttempts - 1
           /\ ~Posted /\ age <= FastFailWindow
        \/ stage' = "answering" /\ attempt' = attempt
    <3> DEFINE fast == age <= FastFailWindow
    <3>1. PICK untried \in BOOLEAN :
            IF ShouldRetry(Decision(attempt, MaxAttempts, exit, Posted, untried, fast))
            THEN stage' = "pick" /\ attempt' = attempt + 1 /\ UNCHANGED age
            ELSE stage' = "answering" /\ age' = 0 /\ UNCHANGED attempt
      BY <1>13 DEF Decide
    <3> HIDE DEF fast
    <3>2. ShouldRetry(Decision(attempt, MaxAttempts, exit, Posted, untried, fast))
            => attempt < MaxAttempts - 1 /\ ~Posted /\ fast
      BY RetryIsAllowed DEF Inv
    <3> USE DEF fast
    <3> QED
      BY <3>1, <3>2
  <2>3. CASE stage' = "answering" /\ attempt' = attempt
    BY <1>1, <2>3
  <2>4. CASE stage' = "pick" /\ attempt' = attempt + 1 /\ Fast
    <3>1. spent' = spent + FastFailWindow
      BY <1>2, <2>4 DEF spent
    <3>2. ~Posted' /\ line' = None /\ attempt' <= MaxAttempts - 1
      BY <1>1, <1>4, <2>1, <2>4 DEF Posted
    <3> QED
      BY <1>1, <1>2, <1>4, <2>1, <2>4, <3>1, <3>2
  <2> QED
    BY <2>1, <2>2, <2>3, <2>4
<1>14. CASE Answer \/ CloseDone
  BY <1>1, <1>14 DEF Answer, CloseDone, turnVars
<1>15. CASE UNCHANGED vars
  <2>1. UNCHANGED <<stage, attempt, age, since, pinger, timer, line>>
    BY <1>15 DEF vars, turnVars, postVars, pingVars
  <2> QED
    BY <1>1, <1>4, <2>1 DEF Posted, spent
<1> QED
  BY <1>5, <1>6, <1>7, <1>8, <1>9, <1>10, <1>11, <1>12, <1>13, <1>14, <1>15
  DEF Next, PingerStep, StreamStep, HandlerStep, Finished

(* ------------------------------- theorems --------------------------------- *)

\* What the goroutines know of each other's posts stays as the invariant says
\* (pinger.go:85-124; streaming.go:96-145).
THEOREM ProgressInvariant == Spec => []Inv
<1>1. Init => Inv
  BY InitHasInv
<1>2. Inv /\ [Next]_vars => Inv'
  BY InvIsInductive
<1> QED
  BY <1>1, <1>2, PTL DEF Spec

\* An operator who has seen a first line is never left in silence for longer than
\* one held line and one slow post can cause (pinger.go:59-65, 110-124).
THEOREM SilenceIsBounded == Spec => []SilenceBounded
<1>1. Inv => SilenceBounded
  <2> SUFFICES ASSUME Inv, pinger # "off", stage = "running", idx < Phrases, Posted
               PROVE  lastPosted < MinGap + BackstopBase + BackstopWindow - 1 + PostDelay
    BY DEF SilenceBounded, Inv
  <2>1. timer \in Nat /\ lastPosted \in Nat /\ idx \in Int
    BY Durations DEF Inv, TypeOK, Delay
  <2>2. CASE pinger = "waiting"
    BY <2>1, <2>2, Durations DEF Inv, SilentInv, MaxWait
  <2>3. CASE pinger = "posting"
    <3>1. line \in 0..PostDelay
      BY <2>3 DEF Inv, TypeOK, PostingInv
    <3> QED
      BY <2>1, <2>3, <3>1, Durations DEF Inv, SilentInv, MaxWait
  <2>4. pinger # "ended"
    BY <2>1, Durations DEF Inv, PostingInv
  <2> QED
    BY <2>2, <2>3, <2>4 DEF Inv, TypeOK
<1> QED
  BY <1>1, ProgressInvariant, PTL

\* The answer of an attempt is its result line, whatever else was in its output
\* (streaming.go:79-83, 96-145).
THEOREM AnswerSurvives == Spec => []AnswerSurvivesNoise
<1>1. Inv => AnswerSurvivesNoise
  BY DEF Inv, OutputInv, AnswerSurvivesNoise
<1> QED
  BY <1>1, ProgressInvariant, PTL

\* Every post of the reader or of the pinger keeps its floor to all earlier posts, of
\* either kind, except to one that came out between its own test of LastPostedAt and
\* its stamp; lines are at least BackstopBase apart and milestones a debounce
\* (pinger.go:43-54, 110-124; streaming.go:30-34, 126-135).
THEOREM PostsAreApart == Spec => PostsApart
<1>1. Inv => [/\ PostPing => /\ FloorOrCrossed(MinGap, line)
                             /\ since["heartbeat"] # None
                                  => since["heartbeat"] >= BackstopBase
              /\ PostMilestone =>
                    /\ FloorOrCrossed(Debounce, milestone)
                    /\ since["milestone"] # None => since["milestone"] >= Debounce]_vars
  BY DEF Inv, PostingInv, ApartInv, PostPing, PostMilestone
<1> QED
  BY <1>1, ProgressInvariant, PTL DEF PostsApart

\* No line passes its test once the answer is out (pinger.go:43-47, 107-116).
THEOREM AnswerIsLast == Spec => NothingAfterAnswer
<1>1. Inv /\ [Next]_vars => [line = None /\ line' # None => since["answer"] = None]_vars
  <2> SUFFICES ASSUME Inv, Next, line = None, line' # None PROVE since["answer"] = None
    OBVIOUS
  <2>1. CASE Tick
    BY <2>1 DEF Tick, Older
  <2>2. CASE TimerFires
    <3>1. pinger = "waiting" /\ lastPosted >= MinGap
      BY <2>2 DEF TimerFires
    <3> QED
      BY <3>1, Durations DEF Inv, AnswerInv
  <2>3. CASE PostPing \/ SeeDone \/ StreamStep
    BY <2>3 DEF PostPing, SeeDone, StreamStep, WriteLine, PostMilestone, pingVars
  <2>4. CASE HandlerStep \/ (\E how \in Exits : Exit(how)) \/ Finished
    BY <2>4 DEF HandlerStep, Start, Decide, Answer, CloseDone, Exit, Finished, vars, pingVars
  <2> QED
    BY <2>1, <2>2, <2>3, <2>4 DEF Next, PingerStep
<1> QED
  BY <1>1, ProgressInvariant, PTL DEF Spec, NothingAfterAnswer

\* When the attempts that may be retried fail within the opening interval, nothing of
\* the turn is in the channel when a new attempt starts (spawnretry.go:19-22, 55-58).
THEOREM RetriesStartUnseen == FailuresAreFast => (Spec => NoDuplicateOutput)
<1> SUFFICES ASSUME FailuresAreFast PROVE Spec => NoDuplicateOutput
  OBVIOUS
<1>1. Init => EarlyInv
  BY InitIsEarly
<1>2. Inv /\ EarlyInv /\ [Next]_vars => EarlyInv'
  BY EarlyIsInductive
<1>3. EarlyInv => [Start => ~Posted]_vars
  BY DEF EarlyInv, Start
<1> QED
  BY <1>1, <1>2, <1>3, ProgressInvariant, PTL DEF Spec, NoDuplicateOutput

=============================================================================
