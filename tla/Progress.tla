------------------------------- MODULE Progress -----------------------------
(* What an operator sees of a running turn: the milestones that the reader of  *)
(* the agent's output posts (streaming), the lines of the pinger's goroutine   *)
(* beside it (progress, statusroute), and the answer, over the attempts of the *)
(* turn (spawnretry).  The goroutines meet in LastPostedAt: each tests it      *)
(* before its post and stamps it after, and a post takes time.                 *)
(* Time is kept as ages and delays, in ticks; an age stops at Old.             *)
EXTENDS SpawnRetry

CONSTANTS
    FastFailWindow, Debounce, MinGap,            \* the code's durations,
    FirstBase, FirstWindow,                      \* in ticks
    BackstopBase, BackstopWindow,
    PostDelay,          \* bound: how long a post to Slack takes
    Phrases,            \* len(Phrases)
    MaxAttempts,        \* the attempts that the pool and the Decision allow
    Routes,             \* the statusroute.Spawns considered
    Old                 \* an age no test can tell from a higher one

Route == [channelSurface : BOOLEAN, threadTS : BOOLEAN, isLoopTick : BOOLEAN]

ASSUME DurationAssumption ==
    /\ {FastFailWindow, Debounce, MinGap, FirstBase, BackstopBase, PostDelay} \subseteq Nat
    /\ {FirstWindow, BackstopWindow, Phrases, MaxAttempts} \subseteq Nat \ {0}
    /\ Routes \subseteq Route
    /\ MinGap > 0 /\ FirstBase + FirstWindow <= BackstopBase + BackstopWindow
    /\ Old \in Nat /\ Old > MinGap + BackstopBase + BackstopWindow + 2 * PostDelay
    /\ Old > FastFailWindow /\ Old >= Debounce

VARIABLES
    stage,      \* where the handler of the message is
    attempt,    \* index of the attempt
    age,        \* how long the attempt, or the post of the answer, has taken
    exit,       \* how the attempt ended
    reading,    \* whether Stream still reads its output
    milestone,  \* how long Stream has been posting a milestone, or None
    result,     \* whether the attempt wrote a result line
    finalText,  \* whether lastFinalText holds it
    oversized,  \* whether a line over the scanner's limit came
    pinger,     \* where the pinger's goroutine is
    timer,      \* ticks until its timer fires
    line,       \* how long it has been posting a line, or None
    idx,        \* the next phrase
    lastPosted, \* the age of LastPostedAt
    since       \* the age of the turn's last post of each kind, or None

turnVars == <<attempt, age, exit>>
streamVars == <<reading, milestone, result, finalText, oversized>>
pingVars == <<pinger, timer, line, idx>>
postVars == <<lastPosted, since>>
vars == <<stage, turnVars, streamVars, pingVars, postVars>>

None == -1
Kind == {"milestone", "heartbeat", "answer"}
Delay == 0..(FirstBase + FirstWindow + BackstopBase + BackstopWindow)

TypeOK ==
    /\ stage \in {"pick", "running", "exited", "answering", "stopping", "done"}
    /\ attempt \in 0..MaxAttempts /\ age \in 0..Old /\ exit \in Exits
    /\ {reading, result, finalText, oversized} \subseteq BOOLEAN
    /\ pinger \in {"off", "waiting", "posting", "ended"}
    /\ timer \in Delay /\ idx \in 0..Phrases
    /\ {milestone, line} \subseteq {None} \cup (0..PostDelay)
    /\ lastPosted \in 0..Old
    /\ since \in [Kind -> {None} \cup (0..Old)]

(* ------------------------------ the clock -------------------------------- *)

Older(a) == IF a = None THEN None ELSE IF a = Old THEN Old ELSE a + 1

\* What the goroutines do is done on time, a post takes at most PostDelay.
Tick ==
    /\ stage \in {"running", "answering"} \/ line # None
    /\ pinger = "waiting" => timer > 0 /\ stage # "done"
    /\ {milestone, line} \cap {PostDelay} = {}
    /\ stage = "answering" => age < PostDelay
    /\ timer' = IF pinger = "waiting" THEN timer - 1 ELSE timer
    /\ age' = Older(age) /\ lastPosted' = Older(lastPosted)
    /\ milestone' = Older(milestone) /\ line' = Older(line)
    /\ since' = [k \in Kind |-> Older(since[k])]
    /\ UNCHANGED <<stage, attempt, exit, reading, result, finalText, oversized,
                   pinger, idx>>

\* Reply: the text is out and LastPostedAt is stamped.
Post(kind) == lastPosted' = 0 /\ since' = [since EXCEPT ![kind] = 0]

Posted == \E k \in Kind : since[k] # None

(* ------------------------------ the pinger ------------------------------- *)

\* HeartbeatTarget.
HeartbeatTarget(r) ==
    IF ~r.channelSurface THEN "dm root"
    ELSE IF r.isLoopTick \/ ~r.threadTS THEN "suppress"
    ELSE "thread"

\* base + jitter(window).
Timer(base, window) == {base + j : j \in 0..(window - 1)}

\* Mutant: the gap is not looked at.
TimerFires_NoGap ==
    /\ pinger = "waiting" /\ timer = 0
    /\ pinger' = "posting" /\ line' = 0
    /\ UNCHANGED <<stage, turnVars, streamVars, postVars, timer, idx>>

\* Mutant: a line that is held ends the goroutine.
TimerFires_GivesUp ==
    /\ pinger = "waiting" /\ timer = 0
    /\ IF lastPosted >= MinGap
       THEN pinger' = "posting" /\ line' = 0
       ELSE pinger' = "ended" /\ UNCHANGED line
    /\ UNCHANGED <<stage, turnVars, streamVars, postVars, timer, idx>>

\* The timer fires: post if nothing was posted for MinGap, or hold the line.
TimerFires ==
    /\ pinger = "waiting" /\ timer = 0
    /\ IF lastPosted >= MinGap
       THEN pinger' = "posting" /\ line' = 0 /\ UNCHANGED timer
       ELSE timer' \in Timer(BackstopBase, BackstopWindow) /\ UNCHANGED <<pinger, line>>
    /\ UNCHANGED <<stage, turnVars, streamVars, postVars, idx>>

\* The line is posted; after the last one the goroutine returns.
PostPing ==
    /\ pinger = "posting"
    /\ Post("heartbeat")
    /\ idx' = idx + 1 /\ line' = None
    /\ IF idx' >= Phrases
       THEN pinger' = "ended" /\ UNCHANGED timer
       ELSE pinger' = "waiting" /\ timer' \in Timer(BackstopBase, BackstopWindow)
    /\ UNCHANGED <<stage, turnVars, streamVars>>

\* Mutant: a break leaves the select and not the loop.
SeeDone_Breaks ==
    /\ pinger = "waiting" /\ stage = "done"
    /\ timer' \in Timer(FirstBase, FirstWindow)
    /\ UNCHANGED <<stage, turnVars, streamVars, postVars, pinger, line, idx>>

\* done is closed; with the timer ready as well, the select takes either.
SeeDone ==
    /\ pinger = "waiting" /\ stage = "done"
    /\ pinger' = "ended"
    /\ UNCHANGED <<stage, turnVars, streamVars, postVars, timer, line, idx>>

PingerStep == TimerFires \/ PostPing \/ SeeDone

(* ------------------------------ the stream ------------------------------- *)

\* Mutant: the reader keeps a stamp of its own.
ShouldPost_OwnStamp ==
    since["milestone"] = None \/ since["milestone"] >= Debounce

\* shouldPost.
ShouldPost == lastPosted >= Debounce

\* Mutant: a line that does not decode ends the reading.
Reads_StopsAtMalformed(l) == l \notin {"oversized", "malformed"}

\* What a line can be: a tool use that is a milestone (one whose category is
\* suppressed is as any other tool use), a result, one that does not decode, one
\* over the limit.
LineKind == {"milestone", "tool use", "result", "malformed", "oversized"}

\* A line over 8 MiB ends the scan; one that does not decode is skipped.
Reads(l) == l # "oversized"

\* The agent writes a line.  Stream waits for Reply before it reads on.
WriteLine(l) ==
    /\ stage = "running" /\ milestone = None
    /\ reading' = (reading /\ Reads(l))
    /\ milestone' = IF reading /\ l = "milestone" /\ ShouldPost THEN 0 ELSE None
    /\ result' = (result \/ l = "result")
    /\ finalText' = (finalText \/ (reading /\ l = "result"))
    /\ oversized' = (oversized \/ l = "oversized")
    /\ UNCHANGED <<stage, turnVars, pingVars, postVars>>

PostMilestone ==
    /\ milestone # None
    /\ milestone' = None
    /\ Post("milestone")
    /\ UNCHANGED <<stage, turnVars, reading, result, finalText, oversized, pingVars>>

(* ----------------------------- the attempts ------------------------------ *)

Start ==
    /\ stage = "pick"
    /\ stage' = "running" /\ age' = 0
    /\ reading' = TRUE /\ result' = FALSE /\ finalText' = FALSE /\ oversized' = FALSE
    /\ UNCHANGED <<attempt, exit, milestone, pingVars, postVars>>

\* The process exits; Stream has read to the end.
Exit(how) ==
    /\ stage = "running" /\ milestone = None
    /\ stage' = "exited" /\ exit' = how
    /\ UNCHANGED <<attempt, age, streamVars, pingVars, postVars>>

\* The handler looks at the end of the attempt: once more on another slot, if the
\* pool still has one, or on to the answer or notice.
Decide ==
    /\ stage = "exited"
    /\ \E untried \in BOOLEAN :
         IF ShouldRetry(Decision(attempt, MaxAttempts, exit, Posted, untried,
                                 age <= FastFailWindow))
         THEN stage' = "pick" /\ attempt' = attempt + 1 /\ UNCHANGED age
         ELSE stage' = "answering" /\ age' = 0 /\ UNCHANGED attempt
    /\ UNCHANGED <<exit, streamVars, pingVars, postVars>>

\* The final answer or a notice is posted; an empty answer is not.
Answer ==
    /\ stage = "answering"
    /\ stage' = "stopping"
    /\ Post("answer") \/ UNCHANGED postVars
    /\ UNCHANGED <<turnVars, streamVars, pingVars>>

CloseDone ==
    /\ stage = "stopping"
    /\ stage' = "done"
    /\ UNCHANGED <<turnVars, streamVars, pingVars, postVars>>

HandlerStep == Start \/ Decide \/ Answer \/ CloseDone

(* ---------------------------- specification ------------------------------ *)

\* The handler starts; LastPostedAt may be unset or have been stamped just now.
Init ==
    /\ stage = "pick" /\ attempt = 0 /\ age = 0 /\ exit = "clean"
    /\ reading = FALSE /\ milestone = None /\ line = None
    /\ result = FALSE /\ finalText = FALSE /\ oversized = FALSE
    /\ \E r \in Routes :
         IF HeartbeatTarget(r) = "suppress"
         THEN pinger = "off" /\ timer = 0
         ELSE pinger = "waiting" /\ timer \in Timer(FirstBase, FirstWindow)
    /\ idx = 0
    /\ lastPosted \in {0, Old}
    /\ since = [k \in Kind |-> None]

Finished == stage = "done" /\ pinger \in {"off", "ended"} /\ UNCHANGED vars

StreamStep ==
    \/ \E l \in LineKind : WriteLine(l)
    \/ PostMilestone

Next ==
    \/ Tick
    \/ PingerStep
    \/ StreamStep
    \/ HandlerStep
    \/ \E how \in Exits : Exit(how)
    \/ Finished

\* The goroutines run, Slack answers, and the spawn timeout ends the process however
\* often its lines make Stream post.
Fairness ==
    /\ WF_vars(PingerStep) /\ WF_vars(HandlerStep) /\ WF_vars(PostMilestone)
    /\ SF_vars(\E how \in Exits : Exit(how))

Spec == Init /\ [][Next]_vars /\ Fairness

(* ----------------------------- properties -------------------------------- *)

\* Nothing of the turn is in the channel when a new attempt starts, the pinger's
\* lines included: the fast failures are over before its first line
\* (spawnretry.go:19-22, 55-58).
NoDuplicateOutput == [][Start => ~Posted]_vars

\* A post comes after each earlier one at its floor, or that one landed while it was
\* itself on its way to Slack.
FloorOrCrossed(floor, sent) ==
    \A k \in Kind : since[k] # None => since[k] >= floor \/ since[k] <= sent

\* A line keeps MinGap, and a milestone the debounce, to every earlier post of the
\* turn, of either kind, but for one that crossed it on the way; the next line is at
\* least BackstopBase away, held lines and slow posts included, and milestones never
\* cross each other (pinger.go:43-54, 110-124; streaming.go:30-34, 126-135).
PostsApart ==
    [][/\ PostPing => /\ FloorOrCrossed(MinGap, line)
                      /\ since["heartbeat"] # None => since["heartbeat"] >= BackstopBase
       /\ PostMilestone =>
             /\ FloorOrCrossed(Debounce, milestone)
             /\ since["milestone"] # None => since["milestone"] >= Debounce]_vars

\* The floors as the comments have them, for any two posts (pinger.go:43-44;
\* streaming.go:30-31).  The code tests the stamp before a post and sets it after.
FloorBetweenPosts ==
    [][\A k \in Kind : since[k] # None =>
           /\ PostPing => since[k] >= MinGap
           /\ PostMilestone => since[k] >= Debounce]_vars

\* No tick passes its test once the answer is out, also when the select prefers
\* the timer to a closed done; only a line already on its way can still land
\* (pinger.go:43-47, 107-116).
NothingAfterAnswer ==
    [][line = None /\ line' # None => since["answer"] = None]_vars

\* The state is well typed, and as long as there is a line left an operator who has
\* seen a first one is never left without for longer than a held line can cause
\* (pinger.go:59-65, 110-124).
SilenceBounded ==
    TypeOK /\ (pinger # "off" /\ stage = "running" /\ idx < Phrases /\ Posted =>
        lastPosted < MinGap + BackstopBase + BackstopWindow - 1 + PostDelay)

\* The answer of the attempt is its result line, whatever else was in its output,
\* unless a line over the scanner's limit came (streaming.go:79-83, 96-145).
AnswerSurvivesNoise == stage = "exited" /\ ~oversized => finalText = result

\* Every turn ends, and leaves no goroutine behind (spawnretry.go:13-17,
\* pinger.go:85-91).
TurnEnds == <>(stage = "done" /\ pinger \in {"off", "ended"})

=============================================================================
