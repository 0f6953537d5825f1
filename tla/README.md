# Formal model of claude-code-core

`claude-code-core` is the Go library under two Slack agents, Ross and Joanne,
each of which runs `claude -p` subprocesses ("spawns") to answer messages. The
library has no main loop of its own: it is the set of parts the two binaries
plug together around a Slack event. This directory holds TLA+ models of those
parts, the TLC configurations that check them on small instances, and TLAPS
proofs of their safety properties, the two refinements among them, for every size.

`PROJECT.json` lists the components, the runs, the mutations that show that a
property can fail, the source lines each definition stands for, the hazards
the properties are aimed at, and the theorems.

## The system

    Slack event
        |  (ack to Slack)
    harness.Dispatch --- dedupe, channel policy, pre-gates (agent hooks)
        |
    gate.Decide ---------- threadowner (fleet mode, shared record per thread)
        |            \---- ownergate + threadownership (personal / team mode)
        |  respond?
    handoff.AdmitOrDrop -- only for a message of the other bot
        |
    sessionqueue.Enqueue   one queue per session id, marker files on disk
        |  drain
    Runner (agent code)    spawnsettings, channelcontext, session, oauthpool +
        |                  spawnretry; streaming and progress beside the spawn;
        |                  bot-handoff + scratchpad from inside it;
        |                  silentnarration, slackmrkdwn, blockkit for its answer
    engagement.Record      batches of events to a collector

    boot: sessionqueue.Replay and resume.LoadMarkers bring back what a stop left

| part | state it keeps | operations | what makes it correct |
|---|---|---|---|
| `sessionqueue` | `sessions`, `queuedByMsg` under `Queue.mu`; `running`, `waiters` under each `sessionQueue.mu`; a cancel flag per message; marker files; a WaitGroup | `Enqueue`, the `drain` goroutines, `MarkCancelled`, `Replay` | one spawn per session at a time; no waiter without a goroutine; every message run or stopped once; no silent loss over a restart |
| `threadowner`, `gate` (fleet mode), `harness` | owner of each thread, in Redis or in a file of each agent | `Decide`, `DecideWithLock`, `resolveState`, `persistOwnership`, `dispatchMessage` | two processes deciding apart, and all their handlers at once, answer each message as the rules say for an owner in effect |
| `handoff` | one JSON file with hops per thread and a daily counter; a kill-switch file | `AdmitOrDrop` | the three caps bound the spawns that really happen |
| `engagement` | a buffered channel, a buffer, `stop`/`done` | `Record`, the loop, `Close` | no event is shipped twice or vanishes without a log line; `Close` flushes |
| `ownergate`, `gate` (owner modes), `threadownership` | claimed/released threads in a file per pod | admission rules | an agent answers its owner, and a thread released stays released |
| `oauthpool`, `spawnretry` | slots with cooldowns, a cursor shared by the process | `Next`, `Others`, `MarkLimited`, `ShouldRetry` | a limited slot rests while another is free; a silent failure is retried on every slot, once each; nothing shown is shown twice |
| `progress`, `statusroute`, `streaming` | `LastPostedAt`, shared by the pinger's goroutine and the reader of the stream; the timer and the next phrase; the final text | the tick loop, `Stream`, `HeartbeatTarget` | neither silence nor chatter, nothing after the answer, the final text whatever the noise |
| `resume` | marker files, in two layouts of the workspaces | `WriteMarker`, `RemoveMarker(File)`, `LoadMarkers` | an interrupted turn is replayed at the next boot, and once |
| `session` | none; it reads the CLI's session files | derive an id, choose `--session-id` or `--resume`, recognise the lock race | a turn goes on with its own conversation's transcript |
| `spawnsettings` | none; it reads `settings.json` and the environment | `Resolve` | the CLI gets what it can run; the ladder of precedence |
| `channelcontext` | none; two calls to Slack | `Fetch`, `Format` | the preamble has the message to answer, and its two sections agree |
| `scratchpad`, `cmd/bot-handoff` | blobs in Redis with a TTL, per channel | `put`, `get`, `del` and their exit statuses | a reader gets its channel's last blob, or is told that there is none |
| `silentnarration`, `slackmrkdwn`, `blockkit` | none | `LooksLike`, `ToSlack`, `BuildReplyOpts` | an answer reaches Slack whole, and as Slack takes it |
| `replypolicy` | none | a prompt text with names put in | nothing to decide |

The parts interact by plain calls and callbacks in one process, and between
processes through three shared things: the ownership record, the handoff file,
and Slack itself, which delivers each message of a thread to both agents. Spawns
of one channel also share the scratchpad in Redis.

What is hard in this code: `sessionqueue` is a hand-written monitor over two
lock levels with an atomic flag on the side, a collector of idle queues that
races with new arrivals, and a recovery path that overlaps live traffic. The
ownership record and the handoff file are read, decided on and written back by
two processes without a lock between them. The recorder's shutdown races with
its producers. Two goroutines test and stamp one timestamp around their posts.
A replay at boot starts turns beside the queue that serializes them, and the CLI
keeps a session's lock for a while after its process has ended. `hazards` in
`PROJECT.json` names each of these at its line.

## Modules

| module | models |
|---|---|
| `SessionQueue` | one process life of `sessionqueue.Queue` |
| `SerialSession` | what the queue promises: one serial worker per session |
| `SessionQueueRefinement` | the refinement mapping from the first to the second |
| `QueueRecovery` | `SessionQueue` over kills, restarts and `Replay` |
| `ThreadRouting` | the two agents' routing of one thread over the ownership store |
| `HandoffTracker` | `AdmitOrDrop` on one tracker, or on the two trackers of the two binaries |
| `Engagement` | the recorder |
| `OwnerMode` | admission by a personal or team agent over its ownership file |
| `OwnerRules` | what it promises: one message after the other under the rules |
| `Progress` | what an operator sees of a running turn: heartbeats, milestones, the answer, over its attempts |
| `SpawnRetry` | when a failed attempt is run again; used by `Progress` and `OAuthPool` |
| `Resume` | interrupted turns and the sessions they run in, over stops, kills, restarts and deploys |
| `OAuthPool` | the slots, and the attempts of a spawn on them |
| `SpawnSettings` | the precedence of model and effort pins |
| `ChannelContext` | the two calls of `Fetch` while people post |
| `Scratchpad` | the commands of spawns over a Redis that fails and forgets |
| `ReplyText` | from a final text to what Slack is sent |
| `Turn` | the composition of `OAuthPool`, `SpawnSettings`, `ChannelContext`, `Scratchpad` and `ReplyText` in the order of one turn |
| `SessionQueueProofs` | the theorems about `SessionQueue`, its refinement of `SerialSession`, and `QueueRecovery` |
| `ThreadRoutingProofs`, `HandoffTrackerProofs`, `EngagementProofs`, `OwnerModeProofs`, `ProgressProofs`, `ResumeProofs`, `TurnProofs` | the theorems about the module each is named after |
| `MCSessionQueue`, `MCQueueRecovery`, `MCThreadRouting`, `MCHandoffTracker`, `MCOwnerMode`, `MCProgress`, `MCResume`, `MCTurn` | instances for TLC; `Engagement` needs none |

An operator whose name has a suffix and whose comment starts with *Mutant* is
not part of the model: it is a plausible bug in the operator it stands before,
with which the property it is listed with is violated.

### SessionQueue

A call of `Enqueue` is an element of `Call`. The `*Msg` it allocates, the
`*sessionQueue` it allocates if its session has none, and the drain goroutine
it starts all go by that name, since a call creates at most one of each; an
element of `Call` is thus what a pointer is in the code, and `None` is nil. Two
calls may have one `KeyOf`: that is a message Slack delivered twice, or a
replay.

A step is what happens between two points where another goroutine, or the disk,
can see something. `Enqueue` is `WriteMarker` (the file, which may fail),
`LookUpSession` (take `q.mu`, find or create the queue, index the message),
`AppendWaiter` (still under `q.mu`, under `sq.mu`), then `Ack` or `SpawnDrain`
(`inflight.Add` outside of both locks). `drain` is `BeginTake`, `PartitionOne`
for each waiter (the atomic load of its flag, which `MarkCancelled` sets without
a lock), `EndTake`, `Forget` (the index entries, under `q.mu`), `Unmark` for
each marker, `NotifyCancelled`, `StartRun`, `EndRun`, `EndGrace`, and around
again; with nothing to take it is `LeaveEmpty`, `LockForGC`, `Collect`,
`DrainDone`. `qmu` and `sqmu` say who holds a lock over a step; a lock taken and
released within one step is a guard. `MarkCancelled` is `FindQueued` under the
lock and `SetCancelled` after it.

Abstracted: session ids and keys are model values; the text of a message, its
coalescing into a prompt, and panics recovered by `safeRun` (which return like
any other end of the Runner) are left out; a grace period is a step.

### QueueRecovery

Extends `SessionQueue` with the disk's view of time: each marker has the stamp
of its last write. `Kill` drops all memory and keeps `markers`; there may be
several. After `Boot` the walk of `loadMarkers` is one `ReadMarker` for each key,
in any order, each of which sees the file as it is then; `Judge` reads the clock
once and sorts what was found, `Purge` and `Reinject` are `Replay`'s two loops in
any order, `EndReplay` its end. Live messages arrive, wait and are run all the
while, since nothing in `src/` orders them after `Replay`. A key in `Corrupt` has a
file that does not parse. The ghosts name the ways in which the code may lose or
repeat a message, so that the properties can say: these and no other. They are
`leaked` (a drain could not remove the marker), `expired` (purged as stale),
`unmarkedAtKill` (a kill found the message in a drain's hands with its marker
already gone), and `readLive` (a scan read the marker of a message that the same
life was working on).

### ThreadRouting

One thread and its two agents. `Post` is a user; for each message each agent
has a handler, which does `ResolveState` (`Get` of the record, which cannot be told
from "no owner" when it fails) and `DispatchMessage` (`DecideWithLock`,
`persistOwnership` by `Set`, and then route or drop); `Expire` is the end of the
record's lifetime in Redis. `dispatchMessage` takes no lock, so neither the two
agents nor the handlers of one agent are ordered: a later message may be decided
before an earlier one. `before` is a ghost: the messages that both agents had dealt
with when a message was posted. The variable `setting` is drawn in `Init` and
fixed: whether the store is shared, the channel's lock, how the store may fail, and
how many messages are written at most. The thread is new or goes on with some earlier owner.

### HandoffTracker

`AdmitOrDrop` in the order of the code: the mutex of *its tracker*, the kill
switch (looked at once), the load, the four checks on a copy, the write of the
temporary file, the rename. The two binaries are two elements of `Tracker` over
one file and one temporary file. The clock does not go backwards; days and the
hop window are counted in ticks, the unit in which the comparison of
`tracker.go` is made.

### Engagement

The channel, the buffer, and the loop's select as four actions that may be
picked whenever they are ready. A send is one step with two outcomes. `early`
is a ghost: what had been recorded when `Close` was first called.

### OwnerMode

The same `dispatchMessage`, in the modes in which one person owns the agent.
`ResolveState` reads the claims under the store's mutex and decides (`CheckTeam`
is the code's predicate, `Responds` and `Changes` what `decideOwner` makes of its
verdicts); `PersistOwnership` changes the map and writes the whole of it to the
file, which may fail; `Route` hands over. Each message has a handler of its own,
and all run concurrently, since `Dispatch` takes no lock. `Restart` falls back to
the file, or to nothing when it cannot be read, and loses the handlers.

`OwnerRules` states the rules of `ownergate`'s comments for one message at a
time, with the constant `Asides` for what is let through against them: a reply
that mentions only somebody else is not for the agent (`ownergate.go:140-141,
180-181`), but the code lets it pass when a member writes it in a thread of the
agent's (177-179). The refinement is shown with `SideRemarks` for `Asides`, and the
configuration `owner_barge_in` shows that they are needed. In the refinement a
message is dealt with at its read if it changes no claim and at its write if it does:
this is its linearization point.

Abstracted: a message is its sender, its place, its thread, and the mentions the
two recognisers find in it. They disagree on the labelled form `<@ID|name>`, which
`ownergate_test.go:331-334` says is intended. A direct message is in no thread.

### Progress

Three goroutines that meet in `LastPostedAt`: the pinger (`TimerFires`, which
tests the gap, `PostPing`, which stamps it when the post is out, `SeeDone`), the
reader of the spawn's output (`WriteLine` for each kind of line, `PostMilestone`),
and the handler (`Start`, `Decide` by `SpawnRetry`, `Answer`, `CloseDone`), which
is the agents' and modelled from how the packages say they are to be used. Time
is kept as ages and delays: `Tick` makes every age older, and is not taken
while something is overdue. A post takes up to `PostDelay`, so that test and
stamp are apart. In `SeeDone` and `TimerFires` a closed `done` and a timer that
fires may be picked in either order, as in Go's `select`.

Abstracted: the wording of lines; the route of a spawn only matters for whether
there is a pinger; jitter is a choice.

### Resume

Each message has a `turn`: waiting in the session queue, working, or over. A
graceful stop is `Drain`, in which the handlers of working turns write their
markers (`Interrupt`), and `Stop`, which also stands for a kill; `Boot` is
`LoadMarkers`, the sweep of stale markers and perhaps a deploy, which changes the
persona (and with it `Namespace`) or the layout of the workspaces. `Replay`
starts a turn beside the queue. `BeginTurn` clears the marker and chooses the
flag; `Launch` is later, so what the flag was chosen by may have changed. The
CLI is external: it refuses a session that is locked or that exists already, in the
same words, and writes the session's file some time into the first turn. Its lock
outlives the process: `Finish` leaves the message in `held` until `Release`, which
may come at any time or not before the next restart. `covered` says whether the
queue's grace, which may be 0, outlasts that, for the whole of a behaviour.
`HomeKnown` says whether `$HOME` is set, without which every session looks new;
the run sets it.

### Turn

`Turn` puts five components (`SpawnSettings`, `ChannelContext`, `OAuthPool`,
`Scratchpad`, `ReplyText`) in the order in which a turn uses them: `settings`,
`context`, `spawn`, `pad`, `reply`; a phase that is over puts its state back, as
its locals go out of scope, so that the phases add up rather than multiply.
`Resolve` and `BuildReplyOpts` are pure and their phases draw an input; the
properties of these phases say what the result owes to the input.
In `OAuthPool` other spawns move the cursor and limit slots at any time. In
`ChannelContext` others post before each of the two calls. In `Scratchpad` a call
may fail with or without its effect and a blob may expire; `may` is a ghost that
holds what a reader may find. In `ReplyText` a text is a sequence of lines, and a
line its kind and its items; of the characters of an item the model keeps whether
bold markers or runs of blanks are among them, and what the code has made of these.
A post has its text, its blocks, and the lines that Slack shows, which are not the
text's when links have become buttons.

## Runs

| run | question | bounds, and why they are enough |
|---|---|---|
| `queue_safety` | Do concurrent Enqueues, the collection of the idle queue and a cancellation keep one goroutine per session, strand nobody, leak nothing? Is the whole a serial worker per session? | Three calls on one session, two with the same key, one reaction. Three are needed for the race of the collector: one call whose drain leaves, one that has looked the queue up, one that would create the second. Sessions share only `q.mu` and the two maps; the theorems cover any number of them. |
| `queue_live` | Is every message answered in the end, is a cancelled waiter stopped? | Two calls with keys of their own, two reactions: one waiter behind one predecessor, each cancelled at any point or twice. |
| `queue_cancel_race` | *Violation.* `MarkCancelled` returning true keeps the message out of a batch. | One reaction and two calls. |
| `recovery` | What can a kill lose or repeat, what does the cutoff throw away, and what does a scan beside live traffic repeat? | One message with its live call and three replays, and the unreadable file of another; two kills at any moment, so that a marker is stamped anew by a replay and judged again by the next boot; failing writes and removals; a clock of two ticks with cutoff zero, so that both fresh and stale markers occur. Several messages at once, batches of them among them, are covered by the theorems only. |
| `routing` | Do the agents follow the rules, however their handlers overlap? Where does the record end, and whose are the threads when the store fails? | An open channel over one Redis or a file for each agent, three messages with any mentions, each handled by both agents at any time: a mention before another, and a message beside both. Then two messages under every lock, with and without failures; one Redis with failing reads and writes and expiry; two files with failing reads and writes. |
| `handoff_caps` | Do the caps hold for the spawns, with one tracker? | Five calls, two threads, caps 2 in a window of 2, 3 per thread and 3 a day of 2 ticks, clock to 3: each cap is reached before the others in some behaviour, midnight passes once and the window slides. Reads, writes and renames may fail. |
| `handoff_two_pods` | *Violation.* The caps hold with the two binaries' trackers. | Three calls, two trackers, caps 1, 2 and 2. |
| `engagement` | Is every event in one place, does `Close` flush, does nothing wait for ever? | Four events, channel and batch of two, so that the channel fills while a batch of two is sent; two calls of `Close`. |
| `owner_mode` | Do concurrent handlers, failed writes and a restart come to one message at a time under the rules? Is the agent only where it was called? | Three messages, one restart: enough for a claim that is not saved, a change of another thread that saves both, and a follow-up after the restart. In one thread all messages the predicate tells apart; the second is there for its place in the file. |
| `progress` | Is the operator neither left in silence nor flooded, is nothing posted twice or after the answer, does the turn end? | The durations keep the order they have in the code (window of a fast failure < debounce < gap < opening < backstop) in the smallest numbers that do, so that a held line, a slow post and a milestone between two lines all occur; three attempts, two phrases, every route. An age stops at `Old`, above every sum a property compares it with. |
| `resume` | Is an interrupted turn replayed, once, into its own transcript? Who is dropped? | A thread's root and its reply, and a loop's tick with an unreadable marker; three lives, one deploy of a new persona or layout, one failing file operation, downtimes around the cutoff. Two turns of one conversation are what the races need. The grace outlasts the CLI's lock in some behaviours and not in others. |
| `turn` | Does each part of a turn keep its promise for every input of its kind? | Every combination of pins for one key beside two or three for the other; up to five messages with pages of four and a history of two; three slots and two events of other spawns; two commands on two channels and keys that differ in blanks; texts of up to four lines of thirteen kinds, with links, bare URLs and code with and without bold markers and blanks, ceilings of three blocks, two buttons, one in a row. These stand for the 50 blocks, 25 buttons and 5 in a row of the code, which no text that short would reach. |

Five more configurations are kept beside these, each for a claim of the comments
that TLC refutes within seconds where the run of its module states what holds in its
place:

| configuration of | claim it refutes | what holds instead |
|---|---|---|
| `routing_crossed` (`MCThreadRouting`) | `GenericToOneAgent`: a message without a mention goes to one agent | `RoutedAsRuled`: each agent goes by an owner of before or of while it was handled |
| `owner_barge_in` (`MCOwnerMode`) | `NoBargeIn`: a member's message that mentions only somebody else is dropped | `RulesSpec`: it follows up in a thread of the agent's (`Asides`) and nowhere else |
| `progress_crossed` (`MCProgress`) | `FloorBetweenPosts`: the floors hold between any two posts | `PostsApart`: but for posts that crossed on the way |
| `turn_urls` (`MCTurn`) | `URLsStay`: a link keeps its URL | `AnswerIsWhole`: but for bold markers in it |
| `turn_code` (`MCTurn`) | `CodeIsShown`: code is shown as it was written | `AnswerIsWhole`: but for links and runs of blanks in a section with buttons |

All runs but `resume` check for deadlock. The modules have a `Finished` step that is
enabled only when there is really nothing left, so a lock never released is
reported; in `HandoffTracker` the kill switch can always be flipped, so there
the deadlock check says nothing, and a mutex never released would not be
noticed. `Resume` stops where its bounds on restarts are used up, at any
moment of a pod's life.

Symmetry is used for the two deliveries of one message (`queue_safety`), for
calls, trackers and threads (`handoff_*`) and for messages (`owner_mode`), in
runs without liveness.

### Fairness

`FairSpec` of `SessionQueue` assumes weak fairness for a started `Enqueue` call,
for each drain goroutine, and for a `MarkCancelled` that has found its message:
Go's scheduler runs every runnable goroutine, and Go's mutexes have a starvation
mode, so a waiting `Lock` is granted. In a drain it includes the return of
the Runner, which the agents bound by the spawn timeout. Nothing is assumed of
arrivals and reactions. `RecFairSpec` adds that a killed pod is restarted and
that `Replay` goes on. `Engagement` assumes that its loop takes steps and its
HTTP requests end (they have a timeout); `Close` and `Record` get none.
`Progress` assumes that its goroutines run and Slack answers; that the process
ends is assumed strongly, because the spawn timeout ends it however often its
output keeps the reader busy. `Resume` assumes that handlers, the CLI and the boot
get on and that a drain comes to its end; no stop is ever due, nor any release of a
lock.

### What the properties say

* **The queue.** `OneDrainPerSession` is about goroutines, not queue objects,
  so a second queue object for the same session, the bug that the lock nesting of
  `sessionqueue.go:203-213` is there for, violates it. `NoStrandedWaiter` and
  `EveryMessageAnswered` are the two sides of the exit race at line 251.
  `QuietIsClean` says what the shutdown's `Wait` means. `SerialSpec` is the
  refinement: arrival order, whole batches, one outcome each.
* **Recovery.** `NoSilentLoss`, `RunTwiceHasCause` and
  `SurvivorIsAnswered` together bound what kills can do: a message is lost only
  between the removal of its marker and its answer, and repeated only for a marker
  that stayed or that was read beside its own delivery. That the marker's time
  is renewed at each replay only ever errs towards another replay: what is purged
  has waited for longer than the cutoff.
* **Routing.** `RoutedAsRuled` compares the decisions of all handlers with what the
  rules allow: a message without a mention goes to an owner that no mention dealt
  with before it had replaced, which is one owner unless the message, or the last
  mention before it, overlaps with a mention (`MayOwn`). An agent records the new owner
  also when it stays silent, without which two files would fall out of step.
  `StoreFollowsMentions` says where the records end: on a mention that no other came
  after. When mentions overlap they may end on either, and two files on different
  ones, for good. `RossCovers` is what failing open means: no failure makes a
  thread Joanne's, and none leaves a thread that was never hers without an answer.
* **Handoffs.** `CapsHold` counts the handoffs whose callers were told to go
  ahead, not the entries of the file; `TallyMatches` ties the two together, and
  has the cycle check.
* **Engagement.** `OnePlace` is the conservation of events, `CloseFlushes` the
  promise of `Close`, `EarlyEventShipped` the reason for the ticker.

* **Owner modes.** `RulesSpec` is the refinement to `OwnerRules`, side remarks
  excepted: no interleaving
  of handlers admits, drops or refuses a message that the claims of one moment
  would not, and a restart forgets no saved claim and revives no saved
  hand-over. `OnlyInvited` traces each conversation back to a call.
* **Progress.** `SilenceBounded` and `PostsApart` are the two sides of the gap: a
  held line must come in time and not too soon. `PostsApart` is about any two posts:
  the floor is kept unless the earlier one landed while the later was on its way, as
  a line and a milestone, or a line and the answer, can. `NothingAfterAnswer` is about the
  test, since a line already on its way can still land. `NoDuplicateOutput` needs
  the durations: a fast failure is over before the first heartbeat.
* **Resume.** `InterruptedIsReplayed` and `RunsOncePerInterrupt` bound a restart
  from both sides. `ResumesOwnTranscript` compares the flag chosen before the
  spawn with the files at its start, for conversations as users know them and not
  as ids. `DroppedOnlyForALock` names what a message can be refused and swallowed
  for: a replay in its conversation, or, with a short grace, the lock that a turn of
  its own conversation has left behind; never another conversation.
* **A turn.** `FailoverIsComplete` and `LimitedSlotRests` hold beside other spawns
  on the same pool. `ReadsOwnLatest` compares a `get` with the puts and dels of
  its channel over failures that may have had their effect. `AnswerIsWhole` follows
  an answer through the gate, the translation and the buttons, into the text that is
  sent and the section that is shown instead; links and code must come out as they
  went in, but for the URLs of `turn_urls` and the code of `turn_code`. `SlackTakesIt` is about what replaces a card.

One invariant of each module has the type invariant as its first conjunct; in
`SessionQueue` and `OwnerMode` it is a property of its own.

## Where code and comments disagree

Each of these has a counterexample, of a run or of one of the five configurations,
and is quoted in `findings`:

1. `MarkCancelled` may return true for a message that then runs: the index entry
   outlives the partition loop (`queue_cancel_race`).
2. Two binaries over one handoff file exceed the caps (`handoff_two_pods`).
3. A generic message may be answered by both agents or by none if it crosses a
   mention (`dispatcher.go:136`), against rule 4 (`routing.go:33`,
   `routing_crossed`).
4. A member's reply that mentions only somebody else is let through in a thread of
   the agent's (`owner_barge_in`).
5. A heartbeat and a milestone, or the answer, may follow one right after the other,
   against the floor "between any two user-facing posts" (`progress_crossed`).
6. `ToSlack` rewrites bold markers in URLs (`turn_urls`): a link to
   `https://host/a/__init__.py` leads to `https://host/a/*init*.py`.
7. With buttons, links are cut out of code, and runs of blanks collapsed in it, in
   the section that Slack shows (`turn_code`).

Observed while modelling, with no run of their own:

* `EnqueuedAt` is rewritten at each replay (`sessionqueue.go:187`), so the
  30-minute cutoff of 39-41 measures the time since the last replay.
* A Redis read that times out makes a generic message hand the thread to Ross
  (`redis_store.go:50`), against "no ownership change" of rule 4.
* A marker whose removal failed makes a restart within 30 minutes run an
  answered message again (`sessionqueue.go:297-305` accepts it). So does, without
  any failure, a boot scan that comes upon the marker of a message which the same
  life has at work (453-504, 529-554): it is replayed beside its own delivery.
  `RunTwiceHasCause` shows that there is no third way.
* A grace of 0, or one shorter than Claude Code takes to release a session's lock
  (`sessionqueue.go:336-342`), costs the session's next message: it is refused, and
  the refusal swallowed (`session.go:138-142`).
* A fast failure that ran tools without a milestone is retried, where
  `spawnretry.go:21-23` says that a spawn which ran tools never is: milestones are
  all that the decision sees.
* An event recorded after the final drain of `engagement` stays in its channel
  without a log line; `OnePlace` counts that as a place.
* A directory or a file that `LoadMarkers` cannot read for the moment
  (`resume.go:121-128, 150-167`) delays its turns to the next boot; the model's
  failing operations are writes and removals.
* `tracker.go:12-14` refuses a hop back to the agent the last hop came *from*;
  the code (234) compares with the agent it went *to*. `TallyMatches` states what
  the code does.
* `routing.go:48-51` and `71-73` ask callers to write the new owner only when
  they respond; `dispatcher.go:138` writes always, and `RoutedAsRuled` depends
  on it.
* `statusroute` posts a heartbeat for the ticks of a DM's loops where its
  comments (24-31) and `pinger.go:76-77` say that none is posted.
* After a turn without an answer a heartbeat may still be posted, when the
  select prefers the timer to `done` (`pinger.go:106-116`).
* A line of output over 8 MiB ends the reading (`streaming.go:91`), and with it the
  final text is lost: `AnswerSurvivesNoise` excepts it.
* Without `$HOME` a session that exists is begun anew (`session.go:127-136`); the
  CLI refuses that in the words `IsLockRace` looks for, and the message is
  swallowed.
* The replay context is one file per workspace (`resume.go:204`), so the second of
  two replays overwrites the first one's, and a live turn may read it.
* A value of the wrong type in `settings.json` discards the other key as well, where
  `spawnsettings.go:147-149` has the keys independent: `KeysApart` excepts it.
* `channelcontext.go:234-237` speaks of the thread's messages as verbatim, and they
  are compacted and cut; a thread of more than a page is shown up to the page; a
  message of the thread with only a file has no line. `PreambleIsWhole` excepts
  the last two.
* `bot-handoff` leaves with 1, not with its usage status, for an empty key or a blob
  that is too large.
* Inline code in a heading is rewritten (`mrkdwn.go:59-65` against 18), which
  `CodeUntouched` excepts. Only the first card of a text is taken out, so a second one
  stays as JSON, which `NoJSONWall` excepts. Slack's limit on the text of a section is
  not looked at by the code, nor by the model.

## Proofs

TLC answers for the instances above. The theorems below hold for every set of
calls, keys, messages, threads and agents' requests, and for every value of the
other constants that satisfies the assumptions their modules name. No theorem
assumes anything of sizes. Three have a hypothesis, which is a condition on the
deployment:

| hypothesis | says | why it is there |
|---|---|---|
| `OneTracker` | all calls use one tracker | with the two trackers of the two binaries the caps do not hold: run `handoff_two_pods` |
| `HomeKnown` | `$HOME` is set | without it each session looks new (`session.go:127-136`), the CLI refuses the one that exists, and a message is dropped with no lock about |
| `FailuresAreFast` | all attempts but the last, failing fast, take less than the opening interval | otherwise the heartbeat of one attempt is in the channel before the next; with the code's 10 s (`spawnretry.go`) and four minutes (`pinger.go`) it holds for pools of up to 24 slots |

An invariant is proved from an inductive one, `Inv` of its proof module unless
another name is given: `Init => Inv`, `Inv /\ [Next]_vars => Inv'` by one lemma for
each action or group of actions, and `Inv => property`. TLC has checked each of them
on the instance of the module's run.

| module | theorem | of |
|---|---|---|
| `SessionQueueProofs` | `QueueInvariant`, `TypesHold`, `Serialization`, `WaitersAreServed`, `QuietQueueIsClean` | `QueueInv`, `TypeOK`, `OneDrainPerSession`, `NoStrandedWaiter`, `QuietIsClean` |
| | `QueueIsSerial` | `Spec => SerialSpec` |
| | `NothingIsLost`, `RunsAreUnique` (of `QueueRecovery`) | `NoSilentLoss`, `RunTwiceHasCause` |
| `ThreadRoutingProofs` | `RulesAreFollowed`, `StoreIsFollowed`, `RossCoversTheThread` | `RoutedAsRuled`, `StoreFollowsMentions`, `RossCovers` |
| `HandoffTrackerProofs` | `CapsAreKept`, `TallyIsKept` (`OneTracker`) | `CapsHold`, `TallyMatches` |
| `EngagementProofs` | `EventsKeepOnePlace`, `CloseLeavesNothing` | `OnePlace`, `CloseFlushes` |
| `OwnerModeProofs` | `OwnerTypes`, `InvitedOnly` | `TypeOK`, `OnlyInvited` |
| | `AdmissionIsSerial` | `Spec => RulesSpec` |
| `ProgressProofs` | `SilenceIsBounded`, `AnswerSurvives`, `PostsAreApart`, `AnswerIsLast`, `RetriesStartUnseen` (`FailuresAreFast`) | `SilenceBounded`, `AnswerSurvivesNoise`, `PostsApart`, `NothingAfterAnswer`, `NoDuplicateOutput` |
| `ResumeProofs` | `InterruptsAreReplayed`, `RunsAreCounted`, `TurnsKeepTheirSession`, `OnlyALockDrops` (`HomeKnown`) | `InterruptedIsReplayed`, `RunsOncePerInterrupt`, `ResumesOwnTranscript`, `DroppedOnlyForALock` |
| `TurnProofs` | `SettingsArePinned`, `PreambleHasAll`, `ReadsAreOwn`, `LimitedSlotsRest`, `FailoverCompletes` | `SettingsAsPinned`, `PreambleIsWhole`, `ReadsOwnLatest`, `LimitedSlotRests`, `FailoverIsComplete` |
| | `AnswersAreWhole`, `SlackTakesAnswers` | `AnswerIsWhole`, `SlackTakesIt` |

### The session queue

`OneDrainPerSession` is not inductive: a state with one goroutine serving a
session, and another call holding an orphaned queue it is about to flag, satisfies
it and leads to a violation. `QueueInv` adds what excludes such a state:

* `PhaseInv`: how far a call has come bounds what refers to its queue, and a
  drain exists only once its call is over;
* `SameSession`: a queue serves one session;
* `MapLocked`: between lookup and append, and between the collector's two
  tests, `q.mu` is held and the map entry is the one that was read. This is what
  the nesting of the locks buys, and what `LookUpSession_Unlocks` breaks;
* `ServerOwns`: a serving goroutine works on the queue the map names and owns its
  flag, and no two serve one queue;
* `WaitersServed`: waiters imply the flag, the flag implies a server;
* `InflightCounts`: the WaitGroup counts the goroutines alive.

`QuietIsClean` and the refinement also need to know where each message is: waiting,
in one drain's lists and in one place of them, or answered, and indexed
until its drain forgets it. The proof module has these invariants beside
`QueueInv`. In the refinement a batch of `SerialSession` is taken at `EndTake`; the
hard step is `PartitionOne`, which reads a flag without a lock: the lists it
fills are, at every moment of the loop, the waiting list up to where the loop is,
with and without the cancelled.

### The queue over kills and restarts

`NoSilentLoss` needs to know that a marker is only taken by a drain that holds its
message (`LocalInv`), and that what is purged as stale has waited since its
arrival, though its stamp may be of a later replay (`TimeInv`). For
`RunTwiceHasCause`: a key is worked on once in a life, by its live call or by one
replay, unless the scan read its marker beside the live call (`OnceInv`), the
markers of a batch are gone before it is run, unless their removal failed
(`UnmarkedInv`), and what was run is neither on disk nor in work again but for those
keys (`RunInv`). A file that the scan has read is of a message that arrived in an
earlier life, or is at work in this one and then in `readLive`.

### The routing of a thread

Any number of messages may be in hand, so the invariants speak of `before`, the
messages dealt with when one was posted (`OrderInv`): what a store holds is what
it held at the start or what some message made it, with no later mention written
(`StoreInv`, for a mention that was posted when that message was dealt with), and a
handler that has read has read an owner that the rules allow its message
(`StateInv`). `NoneInv` keeps apart a thread that has no record yet from one whose
read failed. `RoutedInv` carries the decisions. `RossInv` is the same with failures,
for a thread that was never Joanne's.

### The caps of the handoffs

A cap bounds the admissions, and the code counts entries of the file it read, so the
invariant ties the two: for every time, a thread's hops after it are as many as
its admissions after it (`CountInv`, which carries the sliding window), the daily
counter is that day's admissions (`DailyInv`), the call that has the mutex has read
the file as it is (`HoldInv`), and what it has written is that with its own hop,
for which there was room (`WrittenInv`). Failed reads, writes and renames are
covered.

### The recorder, the pings, the interrupted turns

* `EngagementProofs`: the lists repeat nothing, overlap nowhere, and together with
  the events given up are those whose `Record` has returned (`PlaceInv`); from the
  last flush on, no early event is left in the channel (`CloseInv`).
* `ProgressProofs`: `LastPostedAt` is the last of all posts, the timer with
  the time since the last line is at least an interval, and what is on its way was
  tested against every post that was out by then (`ApartInv`); the timer
  with the time since the last post is at most a gap and the longest backstop
  interval (`SilentInv`); while another attempt may follow, the first timer still runs
  (`EarlyInv`, for `NoDuplicateOutput` alone). The durations enter only by their
  order, as `DurationAssumption` has it from `pinger.go:40-57`.
* `ResumeProofs`: a marker on disk is that of an interrupted turn, there is one of
  it over both layouts, and the boot has found it (`MarkerInv`, `ReplayInv`); the
  balance of runs and interrupts is that of where the turn is (`RunInv`); a session
  file has the key of whoever began it (`SessionInv`); two turns of the queue
  in one conversation exclude each other, and when `covered` each other's locks
  (`LiveInv`).

### The owner modes

`HandlerInv` makes `OnlyInvited` inductive: a handler between its read and its
write carries a verdict that was right when it was reached and that no step of
another handler can make wrong, since calls are never forgotten (`CallsStay`).
For `RulesSpec`, `VerdictInv` says which verdicts the rules may give to a message
that is still to be written, whatever the claims become meanwhile; a message is dealt
with at its read if it changes no claim and at its write if it does
(`ResolveRefines`, `PersistRefines`, `OthersRefine`).

### A turn

`TurnInv` has a part for each phase, and says that a phase finds its state as the
one before has put it back.

* `PoolInv`: the slots tried are as many as the attempts begun, and none is there
  twice. With it, a pool that has no slot left to offer is one in which each was
  tried or is limited. A rotation that starts anywhere passes every slot (`Lap`),
  so the first that fits is one that fits (`FirstOfIsOne`).
* `ContextInv`: messages are numbered apart, and what the first call counted is
  still there at the second.
* `PadInv`: what a channel's key holds is among what its readers may find, whatever
  the commands of other channels do.
* The settings and the reply keep no state: their properties are lemmas about
  `Resolve` for every configuration, and about `Reply` for every text. Each item
  of a line keeps its place in the translation (`TranslatedLine`, `SentItem`) and
  in the section (`StrippedLines`), and the prose beside a card is lines from
  outside of its fences (`ProseIs`).
  `ReplyAssumption` has a section and all rows of buttons fit in a message, which
  the code's 50, 5 and 25 do.

### Only model-checked

* Everything under fairness: `EveryMessageAnswered`, `CancelledWaiterIsStopped`,
  `SurvivorIsAnswered`, and the liveness properties of `Engagement`, `Progress` and
  `Resume`. Liveness and `ENABLED` are outside what the installed provers do.
* That `FromEnviron` and the other definitions over sequences compute what the code
  does is a matter of reading; nothing is proved about the folds of the community
  modules (`LinkCount`), of which the theorems use no more than the cap on it.

## Not modelled, and the plan

Of the safety properties that the runs check, each has a theorem; what the plan has
left is what `partly` in `PROJECT.json` names.

Not modelled:

* `replypolicy` is a prompt text. The catalog of `silentnarration`, the phrases,
  the table of tools of `streaming`, and the regular expressions are data: the
  models start where something has been recognised.
* `sessionqueue`'s helpers for tests, `oauthpool`'s views of its list (`Size`,
  `Labels`, `HasAlternate`), the redaction of previews, and audit logging.
* `ParseChannelLocks`, and the agents' hooks for channel policy, pre-gates and
  dedupe: what they answer is an input of `gate` and `harness`.
* The replay context that `resume` leaves for the prompt, and the recognition of
  mentions in a text by `ownergate`.
* A roll-back to an earlier persona: deploys of `Resume` keep the persona or bring a
  new one. A Redis command that takes effect after later ones: in `Scratchpad` it
  takes effect when it is sent or not at all. An error of reading `settings.json` other
  than its absence counts as absence, as it does in the code.
* Outside `src/`: the agents' Runner and handler, their ingress, the CLI, Slack,
  Redis; as far as the code relies on them, they are the external steps of the
  models.
