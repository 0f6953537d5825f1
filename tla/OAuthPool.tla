------------------------------ MODULE OAuthPool -----------------------------
(* The pool of OAuth slots (oauthpool) and the attempts of a spawn on them     *)
(* (spawnretry).  The cursor is shared by all spawns of the process, the       *)
(* cooldowns by those that share the Pool.  Each call is one critical section  *)
(* of Pool.mu, hence one step.                                                 *)
EXTENDS SpawnRetry, Sequences, SequencesExt, FiniteSetsExt

CONSTANTS
    SlotNumber, \* the numbers of the token variables an environment may set
    NoSlot,     \* the spawn without a pool token
    Limits,     \* how far ahead a limit that is reported may lie
    MaxEvents   \* bound: calls of other spawns and ticks during a turn

ASSUME SlotAssumption ==
    /\ SlotNumber \subseteq Nat /\ IsFiniteSet(SlotNumber) /\ NoSlot \notin SlotNumber
    /\ Limits \subseteq Int /\ MaxEvents \in Nat

VARIABLES
    environ,    \* the provider keys that the process's environment has
    slots,      \* the populated slots, in the order of their numbers
    counter,    \* the shared cursor, modulo the number of slots
    cooldown,   \* for how long each slot is limited, 0 if it is not in the map
    spawn,      \* where the attempt is: "pick", "running", "exited" or "over"
    maxAttempts,\* Decision.MaxAttempts: the pool's size, or 0 when unset
    attempt,    \* index of the attempt
    slot,       \* its slot
    tried,      \* the slots the turn has tried
    exit,       \* how it ended, what it posted, how fast it was
    events      \* calls of other spawns and ticks so far

spawnVars == <<environ, maxAttempts, attempt, slot, tried, exit>>
poolVars == <<slots, counter, cooldown, spawn, spawnVars, events>>

ProviderKeys == {"ANTHROPIC_API_KEY", "ANTHROPIC_AUTH_TOKEN"}

PoolTypeOK ==
    /\ environ \subseteq ProviderKeys
    /\ ToSet(slots) \subseteq SlotNumber /\ IsInjective(slots)
    /\ counter \in Nat /\ (slots # << >> => counter < Len(slots))
    /\ cooldown \in [SlotNumber -> Nat]
    /\ spawn \in {"pick", "running", "exited", "over"}
    /\ maxAttempts \in {0, Len(slots)} /\ attempt \in 0..Cardinality(SlotNumber)
    /\ slot \in SlotNumber \cup {NoSlot} /\ tried \subseteq ToSet(slots)
    /\ exit \in [how : Exits, posted : BOOLEAN, fast : BOOLEAN]
    /\ events \in 0..MaxEvents

\* fromEnviron: the populated variables, sorted by number; every environment.
FromEnviron ==
    {s \in UNION {[1..n -> SlotNumber] : n \in 0..Cardinality(SlotNumber)} :
        \A i, j \in DOMAIN s : i < j => s[i] < s[j]}

\* scrub.
Scrub(env) == env \ ProviderKeys

\* The slot that pays: the CLI prefers a provider key to the token (external).
Credential == IF Scrub(environ) # {} THEN NoSlot ELSE slot

(* ------------------------------- the pool -------------------------------- *)

\* The slots from the cursor on, once around.
Rotation == [i \in 1..Len(slots) |-> slots[((counter + i - 1) % Len(slots)) + 1]]

Cooling(s) == cooldown[s] > 0

\* The first of some slots, from the cursor on.
FirstOf(some) == Rotation[Min({i \in DOMAIN Rotation : Rotation[i] \in some})]

\* Mutant: the probe stops at the end of the list instead of going around.
NextSlot_NoWrap ==
    LET free == {s \in ToSet(SubSeq(slots, counter + 1, Len(slots))) : ~Cooling(s)}
    IN  IF slots = << >> THEN NoSlot
        ELSE IF free # {} THEN FirstOf(free) ELSE Head(Rotation)

\* Next: the first slot in rotation that is not cooling, and if all are, the
\* first of those that recover soonest.
NextSlot ==
    LET free == {s \in ToSet(slots) : ~Cooling(s)}
        soonest == {s \in ToSet(slots) :
                      \A t \in ToSet(slots) : cooldown[s] <= cooldown[t]}
    IN  IF slots = << >> THEN NoSlot
        ELSE IF free # {} THEN FirstOf(free) ELSE FirstOf(soonest)

\* Next advances the cursor by one, whichever slot it returns.
Advance == counter' = IF slots = << >> THEN counter ELSE (counter + 1) % Len(slots)

\* Others(tried): where a failed spawn may go next.
Others == {s \in ToSet(slots) : s \notin tried /\ ~Cooling(s)}

\* MarkLimited: a time that is not ahead clears the cooldown.
MarkLimited(s, ahead) ==
    cooldown' = [cooldown EXCEPT ![s] = IF ahead > 0 THEN ahead ELSE 0]

(* ------------------------------ the attempts ----------------------------- *)

\* Next for the first attempt; the slot of a retry is known by then.
Start ==
    /\ spawn = "pick"
    /\ IF attempt = 0
       THEN slot' = NextSlot /\ Advance
       ELSE UNCHANGED <<slot, counter>>
    /\ tried' = (tried \cup {slot'}) \ {NoSlot}
    /\ spawn' = "running"
    /\ UNCHANGED <<environ, slots, cooldown, maxAttempts, attempt, exit, events>>

\* The process exits.
Exit ==
    /\ spawn = "running"
    /\ spawn' = "exited"
    /\ exit' \in [how : Exits, posted : BOOLEAN, fast : BOOLEAN]
    /\ UNCHANGED <<environ, slots, counter, cooldown, maxAttempts, attempt, slot,
                   tried, events>>

\* The handler looks at the failure: once more on the first slot that Others
\* offers, or on to the answer or notice.
Decide ==
    /\ spawn = "exited"
    /\ IF ShouldRetry(Decision(attempt, maxAttempts, exit.how, exit.posted,
                               Others # {}, exit.fast))
       THEN spawn' = "pick" /\ attempt' = attempt + 1 /\ slot' = FirstOf(Others)
       ELSE spawn' = "over" /\ UNCHANGED <<attempt, slot>>
    /\ UNCHANGED <<environ, slots, counter, cooldown, maxAttempts, tried, exit, events>>

Elsewhere == events < MaxEvents /\ spawn # "over" /\ events' = events + 1

\* A limit is reported: of this attempt's slot before the decision, or of any slot
\* by another spawn.
ReportLimit(s) ==
    /\ Elsewhere
    /\ \E ahead \in Limits : MarkLimited(s, ahead)
    /\ UNCHANGED <<slots, counter, spawn, spawnVars>>

\* Another spawn draws its slot.
OtherDraw == Elsewhere /\ Advance /\ UNCHANGED <<slots, cooldown, spawn, spawnVars>>

\* Cooldowns run down.
Tick ==
    /\ Elsewhere
    /\ cooldown' = [s \in SlotNumber |-> IF Cooling(s) THEN cooldown[s] - 1 ELSE 0]
    /\ UNCHANGED <<slots, counter, spawn, spawnVars>>

NoExit == [how |-> "clean", posted |-> FALSE, fast |-> FALSE]

\* No turn runs.
PoolInit ==
    /\ environ = {} /\ slots = << >> /\ counter = 0 /\ spawn = "over"
    /\ cooldown = [s \in SlotNumber |-> 0] /\ maxAttempts = 0 /\ attempt = 0
    /\ slot = NoSlot /\ tried = {} /\ events = 0 /\ exit = NoExit

\* A Pool is built for the turn; other spawns have left the cursor anywhere.
BeginSpawn ==
    /\ environ' \in SUBSET ProviderKeys
    /\ slots' \in FromEnviron
    /\ counter' \in 0..(IF slots' = << >> THEN 0 ELSE Len(slots') - 1)
    /\ maxAttempts' \in {0, Len(slots')}
    /\ spawn' = "pick"
    /\ UNCHANGED <<cooldown, attempt, slot, tried, events, exit>>

\* Its Pool and its locals go out of scope.
EndSpawn ==
    /\ environ' = {} /\ slots' = << >> /\ counter' = 0 /\ UNCHANGED spawn
    /\ cooldown' = [s \in SlotNumber |-> 0] /\ maxAttempts' = 0 /\ attempt' = 0
    /\ slot' = NoSlot /\ tried' = {} /\ events' = 0 /\ exit' = NoExit

PoolStep ==
    \/ Start \/ Exit \/ Decide \/ OtherDraw \/ Tick
    \/ \E s \in ToSet(slots) : ReportLimit(s)

(* ----------------------------- properties -------------------------------- *)

\* An attempt goes to a limited slot only when no slot was free, and then to none
\* that recovers later than another (oauthpool.go:125-131, 160-165); it is paid for
\* by that slot's token, whatever provider keys were left in the pod's environment
\* (oauthpool.go:222-228).
LimitedSlotRests ==
    [][slot' \notin {slot, NoSlot} =>
          /\ \A s \in ToSet(slots) \ tried :
                Cooling(slot') => cooldown[s] >= cooldown[slot']
          /\ Credential' = slot']_poolVars

\* A turn never comes back to a slot, whatever other spawns do to the cursor and the
\* cooldowns in between, and a caller that passes the pool's size shows the user a
\* fast and silent failure only when every slot was tried or is limited
\* (spawnretry.go:13-17, 28-37; oauthpool.go:160-165).
FailoverIsComplete ==
    [][/\ Decide /\ spawn' = "pick" => slot' \notin tried
       /\ Decide /\ spawn' = "over" /\ maxAttempts = Len(slots)
          /\ exit = [how |-> "failed", posted |-> FALSE, fast |-> TRUE] =>
            \A s \in ToSet(slots) : s \in tried \/ Cooling(s)]_poolVars

=============================================================================
