--------------------------- MODULE HandoffTracker ---------------------------
(* handoff.Tracker: AdmitOrDrop's caps on cross-agent handoffs, a read-modify- *)
(* write of one state file under the tracker's mutex.  Calls run concurrently, *)
(* on one tracker or on the trackers of the two binaries, which the package    *)
(* says share the file.                                                        *)
EXTENDS Integers, Sequences, FiniteSets

CONSTANTS
    Call,               \* AdmitOrDrop calls
    Tracker,            \* trackers, all over the same workspace
    Thread,             \* threadKey values
    Ross, Joanne,       \* the agents' bot ids
    None,               \* nil
    MaxHopsPerThread, MaxSpawnsPerThread, MaxSpawnsPerDay,
    HopWindow,          \* in ticks
    DayLength,          \* ticks between two midnights UTC
    DiskFails,          \* TRUE if load and save may return an error
    MaxTime             \* bound: the clock stops there

Agent == {Ross, Joanne}

ASSUME CallAssumption == None \notin Call /\ Ross # Joanne
ASSUME CapAssumption ==
    /\ {MaxHopsPerThread, MaxSpawnsPerThread, MaxSpawnsPerDay} \subseteq Nat
    /\ HopWindow \in Nat /\ DayLength \in Nat \ {0}
    /\ DiskFails \in BOOLEAN /\ MaxTime \in Nat

VARIABLES
    now,        \* wall clock
    killSwitch, \* the flag file exists
    file,       \* handoffs.json
    tmp,        \* handoffs.json.tmp, None if there is none
    mu,         \* holder of each tracker's mutex
    pc,         \* where each call is
    tracker,    \* the tracker a call was made on
    args,       \* a call's `to` and thread
    loaded,     \* the state a call read from the file
    at,         \* the clock an admitted call was judged by
    outcome     \* what a call returned

vars == <<now, killSwitch, file, tmp, mu, pc, tracker, args, loaded, at, outcome>>

Time == 0..MaxTime
Day(t) == t \div DayLength

From(to) == IF to = Ross THEN Joanne ELSE Ross

Hop == [from : Agent, to : Agent, at : Time]
Drop == {"kill_switch", "hop_cap", "thread_spawn_ceiling", "global_daily_ceiling",
         "cycle_detect"}
NoDay == -1
State == [threads : [Thread -> Seq(Hop)],
          globalDailyKey : {NoDay} \cup {Day(t) : t \in Time},
          globalDailyN : Nat]
ZeroState == [threads |-> [th \in Thread |-> << >>], globalDailyKey |-> NoDay,
              globalDailyN |-> 0]

TypeOK ==
    /\ now \in Time
    /\ killSwitch \in BOOLEAN
    /\ file \in State
    /\ tmp \in State \cup {None}
    /\ mu \in [Tracker -> Call \cup {None}]
    /\ pc \in [Call -> {"idle", "locked", "loaded", "written", "returned"}]
    /\ tracker \in [Call -> Tracker \cup {None}]
    /\ args \in [Call -> [to : Agent, thread : Thread] \cup {None}]
    /\ loaded \in [Call -> State \cup {None}]
    /\ at \in [Call -> Time]
    /\ outcome \in [Call -> Drop \cup {"none", "admitted", "error"}]

Init ==
    /\ now = 0
    /\ killSwitch = FALSE
    /\ file = ZeroState
    /\ tmp = None
    /\ mu = [t \in Tracker |-> None]
    /\ pc = [c \in Call |-> "idle"]
    /\ tracker = [c \in Call |-> None]
    /\ args = [c \in Call |-> None]
    /\ loaded = [c \in Call |-> None]
    /\ at = [c \in Call |-> 0]
    /\ outcome = [c \in Call |-> "none"]

\* The deferred unlock, and the result; what a caller that is told to drop asked
\* for is of no interest any more.
Return(c, result) ==
    /\ outcome' = [outcome EXCEPT ![c] = result]
    /\ pc' = [pc EXCEPT ![c] = "returned"]
    /\ mu' = [mu EXCEPT ![tracker[c]] = None]
    /\ tracker' = [tracker EXCEPT ![c] = None]
    /\ args' = [args EXCEPT ![c] = IF result = "admitted" THEN @ ELSE None]

\* A peer bot's mention of this agent reaches AdmitOrDrop, which takes the mutex.
Begin(c) ==
    /\ pc[c] = "idle"
    /\ \E t \in Tracker, to \in Agent, th \in Thread :
          /\ mu[t] = None
          /\ mu' = [mu EXCEPT ![t] = c]
          /\ tracker' = [tracker EXCEPT ![c] = t]
          /\ args' = [args EXCEPT ![c] = [to |-> to, thread |-> th]]
    /\ pc' = [pc EXCEPT ![c] = "locked"]
    /\ UNCHANGED <<now, killSwitch, file, tmp, loaded, at, outcome>>

RefuseByKillSwitch(c) ==
    /\ pc[c] = "locked"
    /\ killSwitch
    /\ Return(c, "kill_switch")
    /\ UNCHANGED <<now, killSwitch, file, tmp, loaded, at>>

\* The flag is looked at once; then the file is read, which may fail.
Load(c) ==
    /\ pc[c] = "locked"
    /\ ~killSwitch
    /\ \/ /\ loaded' = [loaded EXCEPT ![c] = file]
          /\ pc' = [pc EXCEPT ![c] = "loaded"]
          /\ UNCHANGED <<mu, tracker, args, outcome>>
       \/ /\ DiskFails
          /\ Return(c, "error")
          /\ UNCHANGED loaded
    /\ UNCHANGED <<now, killSwitch, file, tmp, at>>

\* Mutant: the day is noted only with the first hop ever, so nothing is reset.
Today_NoReset(s) == [s EXCEPT !.globalDailyKey = Day(now)]

\* The daily counter starts over when the key is not today's.
Today(s) ==
    IF s.globalDailyKey = Day(now) THEN s
    ELSE [s EXCEPT !.globalDailyKey = Day(now), !.globalDailyN = 0]

Recent(hops) == {i \in 1..Len(hops) : hops[i].at > now - HopWindow}

\* Mutant: the ceilings are compared after the fact.
Verdict_OffByOne(s, to, th) ==
    LET hops == s.threads[th]
    IN  IF s.globalDailyN > MaxSpawnsPerDay THEN "global_daily_ceiling"
        ELSE IF Len(hops) > MaxSpawnsPerThread THEN "thread_spawn_ceiling"
        ELSE IF Cardinality(Recent(hops)) > MaxHopsPerThread THEN "hop_cap"
        ELSE IF hops # << >> /\ hops[Len(hops)].to = to THEN "cycle_detect"
        ELSE "admitted"

\* The checks, in the code's order.
Verdict(s, to, th) ==
    LET hops == s.threads[th]
    IN  IF s.globalDailyN >= MaxSpawnsPerDay THEN "global_daily_ceiling"
        ELSE IF Len(hops) >= MaxSpawnsPerThread THEN "thread_spawn_ceiling"
        ELSE IF Cardinality(Recent(hops)) >= MaxHopsPerThread THEN "hop_cap"
        ELSE IF hops # << >> /\ hops[Len(hops)].to = to THEN "cycle_detect"
        ELSE "admitted"

\* The state with the hop appended and counted.
WithHop(s, to, th) ==
    [s EXCEPT !.threads[th] = Append(@, [from |-> From(to), to |-> to, at |-> now]),
              !.globalDailyN = @ + 1]

Refuse(c) ==
    LET v == Verdict(Today(loaded[c]), args[c].to, args[c].thread)
    IN  /\ pc[c] = "loaded"
        /\ v # "admitted"
        /\ loaded' = [loaded EXCEPT ![c] = None]
        /\ Return(c, v)
        /\ UNCHANGED <<now, killSwitch, file, tmp, at>>

\* Admit: save writes the temporary file, or fails.
Admit(c) ==
    LET s == Today(loaded[c])
        new == WithHop(s, args[c].to, args[c].thread)
    IN  /\ pc[c] = "loaded"
        /\ Verdict(s, args[c].to, args[c].thread) = "admitted"
        /\ loaded' = [loaded EXCEPT ![c] = None]
        /\ \/ /\ tmp' = new
              /\ at' = [at EXCEPT ![c] = now]
              /\ pc' = [pc EXCEPT ![c] = "written"]
              /\ UNCHANGED <<mu, tracker, args, outcome>>
           \/ /\ DiskFails
              /\ Return(c, "error")
              /\ UNCHANGED <<tmp, at>>
        /\ UNCHANGED <<now, killSwitch, file>>

\* The rename puts whatever the temporary file holds by now in place; without
\* one it is an error.
Rename(c) ==
    /\ pc[c] = "written"
    /\ \/ /\ tmp # None
          /\ file' = tmp
          /\ tmp' = None
          /\ Return(c, "admitted")
          /\ UNCHANGED at
       \/ /\ tmp = None \/ DiskFails
          /\ Return(c, "error")
          /\ at' = [at EXCEPT ![c] = 0]
          /\ UNCHANGED <<file, tmp>>
    /\ UNCHANGED <<now, killSwitch, loaded>>

SetKillSwitch(engaged) ==
    /\ killSwitch' = engaged
    /\ UNCHANGED <<now, file, tmp, mu, pc, tracker, args, loaded, at, outcome>>

Tick ==
    /\ now < MaxTime
    /\ now' = now + 1
    /\ UNCHANGED <<killSwitch, file, tmp, mu, pc, tracker, args, loaded, at, outcome>>

AdmitOrDrop(c) ==
    Begin(c) \/ RefuseByKillSwitch(c) \/ Load(c) \/ Refuse(c) \/ Admit(c) \/ Rename(c)

Next ==
    \/ \E c \in Call : AdmitOrDrop(c)
    \/ \E engaged \in BOOLEAN : SetKillSwitch(engaged)
    \/ Tick

Spec == Init /\ [][Next]_vars

(* ----------------------------- properties -------------------------------- *)

\* The handoffs the callers were told to spawn for.
Admitted == {c \in Call : outcome[c] = "admitted"}
AdmittedIn(th) == {c \in Admitted : args[c].thread = th}

\* The three runaway guardrails, over the handoffs that really led to a spawn: at
\* most MaxHopsPerThread of a thread in any window, MaxSpawnsPerThread of a thread
\* in all, MaxSpawnsPerDay of all threads in a day (tracker.go:5-11).
CapsHold ==
    /\ \A th \in Thread, t \in Time :
          Cardinality({c \in AdmittedIn(th) : at[c] <= t /\ at[c] > t - HopWindow})
              <= MaxHopsPerThread
    /\ \A th \in Thread : Cardinality(AdmittedIn(th)) <= MaxSpawnsPerThread
    /\ \A t \in Time :
          Cardinality({c \in Admitted : Day(at[c]) = Day(t)}) <= MaxSpawnsPerDay

\* The state is well typed, no admitted handoff is forgotten and none is recorded
\* that was not admitted: when nobody is writing, the file's tally is that of the
\* admissions, no two in a row to one agent (tracker.go:85-87, 171-173, 227-237).
TallyMatches ==
    /\ TypeOK
    /\ (\A c \in Call : pc[c] # "written") =>
        /\ \A th \in Thread : Len(file.threads[th]) = Cardinality(AdmittedIn(th))
        /\ file.globalDailyN
             = Cardinality({c \in Admitted : Day(at[c]) = file.globalDailyKey})
        /\ \A th \in Thread : \A i \in 2..Len(file.threads[th]) :
              file.threads[th][i - 1].to # file.threads[th][i].to

=============================================================================
