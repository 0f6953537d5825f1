---------------------------- MODULE ThreadRouting ---------------------------
(* Which of the two fleet agents answers a message of a Slack thread: the      *)
(* default mode of gate.Decide over threadowner.DecideWithLock, with the       *)
(* ownership store read before the decision and written after it.  Slack       *)
(* delivers every message of the thread to both agents; dispatchMessage takes  *)
(* no lock, so an agent's deliveries, too, are handled at once and in any      *)
(* order.                                                                      *)
EXTENDS Integers, Sequences, FiniteSets

CONSTANTS
    Ross, Joanne,   \* the agents
    None,           \* no owner
    Settings,       \* the deployments and users considered, see Setting
    MaxMsg          \* bound: messages in the thread

Agent == {Ross, Joanne}

\* One Redis for both agents or a file each; the owner the channel is locked to;
\* the ways in which the store may fail; how many messages are written at most.
Setting == [shared : BOOLEAN, lock : Agent \cup {None},
            faults : SUBSET {"read", "write", "expiry"}, length : 1..MaxMsg]

ASSUME AgentAssumption == Ross # Joanne /\ None \notin Agent
ASSUME SettingAssumption == Settings \subseteq Setting /\ MaxMsg \in Nat

VARIABLES
    setting,    \* the setting of this behaviour
    fresh,      \* whether the thread starts with the first message posted
    inherited,  \* the owner recorded before that, None if there is none
    posted,     \* the agents each message of the thread @-mentions
    before,     \* the messages both agents had dealt with when each was posted
    pc,         \* per agent and message: "new", "resolved" after the read, "done"
    state,      \* gate.State.CurrentOwner as each handler read it, None if !HasOwner
    store,      \* the thread's recorded owner, in the shared store and in each file
    routed      \* the agents that handed each message to their spawn wiring

vars == <<setting, fresh, inherited, posted, before, pc, state, store, routed>>

Msg == 1..MaxMsg
Lock == setting.lock
Replica == Agent \cup {"redis"}
ReplicaOf(a) == IF setting.shared THEN "redis" ELSE a

TypeOK ==
    /\ setting \in Settings
    /\ fresh \in BOOLEAN
    /\ inherited \in Agent \cup {None}
    /\ posted \in Seq(SUBSET Agent) /\ Len(posted) <= MaxMsg
    /\ before \in [Msg -> SUBSET Msg]
    /\ pc \in [Agent -> [Msg -> {"new", "resolved", "done"}]]
    /\ state \in [Agent -> [Msg -> Agent \cup {None}]]
    /\ store \in [Replica -> Agent \cup {None}]
    /\ routed \in [Msg -> SUBSET Agent]

\* A new thread, or one that goes on: it may predate the feature, or the lock.
Init ==
    /\ setting \in Settings
    /\ fresh \in BOOLEAN
    /\ inherited \in Agent \cup {None}
    /\ fresh => inherited = None
    /\ posted = << >>
    /\ before = [m \in Msg |-> {}]
    /\ pc = [a \in Agent |-> [m \in Msg |-> "new"]]
    /\ state = [a \in Agent |-> [m \in Msg |-> None]]
    /\ store = [r \in Replica |-> inherited]
    /\ routed = [m \in Msg |-> {}]

(* ------------------------- the routing rule ------------------------------ *)

Other(me) == IF me = Ross THEN Joanne ELSE Ross

\* Mutant: without an owner, each agent records itself.
Decide_EachOwnsIt(me, owner, mentions, isNewThread) ==
    CASE mentions = Agent -> [respond |-> TRUE, newOwner |-> Ross]
      [] mentions = {Other(me)} -> [respond |-> FALSE, newOwner |-> Other(me)]
      [] mentions = {me} -> [respond |-> TRUE, newOwner |-> me]
      [] OTHER -> IF isNewThread \/ owner = None
                  THEN [respond |-> me = Ross, newOwner |-> me]
                  ELSE [respond |-> owner = me, newOwner |-> None]

\* Decide: newOwner = None is the empty string, no change.
Decide(me, owner, mentions, isNewThread) ==
    CASE mentions = Agent -> [respond |-> TRUE, newOwner |-> Ross]
      [] mentions = {Other(me)} -> [respond |-> FALSE, newOwner |-> Other(me)]
      [] mentions = {me} -> [respond |-> TRUE, newOwner |-> me]
      [] OTHER -> IF isNewThread \/ owner = None
                  THEN [respond |-> me = Ross, newOwner |-> Ross]
                  ELSE [respond |-> owner = me, newOwner |-> None]

\* Mutant: a recorded owner goes before the lock.
DecideWithLock_RecordedFirst(me, owner, mentions, isNewThread) ==
    IF Lock = None \/ owner # None
    THEN Decide(me, owner, mentions, isNewThread)
    ELSE [respond |-> me \in mentions \/ (mentions = {} /\ me = Lock),
          newOwner |-> Lock]

\* A locked channel keeps its owner; a mention only adds a responder.
DecideWithLock(me, owner, mentions, isNewThread) ==
    IF Lock = None
    THEN Decide(me, owner, mentions, isNewThread)
    ELSE [respond |-> me \in mentions \/ (mentions = {} /\ me = Lock),
          newOwner |-> Lock]

(* ------------------------------ actions ---------------------------------- *)

InThread == 1..Len(posted)
Handled == {m \in Msg : \A a \in Agent : pc[a][m] = "done"}

\* A user writes in the thread.
Post(mentions) ==
    /\ Len(posted) < setting.length
    /\ posted' = Append(posted, mentions)
    /\ before' = [before EXCEPT ![Len(posted) + 1] = Handled]
    /\ UNCHANGED <<setting, fresh, inherited, pc, state, store, routed>>

\* The message that starts a thread has no thread timestamp.
IsNewThread(m) == fresh /\ m = 1

\* What Get may return for message m: the recorded owner, None if there is none
\* or the read fails.  The message that starts a thread looks up the channel root,
\* which is never written.
Get(a, m) ==
    {IF IsNewThread(m) THEN None ELSE store[ReplicaOf(a)]}
        \cup (IF "read" \in setting.faults THEN {None} ELSE {})

\* resolveState reads the recorded owner.
ResolveState(a, m) ==
    /\ m \in InThread
    /\ pc[a][m] = "new"
    /\ \E id \in Get(a, m) : state' = [state EXCEPT ![a][m] = id]
    /\ pc' = [pc EXCEPT ![a][m] = "resolved"]
    /\ UNCHANGED <<setting, fresh, inherited, posted, before, store, routed>>

\* Set; a write that fails leaves the old owner.
Set(a, owner) ==
    \/ store' = [store EXCEPT ![ReplicaOf(a)] = owner]
    \/ "write" \in setting.faults /\ UNCHANGED store

\* gate.Decide in the default mode, without a channel policy.
DecideDefault(a, m) == DecideWithLock(a, state[a][m], posted[m], IsNewThread(m))

\* Mutant: what the routing comment expects of the callers, a write on respond
\* only.
PersistOwnership_OnRespond(a, dec) ==
    IF dec.respond /\ dec.newOwner # None THEN Set(a, dec.newOwner) ELSE UNCHANGED store

\* persistOwnership writes the new owner whether or not the agent responds; a
\* failed write is logged.
PersistOwnership(a, dec) ==
    IF dec.newOwner # None THEN Set(a, dec.newOwner) ELSE UNCHANGED store

\* gate.Decide, persistOwnership, then Route or drop; every message has text or a
\* file.
DispatchMessage(a, m) ==
    LET dec == DecideDefault(a, m)
    IN  /\ pc[a][m] = "resolved"
        /\ PersistOwnership(a, dec)
        /\ routed' = IF dec.respond THEN [routed EXCEPT ![m] = @ \cup {a}]
                                    ELSE routed
        /\ pc' = [pc EXCEPT ![a][m] = "done"]
        /\ state' = [state EXCEPT ![a][m] = None]
        /\ UNCHANGED <<setting, fresh, inherited, posted, before>>

\* Redis drops the record, 30 days after it was last written.
Expire ==
    /\ "expiry" \in setting.faults
    /\ setting.shared
    /\ store["redis"] # None
    /\ store' = [store EXCEPT !["redis"] = None]
    /\ UNCHANGED <<setting, fresh, inherited, posted, before, pc, state, routed>>

Finished == Handled = 1..setting.length /\ UNCHANGED vars

Next ==
    \/ \E mentions \in SUBSET Agent : Post(mentions)
    \/ \E a \in Agent, m \in Msg : ResolveState(a, m) \/ DispatchMessage(a, m)
    \/ Expire
    \/ Finished

Spec == Init /\ [][Next]_vars

(* ----------------------------- properties -------------------------------- *)

\* The owner a message makes, if it makes one: Ross, unless it mentions Joanne alone.
Given(i) == IF posted[i] = {Joanne} THEN Joanne ELSE Ross

\* A message that records an owner: by its mentions, or because it may find none.
Writes(i) == posted[i] # {} \/ (before[i] = {} /\ inherited = None)

Mentions(set) == {j \in set : posted[j] # {}}

\* What the rules allow the record to be for one who comes after the messages in
\* past, beside those in all: made by a message that no mention of past came after,
\* or, as long as past has no mention, what it was at the start.
MayBeRecorded(past, all) ==
    {Given(i) : i \in {w \in all : Writes(w) /\ \A j \in Mentions(past) : w \notin before[j]}}
        \cup {o \in {IF inherited = None THEN Ross ELSE inherited} : Mentions(past) = {}}

\* The owners that message m may be routed by, when it mentions nobody.  There is
\* one, if m and the last mention before it overlap with no mention.
MayOwn(m) ==
    IF Lock # None THEN {Lock}
    ELSE IF IsNewThread(m) THEN {Ross}
    ELSE MayBeRecorded(before[m], {i \in InThread : m \notin before[i]})

\* The rules for agent a: it answers what mentions it, not what mentions the other
\* one alone, and what mentions nobody if it owns the thread (routing.go:28-36,
\* 89-98; store.go:3-7).
FollowsRules(a, m) ==
    IF posted[m] # {} THEN a \in routed[m] <=> a \in posted[m]
    ELSE \E owner \in MayOwn(m) : a \in routed[m] <=> owner = a

\* The state is well typed, and in a locked channel, or with stores that do not
\* fail, each agent deciding on its own follows the rules, for an owner that was
\* made before the message or while it was handled: what a mention has settled
\* stays settled (dispatcher.go:135-138).
RoutedAsRuled ==
    /\ TypeOK
    /\ (Lock # None \/ setting.faults = {}) =>
          \A a \in Agent, m \in InThread : pc[a][m] = "done" => FollowsRules(a, m)

\* Without failures, once both agents have dealt with every message, each store in
\* use names an owner made by a message that no mention came after, however the
\* handlers overlapped: the last mention, if none was posted while another was being
\* handled (routing.go:28-36; dispatcher.go:170-189).
StoreFollowsMentions ==
    setting.faults = {} /\ InThread = Handled /\ posted # << >> =>
        \A a \in Agent :
            store[ReplicaOf(a)] \in IF Lock # None THEN {Lock}
                                    ELSE MayBeRecorded(InThread, InThread)

\* Failing open: in a thread Joanne was never given, Ross answers every message,
\* and he alone, however reads and writes of the owner fail and whenever its record
\* expires.  The default is one agent's, and no fault makes it the other's
\* (redis_store.go:20-30, 51-59; routing.go:28-36).
RossCovers ==
    (Lock = None /\ inherited # Joanne /\ \A m \in InThread : Joanne \notin posted[m])
        => \A m \in Handled : routed[m] = {Ross}

\* What the comment of Decide says of a message without a mention: it is routed to
\* the current owner only (routing.go:33).
GenericToOneAgent ==
    \A m \in Handled : posted[m] = {} => Cardinality(routed[m]) = 1

=============================================================================
