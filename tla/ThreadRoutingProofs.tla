------------------------- MODULE ThreadRoutingProofs --------------------------
(* The two agents, deciding apart and each with several messages in hand,      *)
(* follow the rules of routing, for threads of any length and any settings of  *)
(* the deployment.                                                             *)
EXTENDS ThreadRouting, SequenceTheorems, TLAPS

\* No owner stands for Ross.
InEffect(owner) == IF owner = None THEN Ross ELSE owner

Working == setting.faults = {}

Done(a, m) == pc[a][m] = "done"

\* Users of one store.
Together(a, b) == ReplicaOf(a) = ReplicaOf(b)

\* Messages are handled after they are posted, and those that came before one were
\* dealt with by both agents.
OrderInv ==
    /\ fresh => inherited = None
    /\ \A j \in Msg : \A i \in before[j] :
          i \in Handled /\ i \in InThread /\ j \in InThread /\ i < j
    /\ \A m \in Msg \ InThread : routed[m] = {} /\ \A a \in Agent : pc[a][m] = "new"

\* While the stores work, no owner is recorded or read only in a thread that had
\* none, before its users have dealt with a message.
NoneInv ==
    Working => \A a \in Agent :
        /\ store[ReplicaOf(a)] = None => inherited = None /\ \A m \in Msg : ~Done(a, m)
        /\ \A m \in Msg : pc[a][m] = "resolved" =>
              /\ state[a][m] = None => inherited = None /\ before[m] = {}
              /\ state[a][m] # None => store[ReplicaOf(a)] # None

\* No mention, or none posted after i was dealt with, has been written to a's store.
NoMentionYet(a) ==
    \A j \in Mentions(InThread), b \in Agent : Together(a, b) => ~Done(b, j)
NoMentionSince(i, a) ==
    \A j \in Mentions(InThread), b \in Agent :
        i \in before[j] /\ Together(a, b) => ~Done(b, j)

\* While the stores work, a store holds what it held at the start or what some
\* message made it, with no later mention written.
StoreInv ==
    Working => \A a \in Agent :
        /\ Lock # None /\ (\E m \in Msg : Done(a, m)) => store[ReplicaOf(a)] = Lock
        /\ Lock = None =>
              \/ store[ReplicaOf(a)] = inherited /\ NoMentionYet(a)
              \/ \E i \in InThread : /\ Writes(i) /\ store[ReplicaOf(a)] = Given(i)
                                      /\ NoMentionSince(i, a)

\* An agent that decides without a mention to go by has read an owner that the
\* rules allow.
StateInv ==
    Working /\ Lock = None => \A a \in Agent, m \in InThread :
        pc[a][m] = "resolved" /\ ~IsNewThread(m) => InEffect(state[a][m]) \in MayOwn(m)

\* A message is routed by an agent that has dealt with it, as the rules say.
RoutedInv ==
    Lock # None \/ Working => \A a \in Agent, m \in InThread :
        /\ Done(a, m) => FollowsRules(a, m)
        /\ ~Done(a, m) => a \notin routed[m]

\* The thread was never given to Joanne: then nobody records or reads her name, and
\* every message is Ross's.
Untold == Lock = None /\ inherited # Joanne /\ \A m \in InThread : Joanne \notin posted[m]
RossInv ==
    Untold =>
        /\ \A r \in Replica : store[r] # Joanne
        /\ \A a \in Agent, m \in Msg : state[a][m] # Joanne
        /\ \A m \in InThread : routed[m] = IF Done(Ross, m) THEN {Ross} ELSE {}

Inv == TypeOK /\ OrderInv /\ NoneInv /\ StoreInv /\ StateInv /\ RoutedInv /\ RossInv

(* ------------------------------ the rules -------------------------------- *)

LEMMA PostedType ==
    ASSUME TypeOK
    PROVE  /\ Len(posted) \in Nat /\ MaxMsg \in Nat /\ InThread \subseteq Msg
           /\ \A m \in InThread : posted[m] \subseteq Agent
<1>1. \A m \in 1..Len(posted) : posted[m] \in SUBSET Agent
  BY ElementOfSeq DEF TypeOK
<1>2. Len(posted) \in Nat /\ MaxMsg \in Nat /\ Len(posted) <= MaxMsg
  BY LenProperties, SettingAssumption DEF TypeOK
<1> QED
  BY <1>1, <1>2 DEF InThread, Msg

\* What a message that no mention of past came after made the owner may be on record.
LEMMA MadeBy ==
    ASSUME NEW past, NEW all, NEW i \in all, Writes(i),
           \A j \in Mentions(past) : i \notin before[j]
    PROVE  Given(i) \in MayBeRecorded(past, all)
BY DEF MayBeRecorded

LEMMA HeldFromTheStart ==
    ASSUME NEW past, NEW all, Mentions(past) = {}
    PROVE  InEffect(inherited) \in MayBeRecorded(past, all)
BY DEF MayBeRecorded, InEffect

\* A subset of the two agents.
LEMMA MentionCases ==
    \A s \in SUBSET Agent : s \in {{}, {Ross}, {Joanne}, Agent}
BY DEF Agent

\* The decision without a lock, by what the message mentions.
LEMMA DecideIs ==
    ASSUME NEW a \in Agent, NEW owner, NEW s \in SUBSET Agent, NEW new \in BOOLEAN
    PROVE  /\ s # {} => /\ Decide(a, owner, s, new).respond <=> a \in s
                        /\ Decide(a, owner, s, new).newOwner
                             = IF s = {Joanne} THEN Joanne ELSE Ross
           /\ s = {} /\ (new \/ owner = None) =>
                 /\ Decide(a, owner, s, new).respond <=> a = Ross
                 /\ Decide(a, owner, s, new).newOwner = Ross
           /\ s = {} /\ ~new /\ owner # None =>
                 /\ Decide(a, owner, s, new).respond <=> owner = a
                 /\ Decide(a, owner, s, new).newOwner = None
<1>1. Ross # Joanne /\ Agent = {Ross, Joanne} /\ None \notin Agent
  BY AgentAssumption DEF Agent
<1>2. /\ {Ross} # {Joanne} /\ {Ross} # Agent /\ {Joanne} # Agent
      /\ {} # Agent /\ {} # {Ross} /\ {} # {Joanne}
  BY <1>1
<1>3. Other(a) \in Agent /\ Other(a) # a /\ (a = Ross \/ a = Joanne)
  BY <1>1 DEF Other
<1>4. CASE s = Agent
  BY <1>1, <1>2, <1>3, <1>4 DEF Decide
<1>5. CASE s = {a}
  BY <1>1, <1>2, <1>3, <1>5 DEF Decide
<1>6. CASE s = {Other(a)}
  BY <1>1, <1>2, <1>3, <1>6 DEF Decide, Other
<1>7. CASE s = {}
  BY <1>1, <1>2, <1>3, <1>7 DEF Decide
<1>8. s = Agent \/ s = {a} \/ s = {Other(a)} \/ s = {}
  BY <1>1, <1>3, MentionCases DEF Other
<1> QED
  BY <1>4, <1>5, <1>6, <1>7, <1>8

\* The decision in a locked channel.
LEMMA LockedDecideIs ==
    ASSUME Lock # None, NEW a, NEW owner, NEW s \in SUBSET Agent, NEW new
    PROVE  /\ DecideWithLock(a, owner, s, new).respond
                 <=> a \in IF s # {} THEN s ELSE {Lock}
           /\ DecideWithLock(a, owner, s, new).newOwner = Lock
BY DEF DecideWithLock

\* The rules stand while nothing is posted.
LEMMA RulesStand ==
    ASSUME UNCHANGED <<setting, fresh, inherited, posted, before>>
    PROVE  /\ InThread' = InThread /\ Mentions(InThread)' = Mentions(InThread)
           /\ Lock' = Lock /\ (Working' <=> Working) /\ (Untold' <=> Untold)
           /\ \A a : ReplicaOf(a)' = ReplicaOf(a)
           /\ \A m : /\ IsNewThread(m)' <=> IsNewThread(m)
                     /\ Given(m)' = Given(m) /\ (Writes(m)' <=> Writes(m))
                     /\ MayOwn(m)' = MayOwn(m)
BY DEF InThread, Mentions, Lock, Working, Untold, ReplicaOf, IsNewThread, Given, Writes,
       MayOwn, MayBeRecorded

\* A message that is posted adds to what the rules allow, and takes nothing away.
LEMMA RulesGrow ==
    ASSUME TypeOK, NEW mentions \in SUBSET Agent, Post(mentions)
    PROVE  /\ Len(posted)' = Len(posted) + 1 /\ InThread' = InThread \cup {Len(posted) + 1}
           /\ Len(posted) + 1 \notin InThread /\ Len(posted) + 1 \in Msg
           /\ InThread \subseteq Msg /\ Len(posted) \in Nat
           /\ posted' \in Seq(SUBSET Agent) /\ before'[Len(posted) + 1] = Handled
           /\ \A m \in InThread : /\ posted'[m] = posted[m] /\ before'[m] = before[m]
                                  /\ Given(m)' = Given(m) /\ (Writes(m)' <=> Writes(m))
           /\ \A m \in Msg : m # Len(posted) + 1 => before'[m] = before[m]
<1>1. Len(posted) \in Nat /\ MaxMsg \in Nat /\ InThread \subseteq Msg
  BY PostedType
<1>2. /\ posted' \in Seq(SUBSET Agent) /\ Len(posted') = Len(posted) + 1
      /\ \A m \in 1..Len(posted) : posted'[m] = posted[m]
  BY AppendProperties DEF Post, TypeOK
<1>3. Len(posted) < MaxMsg /\ before' = [before EXCEPT ![Len(posted) + 1] = Handled]
      /\ inherited' = inherited
  <2>1. setting.length \in 1..MaxMsg
    BY SettingAssumption DEF TypeOK, Setting
  <2> QED
    BY <1>1, <2>1 DEF Post
<1>4. Len(posted) + 1 \in Msg /\ before \in [Msg -> SUBSET Msg]
  BY <1>1, <1>3 DEF Msg, TypeOK
<1>5. InThread' = InThread \cup {Len(posted) + 1} /\ Len(posted) + 1 \notin InThread
  BY <1>1, <1>2 DEF InThread
<1>6. \A m \in InThread : posted'[m] = posted[m] /\ m \in Msg /\ m # Len(posted) + 1
  BY <1>1, <1>2, <1>5 DEF InThread
<1>7. /\ before'[Len(posted) + 1] = Handled
      /\ \A m \in Msg : m # Len(posted) + 1 => before'[m] = before[m]
  BY <1>3, <1>4
<1> QED
  BY <1>1, <1>2, <1>3, <1>4, <1>5, <1>6, <1>7 DEF Given, Writes

LEMMA MayOwnGrows ==
    ASSUME TypeOK, OrderInv, NEW mentions \in SUBSET Agent, Post(mentions),
           NEW m \in InThread
    PROVE  MayOwn(m) \subseteq MayOwn(m)'
<1>1. /\ InThread \subseteq InThread' /\ m \in Msg
      /\ \A i \in InThread : /\ posted'[i] = posted[i] /\ before'[i] = before[i]
                             /\ Given(i)' = Given(i) /\ (Writes(i)' <=> Writes(i))
  BY RulesGrow
<1>2. \A j \in before[m] : j \in InThread
  BY <1>1 DEF OrderInv
<1>3. Mentions(before[m])' = Mentions(before[m])
  BY <1>1, <1>2 DEF Mentions
<1>4. /\ UNCHANGED <<setting, fresh, inherited>>
      /\ IsNewThread(m)' <=> IsNewThread(m)
  BY DEF Post, IsNewThread
<1>5. \A j \in Mentions(before[m]) : before'[j] = before[j]
  BY <1>1, <1>2 DEF Mentions
<1> DEFINE all == {i \in InThread : m \notin before[i]}
           made == {w \in all : Writes(w) /\ \A j \in Mentions(before[m]) : w \notin before[j]}
<1>6. all \subseteq all'
  BY <1>1
<1>7. \A w \in made : w \in made' /\ Given(w)' = Given(w)
  BY <1>1, <1>3, <1>5, <1>6
<1>8. MayBeRecorded(before[m], all) \subseteq MayBeRecorded(before[m], all)'
  <2>1. {Given(w) : w \in made} \subseteq {Given(w) : w \in made}'
    BY <1>7
  <2>2. {o \in {IF inherited = None THEN Ross ELSE inherited} : Mentions(before[m]) = {}}'
          = {o \in {IF inherited = None THEN Ross ELSE inherited} : Mentions(before[m]) = {}}
    BY <1>3, <1>4
  <2> QED
    BY <2>1, <2>2 DEF MayBeRecorded
<1> QED
  BY <1>4, <1>8 DEF MayOwn, Lock

LEMMA InitHasInv == Init => Inv
<1> SUFFICES ASSUME Init PROVE Inv
  OBVIOUS
<1> USE DEF Init
<1>1. Ross # Joanne /\ Agent = {Ross, Joanne} /\ None \notin Agent
  BY AgentAssumption DEF Agent
<1>2. /\ Len(posted) = 0 /\ MaxMsg \in Nat /\ InThread = {} /\ Mentions(InThread) = {}
      /\ \A a \in Agent : ReplicaOf(a) \in Replica
      /\ \A m \in Msg : before[m] = {}
      /\ \A a \in Agent, m \in Msg : pc[a][m] = "new" /\ state[a][m] = None
  BY SettingAssumption DEF ReplicaOf, Replica, InThread, Mentions
<1>3. TypeOK
  <2>1. posted \in Seq(SUBSET Agent)
    BY EmptySeq
  <2> QED
    BY <1>2, <2>1 DEF TypeOK
<1>4. OrderInv
  BY <1>2 DEF OrderInv
<1>5. NoneInv
  BY <1>2 DEF NoneInv, Done
<1>6. StoreInv
  BY <1>2 DEF StoreInv, Done, NoMentionYet
<1>7. StateInv /\ RoutedInv
  BY <1>2 DEF StateInv, RoutedInv
<1>8. RossInv
  BY <1>1, <1>2 DEF RossInv, Untold
<1> QED
  BY <1>3, <1>4, <1>5, <1>6, <1>7, <1>8 DEF Inv

LEMMA PostKeepsInv ==
    ASSUME Inv, NEW mentions \in SUBSET Agent, Post(mentions)
    PROVE  Inv'
<1> DEFINE n == Len(posted) + 1
<1> USE DEF Inv
<1>1. /\ InThread' = InThread \cup {n} /\ n \notin InThread /\ n \in Msg
      /\ InThread \subseteq Msg /\ Len(posted) \in Nat /\ Len(posted)' = n
      /\ posted' \in Seq(SUBSET Agent) /\ before'[n] = Handled
      /\ \A m \in InThread : /\ posted'[m] = posted[m] /\ before'[m] = before[m]
                             /\ Given(m)' = Given(m) /\ (Writes(m)' <=> Writes(m))
      /\ \A m \in Msg : m # n => before'[m] = before[m]
  BY RulesGrow
<1>2. UNCHANGED <<setting, fresh, inherited, pc, state, store, routed>>
  BY DEF Post
<1>3. /\ \A a \in Agent : pc[a][n] = "new"
      /\ routed[n] = {}
      /\ \A i \in Handled : i \in InThread
  <2>1. \A i \in Msg \ InThread : pc[Ross][i] = "new"
    BY DEF OrderInv, Agent
  <2> QED
    BY <1>1, <2>1 DEF OrderInv, Handled, Agent
<1>4. TypeOK'
  <2>1. Len(posted)' <= MaxMsg
    BY <1>1, PostedType DEF Msg
  <2>2. before' \in [Msg -> SUBSET Msg]
    BY DEF Post, TypeOK, Handled
  <2> QED
    BY <1>1, <1>2, <2>1, <2>2 DEF TypeOK
<1>5. OrderInv'
  <2>1. Handled' = Handled
    BY <1>2 DEF Handled
  <2>2. \A i \in InThread : i < n
    BY <1>1 DEF InThread
  <2>3. ASSUME NEW j \in Msg, NEW i \in before'[j]
        PROVE  i \in Handled /\ i \in InThread' /\ j \in InThread' /\ i < j
    BY <1>1, <1>3, <2>2, <2>3 DEF OrderInv
  <2> QED
    BY <1>1, <1>2, <2>1, <2>3 DEF OrderInv
<1>6. NoneInv'
  <2>1. \A a \in Agent, m \in Msg : pc[a][m] = "resolved" => before'[m] = before[m]
    BY <1>1, <1>3
  <2> QED
    BY <1>2, <2>1 DEF NoneInv, Working, ReplicaOf, Done
<1>7. \A j \in Mentions(InThread)' : j = n \/ j \in Mentions(InThread)
  BY <1>1 DEF Mentions
<1>8. StoreInv'
  <2>1. \A a \in Agent : NoMentionYet(a) => NoMentionYet(a)'
    BY <1>2, <1>3, <1>7 DEF NoMentionYet, Done, Together, ReplicaOf
  <2>2. \A a \in Agent, i \in InThread : NoMentionSince(i, a) => NoMentionSince(i, a)'
    <3>1. \A j \in Mentions(InThread) : j \in InThread
      BY DEF Mentions
    <3> QED
      BY <1>1, <1>2, <1>3, <1>7, <3>1 DEF NoMentionSince, Done, Together, ReplicaOf
  <2> QED
    BY <1>1, <1>2, <2>1, <2>2 DEF StoreInv, Working, Lock, ReplicaOf, Done
<1>9. \A m \in InThread : MayOwn(m) \subseteq MayOwn(m)'
  BY MayOwnGrows
<1>10. StateInv'
  <2>1. \A a \in Agent, m \in InThread' : pc[a][m] = "resolved" => m \in InThread
    BY <1>1, <1>3
  <2> QED
    BY <1>2, <1>9, <2>1 DEF StateInv, Working, Lock, InEffect, IsNewThread
<1>11. RoutedInv'
  <2>1. \A a \in Agent, m \in InThread : FollowsRules(a, m) => FollowsRules(a, m)'
    BY <1>1, <1>2, <1>9 DEF FollowsRules
  <2> QED
    BY <1>1, <1>2, <1>3, <2>1 DEF RoutedInv, Working, Lock, Done
<1>12. RossInv'
  <2>1. Untold' => Untold
    BY <1>1, <1>2 DEF Untold, Lock
  <2> QED
    BY <1>1, <1>2, <1>3, <2>1 DEF RossInv, Done, Agent
<1> QED
  BY <1>4, <1>5, <1>6, <1>8, <1>10, <1>11, <1>12

LEMMA ResolveKeepsInv ==
    ASSUME Inv, NEW a \in Agent, NEW m \in Msg, ResolveState(a, m)
    PROVE  Inv'
<1> USE DEF Inv
<1>1. /\ m \in InThread /\ pc[a][m] = "new"
      /\ UNCHANGED <<setting, fresh, inherited, posted, before, store, routed>>
  BY DEF ResolveState
<1>2. PICK id \in Get(a, m) : state' = [state EXCEPT ![a][m] = id]
  BY DEF ResolveState
<1>3. /\ pc' = [pc EXCEPT ![a][m] = "resolved"]
      /\ pc'[a][m] = "resolved" /\ state'[a][m] = id
      /\ \A b \in Agent, i \in Msg :
            b # a \/ i # m => pc'[b][i] = pc[b][i] /\ state'[b][i] = state[b][i]
  BY <1>2 DEF ResolveState, TypeOK
<1>4. /\ InThread' = InThread /\ Mentions(InThread)' = Mentions(InThread)
      /\ Lock' = Lock /\ (Working' <=> Working) /\ (Untold' <=> Untold)
      /\ \A b : ReplicaOf(b)' = ReplicaOf(b)
      /\ \A i : /\ IsNewThread(i)' <=> IsNewThread(i)
                /\ Given(i)' = Given(i) /\ (Writes(i)' <=> Writes(i))
                /\ MayOwn(i)' = MayOwn(i)
  BY <1>1, RulesStand
<1>5. \A b \in Agent, i \in Msg : Done(b, i)' <=> Done(b, i)
  BY <1>1, <1>3 DEF Done
<1>6. ReplicaOf(a) \in Replica /\ id \in Agent \cup {None}
  BY <1>2 DEF Get, TypeOK, ReplicaOf, Replica
<1>7. Working => id = IF IsNewThread(m) THEN None ELSE store[ReplicaOf(a)]
  BY <1>2 DEF Get, Working
<1>8. TypeOK'
  BY <1>1, <1>2, <1>3, <1>6 DEF TypeOK
<1>9. InThread \subseteq Msg
  BY PostedType
<1>10. OrderInv'
  <2>1. \A i \in Handled : i \in Handled'
    BY <1>5 DEF Handled, Done
  <2> QED
    BY <1>1, <1>3, <1>4, <2>1 DEF OrderInv
<1>11. NoneInv'
  <2>1. ASSUME Working
        PROVE  /\ id = None => inherited = None /\ before[m] = {}
               /\ id # None => store[ReplicaOf(a)] # None
    <3>1. CASE IsNewThread(m)
      <4>1. fresh /\ m = 1 /\ inherited = None
        BY <3>1 DEF IsNewThread, OrderInv
      <4>2. \A i \in before[m] : i \in 1..Len(posted) /\ i < 1
        BY <4>1 DEF OrderInv, InThread
      <4>3. before[m] = {}
        BY <4>2
      <4> QED
        BY <1>7, <2>1, <3>1, <4>1, <4>3
    <3>2. CASE ~IsNewThread(m)
      <4>1. id = store[ReplicaOf(a)]
        BY <1>7, <2>1, <3>2
      <4>2. \A i \in before[m] : Done(a, i) /\ i \in Msg
        BY DEF OrderInv, Handled, Done
      <4>3. id = None => inherited = None /\ before[m] = {}
        BY <2>1, <4>1, <4>2 DEF NoneInv
      <4> QED
        BY <4>1, <4>3
    <3> QED
      BY <3>1, <3>2
  <2> QED
    BY <1>1, <1>3, <1>4, <1>5, <2>1 DEF NoneInv
<1>12. StoreInv'
  <2>1. \A b \in Agent : NoMentionYet(b)' <=> NoMentionYet(b)
    BY <1>4, <1>5, <1>9 DEF NoMentionYet, Together, Mentions
  <2>2. \A b \in Agent, i \in InThread : NoMentionSince(i, b)' <=> NoMentionSince(i, b)
    BY <1>1, <1>4, <1>5, <1>9 DEF NoMentionSince, Together, Mentions
  <2> QED
    BY <1>1, <1>4, <1>5, <2>1, <2>2 DEF StoreInv
<1>13. ASSUME Working, Lock = None, ~IsNewThread(m) PROVE InEffect(id) \in MayOwn(m)
  <2> DEFINE all == {i \in InThread : m \notin before[i]}
  <2>1. id = store[ReplicaOf(a)] /\ ~Done(a, m) /\ Together(a, a)
    BY <1>1, <1>7, <1>13 DEF Done, Together
  <2>2. \A j \in Mentions(before[m]) : j \in Mentions(InThread) /\ Done(a, j)
    BY <1>1, <1>9 DEF OrderInv, Mentions, Handled, Done
  <2>3. InEffect(id) \in MayBeRecorded(before[m], all)
    <3>1. CASE id = inherited /\ NoMentionYet(a)
      <4>1. Mentions(before[m]) = {}
        BY <2>1, <2>2, <3>1 DEF NoMentionYet
      <4> QED
        BY <3>1, <4>1, HeldFromTheStart
    <3>2. ASSUME NEW i \in InThread, Writes(i), id = Given(i), NoMentionSince(i, a)
          PROVE  InEffect(id) \in MayBeRecorded(before[m], all)
      <4>1. m \notin before[i]
        BY <1>9, <2>1 DEF OrderInv, Handled, Done
      <4>2. \A j \in Mentions(before[m]) : i \notin before[j]
        BY <2>1, <2>2, <3>2 DEF NoMentionSince
      <4>3. i \in all
        BY <4>1
      <4>4. Given(i) \in MayBeRecorded(before[m], all)
        BY <3>2, <4>2, <4>3, MadeBy
      <4>5. Given(i) # None
        BY AgentAssumption DEF Given, Agent
      <4> QED
        BY <3>2, <4>4, <4>5 DEF InEffect
    <3> QED
      BY <1>13, <2>1, <3>1, <3>2 DEF StoreInv
  <2> QED
    BY <1>13, <2>3 DEF MayOwn
<1>14. StateInv'
  <2>1. ASSUME Working, Lock = None, NEW b \in Agent, NEW i \in InThread,
               pc'[b][i] = "resolved", ~IsNewThread(i)
        PROVE  InEffect(state'[b][i]) \in MayOwn(i)
    BY <1>1, <1>3, <1>9, <1>13, <2>1 DEF StateInv
  <2> QED
    BY <1>4, <2>1 DEF StateInv, InEffect
<1>15. RoutedInv'
  <2>1. \A b \in Agent, i \in InThread : FollowsRules(b, i)' <=> FollowsRules(b, i)
    BY <1>1, <1>4 DEF FollowsRules
  <2> QED
    BY <1>1, <1>4, <1>5, <1>9, <2>1 DEF RoutedInv
<1>16. RossInv'
  <2>1. Untold => id # Joanne
    BY <1>2, <1>6, AgentAssumption DEF RossInv, Get, Agent
  <2>2. \A i \in InThread : Done(Ross, i)' <=> Done(Ross, i)
    BY <1>5, <1>9 DEF Agent
  <2>3. ASSUME Untold, NEW b \in Agent, NEW i \in Msg PROVE state'[b][i] # Joanne
    <3>1. CASE b = a /\ i = m
      BY <1>3, <2>1, <2>3, <3>1
    <3>2. CASE ~(b = a /\ i = m)
      BY <1>3, <2>3, <3>2 DEF RossInv
    <3> QED
      BY <3>1, <3>2
  <2> QED
    BY <1>1, <1>4, <2>2, <2>3 DEF RossInv
<1> QED
  BY <1>8, <1>10, <1>11, <1>12, <1>14, <1>15, <1>16

\* An expiry needs a store that loses records: then only a lock is followed.
LEMMA ExpireKeepsInv == ASSUME Inv, Expire PROVE Inv'
<1> USE DEF Inv
<1>1. UNCHANGED <<setting, fresh, inherited, posted, before, pc, state, routed>>
  BY DEF Expire
<1>2. ~Working
  BY DEF Expire, Working
<1>3. store' = [store EXCEPT !["redis"] = None] /\ None # Joanne
  BY AgentAssumption DEF Expire, Agent
<1>4. /\ InThread' = InThread /\ Lock' = Lock
      /\ (Working' <=> Working) /\ (Untold' <=> Untold)
      /\ \A i : /\ IsNewThread(i)' <=> IsNewThread(i)
                /\ MayOwn(i)' = MayOwn(i)
  BY <1>1, RulesStand
<1>5. TypeOK'
  BY <1>1, <1>3 DEF TypeOK
<1>6. OrderInv'
  BY <1>1, <1>4 DEF OrderInv, Handled
<1>7. NoneInv' /\ StoreInv' /\ StateInv'
  BY <1>2, <1>4 DEF NoneInv, StoreInv, StateInv
<1>8. RoutedInv'
  BY <1>1, <1>2, <1>4 DEF RoutedInv, FollowsRules, Done
<1>9. RossInv'
  BY <1>1, <1>3, <1>4 DEF RossInv, TypeOK, Done
<1> QED
  BY <1>5, <1>6, <1>7, <1>8, <1>9

\* What an agent decides is what the rules say in a locked channel or while the
\* stores work, and what it records, if it does, is the owner that the message makes.
LEMMA DecisionFollowsRule ==
    ASSUME Inv, NEW a \in Agent, NEW m \in InThread, pc[a][m] = "resolved"
    PROVE  LET dec == DecideDefault(a, m)
           IN  /\ Lock # None \/ Working =>
                     IF posted[m] # {} THEN dec.respond <=> a \in posted[m]
                     ELSE \E owner \in MayOwn(m) : dec.respond <=> owner = a
               /\ Lock # None => dec.newOwner = Lock
               /\ Working /\ Lock = None /\ dec.newOwner # None =>
                     dec.newOwner = Given(m) /\ Writes(m)
               /\ Working /\ dec.newOwner = None =>
                     Lock = None /\ posted[m] = {} /\ store[ReplicaOf(a)] # None
               /\ Untold => (dec.respond <=> a = Ross) /\ dec.newOwner # Joanne
               /\ dec.newOwner \in Agent \cup {None}
<1> DEFINE dec == DecideDefault(a, m)
           new == IsNewThread(m)
<1> USE DEF Inv
<1>1. InThread \subseteq Msg /\ posted[m] \in SUBSET Agent
  BY PostedType
<1>2. Ross # Joanne /\ Agent = {Ross, Joanne} /\ None \notin Agent
  BY AgentAssumption DEF Agent
<1>3. state[a][m] \in Agent \cup {None} /\ new \in BOOLEAN
  BY <1>1 DEF TypeOK, IsNewThread
<1>4. dec = DecideWithLock(a, state[a][m], posted[m], new)
  BY DEF DecideDefault
<1>5. CASE Lock # None
  <2>1. Lock \in Agent \cup {None}
    BY SettingAssumption DEF TypeOK, Setting, Lock
  <2>2. /\ dec.respond <=> a \in IF posted[m] # {} THEN posted[m] ELSE {Lock}
        /\ dec.newOwner = Lock
    BY <1>1, <1>4, <1>5, LockedDecideIs
  <2>3. MayOwn(m) = {Lock}
    BY <1>5 DEF MayOwn
  <2>4. ~Untold
    BY <1>5 DEF Untold
  <2>5. IF posted[m] # {} THEN dec.respond <=> a \in posted[m]
        ELSE \E owner \in MayOwn(m) : dec.respond <=> owner = a
    BY <2>2, <2>3
  <2> QED
    BY <1>5, <2>1, <2>2, <2>4, <2>5
<1>6. CASE Lock = None
  <2>0. dec = Decide(a, state[a][m], posted[m], new)
    BY <1>4, <1>6 DEF DecideWithLock
  <2>1. /\ posted[m] # {} => /\ dec.respond <=> a \in posted[m]
                             /\ dec.newOwner = IF posted[m] = {Joanne} THEN Joanne ELSE Ross
        /\ posted[m] = {} /\ (new \/ state[a][m] = None) =>
              (dec.respond <=> a = Ross) /\ dec.newOwner = Ross
        /\ posted[m] = {} /\ ~new /\ state[a][m] # None =>
              (dec.respond <=> state[a][m] = a) /\ dec.newOwner = None
    BY <1>1, <1>3, <2>0, DecideIs
  <2> HIDE DEF dec
  <2>2. Working /\ (new \/ state[a][m] = None) => before[m] = {} /\ inherited = None
    <3>1. new => inherited = None /\ m = 1
      BY DEF IsNewThread, OrderInv
    <3>2. new => \A i \in before[m] : i \in 1..Len(posted) /\ i < 1
      BY <1>1, <3>1 DEF OrderInv, InThread
    <3>3. new => before[m] = {}
      BY <3>2
    <3> QED
      BY <1>1, <3>1, <3>3 DEF NoneInv
  <2>3. Working => IF posted[m] # {} THEN dec.respond <=> a \in posted[m]
                   ELSE \E owner \in MayOwn(m) : dec.respond <=> owner = a
    <3> SUFFICES ASSUME Working, posted[m] = {}
                 PROVE  \E owner \in MayOwn(m) : dec.respond <=> owner = a
      BY <2>1
    <3>1. CASE new
      <4>1. MayOwn(m) = {Ross}
        BY <1>6, <3>1 DEF MayOwn
      <4> QED
        BY <2>1, <3>1, <4>1
    <3>2. CASE ~new
      <4>1. InEffect(state[a][m]) \in MayOwn(m)
        BY <1>6, <3>2 DEF StateInv
      <4>2. dec.respond <=> InEffect(state[a][m]) = a
        BY <2>1, <3>2 DEF InEffect
      <4> QED
        BY <4>1, <4>2
    <3> QED
      BY <3>1, <3>2
  <2>4. Working /\ dec.newOwner # None => dec.newOwner = Given(m) /\ Writes(m)
    BY <2>1, <2>2 DEF Given, Writes
  <2>5. Working /\ dec.newOwner = None => posted[m] = {} /\ store[ReplicaOf(a)] # None
    <3>1. dec.newOwner = None => posted[m] = {} /\ state[a][m] # None
      BY <1>2, <2>1
    <3> QED
      BY <1>1, <3>1 DEF NoneInv
  <2>6. Untold => (dec.respond <=> a = Ross) /\ dec.newOwner # Joanne
    <3> SUFFICES ASSUME Untold PROVE (dec.respond <=> a = Ross) /\ dec.newOwner # Joanne
      OBVIOUS
    <3>1. posted[m] = {} \/ posted[m] = {Ross}
      BY <1>1, <1>2 DEF Untold
    <3>2. state[a][m] = None \/ state[a][m] = Ross
      BY <1>1, <1>2, <1>3 DEF RossInv
    <3> QED
      BY <1>2, <2>1, <3>1, <3>2
  <2>7. dec.newOwner \in Agent \cup {None}
    BY <1>2, <2>1
  <2> QED
    BY <1>6, <2>3, <2>4, <2>5, <2>6, <2>7 DEF dec
<1> QED
  BY <1>5, <1>6

LEMMA DispatchKeepsInv ==
    ASSUME Inv, NEW a \in Agent, NEW m \in Msg, DispatchMessage(a, m)
    PROVE  Inv'
<1> DEFINE dec == DecideDefault(a, m)
<1> USE DEF Inv
<1>1. /\ pc[a][m] = "resolved"
      /\ UNCHANGED <<setting, fresh, inherited, posted, before>>
      /\ PersistOwnership(a, dec)
      /\ routed' = IF dec.respond THEN [routed EXCEPT ![m] = @ \cup {a}] ELSE routed
      /\ pc' = [pc EXCEPT ![a][m] = "done"]
      /\ state' = [state EXCEPT ![a][m] = None]
  BY DEF DispatchMessage
<1>2. m \in InThread /\ InThread \subseteq Msg
  BY <1>1, PostedType DEF OrderInv
<1>3. /\ Lock # None \/ Working =>
            IF posted[m] # {} THEN dec.respond <=> a \in posted[m]
            ELSE \E owner \in MayOwn(m) : dec.respond <=> owner = a
      /\ Lock # None => dec.newOwner = Lock
      /\ Working /\ Lock = None /\ dec.newOwner # None =>
            dec.newOwner = Given(m) /\ Writes(m)
      /\ Working /\ dec.newOwner = None =>
            Lock = None /\ posted[m] = {} /\ store[ReplicaOf(a)] # None
      /\ Untold => (dec.respond <=> a = Ross) /\ dec.newOwner # Joanne
      /\ dec.newOwner \in Agent \cup {None}
  BY <1>1, <1>2, DecisionFollowsRule
<1> HIDE DEF dec
<1>4. /\ Done(a, m)' /\ ~Done(a, m)
      /\ \A b \in Agent, i \in Msg : b # a \/ i # m =>
            /\ pc'[b][i] = pc[b][i] /\ state'[b][i] = state[b][i]
            /\ Done(b, i)' <=> Done(b, i)
      /\ \A b \in Agent, i \in Msg : pc'[b][i] = "resolved" => b # a \/ i # m
      /\ \A i \in Msg : i # m => routed'[i] = routed[i]
      /\ routed'[m] = IF dec.respond THEN routed[m] \cup {a} ELSE routed[m]
  BY <1>1 DEF TypeOK, Done
<1>5. /\ \A b \in Agent : ReplicaOf(b) \in Replica
      /\ InThread' = InThread /\ Mentions(InThread)' = Mentions(InThread)
      /\ Lock' = Lock /\ (Working' <=> Working) /\ (Untold' <=> Untold)
      /\ \A b : ReplicaOf(b)' = ReplicaOf(b)
      /\ \A i : /\ IsNewThread(i)' <=> IsNewThread(i)
                /\ Given(i)' = Given(i) /\ (Writes(i)' <=> Writes(i))
                /\ MayOwn(i)' = MayOwn(i)
  BY <1>1, RulesStand DEF ReplicaOf, Replica
<1>6. /\ dec.newOwner = None => store' = store
      /\ dec.newOwner # None =>
           store' = store \/ store' = [store EXCEPT ![ReplicaOf(a)] = dec.newOwner]
      /\ Working /\ dec.newOwner # None =>
           store' = [store EXCEPT ![ReplicaOf(a)] = dec.newOwner]
  BY <1>1 DEF PersistOwnership, Set, Working
<1>7. ASSUME Working, NEW b \in Agent
      PROVE  store'[ReplicaOf(b)] = IF Together(a, b) /\ dec.newOwner # None
                                    THEN dec.newOwner ELSE store[ReplicaOf(b)]
  BY <1>5, <1>6, <1>7 DEF TypeOK, Together
<1>8. TypeOK'
  <2>1. store' \in [Replica -> Agent \cup {None}]
    BY <1>3, <1>5, <1>6 DEF TypeOK
  <2>2. routed' \in [Msg -> SUBSET Agent]
    BY <1>1 DEF TypeOK
  <2> QED
    BY <1>1, <2>1, <2>2 DEF TypeOK
<1>9. OrderInv'
  <2>1. \A i \in Handled : i \in Handled'
    BY <1>4 DEF Handled, Done
  <2> QED
    BY <1>1, <1>2, <1>4, <1>5, <2>1 DEF OrderInv
<1>10. NoneInv'
  <2> SUFFICES ASSUME Working, NEW b \in Agent
               PROVE  /\ store'[ReplicaOf(b)] = None =>
                            inherited = None /\ \A i \in Msg : ~Done(b, i)'
                      /\ \A i \in Msg : pc'[b][i] = "resolved" =>
                           /\ state'[b][i] = None => inherited = None /\ before[i] = {}
                           /\ state'[b][i] # None => store'[ReplicaOf(b)] # None
    BY <1>1, <1>5 DEF NoneInv
  <2>1. store[ReplicaOf(b)] # None => store'[ReplicaOf(b)] # None
    BY <1>7
  <2>2. store'[ReplicaOf(a)] # None
    BY <1>3, <1>7 DEF Together
  <2>3. store'[ReplicaOf(b)] = None => b # a
    BY <2>2
  <2> QED
    BY <1>4, <2>1, <2>3 DEF NoneInv
<1>11. StoreInv'
  <2> SUFFICES ASSUME Working, NEW b \in Agent
               PROVE  /\ Lock # None /\ (\E i \in Msg : Done(b, i)') =>
                            store'[ReplicaOf(b)] = Lock
                      /\ Lock = None =>
                         \/ store'[ReplicaOf(b)] = inherited /\ NoMentionYet(b)'
                         \/ \E i \in InThread :
                              /\ Writes(i) /\ store'[ReplicaOf(b)] = Given(i)
                              /\ NoMentionSince(i, b)'
    BY <1>1, <1>5 DEF StoreInv
  <2>1. ASSUME Lock # None, NEW i \in Msg, Done(b, i)' PROVE store'[ReplicaOf(b)] = Lock
    <3>1. dec.newOwner = Lock
      BY <1>3, <2>1
    <3>2. CASE Together(a, b)
      BY <1>7, <2>1, <3>1, <3>2
    <3>3. CASE ~Together(a, b)
      <4>1. b # a
        BY <3>3 DEF Together
      <4>2. Done(b, i)
        BY <1>4, <2>1, <4>1
      <4> QED
        BY <1>7, <2>1, <3>3, <4>2 DEF StoreInv
    <3> QED
      BY <3>2, <3>3
  <2>2. ASSUME Lock = None
        PROVE  \/ store'[ReplicaOf(b)] = inherited /\ NoMentionYet(b)'
               \/ \E i \in InThread : /\ Writes(i) /\ store'[ReplicaOf(b)] = Given(i)
                                      /\ NoMentionSince(i, b)'
    <3>1. \A j \in Mentions(InThread) : j \in Msg
      BY <1>2 DEF Mentions
    <3>2. CASE Together(a, b) /\ dec.newOwner # None
      <4>1. Writes(m) /\ store'[ReplicaOf(b)] = Given(m)
        BY <1>3, <1>7, <2>2, <3>2
      <4>2. \A j \in Msg : m \notin before[j]
        BY <1>1 DEF OrderInv, Handled
      <4>3. NoMentionSince(m, b)'
        BY <1>1, <1>5, <3>1, <4>2 DEF NoMentionSince
      <4> QED
        BY <1>2, <4>1, <4>3
    <3>3. CASE ~(Together(a, b) /\ dec.newOwner # None)
      <4>1. store'[ReplicaOf(b)] = store[ReplicaOf(b)]
        BY <1>7, <3>3
      <4>2. \A c \in Agent, j \in Mentions(InThread) :
               Together(b, c) => (Done(c, j)' <=> Done(c, j))
        <5>1. CASE ~Together(a, b)
          <6>1. \A c \in Agent : Together(b, c) => c # a
            BY <5>1 DEF Together
          <6> QED
            BY <1>4, <3>1, <6>1
        <5>2. CASE dec.newOwner = None
          <6>1. m \notin Mentions(InThread)
            BY <1>3, <5>2 DEF Mentions
          <6> QED
            BY <1>4, <3>1, <6>1
        <5> QED
          BY <3>3, <5>1, <5>2
      <4>3. NoMentionYet(b) => NoMentionYet(b)'
        BY <1>5, <4>2 DEF NoMentionYet, Together
      <4>4. \A i \in InThread : NoMentionSince(i, b) => NoMentionSince(i, b)'
        BY <1>1, <1>5, <4>2 DEF NoMentionSince, Together
      <4> QED
        BY <2>2, <4>1, <4>3, <4>4 DEF StoreInv
    <3> QED
      BY <3>2, <3>3
  <2> QED
    BY <2>1, <2>2
<1>12. StateInv'
  BY <1>2, <1>4, <1>5 DEF StateInv, InEffect
<1>13. RoutedInv'
  <2> SUFFICES ASSUME Lock # None \/ Working, NEW b \in Agent, NEW i \in InThread
               PROVE  /\ Done(b, i)' => FollowsRules(b, i)'
                      /\ ~Done(b, i)' => b \notin routed'[i]
    BY <1>5 DEF RoutedInv
  <2>1. /\ Done(b, i) => FollowsRules(b, i)
        /\ ~Done(b, i) => b \notin routed[i]
    BY DEF RoutedInv
  <2>2. CASE b # a \/ i # m
    <3>1. b \in routed'[i] <=> b \in routed[i]
      BY <1>2, <1>4, <2>2
    <3>2. FollowsRules(b, i) => FollowsRules(b, i)'
      BY <1>1, <1>5, <3>1 DEF FollowsRules
    <3> QED
      BY <1>2, <1>4, <2>1, <2>2, <3>1, <3>2
  <2>3. CASE b = a /\ i = m
    <3>1. a \in routed'[m] <=> dec.respond
      BY <1>4, <2>1, <2>3
    <3>2. FollowsRules(a, m)'
      BY <1>1, <1>3, <1>5, <3>1 DEF FollowsRules
    <3> QED
      BY <1>4, <2>3, <3>2
  <2> QED
    BY <2>2, <2>3
<1>14. RossInv'
  <2> SUFFICES ASSUME Untold
               PROVE  /\ \A r \in Replica : store'[r] # Joanne
                      /\ \A b \in Agent, i \in Msg : state'[b][i] # Joanne
                      /\ \A i \in InThread :
                            routed'[i] = IF Done(Ross, i)' THEN {Ross} ELSE {}
    BY <1>5 DEF RossInv
  <2>1. \A r \in Replica : store'[r] # Joanne
    BY <1>3, <1>6 DEF RossInv, TypeOK
  <2>2. \A b \in Agent, i \in Msg : state'[b][i] # Joanne
    BY <1>1, AgentAssumption DEF RossInv, TypeOK, Agent
  <2>3. Ross \in Agent
    BY DEF Agent
  <2>4. ASSUME NEW i \in InThread
        PROVE  routed'[i] = IF Done(Ross, i)' THEN {Ross} ELSE {}
    <3>1. routed[i] = IF Done(Ross, i) THEN {Ross} ELSE {}
      BY DEF RossInv
    <3>2. CASE i # m
      BY <1>2, <1>4, <2>3, <3>1, <3>2
    <3>3. CASE i = m /\ a # Ross
      BY <1>2, <1>3, <1>4, <2>3, <3>1, <3>3
    <3>4. CASE i = m /\ a = Ross
      BY <1>3, <1>4, <3>1, <3>4
    <3> QED
      BY <3>2, <3>3, <3>4
  <2> QED
    BY <2>1, <2>2, <2>4
<1> QED
  BY <1>8, <1>9, <1>10, <1>11, <1>12, <1>13, <1>14

LEMMA StutterKeepsInv == ASSUME Inv, UNCHANGED vars PROVE Inv'
<1> USE DEF Inv
<1>1. UNCHANGED <<setting, fresh, inherited, posted, before, pc, state, store, routed>>
  BY DEF vars
<1>2. /\ InThread' = InThread /\ Mentions(InThread)' = Mentions(InThread)
      /\ Lock' = Lock /\ (Working' <=> Working) /\ (Untold' <=> Untold)
      /\ \A b : ReplicaOf(b)' = ReplicaOf(b)
      /\ \A i : /\ IsNewThread(i)' <=> IsNewThread(i)
                /\ Given(i)' = Given(i) /\ (Writes(i)' <=> Writes(i))
                /\ MayOwn(i)' = MayOwn(i)
  BY <1>1, RulesStand
<1>3. TypeOK' /\ OrderInv'
  BY <1>1, <1>2 DEF TypeOK, OrderInv, Handled
<1>4. NoneInv' /\ StateInv'
  BY <1>1, <1>2 DEF NoneInv, StateInv, Done, InEffect
<1>5. StoreInv'
  <2>1. \A a \in Agent : /\ NoMentionYet(a)' <=> NoMentionYet(a)
                         /\ \A i : NoMentionSince(i, a)' <=> NoMentionSince(i, a)
    BY <1>1, <1>2 DEF NoMentionYet, NoMentionSince, Together, Done
  <2> QED
    BY <1>1, <1>2, <2>1 DEF StoreInv, Done
<1>6. RoutedInv'
  BY <1>1, <1>2 DEF RoutedInv, FollowsRules, Done
<1>7. RossInv'
  BY <1>1, <1>2 DEF RossInv, Done
<1> QED
  BY <1>3, <1>4, <1>5, <1>6, <1>7

(* ------------------------------ theorems --------------------------------- *)

\* The state of the thread stays as the invariant says, whatever the deployment,
\* the faults of the store and the length of the thread (dispatcher.go:94-189).
THEOREM RoutingInvariant == Spec => []Inv
<1>1. Init => Inv
  BY InitHasInv
<1>2. Inv /\ [Next]_vars => Inv'
  <2> SUFFICES ASSUME Inv, [Next]_vars PROVE Inv'
    OBVIOUS
  <2>1. ASSUME NEW mentions \in SUBSET Agent, Post(mentions) PROVE Inv'
    BY <2>1, PostKeepsInv
  <2>2. ASSUME NEW a \in Agent, NEW m \in Msg, ResolveState(a, m) PROVE Inv'
    BY <2>2, ResolveKeepsInv
  <2>3. ASSUME NEW a \in Agent, NEW m \in Msg, DispatchMessage(a, m) PROVE Inv'
    BY <2>3, DispatchKeepsInv
  <2>4. CASE Expire
    BY <2>4, ExpireKeepsInv
  <2>5. CASE UNCHANGED vars
    BY <2>5, StutterKeepsInv
  <2> QED
    BY <2>1, <2>2, <2>3, <2>4, <2>5 DEF Next, Finished
<1> QED
  BY <1>1, <1>2, PTL DEF Spec

\* In a locked channel or with stores that work, every message is answered by those
\* it mentions, otherwise by an owner that was made before it or beside it and that no
\* mention dealt with in between had replaced, however the handlers of both agents
\* overlap (routing.go:28-36, 89-98; dispatcher.go:135-138).
THEOREM RulesAreFollowed == Spec => []RoutedAsRuled
<1>1. Inv => RoutedAsRuled
  BY DEF Inv, RoutedAsRuled, RoutedInv, Working, Done
<1> QED
  BY <1>1, RoutingInvariant, PTL

\* Without failures each store ends up naming an owner made by a message that no
\* mention came after, however the agents' reads and writes overlapped
\* (dispatcher.go:170-189).
THEOREM StoreIsFollowed == Spec => []StoreFollowsMentions
<1>1. Inv => StoreFollowsMentions
  <2> SUFFICES ASSUME Inv, Working, InThread = Handled, posted # << >>, NEW a \in Agent
               PROVE  store[ReplicaOf(a)] \in IF Lock # None THEN {Lock}
                                              ELSE MayBeRecorded(InThread, InThread)
    BY DEF StoreFollowsMentions, Working
  <2> USE DEF Inv
  <2>1. 1 \in InThread /\ InThread \subseteq Msg
    BY PostedType, EmptySeq DEF TypeOK, InThread
  <2>2. \A m \in InThread : Done(a, m)
    BY DEF Handled, Done
  <2>3. Done(a, 1) /\ 1 \in Msg /\ Together(a, a)
    BY <2>1, <2>2 DEF Together
  <2>4. CASE Lock # None
    BY <2>3, <2>4 DEF StoreInv
  <2>5. CASE Lock = None
    <3>1. CASE store[ReplicaOf(a)] = inherited /\ NoMentionYet(a)
      <4>1. inherited # None
        BY <2>3, <3>1 DEF NoneInv
      <4>2. Mentions(InThread) = {}
        BY <2>2, <2>3, <3>1 DEF NoMentionYet, Mentions
      <4>3. InEffect(inherited) \in MayBeRecorded(InThread, InThread)
        BY <4>2, HeldFromTheStart
      <4> QED
        BY <2>5, <3>1, <4>1, <4>3 DEF InEffect
    <3>2. ASSUME NEW i \in InThread, Writes(i), store[ReplicaOf(a)] = Given(i),
                 NoMentionSince(i, a)
          PROVE  store[ReplicaOf(a)] \in MayBeRecorded(InThread, InThread)
      <4>1. \A j \in Mentions(InThread) : i \notin before[j]
        BY <2>2, <2>3, <3>2 DEF NoMentionSince, Mentions
      <4> QED
        BY <3>2, <4>1, MadeBy
    <3> QED
      BY <2>5, <3>1, <3>2 DEF StoreInv
  <2> QED
    BY <2>4, <2>5
<1> QED
  BY <1>1, RoutingInvariant, PTL

\* Ross alone answers a thread that was never Joanne's, with any faults of the
\* store (redis_store.go:20-30, 51-59).
THEOREM RossCoversTheThread == Spec => []RossCovers
<1>1. Inv => RossCovers
  <2> SUFFICES ASSUME Inv, Untold, NEW m \in Handled PROVE routed[m] = {Ross}
    BY DEF RossCovers, Untold
  <2>1. m \in InThread /\ Done(Ross, m)
    BY DEF Inv, OrderInv, Handled, Done, Agent
  <2> QED
    BY <2>1 DEF Inv, RossInv
<1> QED
  BY <1>1, RoutingInvariant, PTL

=============================================================================
