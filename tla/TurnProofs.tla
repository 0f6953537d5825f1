----------------------------- MODULE TurnProofs -----------------------------
(* Theorems about a turn: its slots, settings, preamble, scratchpad and reply, *)
(* for any pool, allow lists, channel, keys, configurations and texts.         *)
EXTENDS Turn, FiniteSetTheorems, SequenceTheorems, WellFoundedInduction, TLAPS

USE DEF poolVars, spawnVars, contextVars, padVars, turnVars

(* ----------------------- numbers and sequences --------------------------- *)

\* A set of naturals that is not empty has a least element, which is Min.
LEMMA LeastNat ==
    ASSUME NEW S \in SUBSET Nat, S # {}
    PROVE  Min(S) \in S /\ \A n \in S : Min(S) <= n
<1> DEFINE R == {ss \in Nat \X Nat : ss[1] < ss[2]}
<1>1. R = OpToRel(<, Nat)
  BY DEF OpToRel
<1>2. IsWellFoundedOn(R, Nat)
  BY <1>1, NatLessThanWellFounded, Zenon
<1>3. PICK m \in S : \A n \in S : ~ (<<n, m>> \in R)
  <2> HIDE DEF R
  <2> QED
    BY <1>2, WFMin
<1>4. ASSUME NEW n \in S PROVE m <= n
  <2>1. m \in Nat /\ n \in Nat /\ <<n, m>> \in Nat \X Nat
    OBVIOUS
  <2>2. ~(n < m)
    BY <1>3, <2>1
  <2> QED
    BY <2>1, <2>2
<1> QED
  BY <1>4 DEF Min

\* One lap of a cycle of n places starting at place c.
LEMMA Lap ==
    ASSUME NEW n \in Nat \ {0}, NEW c \in 0..(n - 1)
    PROVE  /\ \A i \in 1..n : (c + i - 1) % n \in 0..(n - 1)
           /\ \A k \in 1..n : \E i \in 1..n : (c + i - 1) % n = k - 1
           /\ (c + 1) % n \in 0..(n - 1)
<1>1. \A a \in Int : a % n \in 0..(n - 1)
  OBVIOUS
<1>2. ASSUME NEW a \in 0..(n - 1) PROVE a % n = a /\ (a + n) % n = a
  BY <1>1
<1>3. ASSUME NEW k \in 1..n PROVE \E i \in 1..n : (c + i - 1) % n = k - 1
  <2>1. CASE k - 1 >= c
    <3>1. k - c \in 1..n /\ c + (k - c) - 1 = k - 1 /\ k - 1 \in 0..(n - 1)
      BY <2>1
    <3> QED
      BY <3>1, <1>2
  <2>2. CASE k - 1 < c
    <3>1. k - c + n \in 1..n /\ c + (k - c + n) - 1 = (k - 1) + n /\ k - 1 \in 0..(n - 1)
      BY <2>2
    <3> QED
      BY <3>1, <1>2
  <2> QED
    BY <2>1, <2>2
<1>4. ASSUME NEW i \in 1..n PROVE (c + i - 1) % n \in 0..(n - 1)
  BY <1>1
<1> QED
  BY <1>1, <1>3, <1>4

\* A sequence without repetitions is as long as its set is large.
LEMMA InjectiveLength ==
    ASSUME NEW S, NEW s \in Seq(S), IsInjective(s)
    PROVE  IsFiniteSet(ToSet(s)) /\ Cardinality(ToSet(s)) = Len(s)
<1>1. s \in Bijection(1..Len(s), ToSet(s))
  BY DEF Bijection, Injection, Surjection, IsInjective, ToSet
<1>2. Len(s) \in Nat
  BY LenProperties
<1>3. IsFiniteSet(1..Len(s)) /\ Cardinality(1..Len(s)) = Len(s)
  BY <1>2, FS_Interval
<1> QED
  BY <1>1, <1>3, FS_Bijection DEF ExistsBijection

(* ------------------------------- the pool -------------------------------- *)

\* What the attempts of a spawn keep true.  A slot is tried once per attempt.
PoolInv ==
    /\ slots \in Seq(SlotNumber)
    /\ slots = << >> => attempt = 0 /\ tried = {}
    /\ slots # << >> =>
          Cardinality(tried) = IF spawn = "pick" THEN attempt ELSE attempt + 1
    /\ spawn = "pick" /\ attempt # 0 => slot \in ToSet(slots) \ tried
    /\ spawn \in {"running", "exited"} => slot \in ToSet(slots) \cup {NoSlot}
NoTurn ==
    /\ slots = << >> /\ attempt = 0 /\ tried = {} /\ slot = NoSlot
    /\ maxAttempts = 0 /\ counter = 0 /\ events = 0

\* The first of some slots in rotation is one of them.
LEMMA FirstOfIsOne ==
    ASSUME PoolTypeOK, slots \in Seq(SlotNumber), NEW some,
           some \subseteq ToSet(slots), some # {}
    PROVE  FirstOf(some) \in some
<1> DEFINE n == Len(slots)
<1>1. n \in Nat \ {0} /\ counter \in 0..(n - 1) /\ DOMAIN slots = 1..n
  BY EmptySeq, LenProperties DEF PoolTypeOK, ToSet
<1>2. DOMAIN Rotation = 1..n
  BY DEF Rotation
<1>3. PICK k \in 1..n : slots[k] \in some
  BY <1>1 DEF ToSet
<1>4. PICK i \in 1..n : (counter + i - 1) % n = k - 1
  BY <1>1, Lap
<1>5. Rotation[i] = slots[k]
  BY <1>1, <1>4 DEF Rotation
<1> DEFINE S == {j \in DOMAIN Rotation : Rotation[j] \in some}
<1>6. S \in SUBSET Nat /\ i \in S
  BY <1>2, <1>3, <1>5
<1>7. Min(S) \in S
  <2> HIDE DEF S
  <2> QED
    BY <1>6, LeastNat
<1> QED
  BY <1>7 DEF FirstOf

\* Of a set of slots that is not empty, some recover soonest.
LEMMA SomeSoonest ==
    ASSUME PoolTypeOK, slots # << >>, slots \in Seq(SlotNumber)
    PROVE  \E s \in ToSet(slots) : \A t \in ToSet(slots) : cooldown[s] <= cooldown[t]
<1> DEFINE S == {cooldown[s] : s \in ToSet(slots)}
<1>1. ToSet(slots) # {} /\ ToSet(slots) \subseteq SlotNumber
  <2>1. Len(slots) \in Nat \ {0} /\ DOMAIN slots = 1..Len(slots)
    BY EmptySeq, LenProperties
  <2>2. slots[1] \in ToSet(slots)
    BY <2>1 DEF ToSet
  <2> QED
    BY <2>2 DEF PoolTypeOK
<1>2. S \in SUBSET Nat /\ S # {}
  BY <1>1 DEF PoolTypeOK
<1>3. Min(S) \in S /\ \A n \in S : Min(S) <= n
  <2> HIDE DEF S
  <2> QED
    BY <1>2, LeastNat
<1> QED
  BY <1>3

\* Next returns a slot that is not limited, or if all are, one of those that recover
\* soonest; none only from an empty pool.
LEMMA NextSlotIs ==
    ASSUME PoolTypeOK, slots \in Seq(SlotNumber)
    PROVE  /\ slots = << >> => NextSlot = NoSlot
           /\ slots # << >> =>
                /\ NextSlot \in ToSet(slots)
                /\ Cooling(NextSlot) =>
                      \A s \in ToSet(slots) : cooldown[NextSlot] <= cooldown[s]
<1> DEFINE free == {s \in ToSet(slots) : ~Cooling(s)}
           soonest == {s \in ToSet(slots) :
                          \A t \in ToSet(slots) : cooldown[s] <= cooldown[t]}
<1>1. CASE slots = << >>
  BY <1>1 DEF NextSlot
<1>2. CASE slots # << >> /\ free # {}
  <2>1. NextSlot = FirstOf(free)
    BY <1>2 DEF NextSlot
  <2>2. FirstOf(free) \in free
    BY <1>2, FirstOfIsOne
  <2> QED
    BY <1>2, <2>1, <2>2
<1>3. CASE slots # << >> /\ free = {}
  <2>1. NextSlot = FirstOf(soonest)
    BY <1>3 DEF NextSlot
  <2>2. soonest # {}
    BY <1>3, SomeSoonest
  <2>3. FirstOf(soonest) \in soonest
    BY <2>2, FirstOfIsOne
  <2> QED
    BY <1>3, <2>1, <2>3
<1> QED
  BY <1>1, <1>2, <1>3

\* What is tried is finite, and there are no more slots than numbers.
LEMMA TriedIsFinite ==
    ASSUME PoolTypeOK, slots \in Seq(SlotNumber)
    PROVE  /\ IsFiniteSet(tried) /\ IsFiniteSet(ToSet(slots))
           /\ Cardinality(ToSet(slots)) = Len(slots)
           /\ Cardinality(tried) \in 0..Len(slots)
           /\ Cardinality(tried) = Len(slots) => tried = ToSet(slots)
           /\ Cardinality(SlotNumber) \in Nat /\ Len(slots) \in 0..Cardinality(SlotNumber)
<1>1. IsFiniteSet(ToSet(slots)) /\ Cardinality(ToSet(slots)) = Len(slots)
  BY InjectiveLength DEF PoolTypeOK
<1>2. IsFiniteSet(SlotNumber) /\ ToSet(slots) \subseteq SlotNumber /\ tried \subseteq ToSet(slots)
  BY SlotAssumption DEF PoolTypeOK
<1>3. Cardinality(ToSet(slots)) <= Cardinality(SlotNumber)
  BY <1>2, FS_Subset
<1>4. /\ IsFiniteSet(tried) /\ Cardinality(tried) <= Cardinality(ToSet(slots))
      /\ Cardinality(tried) = Cardinality(ToSet(slots)) => tried = ToSet(slots)
  BY <1>1, <1>2, FS_Subset
<1>5. /\ Cardinality(tried) \in Nat /\ Cardinality(ToSet(slots)) \in Nat
      /\ Cardinality(SlotNumber) \in Nat
  BY <1>1, <1>2, <1>4, FS_CardinalityType
<1> QED
  BY <1>1, <1>3, <1>4, <1>5

\* An environment lists its slots without repetitions.
LEMMA EnvironIsSorted ==
    ASSUME NEW s \in FromEnviron
    PROVE  /\ s \in Seq(SlotNumber) /\ IsInjective(s) /\ ToSet(s) \subseteq SlotNumber
           /\ Len(s) \in Nat
<1>1. Cardinality(SlotNumber) \in Nat
  BY SlotAssumption, FS_CardinalityType
<1>2. PICK n \in 0..Cardinality(SlotNumber) : s \in [1..n -> SlotNumber]
  BY DEF FromEnviron
<1>3. s \in Seq(SlotNumber) /\ DOMAIN s = 1..n /\ n \in Nat
  BY <1>1, <1>2, SeqDef
<1>4. \A i, j \in 1..n : i < j => s[i] < s[j]
  BY <1>3 DEF FromEnviron
<1>5. \A i \in 1..n : s[i] \in Nat
  BY <1>2, SlotAssumption
<1>6. ASSUME NEW i \in 1..n, NEW j \in 1..n, s[i] = s[j] PROVE i = j
  <2>1. ~(i < j) /\ ~(j < i)
    BY <1>4, <1>5, <1>6
  <2> QED
    BY <2>1, <1>3
<1> QED
  BY <1>2, <1>3, <1>6, LenProperties DEF IsInjective, ToSet

\* The steps of the pool keep its invariant, and a retry goes to a slot that is
\* neither tried nor limited.
LEMMA PoolSteps ==
    ASSUME PoolTypeOK, PoolInv, PoolStep
    PROVE  PoolTypeOK' /\ PoolInv'
<1> USE DEF PoolTypeOK, PoolInv
<1>0. /\ slots \in Seq(SlotNumber) /\ Len(slots) \in Nat
      /\ slots # << >> => Len(slots) > 0
      /\ slots # << >> =>
           counter + 1 \in Nat /\ (counter + 1) % Len(slots) \in 0..(Len(slots) - 1)
  BY EmptySeq, LenProperties, Lap
<1>1. Advance => counter' \in Nat /\ (slots # << >> => counter' < Len(slots))
  BY <1>0 DEF Advance
<1>2. CASE Start
  <2>1. CASE slots = << >>
    <3>1. slot' = NoSlot /\ tried' = {}
      BY <1>2, <2>1, NextSlotIs DEF Start, ToSet
    <3> QED
      BY <1>1, <1>2, <2>1, <3>1 DEF Start, ToSet
  <2>2. CASE slots # << >>
    <3>1. slot' \in ToSet(slots) /\ slot' \notin tried /\ slot' # NoSlot
      BY <1>0, <1>2, <2>2, NextSlotIs, TriedIsFinite, FS_EmptySet, SlotAssumption DEF Start
    <3>2. tried' = tried \cup {slot'} /\ tried' \subseteq ToSet(slots)
      BY <1>2, <3>1, SlotAssumption DEF Start
    <3>3. Cardinality(tried') = attempt + 1
      BY <1>2, <2>2, <3>1, <3>2, FS_AddElement, TriedIsFinite DEF Start
    <3> QED
      BY <1>1, <1>2, <2>2, <3>1, <3>2, <3>3 DEF Start
  <2> QED
    BY <2>1, <2>2
<1>3. CASE Exit
  BY <1>3 DEF Exit
<1>4. CASE Decide
  <2>1. CASE spawn' = "over"
    BY <1>4, <2>1 DEF Decide
  <2>2. CASE spawn' = "pick"
    <3>1. Others # {} /\ slot' = FirstOf(Others) /\ attempt' = attempt + 1
      BY <1>4, <2>2 DEF Decide, ShouldRetry, Decision
    <3>2. slot' \in Others
      BY <3>1, FirstOfIsOne DEF Others
    <3>3. slots # << >>
      BY <3>2 DEF Others, ToSet
    <3>4. Cardinality(tried) # Len(slots)
      BY <3>2, TriedIsFinite DEF Others
    <3>5. attempt + 1 \in 0..Cardinality(SlotNumber)
      BY <1>4, <3>3, <3>4, TriedIsFinite DEF Decide
    <3> QED
      BY <1>4, <2>2, <3>1, <3>2, <3>3, <3>5 DEF Decide, Others
  <2> QED
    BY <1>4, <2>1, <2>2 DEF Decide
<1>5. CASE OtherDraw
  BY <1>1, <1>5, SlotAssumption DEF OtherDraw, Elsewhere
<1>6. CASE Tick
  <2>1. cooldown' \in [SlotNumber -> Nat]
    BY <1>6 DEF Tick, Cooling
  <2> QED
    BY <1>6, <2>1, SlotAssumption DEF Tick, Elsewhere
<1>7. CASE \E s \in ToSet(slots) : ReportLimit(s)
  <2>1. PICK s \in ToSet(slots), ahead \in Limits :
           cooldown' = [cooldown EXCEPT ![s] = IF ahead > 0 THEN ahead ELSE 0]
    BY <1>7 DEF ReportLimit, MarkLimited
  <2>2. cooldown' \in [SlotNumber -> Nat]
    BY <2>1, SlotAssumption
  <2> QED
    BY <1>7, <2>2, SlotAssumption DEF ReportLimit, Elsewhere
<1> QED
  BY <1>2, <1>3, <1>4, <1>5, <1>6, <1>7 DEF PoolStep

\* A Pool is built and goes out of scope.
LEMMA SpawnBegins ==
    ASSUME PoolTypeOK, PoolInv, NoTurn, BeginSpawn
    PROVE  PoolTypeOK' /\ PoolInv'
<1>1. /\ slots' \in Seq(SlotNumber) /\ IsInjective(slots') /\ Len(slots') \in Nat
      /\ ToSet(slots') \subseteq SlotNumber /\ (slots' # << >> => Len(slots') > 0)
  BY EnvironIsSorted, EmptySeq DEF BeginSpawn
<1>2. counter' \in Nat /\ (slots' # << >> => counter' < Len(slots'))
  BY <1>1 DEF BeginSpawn
<1> QED
  BY <1>1, <1>2, FS_EmptySet DEF BeginSpawn, PoolTypeOK, PoolInv, NoTurn

LEMMA SpawnEnds ==
    ASSUME PoolTypeOK, EndSpawn
    PROVE  PoolTypeOK' /\ (spawn # "pick" => PoolInv') /\ NoTurn'
<1>1. ToSet(<< >>) = {} /\ IsInjective(<< >>) /\ << >> \in Seq(SlotNumber) /\ Len(<< >>) = 0
  BY EmptySeq DEF ToSet, IsInjective
<1>2. 0 \in 0..Cardinality(SlotNumber) /\ 0 \in 0..MaxEvents
  BY SlotAssumption, FS_CardinalityType
<1> QED
  BY <1>1, <1>2 DEF EndSpawn, PoolTypeOK, PoolInv, NoTurn, NoExit, Exits

\* A new slot is at rest only if all are, and pays for the attempt.
LEMMA StepRests ==
    ASSUME PoolTypeOK, PoolInv, PoolTypeOK', PoolStep, slot' \notin {slot, NoSlot}
    PROVE  /\ \A s \in ToSet(slots) \ tried :
                 Cooling(slot') => cooldown[s] >= cooldown[slot']
           /\ Credential' = slot'
<1>1. Credential' = slot'
  BY DEF Credential, Scrub, PoolTypeOK
<1>2. CASE Start
  BY <1>1, <1>2, NextSlotIs DEF Start, PoolInv
<1>3. CASE Decide
  <2>1. Others # {} /\ slot' = FirstOf(Others)
    BY <1>3 DEF Decide, ShouldRetry, Decision
  <2>2. slot' \in Others
    BY <2>1, FirstOfIsOne DEF Others, PoolInv
  <2> QED
    BY <1>1, <2>2 DEF Others
<1>4. Start \/ Decide
  BY DEF PoolStep, Exit, OtherDraw, Tick, ReportLimit
<1> QED
  BY <1>1, <1>2, <1>3, <1>4

\* No slot is tried twice, and no fast failure is shown while a slot is left.
LEMMA StepIsComplete ==
    ASSUME PoolTypeOK, PoolInv, Decide
    PROVE  /\ spawn' = "pick" => slot' \notin tried
           /\ spawn' = "over" /\ maxAttempts = Len(slots)
              /\ exit = [how |-> "failed", posted |-> FALSE, fast |-> TRUE] =>
                \A s \in ToSet(slots) : s \in tried \/ Cooling(s)
<1>1. ASSUME spawn' = "pick" PROVE slot' \notin tried
  <2>1. Others # {} /\ slot' = FirstOf(Others)
    BY <1>1 DEF Decide, ShouldRetry, Decision
  <2> QED
    BY <2>1, FirstOfIsOne DEF Others, PoolInv
<1>2. ASSUME spawn' = "over", maxAttempts = Len(slots),
             exit = [how |-> "failed", posted |-> FALSE, fast |-> TRUE],
             NEW s \in ToSet(slots), s \notin tried, ~Cooling(s)
      PROVE  FALSE
  <2>1. s \in Others /\ slots # << >>
    BY <1>2 DEF Others, ToSet
  <2>2. Cardinality(tried) = attempt + 1 /\ Len(slots) \in Nat /\ attempt \in Nat
    BY <2>1, TriedIsFinite DEF Decide, PoolInv, PoolTypeOK
  <2>3. Cardinality(tried) < Len(slots)
    BY <1>2, <2>1, <2>2, TriedIsFinite DEF PoolInv
  <2>4. attempt < AllowedAttempts(maxAttempts) - 1
    BY <1>2, <2>2, <2>3 DEF AllowedAttempts
  <2>5. ShouldRetry(Decision(attempt, maxAttempts, exit.how, exit.posted,
                             Others # {}, exit.fast))
    BY <1>2, <2>1, <2>4 DEF ShouldRetry, Decision
  <2> QED
    BY <1>2, <2>5 DEF Decide
<1> QED
  BY <1>1, <1>2

(* ----------------------------- the preamble ------------------------------ *)

Entry == [id : ToSet(roots), count : 0..Len(replies)]

\* The messages are numbered apart, and what the first call saw is still there when
\* the second one is made.
ContextInv ==
    /\ roots \in Seq(1..Messages) /\ replies \in Seq(1..Messages)
    /\ IsInjective(roots) /\ IsInjective(replies)
    /\ ToSet(roots) \cap ToSet(replies) = {}
    /\ threadTS \in ToSet(roots)
    /\ trigger = threadTS \/ trigger \in ToSet(replies)
    /\ wordless \in BOOLEAN /\ fetched \in 0..2
    /\ fetched < 2 => context = NoContext
    /\ fetched = 1 => hist \in Seq(Entry)
    /\ \A i \in DOMAIN context.root : context.root[i].id \in ToSet(roots)
    /\ ToSet(context.thread) \subseteq {threadTS} \cup ToSet(replies)
    /\ PreambleIsWhole
NoFetch == fetched = 2 /\ context = NoContext /\ hist = << >>

\* The elements of a sequence.
LEMMA InSeq ==
    ASSUME NEW S, NEW s \in Seq(S)
    PROVE  ToSet(s) \subseteq S
BY ElementOfSeq, LenProperties DEF ToSet

\* The elements of two sequences in a row, which repeat none if they share none.
LEMMA Joined ==
    ASSUME NEW S, NEW s \in Seq(S), NEW t \in Seq(S)
    PROVE  /\ ToSet(s \o t) = ToSet(s) \cup ToSet(t)
           /\ IsInjective(s) /\ IsInjective(t) /\ ToSet(s) \cap ToSet(t) = {}
              => IsInjective(s \o t)
<1>1. /\ Len(s) \in Nat /\ Len(t) \in Nat
      /\ DOMAIN s = 1..Len(s) /\ DOMAIN t = 1..Len(t)
  BY LenProperties
<1>2. /\ DOMAIN (s \o t) = 1..(Len(s) + Len(t))
      /\ \A i \in 1..(Len(s) + Len(t)) :
            (s \o t)[i] = IF i <= Len(s) THEN s[i] ELSE t[i - Len(s)]
  BY <1>1, ConcatProperties, LenProperties
<1>3. ToSet(s \o t) \subseteq ToSet(s) \cup ToSet(t)
  <2>1. ASSUME NEW i \in 1..(Len(s) + Len(t))
        PROVE  (s \o t)[i] \in ToSet(s) \cup ToSet(t)
    <3>1. CASE i <= Len(s)
      BY <1>1, <1>2, <3>1 DEF ToSet
    <3>2. CASE ~(i <= Len(s))
      <4>1. i - Len(s) \in 1..Len(t)
        BY <1>1, <3>2
      <4> QED
        BY <1>1, <1>2, <3>2, <4>1 DEF ToSet
    <3> QED
      BY <3>1, <3>2
  <2> QED
    BY <1>2, <2>1 DEF ToSet
<1>4. ASSUME NEW i \in 1..Len(s) PROVE s[i] \in ToSet(s \o t)
  <2>1. i \in 1..(Len(s) + Len(t)) /\ i <= Len(s)
    BY <1>1
  <2> QED
    BY <1>2, <2>1 DEF ToSet
<1>5. ASSUME NEW i \in 1..Len(t) PROVE t[i] \in ToSet(s \o t)
  <2>1. Len(s) + i \in 1..(Len(s) + Len(t)) /\ ~(Len(s) + i <= Len(s))
        /\ (Len(s) + i) - Len(s) = i
    BY <1>1
  <2>2. (s \o t)[Len(s) + i] = t[i]
    BY <1>2, <2>1
  <2> QED
    BY <1>2, <2>1, <2>2 DEF ToSet
<1>6. ASSUME IsInjective(s), IsInjective(t), ToSet(s) \cap ToSet(t) = {},
             NEW i \in 1..(Len(s) + Len(t)), NEW j \in 1..(Len(s) + Len(t)),
             (s \o t)[i] = (s \o t)[j]
      PROVE  i = j
  <2>1. CASE i <= Len(s) /\ j <= Len(s)
    BY <1>1, <1>2, <1>6, <2>1 DEF IsInjective
  <2>2. CASE ~(i <= Len(s)) /\ ~(j <= Len(s))
    <3>1. i - Len(s) \in 1..Len(t) /\ j - Len(s) \in 1..Len(t)
      BY <1>1, <2>2
    <3>2. i - Len(s) = j - Len(s)
      BY <1>1, <1>2, <1>6, <2>2, <3>1 DEF IsInjective
    <3> QED
      BY <1>1, <3>2
  <2>3. ASSUME NEW k \in 1..Len(s), NEW l \in 1..Len(t) PROVE s[k] # t[l]
    BY <1>1, <1>6 DEF ToSet
  <2>4. CASE i <= Len(s) /\ ~(j <= Len(s))
    <3>1. i \in 1..Len(s) /\ j - Len(s) \in 1..Len(t)
      BY <1>1, <2>4
    <3> QED
      BY <1>2, <1>6, <2>3, <2>4, <3>1
  <2>5. CASE ~(i <= Len(s)) /\ j <= Len(s)
    <3>1. j \in 1..Len(s) /\ i - Len(s) \in 1..Len(t)
      BY <1>1, <2>5
    <3> QED
      BY <1>2, <1>6, <2>3, <2>5, <3>1
  <2> QED
    BY <2>1, <2>2, <2>4, <2>5
<1>7. ToSet(s) \cup ToSet(t) \subseteq ToSet(s \o t)
  BY <1>1, <1>4, <1>5 DEF ToSet
<1>8. IsInjective(s) /\ IsInjective(t) /\ ToSet(s) \cap ToSet(t) = {} => IsInjective(s \o t)
  BY <1>2, <1>6 DEF IsInjective
<1> QED
  BY <1>3, <1>7, <1>8

\* One more message at the end.
LEMMA Appended ==
    ASSUME NEW S, NEW s \in Seq(S), NEW e \in S, e \notin ToSet(s), IsInjective(s)
    PROVE  /\ Append(s, e) \in Seq(S) /\ Len(Append(s, e)) = Len(s) + 1
           /\ ToSet(Append(s, e)) = ToSet(s) \cup {e} /\ IsInjective(Append(s, e))
<1>1. <<e>> \in Seq(S) /\ IsInjective(<<e>>) /\ ToSet(<<e>>) = {e}
  BY DEF IsInjective, ToSet
<1>2. Append(s, e) = s \o <<e>>
  BY AppendIsConcat
<1>3. Append(s, e) \in Seq(S) /\ Len(Append(s, e)) = Len(s) + 1
  BY AppendProperties
<1>4. /\ ToSet(s \o <<e>>) = ToSet(s) \cup ToSet(<<e>>)
      /\ ToSet(s) \cap ToSet(<<e>>) = {} => IsInjective(s \o <<e>>)
  BY <1>1, Joined
<1> QED
  BY <1>1, <1>2, <1>3, <1>4

\* The lines of a thread are some of its messages, and all if each has a text.
LEMMA ThreadLinesAre ==
    ASSUME NEW S, NEW thread \in Seq(S)
    PROVE  /\ ThreadLines(thread) \in Seq(S)
           /\ ~wordless => ThreadLines(thread) = thread
<1>1. CASE \A i \in DOMAIN thread : HasText(thread[i])
  BY <1>1 DEF ThreadLines
<1>2. CASE ~(\A i \in DOMAIN thread : HasText(thread[i]))
  <2> DEFINE k == CHOOSE i \in DOMAIN thread : ~HasText(thread[i])
  <2>1. k \in 1..Len(thread) /\ ~HasText(thread[k]) /\ Len(thread) \in Nat
    BY <1>2, LenProperties
  <2>2. ThreadLines(thread) = RemoveAt(thread, k)
    BY <1>2 DEF ThreadLines
  <2> HIDE DEF k
  <2>3. SubSeq(thread, 1, k - 1) \in Seq(S) /\ SubSeq(thread, k + 1, Len(thread)) \in Seq(S)
    BY <2>1, ElementOfSeq, SubSeqProperties
  <2> QED
    BY <2>1, <2>2, <2>3, ConcatProperties DEF RemoveAt, HasText
<1> QED
  BY <1>1, <1>2

\* Its invariant gives the types of the preamble.
LEMMA ContextTypes ==
    ASSUME ContextInv
    PROVE  ContextTypeOK
<1>1. /\ Len(roots) \in Nat /\ Len(replies) \in Nat /\ Messages \in Nat
      /\ DOMAIN roots = 1..Len(roots)
  BY LenProperties DEF ContextInv, Messages
<1>2. threadTS \in 1..Messages
  BY <1>1, ElementOfSeq DEF ContextInv, ToSet
<1> DEFINE root == <<threadTS>>
<1>3. /\ root \in Seq(1..Messages) /\ ToSet(root) = {threadTS}
      /\ replies \in Seq(1..Messages)
  BY <1>2 DEF ToSet, ContextInv
<1>4. /\ ToSet(roots \o replies) = ToSet(roots) \cup ToSet(replies)
      /\ IsInjective(roots \o replies)
  BY Joined DEF ContextInv
<1>5. ToSet(<<threadTS>> \o replies) = {threadTS} \cup ToSet(replies)
  <2> HIDE DEF root
  <2>1. ToSet(root \o replies) = ToSet(root) \cup ToSet(replies)
    BY <1>3, Joined
  <2> QED
    BY <1>3, <2>1 DEF root
<1> QED
  BY <1>4, <1>5 DEF ContextInv, ContextTypeOK

\* What the first call returns.
LEMMA HistoryIs ==
    ASSUME ContextInv
    PROVE  History \in Seq(Entry)
<1> DEFINE n == IF Len(roots) < HistoryLimit THEN Len(roots) ELSE HistoryLimit
<1>1. /\ Len(roots) \in Nat /\ Len(replies) \in Nat /\ DOMAIN roots = 1..Len(roots)
      /\ n \in Nat /\ n <= Len(roots)
  BY LenProperties, ContextAssumption DEF ContextInv
<1>2. ASSUME NEW i \in 1..n
      PROVE  [id |-> roots[Len(roots) + 1 - i],
              count |-> IF roots[Len(roots) + 1 - i] = threadTS THEN Len(replies) ELSE 0]
                \in Entry
  <2>1. Len(roots) + 1 - i \in DOMAIN roots
    BY <1>1
  <2> QED
    BY <1>1, <2>1 DEF Entry, ToSet
<1>3. History \in [1..n -> Entry]
  BY <1>2 DEF History
<1> QED
  BY <1>1, <1>3, SeqDef

\* What the second call returns: messages of the thread, and all if they fit a page.
LEMMA RepliesAre ==
    ASSUME ContextInv
    PROVE  LET here == {threadTS} \cup ToSet(replies)
           IN  /\ Replies \in Seq(here) /\ Replies # << >>
               /\ Len(replies) < RepliesPage =>
                     ToSet(Replies) = here /\ Len(Replies) = Len(replies) + 1
<1> DEFINE here == {threadTS} \cup ToSet(replies)
           root == <<threadTS>>
           all == root \o replies
           page == IF Len(all) < RepliesPage THEN Len(all) ELSE RepliesPage
<1>1. /\ replies \in Seq(here) /\ root \in Seq(here)
      /\ Len(root) = 1 /\ ToSet(root) = {threadTS}
  <2>1. DOMAIN replies = 1..Len(replies) /\ Len(replies) \in Nat
    BY LenProperties DEF ContextInv
  <2>2. replies \in [1..Len(replies) -> ToSet(replies)]
    BY <2>1, LenProperties DEF ContextInv, ToSet
  <2>3. replies \in Seq(ToSet(replies))
    BY <2>1, <2>2, SeqDef
  <2> QED
    BY <2>3, SeqMonotonic DEF ToSet
<1>2. Len(replies) \in Nat
  BY LenProperties DEF ContextInv
<1>3. all \in Seq(here) /\ Len(all) = Len(replies) + 1 /\ ToSet(all) = here
  <2> HIDE DEF here, root
  <2>1. all \in Seq(here) /\ Len(all) = Len(root) + Len(replies)
    BY <1>1, ConcatProperties
  <2>2. ToSet(all) = ToSet(root) \cup ToSet(replies)
    BY <1>1, Joined
  <2> QED
    BY <1>1, <1>2, <2>1, <2>2 DEF here
<1>4. page \in 1..Len(all) /\ Len(all) \in Nat
  BY <1>2, <1>3, ContextAssumption
<1>5. Replies = SubSeq(all, 1, page)
  BY DEF Replies
<1> HIDE DEF all, page, here
<1>6. Replies \in Seq(here) /\ Len(Replies) = page
  BY <1>3, <1>4, <1>5, ElementOfSeq, SubSeqProperties
<1>7. ASSUME Len(replies) < RepliesPage PROVE page = Len(all)
  BY <1>2, <1>3, <1>7, ContextAssumption DEF page
<1>8. Len(replies) < RepliesPage => Replies = all
  BY <1>3, <1>5, <1>7, SubSeqFull
<1>9. Replies # << >>
  BY <1>4, <1>6, EmptySeq
<1> QED
  BY <1>3, <1>6, <1>8, <1>9 DEF here

\* People go on posting between the two calls.
LEMMA PostsKeep ==
    ASSUME ContextInv, PostRoot \/ PostReply
    PROVE  ContextInv'
<1> DEFINE new == Messages + 1
<1>1. /\ Len(roots) \in Nat /\ Len(replies) \in Nat /\ Messages \in Nat
      /\ 1..Messages \subseteq 1..new /\ new \in 1..new
  BY LenProperties DEF ContextInv, Messages
<1>2. roots \in Seq(1..new) /\ replies \in Seq(1..new)
  BY <1>1, SeqMonotonic DEF ContextInv
<1>3. new \notin ToSet(roots) /\ new \notin ToSet(replies)
  <2>1. ToSet(roots) \subseteq 1..Messages /\ ToSet(replies) \subseteq 1..Messages
    BY InSeq DEF ContextInv
  <2> QED
    BY <1>1, <2>1
<1>4. /\ fetched < 2 /\ context = NoContext /\ context' = context
      /\ UNCHANGED <<threadTS, trigger, wordless, hist, fetched>>
  BY DEF PostRoot, PostReply, ContextInv
<1>5. /\ \A i \in DOMAIN context'.root : FALSE
      /\ context'.thread = << >> /\ ToSet(context'.thread) = {}
  BY <1>4 DEF NoContext, ToSet
<1>6. CASE PostRoot
  <2>1. roots' = Append(roots, new) /\ replies' = replies
    BY <1>6 DEF PostRoot
  <2>2. /\ roots' \in Seq(1..new) /\ Len(roots') = Len(roots) + 1
        /\ ToSet(roots') = ToSet(roots) \cup {new} /\ IsInjective(roots')
    BY <1>1, <1>2, <1>3, <2>1, Appended DEF ContextInv
  <2>3. Messages' = new
    BY <1>1, <2>1, <2>2 DEF Messages
  <2>4. fetched = 1 => hist \in Seq(Entry')
    <3>1. Entry \subseteq Entry'
      BY <2>1, <2>2 DEF Entry
    <3> QED
      BY <3>1, SeqMonotonic DEF ContextInv
  <2> QED
    BY <1>2, <1>3, <1>4, <1>5, <2>1, <2>2, <2>3, <2>4 DEF ContextInv, PreambleIsWhole
<1>7. CASE PostReply
  <2>1. replies' = Append(replies, new) /\ roots' = roots
    BY <1>7 DEF PostReply
  <2>2. /\ replies' \in Seq(1..new) /\ Len(replies') = Len(replies) + 1
        /\ ToSet(replies') = ToSet(replies) \cup {new} /\ IsInjective(replies')
    BY <1>1, <1>2, <1>3, <2>1, Appended DEF ContextInv
  <2>3. Messages' = new
    BY <1>1, <2>1, <2>2 DEF Messages
  <2>4. fetched = 1 => hist \in Seq(Entry')
    <3>1. Entry \subseteq Entry'
      BY <1>1, <2>1, <2>2 DEF Entry
    <3> QED
      BY <3>1, SeqMonotonic DEF ContextInv
  <2> QED
    BY <1>2, <1>3, <1>4, <1>5, <2>1, <2>2, <2>3, <2>4 DEF ContextInv, PreambleIsWhole
<1> QED
  BY <1>6, <1>7

\* The first call, whether it fails or not.
LEMMA HistoryKeeps ==
    ASSUME ContextInv, FetchHistory
    PROVE  ContextInv'
<1>1. fetched' \in 1..2 /\ (fetched' = 1 => hist' \in Seq(Entry))
  BY HistoryIs DEF FetchHistory
<1>2. /\ UNCHANGED <<roots, replies, threadTS, trigger, wordless, context>>
      /\ Messages' = Messages /\ Entry' = Entry /\ context = NoContext
  BY DEF FetchHistory, Messages, Entry, ContextInv
<1> QED
  BY <1>1, <1>2 DEF ContextInv, PreambleIsWhole

\* The second call, whether it fails or not.
LEMMA RepliesKeep ==
    ASSUME ContextInv, FetchReplies
    PROVE  ContextInv'
<1> DEFINE here == {threadTS} \cup ToSet(replies)
<1>1. PICK thread \in {Replies, << >>} : context' = Format(hist, thread)
  BY DEF FetchReplies
<1>2. thread \in Seq(here) /\ ThreadLines(thread) \in Seq(here)
  BY <1>1, RepliesAre, EmptySeq, ThreadLinesAre
<1>3. ToSet(ThreadLines(thread)) \subseteq here
  BY <1>2, ElementOfSeq, LenProperties DEF ToSet
<1>4. /\ context'.thread = ThreadLines(thread)
      /\ DOMAIN context'.root = DOMAIN hist
      /\ \A i \in DOMAIN hist : /\ context'.root[i].id = hist[i].id
                               /\ context'.root[i].count = hist[i].count
  BY <1>1 DEF Format, RootLines, ReplyMetadata
<1>5. \A i \in DOMAIN hist : hist[i].id \in ToSet(roots) /\ hist[i].count \in 0..Len(replies)
  <2>1. hist \in Seq(Entry)
    BY DEF FetchReplies, ContextInv
  <2>2. \A i \in DOMAIN hist : hist[i] \in Entry
    BY <2>1, ElementOfSeq, LenProperties
  <2> QED
    BY <2>2 DEF Entry
<1>6. /\ UNCHANGED <<roots, replies, threadTS, trigger, wordless, hist>>
      /\ Messages' = Messages /\ fetched' = 2
  BY DEF FetchReplies, Messages
<1>7. PreambleIsWhole'
  <2>1. SUFFICES ASSUME context'.thread # << >>, ~wordless, Len(replies) < RepliesPage
                 PROVE  /\ trigger \in ToSet(context'.thread)
                        /\ \A i \in DOMAIN hist : Len(context'.thread) > hist[i].count
    BY <1>4, <1>6 DEF PreambleIsWhole
  <2>2. context'.thread = thread /\ thread = Replies
    BY <1>1, <1>2, <1>4, <2>1, ThreadLinesAre
  <2>3. ToSet(Replies) = here /\ Len(Replies) = Len(replies) + 1
    BY <2>1, RepliesAre
  <2>4. Len(replies) \in Nat
    BY LenProperties DEF ContextInv
  <2> QED
    BY <1>5, <2>2, <2>3, <2>4 DEF ContextInv
<1> QED
  BY <1>3, <1>4, <1>5, <1>6, <1>7 DEF ContextInv

\* A channel is there, and is left.
LEMMA ContextBegins ==
    ASSUME NoFetch, BeginContext
    PROVE  ContextInv'
<1>1. PICK n \in 1..MaxMessages, k \in 0..(MaxMessages - 1) :
        /\ n + k <= MaxMessages
        /\ roots' = [i \in 1..n |-> i] /\ replies' = [i \in 1..k |-> n + i]
        /\ threadTS' \in 1..n
        /\ trigger' = IF k = 0 THEN threadTS' ELSE n + k
  BY DEF BeginContext
<1>2. n \in Nat \ {0} /\ k \in Nat
  BY ContextAssumption
<1>3. roots' \in [1..n -> 1..(n + k)] /\ replies' \in [1..k -> 1..(n + k)]
  BY <1>1, <1>2
<1>4. /\ roots' \in Seq(1..(n + k)) /\ replies' \in Seq(1..(n + k))
      /\ Len(roots') = n /\ Len(replies') = k
  BY <1>2, <1>3, SeqDef
<1>5. Messages' = n + k
  BY <1>4 DEF Messages
<1>6. /\ IsInjective(roots') /\ IsInjective(replies')
      /\ ToSet(roots') = 1..n /\ ToSet(replies') = (n + 1)..(n + k)
  <2>1. ToSet(roots') = 1..n /\ IsInjective(roots')
    BY <1>1 DEF ToSet, IsInjective
  <2>2. IsInjective(replies')
    BY <1>1, <1>2 DEF IsInjective
  <2>3. ToSet(replies') \subseteq (n + 1)..(n + k)
    BY <1>1, <1>2 DEF ToSet
  <2>4. ASSUME NEW m \in (n + 1)..(n + k) PROVE m \in ToSet(replies')
    <3>1. m - n \in 1..k /\ n + (m - n) = m
      BY <1>2
    <3>2. replies'[m - n] = m /\ m - n \in DOMAIN replies'
      BY <1>1, <3>1
    <3> QED
      BY <3>2 DEF ToSet
  <2> QED
    BY <2>1, <2>2, <2>3, <2>4
<1>7. /\ context' = NoContext /\ fetched' = 0 /\ wordless' \in BOOLEAN
  BY DEF BeginContext, NoFetch
<1> QED
  BY <1>1, <1>2, <1>4, <1>5, <1>6, <1>7 DEF ContextInv, PreambleIsWhole, NoContext, ToSet

Left ==
    /\ roots = <<1>> /\ replies = << >> /\ threadTS = 1 /\ trigger = 1
    /\ wordless = FALSE /\ context = NoContext /\ fetched = 2

LEMMA NothingFetched == Left => ContextInv
<1> SUFFICES ASSUME Left PROVE ContextInv
  OBVIOUS
<1> USE DEF Left
<1>1. /\ Len(<<1>>) = 1 /\ Len(<< >>) = 0 /\ Messages = 1
      /\ <<1>> \in Seq(1..1) /\ << >> \in Seq(1..1)
  BY EmptySeq DEF Messages
<1>2. /\ ToSet(<<1>>) = {1} /\ ToSet(<< >>) = {}
      /\ IsInjective(<<1>>) /\ IsInjective(<< >>)
  BY DEF ToSet, IsInjective
<1>3. /\ roots \in Seq(1..Messages) /\ replies \in Seq(1..Messages)
      /\ IsInjective(roots) /\ IsInjective(replies)
      /\ ToSet(roots) = {1} /\ ToSet(replies) = {}
  BY <1>1, <1>2
<1>4. context.thread = << >> /\ context.root = << >> /\ ToSet(context.thread) = {}
  BY <1>2 DEF NoContext
<1>5. DOMAIN context.root = {}
  BY <1>4
<1>6. PreambleIsWhole
  BY <1>4 DEF PreambleIsWhole
<1>7. \A i \in DOMAIN context.root : context.root[i].id \in ToSet(roots)
  BY <1>5
<1>8. threadTS \in ToSet(roots) /\ ToSet(roots) \cap ToSet(replies) = {}
  BY <1>3
<1>9. /\ wordless \in BOOLEAN /\ fetched \in 0..2
      /\ (fetched < 2 => context = NoContext) /\ (fetched = 1 => hist \in Seq(Entry))
  <2>1. wordless \in BOOLEAN
    BY Zenon
  <2>2. fetched \in 0..2 /\ fetched # 1
    OBVIOUS
  <2>3. fetched < 2 => context = NoContext
    OBVIOUS
  <2> QED
    BY <2>1, <2>2, <2>3
<1> QED
  BY <1>3, <1>4, <1>6, <1>7, <1>8, <1>9 DEF ContextInv

(* ----------------------------- the scratchpad ---------------------------- *)

Names == PadChannel \X Key
Found == Blob \cup {Missing}

\* What a channel's key holds is always something that a reader may find there.
PadInv ==
    /\ DOMAIN pad \subseteq Names
    /\ \A n \in DOMAIN pad : pad[n] \in Blob \ TooLarge
    /\ may \in [Names -> SUBSET Found]
    /\ \A n \in Names : Held(n) \in may[n]
    /\ last.exit \in 0..3 /\ commands \in 0..MaxCommands
    /\ last.cmd = "get" /\ last.exit # 1 => <<last.channel, last.key>> \in Names
    /\ ReadsOwnLatest

\* An operation on one name: what it holds afterwards is expected, and no other name
\* is touched.
OnName(name, blobs) ==
    /\ name \in Names
    /\ DOMAIN pad' \subseteq DOMAIN pad \cup {name}
    /\ Held(name)' \in blobs
    /\ \A n \in DOMAIN pad' : pad'[n] \in Blob \ TooLarge
    /\ \A n \in Names \ {name} : Held(n)' = Held(n)
    /\ blobs \subseteq Found
    /\ may' = [may EXCEPT ![name] = blobs]

LEMMA OnNameKeeps ==
    ASSUME PadInv, NEW name, NEW blobs, OnName(name, blobs),
           last'.cmd # "get", last'.exit \in 0..3, commands' \in 0..MaxCommands
    PROVE  PadInv'
<1>1. may' \in [Names -> SUBSET Found]
  BY DEF PadInv, OnName
<1>2. \A n \in Names : Held(n)' \in may'[n]
  BY DEF PadInv, OnName
<1> QED
  BY <1>1, <1>2 DEF PadInv, OnName, ReadsOwnLatest, Names, Key

\* What a write and a removal leave.
LEMMA WithIs ==
    ASSUME PadInv, NEW name \in Names, NEW blob \in Blob \ TooLarge, pad' = With(name, blob)
    PROVE  /\ DOMAIN pad' = DOMAIN pad \cup {name} /\ Held(name)' = blob
           /\ \A n \in DOMAIN pad' : pad'[n] \in Blob \ TooLarge
           /\ \A n \in Names \ {name} : Held(n)' = Held(n)
BY DEF PadInv, With, Held

LEMMA WithoutIs ==
    ASSUME PadInv, NEW name, pad' = Without(name)
    PROVE  /\ DOMAIN pad' = DOMAIN pad \ {name} /\ Held(name)' = Missing
           /\ \A n \in DOMAIN pad' : pad'[n] \in Blob \ TooLarge
           /\ \A n \in Names \ {name} : Held(n)' = Held(n)
BY DEF PadInv, Without, Held

LEMMA SameIs ==
    ASSUME PadInv, pad' = pad
    PROVE  /\ \A n : Held(n)' = Held(n)
           /\ \A n \in DOMAIN pad' : pad'[n] \in Blob \ TooLarge
BY DEF PadInv, Held

\* The commands and the expiry of a blob.
LEMMA PutKeeps ==
    ASSUME PadInv, NEW channel \in PadChannel \cup {NoChannel}, NEW raw \in RawKey,
           NEW blob \in Blob, Put(channel, raw, blob)
    PROVE  PadInv'
<1> DEFINE name == <<channel, Trim[raw]>>
<1>1. name \in Names /\ RedisKey(channel, raw) = name /\ blob \in Blob \ TooLarge
  BY DEF Put, Accepted, Names, Key, RedisKey
<1>2. last'.cmd # "get" /\ last'.exit \in 0..3 /\ commands' \in 0..MaxCommands
  BY PadAssumption DEF Put, Ran, PadInv
<1>3. CASE pad' = With(name, blob) /\ may' = [may EXCEPT ![name] = {blob}]
  <2>1. OnName(name, {blob})
    BY <1>1, <1>3, WithIs DEF OnName, Found
  <2> QED
    BY <1>2, <2>1, OnNameKeeps
<1>4. CASE /\ pad' \in {pad, With(name, blob)}
           /\ may' = [may EXCEPT ![name] = may[name] \cup {blob}]
  <2>1. may[name] \cup {blob} \subseteq Found /\ Held(name) \in may[name]
    BY <1>1 DEF PadInv, Found
  <2>2. OnName(name, may[name] \cup {blob})
    <3>1. CASE pad' = pad
      BY <1>1, <1>4, <2>1, <3>1, SameIs DEF OnName
    <3>2. CASE pad' = With(name, blob)
      BY <1>1, <1>4, <2>1, <3>2, WithIs DEF OnName
    <3> QED
      BY <1>4, <3>1, <3>2
  <2> QED
    BY <1>2, <2>2, OnNameKeeps
<1> QED
  BY <1>1, <1>3, <1>4 DEF Put, Expect

LEMMA DelKeeps ==
    ASSUME PadInv, NEW channel \in PadChannel \cup {NoChannel}, NEW raw \in RawKey,
           Del(channel, raw)
    PROVE  PadInv'
<1> DEFINE name == <<channel, Trim[raw]>>
<1>1. name \in Names /\ RedisKey(channel, raw) = name
  BY DEF Del, Accepted, Names, Key, RedisKey
<1>2. last'.cmd # "get" /\ last'.exit \in 0..3 /\ commands' \in 0..MaxCommands
  BY PadAssumption DEF Del, Ran, PadInv
<1>3. CASE pad' = Without(name) /\ may' = [may EXCEPT ![name] = {Missing}]
  <2>1. OnName(name, {Missing})
    BY <1>1, <1>3, WithoutIs DEF OnName, Found
  <2> QED
    BY <1>2, <2>1, OnNameKeeps
<1>4. CASE /\ pad' \in {pad, Without(name)}
           /\ may' = [may EXCEPT ![name] = may[name] \cup {Missing}]
  <2>1. may[name] \cup {Missing} \subseteq Found /\ Held(name) \in may[name]
    BY <1>1 DEF PadInv, Found
  <2>2. OnName(name, may[name] \cup {Missing})
    <3>1. CASE pad' = pad
      BY <1>1, <1>4, <2>1, <3>1, SameIs DEF OnName
    <3>2. CASE pad' = Without(name)
      BY <1>1, <1>4, <2>1, <3>2, WithoutIs DEF OnName
    <3> QED
      BY <1>4, <3>1, <3>2
  <2> QED
    BY <1>2, <2>2, OnNameKeeps
<1> QED
  BY <1>1, <1>3, <1>4 DEF Del, Expect

LEMMA GetKeeps ==
    ASSUME PadInv, NEW channel \in PadChannel \cup {NoChannel}, NEW raw \in RawKey,
           Get(channel, raw)
    PROVE  PadInv'
<1> DEFINE name == <<channel, Trim[raw]>>
<1>1. name \in Names /\ RedisKey(channel, raw) = name /\ UNCHANGED <<pad, may>>
  BY DEF Get, Accepted, Names, Key, RedisKey
<1>2. last'.exit \in {0, 1, 3} /\ commands' \in 0..MaxCommands
  BY PadAssumption DEF Get, Ran, PadInv
<1>3. last'.exit # 1 =>
        /\ last'.channel = channel /\ last'.key = Trim[raw] /\ last'.out = Held(name)
        /\ last'.exit = 3 <=> last'.out = Missing
  BY <1>1 DEF Get, Ran
<1>4. ReadsOwnLatest'
  BY <1>1, <1>3 DEF ReadsOwnLatest, PadInv
<1>5. \A n \in Names : Held(n)' \in may'[n]
  BY <1>1, SameIs DEF PadInv
<1> QED
  BY <1>1, <1>2, <1>3, <1>4, <1>5 DEF PadInv, Names, Key

LEMMA RefusedKeeps ==
    ASSUME PadInv, NEW cmd, NEW channel, NEW raw, NEW blob,
           cmd \in {"put", "get", "del", "unknown"}, Refused(cmd, channel, raw, blob)
    PROVE  PadInv'
<1>1. /\ UNCHANGED <<pad, may>> /\ last'.exit \in {1, 2} /\ commands' \in 0..MaxCommands
      /\ last'.cmd = cmd /\ (last'.exit = 2 => cmd = "unknown")
  BY PadAssumption DEF Refused, Ran, PadInv
<1>2. \A n \in Names : Held(n)' \in may'[n]
  BY <1>1, SameIs DEF PadInv
<1> QED
  BY <1>1, <1>2 DEF PadInv, Names, Key, ReadsOwnLatest

LEMMA ExpireKeeps ==
    ASSUME PadInv, Expire
    PROVE  PadInv'
<1>1. PICK m \in DOMAIN pad : pad' = Without(m)
  BY DEF Expire
<1>2. /\ DOMAIN pad' = DOMAIN pad \ {m} /\ Held(m)' = Missing
      /\ \A n \in DOMAIN pad' : pad'[n] \in Blob \ TooLarge
      /\ \A n \in Names \ {m} : Held(n)' = Held(n)
  BY <1>1, WithoutIs
<1>3. may' = [n \in Names |-> may[n] \cup IF n = m THEN {Missing} ELSE {}]
  BY <1>2 DEF Expire, PadInv
<1>4. may' \in [Names -> SUBSET Found] /\ \A n \in Names : may[n] \subseteq may'[n]
  BY <1>3 DEF PadInv, Found
<1>5. \A n \in Names : Held(n)' \in may'[n]
  BY <1>2, <1>3 DEF PadInv
<1>6. last' = last /\ commands' = commands
  BY DEF Expire
<1>7. ReadsOwnLatest'
  BY <1>4, <1>6 DEF ReadsOwnLatest, PadInv
<1> QED
  BY <1>2, <1>4, <1>5, <1>6, <1>7 DEF PadInv, Names, Key

LEMMA PadSteps ==
    ASSUME PadInv, PadStep
    PROVE  PadInv'
BY PutKeeps, GetKeeps, DelKeeps, RefusedKeeps, ExpireKeeps DEF PadStep

\* An empty scratchpad.
LEMMA EmptyPad == PadInit => PadInv
<1> SUFFICES ASSUME PadInit PROVE PadInv
  OBVIOUS
<1> USE DEF PadInit
<1>1. \A n \in Names : Held(n) = Missing
  BY DEF Held
<1> QED
  BY <1>1, PadAssumption DEF PadInv, AllMissing, NoCommand, Names, Found, ReadsOwnLatest

(* ------------------------------ the settings ----------------------------- *)

\* The ladder, rung by rung.
LEMMA LadderIs ==
    ASSUME NEW pins, NEW default
    PROVE  Ladder(pins, default) =
             IF pins["loop"] # Absent THEN pins["loop"]
             ELSE IF pins["channel"] # Absent THEN pins["channel"]
             ELSE IF pins["loopEnv"] # Absent THEN pins["loopEnv"]
             ELSE IF pins["env"] # Absent THEN pins["env"] ELSE default
<1> DEFINE set == {i \in DOMAIN Rungs : pins[Rungs[i]] # Absent}
<1>1. /\ DOMAIN Rungs = 1..4 /\ Rungs[1] = "loop" /\ Rungs[2] = "channel"
      /\ Rungs[3] = "loopEnv" /\ Rungs[4] = "env"
  BY DEF Rungs
<1>2. set \in SUBSET Nat /\ \A i \in set : i \in 1..4
  BY <1>1
<1>3. /\ 1 \in set <=> pins["loop"] # Absent
      /\ 2 \in set <=> pins["channel"] # Absent
      /\ 3 \in set <=> pins["loopEnv"] # Absent
      /\ 4 \in set <=> pins["env"] # Absent
  BY <1>1
<1>4. Ladder(pins, default) = IF set = {} THEN default ELSE pins[Rungs[Min(set)]]
  BY DEF Ladder
<1>5. set # {} => Min(set) \in set /\ \A n \in set : Min(set) <= n
  <2> HIDE DEF set
  <2> QED
    BY <1>2, LeastNat
<1> HIDE DEF set
<1>6. CASE set = {}
  BY <1>3, <1>4, <1>6
<1>7. CASE set # {}
  <2>1. Min(set) \in 1..4 /\ Min(set) \in set
    BY <1>2, <1>5, <1>7
  <2>2. /\ 1 \in set => Min(set) = 1
        /\ 1 \notin set /\ 2 \in set => Min(set) = 2
        /\ 1 \notin set /\ 2 \notin set /\ 3 \in set => Min(set) = 3
        /\ 1 \notin set /\ 2 \notin set /\ 3 \notin set => Min(set) = 4 /\ 4 \in set
    BY <1>5, <1>7, <2>1
  <2>3. Ladder(pins, default) = pins[Rungs[Min(set)]]
    BY <1>4, <1>7
  <2> QED
    BY <1>1, <1>3, <2>2, <2>3
<1> QED
  BY <1>6, <1>7

\* What the rungs of a setting hold once Resolve has passed over what is not allowed.
LEMMA PinsSeen ==
    ASSUME NEW cfg, NEW pins \in Pinned, NEW allowed
    PROVE  LET seen == Valid(Seen(cfg, pins), allowed)
               kept(v) == IF v \in allowed THEN v ELSE Absent
           IN  /\ seen["loop"] = kept(pins.loop)
               /\ seen["channel"] = kept(IF Decodes(cfg) THEN pins.channel ELSE Absent)
               /\ seen["loopEnv"] = kept(IF cfg.isTick THEN pins.loopEnv ELSE Absent)
               /\ seen["env"] = kept(pins.env)
BY DEF Valid, Seen, Pinned

\* The ladder ends on something allowed.
LEMMA LadderIsAllowed ==
    ASSUME NEW cfg, NEW pins \in Pinned, NEW allowed, NEW default \in allowed
    PROVE  Ladder(Valid(Seen(cfg, pins), allowed), default) \in allowed
BY PinsSeen, LadderIs

\* Whatever is pinned where, what Resolve returns can be run.
LEMMA ResolvesRunnable ==
    ASSUME NEW cfg \in Config
    PROVE  Runnable(cfg)
<1>1. cfg.model \in Pinned /\ cfg.effort \in Pinned
  BY DEF Config
<1>2. DefaultModel \in AllowedModels(Allow1M(cfg.allow1M)) /\ DefaultEffort \in Efforts
  BY SettingsAssumption DEF AllowedModels
<1>3. Resolve(cfg).model \in AllowedModels(Allow1M(cfg.allow1M))
  BY <1>1, <1>2, LadderIsAllowed DEF Resolve
<1>4. Resolve(cfg).effort \in Efforts
  BY <1>1, <1>2, LadderIsAllowed DEF Resolve
<1> QED
  BY <1>3, <1>4 DEF Runnable

\* The environment of the loops and the operator's do not steer a channel.
LEMMA ResolvesByChannel ==
    ASSUME NEW cfg \in Config
    PROVE  ChannelRules(cfg)
<1>1. /\ cfg.model \in Pinned /\ cfg.effort \in Pinned
      /\ cfg = [isTick |-> cfg.isTick, allow1M |-> cfg.allow1M, model |-> cfg.model,
                effort |-> cfg.effort]
  BY DEF Config
<1> DEFINE other == [cfg EXCEPT !.model.loopEnv = Absent, !.effort.loopEnv = Absent]
           models == AllowedModels(Allow1M(cfg.allow1M))
<1>2. /\ other.isTick = cfg.isTick /\ other.allow1M = cfg.allow1M
      /\ other.model = [cfg.model EXCEPT !.loopEnv = Absent]
      /\ other.effort = [cfg.effort EXCEPT !.loopEnv = Absent]
  BY <1>1
<1>3. /\ other.model.channel = cfg.model.channel /\ other.effort.channel = cfg.effort.channel
      /\ Decodes(other) = Decodes(cfg)
  BY <1>1, <1>2 DEF Pinned, Decodes
<1>4. ASSUME ~cfg.isTick PROVE Resolve(cfg) = Resolve(other)
  <2>1. Seen(cfg, cfg.model) = Seen(other, other.model)
    BY <1>1, <1>2, <1>3, <1>4 DEF Seen, Pinned
  <2>2. Seen(cfg, cfg.effort) = Seen(other, other.effort)
    BY <1>1, <1>2, <1>3, <1>4 DEF Seen, Pinned
  <2> HIDE DEF other
  <2> QED
    BY <1>2, <1>3, <2>1, <2>2 DEF Resolve
<1>5. ASSUME Decodes(cfg), cfg.model.loop = Absent, cfg.model.channel \in models
      PROVE  Resolve(cfg).model = cfg.model.channel
  <2>1. Absent \notin models
    BY SettingsAssumption DEF AllowedModels
  <2>2. /\ Valid(Seen(cfg, cfg.model), models)["loop"] = Absent
        /\ Valid(Seen(cfg, cfg.model), models)["channel"] = cfg.model.channel
    BY <1>1, <1>5, PinsSeen
  <2>3. Ladder(Valid(Seen(cfg, cfg.model), models), DefaultModel) = cfg.model.channel
    BY <1>5, <2>1, <2>2, LadderIs
  <2> QED
    BY <2>3 DEF Resolve
<1> QED
  BY <1>4, <1>5 DEF ChannelRules

\* The pins of the effort do not change the model.
LEMMA ResolvesApart ==
    ASSUME NEW cfg \in Config
    PROVE  KeysApart(cfg)
<1> DEFINE other == [cfg EXCEPT !.effort = NoPins]
<1>1. /\ other.isTick = cfg.isTick /\ other.allow1M = cfg.allow1M
      /\ other.model = cfg.model /\ other.effort = NoPins
  BY DEF Config
<1>2. Decodes(cfg) => Decodes(other)
  BY <1>1, SettingsAssumption DEF Decodes, NoPins
<1>3. Decodes(cfg) => Seen(cfg, cfg.model) = Seen(other, other.model)
  BY <1>1, <1>2 DEF Seen
<1> HIDE DEF other
<1>4. Decodes(cfg) => Resolve(cfg).model = Resolve(other).model
  BY <1>1, <1>3 DEF Resolve
<1> QED
  BY <1>4 DEF KeysApart, other

(* ------------------------------- the reply ------------------------------- *)

\* The lines of a text, and those of its translation, one by one.
LEMMA TextLines ==
    ASSUME NEW text \in Seq(LineType)
    PROVE  /\ Len(text) \in Nat /\ DOMAIN text = 1..Len(text)
           /\ \A i \in DOMAIN text : text[i] \in LineType /\ text[i] \in Lines(text)
           /\ \A l \in Lines(text) : \E i \in DOMAIN text : l = text[i]
           /\ DOMAIN ToSlack(text) = DOMAIN text
           /\ \A i \in DOMAIN text :
                 ToSlack(text)[i] = IF text[i].kind \in Fences \/ InFence(text, i) THEN text[i]
                                    ELSE TranslateLine(text[i])
BY ElementOfSeq, LenProperties DEF Lines, ToSet, ToSlack

LEMMA LineFields ==
    ASSUME NEW line \in LineType
    PROVE  /\ line \in [kind : Kinds, items : Seq(Item), long : BOOLEAN, blocks : Nat]
           /\ DOMAIN line.items = 1..Len(line.items) /\ Len(line.items) \in Nat
           /\ \A j \in DOMAIN line.items : line.items[j] \in Item
           /\ line.kind = "blank" => ~line.long
BY ElementOfSeq, LenProperties DEF LineType

\* What becomes of an item of a line.
ItemIn(line, x) == IF line.kind = "heading" THEN InHeading(x)
                   ELSE IF Outside(x) THEN Translated(x) ELSE x

LEMMA ItemIs ==
    ASSUME NEW line, NEW x \in Item
    PROVE  /\ ItemIn(line, x) \in Item
           /\ x.code /\ line.kind # "heading" => ItemIn(line, x) = x
           /\ x.what = "url" => ItemIn(line, x).what = "url"
           /\ x.what = "link" \/ (x.what = "md link" /\ ~x.code)
              => ItemIn(line, x).what = "link"
           /\ x.text # "marked" => ItemIn(line, x).text = x.text
BY DEF ItemIn, InHeading, Outside, Translated, Item, Texture

\* What translateLine makes of a line: its kind but for headings, and its items.
LEMMA TranslatedLine ==
    ASSUME NEW line \in LineType
    PROVE  LET new == TranslateLine(line)
           IN  /\ new \in LineType
               /\ new.kind = IF line.kind = "heading" THEN "bold line" ELSE line.kind
               /\ DOMAIN new.items = DOMAIN line.items
               /\ \A j \in DOMAIN line.items : new.items[j] = ItemIn(line, line.items[j])
<1> DEFINE items == [j \in DOMAIN line.items |-> ItemIn(line, line.items[j])]
           new == TranslateLine(line)
           kind == IF line.kind = "heading" THEN "bold line" ELSE line.kind
<1>1. /\ line \in [kind : Kinds, items : Seq(Item), long : BOOLEAN, blocks : Nat]
      /\ Len(line.items) \in Nat /\ DOMAIN line.items = 1..Len(line.items)
      /\ \A j \in DOMAIN line.items : line.items[j] \in Item
      /\ line.kind = "blank" => ~line.long
  BY LineFields
<1>2. new = [line EXCEPT !.kind = kind, !.items = items]
  <2>1. CASE line.kind = "heading"
    BY <2>1, <1>1 DEF TranslateLine, ItemIn
  <2>2. CASE line.kind # "heading"
    BY <2>2, <1>1 DEF TranslateLine, ItemIn
  <2> QED
    BY <2>1, <2>2
<1>3. items \in [1..Len(line.items) -> Item]
  BY <1>1, ItemIs
<1>4. /\ DOMAIN items = DOMAIN line.items
      /\ \A j \in DOMAIN line.items : items[j] = ItemIn(line, line.items[j])
  OBVIOUS
<1> HIDE DEF items, new
<1>0. kind \in Kinds
  BY <1>1 DEF Kinds
<1>5. items \in Seq(Item)
  BY <1>1, <1>3, SeqDef
<1>6. new.kind = kind /\ new.items = items /\ new.long = line.long
  BY <1>1, <1>2
<1>7. new \in [kind : Kinds, items : Seq(Item), long : BOOLEAN, blocks : Nat]
  <2> HIDE DEF kind
  <2> QED
    BY <1>0, <1>1, <1>2, <1>5
<1>8. new \in LineType
  BY <1>1, <1>6, <1>7 DEF LineType
<1> QED
  BY <1>4, <1>6, <1>8 DEF new

\* A translation is a text again, and so is the line the code writes itself.
LEMMA TranslatedText ==
    ASSUME NEW text \in Seq(LineType)
    PROVE  ToSlack(text) \in Seq(LineType) /\ Len(ToSlack(text)) = Len(text)
<1>1. \A line \in LineType : TranslateLine(line) \in LineType
  BY TranslatedLine
<1>2. ToSlack(text) \in [1..Len(text) -> LineType] /\ Len(text) \in Nat
  BY <1>1, TextLines DEF ToSlack
<1> QED
  BY <1>2, SeqDef

LEMMA RichIsLine == RichMessage \in LineType
<1> DEFINE items == <<[what |-> "word", code |-> FALSE, text |-> "plain"]>>
<1>1. items \in Seq(Item)
  BY DEF Item, Texture
<1>2. RichMessage = [kind |-> "text", items |-> items, long |-> FALSE, blocks |-> 0]
  BY DEF RichMessage, Line
<1> HIDE DEF items
<1>3. RichMessage \in [kind : Kinds, items : Seq(Item), long : BOOLEAN, blocks : Nat]
  BY <1>1, <1>2 DEF Kinds
<1>4. RichMessage.long = FALSE
  BY <1>2
<1> QED
  BY <1>3, <1>4 DEF LineType

\* The prose beside a card is the lines before and after its fences.
LEMMA ProseIs ==
    ASSUME NEW text \in Seq(LineType), CardFences(text) # {}
    PROVE  /\ Prose(text) \in Seq(LineType)
           /\ \E p \in CardFences(text) : \A l \in Lines(Prose(text)) :
                 \E i \in DOMAIN text : l = text[i] /\ i \notin p[1]..p[2]
<1> DEFINE p == CHOOSE c \in CardFences(text) : TRUE
           S == {text[i] : i \in {j \in DOMAIN text : j \notin p[1]..p[2]}}
<1>1. p \in CardFences(text) /\ p[1] \in DOMAIN text /\ p[2] \in DOMAIN text /\ p[2] > p[1]
  <2>1. p \in CardFences(text)
    OBVIOUS
  <2> HIDE DEF p
  <2>2. p \in (DOMAIN text) \X (DOMAIN text) /\ p[2] > p[1] + 1
    BY <2>1 DEF CardFences
  <2> QED
    BY <2>1, <2>2, TextLines
<1>2. Prose(text) = SubSeq(text, 1, p[1] - 1) \o SubSeq(text, p[2] + 1, Len(text))
  BY DEF Prose
<1>3. DOMAIN text = 1..Len(text) /\ Len(text) \in Nat
  BY TextLines
<1> HIDE DEF p
<1>4. SubSeq(text, 1, p[1] - 1) \in Seq(S)
  <2>1. \A i \in 1..(p[1] - 1) : text[i] \in S
    BY <1>1, <1>3
  <2> QED
    BY <1>1, <1>3, <2>1, SubSeqProperties
<1>5. SubSeq(text, p[2] + 1, Len(text)) \in Seq(S)
  <2>1. \A i \in (p[2] + 1)..Len(text) : text[i] \in S
    BY <1>1, <1>3
  <2> QED
    BY <1>1, <1>3, <2>1, SubSeqProperties
<1>6. Prose(text) \in Seq(S)
  BY <1>2, <1>4, <1>5, ConcatProperties
<1>7. S \subseteq LineType
  BY TextLines
<1>8. Prose(text) \in Seq(LineType) /\ Lines(Prose(text)) \subseteq S
  BY <1>6, <1>7, SeqMonotonic, InSeq DEF Lines
<1> QED
  BY <1>1, <1>8

\* An answer that is neither blank nor narration is sent.
LEMMA ContentSent ==
    ASSUME NEW text \in Seq(LineType)
    PROVE  ContentIsPosted(text)
<1>1. SUFFICES ASSUME NEW l \in Lines(text), l.kind \in {"text", "heading"} \/ l.long
               PROVE  Reply(text).text # << >>
  BY DEF ContentIsPosted
<1>2. l \in LineType /\ l.kind # "blank" /\ ~IsBlank(text)
  BY <1>1, TextLines, LineFields DEF IsBlank
<1>3. ~LooksLike(text)
  BY <1>1, <1>2 DEF LooksLike
<1>4. ASSUME NEW t, \A i : i \notin DOMAIN t PROVE IsBlank(t)
  BY <1>4 DEF IsBlank, Lines, ToSet
<1>5. Reply(text) = BuildReplyOpts(text)
  BY <1>2, <1>3 DEF Reply
<1>6. CASE CardFences(text) = {}
  <2>1. Reply(text).text = ToSlack(text)
    BY <1>5, <1>6 DEF BuildReplyOpts, Plain, Promoted
  <2>2. DOMAIN ToSlack(text) # {}
    BY <1>2, <1>4, TextLines
  <2> QED
    BY <2>1, <2>2
<1>7. CASE CardFences(text) # {}
  <2>1. Prose(text) \in Seq(LineType) /\ <<RichMessage>> # << >>
    BY <1>7, ProseIs
  <2>2. CASE IsBlank(Prose(text))
    <3>1. Reply(text).text = << >> \o <<RichMessage>>
      BY <1>5, <1>7, <2>2 DEF BuildReplyOpts, Plain, Card
    <3> QED
      BY <3>1
  <2>3. CASE ~IsBlank(Prose(text))
    <3> DEFINE notice == IF RenderBlockKit(Payload(text)) = 0 \/ IsBlank(Prose(text))
                         THEN <<RichMessage>> ELSE << >>
    <3>1. Reply(text).text = ToSlack(Prose(text)) \o notice
      BY <1>5, <1>7, <2>3 DEF BuildReplyOpts, Plain, Card
    <3>2. notice \in Seq(LineType) /\ ToSlack(Prose(text)) \in Seq(LineType)
      BY <2>1, EmptySeq, RichIsLine, TranslatedText
    <3> HIDE DEF notice
    <3>3. Len(ToSlack(Prose(text))) > 0
      BY <1>4, <2>1, <2>3, <3>2, TextLines
    <3> QED
      BY <3>1, <3>2, <3>3, ConcatEqualIffEmpty, EmptySeq
  <2> QED
    BY <2>2, <2>3
<1> QED
  BY <1>6, <1>7

\* The fence and the JSON of a card stay out of the text.
LEMMA JSONStaysOut ==
    ASSUME NEW text \in Seq(LineType)
    PROVE  NoJSONWall(text)
<1> DEFINE opens == {i \in DOMAIN text : text[i].kind = "open card"}
<1>1. SUFFICES ASSUME CardFences(text) # {}, Cardinality(opens) = 1,
                      \A i \in DOMAIN text, p \in CardFences(text) :
                          text[i].kind = "card" => i \in p[1]..p[2],
                      NEW l \in Lines(Reply(text).text)
               PROVE  l.kind \notin {"open card", "card"}
  BY DEF NoJSONWall
<1>2. PICK one : opens = {one}
  <2>1. IsFiniteSet(DOMAIN text)
    BY TextLines, FS_Interval
  <2>2. IsFiniteSet(opens)
    BY <2>1, FS_Subset
  <2> QED
    BY <1>1, <2>2, FS_Singleton
<1>3. PICK p \in CardFences(text) : \A m \in Lines(Prose(text)) :
         \E i \in DOMAIN text : m = text[i] /\ i \notin p[1]..p[2]
  BY <1>1, ProseIs
<1>4. p[1] \in opens /\ p[1] \in p[1]..p[2]
  <2>1. p \in (DOMAIN text) \X (DOMAIN text) /\ p[2] > p[1] + 1 /\ p[1] \in opens
    BY DEF CardFences
  <2>2. DOMAIN text = 1..Len(text) /\ Len(text) \in Nat
    BY TextLines
  <2>3. p[1] \in DOMAIN text /\ p[2] \in DOMAIN text
    BY <2>1
  <2>4. ASSUME NEW a \in DOMAIN text, NEW b \in DOMAIN text, b > a + 1 PROVE a \in a..b
    BY <2>2, <2>4
  <2>5. p[1] \in p[1]..p[2]
    BY <2>1, <2>3, <2>4
  <2> QED
    BY <2>1, <2>5
<1>5. ASSUME NEW m \in Lines(Prose(text))
      PROVE  m \in LineType /\ m.kind \notin {"open card", "card"}
  <2>1. PICK i \in DOMAIN text : m = text[i] /\ i \notin p[1]..p[2]
    BY <1>3
  <2>2. text[i].kind # "card"
    BY <1>1, <2>1
  <2>3. i \notin opens
    BY <1>2, <1>4, <2>1
  <2> QED
    BY <2>1, <2>2, <2>3, TextLines
<1>6. Prose(text) \in Seq(LineType) /\ ToSlack(Prose(text)) \in Seq(LineType)
  BY <1>1, ProseIs, TranslatedText
<1>7. ASSUME NEW m \in Lines(ToSlack(Prose(text)))
      PROVE  m.kind \notin {"open card", "card"}
  <2>1. PICK i \in DOMAIN Prose(text) : m = ToSlack(Prose(text))[i]
    BY <1>6, TextLines DEF Lines, ToSet
  <2>2. Prose(text)[i] \in Lines(Prose(text))
    BY <1>6, TextLines
  <2>3. m = Prose(text)[i] \/ m = TranslateLine(Prose(text)[i])
    BY <1>6, <2>1, TextLines
  <2> QED
    BY <1>5, <2>2, <2>3, TranslatedLine
<1>8. RichMessage.kind = "text"
  BY DEF RichMessage, Line
<1>9. CASE IsBlank(text) \/ LooksLike(text)
  <2>1. Reply(text).text = << >>
    BY <1>9 DEF Reply, Nothing, Plain
  <2>2. Lines(<< >>) = {}
    BY DEF Lines, ToSet
  <2> QED
    BY <1>1, <2>1, <2>2
<1>10. CASE ~(IsBlank(text) \/ LooksLike(text))
  <2> DEFINE prose == IF IsBlank(Prose(text)) THEN << >> ELSE ToSlack(Prose(text))
             notice == IF RenderBlockKit(Payload(text)) = 0 \/ IsBlank(Prose(text))
                       THEN <<RichMessage>> ELSE << >>
  <2>1. Reply(text).text = prose \o notice
    BY <1>1, <1>10 DEF Reply, BuildReplyOpts, Plain, Card
  <2>2. /\ prose \in Seq(LineType) /\ notice \in Seq(LineType)
        /\ ToSet(prose) \subseteq Lines(ToSlack(Prose(text)))
        /\ ToSet(notice) \subseteq {RichMessage}
    BY <1>6, RichIsLine, EmptySeq DEF Lines, ToSet
  <2> HIDE DEF prose, notice
  <2>3. l \in ToSet(prose) \cup ToSet(notice)
    BY <1>1, <2>1, <2>2, Joined DEF Lines
  <2> QED
    BY <1>7, <1>8, <2>2, <2>3
<1> QED
  BY <1>9, <1>10

\* What becomes of an item in the section above the buttons.
LEMMA StrippedLines ==
    ASSUME NEW text \in Seq(LineType), NEW i \in DOMAIN text, NEW j \in DOMAIN text[i].items
    PROVE  /\ WithoutLinks(text)[i].items[j] = Stripped(text[i].items[j])
           /\ text[i].items[j].what # "link" /\ text[i].items[j].text # "spaced"
              => Stripped(text[i].items[j]) = text[i].items[j]
<1>1. text[i] \in LineType /\ text[i].items[j] \in Item
  BY TextLines, LineFields
<1>2. text[i] \in [kind : Kinds, items : Seq(Item), long : BOOLEAN, blocks : Nat]
  BY <1>1, LineFields
<1> DEFINE items == [k \in DOMAIN text[i].items |-> Stripped(text[i].items[k])]
<1>3. WithoutLinks(text)[i] = [text[i] EXCEPT !.items = items]
  BY DEF WithoutLinks
<1>4. items[j] = Stripped(text[i].items[j])
  OBVIOUS
<1> HIDE DEF items
<1>5. WithoutLinks(text)[i].items = items
  BY <1>2, <1>3
<1>6. ASSUME NEW x \in Item, x.what # "link", x.text # "spaced" PROVE Stripped(x) = x
  BY <1>6 DEF Stripped, Item
<1> QED
  BY <1>1, <1>4, <1>5, <1>6

\* A text without a card is sent as it is translated, and shown so, or as a section
\* with the links taken out.
LEMMA SentTranslated ==
    ASSUME NEW text, LineByLine(text)
    PROVE  /\ Reply(text).text = ToSlack(text)
           /\ \/ Reply(text).shown = ToSlack(text)
              \/ Reply(text).buttons > 0 /\ Reply(text).shown = Section(ToSlack(text))
<1> DEFINE n == Buttons(ToSlack(text))
<1>1. Reply(text) = IF n = 0 THEN Plain(ToSlack(text))
                    ELSE Promoted(ToSlack(text), Section(ToSlack(text)), n)
  BY DEF LineByLine, Reply, BuildReplyOpts
<1>2. n = 0 \/ n > 0
  BY ReplyAssumption DEF Buttons
<1> HIDE DEF n
<1> QED
  BY <1>1, <1>2 DEF Plain, Promoted

\* Item by item: what is sent of it.
LEMMA SentItem ==
    ASSUME NEW text \in Seq(LineType), NEW i \in DOMAIN text, NEW j \in DOMAIN text[i].items
    PROVE  /\ text[i].items[j] \in Item /\ DOMAIN ToSlack(text)[i].items = DOMAIN text[i].items
           /\ IsCode(text, i, j) => ToSlack(text)[i].items[j] = text[i].items[j]
           /\ ToSlack(text)[i].items[j] =
                 IF text[i].kind \in Fences \/ InFence(text, i) THEN text[i].items[j]
                 ELSE ItemIn(text[i], text[i].items[j])
<1>1. text[i] \in LineType /\ text[i].items[j] \in Item
  BY TextLines, LineFields
<1>2. CASE text[i].kind \in Fences \/ InFence(text, i)
  BY <1>1, <1>2, TextLines
<1>3. CASE ~(text[i].kind \in Fences \/ InFence(text, i))
  <2>1. /\ DOMAIN ToSlack(text)[i].items = DOMAIN text[i].items
        /\ ToSlack(text)[i].items[j] = ItemIn(text[i], text[i].items[j])
    BY <1>1, <1>3, TextLines, TranslatedLine
  <2> QED
    BY <1>1, <1>3, <2>1, ItemIs DEF IsCode
<1> QED
  BY <1>2, <1>3

\* Every link is in the text that is sent, with its URL unless that is marked.
LEMMA LinksReach ==
    ASSUME NEW text \in Seq(LineType)
    PROVE  LinksReachText(text)
<1>1. SUFFICES ASSUME LineByLine(text), NEW i \in DOMAIN text, NEW j \in DOMAIN text[i].items,
                      IsLink(text, i, j)
               PROVE  LET item == text[i].items[j]
                          sent == ToSlack(text)[i].items[j]
                      IN  /\ sent.what = IF item.what = "url" THEN "url" ELSE "link"
                          /\ sent.text = item.text
                             \/ (item.text = "marked" /\ ~IsCode(text, i, j))
  BY SentTranslated DEF LinksReachText
<1>2. CASE text[i].kind \in Fences \/ InFence(text, i)
  <2>1. ToSlack(text)[i].items[j] = text[i].items[j]
    BY <1>2, SentItem
  <2>2. text[i].items[j].what \in {"url", "link"}
    BY <1>1, <1>2 DEF IsLink
  <2> QED
    BY <2>1, <2>2
<1>3. CASE ~(text[i].kind \in Fences \/ InFence(text, i))
  <2> DEFINE item == text[i].items[j]
             sent == ToSlack(text)[i].items[j]
  <2>1. item \in Item /\ sent = ItemIn(text[i], item)
        /\ (IsCode(text, i, j) => sent = item)
    BY <1>3, SentItem
  <2>2. \/ item.what \in {"url", "link"}
        \/ item.what = "md link" /\ ~item.code
    BY <1>1 DEF IsLink
  <2> HIDE DEF item, sent
  <2>3. sent.what = IF item.what = "url" THEN "url" ELSE "link"
    BY <2>1, <2>2, ItemIs
  <2>4. sent.text = item.text \/ (item.text = "marked" /\ ~IsCode(text, i, j))
    BY <2>1, ItemIs
  <2> QED
    BY <2>3, <2>4 DEF item, sent
<1> QED
  BY <1>2, <1>3

\* Code that is not in a heading is sent as it is, and shown so but for links and runs
\* of blanks.
LEMMA CodeStays ==
    ASSUME NEW text \in Seq(LineType)
    PROVE  CodeUntouched(text)
<1>1. SUFFICES ASSUME LineByLine(text), NEW i \in DOMAIN text, NEW j \in DOMAIN text[i].items,
                      IsCode(text, i, j)
               PROVE  LET item == text[i].items[j]
                      IN  /\ Reply(text).text[i].items[j] = item
                          /\ \/ Reply(text).shown[i].items[j] = item
                             \/ /\ Reply(text).buttons > 0
                                /\ item.what = "link" \/ item.text = "spaced"
  BY DEF CodeUntouched
<1> DEFINE item == text[i].items[j]
<1>2. Reply(text).text = ToSlack(text) /\ ToSlack(text)[i].items[j] = item
  BY <1>1, SentTranslated, SentItem
<1>3. CASE Reply(text).shown = ToSlack(text)
  BY <1>2, <1>3
<1>4. CASE Reply(text).buttons > 0 /\ Reply(text).shown = Section(ToSlack(text))
  <2> SUFFICES ASSUME item.what # "link", item.text # "spaced"
               PROVE  Reply(text).shown[i].items[j] = item
    BY <1>2, <1>4
  <2>1. /\ ToSlack(text) \in Seq(LineType) /\ i \in DOMAIN ToSlack(text)
        /\ j \in DOMAIN ToSlack(text)[i].items
    BY TranslatedText, TextLines, SentItem
  <2>2. ToSlack(text)[i] \in Lines(ToSlack(text)) /\ ~IsGone(ToSlack(text)[i])
    BY <1>2, <2>1, TextLines DEF IsGone
  <2>3. Section(ToSlack(text)) = WithoutLinks(ToSlack(text))
    BY <2>2 DEF Section
  <2> QED
    BY <1>2, <1>4, <2>1, <2>3, StrippedLines
<1> QED
  BY <1>1, <1>2, <1>3, <1>4, SentTranslated

\* A reply has no more blocks than Slack takes.
LEMMA BlocksFit ==
    ASSUME NEW text \in Seq(LineType)
    PROVE  WithinCeiling(text)
<1>1. MaxBlocks \in Nat
  BY ReplyAssumption
<1>2. ASSUME NEW payload PROVE RenderBlockKit(payload) <= MaxBlocks
  BY <1>1 DEF RenderBlockKit
<1>3. ASSUME NEW n \in 1..TotalButtonsCap PROVE 1 + Rows(n) <= MaxBlocks /\ Rows(n) \in Nat
  BY ReplyAssumption DEF Rows
<1>4. ASSUME NEW t PROVE Buttons(t) = 0 \/ Buttons(t) \in 1..TotalButtonsCap
  BY DEF Buttons
<1>6. CASE IsBlank(text) \/ LooksLike(text)
  BY <1>1, <1>6 DEF WithinCeiling, Reply, Nothing, Plain
<1>7. CASE ~(IsBlank(text) \/ LooksLike(text)) /\ CardFences(text) # {}
  BY <1>1, <1>2, <1>7 DEF WithinCeiling, Reply, BuildReplyOpts, Plain, Card
<1>8. CASE ~(IsBlank(text) \/ LooksLike(text)) /\ CardFences(text) = {}
  <2> DEFINE n == Buttons(ToSlack(text))
  <2>1. Reply(text).blocks =
           IF n = 0 THEN 0 ELSE (IF Section(ToSlack(text)) = << >> THEN 0 ELSE 1) + Rows(n)
    BY <1>8 DEF Reply, BuildReplyOpts, Plain, Promoted
  <2> HIDE DEF n
  <2>2. CASE n = 0
    BY <1>1, <2>1, <2>2 DEF WithinCeiling
  <2>3. CASE n # 0
    <3>1. n \in 1..TotalButtonsCap
      BY <1>4, <2>3 DEF n
    <3> QED
      BY <1>1, <1>3, <2>1, <2>3, <3>1 DEF WithinCeiling
  <2> QED
    BY <2>2, <2>3
<1> QED
  BY <1>6, <1>7, <1>8

(* -------------------------------- the turn ------------------------------- *)

\* Each phase finds its state as the last one of its kind has put it back.
TurnInv ==
    /\ phase \in {"arrived", "settings", "resolved", "context", "fetched", "spawn",
                   "pad", "answered", "reply", "done"}
    /\ config \in Configs /\ answer \in Texts
    /\ PoolTypeOK /\ PoolInv /\ (phase # "spawn" => NoTurn)
    /\ ContextInv /\ (phase # "context" => NoFetch)
    /\ PadInv

LEMMA PoolStays ==
    ASSUME UNCHANGED poolVars
    PROVE  PoolTypeOK' = PoolTypeOK /\ PoolInv' = PoolInv /\ NoTurn' = NoTurn
BY DEF PoolTypeOK, PoolInv, NoTurn

LEMMA ContextStays ==
    ASSUME UNCHANGED contextVars
    PROVE  ContextInv' = ContextInv /\ NoFetch' = NoFetch
BY DEF ContextInv, NoFetch, PreambleIsWhole, Messages, Entry

LEMMA PadStays ==
    ASSUME UNCHANGED padVars
    PROVE  PadInv' = PadInv
BY DEF PadInv, ReadsOwnLatest, Held, Names, Key

LEMMA TurnBegins == Init => TurnInv
<1> SUFFICES ASSUME Init PROVE TurnInv
  OBVIOUS
<1>1. config \in Configs /\ answer \in Texts
  BY TurnAssumption DEF Init, AnyConfig
<1>2. PoolTypeOK /\ PoolInv /\ NoTurn
  <2>1. ToSet(<< >>) = {} /\ IsInjective(<< >>) /\ << >> \in Seq(SlotNumber)
        /\ Len(<< >>) = 0
    BY EmptySeq DEF ToSet, IsInjective
  <2>2. 0 \in 0..Cardinality(SlotNumber) /\ 0 \in 0..MaxEvents
    BY SlotAssumption, FS_CardinalityType
  <2> QED
    BY <2>1, <2>2 DEF Init, PoolInit, PoolTypeOK, PoolInv, NoTurn, NoExit, Exits
<1>3. ContextInv /\ NoFetch
  BY NothingFetched DEF Init, ContextInit, Left, NoFetch
<1>4. PadInv
  BY EmptyPad DEF Init
<1> QED
  BY <1>1, <1>2, <1>3, <1>4 DEF TurnInv, Init

LEMMA TurnSteps == TurnInv /\ [Next]_vars => TurnInv'
<1> SUFFICES ASSUME TurnInv, [Next]_vars PROVE TurnInv'
  OBVIOUS
<1> USE DEF TurnInv
<1>1. CASE Resolved
  <2>1. config' \in Configs
    BY <1>1, TurnAssumption DEF Resolved, AnyConfig
  <2> QED
    BY <1>1, <2>1, PoolStays, ContextStays, PadStays DEF Resolved
<1>2. CASE Fetched
  <2>1. CASE phase = "resolved" /\ phase' = "context" /\ BeginContext
    BY <1>2, <2>1, ContextBegins, PoolStays, PadStays DEF Fetched
  <2>2. CASE phase = "context" /\ fetched = 2 /\ phase' = "fetched" /\ EndContext
    <3>1. Left' /\ NoFetch'
      BY <2>2 DEF EndContext, Left, NoFetch
    <3>2. (Left => ContextInv)'
      BY NothingFetched, PTL
    <3> QED
      BY <1>2, <2>2, <3>1, <3>2, PoolStays, PadStays DEF Fetched
  <2> QED
    BY <1>2, <2>1, <2>2 DEF Fetched
<1>3. CASE phase = "context" /\ ContextStep /\ UNCHANGED <<phase, poolVars, padVars, turnVars>>
  BY <1>3, PostsKeep, HistoryKeeps, RepliesKeep, PoolStays, PadStays DEF ContextStep
<1>4. CASE Spawned
  <2>1. CASE phase = "fetched" /\ phase' = "spawn" /\ BeginSpawn
    BY <1>4, <2>1, SpawnBegins, ContextStays, PadStays DEF Spawned
  <2>2. CASE phase = "spawn" /\ spawn = "over" /\ phase' \in {"pad", "done"} /\ EndSpawn
    BY <1>4, <2>2, SpawnEnds, ContextStays, PadStays DEF Spawned
  <2> QED
    BY <1>4, <2>1, <2>2 DEF Spawned
<1>5. CASE phase = "spawn" /\ PoolStep /\ UNCHANGED <<phase, contextVars, padVars, turnVars>>
  BY <1>5, PoolSteps, ContextStays, PadStays
<1>6. CASE phase = "pad" /\ PadStep /\ UNCHANGED <<phase, poolVars, contextVars, turnVars>>
  BY <1>6, PadSteps, PoolStays, ContextStays
<1>7. CASE Handed
  <2>1. PadInit'
    BY <1>7 DEF Handed, PadEnd, PadInit, AllMissing, NoCommand, Key
  <2>2. (PadInit => PadInv)'
    BY EmptyPad, PTL
  <2> QED
    BY <1>7, <2>1, <2>2, PoolStays, ContextStays DEF Handed
<1>8. CASE Replied
  <2>1. answer' \in Texts
    BY <1>8, TurnAssumption DEF Replied
  <2> QED
    BY <1>8, <2>1, PoolStays, ContextStays, PadStays DEF Replied
<1>9. CASE Finished \/ UNCHANGED vars
  BY <1>9, PoolStays, ContextStays, PadStays DEF Finished, vars
<1> QED
  BY <1>1, <1>2, <1>3, <1>4, <1>5, <1>6, <1>7, <1>8, <1>9 DEF Next

LEMMA TurnIsKept == Spec => []TurnInv
BY TurnBegins, TurnSteps, PTL DEF Spec

LEMMA TurnTypes == TurnInv => TypeOK
<1> SUFFICES ASSUME TurnInv PROVE TypeOK
  OBVIOUS
<1>1. ContextTypeOK
  BY ContextTypes DEF TurnInv
<1>2. PadTypeOK
  BY DEF TurnInv, PadInv, PadTypeOK
<1> QED
  BY <1>1, <1>2 DEF TurnInv, TypeOK

\* The state is well typed, and however loop, channel and environment pin the model
\* and the effort, for any allow lists, the CLI gets ones it can run, and the rules on
\* what overrides what hold (spawnsettings.go:147-157, 224-228).
THEOREM SettingsArePinned == Spec => []SettingsAsPinned
<1>1. TurnInv => SettingsAsPinned
  <2> SUFFICES ASSUME TurnInv PROVE SettingsAsPinned
    OBVIOUS
  <2>1. config \in Config
    BY TurnAssumption DEF TurnInv
  <2> QED
    BY <2>1, TurnTypes, ResolvesRunnable, ResolvesByChannel, ResolvesApart
       DEF SettingsAsPinned
<1> QED
  BY <1>1, TurnIsKept, PTL

\* The preamble has the message to answer and every reply that the root line counts,
\* for any limits and whoever posts between the calls (channelcontext.go:97-111).
THEOREM PreambleHasAll == Spec => []PreambleIsWhole
<1>1. TurnInv => PreambleIsWhole
  BY DEF TurnInv, ContextInv
<1> QED
  BY <1>1, TurnIsKept, PTL

\* A get tells what the last put or del of its channel's key left, for any channels,
\* keys and blobs, failures and expiries (scratchpad.go:75-77, 122-124).
THEOREM ReadsAreOwn == Spec => []ReadsOwnLatest
<1>1. TurnInv => ReadsOwnLatest
  BY DEF TurnInv, PadInv
<1> QED
  BY <1>1, TurnIsKept, PTL

\* An answer of any length is posted if it has content, with its links and code
\* (silentnarration.go:107-117; blockkit.go:98-111; mrkdwn.go:13-19).
THEOREM AnswersAreWhole == Spec => []AnswerIsWhole
<1>1. TurnInv => AnswerIsWhole
  <2> SUFFICES ASSUME TurnInv PROVE AnswerIsWhole
    OBVIOUS
  <2>1. answer \in Seq(LineType)
    BY TurnAssumption DEF TurnInv
  <2> QED
    BY <2>1, ContentSent, LinksReach, CodeStays DEF AnswerIsWhole
<1> QED
  BY <1>1, TurnIsKept, PTL

\* No JSON of a card is sent as text, and no reply has more blocks than Slack takes,
\* whatever the answer (blockkit.go:17-20, 84-95).
THEOREM SlackTakesAnswers == Spec => []SlackTakesIt
<1>1. TurnInv => SlackTakesIt
  <2> SUFFICES ASSUME TurnInv PROVE SlackTakesIt
    OBVIOUS
  <2>1. answer \in Seq(LineType)
    BY TurnAssumption DEF TurnInv
  <2> QED
    BY <2>1, JSONStaysOut, BlocksFit DEF SlackTakesIt
<1> QED
  BY <1>1, TurnIsKept, PTL

\* A step of the turn that touches the pool is one of the pool's, or begins or ends it.
LEMMA PoolMoves ==
    ASSUME TurnInv, [Next]_vars
    PROVE  \/ PoolStep \/ BeginSpawn \/ EndSpawn \/ UNCHANGED poolVars
BY DEF Next, Resolved, Fetched, Spawned, Handed, Replied, Finished, vars

\* An attempt goes to a limited slot only when no slot was free, and is paid for by its
\* own slot, for any number of slots, spawns and limits (oauthpool.go:125-131).
THEOREM LimitedSlotsRest == Spec => LimitedSlotRests
<1> DEFINE Rest ==
       slot' \notin {slot, NoSlot} =>
          /\ \A s \in ToSet(slots) \ tried :
                Cooling(slot') => cooldown[s] >= cooldown[slot']
          /\ Credential' = slot'
<1>1. TurnInv /\ TurnInv' /\ [Next]_vars => [Rest]_poolVars
  <2> SUFFICES ASSUME TurnInv, TurnInv', [Next]_vars PROVE [Rest]_poolVars
    OBVIOUS
  <2>1. CASE PoolStep
    BY <2>1, StepRests DEF TurnInv
  <2>2. CASE BeginSpawn \/ EndSpawn
    BY <2>2 DEF BeginSpawn, EndSpawn
  <2> QED
    BY <2>1, <2>2, PoolMoves
<1> QED
  BY <1>1, TurnIsKept, PTL DEF Spec, LimitedSlotRests

\* A turn never comes back to a slot, and shows a fast and silent failure only when
\* every slot was tried or is limited (spawnretry.go:13-17; oauthpool.go:160-165).
THEOREM FailoverCompletes == Spec => FailoverIsComplete
<1> DEFINE Complete ==
       /\ Decide /\ spawn' = "pick" => slot' \notin tried
       /\ Decide /\ spawn' = "over" /\ maxAttempts = Len(slots)
          /\ exit = [how |-> "failed", posted |-> FALSE, fast |-> TRUE] =>
            \A s \in ToSet(slots) : s \in tried \/ Cooling(s)
<1>1. TurnInv => [Complete]_poolVars
  BY StepIsComplete DEF TurnInv
<1> QED
  BY <1>1, TurnIsKept, PTL DEF FailoverIsComplete

=============================================================================
