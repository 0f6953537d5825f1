-------------------------- MODULE EngagementProofs ---------------------------
(* The recorder loses track of no event and Close flushes, for any numbers of  *)
(* Record and Close calls and any sizes of the channel and of the batches.     *)
EXTENDS Engagement, FiniteSetTheorems, SequenceTheorems, TLAPS

NoRepeat(seq) == \A i, j \in 1..Len(seq) : seq[i] = seq[j] => i = j

Returned == {e \in Event : recPC[e] = "returned"}

\* The lists repeat nothing and overlap nowhere, and hold, with the events given
\* up, exactly those whose Record has returned.
PlaceInv ==
    /\ NoRepeat(in) /\ NoRepeat(buf)
    /\ \A i \in 1..Len(sent) : NoRepeat(sent[i])
    /\ \A i, j \in 1..Len(sent) : i # j => EventsIn(sent[i]) \cap EventsIn(sent[j]) = {}
    /\ EventsIn(in) \cap EventsIn(buf) = {}
    /\ (EventsIn(in) \cup EventsIn(buf)) \cap (SentEvents \cup lost) = {}
    /\ SentEvents \cap lost = {}
    /\ Returned = SentEvents \cup lost \cup EventsIn(buf) \cup EventsIn(in)

\* How far the loop is in its end, and what the end owes to the early events: from
\* the last flush on, none of them is left in the channel.
CloseInv ==
    /\ early \subseteq Returned
    /\ loopPC = "drain" => stop
    /\ final => stop /\ loopPC \in {"send", "exited"} /\ early \cap EventsIn(in) = {}
    /\ loopPC = "exited" => final /\ buf = << >>
    /\ done <=> loopPC = "exited"
    /\ \A c \in Closer : closePC[c] = "flushed" => done

Inv == TypeOK /\ PlaceInv /\ CloseInv

(* ------------------------------ the lists -------------------------------- *)

LEMMA EventsInType == \A seq \in Seq(Event) : EventsIn(seq) \subseteq Event
BY LenProperties DEF EventsIn

LEMMA EmptyList == EventsIn(<< >>) = {} /\ NoRepeat(<< >>) /\ << >> \in Seq(Event)
BY EmptySeq DEF EventsIn, NoRepeat

\* A list grows at its end by one new element.
LEMMA AppendOne ==
    ASSUME NEW seq \in Seq(Event), NEW e \in Event
    PROVE  /\ EventsIn(Append(seq, e)) = EventsIn(seq) \cup {e}
           /\ NoRepeat(seq) /\ e \notin EventsIn(seq) => NoRepeat(Append(seq, e))
<1> DEFINE n == Len(seq)
           t == Append(seq, e)
<1>1. /\ n \in Nat /\ Len(t) = n + 1 /\ t[n + 1] = e
      /\ \A i \in 1..n : t[i] = seq[i]
  BY AppendProperties, LenProperties
<1>2. EventsIn(seq) = {seq[i] : i \in 1..n} /\ EventsIn(t) = {t[i] : i \in 1..(n + 1)}
  BY <1>1 DEF EventsIn
<1>3. NoRepeat(seq) <=> \A i, j \in 1..n : seq[i] = seq[j] => i = j
  BY DEF NoRepeat
<1>4. NoRepeat(t) <=> \A i, j \in 1..(n + 1) : t[i] = t[j] => i = j
  BY <1>1 DEF NoRepeat
<1> HIDE DEF n, t
<1>5. \A i \in 1..(n + 1) : i \in 1..n \/ i = n + 1
  BY <1>1
<1>6. \A i \in 1..n : i \in 1..(n + 1)
  BY <1>1
<1>7. n + 1 \in 1..(n + 1)
  BY <1>1
<1>8. EventsIn(t) = EventsIn(seq) \cup {e}
  BY <1>1, <1>2, <1>5, <1>6, <1>7
<1>9. NoRepeat(seq) /\ e \notin EventsIn(seq) => NoRepeat(t)
  BY <1>1, <1>2, <1>3, <1>4, <1>5
<1> QED
  BY <1>8, <1>9 DEF t

\* A list gives up its first element.
LEMMA TakeFirst ==
    ASSUME NEW seq \in Seq(Event), seq # << >>
    PROVE  /\ Head(seq) \in Event /\ Tail(seq) \in Seq(Event)
           /\ Len(Tail(seq)) = Len(seq) - 1
           /\ EventsIn(seq) = {Head(seq)} \cup EventsIn(Tail(seq))
           /\ NoRepeat(seq) => NoRepeat(Tail(seq)) /\ Head(seq) \notin EventsIn(Tail(seq))
<1> DEFINE n == Len(seq)
           t == Tail(seq)
           h == Head(seq)
<1>1. /\ h \in Event /\ t \in Seq(Event) /\ n \in Nat \ {0} /\ Len(t) = n - 1
      /\ h = seq[1]
      /\ \A i \in 1..(n - 1) : t[i] = seq[i + 1]
  BY HeadTailProperties, EmptySeq
<1>2. EventsIn(seq) = {seq[i] : i \in 1..n} /\ EventsIn(t) = {t[i] : i \in 1..(n - 1)}
  BY <1>1 DEF EventsIn
<1>3. NoRepeat(seq) <=> \A i, j \in 1..n : seq[i] = seq[j] => i = j
  BY DEF NoRepeat
<1>4. NoRepeat(t) <=> \A i, j \in 1..(n - 1) : t[i] = t[j] => i = j
  BY <1>1 DEF NoRepeat
<1> HIDE DEF n, t, h
<1>5. /\ \A i \in 1..n : i = 1 \/ (i - 1 \in 1..(n - 1) /\ (i - 1) + 1 = i)
      /\ \A i \in 1..(n - 1) : i + 1 \in 1..n /\ i + 1 # 1
      /\ 1 \in 1..n
      /\ \A i, j \in 1..(n - 1) : i + 1 = j + 1 => i = j
  BY <1>1
<1>6. EventsIn(seq) = {h} \cup EventsIn(t)
  <2>1. ASSUME NEW i \in 1..n PROVE seq[i] = h \/ seq[i] \in {t[j] : j \in 1..(n - 1)}
    <3>1. CASE i = 1
      BY <1>1, <3>1
    <3>2. CASE i # 1
      <4>1. PICK j \in 1..(n - 1) : j + 1 = i
        BY <1>5, <3>2
      <4> QED
        BY <1>1, <4>1
    <3> QED
      BY <3>1, <3>2
  <2>2. \A j \in 1..(n - 1) : t[j] \in {seq[i] : i \in 1..n}
    BY <1>1, <1>5
  <2>3. h \in {seq[i] : i \in 1..n}
    BY <1>1, <1>5
  <2> QED
    BY <1>2, <2>1, <2>2, <2>3
<1>7. NoRepeat(seq) => NoRepeat(t) /\ h \notin EventsIn(t)
  BY <1>1, <1>2, <1>3, <1>4, <1>5
<1> QED
  BY <1>1, <1>6, <1>7 DEF n, t, h

\* As many events as places, if none is repeated.
LEMMA CountedOnce ==
    ASSUME NEW seq \in Seq(Event), NoRepeat(seq)
    PROVE  Cardinality(EventsIn(seq)) = Len(seq)
<1> DEFINE n == Len(seq)
<1>1. n \in Nat /\ seq \in [1..n -> Event]
  BY LenProperties
<1>2. seq \in [1..n -> EventsIn(seq)]
  BY <1>1 DEF EventsIn
<1>3. seq \in Bijection(1..n, EventsIn(seq))
  BY <1>2 DEF NoRepeat, EventsIn, Bijection, Injection, Surjection, IsInjective
<1> HIDE DEF n
<1>4. ExistsBijection(1..n, EventsIn(seq))
  BY <1>3 DEF ExistsBijection
<1>5. Cardinality(EventsIn(seq)) = n
  BY <1>1, <1>4, FS_CountingElements
<1> QED
  BY <1>5 DEF n

\* A batch that the sink accepts.
LEMMA SendOne ==
    ASSUME NEW seqs \in Seq(Seq(Event)), NEW b \in Seq(Event)
    PROVE  /\ Append(seqs, b) \in Seq(Seq(Event))
           /\ Len(Append(seqs, b)) = Len(seqs) + 1
           /\ \A i \in 1..Len(seqs) : Append(seqs, b)[i] = seqs[i]
           /\ Append(seqs, b)[Len(seqs) + 1] = b
           /\ \A i \in 1..(Len(seqs) + 1) : i \in 1..Len(seqs) \/ i = Len(seqs) + 1
           /\ Len(seqs) \in Nat
BY AppendProperties, LenProperties

(* ------------------------------ the steps -------------------------------- *)

LEMMA InitHasInv == Init => Inv
<1> SUFFICES ASSUME Init PROVE Inv
  OBVIOUS
<1>1. Len(<< >>) = 0 /\ 0 < BatchSize /\ 0 <= BufferSize /\ SentEvents = {}
  BY SizeAssumption DEF Init, SentEvents
<1>2. TypeOK
  <2>1. << >> \in Seq(Seq(Event))
    BY EmptySeq
  <2> QED
    BY <1>1, <2>1, EmptyList DEF Init, TypeOK
<1>3. PlaceInv
  BY <1>1, EmptyList DEF Init, PlaceInv, Returned
<1>4. CloseInv
  BY EmptyList DEF Init, CloseInv
<1> QED
  BY <1>2, <1>3, <1>4 DEF Inv

\* Record: into the channel, or given up.
LEMMA RecordKeepsInv ==
    ASSUME Inv, NEW e \in Event, Record(e)
    PROVE  Inv'
<1>1. /\ e \notin Returned /\ Returned' = Returned \cup {e}
      /\ UNCHANGED <<buf, loopPC, final, stop, done, closePC, sent, early>>
      /\ SentEvents' = SentEvents
      /\ recPC' \in [Event -> {"idle", "returned"}]
  BY DEF Record, Inv, TypeOK, Returned, SentEvents
<1>2. CASE in' = Append(in, e) /\ Len(in) < BufferSize /\ UNCHANGED lost
  <2>1. in \in Seq(Event) /\ in' \in Seq(Event) /\ Len(in') <= BufferSize
    <3>1. Len(in') = Len(in) + 1 /\ Len(in) \in Nat /\ in' \in Seq(Event)
      BY <1>2, AppendProperties, LenProperties DEF Inv, TypeOK
    <3> QED
      BY <1>2, <3>1, SizeAssumption DEF Inv, TypeOK
  <2>2. /\ EventsIn(in') = EventsIn(in) \cup {e} /\ e \notin EventsIn(in)
        /\ NoRepeat(in')
    BY <1>1, <1>2, <2>1, AppendOne DEF Inv, PlaceInv
  <2>3. TypeOK'
    BY <1>1, <1>2, <2>1 DEF Inv, TypeOK
  <2>4. PlaceInv'
    BY <1>1, <1>2, <2>2 DEF Inv, PlaceInv
  <2>5. CloseInv'
    BY <1>1, <2>2 DEF Inv, CloseInv
  <2> QED
    BY <2>3, <2>4, <2>5 DEF Inv
<1>3. CASE lost' = lost \cup {e} /\ UNCHANGED in
  <2>1. TypeOK'
    BY <1>1, <1>3 DEF Inv, TypeOK
  <2>2. PlaceInv'
    BY <1>1, <1>3 DEF Inv, PlaceInv
  <2>3. CloseInv'
    BY <1>1, <1>3 DEF Inv, CloseInv
  <2> QED
    BY <2>1, <2>2, <2>3 DEF Inv
<1> QED
  BY <1>2, <1>3 DEF Record

\* The loop takes the channel's first event into its buffer.
LEMMA TakeKeepsPlaces ==
    ASSUME Inv, Receive \/ DrainOne
    PROVE  /\ PlaceInv'
           /\ in' \in Seq(Event) /\ Len(in') <= BufferSize /\ buf' \in Seq(Event)
           /\ EventsIn(in') \subseteq EventsIn(in)
<1>1. /\ in # << >> /\ buf' = Append(buf, Head(in)) /\ in' = Tail(in)
      /\ UNCHANGED <<recPC, sent, lost>>
  BY DEF Receive, DrainOne
<1>2. in \in Seq(Event) /\ buf \in Seq(Event) /\ NoRepeat(in) /\ NoRepeat(buf)
  BY DEF Inv, TypeOK, PlaceInv
<1>3. /\ Head(in) \in Event /\ in' \in Seq(Event)
      /\ EventsIn(in) = {Head(in)} \cup EventsIn(in')
      /\ NoRepeat(in') /\ Head(in) \notin EventsIn(in')
  BY <1>1, <1>2, TakeFirst
<1>4. /\ EventsIn(buf') = EventsIn(buf) \cup {Head(in)} /\ NoRepeat(buf')
      /\ buf' \in Seq(Event)
  <2>1. Head(in) \notin EventsIn(buf)
    BY <1>3 DEF Inv, PlaceInv
  <2> QED
    BY <1>1, <1>2, <1>3, <2>1, AppendOne, AppendProperties
<1>5. Len(in') <= BufferSize
  <2>1. Len(in) \in Nat /\ Len(in') = Len(in) - 1 /\ Len(in) <= BufferSize
    BY <1>1, <1>2, TakeFirst, LenProperties DEF Inv, TypeOK
  <2> QED
    BY <2>1, SizeAssumption
<1>6. Returned' = Returned /\ SentEvents' = SentEvents
  BY <1>1 DEF Returned, SentEvents
<1>7. PlaceInv'
  BY <1>1, <1>3, <1>4, <1>6 DEF Inv, PlaceInv
<1> QED
  BY <1>3, <1>4, <1>5, <1>7

LEMMA TakeKeepsInv ==
    ASSUME Inv, Receive \/ DrainOne
    PROVE  Inv'
<1>1. UNCHANGED <<recPC, final, stop, done, closePC, sent, lost, early>> /\ Returned' = Returned
  BY DEF Receive, DrainOne, Returned
<1>2. \/ loopPC = "drain" /\ loopPC' = "drain"
      \/ loopPC = "select" /\ loopPC' = IF Len(buf') >= BatchSize THEN "send" ELSE "select"
  BY DEF Receive, DrainOne
<1>3. TypeOK'
  <2>1. Len(buf') \in Nat /\ buf' \in Seq(Event)
    BY TakeKeepsPlaces, LenProperties
  <2> QED
    BY <1>1, <1>2, <2>1, TakeKeepsPlaces, SizeAssumption DEF Inv, TypeOK
<1>4. CloseInv'
  BY <1>1, <1>2, TakeKeepsPlaces DEF Inv, CloseInv
<1> QED
  BY <1>3, <1>4, TakeKeepsPlaces DEF Inv

\* A batch is shipped or given up as a whole.
LEMMA EndSendKeepsInv ==
    ASSUME Inv, EndSend
    PROVE  Inv'
<1>1. /\ loopPC = "send" /\ buf' = << >>
      /\ loopPC' = IF final THEN "exited" ELSE "select"
      /\ done' = final
      /\ UNCHANGED <<recPC, in, final, stop, closePC, early>>
      /\ Returned' = Returned
  BY DEF EndSend, Returned
<1>2. buf \in Seq(Event) /\ sent \in Seq(Seq(Event)) /\ EventsIn(buf) \subseteq Event
  BY EventsInType DEF Inv, TypeOK
<1>3. CloseInv'
  BY <1>1 DEF Inv, CloseInv, TypeOK
<1>4. CASE sent' = Append(sent, buf) /\ UNCHANGED lost
  <2> DEFINE n == Len(sent)
  <2>1. /\ sent' \in Seq(Seq(Event)) /\ Len(sent') = n + 1 /\ n \in Nat
        /\ \A i \in 1..n : sent'[i] = sent[i]
        /\ sent'[n + 1] = buf
        /\ \A i \in 1..(n + 1) : i \in 1..n \/ i = n + 1
    BY <1>2, <1>4, SendOne
  <2>2. /\ \A i \in 1..n : EventsIn(sent[i]) \subseteq SentEvents
        /\ EventsIn(buf) \cap SentEvents = {}
    BY DEF SentEvents, Inv, PlaceInv
  <2> HIDE DEF n
  <2>3. TypeOK'
    BY <1>1, <1>4, <2>1, EmptyList, SizeAssumption DEF Inv, TypeOK
  <2>4. SentEvents' = SentEvents \cup EventsIn(buf)
    <3>1. /\ SentEvents = UNION {EventsIn(sent[i]) : i \in 1..n}
          /\ SentEvents' = UNION {EventsIn(sent'[i]) : i \in 1..(n + 1)}
      BY <2>1 DEF SentEvents, n
    <3>2. \A i \in 1..n : i \in 1..(n + 1)
      BY <2>1
    <3>3. n + 1 \in 1..(n + 1)
      BY <2>1
    <3> QED
      BY <2>1, <3>1, <3>2, <3>3
  <2>5. \A i \in 1..(n + 1) : NoRepeat(sent'[i])
    <3>1. \A i \in 1..n : NoRepeat(sent[i])
      BY DEF Inv, PlaceInv, n
    <3>2. NoRepeat(buf)
      BY DEF Inv, PlaceInv
    <3> QED
      BY <2>1, <3>1, <3>2
  <2>6. \A i, j \in 1..(n + 1) : i # j => EventsIn(sent'[i]) \cap EventsIn(sent'[j]) = {}
    <3>1. \A i, j \in 1..n : i # j => EventsIn(sent[i]) \cap EventsIn(sent[j]) = {}
      BY DEF Inv, PlaceInv, n
    <3> QED
      BY <2>1, <2>2, <3>1
  <2>7. PlaceInv'
    <3>1. /\ \A i \in 1..Len(sent') : NoRepeat(sent'[i])
          /\ \A i, j \in 1..Len(sent') :
                i # j => EventsIn(sent'[i]) \cap EventsIn(sent'[j]) = {}
      BY <2>1, <2>5, <2>6
    <3>2. EventsIn(buf') = {} /\ NoRepeat(buf')
      BY <1>1, EmptyList
    <3> QED
      BY <1>1, <1>4, <2>4, <3>1, <3>2 DEF Inv, PlaceInv
  <2> QED
    BY <1>3, <2>3, <2>7 DEF Inv
<1>5. CASE lost' = lost \cup EventsIn(buf) /\ UNCHANGED sent
  <2>1. TypeOK'
    BY <1>1, <1>2, <1>5, EmptyList, SizeAssumption DEF Inv, TypeOK
  <2>2. EventsIn(buf') = {} /\ NoRepeat(buf') /\ SentEvents' = SentEvents
    BY <1>1, <1>5, EmptyList DEF SentEvents
  <2>3. PlaceInv'
    BY <1>1, <1>5, <2>2 DEF Inv, PlaceInv
  <2> QED
    BY <1>3, <2>1, <2>3 DEF Inv
<1> QED
  BY <1>4, <1>5 DEF EndSend

\* The other steps move no event.
LEMMA OthersKeepInv ==
    ASSUME Inv, \/ TickFlush \/ Stopping \/ DrainEnd \/ UNCHANGED vars
                \/ \E c \in Closer : BeginClose(c) \/ EndClose(c)
    PROVE  Inv'
<1>1. UNCHANGED <<recPC, in, buf, sent, lost>>
  BY DEF TickFlush, Stopping, DrainEnd, BeginClose, EndClose, vars
<1>2. PlaceInv'
  <2>1. Returned' = Returned /\ SentEvents' = SentEvents
    BY <1>1 DEF Returned, SentEvents
  <2> QED
    BY <1>1, <2>1 DEF Inv, PlaceInv
<1>3. TypeOK' /\ CloseInv'
  <2>1. CASE TickFlush \/ Stopping \/ UNCHANGED vars
    BY <1>1, <2>1 DEF TickFlush, Stopping, vars, Inv, TypeOK, CloseInv, Returned
  <2>2. CASE DrainEnd
    BY <1>1, <2>2, EmptyList DEF DrainEnd, Inv, TypeOK, CloseInv, Returned
  <2>3. ASSUME NEW c \in Closer, BeginClose(c)
        PROVE  TypeOK' /\ CloseInv'
    BY <1>1, <2>3 DEF BeginClose, Inv, TypeOK, CloseInv, Returned
  <2>4. ASSUME NEW c \in Closer, EndClose(c)
        PROVE  TypeOK' /\ CloseInv'
    BY <1>1, <2>4 DEF EndClose, Inv, TypeOK, CloseInv, Returned
  <2> QED
    BY <2>1, <2>2, <2>3, <2>4
<1> QED
  BY <1>2, <1>3 DEF Inv

LEMMA NextKeepsInv == Inv /\ [Next]_vars => Inv'
BY RecordKeepsInv, TakeKeepsInv, EndSendKeepsInv, OthersKeepInv
   DEF Next, LoopStep, Finished

LEMMA InvIsSafe == Inv => OnePlace /\ CloseFlushes
<1> SUFFICES ASSUME Inv PROVE OnePlace /\ CloseFlushes
  OBVIOUS
<1>1. \A i \in 1..Len(sent) : Cardinality(EventsIn(sent[i])) = Len(sent[i])
  <2>1. \A i \in 1..Len(sent) : sent[i] \in Seq(Event)
    BY ElementOfSeq DEF Inv, TypeOK
  <2> QED
    BY <2>1, CountedOnce DEF Inv, PlaceInv
<1>2. OnePlace
  BY <1>1 DEF Inv, PlaceInv, OnePlace, Returned
<1>3. CloseFlushes
  <2> SUFFICES ASSUME NEW c \in Closer, closePC[c] = "flushed"
               PROVE  early \subseteq SentEvents \cup lost
    BY DEF CloseFlushes
  <2>1. early \cap EventsIn(in) = {} /\ buf = << >>
    BY DEF Inv, CloseInv
  <2> QED
    BY <2>1, EmptyList DEF Inv, CloseInv, PlaceInv
<1> QED
  BY <1>2, <1>3

\* The recorder's inductive invariant.
THEOREM RecorderInvariant == Spec => []Inv
BY InitHasInv, NextKeepsInv, PTL DEF Spec

\* An event that Record took is in exactly one place: one batch shipped, given up
\* with a log line, or still queued (engagement.go:181-190).
THEOREM EventsKeepOnePlace == Spec => []OnePlace
BY RecorderInvariant, InvIsSafe, PTL

\* When Close returns because the loop is done, no event recorded before the first
\* close is left behind (engagement.go:163-175, 200-210).
THEOREM CloseLeavesNothing == Spec => []CloseFlushes
BY RecorderInvariant, InvIsSafe, PTL

=============================================================================
