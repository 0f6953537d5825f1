----------------------------- MODULE Engagement -----------------------------
(* engagement.Recorder: Record puts an event into a buffered channel or drops  *)
(* it, one goroutine collects batches and sends them on size, on the ticker    *)
(* and on Close, which waits for the final flush or for its context.           *)
EXTENDS Integers, Sequences, FiniteSets

CONSTANTS
    Event,      \* events, one per Record call
    Closer,     \* Close calls
    BufferSize, \* capacity of the channel
    BatchSize

ASSUME SizeAssumption ==
    BufferSize \in Nat \ {0} /\ BatchSize \in Nat \ {0}

VARIABLES
    recPC,      \* where each Record call is
    in,         \* the channel
    buf,        \* the loop's buffer
    loopPC,     \* where the loop is
    final,      \* whether the batch being sent is the last one
    stop, done, \* whether each channel is closed
    closePC,    \* where each Close call is
    sent,       \* the batches the sink has accepted
    lost,       \* events dropped with a log line: buffer full or failed send
    early       \* events whose Record had returned when stop was closed

vars == <<recPC, in, buf, loopPC, final, stop, done, closePC, sent, lost, early>>

EventsIn(seq) == {seq[i] : i \in 1..Len(seq)}
SentEvents == UNION {EventsIn(sent[i]) : i \in 1..Len(sent)}

TypeOK ==
    /\ recPC \in [Event -> {"idle", "returned"}]
    /\ in \in Seq(Event) /\ Len(in) <= BufferSize
    /\ buf \in Seq(Event) /\ (loopPC = "select" => Len(buf) < BatchSize)
    /\ loopPC \in {"select", "send", "drain", "exited"}
    /\ final \in BOOLEAN /\ stop \in BOOLEAN /\ done \in BOOLEAN
    /\ closePC \in [Closer -> {"idle", "waiting", "flushed", "cancelled"}]
    /\ sent \in Seq(Seq(Event))
    /\ lost \subseteq Event /\ early \subseteq Event

Init ==
    /\ recPC = [e \in Event |-> "idle"]
    /\ in = << >>
    /\ buf = << >>
    /\ loopPC = "select"
    /\ final = FALSE
    /\ stop = FALSE /\ done = FALSE
    /\ closePC = [c \in Closer |-> "idle"]
    /\ sent = << >>
    /\ lost = {} /\ early = {}

\* Record never blocks: into the channel, or dropped with a warning.
Record(e) ==
    /\ recPC[e] = "idle"
    /\ recPC' = [recPC EXCEPT ![e] = "returned"]
    /\ IF Len(in) < BufferSize
       THEN in' = Append(in, e) /\ UNCHANGED lost
       ELSE lost' = lost \cup {e} /\ UNCHANGED in
    /\ UNCHANGED <<buf, loopPC, final, stop, done, closePC, sent, early>>

\* The select's receive; a full buffer is flushed.
Receive ==
    /\ loopPC = "select"
    /\ in # << >>
    /\ buf' = Append(buf, Head(in))
    /\ in' = Tail(in)
    /\ loopPC' = IF Len(buf') >= BatchSize THEN "send" ELSE "select"
    /\ UNCHANGED <<recPC, final, stop, done, closePC, sent, lost, early>>

\* Mutant: a tick empties the buffer before the flush.
TickFlush_Clears ==
    /\ loopPC = "select"
    /\ buf # << >>
    /\ buf' = << >>
    /\ UNCHANGED <<recPC, in, loopPC, final, stop, done, closePC, sent, lost, early>>

\* Mutant: the ticker flushes full buffers only.
TickFlush_OnlyFull ==
    /\ loopPC = "select"
    /\ Len(buf) >= BatchSize
    /\ loopPC' = "send"
    /\ UNCHANGED <<recPC, in, buf, final, stop, done, closePC, sent, lost, early>>

\* The ticker's case: flush what there is.
TickFlush ==
    /\ loopPC = "select"
    /\ buf # << >>
    /\ loopPC' = "send"
    /\ UNCHANGED <<recPC, in, buf, final, stop, done, closePC, sent, lost, early>>

\* send returns; on an error the batch is logged and gone all the same.
EndSend ==
    /\ loopPC = "send"
    /\ \/ sent' = Append(sent, buf) /\ UNCHANGED lost
       \/ lost' = lost \cup EventsIn(buf) /\ UNCHANGED sent
    /\ buf' = << >>
    /\ loopPC' = IF final THEN "exited" ELSE "select"
    /\ done' = final
    /\ UNCHANGED <<recPC, in, final, stop, closePC, early>>

\* Mutant: the stop case goes straight to the flush.
Stopping_NoDrain ==
    /\ loopPC = "select"
    /\ stop
    /\ final' = TRUE
    /\ loopPC' = IF buf = << >> THEN "exited" ELSE "send"
    /\ done' = (buf = << >>)
    /\ UNCHANGED <<recPC, in, buf, stop, closePC, sent, lost, early>>

\* The select's stop case; it may be picked while events or a tick are ready.
Stopping ==
    /\ loopPC = "select"
    /\ stop
    /\ loopPC' = "drain"
    /\ UNCHANGED <<recPC, in, buf, final, stop, done, closePC, sent, lost, early>>

DrainOne ==
    /\ loopPC = "drain"
    /\ in # << >>
    /\ buf' = Append(buf, Head(in))
    /\ in' = Tail(in)
    /\ UNCHANGED <<recPC, loopPC, final, stop, done, closePC, sent, lost, early>>

\* The channel is empty: the last flush, and the deferred close(done).
DrainEnd ==
    /\ loopPC = "drain"
    /\ in = << >>
    /\ final' = TRUE
    /\ loopPC' = IF buf = << >> THEN "exited" ELSE "send"
    /\ done' = (buf = << >>)
    /\ UNCHANGED <<recPC, in, buf, stop, closePC, sent, lost, early>>

\* closeOnce closes stop, then the call waits.
BeginClose(c) ==
    /\ closePC[c] = "idle"
    /\ closePC' = [closePC EXCEPT ![c] = "waiting"]
    /\ stop' = TRUE
    /\ early' = IF stop THEN early ELSE {e \in Event : recPC[e] = "returned"}
    /\ UNCHANGED <<recPC, in, buf, loopPC, final, done, sent, lost>>

\* Done, or the context is cancelled, whichever the select picks.
EndClose(c) ==
    /\ closePC[c] = "waiting"
    /\ \/ done /\ closePC' = [closePC EXCEPT ![c] = "flushed"]
       \/ closePC' = [closePC EXCEPT ![c] = "cancelled"]
    /\ UNCHANGED <<recPC, in, buf, loopPC, final, stop, done, sent, lost, early>>

LoopStep ==
    Receive \/ TickFlush \/ EndSend \/ Stopping \/ DrainOne \/ DrainEnd

Finished ==
    /\ loopPC = "exited"
    /\ \A e \in Event : recPC[e] = "returned"
    /\ \A c \in Closer : closePC[c] \in {"flushed", "cancelled"}
    /\ UNCHANGED vars

Next ==
    \/ \E e \in Event : Record(e)
    \/ LoopStep
    \/ \E c \in Closer : BeginClose(c) \/ EndClose(c)
    \/ Finished

Spec == Init /\ [][Next]_vars

\* The goroutine runs, its ticker ticks and its sends return, which have a timeout.
FairSpec == Spec /\ WF_vars(LoopStep)

(* ----------------------------- properties -------------------------------- *)

\* The state is well typed, and an event that Record took is in exactly one place:
\* shipped in one batch, given up with a log line, or still queued; the buffer is
\* reused between batches (engagement.go:181-190).
OnePlace ==
    /\ TypeOK
    /\ \A i, j \in 1..Len(sent) : i # j => EventsIn(sent[i]) \cap EventsIn(sent[j]) = {}
    /\ \A i \in 1..Len(sent) : Cardinality(EventsIn(sent[i])) = Len(sent[i])
    /\ SentEvents \cap (EventsIn(buf) \cup EventsIn(in) \cup lost) = {}
    /\ {e \in Event : recPC[e] = "returned"}
           = SentEvents \cup lost \cup EventsIn(buf) \cup EventsIn(in)

\* Close flushes: when a call has returned because the loop is done, every event
\* recorded before the first close was shipped, or given up with a log line
\* (engagement.go:163-175, 200-210).
CloseFlushes ==
    (\E c \in Closer : closePC[c] = "flushed") => early \subseteq SentEvents \cup lost

\* However slow the traffic, and whenever Close comes, an event recorded before
\* it does not wait in the buffer for ever (engagement.go:81-83, 191-212).
EarlyEventShipped ==
    \A e \in Event :
        (recPC[e] = "returned" /\ ~stop) ~> e \in SentEvents \cup lost

=============================================================================
