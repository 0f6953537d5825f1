--------------------------- MODULE SerialSession ----------------------------
(* What the session queue promises its callers, with no lock, no goroutine and *)
(* no map in it: per session, messages wait in arrival order, one batch is in  *)
(* work at a time, a batch takes everything that waits, and each message gets  *)
(* one outcome, the stop notice only if its cancellation was requested.        *)
EXTENDS Sequences, Naturals

CONSTANTS Msg, Session, SidOf

VARIABLES
    submitted,  \* messages the queue has accepted
    requested,  \* messages whose cancellation was requested
    pending,    \* per session, the waiting messages, oldest first
    active,     \* per session, the batch in work
    ran,        \* messages whose batch was handed to the Runner
    stopped     \* messages that get the stop notice

vars == <<submitted, requested, pending, active, ran, stopped>>

Members(seq) == {seq[i] : i \in 1..Len(seq)}

\* What is left of a list when some of its members are dropped: the others, in
\* their order.
InOrder(part, seq) ==
    \E f \in [1..Len(part) -> 1..Len(seq)] :
        /\ \A i, j \in 1..Len(part) : i < j => f[i] < f[j]
        /\ \A i \in 1..Len(part) : part[i] = seq[f[i]]

Without(seq, drop) ==
    LET rest == Members(seq) \ drop
    IN  {part \in UNION {[1..n -> rest] : n \in 0..Len(seq)} :
           Members(part) = rest /\ InOrder(part, seq)}

Init ==
    /\ submitted = {}
    /\ requested = {}
    /\ pending = [s \in Session |-> << >>]
    /\ active = [s \in Session |-> << >>]
    /\ ran = {}
    /\ stopped = {}

Submit(m) ==
    /\ m \notin submitted
    /\ submitted' = submitted \cup {m}
    /\ pending' = [pending EXCEPT ![SidOf[m]] = Append(@, m)]
    /\ UNCHANGED <<requested, active, ran, stopped>>

\* A request may come too late: it binds nobody by itself.
Request(m) ==
    /\ m \in submitted
    /\ requested' = requested \cup {m}
    /\ UNCHANGED <<submitted, pending, active, ran, stopped>>

\* With no batch in work, everything that waits is taken; requested messages
\* may be left out of the batch and are then stopped.
Claim(s) ==
    /\ active[s] = << >>
    /\ pending[s] # << >>
    /\ \E drop \in SUBSET (Members(pending[s]) \cap requested) :
         /\ \E part \in Without(pending[s], drop) :
              active' = [active EXCEPT ![s] = part]
         /\ stopped' = stopped \cup drop
    /\ pending' = [pending EXCEPT ![s] = << >>]
    /\ UNCHANGED <<submitted, requested, ran>>

Start(s) ==
    /\ active[s] # << >>
    /\ Members(active[s]) \cap (ran \cup stopped) = {}
    /\ ran' = ran \cup Members(active[s])
    /\ UNCHANGED <<submitted, requested, pending, active, stopped>>

Finish(s) ==
    /\ active[s] # << >>
    /\ Members(active[s]) \subseteq ran
    /\ active' = [active EXCEPT ![s] = << >>]
    /\ UNCHANGED <<submitted, requested, pending, ran, stopped>>

Next ==
    \/ \E m \in Msg : Submit(m) \/ Request(m)
    \/ \E s \in Session : Claim(s) \/ Start(s) \/ Finish(s)

Spec == Init /\ [][Next]_vars

=============================================================================
