----------------------------- MODULE OwnerMode ------------------------------
(* A personal or team agent: dispatchMessage's gate path in the owner modes,   *)
(* ownergate's predicate over the per-pod ownership file, with handlers that   *)
(* run concurrently, writes that fail, and restarts of the pod.                *)
EXTENDS Naturals

CONSTANTS
    Msg,        \* messages, each with its handler
    Thread,     \* threads of channels
    None,       \* nil
    Inputs,     \* the messages people write, see Message
    MaxKills    \* bound: kills in a behaviour


VARIABLES
    team,       \* TeamOptions.Enabled
    args,       \* each message, once its handler has looked at it
    pc,         \* where each handler is
    verdict,    \* each handler's ownergate decision
    owned,      \* threadownership.File's map: the threads with the agent's id
    disk,       \* the same in the JSON file
    routed,     \* messages handed to the spawn wiring
    rejected,   \* messages OnReject was called for
    kills

vars == <<team, args, pc, verdict, owned, disk, routed, rejected, kills>>

\* What the gate looks at: owner is "the sender is the owner", self and other are
\* the mentions found in the text, confirmed is OwnerInChannel as the caller
\* resolved it.  A direct message belongs to no thread here.
Message ==
    [owner : BOOLEAN, self : BOOLEAN, other : BOOLEAN, confirmed : BOOLEAN,
     place : {"top", "reply"}, thread : Thread]
      \cup [owner : BOOLEAN, self : {FALSE}, other : {FALSE}, confirmed : {FALSE},
            place : {"dm"}, thread : {None}]

ASSUME InputsAssumption == Inputs \subseteq Message
ASSUME KillsAssumption == None \notin Thread /\ MaxKills \in Nat

Verdicts == {"Pass", "PassClaim", "SilentDrop", "SilentDropRelease", "Reject"}

\* decideOwner: the verdicts that spawn, and those that change the claims.
Responds == {"Pass", "PassClaim"}
Changes == {"PassClaim", "SilentDropRelease"}

TypeOK ==
    /\ team \in BOOLEAN
    /\ args \in [Msg -> Inputs \cup {None}]
    /\ pc \in [Msg -> {"idle", "decided", "admitted", "done", "lost",
                       "unanswered"}]
    /\ verdict \in [Msg -> Verdicts \cup {None}]
    /\ owned \subseteq Thread /\ disk \subseteq Thread
    /\ routed \subseteq Msg /\ rejected \subseteq Msg
    /\ kills \in 0..MaxKills

Init ==
    /\ team \in BOOLEAN
    /\ args = [m \in Msg |-> None]
    /\ pc = [m \in Msg |-> "idle"]
    /\ verdict = [m \in Msg |-> None]
    /\ owned = {} /\ disk = {}
    /\ routed = {} /\ rejected = {}
    /\ kills = 0

\* Mutant: the membership of the owner is not asked for.
CheckTeam_AnyChannel(a, ownsThread) ==
    LET admits == team /\ a.place # "dm"
        followUp == IF ownsThread THEN "Pass" ELSE "SilentDrop"
    IN  IF ~a.owner
        THEN IF admits THEN IF a.self THEN "PassClaim" ELSE followUp
             ELSE IF a.place = "dm" \/ a.self THEN "Reject" ELSE "SilentDrop"
        ELSE IF a.place = "dm" THEN "Pass"
        ELSE IF a.self THEN "PassClaim"
        ELSE IF a.other THEN IF ownsThread THEN "SilentDropRelease" ELSE "SilentDrop"
        ELSE followUp

\* Mutant: a mention of somebody else goes before a mention of the agent.
CheckTeam_OtherFirst(a, ownsThread) ==
    LET admits == team /\ a.confirmed /\ a.place # "dm"
        followUp == IF ownsThread THEN "Pass" ELSE "SilentDrop"
    IN  IF ~a.owner
        THEN IF admits THEN IF a.self THEN "PassClaim" ELSE followUp
             ELSE IF a.place = "dm" \/ a.self THEN "Reject" ELSE "SilentDrop"
        ELSE IF a.place = "dm" THEN "Pass"
        ELSE IF a.other THEN IF ownsThread THEN "SilentDropRelease" ELSE "SilentDrop"
        ELSE IF a.self THEN "PassClaim"
        ELSE followUp

\* checkTeam; ownsThread is never true outside of a thread.
CheckTeam(a, ownsThread) ==
    LET admits == team /\ a.confirmed /\ a.place # "dm"
        followUp == IF ownsThread THEN "Pass" ELSE "SilentDrop"
    IN  IF ~a.owner
        THEN IF admits THEN IF a.self THEN "PassClaim" ELSE followUp
             ELSE IF a.place = "dm" \/ a.self THEN "Reject" ELSE "SilentDrop"
        ELSE IF a.place = "dm" THEN "Pass"
        ELSE IF a.self THEN "PassClaim"
        ELSE IF a.other THEN IF ownsThread THEN "SilentDropRelease" ELSE "SilentDrop"
        ELSE followUp

\* resolveState under the store's mutex, and gate.Decide on what it read.  Only a
\* reply's key can be in the map; nothing shared is touched by the verdicts that
\* neither write nor spawn.
ResolveState(m, a) ==
    LET v == CheckTeam(a, a.place = "reply" /\ a.thread \in owned)
    IN  /\ pc[m] = "idle"
        /\ args' = [args EXCEPT ![m] = a]
        /\ verdict' = [verdict EXCEPT ![m] = v]
        /\ pc' = [pc EXCEPT ![m] =
                    IF v \in Changes THEN "decided"
                    ELSE IF v \in Responds THEN "admitted" ELSE "done"]
        /\ rejected' = IF v = "Reject" THEN rejected \cup {m} ELSE rejected
        /\ UNCHANGED <<team, owned, disk, routed, kills>>

\* persist: the whole map to a temporary file and the rename, or an error, which
\* leaves the file; a kill in between leaves it too.
Persist(map) == disk' \in {map, disk}

\* Mutant: a claim in a new thread is keyed by its missing thread timestamp.
PersistOwnership_NoFallback(m) ==
    LET key == IF args[m].place = "top" THEN None ELSE args[m].thread
    IN  /\ pc[m] = "decided"
        /\ owned' = IF verdict[m] = "PassClaim" THEN owned \cup {key} ELSE owned \ {key}
        /\ Persist(owned')
        /\ pc' = [pc EXCEPT ![m] = IF verdict[m] \in Responds THEN "admitted" ELSE "done"]
        /\ UNCHANGED <<team, args, verdict, routed, rejected, kills>>

\* persistOwnership: SetOwner or Clear under the mutex changes the map, then
\* writes the file.
PersistOwnership(m) ==
    /\ pc[m] = "decided"
    /\ owned' = IF verdict[m] = "PassClaim" THEN owned \cup {args[m].thread}
                                            ELSE owned \ {args[m].thread}
    /\ Persist(owned')
    /\ pc' = [pc EXCEPT ![m] = IF verdict[m] \in Responds THEN "admitted" ELSE "done"]
    /\ UNCHANGED <<team, args, verdict, routed, rejected, kills>>

\* Handed to the spawn wiring, unless there is neither text nor a file in it.
Route(m) ==
    /\ pc[m] = "admitted"
    /\ \/ routed' = routed \cup {m}
       \/ ~args[m].self /\ ~args[m].other /\ UNCHANGED routed
    /\ pc' = [pc EXCEPT ![m] = "done"]
    /\ UNCHANGED <<team, args, verdict, owned, disk, rejected, kills>>

\* The pod is killed and starts again: NewFile reads the map, or starts empty if
\* the file is missing or corrupt.  The handlers' messages were acked: they are
\* lost before their write, or unanswered after it.
Restart ==
    /\ kills < MaxKills
    /\ kills' = kills + 1
    /\ owned' \in {disk, {}}
    /\ pc' = [m \in Msg |-> CASE pc[m] = "decided" -> "lost"
                            [] pc[m] = "admitted" -> "unanswered"
                            [] OTHER -> pc[m]]
    /\ UNCHANGED <<team, args, verdict, disk, routed, rejected>>

Finished == (\A m \in Msg : pc[m] \in {"done", "lost", "unanswered"}) /\ UNCHANGED vars

Next ==
    \/ \E m \in Msg : \/ \E a \in Inputs : ResolveState(m, a)
                      \/ PersistOwnership(m)
                      \/ Route(m)
    \/ Restart
    \/ Finished

Spec == Init /\ [][Next]_vars

(* ----------------------------- properties -------------------------------- *)

\* A message counts from the moment its handler can no longer be undone: its read
\* of the claims, or its write if it changes them.
AppliedMsgs == {m \in Msg : pc[m] \in {"admitted", "done", "unanswered"}}
Admitted == {m \in AppliedMsgs : verdict[m] \in Responds}

\* Somebody entitled has called the agent to the thread.
Entitled(a) == a.self /\ (a.owner \/ (team /\ a.confirmed))
CalledTo(t) == \E m \in AppliedMsgs : args[m].thread = t /\ Entitled(args[m])

\* The agent takes part in no conversation it was not called to by its owner, or
\* in team mode by a member where the owner is known to be; not even after
\* restarts, and not when several messages are handled at once
\* (ownergate.go:77-91, 149-175).
OnlyInvited ==
    /\ \A t \in owned \cup disk : CalledTo(t)
    /\ \A m \in Admitted : args[m].place # "dm" => CalledTo(args[m].thread)

\* What a member other than the owner writes to somebody else.
SideRemarks == {a \in Inputs : ~a.owner /\ a.other /\ ~a.self}

\* In team mode nobody but the owner makes the agent take part without addressing
\* it, or nobody: a channel's message that mentions only somebody else is dropped
\* (ownergate.go:180-181).  The code lets it through in a thread of the agent's.
NoBargeIn ==
    \A m \in Admitted :
        args[m].place # "dm" /\ ~args[m].owner => args[m].self \/ ~args[m].other

Rules == INSTANCE OwnerRules WITH
    Message  <- Inputs,
    NotHeard <- None,
    Asides   <- SideRemarks,
    heard    <- [m \in Msg |-> IF m \in AppliedMsgs THEN args[m] ELSE None],
    claimed  <- owned,
    saved    <- disk,
    answered <- Admitted,
    refused  <- rejected

\* Handlers that read, decide and write in steps of their own, failed writes and
\* restarts come to the same as one message after the other under the rules, but for
\* the side remarks of NoBargeIn: each is answered, dropped or refused as the claims
\* of one moment say, and a restart loses no saved claim and brings back no saved
\* hand-over
\* (ownergate.go:130-148; dispatcher.go:134-151; threadownership.go:44-47).
RulesSpec == Rules!Spec

=============================================================================
