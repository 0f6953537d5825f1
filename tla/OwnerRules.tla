----------------------------- MODULE OwnerRules -----------------------------
(* What a personal or team agent promises about admission, with no lock, no    *)
(* handler and no file in it: messages are dealt with one at a time, each by   *)
(* the claims as they are at that moment.                                      *)
EXTENDS Naturals

CONSTANTS
    Msg,
    Message,    \* what a message may be
    NotHeard,   \* nothing yet
    Asides      \* replies let through although they turn to somebody else; none, if
                \* the rules are kept to the letter (ownergate.go:140-141, 180-181)

VARIABLES
    team,       \* team mode
    heard,      \* the messages dealt with
    claimed,    \* the threads the agent takes part in
    saved,      \* the claims a restart finds
    answered,   \* messages handed to the spawn wiring
    refused     \* messages told to go away

vars == <<team, heard, claimed, saved, answered, refused>>

Init ==
    /\ team \in BOOLEAN
    /\ heard = [m \in Msg |-> NotHeard]
    /\ claimed = {} /\ saved = {}
    /\ answered = {} /\ refused = {}

InChannel(a) == a.place \in {"top", "reply"}

\* The owner; in team mode also who writes where the owner is known to be.
Welcome(a) == a.owner \/ (team /\ InChannel(a) /\ a.confirmed)

\* Addressing the agent in a channel starts, or goes on with, a conversation.
Calls(a) == InChannel(a) /\ a.self /\ Welcome(a)

\* The owner turns to somebody else in a conversation.
HandsOver(a) == a.place = "reply" /\ a.owner /\ a.other /\ ~a.self

\* A message of a conversation needs no mention; one that mentions only somebody
\* else is not for the agent.
FollowsUp(a) ==
    /\ a.place = "reply" /\ a.thread \in claimed /\ Welcome(a)
    /\ a.self \/ ~a.other \/ a \in Asides

Answers(a) == Calls(a) \/ FollowsUp(a) \/ (a.owner /\ a.place = "dm")

\* A stranger who addresses the agent itself.
TurnedAway(a) == ~Welcome(a) /\ (a.place = "dm" \/ a.self)

Claims(a) ==
    IF Calls(a) THEN claimed \cup {a.thread}
    ELSE IF HandsOver(a) THEN claimed \ {a.thread}
    ELSE claimed

\* A change of the claims is saved, with all others still unsaved, or it is not.
Handle(m, a) ==
    /\ heard[m] = NotHeard
    /\ heard' = [heard EXCEPT ![m] = a]
    /\ claimed' = Claims(a)
    /\ saved' \in {saved} \cup (IF Calls(a) \/ HandsOver(a) THEN {claimed'} ELSE {})
    /\ answered' = IF Answers(a) THEN answered \cup {m} ELSE answered
    /\ refused' = IF TurnedAway(a) THEN refused \cup {m} ELSE refused
    /\ UNCHANGED team

\* A restart falls back to what was saved, or to nothing if it cannot be read.
Restart ==
    /\ claimed' \in {saved, {}}
    /\ UNCHANGED <<team, heard, saved, answered, refused>>

Next == Restart \/ \E m \in Msg, a \in Message : Handle(m, a)

Spec == Init /\ [][Next]_vars

=============================================================================
