-------------------------- MODULE OwnerModeProofs ---------------------------
(* Theorems about OwnerMode, for any sets of messages and threads and any      *)
(* number of restarts, among them that it implements OwnerRules.               *)
EXTENDS OwnerMode, TLAPS

\* What a handler carries between its steps: the message it looked at, a thread
\* to change, and an entitled caller behind a claim.
HandlerInv ==
    \A m \in Msg :
        /\ pc[m] # "idle" => args[m] \in Inputs
        /\ pc[m] = "decided" => args[m].thread \in Thread /\ verdict[m] \in Changes
        /\ pc[m] # "idle" /\ verdict[m] = "PassClaim" => Entitled(args[m])

IInv == TypeOK /\ HandlerInv /\ OnlyInvited

\* A verdict that changes claims is about a channel's thread, a claim needs an
\* entitled caller, and a pass without a claim an owned thread, outside of a
\* direct message.
LEMMA VerdictMeaning ==
    ASSUME NEW a \in Inputs, NEW owns \in BOOLEAN, team \in BOOLEAN
    PROVE  LET v == CheckTeam(a, owns)
           IN  /\ v \in Verdicts
               /\ v \in Changes => a.thread \in Thread
               /\ v = "PassClaim" => Entitled(a)
               /\ v = "Pass" /\ a.place # "dm" => owns
<1>1. a \in Message
  BY InputsAssumption
<1>2. a.owner \in BOOLEAN /\ a.self \in BOOLEAN /\ a.other \in BOOLEAN /\ a.confirmed \in BOOLEAN
  BY <1>1 DEF Message
<1>3. a.place # "dm" => a.thread \in Thread
  BY <1>1 DEF Message
<1> QED
  BY <1>2, <1>3 DEF CheckTeam, Verdicts, Changes, Entitled

\* A call is not forgotten while handlers only move on.
LEMMA CallsStay ==
    ASSUME TypeOK, NEW t, CalledTo(t), team' = team,
           \A m \in AppliedMsgs : m \in AppliedMsgs' /\ args'[m] = args[m]
    PROVE  CalledTo(t)'
BY DEF CalledTo, Entitled

LEMMA InitInv == Init => IInv
<1> SUFFICES ASSUME Init PROVE IInv
  OBVIOUS
<1>1. AppliedMsgs = {} /\ Admitted = {}
  BY DEF Init, AppliedMsgs, Admitted
<1>2. TypeOK
  BY KillsAssumption DEF Init, TypeOK
<1>3. HandlerInv
  BY DEF Init, HandlerInv
<1> QED
  BY <1>1, <1>2, <1>3 DEF IInv, OnlyInvited, Init

\* The read: a pass in a channel is in a thread already called to.
LEMMA ResolveKeepsInv ==
    ASSUME IInv, NEW m \in Msg, NEW a \in Inputs, ResolveState(m, a)
    PROVE  IInv'
<1> DEFINE owns == a.place = "reply" /\ a.thread \in owned
           v == CheckTeam(a, owns)
<1>1. /\ v \in Verdicts
      /\ v \in Changes => a.thread \in Thread
      /\ v = "PassClaim" => Entitled(a)
      /\ v = "Pass" /\ a.place # "dm" => owns
  <2>1. owns \in BOOLEAN /\ team \in BOOLEAN
    BY DEF IInv, TypeOK
  <2> HIDE DEF owns
  <2> QED
    BY <2>1, VerdictMeaning
<1>2. /\ pc[m] = "idle"
      /\ args' = [args EXCEPT ![m] = a]
      /\ verdict' = [verdict EXCEPT ![m] = v]
      /\ pc' = [pc EXCEPT ![m] = IF v \in Changes THEN "decided"
                                   ELSE IF v \in Responds THEN "admitted" ELSE "done"]
      /\ rejected' = IF v = "Reject" THEN rejected \cup {m} ELSE rejected
      /\ UNCHANGED <<team, owned, disk, routed, kills>>
  BY DEF ResolveState
<1> HIDE DEF v
<1>3. TypeOK'
  BY <1>1, <1>2 DEF IInv, TypeOK
<1>4. HandlerInv'
  BY <1>1, <1>2 DEF IInv, TypeOK, HandlerInv, Entitled, Changes, Responds
<1>5. \A n \in AppliedMsgs : n \in AppliedMsgs' /\ args'[n] = args[n]
  BY <1>2 DEF IInv, TypeOK, AppliedMsgs
<1>6. \A t : CalledTo(t) => CalledTo(t)'
  BY <1>2, <1>5, CallsStay DEF IInv
<1>7. ASSUME NEW n \in Admitted', args'[n].place # "dm"
      PROVE  CalledTo(args[n].thread)'
  <2>1. CASE n # m
    <3>1. n \in Admitted /\ args'[n] = args[n]
      BY <1>2, <1>7, <2>1 DEF IInv, TypeOK, Admitted, AppliedMsgs
    <3> QED
      BY <1>6, <1>7, <3>1 DEF IInv, OnlyInvited
  <2>2. CASE n = m
    <3>1. args'[m] = a /\ verdict'[m] = v /\ v \in Responds /\ v \notin Changes
      BY <1>2, <1>7, <2>2 DEF IInv, TypeOK, Admitted, AppliedMsgs
    <3>2. v = "Pass"
      BY <3>1 DEF Responds, Changes
    <3>3. a.thread \in owned
      BY <1>1, <1>7, <2>2, <3>1, <3>2
    <3> QED
      BY <1>6, <2>2, <3>1, <3>3 DEF IInv, OnlyInvited
  <2> QED
    BY <2>1, <2>2
<1>8. OnlyInvited'
  BY <1>2, <1>6, <1>7 DEF IInv, OnlyInvited
<1> QED
  BY <1>3, <1>4, <1>8 DEF IInv

\* The write: a claim is itself the call its thread needs.
LEMMA PersistKeepsInv ==
    ASSUME IInv, NEW m \in Msg, PersistOwnership(m)
    PROVE  IInv'
<1> DEFINE claim == verdict[m] = "PassClaim"
           t0 == args[m].thread
<1>1. /\ pc[m] = "decided"
      /\ owned' = IF claim THEN owned \cup {t0} ELSE owned \ {t0}
      /\ disk' \in {owned', disk}
      /\ pc' = [pc EXCEPT ![m] = IF verdict[m] \in Responds THEN "admitted" ELSE "done"]
      /\ UNCHANGED <<team, args, verdict, routed, rejected, kills>>
  BY DEF PersistOwnership, Persist
<1>2. t0 \in Thread /\ verdict[m] \in Changes /\ (claim => Entitled(args[m]))
  BY <1>1 DEF IInv, HandlerInv
<1>3. TypeOK'
  BY <1>1, <1>2 DEF IInv, TypeOK
<1>4. HandlerInv'
  BY <1>1 DEF IInv, TypeOK, HandlerInv, Entitled, Changes, Responds
<1>5. m \in AppliedMsgs' /\ \A n \in AppliedMsgs : n \in AppliedMsgs' /\ args'[n] = args[n]
  BY <1>1 DEF IInv, TypeOK, AppliedMsgs
<1>6. \A t : CalledTo(t) => CalledTo(t)'
  BY <1>1, <1>5, CallsStay DEF IInv
<1>7. claim => CalledTo(t0)'
  BY <1>1, <1>2, <1>5 DEF CalledTo, Entitled
<1>8. \A t \in owned' \cup disk' : CalledTo(t)'
  BY <1>1, <1>6, <1>7 DEF IInv, OnlyInvited
<1>9. ASSUME NEW n \in Admitted', args'[n].place # "dm"
      PROVE  CalledTo(args[n].thread)'
  <2>1. CASE n # m
    <3>1. n \in Admitted
      BY <1>1, <1>9, <2>1 DEF IInv, TypeOK, Admitted, AppliedMsgs
    <3> QED
      BY <1>1, <1>6, <1>9, <3>1 DEF IInv, OnlyInvited
  <2>2. CASE n = m
    <3>1. claim
      BY <1>1, <1>2, <1>9, <2>2 DEF Admitted, Responds, Changes
    <3> QED
      BY <1>1, <1>7, <2>2, <3>1
  <2> QED
    BY <2>1, <2>2
<1>10. OnlyInvited'
  BY <1>8, <1>9 DEF OnlyInvited
<1> QED
  BY <1>3, <1>4, <1>10 DEF IInv

\* Steps that leave claims and admissions as they are, or fall back to the file.
LEMMA OtherStepsKeepInv ==
    ASSUME IInv, \/ \E m \in Msg : Route(m)
                 \/ Restart
                 \/ UNCHANGED vars
    PROVE  IInv'
<1>1. /\ UNCHANGED <<team, args, verdict, disk>>
      /\ owned' \in {owned, disk, {}}
  BY DEF Route, Restart, vars
<1>2. AppliedMsgs' = AppliedMsgs
  <2>1. CASE UNCHANGED vars
    BY <2>1 DEF vars, AppliedMsgs
  <2>2. CASE Restart
    BY <2>2 DEF Restart, AppliedMsgs
  <2>3. ASSUME NEW m \in Msg, Route(m)
        PROVE  AppliedMsgs' = AppliedMsgs
    BY <2>3 DEF IInv, TypeOK, Route, AppliedMsgs
  <2> QED
    BY <2>1, <2>2, <2>3
<1>3. TypeOK' /\ HandlerInv'
  <2>1. CASE UNCHANGED vars
    BY <2>1 DEF vars, IInv, TypeOK, HandlerInv, Entitled
  <2>2. CASE Restart
    <3>1. TypeOK'
      BY <2>2, KillsAssumption DEF Restart, IInv, TypeOK
    <3>2. HandlerInv'
      BY <2>2 DEF Restart, IInv, HandlerInv, Entitled
    <3> QED
      BY <3>1, <3>2
  <2>3. ASSUME NEW m \in Msg, Route(m)
        PROVE  TypeOK' /\ HandlerInv'
    <3>1. TypeOK'
      BY <2>3 DEF Route, IInv, TypeOK
    <3>2. HandlerInv'
      BY <2>3 DEF Route, IInv, TypeOK, HandlerInv, Entitled
    <3> QED
      BY <3>1, <3>2
  <2> QED
    BY <2>1, <2>2, <2>3
<1>4. \A t : CalledTo(t) => CalledTo(t)'
  BY <1>1, <1>2, CallsStay DEF IInv
<1>5. Admitted' = Admitted
  BY <1>1, <1>2 DEF Admitted
<1>6. OnlyInvited'
  BY <1>1, <1>4, <1>5 DEF IInv, OnlyInvited
<1> QED
  BY <1>3, <1>6 DEF IInv

LEMMA NextKeepsInv == IInv /\ [Next]_vars => IInv'
<1> SUFFICES ASSUME IInv, [Next]_vars PROVE IInv'
  OBVIOUS
<1> QED
  BY ResolveKeepsInv, PersistKeepsInv, OtherStepsKeepInv DEF Next, Finished

\* The variables keep their types; no claim is ever keyed by anything but a
\* thread of a channel (dispatcher.go:170-177).
THEOREM OwnerTypes == Spec => []TypeOK
<1>1. IInv => TypeOK
  BY DEF IInv
<1> QED
  BY <1>1, InitInv, NextKeepsInv, PTL DEF Spec

\* The agent takes part only in conversations it was called to, with any number
\* of handlers at once, failed writes, and restarts that find the file or not
\* (ownergate.go:77-91, 149-175).
THEOREM InvitedOnly == Spec => []OnlyInvited
<1>1. IInv => OnlyInvited
  BY DEF IInv
<1> QED
  BY <1>1, InitInv, NextKeepsInv, PTL DEF Spec

(* ------------------------------ refinement -------------------------------- *)

\* A verdict that is still to be written is what the rules say of the message,
\* whatever has become of the claims since it was reached.
VerdictInv ==
    \A m \in Msg : pc[m] = "decided" =>
        /\ verdict[m] = "PassClaim" => Rules!Calls(args[m])
        /\ verdict[m] = "SilentDropRelease" => Rules!HandsOver(args[m])

Heard == [m \in Msg |-> IF m \in AppliedMsgs THEN args[m] ELSE None]

\* The predicate in the words of the rules.
LEMMA VerdictByRules ==
    ASSUME NEW a \in Inputs, NEW owns \in BOOLEAN, team \in BOOLEAN,
           NEW v, v = CheckTeam(a, owns), owns => a.place = "reply"
    PROVE  /\ v = "PassClaim" <=> Rules!Calls(a)
           /\ v = "SilentDropRelease" => Rules!HandsOver(a)
           /\ v = "Reject" <=> Rules!TurnedAway(a)
           /\ owns = (a.place = "reply" /\ a.thread \in owned) =>
                /\ v = "Pass" <=> Rules!Answers(a) /\ ~Rules!Calls(a)
                /\ v \notin Changes => Rules!Claims(a) = owned
<1>1. a \in Message
  BY InputsAssumption
<1>2. /\ a.owner \in BOOLEAN /\ a.self \in BOOLEAN /\ a.other \in BOOLEAN
      /\ a.confirmed \in BOOLEAN /\ a.place \in {"top", "reply", "dm"}
      /\ a.place = "dm" => ~a.self /\ ~a.other
  BY <1>1 DEF Message
<1>3. /\ v = "PassClaim" <=> Rules!Calls(a)
      /\ v = "SilentDropRelease" => Rules!HandsOver(a)
      /\ v = "Reject" <=> Rules!TurnedAway(a)
  <2>1. v = "PassClaim" <=> Rules!Calls(a)
    BY <1>2 DEF CheckTeam, Rules!Calls, Rules!Welcome, Rules!InChannel
  <2>2. v = "SilentDropRelease" => Rules!HandsOver(a)
    BY <1>2 DEF CheckTeam, Rules!HandsOver
  <2>3. v = "Reject" <=> Rules!TurnedAway(a)
    BY <1>2 DEF CheckTeam, Rules!TurnedAway, Rules!Welcome, Rules!InChannel
  <2> QED
    BY <2>1, <2>2, <2>3
<1>4. ASSUME owns = (a.place = "reply" /\ a.thread \in owned)
      PROVE  v = "Pass" <=> Rules!Answers(a) /\ ~Rules!Calls(a)
  <2>1. a \in SideRemarks <=> ~a.owner /\ a.other /\ ~a.self
    BY DEF SideRemarks
  <2> QED
    BY <1>2, <1>4, <2>1 DEF CheckTeam, Rules!Answers, Rules!Calls, Rules!FollowsUp,
                            Rules!Welcome, Rules!InChannel
<1>5. ASSUME owns = (a.place = "reply" /\ a.thread \in owned), v \notin Changes
      PROVE  Rules!Claims(a) = owned
  <2>1. ~Rules!Calls(a)
    BY <1>3, <1>5 DEF Changes
  <2>2. Rules!HandsOver(a) => a.thread \notin owned
    BY <1>2, <1>5 DEF CheckTeam, Changes, Rules!HandsOver
  <2> QED
    BY <2>1, <2>2 DEF Rules!Claims
<1> QED
  BY <1>3, <1>4, <1>5

LEMMA VerdictInvKept == ASSUME IInv, VerdictInv, [Next]_vars PROVE VerdictInv'
<1>1. ASSUME NEW m \in Msg, NEW a \in Inputs, ResolveState(m, a) PROVE VerdictInv'
  <2> DEFINE owns == a.place = "reply" /\ a.thread \in owned
             v == CheckTeam(a, owns)
  <2>1. owns \in BOOLEAN /\ team \in BOOLEAN /\ (owns => a.place = "reply")
    BY DEF IInv, TypeOK
  <2>2. (v = "PassClaim" => Rules!Calls(a)) /\ (v = "SilentDropRelease" => Rules!HandsOver(a))
    <3> HIDE DEF owns
    <3> QED
      BY <2>1, VerdictByRules
  <2>3. /\ args' = [args EXCEPT ![m] = a] /\ verdict' = [verdict EXCEPT ![m] = v]
        /\ \A n \in Msg : n # m => pc'[n] = pc[n]
        /\ team' = team
    BY <1>1 DEF ResolveState, IInv, TypeOK
  <2> HIDE DEF v
  <2> QED
    BY <2>2, <2>3 DEF VerdictInv, IInv, TypeOK, Rules!Calls, Rules!HandsOver, Rules!Welcome,
                      Rules!InChannel
<1>2. ASSUME UNCHANGED <<team, args, verdict>>, \A m \in Msg : pc'[m] = "decided" => pc[m] = pc'[m]
      PROVE  VerdictInv'
  BY <1>2 DEF VerdictInv, Rules!Calls, Rules!HandsOver, Rules!Welcome, Rules!InChannel
<1>3. ASSUME NEW m \in Msg, PersistOwnership(m) \/ Route(m) PROVE VerdictInv'
  BY <1>2, <1>3 DEF PersistOwnership, Route, IInv, TypeOK
<1>4. CASE Restart
  BY <1>2, <1>4 DEF Restart
<1>5. CASE UNCHANGED vars
  BY <1>2, <1>5 DEF vars
<1> QED
  BY <1>1, <1>3, <1>4, <1>5 DEF Next, Finished

\* The read: a message that changes no claim is dealt with here; one that does
\* is not heard yet.
LEMMA ResolveRefines ==
    ASSUME IInv, VerdictInv, NEW m \in Msg, NEW a \in Inputs, ResolveState(m, a)
    PROVE  Rules!Handle(m, a) \/ UNCHANGED Rules!vars
<1> DEFINE owns == a.place = "reply" /\ a.thread \in owned
           v == CheckTeam(a, owns)
<1>1. owns \in BOOLEAN /\ team \in BOOLEAN /\ (owns => a.place = "reply")
  BY DEF IInv, TypeOK
<1>2. /\ v \in Verdicts
      /\ v = "PassClaim" <=> Rules!Calls(a)
      /\ v = "SilentDropRelease" => Rules!HandsOver(a)
      /\ v = "Reject" <=> Rules!TurnedAway(a)
      /\ v = "Pass" <=> Rules!Answers(a) /\ ~Rules!Calls(a)
      /\ v \notin Changes => Rules!Claims(a) = owned
  <2> DEFINE o == owns
  <2>1. o = owns
    OBVIOUS
  <2> HIDE DEF o
  <2> QED
    BY <1>1, <2>1, VerdictByRules, VerdictMeaning
<1>3. /\ pc[m] = "idle"
      /\ args' = [args EXCEPT ![m] = a]
      /\ verdict' = [verdict EXCEPT ![m] = v]
      /\ pc' = [pc EXCEPT ![m] = IF v \in Changes THEN "decided"
                                   ELSE IF v \in Responds THEN "admitted" ELSE "done"]
      /\ rejected' = IF v = "Reject" THEN rejected \cup {m} ELSE rejected
      /\ UNCHANGED <<team, owned, disk, routed, kills>>
  BY DEF ResolveState
<1> HIDE DEF v
<1>4. \A n \in Msg : n # m =>
        args'[n] = args[n] /\ verdict'[n] = verdict[n] /\ pc'[n] = pc[n]
  BY <1>3 DEF IInv, TypeOK
<1>5. m \notin AppliedMsgs /\ m \notin Admitted /\ Heard[m] = None
  BY <1>3 DEF AppliedMsgs, Admitted, Heard
<1>6. args'[m] = a /\ verdict'[m] = v
  BY <1>3 DEF IInv, TypeOK
<1>7. CASE v \in Changes
  <2>1. pc'[m] = "decided"
    BY <1>3, <1>7 DEF IInv, TypeOK
  <2>2. AppliedMsgs' = AppliedMsgs
    BY <1>4, <1>5, <2>1 DEF AppliedMsgs
  <2>3. Admitted' = Admitted /\ Heard' = Heard
    BY <1>4, <1>5, <2>2 DEF Admitted, Heard, AppliedMsgs
  <2>4. rejected' = rejected
    BY <1>3, <1>7 DEF Changes
  <2> QED
    BY <1>3, <2>3, <2>4 DEF Rules!vars, Heard
<1>8. CASE v \notin Changes
  <2>1. pc'[m] = IF v \in Responds THEN "admitted" ELSE "done"
    BY <1>3, <1>8 DEF IInv, TypeOK
  <2>2. AppliedMsgs' = AppliedMsgs \cup {m}
    BY <1>4, <2>1 DEF AppliedMsgs
  <2>3. Heard' = [Heard EXCEPT ![m] = a]
    BY <1>4, <1>6, <2>2 DEF Heard
  <2>4. Admitted' = IF v \in Responds THEN Admitted \cup {m} ELSE Admitted
    <3>1. \A n \in AppliedMsgs : verdict'[n] = verdict[n]
      BY <1>4, <1>5 DEF AppliedMsgs
    <3> QED
      BY <1>6, <2>2, <3>1 DEF Admitted
  <2>5. v \in Responds <=> Rules!Answers(a)
    BY <1>2, <1>8 DEF Responds, Changes
  <2> QED
    BY <1>2, <1>3, <1>5, <1>8, <2>3, <2>4, <2>5 DEF Rules!Handle, Heard
<1> QED
  BY <1>7, <1>8

\* The write is where a call or a hand-over takes effect.
LEMMA PersistRefines ==
    ASSUME IInv, VerdictInv, NEW m \in Msg, NEW a, a = args[m], PersistOwnership(m)
    PROVE  Rules!Handle(m, a)
<1> DEFINE v == verdict[m]
<1>1. /\ pc[m] = "decided"
      /\ owned' = IF v = "PassClaim" THEN owned \cup {a.thread} ELSE owned \ {a.thread}
      /\ disk' \in {owned', disk}
      /\ pc' = [pc EXCEPT ![m] = IF v \in Responds THEN "admitted" ELSE "done"]
      /\ UNCHANGED <<team, args, verdict, routed, rejected, kills>>
  BY DEF PersistOwnership, Persist
<1>2. a \in Inputs /\ v \in Changes
  BY <1>1 DEF IInv, HandlerInv
<1>3. (v = "PassClaim" => Rules!Calls(a)) /\ (v = "SilentDropRelease" => Rules!HandsOver(a))
  BY <1>1 DEF VerdictInv, Rules!Calls, Rules!HandsOver
<1>4. a.self \in BOOLEAN /\ (v = "SilentDropRelease" => ~Rules!Calls(a))
  <2>1. a \in Message
    BY <1>2, InputsAssumption
  <2> QED
    BY <1>3, <2>1 DEF Message, Rules!HandsOver, Rules!Calls
<1>5. Rules!Claims(a) = owned' /\ (Rules!Calls(a) \/ Rules!HandsOver(a))
  BY <1>1, <1>2, <1>3, <1>4 DEF Rules!Claims, Changes
<1>6. Rules!Answers(a) <=> v \in Responds
  <2>1. v = "SilentDropRelease" => ~Rules!Answers(a)
    BY <1>3, <1>4 DEF Rules!Answers, Rules!FollowsUp, Rules!HandsOver, SideRemarks
  <2> QED
    BY <1>2, <1>3, <2>1 DEF Rules!Answers, Responds, Changes
<1>7. ~Rules!TurnedAway(a)
  BY <1>3, <1>5 DEF Rules!TurnedAway, Rules!Calls, Rules!HandsOver, Rules!Welcome
<1>8. pc'[m] \in {"admitted", "done"} /\ \A n \in Msg : n # m => pc'[n] = pc[n]
  BY <1>1 DEF IInv, TypeOK
<1>9. m \notin AppliedMsgs /\ AppliedMsgs' = AppliedMsgs \cup {m} /\ Heard[m] = None
  BY <1>1, <1>8 DEF AppliedMsgs, Heard
<1>10. Heard' = [Heard EXCEPT ![m] = a]
  BY <1>1, <1>9 DEF Heard
<1>11. Admitted' = IF v \in Responds THEN Admitted \cup {m} ELSE Admitted
  BY <1>1, <1>9 DEF Admitted
<1> QED
  BY <1>1, <1>5, <1>6, <1>7, <1>9, <1>10, <1>11 DEF Rules!Handle, Heard

\* A hand-over to the spawn wiring changes nothing the rules speak of, and a
\* restart nothing but the claims.
LEMMA OthersRefine ==
    ASSUME IInv, (\E m \in Msg : Route(m)) \/ Restart \/ UNCHANGED vars
    PROVE  Rules!Restart \/ UNCHANGED Rules!vars
<1>1. UNCHANGED <<team, args, verdict, disk, rejected>>
  BY DEF Route, Restart, vars
<1>2. AppliedMsgs' = AppliedMsgs
  <2>1. CASE UNCHANGED vars
    BY <2>1 DEF vars, AppliedMsgs
  <2>2. CASE Restart
    BY <2>2 DEF Restart, AppliedMsgs
  <2>3. ASSUME NEW m \in Msg, Route(m)
        PROVE  AppliedMsgs' = AppliedMsgs
    BY <2>3 DEF IInv, TypeOK, Route, AppliedMsgs
  <2> QED
    BY <2>1, <2>2, <2>3
<1>3. Admitted' = Admitted /\ Heard' = Heard
  BY <1>1, <1>2 DEF Admitted, Heard
<1>4. CASE Restart
  BY <1>1, <1>3, <1>4 DEF Restart, Rules!Restart, Heard
<1>5. CASE (\E m \in Msg : Route(m)) \/ UNCHANGED vars
  <2>1. owned' = owned
    BY <1>5 DEF Route, vars
  <2> QED
    BY <1>1, <1>3, <2>1 DEF Rules!vars, Heard
<1> QED
  BY <1>4, <1>5

LEMMA StepRefines == IInv /\ VerdictInv /\ [Next]_vars => [Rules!Next]_(Rules!vars)
<1> SUFFICES ASSUME IInv, VerdictInv, [Next]_vars PROVE [Rules!Next]_(Rules!vars)
  OBVIOUS
<1>1. ASSUME NEW m \in Msg, NEW a \in Inputs, ResolveState(m, a)
      PROVE  [Rules!Next]_(Rules!vars)
  BY <1>1, ResolveRefines DEF Rules!Next
<1>2. ASSUME NEW m \in Msg, PersistOwnership(m)
      PROVE  [Rules!Next]_(Rules!vars)
  <2>1. PICK a \in Inputs : a = args[m]
    BY <1>2 DEF PersistOwnership, IInv, HandlerInv
  <2>2. Rules!Handle(m, a)
    BY <1>2, <2>1, PersistRefines
  <2> QED
    BY <2>2 DEF Rules!Next
<1>3. CASE (\E m \in Msg : Route(m)) \/ Restart \/ UNCHANGED vars
  BY <1>3, OthersRefine DEF Rules!Next
<1> QED
  BY <1>1, <1>2, <1>3 DEF Next, Finished

\* Concurrent handlers, failed writes and restarts come to one message at a time
\* under the rules, with one exception: a member's reply that mentions only somebody
\* else is let through in a thread of the agent's, which the comments exclude
\* (ownergate.go:130-148, 177-181; dispatcher.go:134-151; threadownership.go:44-47).
THEOREM AdmissionIsSerial == Spec => RulesSpec
<1>1. Init => Rules!Init
  <2> SUFFICES ASSUME Init PROVE Rules!Init
    OBVIOUS
  <2>1. AppliedMsgs = {} /\ Admitted = {}
    BY DEF Init, AppliedMsgs, Admitted
  <2> QED
    BY <2>1 DEF Init, Rules!Init
<1>2. Init => VerdictInv
  BY DEF Init, VerdictInv
<1>3. IInv /\ VerdictInv /\ [Next]_vars => VerdictInv'
  BY VerdictInvKept
<1> QED
  BY <1>1, <1>2, <1>3, InitInv, NextKeepsInv, StepRefines, PTL DEF Spec, RulesSpec, Rules!Spec

=============================================================================
