--------------------------------- MODULE Turn -------------------------------
(* One turn of an agent from a message that was let through to its reply: the  *)
(* settings of the spawn are resolved, its preamble is fetched, it runs on the *)
(* slots of the pool and uses the scratchpad, and its final text is rendered.  *)
(* The order is the agent's, as the packages are written to be called; what    *)
(* the spawn does to the scratchpad is listed after its attempts, with which   *)
(* it shares no state.  A phase that is over puts its state back, as locals go *)
(* out of scope.                                                               *)
EXTENDS OAuthPool, SpawnSettings, ChannelContext, Scratchpad, ReplyText

CONSTANTS
    Configs,    \* the settings considered
    Texts       \* the final texts considered

ASSUME TurnAssumption ==
    /\ Configs # {} /\ Configs \subseteq Config
    /\ Texts \subseteq Seq(LineType) /\ << >> \in Texts

VARIABLES
    phase,      \* one of "settings", "context", "spawn", "pad" and "reply", or a
                \* moment between two of them
    config,     \* the settings resolved
    answer      \* the final text

turnVars == <<config, answer>>
vars == <<phase, poolVars, contextVars, padVars, turnVars>>

AnyConfig == CHOOSE c \in Configs : TRUE

TypeOK ==
    /\ phase \in {"arrived", "settings", "resolved", "context", "fetched", "spawn",
                   "pad", "answered", "reply", "done"}
    /\ config \in Configs /\ answer \in Texts
    /\ PoolTypeOK /\ ContextTypeOK /\ PadTypeOK

Init ==
    /\ phase = "arrived" /\ config = AnyConfig /\ answer = << >>
    /\ PoolInit /\ ContextInit /\ PadInit

Resolved ==
    \/ /\ phase = "arrived" /\ phase' = "settings"
       /\ config' \in Configs
       /\ UNCHANGED <<poolVars, contextVars, padVars, answer>>
    \/ /\ phase = "settings" /\ phase' = "resolved"
       /\ config' = AnyConfig
       /\ UNCHANGED <<poolVars, contextVars, padVars, answer>>

Fetched ==
    \/ /\ phase = "resolved" /\ phase' = "context"
       /\ BeginContext
       /\ UNCHANGED <<poolVars, padVars, turnVars>>
    \/ /\ phase = "context" /\ fetched = 2 /\ phase' = "fetched"
       /\ EndContext
       /\ UNCHANGED <<poolVars, padVars, turnVars>>

\* A clean exit leaves an answer, any other a notice of the agent's own.
Spawned ==
    \/ /\ phase = "fetched" /\ phase' = "spawn"
       /\ BeginSpawn
       /\ UNCHANGED <<contextVars, padVars, turnVars>>
    \/ /\ phase = "spawn" /\ spawn = "over"
       /\ phase' = IF exit.how = "clean" THEN "pad" ELSE "done"
       /\ EndSpawn
       /\ UNCHANGED <<contextVars, padVars, turnVars>>

\* The commands of the spawn.
Handed ==
    /\ phase = "pad" /\ phase' = "answered"
    /\ PadEnd
    /\ UNCHANGED <<poolVars, contextVars, turnVars>>

Replied ==
    \/ /\ phase = "answered" /\ phase' = "reply"
       /\ answer' \in Texts
       /\ UNCHANGED <<poolVars, contextVars, padVars, config>>
    \/ /\ phase = "reply" /\ phase' = "done"
       /\ answer' = << >>
       /\ UNCHANGED <<poolVars, contextVars, padVars, config>>

Finished == phase = "done" /\ UNCHANGED vars

Next ==
    \/ Resolved
    \/ Fetched
    \/ phase = "context" /\ ContextStep /\ UNCHANGED <<phase, poolVars, padVars, turnVars>>
    \/ Spawned
    \/ phase = "spawn" /\ PoolStep /\ UNCHANGED <<phase, contextVars, padVars, turnVars>>
    \/ phase = "pad" /\ PadStep /\ UNCHANGED <<phase, poolVars, contextVars, turnVars>>
    \/ Handed
    \/ Replied
    \/ Finished

Spec == Init /\ [][Next]_vars

(* ----------------------------- properties -------------------------------- *)

\* The state is well typed, and whatever is pinned where, the settings at hand are
\* Runnable, follow ChannelRules and keep the KeysApart (spawnsettings.go:37-39,
\* 56-59, 147-157, 224-228).
SettingsAsPinned ==
    TypeOK /\ Runnable(config) /\ ChannelRules(config) /\ KeysApart(config)

\* The answer at hand reaches Slack whole: ContentIsPosted, LinksReachText and
\* CodeUntouched (silentnarration.go:107-117; blockkit.go:98-111; mrkdwn.go:13-19).
AnswerIsWhole ==
    ContentIsPosted(answer) /\ LinksReachText(answer) /\ CodeUntouched(answer)

\* The answer at hand keeps its URLs: LinksAsWritten (mrkdwn.go:13-16).
URLsStay == LinksAsWritten(answer)

\* The code of the answer at hand is shown as it is: CodeAsWritten (mrkdwn.go:18-19,
\* 74-77).
CodeIsShown == CodeAsWritten(answer)

\* What Slack or its readers would not take is not sent: NoJSONWall and
\* WithinCeiling of the answer at hand (blockkit.go:17-20, 84-95).
SlackTakesIt == NoJSONWall(answer) /\ WithinCeiling(answer)

=============================================================================
