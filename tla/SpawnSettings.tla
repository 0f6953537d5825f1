----------------------------- MODULE SpawnSettings --------------------------
(* The model and effort of a spawn (spawnsettings): pins of the loop entry, of *)
(* the channel's settings.json, of the environment, and the constants.         *)
EXTENDS Integers, Sequences, FiniteSetsExt

CONSTANTS
    BaseModels, OneMModels, Efforts,    \* the allow lists
    DefaultModel, DefaultEffort,
    Absent,     \* a pin that is not there
    Mistyped    \* a value in settings.json that is not a string

ASSUME SettingsAssumption ==
    /\ DefaultModel \in BaseModels /\ DefaultEffort \in Efforts
    /\ Absent # Mistyped
    /\ {Absent, Mistyped} \cap (BaseModels \cup OneMModels \cup Efforts) = {}

\* What may be pinned for one setting, and all that Resolve reads.
Pinned == [loop : STRING, channel : STRING, loopEnv : STRING, env : STRING]
Config == [isTick : BOOLEAN, allow1M : STRING, model : Pinned, effort : Pinned]

\* AllowedModels.
AllowedModels(allow1M) == BaseModels \cup (IF allow1M THEN OneMModels ELSE {})

\* allow1M: what ParseBool does not read is a refusal.
Allow1M(v) == v = "true"

\* A pin that is not allowed is logged and passed over.
Valid(pins, allowed) == [r \in DOMAIN pins |-> IF pins[r] \in allowed THEN pins[r] ELSE Absent]

Rungs == <<"loop", "channel", "loopEnv", "env">>

\* Mutant: the channel's pin comes before that of the loop's environment only for
\* a tick, and after the environment otherwise.
Ladder_EnvFirst(pins, default) ==
    LET order == <<"loop", "env", "channel", "loopEnv">>
        set == {i \in DOMAIN order : pins[order[i]] # Absent}
    IN  IF set = {} THEN default ELSE pins[order[Min(set)]]

\* The precedence ladder.
Ladder(pins, default) ==
    LET set == {i \in DOMAIN Rungs : pins[Rungs[i]] # Absent}
    IN  IF set = {} THEN default ELSE pins[Rungs[Min(set)]]

\* settings.json decodes as a whole or not at all.
Decodes(cfg) == Mistyped \notin {cfg.model.channel, cfg.effort.channel}

\* The pins that count for this spawn.
Seen(cfg, pins) ==
    [pins EXCEPT !.loopEnv = IF cfg.isTick THEN @ ELSE Absent,
                 !.channel = IF Decodes(cfg) THEN @ ELSE Absent]

\* Resolve: the two keys, and whether the channel is warned.
Resolve(cfg) ==
    LET models == AllowedModels(Allow1M(cfg.allow1M))
        bad(pin, allowed) == pin # Absent /\ pin \notin allowed
    IN  [model |-> Ladder(Valid(Seen(cfg, cfg.model), models), DefaultModel),
         effort |-> Ladder(Valid(Seen(cfg, cfg.effort), Efforts), DefaultEffort),
         warned |-> \/ bad(cfg.model.channel, models)
                    \/ bad(cfg.effort.channel, Efforts)]

NoPins == [loop |-> Absent, channel |-> Absent, loopEnv |-> Absent, env |-> Absent]

(* ----------------------------- properties -------------------------------- *)

\* Whatever is pinned where, the CLI gets a model that the pool can run, a 1M one
\* only where the operator opted in, and an effort it knows
\* (spawnsettings.go:37-39, 56-59, 80-83).
Runnable(cfg) ==
    /\ Resolve(cfg).model \in AllowedModels(Allow1M(cfg.allow1M))
    /\ Resolve(cfg).effort \in Efforts

\* An interactive spawn is not steered by the environment of the loops, and an
\* operator's environment never overrides what the channel validly pinned
\* (spawnsettings.go:147-157, 224-228).
ChannelRules(cfg) ==
    /\ ~cfg.isTick => Resolve(cfg) = Resolve([cfg EXCEPT !.model.loopEnv = Absent,
                                                         !.effort.loopEnv = Absent])
    /\ /\ Decodes(cfg) /\ cfg.model.loop = Absent
       /\ cfg.model.channel \in AllowedModels(Allow1M(cfg.allow1M))
       => Resolve(cfg).model = cfg.model.channel

\* The model does not depend on how the effort is pinned, as long as settings.json
\* decodes (spawnsettings.go:147-149).
KeysApart(cfg) ==
    Decodes(cfg) => Resolve(cfg).model = Resolve([cfg EXCEPT !.effort = NoPins]).model

=============================================================================
