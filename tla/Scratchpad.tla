----------------------------- MODULE Scratchpad -----------------------------
(* The scratchpad that agents of a channel share over Redis (scratchpad), and  *)
(* the command by which a spawn uses it (bot-handoff).  Redis is external: a   *)
(* call may fail with or without its effect, and a blob is gone after its TTL. *)
EXTENDS Integers, FiniteSets

CONSTANTS
    PadChannel,     \* SLACK_CHANNEL_IDs
    NoChannel,      \* the variable is empty or blank
    RawKey,         \* keys as the commands name them
    Trim,           \* [RawKey -> a key], with blanks trimmed
    BlankKey,       \* what is left of a blank key
    Blob, TooLarge, \* blobs; those over MaxBlobBytes
    Missing,        \* no blob
    MaxCommands     \* bound: commands in a turn

ASSUME PadAssumption ==
    /\ TooLarge \subseteq Blob /\ Missing \notin Blob /\ MaxCommands \in Nat
    /\ NoChannel \notin PadChannel

VARIABLES
    pad,        \* what Redis holds: a function of the names in it
    may,        \* per channel and key: what a reader may find there
    last,       \* the last command, its exit status and its output
    commands    \* commands so far

padVars == <<pad, may, last, commands>>

Key == {Trim[raw] : raw \in RawKey} \ {BlankKey}

PadTypeOK ==
    /\ \A n \in DOMAIN pad : pad[n] \in Blob \ TooLarge
    /\ last.exit \in 0..3 /\ commands \in 0..MaxCommands

\* Mutant: the channel is not part of the name.
RedisKey_NoChannel(channel, raw) == <<Trim[raw]>>

\* redisKey.
RedisKey(channel, raw) == <<channel, Trim[raw]>>

With(name, blob) == [n \in DOMAIN pad \cup {name} |-> IF n = name THEN blob ELSE pad[n]]
Without(name) == [n \in DOMAIN pad \ {name} |-> pad[n]]
Held(name) == IF name \in DOMAIN pad THEN pad[name] ELSE Missing

Ran(cmd, channel, raw, exit, out) ==
    /\ commands < MaxCommands
    /\ commands' = commands + 1
    /\ last' = [cmd |-> cmd, channel |-> channel, key |-> Trim[raw], exit |-> exit, out |-> out]

\* run and New: a command that is not known, one without a channel, and those whose
\* key or blob is refused, before Redis is asked.
Refused(cmd, channel, raw, blob) ==
    LET status == IF channel = NoChannel THEN 1
                  ELSE IF cmd = "unknown" THEN 2
                  ELSE IF Trim[raw] = BlankKey \/ (cmd = "put" /\ blob \in TooLarge) THEN 1
                  ELSE 0
    IN  /\ status # 0
        /\ Ran(cmd, channel, raw, status, Missing)
        /\ UNCHANGED <<pad, may>>

\* The checks of New and of the operation are passed.
Accepted(cmd, channel, raw, blob) ==
    /\ channel # NoChannel /\ Trim[raw] # BlankKey
    /\ cmd = "put" => blob \notin TooLarge

Expect(channel, raw, values) == may' = [may EXCEPT ![<<channel, Trim[raw]>>] = values]

\* put: Set with its TTL.
Put(channel, raw, blob) ==
    /\ Accepted("put", channel, raw, blob)
    /\ \/ /\ pad' = With(RedisKey(channel, raw), blob)
          /\ Ran("put", channel, raw, 0, Missing)
          /\ Expect(channel, raw, {blob})
       \/ /\ pad' \in {pad, With(RedisKey(channel, raw), blob)}
          /\ Ran("put", channel, raw, 1, Missing)
          /\ Expect(channel, raw, may[<<channel, Trim[raw]>>] \cup {blob})

\* get: a key that is not there has an exit status of its own.
Get(channel, raw) ==
    /\ Accepted("get", channel, raw, Missing)
    /\ LET found == Held(RedisKey(channel, raw))
       IN  \/ Ran("get", channel, raw, IF found = Missing THEN 3 ELSE 0, found)
           \/ Ran("get", channel, raw, 1, Missing)
    /\ UNCHANGED <<pad, may>>

\* del.
Del(channel, raw) ==
    /\ Accepted("del", channel, raw, Missing)
    /\ \/ /\ pad' = Without(RedisKey(channel, raw))
          /\ Ran("del", channel, raw, 0, Missing)
          /\ Expect(channel, raw, {Missing})
       \/ /\ pad' \in {pad, Without(RedisKey(channel, raw))}
          /\ Ran("del", channel, raw, 1, Missing)
          /\ Expect(channel, raw, may[<<channel, Trim[raw]>>] \cup {Missing})

\* The TTL of a blob is over.
Expire ==
    /\ \E n \in DOMAIN pad : pad' = Without(n)
    /\ may' = [k \in DOMAIN may |-> may[k] \cup
                 IF k \in DOMAIN pad \ DOMAIN pad' THEN {Missing} ELSE {}]
    /\ UNCHANGED <<last, commands>>

AllMissing == [k \in PadChannel \X Key |-> {Missing}]
NoCommand == [cmd |-> "none", channel |-> NoChannel, key |-> BlankKey, exit |-> 0,
              out |-> Missing]

PadInit == pad = << >> /\ may = AllMissing /\ last = NoCommand /\ commands = 0
PadEnd == pad' = << >> /\ may' = AllMissing /\ last' = NoCommand /\ commands' = 0

PadStep ==
    \/ \E channel \in PadChannel \cup {NoChannel}, raw \in RawKey :
         \/ \E blob \in Blob : Put(channel, raw, blob)
         \/ Get(channel, raw)
         \/ Del(channel, raw)
         \/ \E cmd \in {"put", "get", "del", "unknown"}, blob \in Blob :
              Refused(cmd, channel, raw, blob)
    \/ Expire

(* ----------------------------- properties -------------------------------- *)

\* What get prints, or its telling by a status of its own that there is nothing, is
\* what the last put or del of that key in that channel left, whatever agents of
\* another channel do; a command that reported an error may or may not have had its
\* effect (scratchpad.go:75-77, 122-124; main.go:34-45, 94-101).
ReadsOwnLatest ==
    last.cmd = "get" /\ last.exit # 1 =>
        /\ last.out \in may[<<last.channel, last.key>>]
        /\ last.exit = 3 <=> last.out = Missing

=============================================================================
