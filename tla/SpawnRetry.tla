------------------------------ MODULE SpawnRetry ----------------------------
(* When a failed attempt is run again on another OAuth slot (spawnretry).      *)
EXTENDS Integers

\* How an attempt ends: "failed" is a non-zero exit that is none of the others.
Exits == {"clean", "failed", "aborted", "lock race"}

DefaultMaxAttempts == 2

AllowedAttempts(maxAttempts) ==
    IF maxAttempts <= 0 THEN DefaultMaxAttempts ELSE maxAttempts

\* What the caller tells of the attempt; fast: within the window.
Decision(attempt, maxAttempts, exit, posted, untried, fast) ==
    [attempt |-> attempt, maxAttempts |-> maxAttempts, exit |-> exit,
     posted |-> posted, untried |-> untried, fast |-> fast]

\* Mutant: the attempts are counted from one.
ShouldRetry_OffByOne(d) ==
    /\ d.attempt < AllowedAttempts(d.maxAttempts) - 2
    /\ d.exit = "failed" /\ ~d.posted /\ d.untried /\ d.fast

\* Mutant: what was posted is not looked at.
ShouldRetry_PostedToo(d) ==
    /\ d.attempt < AllowedAttempts(d.maxAttempts) - 1
    /\ d.exit = "failed" /\ d.untried /\ d.fast

\* ShouldRetry.
ShouldRetry(d) ==
    /\ d.attempt < AllowedAttempts(d.maxAttempts) - 1
    /\ d.exit = "failed"
    /\ ~d.posted
    /\ d.untried
    /\ d.fast

=============================================================================
