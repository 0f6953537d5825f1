-------------------------- MODULE MCThreadRouting ---------------------------
(* Instances of thread routing for TLC.                                        *)
EXTENDS ThreadRouting

\* One Redis that works.
Redis == [shared |-> TRUE, lock |-> None, faults |-> {}, length |-> 2]
OneRedis == {Redis}

Files == [Redis EXCEPT !.shared = FALSE]

\* An open channel whose stores work, with three messages; and with two, locked
\* channels and stores at their worst: a lock whose reads and writes may fail, one
\* Redis that fails and forgets, two files that fail.
Deployments ==
    {[s EXCEPT !.length = 3] : s \in {Redis, Files}}
        \cup {[s EXCEPT !.lock = a] : s \in {Redis, Files}, a \in Agent}
        \cup {[Redis EXCEPT !.lock = Joanne, !.faults = {"read", "write"}],
              [Redis EXCEPT !.faults = {"read", "write", "expiry"}],
              [Files EXCEPT !.faults = {"read", "write"}]}

=============================================================================
