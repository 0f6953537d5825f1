----------------------------- MODULE MCOwnerMode ----------------------------
(* Instances of the owner modes for TLC.                                       *)
EXTENDS OwnerMode, TLC

CONSTANTS t1, t2

\* In t1 all that can be written, but for what the predicate does not tell apart:
\* the owner's presence for the owner's own messages, and another's mention in a
\* stranger's message that starts a thread.  t2 is there for its place in the file:
\* the owner calls, goes on and hands over.
Writings ==
    {a \in Message : a.owner => ~a.confirmed}
        \ ({a \in Message : ~a.owner /\ a.place = "top" /\ a.other}
           \cup {a \in Message : a.thread = t2
                   /\ ~(a.owner /\ (IF a.place = "top" THEN a.self /\ ~a.other ELSE ~a.self))})

Symmetry == Permutations(Msg)

=============================================================================
