--------------------------- MODULE MCQueueRecovery --------------------------
(* Instances of QueueRecovery for TLC: call l1 is the live delivery of message *)
(* k1 and r1, r2, r3 its replays, one for each boot.  The file of k2 is the    *)
(* one an earlier life may have left unreadable.                               *)
EXTENDS QueueRecovery

CONSTANTS l1, r1, r2, r3, k1, k2, s1

KeyOfCall == [c \in Call |-> k1]
OneSession == [k \in Key |-> s1]

=============================================================================
