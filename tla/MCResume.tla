------------------------------- MODULE MCResume -----------------------------
(* An instance of Resume for TLC: a thread with a reply, and ticks of a loop   *)
(* in another channel.                                                         *)
EXTENDS Resume

MCMsg == {"root", "reply", "tick"}
MCChannel == [m \in MCMsg |-> IF m = "tick" THEN "D" ELSE "C"]
MCThread == [m \in MCMsg |-> IF m = "reply" THEN "root" ELSE NoThread]
MCLoop == [m \in MCMsg |-> IF m = "tick" THEN "daily" ELSE NoLoop]
MCCorrupt == {"tick"}

=============================================================================
