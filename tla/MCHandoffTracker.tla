-------------------------- MODULE MCHandoffTracker --------------------------
(* Instances of the handoff tracker for TLC, with the caps scaled down so that *)
(* each of them is reached: the hop cap before the spawn ceiling, the daily    *)
(* ceiling across the threads.                                                 *)
EXTENDS HandoffTracker, TLC

Symmetry ==
    Permutations(Call) \cup Permutations(Tracker) \cup Permutations(Thread)

=============================================================================
