------------------------------ MODULE MCProgress ----------------------------
(* Instances of Progress for TLC.                                              *)
EXTENDS Progress

AllRoutes == Route

=============================================================================
