--------------------------- MODULE MCControlPlane ---------------------------
(* Instances of ControlPlane for TLC. *)
EXTENDS ControlPlane, TLC

\* Tasks and threads are interchangeable; used by runs without liveness.
Symmetry == Permutations(Task) \cup Permutations(Caller)
=============================================================================
