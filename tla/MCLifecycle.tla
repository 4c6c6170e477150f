----------------------------- MODULE MCLifecycle -----------------------------
(* Instances of Lifecycle for TLC. *)
EXTENDS Lifecycle, TLC

TrackerSymmetry == Permutations(Trackers)
=============================================================================
