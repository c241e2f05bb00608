-------------------------- MODULE MCProbeThrottle --------------------------
(* An instance of ProbeThrottle for TLC. *)
EXTENDS ProbeThrottle, TLC

ThreadSymmetry == Permutations(Threads)

=============================================================================
