--------------------------- MODULE MCRunLifecycle ---------------------------
(* Instances of RunLifecycle for TLC. *)
EXTENDS RunLifecycle, TLC

\* Two `approve` calls are interchangeable, and so are two web POSTs.
CallSymmetry == Permutations(CliApprovers) \cup Permutations(WebApprovers)

=============================================================================
