------------------------------- MODULE MCBench -------------------------------
(* Instances of Bench for TLC; the .cfg files choose the commands in play. *)
EXTENDS BenchClaims, TLC

\* Sound where Monitored is empty or all of Names, and without liveness.
Interchangeable ==
    Permutations(Sessions) \cup Permutations(Resources) \cup Permutations(Names)
=============================================================================
