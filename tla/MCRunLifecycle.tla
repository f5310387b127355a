--------------------------- MODULE MCRunLifecycle ---------------------------
(* Small instances of RunLifecycle for TLC.                                *)
EXTENDS RunLifecycle, TLC

\* Run ids, task objects and connections are only ever compared.
Symmetry == Permutations(Runs) \cup Permutations(Tasks) \cup Permutations(Conns)
=============================================================================
