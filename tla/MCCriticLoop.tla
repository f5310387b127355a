---------------------------- MODULE MCCriticLoop ----------------------------
(* Small instances of CriticLoop for TLC.                                  *)
EXTENDS CriticLoop

\* -1 is a budget that a phase YAML may hold by mistake.
SmallBudgets == {-1, 0, 1, 2, 3}
=============================================================================
