-------------------------- MODULE MCServiceProcess --------------------------
(* Two runs, and calls enough for both to be started and decided.          *)
EXTENDS ServiceProcess, TLC

Alike == Permutations(Calls) \cup Permutations(Runs)
=============================================================================
