---------------------------- MODULE MCTaskManager ----------------------------
(* TaskManager on a small instance: two types, two files, two sub keys.      *)
EXTENDS TaskManager, TLC

CONSTANTS w, o, f1, f2, head, tail, x, none

\* Types, files and sub keys are only compared.
KeySymmetry == Permutations(Types) \cup Permutations(Files) \cup Permutations(Subs)
==============================================================================
