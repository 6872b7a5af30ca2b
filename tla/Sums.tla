---------------------------------- MODULE Sums ----------------------------------
(* Sums over finite sets. *)
EXTENDS Integers, FiniteSetsExt

\* f[x] added up for the x in S.
Sum(f, S) == FoldSet(LAMBDA x, acc : f[x] + acc, 0, S)
===============================================================================
