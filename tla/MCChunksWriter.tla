---------------------------- MODULE MCChunksWriter ----------------------------
(* ChunksWriter on small instances.                                          *)
EXTENDS ChunksWriter, TLC

CONSTANTS r1, r2

\* Readers are interchangeable; used where only safety is checked.
ReaderSymmetry == Permutations(Readers)
===============================================================================
