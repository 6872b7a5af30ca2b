----------------------------- MODULE MCFileStorage -----------------------------
(* Small instances of FileStorage for TLC. *)
EXTENDS FileStorage

\* Two heads, as the prefetches of two episodes make them, and a tail.
MCRanges == {<<0, 0>>, <<0, 1>>, <<3, 3>>}

\* Two tails, one inside the other.
MCNested == {<<2, 3>>, <<3, 3>>}
===============================================================================
