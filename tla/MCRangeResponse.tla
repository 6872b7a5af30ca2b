---------------------------- MODULE MCRangeResponse ----------------------------
(* RangeResponse for a file that is longer than its head, one whose head and *)
(* tail overlap, and one that is shorter than its head.                      *)
EXTENDS RangeResponse

MCFiles == {[size |-> 7, head |-> 3], [size |-> 5, head |-> 3], [size |-> 2, head |-> 3]}

\* The previous episode had a shorter head, or a longer one.
MCOtherHeads == {2, 4}
===============================================================================
