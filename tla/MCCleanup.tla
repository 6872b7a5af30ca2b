------------------------------ MODULE MCCleanup ------------------------------
(* Cleanup for two episodes: one with a head that may have been saved shorter *)
(* first, one with a head and a tail.  Their scores fall below MinScore when  *)
(* they go unread, which in the code takes weeks.                             *)
EXTENDS Cleanup

CONSTANTS e1, e2

MCEntries == {e1, e2}

MCKind == [e \in MCEntries |-> [episode |-> TRUE, series |-> TRUE, progress |-> FALSE]]

MCBytes == [e \in MCEntries |-> IF e = e1 THEN [short |-> 1, head |-> 4]
                                         ELSE [head |-> 2, tail |-> 2]]

MCWithin == [e \in MCEntries |->
               [p \in DOMAIN MCBytes[e] |-> IF e = e1 /\ p = "head" THEN {"short"} ELSE {}]]

MCInterval == [check |-> 1, recalculate |-> 2, weekly |-> 2]
===============================================================================
