----------------------------- MODULE RangeStream -----------------------------
(***************************************************************************)
(* What a cached range promises to the consumers that read from it, in     *)
(* file positions and without the buffer, the retries or the condition     *)
(* variable that ChunksWriter keeps its promise with.                      *)
(*                                                                         *)
(* One range First..Last of a file is fetched once.  A consumer that asks  *)
(* from position start on receives the bytes of the range from start on,   *)
(* in order, as they arrive; its stream ends by itself only after all it   *)
(* asked for (as far as the range goes), unless the fetch failed.          *)
(***************************************************************************)
EXTENDS Integers

CONSTANTS Readers,      \* the consumers
          First, Last   \* the range that is cached

VARIABLES source,       \* "pending", or how the fetch ended: "whole", "failed"
          stream        \* stream[r]: where consumer r stands

svars == <<source, stream>>

Lesser(a, b) == IF a <= b THEN a ELSE b

\* No consumer has asked yet.
Unopened == [pc |-> "unopened", start |-> First, pos |-> First, want |-> First]

StreamInit == /\ source = "pending"
              /\ stream = [r \in Readers |-> Unopened]

\* The fetch ends, one way, once.
Settle == /\ source = "pending"
          /\ source' \in {"whole", "failed"}
          /\ UNCHANGED stream

\* All that r asked for and the range holds has been handed out.
Served(s) == s.pos >= Lesser(s.want, Last + 1)

\* Consumer r asks for the bytes from position start up to, excluding, want;
\* a start that the range does not reach back to is refused.  Last + 1 is any
\* start past the range, Last + 2 any end past it (or none given).
Open(r) == /\ stream[r].pc = "unopened"
           /\ \E start \in 0..(Last + 1), want \in 1..(Last + 2) :
                 stream' = [stream EXCEPT ![r] =
                    [pc    |-> IF start < First THEN "refused" ELSE "open",
                     start |-> start,
                     pos   |-> start,
                     want  |-> want]]
           /\ UNCHANGED source

\* The next bytes reach r: never past the range, never backwards.
Deliver(r) == /\ stream[r].pc = "open"
              /\ \E pos \in (stream[r].pos + 1)..(Last + 1) :
                    stream' = [stream EXCEPT ![r].pos = pos]
              /\ UNCHANGED source

\* The stream of r ends as if it were complete.
End(r) == /\ stream[r].pc = "open"
          /\ Served(stream[r]) \/ source = "failed"
          /\ stream' = [stream EXCEPT ![r].pc = "ended"]
          /\ UNCHANGED source

\* The stream of r breaks off with an error.
Break(r) == /\ stream[r].pc = "open"
            /\ source = "failed"
            /\ stream' = [stream EXCEPT ![r].pc = "broken"]
            /\ UNCHANGED source

\* The consumer goes away.
Leave(r) == /\ stream[r].pc = "open"
            /\ stream' = [stream EXCEPT ![r].pc = "left"]
            /\ UNCHANGED source

StreamNext == \/ Settle
              \/ \E r \in Readers : \/ Open(r) \/ Deliver(r)
                                    \/ End(r) \/ Break(r) \/ Leave(r)

StreamSpec == StreamInit /\ [][StreamNext]_svars
==============================================================================
