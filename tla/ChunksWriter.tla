----------------------------- MODULE ChunksWriter -----------------------------
(***************************************************************************)
(* One ChunksWriter of cache/writer.py: a background task that downloads   *)
(* one byte range of a file into memory, with retries, and any number of   *)
(* generators that hand the bytes out while they arrive.                   *)
(*                                                                         *)
(* All of it runs on one asyncio event loop, so a step is what happens     *)
(* between two suspension points: the response headers (await of           *)
(* client.stream), each chunk (aiter_bytes), the sleep between attempts    *)
(* (tenacity), wait_for on the condition, and a yield to the consumer.     *)
(* The bodies of the `async with self.condition` blocks never suspend      *)
(* while they hold the lock, so the lock is free whenever it is asked for. *)
(*                                                                         *)
(* Bytes are counted, not stored: index i of cache_data is the byte First  *)
(* + i of the file.                                                        *)
(***************************************************************************)
EXTENDS Integers

CONSTANTS Readers,      \* the calls of read()
          First, Last,  \* cache_range_start, cache_range_end
          Tail,         \* cache_range_status = FULLY_CACHED_TAIL
          MaxAttempts   \* stop_after_attempt(...); 5 in the code

ASSUME WriterAssumption ==
    /\ First \in Nat /\ Last \in Nat /\ First <= Last
    /\ Tail \in BOOLEAN
    /\ ~Tail => First = 0
    /\ MaxAttempts \in Nat \ {0}

VARIABLES phase,       \* where the download task stands; "none" before write()
          attempt,     \* the attempt of _write that is running
          len,         \* len(cache_data)
          recv,        \* bytes of the current response received so far
          completed,   \* self.completed
          error,       \* self.error is not None
          headersOf,   \* the attempt file_headers were taken from; 0: none
          reader       \* reader[r]: the generator r

dvars == <<phase, attempt, len, recv, completed, error, headersOf>>
vars  == <<phase, attempt, len, recv, completed, error, headersOf, reader>>

\* Content-Length of a response that is accepted.
Size == (Last - First) + 1

\* Mutant: read() hands out all there is, whatever its end.
Second(a, b) == b

Lesser(a, b) == IF a <= b THEN a ELSE b

\* s, lim: the position asked for and the exclusive end, end + 1 (Last + 2
\* when `end` is None or past the range); cur: current_index; out: the index
\* up to which bytes were handed out; settled: the call came after completed
\* was set.
Uncalled == [pc |-> "uncalled", s |-> First, cur |-> 0, out |-> 0,
             lim |-> First, settled |-> FALSE]

Init == /\ phase = "none" /\ attempt = 0
        /\ len = 0 /\ recv = 0
        /\ completed = FALSE /\ error = FALSE
        /\ headersOf = 0
        /\ reader = [r \in Readers |-> Uncalled]

-------------------------------------------------------------------------------
(* The download task.                                                      *)

\* Mutant: the bytes of the failed attempt stay in cache_data.
KeptBuffer == len

\* self.cache_data = bytearray()
FreshBuffer == 0

\* _write from its first line to the request: every attempt starts afresh.
StartAttempt(n) == /\ phase' = "request" /\ attempt' = n
                   /\ len' = FreshBuffer /\ recv' = 0
                   /\ completed' = FALSE /\ error' = FALSE
                   /\ UNCHANGED headersOf

\* Mutant: a second call of write() starts a second download.
WriteAgain == /\ phase \in {"none", "done"}
              /\ StartAttempt(1)
              /\ UNCHANGED reader

\* write() creates the task if there is none; a second call changes nothing.
Write == /\ phase = "none"
         /\ StartAttempt(1)
         /\ UNCHANGED reader

\* tenacity's sleep is over and calls _write again.
Retry == /\ phase = "backoff"
         /\ StartAttempt(attempt + 1)
         /\ UNCHANGED reader

\* Mutant: headers once seen are kept.
FirstHeaders == IF headersOf = 0 THEN attempt ELSE headersOf

\* self.file_headers = FileHeaders(...), from this response
ResponseHeaders == attempt

\* A 200 or 206 with the Content-Length asked for: the headers are kept.
Respond == /\ phase = "request"
           /\ phase' = "stream"
           /\ headersOf' = ResponseHeaders
           /\ UNCHANGED <<attempt, len, recv, completed, error, reader>>

\* aiter_bytes yields n more bytes and they are appended.
Chunk(n) == /\ phase = "stream"
            /\ recv + n <= Size
            /\ recv' = recv + n
            /\ len' = len + n
            /\ UNCHANGED <<phase, attempt, completed, error, headersOf, reader>>

\* The whole body arrived.
Finish == /\ phase = "stream" /\ recv = Size
          /\ phase' = "done"
          /\ completed' = TRUE
          /\ UNCHANGED <<attempt, len, recv, error, headersOf, reader>>

\* A RequestError before or while the body arrives: a timeout, a lost
\* connection, a body shorter than announced, a Content-Length that is
\* missing or not Size.  tenacity sleeps, if attempts are left.
RequestError == /\ phase \in {"request", "stream"}
                /\ attempt < MaxAttempts
                /\ phase' = "backoff"
                /\ UNCHANGED <<attempt, len, recv, completed, error,
                               headersOf, reader>>

\* Mutant: without _run_write the task just dies.
GiveUpSilently == /\ phase = "request" \/ (phase = "stream" /\ attempt = MaxAttempts)
                  /\ phase' = "done"
                  /\ UNCHANGED <<attempt, len, recv, completed, error,
                                 headersOf, reader>>

\* What leaves _write for good is caught by _run_write: the RequestError of
\* the last attempt, or an error that is not retried (a bad status).
GiveUp == /\ \/ phase = "request"
             \/ phase = "stream" /\ attempt = MaxAttempts
          /\ phase' = "done"
          /\ error' = TRUE /\ completed' = TRUE
          /\ UNCHANGED <<attempt, len, recv, headersOf, reader>>

-------------------------------------------------------------------------------
(* The generators.                                                         *)

\* Mutant: read() does not look at self.error.
ErrorUnseen == FALSE

\* read() finds self.error set.
ErrorSeen == error

\* wait_for's predicate for a reader at index cur.
Ready(cur) == len > cur \/ completed

\* The loop of read(), run from its head at index cur to the next suspension:
\* [pc, cur, out] of the reader then.
LoopFrom(cur, lim) ==
    LET Stop(pc, out) == [pc |-> pc, cur |-> cur, out |-> out]
        more == cur < lim /\ Ready(cur)
    IN  CASE cur >= lim                        -> Stop("ended", cur)
          [] cur < lim /\ ~Ready(cur)          -> Stop("wait", cur)
          [] more /\ ErrorSeen                 -> Stop("ioerror", cur)
          [] more /\ ~ErrorSeen /\ len > cur   -> Stop("yield", Lesser(lim, len))
          [] more /\ ~ErrorSeen /\ len <= cur  -> Stop("ended", cur)

MoveTo(r, to) == reader' = [reader EXCEPT ![r].pc  = to.pc,
                                          ![r].cur = to.cur,
                                          ![r].out = to.out]

\* Mutant: a tail request is not shifted.
Position(s) == s

\* The index of position s in cache_data.
Index(s) == IF Tail THEN s - First ELSE s

\* read(s, end) returns a generator; lim is end + 1.  The shift of a tail
\* request to an index, and its refusal, are in the generator's first step
\* but read nothing that changes.  Only start is shifted, not end.
Read(r, s, lim) ==
    /\ reader[r].pc = "uncalled"
    /\ reader' = [reader EXCEPT ![r] =
          [pc      |-> IF Tail /\ s < First THEN "refused" ELSE "called",
           s       |-> s, lim |-> lim,
           cur     |-> Index(s), out |-> Index(s),
           settled |-> completed]]
    /\ UNCHANGED dvars

\* The consumer asks for the first bytes.
Begin(r) == /\ reader[r].pc = "called"
            /\ MoveTo(r, LoopFrom(reader[r].cur, reader[r].lim))
            /\ UNCHANGED dvars

\* The condition was notified and the predicate holds.
Wake(r) == /\ reader[r].pc = "wait" /\ Ready(reader[r].cur)
           /\ MoveTo(r, LoopFrom(reader[r].cur, reader[r].lim))
           /\ UNCHANGED dvars

\* The consumer took the bytes and asks for more.
Resume(r) ==
    /\ reader[r].pc = "yield"
    /\ LET cur == reader[r].out
       IN  MoveTo(r, IF completed /\ cur >= len
                     THEN [pc |-> "ended", cur |-> cur, out |-> cur]
                     ELSE LoopFrom(cur, reader[r].lim))
    /\ UNCHANGED dvars

\* The consumer disconnects: the generator is closed or its task cancelled.
Disconnect(r) == /\ reader[r].pc \in {"called", "wait", "yield"}
                 /\ reader' = [reader EXCEPT ![r].pc = "left"]
                 /\ UNCHANGED dvars

-------------------------------------------------------------------------------
\* Positions asked for: Last + 1 is any start past the range, Last + 2 any
\* end past it, or None.
Starts == 0..(Last + 1)
Limits(s) == (s + 1)..(Last + 2)

Download == \/ Write \/ Retry \/ Respond \/ Finish \/ RequestError \/ GiveUp
            \/ \E n \in 1..Size : Chunk(n)

ReaderStep(r) == \/ \E s \in Starts : \E lim \in Limits(s) : Read(r, s, lim)
                 \/ Begin(r) \/ Wake(r) \/ Resume(r) \/ Disconnect(r)

Next == Download \/ \E r \in Readers : ReaderStep(r)

Spec == Init /\ [][Next]_vars

\* The event loop runs what is ready and httpx times out after 30 s, so the
\* task, once created, moves on; a notified reader is scheduled; a consumer
\* that took its bytes asks for more, unless it goes away.  A consumer that
\* waits need not go away, and nothing makes anybody call write().
Fairness == /\ WF_vars(Download /\ phase # "none")
            /\ \A r \in Readers :
                  /\ WF_vars(Wake(r))
                  /\ WF_vars(Begin(r) \/ Resume(r))

FairSpec == Spec /\ Fairness

-------------------------------------------------------------------------------
(* Properties.                                                             *)

ReaderPcs == {"uncalled", "refused", "called", "wait", "yield",
              "ended", "ioerror", "left"}

ReaderRecord == [pc : ReaderPcs, s : Int, cur : Int, out : Int, lim : Int,
                 settled : BOOLEAN]

\* The types; the buffer never outgrows the range, however often it is refilled.
TypeOK ==
    /\ phase \in {"none", "request", "stream", "backoff", "done"}
    /\ attempt \in 0..MaxAttempts
    /\ len \in 0..Size /\ recv \in 0..Size
    /\ completed \in BOOLEAN /\ error \in BOOLEAN
    /\ headersOf \in 0..MaxAttempts
    /\ reader \in [Readers -> ReaderRecord]

\* The reader has handed out all it was asked for, as far as the range goes.
Whole(r) == First + reader[r].out >= Lesser(reader[r].lim, Last + 1)

\* A stream that ends as if complete is complete, unless the download failed
\* while the consumer was busy with an earlier piece: after that piece the
\* loop of read() finds `completed` and no more data and stops without the
\* IOError.  A reader that was started on a settled writer, as
\* FileStorage.write_to_disk does, can never be cut short that way: what it
\* gets is the whole range or an IOError.
EndedIsWhole ==
    \A r \in Readers : reader[r].pc = "ended" =>
        Whole(r) \/ (error /\ ~reader[r].settled)

\* The headers that will be sent, and stored, beside the bytes come from the
\* response the bytes came from, however many attempts there were before.
HeadersMatchData == (len > 0 \/ (completed /\ ~error)) => headersOf = attempt

\* No reader is handed a byte past the end it asked for.  It holds for the head
\* of a file; a tail request with an end is served past it, because only
\* start is shifted.
WithinRequest == \A r \in Readers :
    reader[r].pc \notin {"uncalled", "refused"} =>
        First + reader[r].out <= reader[r].lim

\* The order of the two lines in _run_write's handler, and the reset at the
\* top of _write, never show a reader a writer that was done and is not: once
\* completed, the outcome and the bytes are frozen.
SettledForGood ==
    [][completed => UNCHANGED <<len, completed, error, headersOf>>]_vars

\* No reader waits for ever once the download was started, although every
\* retry empties the buffer under it: a consumer that keeps asking is served,
\* refused or told of the error.
StreamsEnd == \A r \in Readers :
    (phase # "none" /\ reader[r].pc = "called")
        ~> reader[r].pc \in {"ended", "ioerror", "left"}

-------------------------------------------------------------------------------
(* ChunksWriter implements RangeStream.                                    *)

\* How the fetch stands, as consumers can tell.
Source == IF ~completed THEN "pending" ELSE IF error THEN "failed" ELSE "whole"

Stage == [pc \in ReaderPcs |->
            CASE pc = "uncalled" -> "unopened"
              [] pc \in {"called", "wait", "yield"} -> "open"
              [] pc = "ioerror" -> "broken"
              [] OTHER -> pc]

\* Where a consumer stands, in file positions.
View(q) == [pc    |-> Stage[q.pc],
            start |-> q.s,
            pos   |-> First + q.out,
            want  |-> q.lim]

Stream == [r \in Readers |-> View(reader[r])]

RS == INSTANCE RangeStream WITH source <- Source, stream <- Stream

\* Retries, buffer and generators together keep RangeStream's promise.
ImplementsRangeStream == RS!StreamSpec
===============================================================================
