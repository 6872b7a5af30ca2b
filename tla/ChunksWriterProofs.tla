-------------------------- MODULE ChunksWriterProofs --------------------------
(***************************************************************************)
(* Theorems about ChunksWriter, for every range, number of attempts and    *)
(* set of readers.                                                         *)
(*                                                                         *)
(* Inv strengthens the invariants with what links the phase of the         *)
(* download to completed, error, the buffer and the headers (Outcome), and *)
(* each reader to the outcome (Honest).                                    *)
(***************************************************************************)
EXTENDS ChunksWriter, TLAPS

\* The fields a consumer sees and the buffer follow the phase of the task.
Outcome ==
    /\ len = recv
    /\ phase \in {"none", "request"} => len = 0
    /\ completed <=> phase = "done"
    /\ error => completed
    /\ (completed /\ ~error) => len = Size
    /\ phase # "none" => attempt >= 1
    /\ phase = "backoff" => attempt < MaxAttempts
    /\ phase = "stream" => headersOf = attempt
    /\ HeadersMatchData

\* A reader that was started on a settled writer never yields after an error,
\* and no reader that ended was cut short but by a late error.
Honest(r) ==
    /\ reader[r].pc \in {"called", "wait"} => reader[r].out = reader[r].cur
    /\ reader[r].settled => completed
    /\ (reader[r].settled /\ error) => reader[r].pc # "yield"
    /\ reader[r].pc = "ended" => Whole(r) \/ (error /\ ~reader[r].settled)
    /\ (~Tail /\ reader[r].pc \notin {"uncalled", "refused"})
          => reader[r].out <= reader[r].lim

Inv == TypeOK /\ Outcome /\ \A r \in Readers : Honest(r)

USE DEF FreshBuffer, ResponseHeaders, ErrorSeen

-------------------------------------------------------------------------------
\* Size is the length of the range, a positive number.
LEMMA SizeIsNat == Size \in Nat /\ Size >= 1 /\ First + Size = Last + 1
  BY WriterAssumption DEF Size

\* What the loop of read() stops with, when it is run from index cur.
LEMMA LoopStops ==
  ASSUME TypeOK, NEW cur \in Int, NEW lim \in Int
  PROVE  /\ LoopFrom(cur, lim).cur = cur
         /\ LoopFrom(cur, lim).out \in Int
         /\ \/ /\ LoopFrom(cur, lim).pc = "ended"
               /\ LoopFrom(cur, lim).out = cur
               /\ cur >= lim \/ (completed /\ ~error /\ len <= cur)
            \/ /\ LoopFrom(cur, lim).pc = "wait"
               /\ LoopFrom(cur, lim).out = cur
               /\ cur < lim /\ ~completed /\ len <= cur
            \/ /\ LoopFrom(cur, lim).pc = "ioerror"
               /\ LoopFrom(cur, lim).out = cur
               /\ cur < lim /\ error
            \/ /\ LoopFrom(cur, lim).pc = "yield"
               /\ LoopFrom(cur, lim).out = Lesser(lim, len)
               /\ cur < lim /\ ~error /\ len > cur
  <1>1. len \in Int /\ completed \in BOOLEAN /\ error \in BOOLEAN
    BY SizeIsNat DEF TypeOK
  <1>2. CASE cur >= lim
    BY <1>1, <1>2 DEF LoopFrom
  <1>3. CASE cur < lim /\ ~Ready(cur)
    BY <1>1, <1>3 DEF LoopFrom, Ready
  <1>4. CASE cur < lim /\ Ready(cur) /\ error
    BY <1>1, <1>4 DEF LoopFrom, Ready
  <1>5. CASE cur < lim /\ Ready(cur) /\ ~error /\ len > cur
    BY <1>1, <1>5 DEF LoopFrom, Ready, Lesser
  <1>6. CASE cur < lim /\ Ready(cur) /\ ~error /\ len <= cur
    BY <1>1, <1>6 DEF LoopFrom, Ready
  <1> QED
    BY <1>1, <1>2, <1>3, <1>4, <1>5, <1>6

\* The initial state.
LEMMA InitInv == Init => Inv
  <1> SUFFICES ASSUME Init PROVE Inv
    OBVIOUS
  <1>1. TypeOK
    <2>1. Uncalled \in ReaderRecord
      BY WriterAssumption DEF Uncalled, ReaderRecord, ReaderPcs
    <2>2. reader \in [Readers -> ReaderRecord]
      BY <2>1 DEF Init
    <2>3. completed \in BOOLEAN /\ error \in BOOLEAN
      BY DEF Init
    <2>4. len \in 0..Size /\ recv \in 0..Size
      BY SizeIsNat DEF Init
    <2>5. attempt \in 0..MaxAttempts /\ headersOf \in 0..MaxAttempts
      BY WriterAssumption DEF Init
    <2>6. phase \in {"none", "request", "stream", "backoff", "done"}
      BY DEF Init
    <2> QED
      BY <2>2, <2>3, <2>4, <2>5, <2>6 DEF TypeOK
  <1>2. Outcome
    BY DEF Init, Outcome, HeadersMatchData
  <1>3. ASSUME NEW r \in Readers PROVE Honest(r)
    BY WriterAssumption DEF Init, Honest, Uncalled
  <1> QED
    BY <1>1, <1>2, <1>3 DEF Inv

\* Every attempt, from write() or from tenacity, restores the invariant.
LEMMA StartAttemptInv ==
  ASSUME Inv, phase \in {"none", "backoff"},
         NEW n \in 1..MaxAttempts, StartAttempt(n), UNCHANGED reader
  PROVE  Inv'
  <1>1. TypeOK'
    <2>1. completed' \in BOOLEAN /\ error' \in BOOLEAN
      BY DEF StartAttempt
    <2>2. len' \in 0..Size /\ recv' \in 0..Size
      BY SizeIsNat DEF StartAttempt
    <2> QED
      BY <2>1, <2>2, WriterAssumption DEF Inv, TypeOK, StartAttempt
  <1>2. ~completed /\ ~error /\ ~completed' /\ ~error'
    BY DEF Inv, TypeOK, Outcome, StartAttempt
  <1>3. Outcome'
    BY <1>2, WriterAssumption DEF Inv, TypeOK, Outcome, StartAttempt, HeadersMatchData
  <1>4. ASSUME NEW r \in Readers PROVE Honest(r)'
    BY <1>2 DEF Inv, Honest, StartAttempt, Whole
  <1> QED
    BY <1>1, <1>3, <1>4 DEF Inv

\* The steps that leave completed and error alone, and the buffer's owner.
LEMMA ResponseInv ==
  ASSUME Inv, Respond \/ RequestError \/ \E n \in 1..Size : Chunk(n)
  PROVE  Inv'
  <1>1. CASE Respond
    <2>1. TypeOK'
      BY <1>1 DEF Inv, TypeOK, Respond
    <2>2. Outcome'
      BY <1>1 DEF Inv, TypeOK, Outcome, Respond, HeadersMatchData
    <2>3. ASSUME NEW r \in Readers PROVE Honest(r)'
      BY <1>1 DEF Inv, Honest, Respond, Whole
    <2> QED
      BY <2>1, <2>2, <2>3 DEF Inv
  <1>2. CASE RequestError
    <2>1. TypeOK'
      BY <1>2 DEF Inv, TypeOK, RequestError
    <2>2. Outcome'
      BY <1>2 DEF Inv, TypeOK, Outcome, RequestError, HeadersMatchData
    <2>3. ASSUME NEW r \in Readers PROVE Honest(r)'
      BY <1>2 DEF Inv, Honest, RequestError, Whole
    <2> QED
      BY <2>1, <2>2, <2>3 DEF Inv
  <1>3. ASSUME NEW n \in 1..Size, Chunk(n) PROVE Inv'
    <2>1. TypeOK'
      BY <1>3, SizeIsNat DEF Inv, TypeOK, Outcome, Chunk
    <2>2. Outcome'
      BY <1>3, SizeIsNat DEF Inv, TypeOK, Outcome, Chunk, HeadersMatchData
    <2>3. ASSUME NEW r \in Readers PROVE Honest(r)'
      BY <1>3 DEF Inv, Honest, Chunk, Whole
    <2> QED
      BY <2>1, <2>2, <2>3 DEF Inv
  <1> QED
    BY <1>1, <1>2, <1>3

\* The two ways a download ends.
LEMMA SettleInv ==
  ASSUME Inv, Finish \/ GiveUp
  PROVE  Inv'
  <1>1. phase # "done" /\ ~completed /\ ~error
    BY DEF Inv, TypeOK, Outcome, Finish, GiveUp
  <1>2. ASSUME NEW r \in Readers PROVE ~reader[r].settled
    BY <1>1 DEF Inv, Honest
  <1>3. CASE Finish
    <2>1. TypeOK'
      BY <1>3 DEF Inv, TypeOK, Finish
    <2>2. Outcome'
      BY <1>1, <1>3 DEF Inv, TypeOK, Outcome, Finish, HeadersMatchData
    <2>3. ASSUME NEW r \in Readers PROVE Honest(r)'
      BY <1>2, <1>3 DEF Inv, Honest, Finish, Whole
    <2> QED
      BY <2>1, <2>2, <2>3 DEF Inv
  <1>4. CASE GiveUp
    <2>1. TypeOK'
      BY <1>4 DEF Inv, TypeOK, GiveUp
    <2>2. Outcome'
      BY <1>1, <1>4 DEF Inv, TypeOK, Outcome, GiveUp, HeadersMatchData
    <2>3. ASSUME NEW r \in Readers PROVE Honest(r)'
      BY <1>2, <1>4 DEF Inv, Honest, GiveUp, Whole
    <2> QED
      BY <2>1, <2>2, <2>3 DEF Inv
  <1> QED
    BY <1>3, <1>4

\* A step of one reader that leaves it honest leaves all honest.
LEMMA OneReader ==
  ASSUME Inv, UNCHANGED dvars, NEW r \in Readers, NEW q \in ReaderRecord,
         reader' = [reader EXCEPT ![r] = q],
         Honest(r)'
  PROVE  Inv'
  <1>1. TypeOK'
    BY DEF Inv, TypeOK, dvars
  <1>2. Outcome'
    BY DEF Inv, Outcome, HeadersMatchData, dvars
  <1>3. ASSUME NEW p \in Readers, p # r PROVE Honest(p)'
    BY <1>3 DEF Inv, TypeOK, Honest, Whole, dvars
  <1> QED
    BY <1>1, <1>2, <1>3 DEF Inv

\* The loop of read(), from any index at which the reader may enter it.
LEMMA LoopInv ==
  ASSUME Inv, UNCHANGED dvars, NEW r \in Readers, NEW cur \in Int,
         reader[r].pc \in {"called", "wait", "yield"},
         ~Tail => cur <= reader[r].lim,
         MoveTo(r, LoopFrom(cur, reader[r].lim))
  PROVE  Inv'
  <1> DEFINE to == LoopFrom(cur, reader[r].lim)
             q  == [reader[r] EXCEPT !.pc = to.pc, !.cur = to.cur, !.out = to.out]
  <1>1. reader[r] \in ReaderRecord /\ reader[r].lim \in Int
    BY DEF Inv, TypeOK, ReaderRecord
  <1>2. /\ to.cur = cur /\ to.out \in Int /\ to.pc \in ReaderPcs
    BY <1>1, LoopStops DEF Inv, ReaderPcs
  <1>3. q \in ReaderRecord
    BY <1>1, <1>2 DEF ReaderRecord
  <1>4. reader' = [reader EXCEPT ![r] = q]
    BY <1>1, <1>2 DEF MoveTo, Inv, TypeOK, ReaderRecord
  <1>5. /\ reader'[r].pc = to.pc /\ reader'[r].out = to.out
        /\ reader'[r].lim = reader[r].lim
        /\ reader'[r].settled = reader[r].settled
    BY <1>1, <1>4 DEF Inv, TypeOK, ReaderRecord
  <1>6. Honest(r)'
    <2>0. (reader[r].pc \in {"called", "wait"} => reader[r].out = reader[r].cur)'
      BY <1>1, <1>2, <1>4, <1>5, LoopStops DEF Inv, TypeOK, ReaderRecord
    <2>1. (reader[r].settled => completed)'
      BY <1>5 DEF Inv, Honest, dvars
    <2>2. ((reader[r].settled /\ error) => reader[r].pc # "yield")'
      BY <1>1, <1>5, LoopStops DEF Inv, dvars
    <2>3. (reader[r].pc = "ended" => Whole(r) \/ (error /\ ~reader[r].settled))'
      <3>1. SUFFICES ASSUME to.pc = "ended" PROVE Whole(r)'
        BY <1>5
      <3>2. to.out = cur /\ (cur >= reader[r].lim \/ cur >= Size)
        BY <1>1, <3>1, LoopStops, SizeIsNat DEF Inv, TypeOK, Outcome
      <3>3. First + cur >= Lesser(reader[r].lim, Last + 1)
        BY <1>1, <3>2, SizeIsNat, WriterAssumption DEF Lesser
      <3> QED
        BY <1>5, <3>2, <3>3 DEF Whole
    <2>4. ((~Tail /\ reader[r].pc \notin {"uncalled", "refused"})
              => reader[r].out <= reader[r].lim)'
      BY <1>1, <1>5, LoopStops, SizeIsNat DEF Inv, TypeOK, Lesser
    <2> QED
      BY <2>0, <2>1, <2>2, <2>3, <2>4 DEF Honest
  <1> QED
    BY <1>3, <1>4, <1>6, OneReader

\* A call of read().
LEMMA ReadInv ==
  ASSUME Inv, NEW r \in Readers, NEW s \in Starts, NEW lim \in Limits(s),
         Read(r, s, lim)
  PROVE  Inv'
  <1> DEFINE q == [pc      |-> IF Tail /\ s < First THEN "refused" ELSE "called",
                   s       |-> s, lim |-> lim,
                   cur     |-> Index(s), out |-> Index(s),
                   settled |-> completed]
  <1>1. s \in Int /\ lim \in Int /\ s < lim /\ Index(s) \in Int
    BY WriterAssumption DEF Starts, Limits, Index
  <1>2. completed \in BOOLEAN
    BY DEF Inv, TypeOK
  <1>3. q \in ReaderRecord
    BY <1>1, <1>2 DEF ReaderRecord, ReaderPcs
  <1>4. reader' = [reader EXCEPT ![r] = q] /\ UNCHANGED dvars
    BY DEF Read
  <1>5. reader'[r] = q
    BY <1>4 DEF Inv, TypeOK
  <1>6. q.pc \in {"refused", "called"} /\ q.out = Index(s) /\ q.lim = lim
        /\ q.cur = q.out
        /\ q.settled = completed
    OBVIOUS
  <1>7. Honest(r)'
    <2>1. ~Tail => Index(s) <= lim
      BY <1>1 DEF Index
    <2> HIDE DEF q
    <2> QED
      BY <1>4, <1>5, <1>6, <2>1 DEF Honest, dvars
  <1> QED
    BY <1>3, <1>4, <1>7, OneReader

\* Every step of a reader.
LEMMA ReaderInv ==
  ASSUME Inv, NEW r \in Readers, ReaderStep(r)
  PROVE  Inv'
  <1>1. reader[r] \in ReaderRecord
    BY DEF Inv, TypeOK
  <1>2. Honest(r)
    BY DEF Inv
  <1>3. ASSUME NEW s \in Starts, NEW lim \in Limits(s), Read(r, s, lim) PROVE Inv'
    BY <1>3, ReadInv
  <1>4. CASE Begin(r)
    BY <1>1, <1>2, <1>4, LoopInv DEF Begin, Honest, ReaderRecord
  <1>5. CASE Wake(r)
    BY <1>1, <1>2, <1>5, LoopInv DEF Wake, Honest, ReaderRecord
  <1>6. CASE Resume(r)
    <2> DEFINE cur == reader[r].out
    <2>1. cur \in Int /\ (~Tail => cur <= reader[r].lim) /\ UNCHANGED dvars
          /\ reader[r].pc = "yield"
      BY <1>1, <1>2, <1>6 DEF Resume, Honest, ReaderRecord
    <2>2. CASE ~(completed /\ cur >= len)
      BY <2>1, <2>2, <1>6, LoopInv DEF Resume
    <2>3. CASE completed /\ cur >= len
      <3> DEFINE q == [reader[r] EXCEPT !.pc = "ended", !.cur = cur, !.out = cur]
      <3>1. q \in ReaderRecord
        BY <1>1, <2>1 DEF ReaderRecord, ReaderPcs
      <3>2. reader' = [reader EXCEPT ![r] = q]
        BY <1>1, <1>6, <2>3 DEF Resume, MoveTo, Inv, TypeOK, ReaderRecord
      <3>3. /\ reader'[r].pc = "ended" /\ reader'[r].out = cur
            /\ reader'[r].lim = reader[r].lim
            /\ reader'[r].settled = reader[r].settled
        BY <1>1, <3>2 DEF Inv, TypeOK, ReaderRecord
      <3>4. error \/ Whole(r)'
        <4>1. SUFFICES ASSUME ~error PROVE First + cur >= Lesser(reader[r].lim, Last + 1)
          BY <3>3 DEF Whole
        <4>2. cur >= Size /\ reader[r].lim \in Int
          BY <1>1, <2>3, <4>1 DEF Inv, Outcome, ReaderRecord
        <4> QED
          BY <2>1, <4>2, SizeIsNat, WriterAssumption DEF Lesser
      <3>5. error => ~reader[r].settled
        BY <1>2, <2>1 DEF Honest
      <3>6. Honest(r)'
        BY <1>2, <2>1, <3>3, <3>4, <3>5 DEF Honest, dvars
      <3> QED
        BY <2>1, <3>1, <3>2, <3>6, OneReader
    <2> QED
      BY <2>2, <2>3
  <1>7. CASE Disconnect(r)
    <2> DEFINE q == [reader[r] EXCEPT !.pc = "left"]
    <2>1. q \in ReaderRecord
      BY <1>1 DEF ReaderRecord, ReaderPcs
    <2>2. reader' = [reader EXCEPT ![r] = q] /\ UNCHANGED dvars
      BY <1>1, <1>7 DEF Disconnect, Inv, TypeOK, ReaderRecord
    <2>3. /\ reader'[r].pc = "left" /\ reader'[r].out = reader[r].out
          /\ reader'[r].lim = reader[r].lim
          /\ reader'[r].settled = reader[r].settled
      BY <1>1, <2>2 DEF Inv, TypeOK, ReaderRecord
    <2>4. Honest(r)'
      BY <1>2, <1>7, <2>2, <2>3 DEF Honest, Disconnect, dvars
    <2> QED
      BY <2>1, <2>2, <2>4, OneReader
  <1> QED
    BY <1>3, <1>4, <1>5, <1>6, <1>7 DEF ReaderStep

-------------------------------------------------------------------------------
\* Every step of the specification.
LEMMA NextInv == Inv /\ [Next]_vars => Inv'
  <1> SUFFICES ASSUME Inv, [Next]_vars PROVE Inv'
    OBVIOUS
  <1>1. CASE UNCHANGED vars
    BY <1>1 DEF vars, Inv, TypeOK, Outcome, HeadersMatchData, Honest, Whole
  <1>2. CASE Write
    <2>1. 1 \in 1..MaxAttempts
      BY WriterAssumption
    <2> QED
      BY <1>2, <2>1, StartAttemptInv DEF Write
  <1>3. CASE Retry
    <2>1. attempt + 1 \in 1..MaxAttempts
      BY <1>3, WriterAssumption DEF Retry, Inv, TypeOK, Outcome
    <2> QED
      BY <1>3, <2>1, StartAttemptInv DEF Retry
  <1>4. CASE Respond \/ RequestError \/ \E n \in 1..Size : Chunk(n)
    BY <1>4, ResponseInv
  <1>5. CASE Finish \/ GiveUp
    BY <1>5, SettleInv
  <1>6. ASSUME NEW r \in Readers, ReaderStep(r) PROVE Inv'
    BY <1>6, ReaderInv
  <1> QED
    BY <1>1, <1>2, <1>3, <1>4, <1>5, <1>6 DEF Next, Download

THEOREM Invariance == Spec => []Inv
  BY InitInv, NextInv, PTL DEF Spec

\* The types, for every range and number of attempts: the buffer never holds
\* more than the range, whatever the retries.
THEOREM TypeCorrect == Spec => []TypeOK
  <1>1. Inv => TypeOK
    BY DEF Inv
  <1> QED
    BY <1>1, Invariance, PTL

\* A read() that ends normally handed out all of the request, unless a late
\* error cut it short; on a settled writer it never is cut short.
THEOREM EndedWhole == Spec => []EndedIsWhole
  <1>1. Inv => EndedIsWhole
    BY DEF Inv, Honest, EndedIsWhole
  <1> QED
    BY <1>1, Invariance, PTL

\* The headers kept are those of the response the bytes came from.
THEOREM HeadersMatch == Spec => []HeadersMatchData
  <1>1. Inv => HeadersMatchData
    BY DEF Inv, Outcome
  <1> QED
    BY <1>1, Invariance, PTL

\* A reader of the head of a file gets nothing past the end it asked for.
THEOREM HeadWithinRequest == ~Tail => (Spec => []WithinRequest)
  <1> SUFFICES ASSUME ~Tail PROVE Spec => []WithinRequest
    OBVIOUS
  <1>1. Inv => WithinRequest
    <2> SUFFICES ASSUME Inv, NEW r \in Readers,
                        reader[r].pc \notin {"uncalled", "refused"}
                 PROVE  First + reader[r].out <= reader[r].lim
      BY DEF WithinRequest
    <2>1. reader[r].out \in Int /\ reader[r].lim \in Int
      BY DEF Inv, TypeOK, ReaderRecord
    <2> QED
      BY <2>1, WriterAssumption DEF Inv, Honest
  <1> QED
    BY <1>1, Invariance, PTL

\* Once completed, the writer's outcome and bytes never change.
THEOREM Settled == Spec => SettledForGood
  <1>1. Inv /\ [Next]_vars => [completed => UNCHANGED <<len, completed, error, headersOf>>]_vars
    <2> SUFFICES ASSUME Inv, completed, Next
                 PROVE  UNCHANGED <<len, completed, error, headersOf>>
      BY DEF vars
    <2>1. phase = "done"
      BY DEF Inv, Outcome
    <2>2. ASSUME NEW r \in Readers, ReaderStep(r)
          PROVE  UNCHANGED <<len, completed, error, headersOf>>
      BY <2>2 DEF ReaderStep, Read, Begin, Wake, Resume, Disconnect, dvars
    <2>3. ~Download
      BY <2>1 DEF Download, Write, Retry, Respond, Finish, RequestError, GiveUp, Chunk
    <2> QED
      BY <2>2, <2>3 DEF Next
  <1> QED
    BY <1>1, Invariance, PTL DEF Spec, SettledForGood

-------------------------------------------------------------------------------
(* ChunksWriter implements RangeStream.                                    *)

LEMMA Stages ==
    /\ Stage["uncalled"] = "unopened" /\ Stage["refused"] = "refused"
    /\ Stage["called"] = "open" /\ Stage["wait"] = "open" /\ Stage["yield"] = "open"
    /\ Stage["ended"] = "ended" /\ Stage["ioerror"] = "broken" /\ Stage["left"] = "left"
  BY DEF Stage, ReaderPcs

LEMMA InitRef == Init => RS!StreamInit
  <1> SUFFICES ASSUME Init PROVE RS!StreamInit
    OBVIOUS
  <1>1. Source = "pending"
    BY DEF Init, Source
  <1>2. View(Uncalled) = RS!Unopened
    BY Stages, WriterAssumption DEF View, Uncalled, RS!Unopened
  <1>3. Stream = [r \in Readers |-> RS!Unopened]
    BY <1>2 DEF Init, Stream
  <1> QED
    BY <1>1, <1>3 DEF RS!StreamInit

\* A step of one reader is a step of one consumer.
LEMMA OneStream ==
  ASSUME Inv, NEW r \in Readers, NEW q, reader' = [reader EXCEPT ![r] = q]
  PROVE  /\ Stream' = [Stream EXCEPT ![r] = View(q)]
         /\ Stream[r] = View(reader[r])
  BY DEF Inv, TypeOK, Stream, View

\* The download can only settle the source, and moves no consumer.
LEMMA DownloadRef ==
  ASSUME Inv, Download
  PROVE  [RS!StreamNext]_(RS!svars)
  <1>1. reader' = reader /\ Stream' = Stream
    BY DEF Download, Write, Retry, Respond, Finish, RequestError, GiveUp, Chunk,
           Stream, View
  <1>2. CASE Finish \/ GiveUp
    <2>1. Source = "pending"
      BY <1>2 DEF Finish, GiveUp, Inv, TypeOK, Outcome, Source
    <2>2. Source' \in {"whole", "failed"}
      BY <1>2 DEF Finish, GiveUp, Source
    <2> QED
      BY <1>1, <2>1, <2>2 DEF RS!Settle, RS!StreamNext
  <1>3. CASE ~(Finish \/ GiveUp)
    <2>1. Source' = Source
      <3>1. ASSUME NEW n \in Int, StartAttempt(n), phase \in {"none", "backoff"}
            PROVE  Source' = Source
        BY <3>1 DEF StartAttempt, Inv, TypeOK, Outcome, Source
      <3>2. CASE Write
        BY <3>1, <3>2 DEF Write
      <3>3. CASE Retry
        BY <3>1, <3>3, WriterAssumption DEF Retry, Inv, TypeOK
      <3>4. CASE Respond \/ RequestError \/ \E n \in 1..Size : Chunk(n)
        BY <3>4 DEF Respond, RequestError, Chunk, Source
      <3> QED
        BY <1>3, <3>2, <3>3, <3>4 DEF Download
    <2> QED
      BY <1>1, <2>1 DEF RS!svars
  <1> QED
    BY <1>2, <1>3

\* Where the loop of read() takes a consumer that stands at index cur.
LEMMA LoopRef ==
  ASSUME Inv, UNCHANGED dvars, NEW r \in Readers, NEW cur \in Int,
         reader[r].pc \in {"called", "wait", "yield"}, reader[r].out = cur,
         MoveTo(r, LoopFrom(cur, reader[r].lim))
  PROVE  [RS!StreamNext]_(RS!svars)
  <1> DEFINE to == LoopFrom(cur, reader[r].lim)
             q  == [reader[r] EXCEPT !.pc = to.pc, !.cur = to.cur, !.out = to.out]
  <1>1. reader[r] \in ReaderRecord /\ reader[r].lim \in Int
    BY DEF Inv, TypeOK, ReaderRecord
  <1>2. reader' = [reader EXCEPT ![r] = q]
    BY <1>1 DEF MoveTo, Inv, TypeOK, ReaderRecord
  <1>3. Stream' = [Stream EXCEPT ![r] = View(q)] /\ Stream[r] = View(reader[r])
    BY <1>2, OneStream
  <1>4. /\ q.pc = to.pc /\ q.out = to.out
        /\ q.s = reader[r].s /\ q.lim = reader[r].lim
    BY <1>1 DEF ReaderRecord
  <1>5. View(q) = [pc |-> Stage[to.pc], start |-> reader[r].s,
                   pos |-> First + to.out, want |-> reader[r].lim]
    BY <1>4 DEF View
  <1>6. Stream[r] = [pc |-> "open", start |-> reader[r].s,
                     pos |-> First + cur, want |-> reader[r].lim]
    BY <1>3, Stages DEF View
  <1>7. UNCHANGED Source
    BY DEF dvars, Source
  <1> HIDE DEF q
  <1>8. CASE to.pc = "wait"
    <2>1. View(q) = Stream[r]
      BY <1>1, <1>5, <1>6, <1>8, LoopStops, Stages DEF Inv
    <2>2. Stream' = Stream
      BY <1>3, <2>1 DEF Stream
    <2> QED
      BY <1>7, <2>2 DEF RS!svars
  <1>9. CASE to.pc = "ended"
    <2>1. Stream' = [Stream EXCEPT ![r].pc = "ended"]
      <3>1. to.out = cur
        BY <1>1, <1>9, LoopStops DEF Inv
      <3>2. View(q) = [Stream[r] EXCEPT !.pc = "ended"]
        BY <1>5, <1>6, <1>9, <3>1, Stages
      <3> QED
        BY <1>3, <3>2
    <2>2. cur >= reader[r].lim \/ (completed /\ ~error /\ len <= cur)
      BY <1>1, <1>9, LoopStops DEF Inv
    <2>3. cur >= reader[r].lim \/ cur >= Size
      BY <2>2, SizeIsNat DEF Inv, Outcome
    <2>4. First + cur >= RS!Lesser(reader[r].lim, Last + 1)
      BY <1>1, <2>3, SizeIsNat, WriterAssumption DEF RS!Lesser
    <2>5. RS!End(r)
      BY <1>6, <1>7, <2>1, <2>4 DEF RS!End, RS!Served
    <2> QED
      BY <2>5 DEF RS!StreamNext
  <1>10. CASE to.pc = "ioerror"
    <2>1. Stream' = [Stream EXCEPT ![r].pc = "broken"]
      <3>1. to.out = cur
        BY <1>1, <1>10, LoopStops DEF Inv
      <3>2. View(q) = [Stream[r] EXCEPT !.pc = "broken"]
        BY <1>5, <1>6, <1>10, <3>1, Stages
      <3> QED
        BY <1>3, <3>2
    <2>2. Source = "failed"
      BY <1>1, <1>10, LoopStops DEF Inv, Outcome, Source
    <2>3. RS!Break(r)
      BY <1>6, <1>7, <2>1, <2>2 DEF RS!Break
    <2> QED
      BY <2>3 DEF RS!StreamNext
  <1>11. CASE to.pc = "yield"
    <2>1. to.out \in (cur + 1)..Size
      BY <1>1, <1>11, LoopStops, SizeIsNat DEF Inv, TypeOK, Lesser
    <2>2. First + to.out \in (Stream[r].pos + 1)..(Last + 1)
      BY <1>6, <2>1, SizeIsNat, WriterAssumption
    <2>3. Stream' = [Stream EXCEPT ![r].pos = First + to.out]
      <3>1. View(q) = [Stream[r] EXCEPT !.pos = First + to.out]
        BY <1>5, <1>6, <1>11, Stages
      <3> QED
        BY <1>3, <3>1
    <2>4. RS!Deliver(r)
      <3>1. \E pos \in (Stream[r].pos + 1)..(Last + 1) :
                Stream' = [Stream EXCEPT ![r].pos = pos]
        BY <2>2, <2>3
      <3>2. Stream[r].pc = "open"
        BY <1>6
      <3> QED
        BY <1>7, <3>1, <3>2 DEF RS!Deliver
    <2> QED
      BY <2>4 DEF RS!StreamNext
  <1> QED
    BY <1>1, <1>8, <1>9, <1>10, <1>11, LoopStops DEF Inv

\* Every step of a reader.
LEMMA ReaderRef ==
  ASSUME Inv, NEW r \in Readers, ReaderStep(r)
  PROVE  [RS!StreamNext]_(RS!svars)
  <1>1. reader[r] \in ReaderRecord /\ Honest(r) /\ reader[r].out \in Int
    BY DEF Inv, TypeOK, ReaderRecord
  <1>2. ASSUME NEW s \in Starts, NEW lim \in Limits(s), Read(r, s, lim)
        PROVE  RS!Open(r)
    <2> DEFINE q == [pc      |-> IF Tail /\ s < First THEN "refused" ELSE "called",
                     s       |-> s, lim |-> lim,
                     cur     |-> Index(s), out |-> Index(s),
                     settled |-> completed]
    <2>1. reader[r].pc = "uncalled" /\ reader' = [reader EXCEPT ![r] = q]
          /\ UNCHANGED Source
      BY <1>2 DEF Read, dvars, Source
    <2>2. Stream' = [Stream EXCEPT ![r] = View(q)] /\ Stream[r] = View(reader[r])
      BY <2>1, OneStream
    <2>3. s \in 0..(Last + 1) /\ lim \in 1..(Last + 2) /\ First + Index(s) = s
      BY WriterAssumption DEF Starts, Limits, Index
    <2>4. Stage[q.pc] = IF s < First THEN "refused" ELSE "open"
      BY <2>3, Stages, WriterAssumption
    <2>5. View(q) = [pc |-> IF s < First THEN "refused" ELSE "open",
                     start |-> s, pos |-> s, want |-> lim]
      BY <2>3, <2>4 DEF View
    <2>6. Stream[r].pc = "unopened"
      BY <2>1, <2>2, Stages DEF View
    <2> HIDE DEF q
    <2> QED
      BY <2>1, <2>2, <2>3, <2>5, <2>6 DEF RS!Open
  <1>3. CASE Begin(r)
    BY <1>1, <1>3, LoopRef DEF Begin, Honest, ReaderRecord
  <1>4. CASE Wake(r)
    BY <1>1, <1>4, LoopRef DEF Wake, Honest, ReaderRecord
  <1>5. CASE Resume(r)
    <2> DEFINE cur == reader[r].out
               q == [reader[r] EXCEPT !.pc = "ended", !.cur = cur, !.out = cur]
    <2>1. CASE ~(completed /\ cur >= len)
      BY <1>1, <1>5, <2>1, LoopRef DEF Resume
    <2>2. CASE completed /\ cur >= len
      <3>1. reader[r].pc = "yield" /\ reader' = [reader EXCEPT ![r] = q]
            /\ UNCHANGED Source
        BY <1>1, <1>5, <2>2 DEF Resume, MoveTo, Inv, TypeOK, ReaderRecord, dvars, Source
      <3>2. Stream' = [Stream EXCEPT ![r] = View(q)] /\ Stream[r] = View(reader[r])
        BY <3>1, OneStream
      <3>3. View(q) = [pc |-> "ended", start |-> reader[r].s,
                       pos |-> First + cur, want |-> reader[r].lim]
        BY <1>1, Stages DEF View, ReaderRecord
      <3>4. Stream[r] = [pc |-> "open", start |-> reader[r].s,
                         pos |-> First + cur, want |-> reader[r].lim]
        BY <3>1, <3>2, Stages DEF View
      <3>5. Stream' = [Stream EXCEPT ![r].pc = "ended"]
        <4>1. View(q) = [Stream[r] EXCEPT !.pc = "ended"]
          BY <3>3, <3>4
        <4> QED
          BY <3>2, <4>1
      <3>6. RS!Served(Stream[r]) \/ Source = "failed"
        <4>1. CASE error
          BY <2>2, <4>1 DEF Source
        <4>2. CASE ~error
          <5>1. cur >= Size /\ reader[r].lim \in Int
            BY <1>1, <2>2, <4>2 DEF Inv, Outcome, ReaderRecord
          <5> QED
            BY <1>1, <3>4, <5>1, SizeIsNat, WriterAssumption DEF RS!Served, RS!Lesser
        <4> QED
          BY <4>1, <4>2
      <3>7. RS!End(r)
        BY <3>1, <3>4, <3>5, <3>6 DEF RS!End
      <3> QED
        BY <3>7 DEF RS!StreamNext
    <2> QED
      BY <2>1, <2>2
  <1>6. CASE Disconnect(r)
    <2> DEFINE q == [reader[r] EXCEPT !.pc = "left"]
    <2>1. reader[r].pc \in {"called", "wait", "yield"} /\ UNCHANGED Source
          /\ reader' = [reader EXCEPT ![r] = q]
      BY <1>1, <1>6 DEF Disconnect, Inv, TypeOK, ReaderRecord, dvars, Source
    <2>2. Stream' = [Stream EXCEPT ![r] = View(q)] /\ Stream[r] = View(reader[r])
      BY <2>1, OneStream
    <2>3. View(q) = [pc |-> "left", start |-> reader[r].s,
                     pos |-> First + reader[r].out, want |-> reader[r].lim]
      BY <1>1, Stages DEF View, ReaderRecord
    <2>4. Stream[r] = [pc |-> "open", start |-> reader[r].s,
                       pos |-> First + reader[r].out, want |-> reader[r].lim]
      BY <2>1, <2>2, Stages DEF View
    <2>5. Stream' = [Stream EXCEPT ![r].pc = "left"]
      <3>1. View(q) = [Stream[r] EXCEPT !.pc = "left"]
        BY <2>3, <2>4
      <3> QED
        BY <2>2, <3>1
    <2>6. RS!Leave(r)
      BY <2>1, <2>4, <2>5 DEF RS!Leave
    <2> QED
      BY <2>6 DEF RS!StreamNext
  <1> QED
    BY <1>2, <1>3, <1>4, <1>5, <1>6 DEF ReaderStep, RS!StreamNext

LEMMA NextRef == Inv /\ [Next]_vars => [RS!StreamNext]_(RS!svars)
  <1> SUFFICES ASSUME Inv, [Next]_vars PROVE [RS!StreamNext]_(RS!svars)
    OBVIOUS
  <1>1. CASE UNCHANGED vars
    BY <1>1 DEF vars, Source, Stream, View, RS!svars
  <1>2. CASE Download
    BY <1>2, DownloadRef
  <1>3. ASSUME NEW r \in Readers, ReaderStep(r) PROVE [RS!StreamNext]_(RS!svars)
    BY <1>3, ReaderRef
  <1> QED
    BY <1>1, <1>2, <1>3 DEF Next

\* The writer with its retries and its buffer keeps the promise of
\* RangeStream: bytes in order from where the consumer asked, to the end of
\* what it asked, or a failed fetch.
THEOREM Refinement == Spec => ImplementsRangeStream
  BY InitRef, Invariance, NextRef, PTL DEF Spec, ImplementsRangeStream, RS!StreamSpec
===============================================================================
