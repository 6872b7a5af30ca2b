------------------------- MODULE RangeResponseProofs -------------------------
(***************************************************************************)
(* Theorems about RangeResponse, for files of every size, heads and tails  *)
(* of every length and every combination of writers and files on disk.     *)
(*                                                                         *)
(* Inv strengthens the invariants with what ties the place in the cached   *)
(* range, and later the one in the proxied range, to what has been sent.   *)
(***************************************************************************)
EXTENDS RangeResponse, TLAPS

Range_ == [lo : Int, hi : Int]
File_ == [lo : Int, hi : Int, last : Int]
SourceRecord == [lo : Int, hi : Int, from : {"memory", "disk", "nothing"}]

\* What is registered are ranges, what is on disk are files.
Stored == /\ mem \in [{"head", "tail"} -> Range_ \cup {None}]
          /\ disk \subseteq File_

\* Nothing is read or sent before a source is opened.
Unread == pc \in {"new", "start"} => src = None /\ sent = 0

\* The download is started for an answer that has been announced.
Started == pc = "start" => code = 206 /\ Length >= 0

\* While the cache is read the next byte of the source is the next one to send.
Aligned == Streaming => /\ src \in SourceRecord /\ src.from # "nothing"
                        /\ src.lo + at = req.start + sent

\* A hit answered from the cache alone: a head without a length, or a tail.
Lone == pc = "direct" => announced = None \/ (WantsTail /\ announced = file.size - req.start)

\* The proxy is asked for the rest, by clients that want one.
Rest == pc \in {"proxy", "relay"} => ~req.compat /\ sent < announced

\* A server that answers the range goes on where the cache stopped.
Joined == pc = "relay" /\ ~whole => pos = req.start + sent

\* Only the proxy's server can answer with the whole file.
WholeLate == whole => pc \in {"relay", "done", "broken"}

Inv == /\ TypeOK /\ Stored /\ Unread /\ Started /\ Aligned /\ Lone /\ Rest /\ Joined /\ WholeLate
       /\ InOrder /\ WithinAnnounced /\ ShortExplained /\ HitHasContent

-------------------------------------------------------------------------------
\* The numbers a request is made of.
LEMMA Numbers ==
  ASSUME file \in Files, req \in Requests(file)
  PROVE  /\ file.size \in Nat \ {0} /\ file.head \in Nat \ {0}
         /\ req.start \in 0..file.size /\ req.end \in 0..file.size
         /\ req.compat \in BOOLEAN /\ req.HEAD \in BOOLEAN
         /\ ResponseEnd \in Int /\ Length \in Int
         /\ Length = ResponseEnd - req.start + 1
         /\ ~req.compat => ResponseEnd = file.size - 1
         /\ WantsHead /\ req.compat => ResponseEnd = file.head - 1
         /\ ~WantsHead => ResponseEnd = file.size - 1
         /\ WantsTail => ~WantsHead
         /\ Tail \in Nat \ {0}
  <1>1. file.size \in Nat \ {0} /\ file.head \in Nat \ {0} /\ Tail \in Nat \ {0}
    BY ResponseAssumption
  <1>2. /\ req.start \in 0..file.size /\ req.end \in 0..file.size
        /\ req.compat \in BOOLEAN /\ req.HEAD \in BOOLEAN
    BY DEF Requests
  <1> QED
    BY <1>1, <1>2 DEF ResponseEnd, Length, WantsTail, WantsHead

\* Whatever a head or a tail may be, it is a range.
LEMMA Spans ==
  ASSUME file \in Files
  PROVE  Heads(file) \subseteq Range_ /\ Tails(file) \subseteq Range_
  <1>1. file.size \in Nat /\ file.head \in Nat /\ OtherHeads \subseteq Nat /\ Tail \in Nat
    BY ResponseAssumption
  <1>2. \A lo, hi \in Int : Span(lo, hi) \in Range_
    BY DEF Span, Range_
  <1>3. ASSUME NEW h \in {file.head} \cup OtherHeads PROVE 0 \in Int /\ h - 1 \in Int
    <2>1. h \in Nat
      BY <1>1
    <2> QED
      BY <2>1
  <1>4. Heads(file) \subseteq Range_
    BY <1>2, <1>3 DEF Heads
  <1>5. \A lo \in {s \in 0..(file.size - 1) : s >= file.head /\ file.size - s < Tail}
                     \cup {file.size - 1 - Tail} : lo \in Int
    BY <1>1
  <1>6. file.size - 1 \in Int
    BY <1>1
  <1>7. Tails(file) \subseteq Range_
    BY <1>2, <1>5, <1>6 DEF Tails
  <1> QED
    BY <1>4, <1>7

\* What a disk may hold are files.
LEMMA Filed ==
  ASSUME file \in Files, NEW d \in Disks(file)
  PROVE  d \subseteq File_
  <1>1. \A r, w \in Range_ : Saved(r, w.hi) \in File_
    BY DEF Saved, Range_, File_
  <1>2. OnlyHeads(file) \subseteq File_
    BY <1>1, Spans DEF OnlyHeads
  <1>3. OnlyTails(file) \subseteq File_
    BY <1>1, Spans DEF OnlyTails
  <1> QED
    BY <1>2, <1>3 DEF Disks

\* Every request begins with nothing sent, before a source is opened.
LEMMA InitInv == Init => Inv
  <1> SUFFICES ASSUME Init PROVE Inv
    OBVIOUS
  <1>1. /\ file \in Files /\ req \in Requests(file)
        /\ pc = "new" /\ code = None /\ announced = None /\ src = None
        /\ at = 0 /\ cut = FALSE /\ pos = 0 /\ whole = FALSE /\ short = FALSE /\ sent = 0
        /\ misplaced = FALSE
    BY DEF Init
  <1>2. TypeOK
    <2>1. sent \in Nat /\ sent <= file.size
      BY <1>1, Numbers
    <2>2. at \in Int /\ pos \in Int
      BY <1>1
    <2> QED
      BY <1>1, <2>1, <2>2 DEF TypeOK
  <1>3. Stored
    <2>1. PICK h \in Heads(file) \cup {None}, t \in Tails(file) \cup {None} :
             mem = [k \in {"head", "tail"} |-> IF k = "head" THEN h ELSE t]
      BY DEF Init
    <2>2. h \in Range_ \cup {None} /\ t \in Range_ \cup {None}
      BY <1>1, Spans
    <2>3. mem \in [{"head", "tail"} -> Range_ \cup {None}]
      BY <2>1, <2>2
    <2>4. disk \subseteq File_
      BY <1>1, Filed DEF Init
    <2> QED
      BY <2>3, <2>4 DEF Stored
  <1>4. Unread /\ Started /\ Aligned /\ Lone /\ Rest /\ Joined /\ WholeLate
    BY <1>1 DEF Unread, Started, Aligned, Lone, Rest, Joined, WholeLate, Streaming
  <1>5. InOrder /\ WithinAnnounced /\ ShortExplained /\ HitHasContent
    BY <1>1 DEF InOrder, WithinAnnounced, ShortExplained, HitHasContent, Ended
  <1> QED
    BY <1>2, <1>3, <1>4, <1>5 DEF Inv

-------------------------------------------------------------------------------
\* Where get_cache_file reads is a range, in memory or on disk, or nothing.
LEMMA SourcesAre ==
  ASSUME TypeOK, Stored, NEW s \in Sources
  PROVE  /\ s \in SourceRecord
         /\ s.from = "nothing" => mem[Key] = None /\ OnDisk = {}
  <1>1. /\ \A r \in Range_ : InMemory(r) \in SourceRecord
        /\ \A r \in File_ : FromDisk(r) \in SourceRecord
    BY DEF InMemory, FromDisk, Range_, File_, SourceRecord
  <1>2. \A r : InMemory(r).from = "memory" /\ FromDisk(r).from = "disk"
    BY DEF InMemory, FromDisk
  <1>3. Nothing \in SourceRecord
    BY DEF Nothing, SourceRecord
  <1>4. Key \in {"head", "tail"}
    BY DEF Key
  <1>5. CASE mem[Key] # None
    <2>1. mem[Key] \in Range_ /\ s = InMemory(mem[Key])
      BY <1>4, <1>5 DEF Stored, Sources
    <2> QED
      BY <1>1, <1>2, <2>1
  <1>6. CASE mem[Key] = None /\ OnDisk # {}
    <2>1. PICK r \in OnDisk : s = FromDisk(r)
      BY <1>6 DEF Sources
    <2>2. r \in File_
      BY <2>1 DEF OnDisk, Stored
    <2> QED
      BY <1>1, <1>2, <2>1, <2>2
  <1>7. CASE mem[Key] = None /\ OnDisk = {}
    BY <1>3, <1>7 DEF Sources
  <1> QED
    BY <1>5, <1>6, <1>7

\* The request does not change, nor does what is stored but for one key.
LEMMA Kept ==
  ASSUME Inv, UNCHANGED cached
  PROVE  /\ Stored' /\ file' = file /\ req' = req
         /\ Length' = Length /\ ResponseEnd' = ResponseEnd
         /\ WantsTail' <=> WantsTail
         /\ mem' = mem
  BY DEF Inv, Stored, cached, Length, ResponseEnd, WantsHead, WantsTail,
         Satisfiable, Ranged

\* A request is over, in whatever way, before anything was read.
LEMMA Closed ==
  ASSUME Inv, pc = "new", pc' = "done", UNCHANGED <<cached, body, proxy, out>>,
         announced' \in Int \cup {None}, code' \in {206, 307, 416, 500},
         code' = 206 => req.HEAD,
         announced' # None => announced' >= 0
  PROVE  Inv'
  <1>1. /\ src = None /\ sent = 0 /\ ~whole /\ ~misplaced
        /\ UNCHANGED <<file, req, mem, disk, src, at, cut, pos, whole, short, sent, misplaced>>
    BY DEF Inv, Unread, WholeLate, InOrder, cached, body, proxy, out
  <1>2. Stored' /\ file' = file /\ req' = req
    BY Kept
  <1>3. TypeOK'
    BY <1>1 DEF Inv, TypeOK
  <1>4. (Unread /\ Started /\ Aligned /\ Lone /\ Rest /\ Joined /\ WholeLate)'
    BY <1>1 DEF Unread, Started, Aligned, Lone, Rest, Joined, WholeLate, Streaming
  <1>5. InOrder' /\ ShortExplained' /\ HitHasContent'
    BY <1>1 DEF InOrder, ShortExplained, HitHasContent, Ended
  <1>6. WithinAnnounced'
    BY <1>1 DEF WithinAnnounced
  <1> QED
    BY <1>2, <1>3, <1>4, <1>5, <1>6 DEF Inv

\* A request is broken off.
LEMMA BrokenOff ==
  ASSUME Inv, pc \in {"start", "direct", "merged", "proxy", "relay"}, pc' = "broken",
         UNCHANGED <<cached, head_, body, proxy, out>>
  PROVE  Inv'
  <1>1. UNCHANGED <<file, req, mem, disk, code, announced, src, at, cut, pos,
                    whole, short, sent, misplaced>>
    BY DEF cached, head_, body, proxy, out
  <1>2. Stored' /\ (WantsTail' <=> WantsTail)
    BY Kept
  <1>3. TypeOK'
    BY <1>1 DEF Inv, TypeOK
  <1>4. (Unread /\ Started /\ Aligned /\ Lone /\ Rest /\ Joined /\ WholeLate)'
    BY <1>1 DEF Unread, Started, Aligned, Lone, Rest, Joined, WholeLate, Streaming
  <1>5. InOrder' /\ WithinAnnounced' /\ ShortExplained'
    BY <1>1 DEF Inv, InOrder, WithinAnnounced, ShortExplained, Ended
  <1>6. HitHasContent'
    BY <1>1, <1>2 DEF Inv, HitHasContent
  <1> QED
    BY <1>2, <1>3, <1>4, <1>5, <1>6 DEF Inv

\* Reading begins at the byte that was asked for.
LEMMA Opened ==
  ASSUME Inv, pc \in {"new", "start"}, NEW s \in SourceRecord,
         NEW next \in {"direct", "merged"}, OpenSource(s, next),
         UNCHANGED <<file, req, cut, pos, whole, short, sent, misplaced>>,
         Stored',
         code' = 206, announced' \in Int \cup {None},
         next = "direct" => announced' = None \/ (WantsTail /\ announced' = file.size - req.start),
         next = "merged" => announced' = Length,
         announced' # None => announced' >= 0,
         s.from = "nothing" => WantsTail /\ mem'["head"] # None
  PROVE  Inv'
  <1>1. src = None /\ sent = 0 /\ ~whole /\ ~misplaced
    BY DEF Inv, Unread, WholeLate, InOrder
  <1>2. /\ file.size \in Nat /\ req.start \in Int /\ s.lo \in Int
    BY Numbers DEF Inv, TypeOK, SourceRecord
  <1>3. /\ src' = s /\ at' = req.start - s.lo
        /\ pc' \in {next, "broken"} /\ (s.from = "nothing" => pc' = "broken")
    BY DEF OpenSource, Index
  <1>4. at' \in Int /\ s.lo + at' = req.start
    BY <1>2, <1>3
  <1>5. /\ Length' = Length
        /\ WantsTail' <=> WantsTail
    BY DEF Length, ResponseEnd, WantsHead, WantsTail, Satisfiable, Ranged
  <1>6. TypeOK'
    BY <1>1, <1>2, <1>3, <1>4, <1>5 DEF Inv, TypeOK
  <1>7. Unread' /\ Started' /\ Rest' /\ Joined' /\ WholeLate'
    BY <1>1, <1>3 DEF Unread, Started, Rest, Joined, WholeLate
  <1>8. Aligned'
    BY <1>1, <1>2, <1>3, <1>4 DEF Aligned, Streaming
  <1>9. Lone'
    BY <1>3, <1>5 DEF Lone
  <1>10. InOrder' /\ WithinAnnounced' /\ ShortExplained'
    BY <1>1, <1>3 DEF InOrder, WithinAnnounced, ShortExplained, Ended
  <1>11. HitHasContent'
    BY <1>1, <1>3, <1>5 DEF HitHasContent
  <1> QED
    BY <1>6, <1>7, <1>8, <1>9, <1>10, <1>11 DEF Inv

LEMMA RouteInv ==
  ASSUME Inv, Route
  PROVE  Inv'
  <1>0. /\ TypeOK /\ Stored /\ None \notin Int
        /\ file.size \in Nat /\ req.start \in Nat /\ Length \in Int
    BY ResponseAssumption, Numbers DEF Inv, TypeOK
  <1>1. CASE Redirect
    <2>1. PICK status \in {307, 500} : Answer(status, None)
      BY <1>1 DEF Redirect
    <2>2. code' = status /\ announced' = None
      BY <2>1 DEF Answer
    <2> QED
      BY <1>1, <2>2, Closed DEF Redirect
  <1>2. CASE Refuse
    <2>1. announced' = None /\ code' \in {500, 416}
      BY <1>2 DEF Refuse, Answer
    <2> QED
      BY <1>2, <2>1, Closed DEF Refuse
  <1>3. WantsHead \/ WantsTail => req.start < file.size
    BY DEF WantsHead, WantsTail, Satisfiable
  <1>4. CASE AnswerHead
    <2>1. pc' = "done" /\ UNCHANGED <<cached, body, proxy, out>> /\ pc = "new"
      BY <1>4 DEF AnswerHead
    <2>2. announced' = Length /\ code' = 206 /\ req.HEAD
      BY <1>4 DEF AnswerHead, Answer
    <2>3. Length >= 0
      BY <1>0, <1>3, <1>4, Numbers DEF AnswerHead, Merges, WantsHead, TypeOK
    <2> QED
      BY <1>0, <2>1, <2>2, <2>3, Closed
  <1>5. CASE Direct
    <2>1. PICK s \in Sources : OpenSource(s, "direct")
      BY <1>5 DEF Direct
    <2>2. /\ s \in SourceRecord
          /\ s.from = "nothing" => mem[Key] = None /\ OnDisk = {}
      BY <1>0, SourcesAre
    <2>3. /\ pc = "new" /\ UNCHANGED <<file, req, mem, cut, pos, whole, short, sent, misplaced>>
          /\ CacheExist /\ Stored'
      BY <1>5, Kept DEF Direct, DirectHead, DirectTail, cached, proxy, out
    <2>4. /\ code' = 206
          /\ announced' = None \/ (WantsTail /\ announced' = file.size - req.start)
      BY <1>5 DEF Direct, DirectHead, DirectTail, Answer
    <2>5. announced' \in Int \cup {None} /\ (announced' # None => announced' >= 0)
      BY <1>0, <1>3, <2>4
    <2>6. s.from = "nothing" => WantsTail /\ mem'["head"] # None
      BY <1>5, <2>2, <2>3 DEF Direct, DirectHead, DirectTail, CacheExist, Key
    <2> QED
      BY <2>1, <2>2, <2>3, <2>4, <2>5, <2>6, Opened
  <1>6. CASE Merge
    <2>1. PICK s \in Sources : IF CacheExist /\ s # Nothing
                               THEN OpenSource(s, "merged")
                               ELSE pc' = "start" /\ UNCHANGED <<src, at>>
      BY <1>6 DEF Merge
    <2>2. /\ pc = "new" /\ UNCHANGED <<file, req, mem, cut, pos, whole, short, sent, misplaced>>
          /\ Stored' /\ code' = 206 /\ announced' = Length
          /\ Merges
      BY <1>6, Kept DEF Merge, Answer, cached, proxy, out
    <2>3. Length >= 0
      BY <1>0, <1>3, <2>2, Numbers DEF Merges, WantsHead, TypeOK
    <2>4. CASE OpenSource(s, "merged") /\ CacheExist /\ s # Nothing
      <3>1. s \in SourceRecord
        BY <1>0, SourcesAre
      <3>2. s.from # "nothing"
        BY <2>4 DEF Sources, InMemory, FromDisk
      <3> QED
        BY <1>0, <2>2, <2>3, <2>4, <3>1, <3>2, Opened
    <2>5. CASE pc' = "start" /\ UNCHANGED <<src, at>>
      <3>1. src = None /\ sent = 0 /\ ~whole /\ ~misplaced
        BY <2>2 DEF Inv, Unread, WholeLate, InOrder
      <3>2. Length' = Length
        BY <2>2 DEF Length, ResponseEnd, WantsHead, Satisfiable, Ranged
      <3>3. TypeOK'
        BY <1>0, <2>2, <2>5, <3>1, <3>2 DEF TypeOK
      <3>4. (Unread /\ Started /\ Aligned /\ Lone /\ Rest /\ Joined /\ WholeLate)'
        BY <2>2, <2>3, <2>5, <3>1, <3>2
           DEF Unread, Started, Aligned, Lone, Rest, Joined, WholeLate, Streaming
      <3>5. (InOrder /\ WithinAnnounced /\ ShortExplained /\ HitHasContent)'
        <4>1. WithinAnnounced'
          BY <1>0, <2>2, <2>3, <3>1 DEF WithinAnnounced
        <4>2. (InOrder /\ ShortExplained /\ HitHasContent)'
          BY <2>2, <2>5, <3>1 DEF InOrder, ShortExplained, HitHasContent, Ended
        <4> QED
          BY <4>1, <4>2
      <3> QED
        BY <2>2, <3>3, <3>4, <3>5 DEF Inv
    <2> QED
      BY <2>1, <2>4, <2>5
  <1> QED
    BY <1>1, <1>2, <1>4, <1>5, <1>6 DEF Route

-------------------------------------------------------------------------------
LEMMA StartWriteInv ==
  ASSUME Inv, StartWrite
  PROVE  Inv'
  <1>1. PICK r \in Written : /\ mem' = [mem EXCEPT ![Key] = r]
                             /\ OpenSource(InMemory(r), "merged")
    BY DEF StartWrite
  <1>2. /\ pc = "start"
        /\ UNCHANGED <<file, req, disk, code, announced, cut, pos, whole, short, sent, misplaced>>
    BY DEF StartWrite, head_, proxy, out
  <1>3. /\ TypeOK /\ Stored /\ announced = Length /\ Key \in {"head", "tail"}
    BY <1>2 DEF Inv, TypeOK, Key
  <1>4. r \in Range_
    BY <1>3, Spans DEF Written, Stored, TypeOK
  <1>5. /\ InMemory(r) \in SourceRecord /\ InMemory(r).from # "nothing"
    BY <1>4 DEF InMemory, Range_, SourceRecord
  <1>6. Stored'
    BY <1>1, <1>2, <1>3, <1>4 DEF Stored
  <1>7. Length \in Int
    BY <1>3, Numbers DEF TypeOK
  <1>8. code = 206 /\ Length >= 0
    BY <1>2 DEF Inv, Started
  <1> QED
    BY <1>1, <1>2, <1>3, <1>5, <1>6, <1>7, <1>8, Opened

\* A chunk of the cache comes from the place the response has got to, and ends
\* within the source and the file.
LEMMA CacheChunkInv ==
  ASSUME Inv, CacheChunk
  PROVE  Inv'
  <1>1. PICK n \in 1..(Limit - at) : Send(n, src.lo + at) /\ at' = at + n
    BY DEF CacheChunk
  <1>2. /\ Streaming /\ Exists(file, src)
        /\ UNCHANGED <<file, req, mem, disk, pc, code, announced, src, cut, pos, whole, short>>
    BY DEF CacheChunk, cached, head_, proxy
  <1>3. /\ TypeOK /\ src \in SourceRecord /\ src.from # "nothing"
        /\ src.lo + at = req.start + sent
    BY <1>2 DEF Inv, Aligned
  <1>4. /\ file.size \in Nat /\ file.head \in Nat
        /\ req.start \in Nat /\ req.end \in Nat /\ at \in Int /\ sent \in Nat
        /\ src.lo \in Int /\ src.hi \in Int
    BY <1>3, Numbers DEF TypeOK, SourceRecord
  <1>5. src.hi < file.size
    BY <1>2 DEF Exists
  <1>6. Limit <= src.hi - src.lo + 1 /\ Limit \in Int
    BY <1>4 DEF Limit, Available, Lesser
  <1>7. n \in Int /\ n >= 1 /\ n <= Limit - at
    BY <1>4, <1>6
  <1>8. /\ sent' = sent + n /\ at' = at + n
        /\ misplaced' = misplaced
    <2>1. /\ sent' = sent + n /\ at' = at + n
          /\ misplaced' = (misplaced \/ src.lo + at # req.start + sent)
      BY <1>1 DEF Send
    <2>2. misplaced \in BOOLEAN
      BY <1>3 DEF TypeOK
    <2>3. (misplaced \/ src.lo + at # req.start + sent) = misplaced
      BY <1>3, <2>2
    <2> QED
      BY <2>1, <2>3
  <1>9. /\ src.lo + at' = req.start + sent' /\ at' \in Int /\ sent' \in Nat
        /\ req.start + sent' <= src.hi + 1
    BY <1>3, <1>4, <1>6, <1>7, <1>8
  <1>10. Stored' /\ Length' = Length /\ (WantsTail' <=> WantsTail)
    BY <1>2, Kept DEF cached
  <1>11. TypeOK'
    <2>1. sent' <= file.size
      BY <1>4, <1>5, <1>9
    <2> QED
      BY <1>2, <1>3, <1>8, <1>9, <1>10, <2>1 DEF TypeOK
  <1>12. Unread' /\ Started' /\ Lone' /\ Rest' /\ Joined' /\ WholeLate'
    BY <1>2, <1>10 DEF Inv, Unread, Started, Lone, Rest, Joined, WholeLate, Streaming
  <1>13. Aligned'
    BY <1>2, <1>3, <1>9 DEF Aligned, Streaming
  <1>14. InOrder'
    BY <1>2, <1>8 DEF Inv, InOrder
  <1>15. WithinAnnounced'
    <2> SUFFICES ASSUME announced # None, sent' > announced
                 PROVE  req.compat /\ src.hi >= file.head
      BY <1>2 DEF WithinAnnounced
    <2>1. announced = Length \/ (WantsTail /\ announced = file.size - req.start)
      BY <1>2 DEF Inv, TypeOK, Lone, Streaming
    <2>2. /\ Length = ResponseEnd - req.start + 1
          /\ ~req.compat => ResponseEnd = file.size - 1
          /\ WantsHead /\ req.compat => ResponseEnd = file.head - 1
          /\ ~WantsHead => ResponseEnd = file.size - 1
          /\ req.compat \in BOOLEAN
      BY <1>3, Numbers DEF TypeOK
    <2>3. req.start + sent' <= file.size
      BY <1>4, <1>5, <1>9
    <2>4. announced = Length
      BY <1>4, <1>9, <2>1, <2>3
    <2>5. req.compat /\ WantsHead
      BY <1>4, <1>9, <2>2, <2>3, <2>4
    <2> QED
      BY <1>4, <1>9, <2>2, <2>4, <2>5
  <1>16. ShortExplained' /\ HitHasContent'
    BY <1>2, <1>3 DEF ShortExplained, HitHasContent, Ended, Streaming
  <1> QED
    BY <1>10, <1>11, <1>12, <1>13, <1>14, <1>15, <1>16 DEF Inv

LEMMA CacheCutInv ==
  ASSUME Inv, CacheCut
  PROVE  Inv'
  <1>1. /\ UNCHANGED <<file, req, mem, disk, pc, code, announced, src, at, pos,
                       whole, short, sent, misplaced>>
        /\ cut' = TRUE /\ Streaming
    BY DEF CacheCut, cached, head_, proxy, out
  <1>2. Stored' /\ Length' = Length /\ (WantsTail' <=> WantsTail)
    BY <1>1, Kept DEF cached
  <1>3. TypeOK'
    BY <1>1, <1>2 DEF Inv, TypeOK
  <1>4. (Unread /\ Started /\ Aligned /\ Lone /\ Rest /\ Joined /\ WholeLate)'
    BY <1>1, <1>2 DEF Inv, Unread, Started, Aligned, Lone, Rest, Joined, WholeLate, Streaming
  <1>5. (InOrder /\ WithinAnnounced /\ ShortExplained /\ HitHasContent)'
    BY <1>1, <1>2 DEF Inv, InOrder, WithinAnnounced, ShortExplained, HitHasContent,
                      Ended, Streaming
  <1> QED
    BY <1>2, <1>3, <1>4, <1>5 DEF Inv

\* Where the cache is over, what is missing of an unbounded range lies after
\* the end of the source.
LEMMA OverShort ==
  ASSUME Inv, Streaming, CacheOver, ~cut, req.form # "closed",
         req.start + sent <= ResponseEnd
  PROVE  src.hi < ResponseEnd
  <1>1. /\ TypeOK /\ src \in SourceRecord /\ src.lo + at = req.start + sent
    BY DEF Inv, Aligned
  <1>2. /\ req.start \in Nat /\ at \in Int /\ sent \in Nat
        /\ src.lo \in Int /\ src.hi \in Int /\ ResponseEnd \in Int
    BY <1>1, Numbers DEF TypeOK, SourceRecord
  <1>3. at >= src.hi - src.lo + 1
    BY DEF CacheOver, Limit, Available
  <1> QED
    BY <1>1, <1>2, <1>3

LEMMA EndsInv ==
  ASSUME Inv, DirectEnds \/ CacheEnds
  PROVE  Inv'
  <1>1. /\ UNCHANGED <<file, req, mem, disk, code, announced, src, at, cut, pos,
                       whole, short, sent, misplaced>>
        /\ Streaming /\ CacheOver /\ pc' \in {"done", "proxy"}
        /\ DirectEnds => pc = "direct" /\ pc' = "done"
        /\ CacheEnds => pc = "merged" /\ (pc' = "done" => Enough) /\ (pc' = "proxy" => ~Enough)
    BY DEF DirectEnds, CacheEnds, cached, head_, body, proxy, out, Streaming
  <1>2. /\ Stored' /\ Length' = Length /\ ResponseEnd' = ResponseEnd
        /\ (WantsTail' <=> WantsTail)
    BY <1>1, Kept DEF cached
  <1>3. TypeOK
    BY DEF Inv
  <1>4. /\ req.start \in Nat /\ sent \in Nat /\ req.compat \in BOOLEAN /\ file.size \in Nat
        /\ ResponseEnd \in Int /\ Length = ResponseEnd - req.start + 1
        /\ WantsTail => ResponseEnd = file.size - 1
    BY <1>3, Numbers DEF TypeOK
  <1>5. pc = "merged" => announced = Length
    BY <1>3 DEF TypeOK
  <1>6. TypeOK'
    BY <1>1, <1>2, <1>3 DEF TypeOK, Streaming, DirectEnds, CacheEnds
  <1>7. Rest'
    BY <1>1, <1>4, <1>5 DEF Rest, Enough
  <1>8. Unread' /\ Started' /\ Aligned' /\ Lone' /\ Joined' /\ WholeLate'
    BY <1>1 DEF Inv, Unread, Started, Aligned, Lone, Joined, WholeLate, Streaming
  <1>9. InOrder' /\ WithinAnnounced'
    BY <1>1 DEF Inv, InOrder, WithinAnnounced
  <1>10. HitHasContent'
    BY <1>1 DEF Inv, Aligned, HitHasContent
  <1>11. ShortExplained'
    <2> SUFFICES ASSUME pc' = "done", announced # None, sent < announced
                 PROVE  /\ WantsTail \/ req.compat
                        /\ cut \/ req.form = "closed" \/ src.hi < ResponseEnd
      BY <1>1, <1>2 DEF ShortExplained, Ended
    <2>1. CASE DirectEnds
      <3>1. WantsTail /\ announced = file.size - req.start
        BY <1>1, <2>1 DEF Inv, Lone
      <3>2. req.start + sent <= ResponseEnd
        BY <1>4, <3>1
      <3> QED
        BY <1>1, <3>1, <3>2, OverShort DEF Inv, TypeOK
    <2>2. CASE CacheEnds
      <3>1. req.compat
        BY <1>1, <1>4, <1>5, <2>2 DEF Enough
      <3>2. req.start + sent <= ResponseEnd
        BY <1>1, <1>4, <1>5, <2>2
      <3> QED
        BY <1>1, <3>1, <3>2, OverShort DEF Inv, TypeOK
    <2> QED
      BY <2>1, <2>2
  <1> QED
    BY <1>2, <1>6, <1>7, <1>8, <1>9, <1>10, <1>11 DEF Inv

-------------------------------------------------------------------------------
LEMMA ProxyOpensInv ==
  ASSUME Inv, ProxyOpens
  PROVE  Inv'
  <1>1. /\ UNCHANGED <<file, req, mem, disk, code, announced, src, at, cut, short, sent, misplaced>>
        /\ pc = "proxy" /\ pc' = "relay"
        /\ \/ pos' = req.start + sent /\ whole' = FALSE
           \/ pos' = 0 /\ whole' = TRUE
    BY DEF ProxyOpens, ReverseStart, cached, head_, body, out
  <1>2. Stored' /\ Length' = Length /\ (WantsTail' <=> WantsTail)
    BY <1>1, Kept DEF cached
  <1>3. TypeOK /\ ~misplaced
    BY <1>1 DEF Inv, WholeLate, InOrder
  <1>4. req.start \in Int /\ sent \in Int
    BY <1>3, Numbers DEF TypeOK
  <1>5. TypeOK'
    <2>1. pos' \in Int
      BY <1>1, <1>4
    <2>2. whole' \in BOOLEAN
      BY <1>1
    <2> QED
      BY <1>1, <1>2, <1>3, <2>1, <2>2 DEF TypeOK
  <1>6. (Unread /\ Started /\ Aligned /\ Lone /\ Rest /\ Joined /\ WholeLate)'
    BY <1>1 DEF Inv, Unread, Started, Aligned, Lone, Rest, Joined, WholeLate, Streaming
  <1>7. (InOrder /\ WithinAnnounced /\ ShortExplained)'
    BY <1>1, <1>3 DEF Inv, InOrder, WithinAnnounced, ShortExplained, Ended
  <1>8. HitHasContent'
    BY <1>1 DEF Inv, HitHasContent
  <1> QED
    BY <1>2, <1>5, <1>6, <1>7, <1>8 DEF Inv

\* A proxied chunk is cut to what was announced; only the last one can be.
LEMMA RelayInv ==
  ASSUME Inv, Relay
  PROVE  Inv'
  <1>1. PICK n \in 1..Upstream : Send(Truncated(n), pos) /\ pos' = pos + n
    BY DEF Relay
  <1>2. /\ UNCHANGED <<file, req, mem, disk, code, announced, src, at, cut, whole, short>>
        /\ pc = "relay" /\ pc' = IF sent' >= announced THEN "done" ELSE "relay"
    BY DEF Relay, cached, head_, body
  <1>3. /\ Stored' /\ Length' = Length /\ (WantsTail' <=> WantsTail)
    BY <1>2, Kept DEF cached
  <1>4. /\ TypeOK /\ announced = Length /\ ~req.compat /\ sent < announced
    BY <1>2 DEF Inv, TypeOK, Rest
  <1>5. /\ file.size \in Nat /\ req.start \in Nat /\ pos \in Int /\ sent \in Nat
        /\ announced \in Int /\ announced = file.size - req.start
    BY <1>4, Numbers DEF TypeOK
  <1>6. n \in Int /\ n >= 1
    <2>1. Upstream \in Int
      BY <1>4, <1>5, Numbers DEF Upstream, TypeOK
    <2> QED
      BY <2>1
  <1>7. /\ sent' = sent + Truncated(n)
        /\ Truncated(n) \in Int /\ Truncated(n) >= 1 /\ Truncated(n) <= announced - sent
        /\ Truncated(n) = n \/ Truncated(n) = announced - sent
    BY <1>1, <1>4, <1>5, <1>6 DEF Send, Truncated, Lesser
  <1>8. sent' \in Nat /\ sent' <= announced /\ pos' \in Int
    BY <1>1, <1>5, <1>6, <1>7
  <1>9. misplaced' = (misplaced \/ pos # req.start + sent)
    BY <1>1 DEF Send
  <1>10. misplaced' => whole
    BY <1>2, <1>9 DEF Inv, InOrder, Joined
  <1>11. TypeOK'
    <2>1. sent' <= file.size
      BY <1>5, <1>8
    <2>2. misplaced' \in BOOLEAN
      BY <1>9
    <2> QED
      BY <1>2, <1>3, <1>4, <1>8, <2>1, <2>2 DEF TypeOK
  <1>12. Rest'
    BY <1>2, <1>4, <1>5, <1>8 DEF Rest
  <1>13. Joined'
    <2> SUFFICES ASSUME pc' = "relay", ~whole PROVE pos' = req.start + sent'
      BY <1>2 DEF Joined
    <2>1. sent' < announced
      BY <1>2, <1>5, <1>8
    <2>2. Truncated(n) = n
      BY <1>5, <1>7, <2>1
    <2>3. pos = req.start + sent
      BY <1>2 DEF Inv, Joined
    <2> QED
      BY <1>1, <1>5, <1>6, <1>7, <2>2, <2>3
  <1>14. Unread' /\ Started' /\ Aligned' /\ Lone' /\ WholeLate'
    BY <1>2 DEF Inv, Unread, Started, Aligned, Lone, WholeLate, Streaming
  <1>15. InOrder'
    BY <1>2, <1>10 DEF InOrder
  <1>16. WithinAnnounced'
    BY <1>2, <1>5, <1>8 DEF WithinAnnounced
  <1>17. ShortExplained'
    BY <1>2, <1>5, <1>8 DEF ShortExplained, Ended
  <1>18. HitHasContent'
    BY <1>2 DEF Inv, HitHasContent
  <1> QED
    BY <1>3, <1>11, <1>12, <1>13, <1>14, <1>15, <1>16, <1>17, <1>18 DEF Inv

\* An answer that ends with the body of the server is noted as such.
LEMMA ProxyEndsInv ==
  ASSUME Inv, ProxyEnds
  PROVE  Inv'
  <1>1. /\ UNCHANGED <<file, req, mem, disk, code, announced, src, at, cut, pos,
                       whole, sent, misplaced>>
        /\ pc = "relay" /\ pc' = "done" /\ short' = TRUE
    BY DEF ProxyEnds, cached, head_, body, out
  <1>2. Stored' /\ (WantsTail' <=> WantsTail)
    BY <1>1, Kept DEF cached
  <1>3. TypeOK'
    BY <1>1 DEF Inv, TypeOK
  <1>4. (Unread /\ Started /\ Aligned /\ Lone /\ Rest /\ Joined /\ WholeLate)'
    BY <1>1 DEF Inv, Unread, Started, Aligned, Lone, Rest, Joined, WholeLate, Streaming
  <1>5. InOrder' /\ WithinAnnounced' /\ ShortExplained'
    BY <1>1 DEF Inv, InOrder, WithinAnnounced, ShortExplained
  <1>6. HitHasContent'
    BY <1>1 DEF Inv, HitHasContent
  <1> QED
    BY <1>2, <1>3, <1>4, <1>5, <1>6 DEF Inv

-------------------------------------------------------------------------------
\* No step breaks the strengthened invariant.
LEMMA NextInv == Inv /\ [Next]_vars => Inv'
  <1> SUFFICES ASSUME Inv, [Next]_vars PROVE Inv'
    OBVIOUS
  <1>1. CASE UNCHANGED vars
    <2>1. UNCHANGED <<file, req, mem, disk, pc, code, announced, src, at, cut, pos,
                      whole, short, sent, misplaced>>
      BY <1>1 DEF vars, cached, head_, body, proxy, out
    <2> QED
      BY <2>1 DEF Inv, TypeOK, Stored, Unread, Aligned, Lone, Rest, Joined, WholeLate,
         Started, InOrder, WithinAnnounced, ShortExplained, HitHasContent, Ended, Streaming,
         Length, ResponseEnd, WantsHead, WantsTail, Satisfiable, Ranged
  <1>2. CASE Route
    BY <1>2, RouteInv
  <1>3. CASE StartWrite \/ CacheChunk \/ CacheCut \/ DirectEnds \/ CacheEnds
    BY <1>3, StartWriteInv, CacheChunkInv, CacheCutInv, EndsInv
  <1>4. CASE StartFails \/ CacheRaises \/ ProxyFails
    BY <1>4, BrokenOff DEF StartFails, CacheRaises, ProxyFails, Streaming
  <1>5. CASE ProxyOpens \/ Relay \/ ProxyEnds
    BY <1>5, ProxyOpensInv, RelayInv, ProxyEndsInv
  <1> QED
    BY <1>1, <1>2, <1>3, <1>4, <1>5 DEF Next, Cache, Proxy

\* The strengthened invariant holds in every reachable state.
THEOREM Invariance == Spec => []Inv
  BY InitInv, NextInv, PTL DEF Spec

\* The types; no more is sent than the file has, whatever server and cache send.
THEOREM TypeCorrect == Spec => []TypeOK
  <1>1. Inv => TypeOK
    BY DEF Inv
  <1> QED
    BY <1>1, Invariance, PTL

\* merged_stream: the cached part, its shift and the join with the proxied part
\* put every byte in its place, unless a server ignored the range.
THEOREM BytesInOrder == Spec => []InOrder
  <1>1. Inv => InOrder
    BY DEF Inv
  <1> QED
    BY <1>1, Invariance, PTL

\* Content-Length is exceeded only by a cached range past the head that a
\* high-compatibility client is read.
THEOREM NotTooLong == Spec => []WithinAnnounced
  <1>1. Inv => WithinAnnounced
    BY DEF Inv
  <1> QED
    BY <1>1, Invariance, PTL

\* An answer that ends short of its Content-Length ended with the body of the
\* link's server, or it came from the cache alone, and its stream, its range or
\* its request ended early: neither the shift, nor the join, nor the truncation
\* loses a byte.
THEOREM ShortHasItsReason == Spec => []ShortExplained
  <1>1. Inv => ShortExplained
    BY DEF Inv
  <1> QED
    BY <1>1, Invariance, PTL

\* Only a request of the tail can hit without there being content.
THEOREM HitsHaveContent == Spec => []HitHasContent
  <1>1. Inv => HitHasContent
    BY DEF Inv
  <1> QED
    BY <1>1, Invariance, PTL
===============================================================================
