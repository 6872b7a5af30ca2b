---------------------------- MODULE RangeResponse ----------------------------
(***************************************************************************)
(* The answer to one request of routes/redirect.py: which bytes of the     *)
(* file it announces, where it takes them from and in what order it sends  *)
(* them, through get_cache_file and merged_stream, for whatever writers    *)
(* are registered and whatever files are on disk.                          *)
(*                                                                         *)
(* Bytes are positions; a chunk is a run of them.  What happens among the  *)
(* requests - who downloads, who waits, what hangs - is CacheSystem's and  *)
(* ChunksWriter's: here a writer that can deliver does so or fails.        *)
(***************************************************************************)
EXTENDS Integers

CONSTANTS Files,       \* the files, [size, head]: head is cache_file_size
          OtherHeads,  \* head sizes of previous episodes
          Tail,        \* INITIAL_CACHE_SIZE_OF_TAIL
          None         \* Python's

ASSUME ResponseAssumption ==
    /\ Files \subseteq [size : Nat \ {0}, head : Nat \ {0}]
    /\ OtherHeads \subseteq Nat \ {0}
    /\ Tail \in Nat \ {0}
    /\ None \notin Int /\ None \notin [lo : Int, hi : Int]

VARIABLES file,       \* file_info
          req,        \* the request
          mem,        \* mem[k]: the range of the writer under k, or None
          disk,       \* the files on disk, at most a head and a tail
          pc,         \* where the request is
          code,       \* the status sent, None before
          announced,  \* Content-Length, or None
          src,        \* the cache read from, or None
          at,         \* the index of the next byte in src
          cut,        \* the cache stream ended early without raising
          pos,        \* the position of the next byte of the reverse proxy
          whole,      \* its server answers 200, from the first byte on
          short,      \* its server ended the body early, without an error
          sent,       \* bytes_sent, also over the proxied part
          misplaced   \* a byte was sent that was not the next one

cached == <<file, req, mem, disk>>
head_  == <<code, announced>>
body   == <<src, at, cut>>
proxy  == <<pos, whole, short>>
out    == <<sent, misplaced>>
vars   == <<cached, pc, head_, body, proxy, out>>

Lesser(a, b) == IF a <= b THEN a ELSE b

-------------------------------------------------------------------------------
(* What can be cached and what can be asked.                               *)

Span(lo, hi) == [lo |-> lo, hi |-> hi]

\* The file's own head, or one as long as that of the episode before it.
Heads(f) == {Span(0, h - 1) : h \in {f.head} \cup OtherHeads}

\* A tail from where some request began, or the one of _warm_up_tail_cache.
Tails(f) == {Span(lo, f.size - 1) :
              lo \in {s \in 0..(f.size - 1) : s >= f.head /\ f.size - s < Tail}
                     \cup {f.size - 1 - Tail}}

\* A writer for more than the file fails.
Exists(f, r) == 0 <= r.lo /\ r.hi < f.size

\* A file on disk is named lo to hi, after the request that saved it, and holds
\* the bytes up to last: a head may come from a writer of a shorter one, begun
\* for the episode before (see FileStorage); its name may pass the file's end.
Saved(name, last) == [lo |-> name.lo, hi |-> name.hi, last |-> last]
OnlyHeads(f) == {Saved(r, w.hi) : r, w \in Heads(f)}
OnlyTails(f) == {Saved(r, r.hi) : r \in Tails(f)}
Held(s) == Span(s.lo, s.last)

\* What one save finds covered it removes, and it is skipped if it is covered.
Disks(f) == {d \in SUBSET (OnlyHeads(f) \cup OnlyTails(f)) :
               /\ \A s \in d : s.last <= s.hi /\ Exists(f, Held(s))
               /\ \A r, s \in d : r.lo <= s.lo /\ s.hi <= r.hi => r = s}

\* No Range header; one that int() refuses ("bytes=-500"); "bytes=s-";
\* "bytes=s-e".
Requests(f) ==
    {r \in [form : {"none", "suffix", "open", "closed"},
            start : 0..f.size, end : 0..f.size, compat : BOOLEAN, HEAD : BOOLEAN] :
        /\ r.form \in {"none", "suffix"} => r.start = 0
        /\ IF r.form = "closed" THEN r.start <= r.end ELSE r.end = 0}

Init == /\ file \in Files
        /\ req \in Requests(file)
        /\ \E h \in Heads(file) \cup {None}, t \in Tails(file) \cup {None} :
              mem = [k \in {"head", "tail"} |-> IF k = "head" THEN h ELSE t]
        /\ disk \in Disks(file)
        /\ pc = "new"
        /\ code = None /\ announced = None
        /\ src = None /\ at = 0 /\ cut = FALSE
        /\ pos = 0 /\ whole = FALSE /\ short = FALSE
        /\ sent = 0 /\ misplaced = FALSE

-------------------------------------------------------------------------------
(* The route.                                                              *)

Ranged == req.form \in {"open", "closed"}
Satisfiable == Ranged /\ req.start < file.size

\* Cache conditions 1 and 2, and the sub key that goes with them.
WantsHead == Satisfiable /\ req.start < file.head
WantsTail == Satisfiable /\ req.start >= file.head /\ file.size - req.start < Tail
Key == IF WantsHead THEN "head" ELSE "tail"

\* FULLY_CACHED: not (end_byte is None or end_byte > cache_file_size).
FullyCached == req.form = "closed" /\ req.end <= file.head

\* The file on disk whose name has the first byte asked for.
OnDisk == {r \in disk : r.lo <= req.start /\ req.start <= r.hi}

\* Mutant: a writer of the other kind is a hit as well.
AnyWriter == mem["head"] # None \/ mem["tail"] # None \/ OnDisk # {}

\* get_cache_status, which looks for a writer of the head, whatever is asked.
CacheExist == mem["head"] # None \/ OnDisk # {}

\* Where get_cache_file reads: [lo, hi, from], or nothing at all.  A file is
\* read to its last byte, which may come before the first that was asked for.
InMemory(r) == [lo |-> r.lo, hi |-> r.hi, from |-> "memory"]
FromDisk(r) == [lo |-> r.lo, hi |-> r.last, from |-> "disk"]
Nothing == [lo |-> 0, hi |-> 0, from |-> "nothing"]

Sources == IF mem[Key] # None THEN {InMemory(mem[Key])}
           ELSE IF OnDisk # {} THEN {FromDisk(r) : r \in OnDisk}
           ELSE {Nothing}

\* Mutant: the head is read from its first byte on disk as well.
Unshifted(s) == IF s.from = "disk" THEN req.start ELSE req.start - s.lo

\* The index of the first byte asked for.
Index(s) == req.start - s.lo

\* Reading begins; a tail that begins later than the request is refused.
OpenSource(s, next) ==
    /\ src' = s /\ at' = Index(s)
    /\ pc' = IF s.from = "nothing" \/ req.start < s.lo THEN "broken" ELSE next

Answer(status, length) == code' = status /\ announced' = length

\* response_end, and the length that is announced with it.
ResponseEnd == IF WantsHead /\ req.compat THEN file.head - 1 ELSE file.size - 1
Length == ResponseEnd - req.start + 1

\* temporary_redirect: no Range header, or neither head nor tail.
Redirect == /\ pc = "new"
            /\ req.form = "none" \/ (Satisfiable /\ ~WantsHead /\ ~WantsTail)
            /\ \E status \in {307, 500} : Answer(status, None)
            /\ pc' = "done"
            /\ UNCHANGED <<cached, body, proxy, out>>

\* An unreadable Range header, or a start past the end.
Refuse == /\ pc = "new"
          /\ \/ req.form = "suffix" /\ Answer(500, None)
             \/ Ranged /\ ~Satisfiable /\ Answer(416, None)
          /\ pc' = "done"
          /\ UNCHANGED <<cached, body, proxy, out>>

\* A hit that is answered from the cache alone; the head's without a length.
\* On a HEAD the generator runs as well, and the server drops what it yields.
DirectHead == /\ WantsHead /\ FullyCached /\ CacheExist
              /\ Answer(206, None)
DirectTail == /\ WantsTail /\ CacheExist
              /\ Answer(206, file.size - req.start)
Direct == /\ pc = "new"
          /\ DirectHead \/ DirectTail
          /\ \E s \in Sources : OpenSource(s, "direct")
          /\ UNCHANGED <<cached, cut, proxy, out>>

Merges == \/ WantsHead /\ ~(FullyCached /\ CacheExist)
          \/ WantsTail /\ ~CacheExist

\* HEAD is told what a GET would be.
AnswerHead == /\ pc = "new" /\ Merges /\ req.HEAD
              /\ Answer(206, Length)
              /\ pc' = "done"
              /\ UNCHANGED <<cached, body, proxy, out>>

\* stream_handler, on a hit (the opening of a file that goes on) or a miss;
\* it takes a hit without content for a miss.
Merge == /\ pc = "new" /\ Merges /\ ~req.HEAD
         /\ Answer(206, Length)
         /\ \E s \in Sources :
               IF CacheExist /\ s # Nothing
               THEN OpenSource(s, "merged")
               ELSE pc' = "start" /\ UNCHANGED <<src, at>>
         /\ UNCHANGED <<cached, cut, proxy, out>>

-------------------------------------------------------------------------------
(* The cache's part of the body.                                           *)

\* start_write_cache_file: the writer found under the key, one that another
\* request registered meanwhile, or the request's own.
Written == IF mem[Key] # None THEN {mem[Key]}
           ELSE IF WantsHead THEN Heads(file) ELSE Tails(file)

StartWrite == /\ pc = "start"
              /\ \E r \in Written :
                    /\ mem' = [mem EXCEPT ![Key] = r]
                    /\ OpenSource(InMemory(r), "merged")
              /\ UNCHANGED <<file, req, disk, head_, cut, proxy, out>>

\* The link, or anything else on the way, fails: no body.
StartFails == /\ pc = "start"
              /\ pc' = "broken"
              /\ UNCHANGED <<cached, head_, body, proxy, out>>

\* What is there, and how far the request may read: its end is not shifted.
Available == src.hi - src.lo + 1
Limit == IF req.form = "closed" THEN Lesser(req.end + 1, Available) ELSE Available

\* n bytes from position p on go out.
Send(n, p) == /\ sent' = sent + n
              /\ misplaced' = (misplaced \/ p # req.start + sent)

Streaming == pc \in {"direct", "merged"}

CacheChunk == /\ Streaming /\ ~cut /\ Exists(file, src)
              /\ \E n \in 1..(Limit - at) :
                    Send(n, src.lo + at) /\ at' = at + n
              /\ UNCHANGED <<cached, pc, head_, src, cut, proxy>>

\* The writer failed for good: its readers are told.
CacheRaises == /\ Streaming /\ ~cut /\ src.from = "memory" /\ at < Limit
               /\ pc' = "broken"
               /\ UNCHANGED <<cached, head_, body, proxy, out>>

\* It failed while this reader was handing on a chunk; or the file on disk is
\* gone or unreadable, which _stream_file only logs.
CacheCut == /\ Streaming /\ ~cut /\ at < Limit
            /\ src.from = "disk" \/ sent > 0
            /\ cut' = TRUE
            /\ UNCHANGED <<cached, pc, head_, src, at, proxy, out>>

\* Nothing more to read.
CacheOver == cut \/ (at >= Limit /\ Exists(file, src))

DirectEnds == /\ pc = "direct" /\ CacheOver
              /\ pc' = "done"
              /\ UNCHANGED <<cached, head_, body, proxy, out>>

\* Mutant: the end of the cache is the end of the response.
StopsThere == TRUE

\* All that was announced is sent, or the client asked for no more.
Enough == sent >= announced \/ req.compat

CacheEnds == /\ pc = "merged" /\ CacheOver
             /\ pc' = IF Enough THEN "done" ELSE "proxy"
             /\ UNCHANGED <<cached, head_, body, proxy, out>>

-------------------------------------------------------------------------------
(* The rest of it: reverse_proxy.                                          *)

ReverseStart == req.start + sent

\* The server answers with the range, or with the whole file.
ProxyOpens == /\ pc = "proxy"
              /\ \/ pos' = ReverseStart /\ whole' = FALSE
                 \/ pos' = 0 /\ whole' = TRUE
              /\ pc' = "relay"
              /\ UNCHANGED <<cached, head_, body, short, out>>

\* Mutant: what arrives is sent, however much it is.
Untruncated(n) == n

\* What the loop of merged_stream makes of a chunk of n bytes.
Truncated(n) == Lesser(n, announced - sent)

\* What is left of the range that was asked for, or of the whole file.
Upstream == (IF whole THEN file.size ELSE ResponseEnd + 1) - pos

Relay == /\ pc = "relay"
         /\ \E n \in 1..Upstream :
               /\ Send(Truncated(n), pos)
               /\ pos' = pos + n
         /\ pc' = IF sent' >= announced THEN "done" ELSE "relay"
         /\ UNCHANGED <<cached, head_, body, whole, short>>

\* The server's body ends, without an error, before all of it was sent: less
\* than the range in a 206, a smaller file, or a chunked body that stops.
\* Neither its length nor its Content-Range is looked at.
ProxyEnds == /\ pc = "relay"
             /\ pc' = "done" /\ short' = TRUE
             /\ UNCHANGED <<cached, head_, body, pos, whole, out>>

\* No link, a refused range, or a connection that breaks.
ProxyFails == /\ pc \in {"proxy", "relay"}
              /\ pc' = "broken"
              /\ UNCHANGED <<cached, head_, body, proxy, out>>

-------------------------------------------------------------------------------
Route == Redirect \/ Refuse \/ Direct \/ AnswerHead \/ Merge

Cache == \/ StartWrite \/ StartFails \/ CacheChunk \/ CacheRaises \/ CacheCut
         \/ DirectEnds \/ CacheEnds

Proxy == ProxyOpens \/ Relay \/ ProxyEnds \/ ProxyFails

Next == Route \/ Cache \/ Proxy

Spec == Init /\ [][Next]_vars
-------------------------------------------------------------------------------
(* What the answer owes its client.                                        *)

Ended == pc = "done" /\ code = 206 /\ ~req.HEAD

\* The types, and that no more is sent than the file has; the proxy is only
\* asked once the route has announced what it sends.
TypeOK == /\ file \in Files
          /\ req \in Requests(file)
          /\ pc \in {"new", "start", "direct", "merged", "proxy", "relay",
                      "done", "broken"}
          /\ code \in {None, 206, 307, 416, 500}
          /\ announced \in Int \cup {None}
          /\ at \in Int /\ pos \in Int /\ sent \in Nat
          /\ cut \in BOOLEAN /\ whole \in BOOLEAN /\ short \in BOOLEAN
          /\ misplaced \in BOOLEAN
          /\ pc \in {"start", "merged", "proxy", "relay"} => announced = Length
          /\ sent <= file.size

\* Every byte that is sent is the one the client expects at that place,
\* through the shift into the cached range, the join with the reverse proxy
\* and its truncation - unless the server of the link answered a range with
\* the whole file, which reverse_proxy takes for the range (network.py:152).
InOrder == misplaced => whole

\* No more is sent than Content-Length says - unless the cache reaches past
\* the head, which is where the answer to a high-compatibility client ends,
\* and merged_stream truncates only what it proxies (network.py:70-76, 99).
WithinAnnounced == announced # None /\ sent > announced =>
                      req.compat /\ src.hi >= file.head

\* An answer that ends by itself and is short of its Content-Length either
\* ended with the body of the link's server, which nothing checks for its length
\* (network.py:94-105, 156), or was not spliced: it came from the cache alone,
\* as the route decided or because the client is a high-compatibility one.  Then
\* its cache stream was cut short, it was asked for less than was announced, or
\* what is cached ends early.
ShortExplained ==
    Ended /\ announced # None /\ sent < announced =>
        \/ short
        \/ /\ WantsTail \/ req.compat
           /\ cut \/ req.form = "closed" \/ src.hi < ResponseEnd

\* A hit has a writer or a file to read, except where get_cache_status counts the
\* writer of the head for a request of the tail (redirect.py:105, system.py:278):
\* such a request is broken off after its headers, with nothing sent.
HitHasContent == src # None /\ src.from = "nothing" =>
                    WantsTail /\ mem["head"] # None /\ sent = 0 /\ pc = "broken"

\* What the route says of such an answer ("the range is entirely in the cache,
\* answer with the cache file"): that it is the range.  The code is off by one.
FullyCachedServed == Ended /\ announced = None /\ ~cut /\ src.lo = 0 /\ src.hi = file.head - 1
                     => sent = req.end - req.start + 1
===============================================================================
