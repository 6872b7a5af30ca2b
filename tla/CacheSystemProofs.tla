-------------------------- MODULE CacheSystemProofs --------------------------
(***************************************************************************)
(* Theorems about CacheSystem, for any number of requests and of           *)
(* registrations that run out.                                             *)
(*                                                                         *)
(* Inv adds to the invariants that whoever holds a writer - the registry,  *)
(* a request, a task that saves - holds one that was created, and counts   *)
(* the writers of a sub key against its registration.                      *)
(***************************************************************************)
EXTENDS CacheSystem, FiniteSetTheorems, TLAPS

WriterRecord == [key : Keys, st : {"unborn", "idle", "fetching", "whole", "failed"}]
ReqRecord == [pc : {"new", "over", "nothing"} \cup Asking,
              key : Keys, own : Writers \cup {None}, w : Writers \cup {None},
              prefetch : BOOLEAN]
SaverRecord == [pc : {"none", "new", "sleep", "poll", "write", "over", "abandoned"},
                key : Keys, w : Writers \cup {None}]

\* A ChunksWriter that exists.
Born(w) == w \in Writers /\ writer[w].st # "unborn"

\* What is registered exists and is of that sub key.
RegLive == \A k \in Keys : reg[k] # None => Born(reg[k]) /\ writer[reg[k]].key = k

\* So is what a request is to start or reads.
Good(q) == /\ q.pc = "url" => Born(q.own) /\ writer[q.own].key = q.key
           /\ q.pc = "reading" => Born(q.w) /\ writer[q.w].key = q.key
ReqLive == \A r \in Requests : Good(req[r])

\* A task that is not over saves a writer that exists, and FileStorage is
\* given a settled one.
Busy == {"new", "sleep", "poll", "write"}
Sound(q) == /\ q.pc \in Busy => Born(q.w)
            /\ q.pc = "write" => Completed(q.w)
SaverLive == \A r \in Requests, t \in Tasks : Sound(saver[r][t])

\* A request has no such tasks before it has its url.
Early == {"new", "miss", "url"}
Unsaved == \A r \in Requests, t \in Tasks : req[r].pc \in Early => saver[r][t].pc = "none"

\* Active(k), of a table of the calls.
Calls(table, k) == {p \in Requests \X Tasks :
                      /\ table[p[1]][p[2]].key = k
                      /\ table[p[1]][p[2]].pc \in {"sleep", "poll", "write"}}

\* The marker is there while a call is active, and two active ones are the same.
OneOwner == \A k \in Keys : /\ k \in marker <=> Calls(saver, k) # {}
                            /\ \A p, q \in Calls(saver, k) : p = q

\* The writers of a sub key: the registered one, and one for each registration
\* of it that ran out.
Of(k) == {w \in Writers : writer[w].st # "unborn" /\ writer[w].key = k}
InUse(k) == IF reg[k] = None THEN 0 ELSE 1

Births == \A k \in Keys : Cardinality(Of(k)) <= InUse(k) + expiries[k]

Inv == TypeOK /\ RegLive /\ ReqLive /\ SaverLive /\ Unsaved /\ OneOwner /\ Births

-------------------------------------------------------------------------------
(* What a step does to one part.                                           *)

\* A writer that exists keeps its sub key, and its outcome once it has one.
Grow == /\ writer' \in [Writers -> WriterRecord]
        /\ \A w \in Writers : writer[w].st # "unborn" =>
              /\ writer'[w].st # "unborn"
              /\ writer'[w].key = writer[w].key
              /\ Completed(w) => Completed(w)'

\* What requests and saving tasks hold stays sound.
LEMMA GrowKeeps ==
  ASSUME Grow
  PROVE  /\ \A q : Good(q) => Good(q)'
         /\ \A q : Sound(q) => Sound(q)'
  <1>1. \A w : Born(w) => Born(w)' /\ writer'[w].key = writer[w].key
    BY DEF Grow, Born
  <1>2. ASSUME NEW q, Good(q) PROVE Good(q)'
    BY <1>1, <1>2 DEF Good
  <1>3. ASSUME NEW q, Sound(q) PROVE Sound(q)'
    BY <1>1, <1>3 DEF Sound, Busy, Grow, Born
  <1> QED
    BY <1>2, <1>3

\* The writers are as they were.
LEMMA SameWriters ==
  ASSUME Inv, UNCHANGED writer
  PROVE  Grow /\ \A k \in Keys : Of(k)' = Of(k)
  BY DEF Inv, TypeOK, WriterRecord, Grow, Completed, Of

\* One request moves to a record q.
LEMMA RequestMoves ==
  ASSUME Inv, Grow, NEW r \in Requests, NEW q \in ReqRecord,
         req' = [req EXCEPT ![r] = q], Good(q)'
  PROVE  req' \in [Requests -> ReqRecord] /\ ReqLive'
  <1>1. req \in [Requests -> ReqRecord]
    BY DEF Inv, TypeOK, ReqRecord
  <1>2. req' \in [Requests -> ReqRecord]
    BY <1>1
  <1>3. \A s \in Requests : req'[s] = IF s = r THEN q ELSE req[s]
    BY <1>1
  <1>4. ASSUME NEW s \in Requests PROVE Good(req[s])'
    <2>1. CASE s = r
      BY <1>3, <2>1 DEF Good
    <2>2. CASE s # r
      <3>1. req'[s] = req[s] /\ Good(req[s])
        BY <1>3, <2>2 DEF Inv, ReqLive
      <3> QED
        BY <3>1 DEF Good, Grow, Born
    <2> QED
      BY <2>1, <2>2
  <1> QED
    BY <1>2, <1>4 DEF ReqLive

\* One call of _write_to_disk moves to a record q.
LEMMA SaverMoves ==
  ASSUME Inv, Grow, NEW r \in Requests, NEW t \in Tasks, NEW q \in SaverRecord,
         saver' = [saver EXCEPT ![r][t] = q], Sound(q)'
  PROVE  saver' \in [Requests -> [Tasks -> SaverRecord]] /\ SaverLive'
  <1>1. saver \in [Requests -> [Tasks -> SaverRecord]]
    BY DEF Inv, TypeOK, SaverRecord
  <1>2. saver' \in [Requests -> [Tasks -> SaverRecord]]
    BY <1>1
  <1>3. \A s \in Requests, u \in Tasks :
           saver'[s][u] = IF s = r /\ u = t THEN q ELSE saver[s][u]
    BY <1>1
  <1>4. ASSUME NEW s \in Requests, NEW u \in Tasks PROVE Sound(saver[s][u])'
    <2>1. CASE s = r /\ u = t
      BY <1>3, <2>1 DEF Sound
    <2>2. CASE ~(s = r /\ u = t)
      <3>1. saver'[s][u] = saver[s][u] /\ Sound(saver[s][u])
        BY <1>3, <2>2 DEF Inv, SaverLive
      <3> QED
        BY <3>1 DEF Sound, Busy, Grow, Born
    <2> QED
      BY <2>1, <2>2
  <1> QED
    BY <1>2, <1>4 DEF SaverLive

\* The same of all of them, when none moves.
LEMMA NoneMoves ==
  ASSUME Inv, Grow
  PROVE  /\ UNCHANGED req => ReqLive'
         /\ UNCHANGED saver => SaverLive'
         /\ UNCHANGED reg => RegLive'
  <1>1. ASSUME UNCHANGED req PROVE ReqLive'
    BY <1>1 DEF Inv, ReqLive, Good, Grow, Born
  <1>2. ASSUME UNCHANGED saver PROVE SaverLive'
    BY <1>2 DEF Inv, SaverLive, Sound, Busy, Grow, Born
  <1>3. ASSUME UNCHANGED reg PROVE RegLive'
    BY <1>3 DEF Inv, RegLive, Grow, Born
  <1> QED
    BY <1>1, <1>2, <1>3

\* The owners of the markers are as they were.
LEMMA SameOwners ==
  ASSUME Inv, UNCHANGED marker, \A k \in Keys : Calls(saver', k) = Calls(saver, k)
  PROVE  OneOwner'
  BY DEF Inv, OneOwner

\* The writers that were created, and what is registered, are as they were.
LEMMA SameBirths ==
  ASSUME Inv, UNCHANGED <<reg, expiries>>, \A k \in Keys : Of(k)' = Of(k)
  PROVE  Births'
  BY DEF Inv, Births, InUse, Keys

\* The parts make the whole.
LEMMA Parts ==
  ASSUME Inv, Grow,
         reg' \in [Keys -> Writers \cup {None}],
         req' \in [Requests -> ReqRecord],
         saver' \in [Requests -> [Tasks -> SaverRecord]],
         disk' \subseteq Keys, marker' \subseteq Keys,
         expiries' \in [Keys -> Nat], expiries'["head"] + expiries'["tail"] <= MaxExpiries,
         (RegLive /\ ReqLive /\ SaverLive /\ Unsaved /\ OneOwner /\ Births)'
  PROVE  Inv'
  <1>1. \A k \in Keys : reg'[k] # None => writer'[reg'[k]].key = k
    BY DEF RegLive
  <1>2. \A r \in Requests : req'[r].pc = "reading" => writer'[req'[r].w].key = req'[r].key
    BY DEF ReqLive, Good
  <1>3. TypeOK'
    BY <1>1, <1>2 DEF TypeOK, Grow, WriterRecord, ReqRecord, SaverRecord
  <1> QED
    BY <1>3 DEF Inv

-------------------------------------------------------------------------------
(* Requests.                                                               *)

\* No request goes back to before its url.
Later(r, q) == q.pc \in Early => req[r].pc \in Early

\* What get_cache_file, given a registry, makes of the request is sound.
LEMMA ServeMoves ==
  ASSUME Inv, NEW r \in Requests, NEW k \in Keys,
         NEW table, Serve(r, k, table),
         table[k] # None => Born(table[k])' /\ writer'[table[k]].key = k
  PROVE  \E q \in ReqRecord : req' = [req EXCEPT ![r] = q] /\ Good(q)' /\ q.pc \notin Early
  <1>1. req \in [Requests -> ReqRecord]
    BY DEF Inv, TypeOK, ReqRecord
  <1>2. CASE table[k] # None
    <2> DEFINE q == [pc |-> "reading", key |-> k, own |-> req[r].own, w |-> table[k],
                     prefetch |-> req[r].prefetch]
    <2>1. table[k] \in Writers
      BY <1>2 DEF Born
    <2>2. q \in ReqRecord
      BY <1>1, <2>1 DEF ReqRecord, Asking
    <2>3. req' = [req EXCEPT ![r] = q]
      BY <1>1, <1>2 DEF Serve, ReqRecord
    <2>4. PICK p \in ReqRecord : p = q
      BY <2>2
    <2>5. Good(p)' /\ p.pc \notin Early
      BY <1>2, <2>4 DEF Good, Early
    <2> QED
      BY <2>3, <2>4, <2>5
  <1>3. CASE table[k] = None
    <2>1. PICK pc \in {"over", "nothing"} : Leave(r, pc)
      BY <1>3 DEF Serve
    <2>2. [NotCome EXCEPT !.pc = pc] \in ReqRecord
      BY DEF NotCome, ReqRecord, Keys
    <2>3. Good([NotCome EXCEPT !.pc = pc])' /\ [NotCome EXCEPT !.pc = pc].pc \notin Early
      BY DEF Good, NotCome, Early
    <2> QED
      BY <2>1, <2>2, <2>3 DEF Leave
  <1> QED
    BY <1>2, <1>3

\* A stream that ends, or whose client leaves, holds nothing any more.
LEMMA LeaveMoves ==
  ASSUME Inv, NEW r \in Requests, Leave(r, "over")
  PROVE  \E q \in ReqRecord : req' = [req EXCEPT ![r] = q] /\ Good(q)' /\ q.pc \notin Early
  <1>1. [NotCome EXCEPT !.pc = "over"] \in ReqRecord
    BY DEF NotCome, ReqRecord, Keys
  <1>2. Good([NotCome EXCEPT !.pc = "over"])' /\ [NotCome EXCEPT !.pc = "over"].pc \notin Early
    BY DEF Good, NotCome, Early
  <1> QED
    BY <1>1, <1>2 DEF Leave

\* A step of one request that touches nothing else.
LEMMA RequestAlone ==
  ASSUME Inv, UNCHANGED <<reg, writer, disk, marker, saver, expiries>>,
         NEW r \in Requests, NEW q \in ReqRecord,
         req' = [req EXCEPT ![r] = q], Good(q)', Later(r, q)
  PROVE  Inv'
  <1>1. Grow /\ \A k \in Keys : Of(k)' = Of(k)
    BY SameWriters
  <1>2. req' \in [Requests -> ReqRecord] /\ ReqLive'
    BY <1>1, RequestMoves
  <1>3. (SaverLive /\ RegLive)'
    BY <1>1, NoneMoves
  <1>4. OneOwner'
    BY SameOwners DEF Calls
  <1>5. Births'
    BY <1>1, SameBirths
  <1>6. Unsaved'
    BY DEF Inv, TypeOK, Unsaved, Later
  <1> QED
    BY <1>1, <1>2, <1>3, <1>4, <1>5, <1>6, Parts DEF Inv, TypeOK, SaverRecord

\* A request finds the disk, a writer, or nothing.
LEMMA ArriveInv ==
  ASSUME Inv, NEW r \in Requests,
         Prefetch(r) \/ \E k \in Keys : Arrive(r, k)
  PROVE  Inv'
  <1>1. UNCHANGED <<reg, writer, disk, marker, saver, expiries>>
    BY DEF Prefetch, Arrive
  <1>2. PICK table : table = reg
    OBVIOUS
  <1>0. \A k \in Keys : table[k] # None => Born(table[k])' /\ writer'[table[k]].key = k
    BY <1>1, <1>2 DEF Inv, RegLive, Born
  <1>3. req \in [Requests -> ReqRecord]
    BY DEF Inv, TypeOK, ReqRecord
  <1>5. req[r].pc = "new"
    BY DEF Prefetch, Arrive
  <1>4. \E q \in ReqRecord : req' = [req EXCEPT ![r] = q] /\ Good(q)' /\ Later(r, q)
    <2>1. CASE \E k \in Keys : Serve(r, k, reg)
      <3>1. PICK k \in Keys : Serve(r, k, table)
        BY <1>2, <2>1 DEF Serve
      <3> QED
        BY <1>0, <3>1, ServeMoves DEF Later
    <2>2. CASE Leave(r, "over")
      BY <2>2, LeaveMoves DEF Later
    <2>3. CASE \E k \in Keys : req' = [req EXCEPT ![r].pc = "miss", ![r].key = k]
      <3>1. PICK k \in Keys : req' = [req EXCEPT ![r].pc = "miss", ![r].key = k]
        BY <2>3
      <3>2. PICK q \in ReqRecord : q = [req[r] EXCEPT !.pc = "miss", !.key = k]
        BY <1>3 DEF ReqRecord, Asking
      <3>3. req' = [req EXCEPT ![r] = q] /\ q.pc = "miss"
        BY <1>3, <3>1, <3>2 DEF ReqRecord
      <3> QED
        BY <1>5, <3>3 DEF Good, Later, Early
    <2>4. CASE req' = [req EXCEPT ![r].pc = "miss", ![r].prefetch = TRUE]
      <3>1. PICK q \in ReqRecord : q = [req[r] EXCEPT !.pc = "miss", !.prefetch = TRUE]
        BY <1>3 DEF ReqRecord, Asking
      <3>2. req' = [req EXCEPT ![r] = q] /\ q.pc = "miss"
        BY <1>3, <2>4, <3>1 DEF ReqRecord
      <3> QED
        BY <1>5, <3>2 DEF Good, Later, Early
    <2> QED
      BY <2>1, <2>2, <2>3, <2>4 DEF Prefetch, Arrive
  <1> QED
    BY <1>1, <1>4, RequestAlone

\* A request that finds a writer with its task, or that ends.
LEMMA UseOrEndInv ==
  ASSUME Inv, NEW r \in Requests,
         UseWriter(r) \/ UrlFails(r) \/ ReadEnds(r) \/ Disconnect(r)
  PROVE  Inv'
  <1>1. UNCHANGED <<reg, writer, disk, marker, saver, expiries>>
    BY DEF UseWriter, UrlFails, ReadEnds, Disconnect
  <1>2. PICK table : table = reg
    OBVIOUS
  <1>0. \A k \in Keys : table[k] # None => Born(table[k])' /\ writer'[table[k]].key = k
    BY <1>1, <1>2 DEF Inv, RegLive, Born
  <1>3. req[r].key \in Keys
    BY DEF Inv, TypeOK
  <1>4. \E q \in ReqRecord : req' = [req EXCEPT ![r] = q] /\ Good(q)' /\ Later(r, q)
    <2>1. CASE Serve(r, req[r].key, reg)
      <3>1. PICK k \in Keys : Serve(r, k, table)
        BY <1>2, <1>3, <2>1 DEF Serve
      <3> QED
        BY <1>0, <3>1, ServeMoves DEF Later
    <2>2. CASE Leave(r, "over")
      BY <2>2, LeaveMoves DEF Later
    <2> QED
      BY <2>1, <2>2 DEF UseWriter, UrlFails, ReadEnds, Disconnect
  <1> QED
    BY <1>1, <1>4, RequestAlone

\* The record of a request that waits for a url with writer w.
LEMMA GetUrlMoves ==
  ASSUME Inv, NEW r \in Requests, NEW w \in Writers, GetUrl(r, w),
         req[r].pc = "miss", Born(w)' /\ writer'[w].key = req[r].key
  PROVE  \E q \in ReqRecord : req' = [req EXCEPT ![r] = q] /\ Good(q)' /\ Later(r, q)
  <1>1. req \in [Requests -> ReqRecord]
    BY DEF Inv, TypeOK, ReqRecord
  <1>2. PICK q \in ReqRecord : q = [req[r] EXCEPT !.pc = "url", !.own = w]
    BY <1>1 DEF ReqRecord, Asking
  <1>3. req' = [req EXCEPT ![r] = q] /\ q.pc = "url" /\ q.own = w /\ q.key = req[r].key
    BY <1>1, <1>2 DEF GetUrl, ReqRecord
  <1>4. Good(q)' /\ Later(r, q)
    BY <1>3 DEF Good, Later, Early
  <1> QED
    BY <1>3, <1>4

\* A miss that finds a writer registered waits for its own url with it.
LEMMA JoinWriterInv ==
  ASSUME Inv, NEW r \in Requests, JoinWriter(r)
  PROVE  Inv'
  <1> DEFINE w == reg[req[r].key]
  <1>1. UNCHANGED <<reg, writer, disk, marker, saver, expiries>>
        /\ req[r].pc = "miss" /\ w # None /\ GetUrl(r, w)
    BY DEF JoinWriter
  <1>2. req[r].key \in Keys
    BY DEF Inv, TypeOK
  <1>3. Born(w) /\ writer[w].key = req[r].key
    BY <1>1, <1>2 DEF Inv, RegLive
  <1>4. PICK v \in Writers : v = w
    BY <1>3 DEF Born
  <1>5. req[r].pc = "miss" /\ GetUrl(r, v) /\ Born(v)' /\ writer'[v].key = req[r].key
    BY <1>1, <1>3, <1>4 DEF Born
  <1>6. \E q \in ReqRecord : req' = [req EXCEPT ![r] = q] /\ Good(q)' /\ Later(r, q)
    BY <1>5, GetUrlMoves
  <1> QED
    BY <1>1, <1>6, RequestAlone

\* A writer that does not exist yet is born for key k, and registered there in
\* place of none.
LEMMA OneBorn ==
  ASSUME Inv, NEW k \in Keys, NEW v \in Writers, writer[v].st = "unborn",
         reg[k] = None, reg' = [reg EXCEPT ![k] = v],
         UNCHANGED expiries,
         writer'[v].st # "unborn", writer'[v].key = k,
         \A w \in Writers \ {v} : /\ writer'[w].st = "unborn" <=> writer[w].st = "unborn"
                                  /\ writer'[w].key = writer[w].key
  PROVE  Births'
  <1>1. IsFiniteSet(Of("head")) /\ IsFiniteSet(Of("tail"))
    BY SystemAssumption, FS_Subset DEF Of
  <1>2. \A j \in Keys : /\ IsFiniteSet(Of(j))
                        /\ Cardinality(Of(j)) \in Nat
    BY <1>1, FS_CardinalityType DEF Keys
  <1>3. v \notin Of(k) /\ Of(k)' = Of(k) \cup {v}
    BY DEF Of
  <1>4. \A j \in Keys \ {k} : Of(j)' = Of(j)
    BY DEF Of
  <1>5. Cardinality(Of(k)') = Cardinality(Of(k)) + 1
    BY <1>2, <1>3, FS_AddElement
  <1>6. v # None /\ reg \in [Keys -> Writers \cup {None}] /\ expiries \in [Keys -> Nat]
    BY SystemAssumption DEF Inv, TypeOK
  <1>7. InUse(k) = 0 /\ InUse(k)' = 1
    BY <1>6 DEF InUse
  <1>8. \A j \in Keys \ {k} : InUse(j)' = InUse(j) /\ InUse(j) \in Nat
    BY <1>6 DEF InUse
  <1>9. Births
    BY DEF Inv
  <1>10. ASSUME NEW j \in Keys PROVE Cardinality(Of(j)') <= InUse(j)' + expiries'[j]
    BY <1>2, <1>4, <1>5, <1>6, <1>7, <1>8, <1>9 DEF Births
  <1> QED
    BY <1>10 DEF Births

\* The writer that is created next.
LEMMA FreshIs ==
  ASSUME CanCreate
  PROVE  Fresh \in Writers /\ writer[Fresh].st = "unborn"
  BY DEF CanCreate, Fresh

\* A miss that finds none registers a new writer before it awaits the url.
LEMMA NewWriterInv ==
  ASSUME Inv, NEW r \in Requests, NewWriter(r)
  PROVE  Inv'
  <1>1. PICK v \in Writers : v = Fresh /\ writer[v].st = "unborn"
    BY FreshIs DEF NewWriter
  <1>2. PICK k \in Keys : k = req[r].key
    BY DEF Inv, TypeOK
  <1>3. /\ req[r].pc = "miss" /\ reg[k] = None /\ reg' = [reg EXCEPT ![k] = v]
        /\ writer' = [writer EXCEPT ![v] = [key |-> k, st |-> "idle"]]
        /\ GetUrl(r, v)
        /\ UNCHANGED <<disk, marker, saver, expiries>>
    BY <1>1, <1>2 DEF NewWriter, Register, GetUrl
  <1>4. writer \in [Writers -> WriterRecord] /\ reg \in [Keys -> Writers \cup {None}]
    BY DEF Inv, TypeOK, WriterRecord
  <1>5. /\ writer'[v] = [key |-> k, st |-> "idle"]
        /\ \A w \in Writers \ {v} : writer'[w] = writer[w]
        /\ writer' \in [Writers -> WriterRecord]
    BY <1>3, <1>4 DEF WriterRecord
  <1>6. Grow
    BY <1>1, <1>5 DEF Grow, Completed
  <1>7. Births'
    BY <1>1, <1>3, <1>5, OneBorn
  <1>8. Born(v)' /\ writer'[v].key = k
    BY <1>5 DEF Born
  <1>9. PICK q \in ReqRecord : req' = [req EXCEPT ![r] = q] /\ Good(q)' /\ Later(r, q)
    BY <1>2, <1>3, <1>8, GetUrlMoves
  <1>10. req' \in [Requests -> ReqRecord] /\ ReqLive'
    BY <1>6, <1>9, RequestMoves
  <1>11. SaverLive'
    BY <1>3, <1>6, NoneMoves
  <1>12. RegLive'
    BY <1>1, <1>3, <1>4, <1>5, <1>8 DEF Inv, RegLive, Born
  <1>13. OneOwner'
    BY <1>3, SameOwners DEF Calls
  <1>14. reg' \in [Keys -> Writers \cup {None}]
    BY <1>3, <1>4
  <1>15. Unsaved'
    BY <1>3, <1>9 DEF Inv, TypeOK, Unsaved, Later
  <1> QED
    BY <1>3, <1>6, <1>7, <1>10, <1>11, <1>12, <1>13, <1>14, <1>15, Parts
       DEF Inv, TypeOK, SaverRecord

\* The tasks that save what a request has started.
LEMMA SavingLive ==
  ASSUME Inv, Grow, NEW r \in Requests, NEW warm \in Writers \cup {None},
         req[r].pc = "url", saver' = Saving(r, warm), UNCHANGED marker,
         Born(req[r].own), warm # None => Born(warm)'
  PROVE  /\ saver' \in [Requests -> [Tasks -> SaverRecord]]
         /\ SaverLive' /\ OneOwner'
         /\ \A s \in Requests \ {r} : saver'[s] = saver[s]
  <1>1. saver \in [Requests -> [Tasks -> SaverRecord]] /\ req \in [Requests -> ReqRecord]
    BY DEF Inv, TypeOK, SaverRecord, ReqRecord
  <1>2. PICK own \in SaverRecord : own = [pc |-> "new", key |-> req[r].key, w |-> req[r].own]
    BY <1>1 DEF SaverRecord, ReqRecord
  <1>3. PICK tail \in SaverRecord :
           tail = IF warm = None THEN saver[r]["warm"]
                  ELSE [pc |-> "new", key |-> "tail", w |-> warm]
    BY <1>1 DEF SaverRecord, Tasks, Keys
  <1>4. CASE ~DiskCache
    <2>1. saver' = saver
      BY <1>4 DEF Saving
    <2> QED
      BY <1>1, <2>1, NoneMoves, SameOwners DEF Calls
  <1>5. CASE DiskCache
    <2>1. \A s \in Requests, u \in Tasks :
             saver'[s][u] = IF s # r THEN saver[s][u]
                            ELSE IF u = "own" THEN own ELSE tail
      BY <1>1, <1>2, <1>3, <1>5 DEF Saving, Tasks
    <2>2. saver' \in [Requests -> [Tasks -> SaverRecord]]
      BY <1>1, <1>2, <1>3, <1>5 DEF Saving, Tasks
    <2>3. \A s \in Requests \ {r} : saver'[s] = saver[s]
      BY <1>1, <1>5 DEF Saving
    <2>4. \A u \in Tasks : saver[r][u].pc = "none"
      BY DEF Inv, Unsaved, Early
    <2>5. SaverLive'
      <3>1. Sound(own)'
        BY <1>2 DEF Sound, Grow, Born
      <3>2. Sound(tail)'
        BY <1>3, <2>4 DEF Sound, Busy, Tasks
      <3>3. ASSUME NEW s \in Requests, NEW u \in Tasks PROVE Sound(saver[s][u])'
        <4>1. CASE s = r
          BY <2>1, <3>1, <3>2, <4>1 DEF Sound
        <4>2. CASE s # r
          <5>1. saver'[s][u] = saver[s][u] /\ Sound(saver[s][u])
            BY <2>1, <4>2 DEF Inv, SaverLive
          <5> QED
            BY <5>1 DEF Sound, Busy, Grow, Born
        <4> QED
          BY <4>1, <4>2
      <3> QED
        BY <3>3 DEF SaverLive
    <2>6. own.pc = "new" /\ tail.pc \in {"none", "new"}
      BY <1>2, <1>3, <2>4 DEF Tasks
    <2>7. \A k \in Keys : Calls(saver', k) = Calls(saver, k)
      BY <2>1, <2>4, <2>6 DEF Calls
    <2> QED
      BY <2>2, <2>3, <2>5, <2>7, SameOwners
  <1> QED
    BY <1>4, <1>5 DEF SystemAssumption

\* What becomes of the request once its writer is started.
LEMMA ContinueMoves ==
  ASSUME Inv, NEW r \in Requests, NEW table, Continue(r, table),
         \A k \in Keys : table[k] # None => Born(table[k])' /\ writer'[table[k]].key = k
  PROVE  \E q \in ReqRecord : req' = [req EXCEPT ![r] = q] /\ Good(q)' /\ q.pc \notin Early
  <1>1. PICK k \in Keys : k = req[r].key
    BY DEF Inv, TypeOK
  <1>2. CASE Leave(r, "over")
    BY <1>2, LeaveMoves
  <1>3. CASE Serve(r, k, table)
    BY <1>3, ServeMoves
  <1> QED
    BY <1>1, <1>2, <1>3 DEF Continue

\* write() called for some writers leaves the others alone.
LEMMA StartedGrow ==
  ASSUME Inv, NEW ws \in SUBSET Writers, NEW k \in Keys,
         writer' = Started(ws)
         \/ \E v \in ws : /\ writer[v].st = "unborn"
                          /\ writer' = [Started(ws) EXCEPT ![v].key = k]
  PROVE  /\ Grow
         /\ \A w \in Writers \ ws : writer'[w] = writer[w]
         /\ \A w \in ws : Born(w)'
         /\ \A w \in ws : writer[w].st # "unborn" => writer'[w].key = writer[w].key
  <1>1. writer \in [Writers -> WriterRecord]
    BY DEF Inv, TypeOK, WriterRecord
  <1>2. PICK S \in [Writers -> WriterRecord] :
           /\ S = Started(ws)
           /\ \A w \in Writers : /\ S[w].key = writer[w].key
                                 /\ w \notin ws => S[w] = writer[w]
                                 /\ w \in ws => S[w].st # "unborn"
                                 /\ writer[w].st \notin {"unborn", "idle"} => S[w] = writer[w]
                                 /\ writer[w].st # "unborn" => S[w].st # "unborn"
    <2>1. Started(ws) \in [Writers -> WriterRecord]
      BY <1>1 DEF Started, WriterRecord
    <2>2. \A w \in Writers :
             Started(ws)[w] = IF w \in ws /\ writer[w].st \in {"unborn", "idle"}
                              THEN [writer[w] EXCEPT !.st = "fetching"] ELSE writer[w]
      BY DEF Started
    <2> QED
      BY <1>1, <2>1, <2>2 DEF WriterRecord
  <1>3. CASE writer' = S
    BY <1>2, <1>3 DEF Grow, Completed, Born
  <1>4. CASE \E v \in ws : writer[v].st = "unborn" /\ writer' = [S EXCEPT ![v].key = k]
    <2>1. PICK v \in ws : writer[v].st = "unborn" /\ writer' = [S EXCEPT ![v].key = k]
      BY <1>4
    <2>2. writer' \in [Writers -> WriterRecord]
      BY <1>2, <2>1 DEF WriterRecord
    <2>3. \A w \in Writers : /\ writer'[w].st = S[w].st
                             /\ w # v => writer'[w] = S[w]
      BY <1>2, <2>1 DEF WriterRecord
    <2> QED
      BY <1>1, <1>2, <2>1, <2>2, <2>3 DEF Grow, Completed, Born
  <1> QED
    BY <1>2, <1>3, <1>4

\* The url arrives: the writer starts, once, and its save is scheduled.
LEMMA UrlArrivesInv ==
  ASSUME Inv, NEW r \in Requests, UrlArrives(r)
  PROVE  Inv'
  <1>1. /\ req[r].pc = "url"
        /\ writer' = Started({req[r].own})
        /\ saver' = Saving(r, None)
        /\ Continue(r, reg)
        /\ UNCHANGED <<reg, disk, marker, expiries>>
    BY DEF UrlArrives
  <1>2. Born(req[r].own) /\ writer[req[r].own].key = req[r].key
    BY <1>1 DEF Inv, ReqLive, Good
  <1>3. PICK v \in Writers : v = req[r].own /\ writer[v].st # "unborn"
    BY <1>2 DEF Born
  <1>4. /\ Grow /\ Born(v)' /\ writer'[v].key = writer[v].key
        /\ \A w \in Writers \ {v} : writer'[w] = writer[w]
    <2>1. writer' = Started({v}) /\ "head" \in Keys
      BY <1>1, <1>3 DEF Keys
    <2> QED
      BY <1>3, <2>1, StartedGrow
  <1>5. \A k \in Keys : Of(k)' = Of(k)
    BY <1>3, <1>4 DEF Of, Born
  <1>6. saver' \in [Requests -> [Tasks -> SaverRecord]] /\ SaverLive' /\ OneOwner'
        /\ \A s \in Requests \ {r} : saver'[s] = saver[s]
    BY <1>1, <1>2, <1>4, SavingLive
  <1>7. PICK table : table = reg
    OBVIOUS
  <1>8. Continue(r, table)
    BY <1>1, <1>7 DEF Continue, Serve
  <1>9. \A k \in Keys : table[k] # None => Born(table[k])' /\ writer'[table[k]].key = k
    BY <1>4, <1>7 DEF Inv, RegLive, Grow, Born
  <1>10. PICK q \in ReqRecord :
            req' = [req EXCEPT ![r] = q] /\ Good(q)' /\ q.pc \notin Early
    BY <1>8, <1>9, ContinueMoves
  <1>11. req' \in [Requests -> ReqRecord] /\ ReqLive'
    BY <1>4, <1>10, RequestMoves
  <1>12. Unsaved'
    BY <1>6, <1>10 DEF Inv, TypeOK, Unsaved
  <1>13. RegLive' /\ Births'
    BY <1>1, <1>4, <1>5, NoneMoves, SameBirths
  <1> QED
    BY <1>1, <1>4, <1>6, <1>11, <1>12, <1>13, Parts DEF Inv, TypeOK

\* The same, with a writer for the tail as well.
LEMMA UrlArrivesAndWarmsUpInv ==
  ASSUME Inv, NEW r \in Requests, UrlArrivesAndWarmsUp(r)
  PROVE  Inv'
  <1>1. PICK v \in Writers : v = Fresh /\ writer[v].st = "unborn"
    BY FreshIs DEF UrlArrivesAndWarmsUp
  <1>2. /\ req[r].pc = "url" /\ reg["tail"] = None
        /\ writer' = [Started({req[r].own, v}) EXCEPT ![v].key = "tail"]
        /\ saver' = Saving(r, v)
        /\ reg' = [reg EXCEPT !["tail"] = v]
        /\ Continue(r, reg')
        /\ UNCHANGED <<disk, marker, expiries>>
    BY <1>1 DEF UrlArrivesAndWarmsUp, WarmKey
  <1>3. Born(req[r].own) /\ writer[req[r].own].key = req[r].key
    BY <1>2 DEF Inv, ReqLive, Good
  <1>4. PICK u \in Writers : u = req[r].own /\ writer[u].st # "unborn"
    BY <1>3 DEF Born
  <1>5. /\ Grow /\ Born(u)' /\ Born(v)' /\ writer'[u].key = writer[u].key
        /\ \A w \in Writers \ {u, v} : writer'[w] = writer[w]
    <2>1. PICK ws \in SUBSET Writers, k \in Keys : ws = {u, v} /\ k = "tail"
      BY DEF Keys
    <2>2. \E x \in ws : /\ writer[x].st = "unborn"
                        /\ writer' = [Started(ws) EXCEPT ![x].key = k]
      BY <1>1, <1>2, <1>4, <2>1
    <2>3. /\ Grow
          /\ \A w \in Writers \ ws : writer'[w] = writer[w]
          /\ \A w \in ws : Born(w)'
          /\ \A w \in ws : writer[w].st # "unborn" => writer'[w].key = writer[w].key
      BY <2>2, StartedGrow
    <2> QED
      BY <1>4, <2>1, <2>3
  <1>6. writer'[v].key = "tail"
    <2>1. writer \in [Writers -> WriterRecord]
      BY DEF Inv, TypeOK, WriterRecord
    <2>2. Started({u, v}) \in [Writers -> WriterRecord]
      BY <2>1 DEF Started, WriterRecord
    <2> QED
      BY <1>2, <1>4, <2>2 DEF WriterRecord
  <1>7. Births'
    <2>1. \A w \in Writers \ {v} : /\ writer'[w].st = "unborn" <=> writer[w].st = "unborn"
                                   /\ writer'[w].key = writer[w].key
      BY <1>4, <1>5 DEF Born
    <2>2. "tail" \in Keys /\ UNCHANGED expiries
      BY <1>2 DEF Keys
    <2>3. writer'[v].st # "unborn"
      BY <1>5 DEF Born
    <2> QED
      BY <1>1, <1>2, <1>6, <2>1, <2>2, <2>3, OneBorn
  <1>8. saver' \in [Requests -> [Tasks -> SaverRecord]] /\ SaverLive' /\ OneOwner'
        /\ \A s \in Requests \ {r} : saver'[s] = saver[s]
    BY <1>2, <1>3, <1>5, SavingLive
  <1>9. reg \in [Keys -> Writers \cup {None}]
    BY DEF Inv, TypeOK
  <1>10. reg' \in [Keys -> Writers \cup {None}]
         /\ \A k \in Keys : reg'[k] = IF k = "tail" THEN v ELSE reg[k]
    BY <1>2, <1>9
  <1>11. RegLive'
    BY <1>5, <1>6, <1>10 DEF Inv, RegLive, Grow, Born
  <1>12. PICK table : table = reg'
    OBVIOUS
  <1>13. Continue(r, table)
    BY <1>2, <1>12 DEF Continue, Serve
  <1>14. \A k \in Keys : table[k] # None => Born(table[k])' /\ writer'[table[k]].key = k
    BY <1>11, <1>12 DEF RegLive, Born
  <1>15. PICK q \in ReqRecord :
            req' = [req EXCEPT ![r] = q] /\ Good(q)' /\ q.pc \notin Early
    BY <1>13, <1>14, ContinueMoves
  <1>16. req' \in [Requests -> ReqRecord] /\ ReqLive'
    BY <1>5, <1>15, RequestMoves
  <1>17. Unsaved'
    BY <1>8, <1>15 DEF Inv, TypeOK, Unsaved
  <1> QED
    BY <1>2, <1>5, <1>7, <1>8, <1>10, <1>11, <1>16, <1>17, Parts DEF Inv, TypeOK
-------------------------------------------------------------------------------
(* _write_to_disk.                                                         *)

\* A step of one call; requests, writers and the registry are left alone.
LEMMA SaverAlone ==
  ASSUME Inv, NEW r \in Requests, NEW t \in Tasks, NEW q \in SaverRecord,
         UNCHANGED <<reg, writer, req, expiries>>, disk' \subseteq Keys, marker' \subseteq Keys,
         saver[r][t].pc # "none", saver' = [saver EXCEPT ![r][t] = q],
         Sound(q)', OneOwner'
  PROVE  Inv'
  <1>1. Grow /\ \A k \in Keys : Of(k)' = Of(k)
    BY SameWriters
  <1>2. saver' \in [Requests -> [Tasks -> SaverRecord]] /\ SaverLive'
    BY <1>1, SaverMoves
  <1>3. ReqLive' /\ RegLive' /\ Births'
    BY <1>1, NoneMoves, SameBirths
  <1>4. saver \in [Requests -> [Tasks -> SaverRecord]]
    BY DEF Inv, TypeOK, SaverRecord
  <1>5. \A s \in Requests, u \in Tasks : (s = r /\ u = t) \/ saver'[s][u] = saver[s][u]
    BY <1>4
  <1>6. Unsaved'
    BY <1>5 DEF Inv, Unsaved
  <1> QED
    BY <1>1, <1>2, <1>3, <1>6, Parts DEF Inv, TypeOK, ReqRecord

\* One call moves to q.
Moved(r, t, q) == saver' = [saver EXCEPT ![r][t] = q]

\* What becomes of the active calls of a key then.
LEMMA ActiveAfter ==
  ASSUME Inv, NEW r \in Requests, NEW t \in Tasks, NEW q \in SaverRecord,
         Moved(r, t, q), NEW k \in Keys
  PROVE  /\ q.key = k /\ q.pc \in {"sleep", "poll", "write"}
            => Calls(saver', k) = Calls(saver, k) \cup {<<r, t>>}
         /\ q.key # k \/ q.pc \notin {"sleep", "poll", "write"}
            => Calls(saver', k) = Calls(saver, k) \ {<<r, t>>}
  <1>1. saver \in [Requests -> [Tasks -> SaverRecord]]
    BY DEF Inv, TypeOK, SaverRecord
  <1>2. \A s \in Requests, u \in Tasks :
           saver'[s][u] = IF s = r /\ u = t THEN q ELSE saver[s][u]
    BY <1>1 DEF Moved
  <1>3. \A p \in Requests \X Tasks :
           saver'[p[1]][p[2]] = IF p = <<r, t>> THEN q ELSE saver[p[1]][p[2]]
    BY <1>2
  <1>4. <<r, t>> \in Requests \X Tasks
    OBVIOUS
  <1>5. CASE q.key = k /\ q.pc \in {"sleep", "poll", "write"}
    BY <1>3, <1>4, <1>5 DEF Calls
  <1>6. CASE q.key # k \/ q.pc \notin {"sleep", "poll", "write"}
    BY <1>3, <1>4, <1>6 DEF Calls
  <1> QED
    BY <1>5, <1>6

\* The call is over: the record Return leaves.
LEMMA ReturnMoves ==
  ASSUME Inv, NEW r \in Requests, NEW t \in Tasks,
         NEW pc \in {"over", "abandoned"}, Return(r, t, pc)
  PROVE  \E q \in SaverRecord : /\ saver' = [saver EXCEPT ![r][t] = q]
                                /\ q.pc = pc /\ Sound(q)'
  <1>1. PICK q \in SaverRecord : q = [NoSaver EXCEPT !.pc = pc]
    BY DEF NoSaver, SaverRecord, Keys
  <1>2. q.pc = pc
    BY <1>1 DEF NoSaver
  <1> QED
    BY <1>1, <1>2 DEF Return, Sound, Busy

\* The owner of a marker returns and takes the marker with it.
LEMMA OwnerLeaves ==
  ASSUME Inv, NEW r \in Requests, NEW t \in Tasks, NEW pc \in {"over", "abandoned"},
         saver[r][t].pc \in {"sleep", "poll", "write"},
         Return(r, t, pc), Release(saver[r][t].key),
         UNCHANGED <<reg, writer, req, expiries>>, disk' \subseteq Keys
  PROVE  Inv'
  <1>1. PICK q \in SaverRecord : /\ saver' = [saver EXCEPT ![r][t] = q]
                                 /\ q.pc = pc /\ Sound(q)'
    BY ReturnMoves
  <1>2. PICK k \in Keys : k = saver[r][t].key
    BY DEF Inv, TypeOK
  <1>3. marker' = marker \ {k}
    BY <1>2 DEF Release
  <1>4. Moved(r, t, q) /\ q.pc \notin {"sleep", "poll", "write"}
    BY <1>1 DEF Moved
  <1>5. \A j \in Keys : Calls(saver', j) = Calls(saver, j) \ {<<r, t>>}
    BY <1>4, ActiveAfter
  <1>6. <<r, t>> \in Calls(saver, k) /\ \A j \in Keys \ {k} : <<r, t>> \notin Calls(saver, j)
    BY <1>2 DEF Calls
  <1>7. OneOwner'
    BY <1>3, <1>5, <1>6 DEF Inv, OneOwner
  <1>8. marker' \subseteq Keys
    BY <1>3 DEF Inv, TypeOK
  <1> QED
    BY <1>1, <1>7, <1>8, SaverAlone

\* A call of _write_to_disk takes the marker, polls, saves or gives up.
LEMMA SaverInv ==
  ASSUME Inv, NEW r \in Requests, NEW t \in Tasks, SaverStep(r, t)
  PROVE  Inv'
  <1>1. saver \in [Requests -> [Tasks -> SaverRecord]] /\ saver[r][t] \in SaverRecord
    BY DEF Inv, TypeOK, SaverRecord
  <1>2. Sound(saver[r][t])
    BY DEF Inv, SaverLive
  <1>3. PICK k \in Keys : k = saver[r][t].key
    BY <1>1 DEF SaverRecord
  <1>4. disk \subseteq Keys /\ marker \subseteq Keys
    BY DEF Inv, TypeOK
  \* A call goes on to pc and keeps what it saves.
  <1>5. ASSUME NEW pc \in {"sleep", "poll", "write"}, SaverAt(r, t, pc)
        PROVE  \E q \in SaverRecord : /\ saver' = [saver EXCEPT ![r][t] = q]
                                      /\ q.pc = pc /\ q.key = k /\ q.w = saver[r][t].w
    <2>1. PICK q \in SaverRecord : q = [saver[r][t] EXCEPT !.pc = pc]
      BY <1>1 DEF SaverRecord
    <2>2. saver' = [saver EXCEPT ![r][t] = q]
      BY <1>1, <1>5, <2>1 DEF SaverAt
    <2> QED
      BY <1>1, <1>3, <2>1, <2>2 DEF SaverRecord
  <1>6. CASE Begin(r, t)
    <2>1. saver[r][t].pc = "new" /\ UNCHANGED <<reg, writer, disk, req, expiries>>
      BY <1>6 DEF Begin
    <2>2. \A j \in Keys : <<r, t>> \notin Calls(saver, j)
      BY <2>1 DEF Calls
    <2>3. CASE Return(r, t, "over") /\ Skip(k)
      <3>1. PICK q \in SaverRecord : /\ saver' = [saver EXCEPT ![r][t] = q]
                                     /\ q.pc = "over" /\ Sound(q)'
        BY <2>3, ReturnMoves
      <3>2. Moved(r, t, q) /\ q.pc = "over"
        BY <3>1 DEF Moved
      <3>3. \A j \in Keys : Calls(saver', j) = Calls(saver, j) \ {<<r, t>>}
        BY <3>2, ActiveAfter
      <3>4. UNCHANGED marker /\ \A j \in Keys : Calls(saver', j) = Calls(saver, j)
        BY <2>2, <2>3, <3>3 DEF Skip
      <3> QED
        BY <1>4, <2>1, <3>1, <3>4, SameOwners, SaverAlone
    <2>4. CASE k \notin marker /\ SaverAt(r, t, "sleep") /\ marker' = marker \cup {k}
      <3>1. PICK q \in SaverRecord : /\ saver' = [saver EXCEPT ![r][t] = q]
                                     /\ q.pc = "sleep" /\ q.key = k /\ q.w = saver[r][t].w
        BY <1>5, <2>4
      <3>2. Sound(q)'
        BY <1>2, <2>1, <3>1 DEF Sound, Busy, Born
      <3>3. Moved(r, t, q) /\ q.pc = "sleep" /\ q.key = k
        BY <3>1 DEF Moved
      <3>4. Calls(saver', k) = Calls(saver, k) \cup {<<r, t>>}
        BY <3>3, ActiveAfter
      <3>5. \A j \in Keys \ {k} : Calls(saver', j) = Calls(saver, j) \ {<<r, t>>}
        BY <3>3, ActiveAfter
      <3>6. OneOwner'
        <4>1. Calls(saver, k) = {} /\ \A j \in Keys : /\ j \in marker <=> Calls(saver, j) # {}
                                              /\ \A x, y \in Calls(saver, j) : x = y
          BY <2>4 DEF Inv, OneOwner
        <4>2. Calls(saver', k) = {<<r, t>>}
          BY <3>4, <4>1
        <4>3. \A j \in Keys \ {k} : Calls(saver', j) = Calls(saver, j)
          BY <2>2, <3>5
        <4>4. ASSUME NEW j \in Keys
              PROVE  /\ j \in marker' <=> Calls(saver', j) # {}
                     /\ \A x, y \in Calls(saver', j) : x = y
          <5>1. CASE j = k
            BY <2>4, <4>2, <5>1
          <5>2. CASE j # k
            <6>1. Calls(saver', j) = Calls(saver, j) /\ (j \in marker' <=> j \in marker)
              BY <2>4, <4>3, <5>2
            <6> QED
              BY <4>1, <6>1
          <5> QED
            BY <5>1, <5>2
        <4> QED
          BY <4>4 DEF OneOwner
      <3>7. marker' \subseteq Keys
        BY <1>4, <2>4
      <3> QED
        BY <1>4, <2>1, <3>1, <3>2, <3>6, <3>7, SaverAlone
    <2> QED
      BY <1>3, <1>6, <2>3, <2>4 DEF Begin
  <1>7. CASE WakeUp(r, t)
    <2>1. PICK pc \in {"poll", "write"} :
             /\ pc = IF Completed(saver[r][t].w) THEN "write" ELSE "poll"
             /\ SaverAt(r, t, pc)
      BY <1>7 DEF WakeUp, ReadyToSave
    <2>2. saver[r][t].pc = "sleep" /\ UNCHANGED <<reg, writer, disk, marker, req, expiries>>
      BY <1>7 DEF WakeUp
    <2>3. PICK q \in SaverRecord : /\ saver' = [saver EXCEPT ![r][t] = q]
                                   /\ q.pc = pc /\ q.key = k /\ q.w = saver[r][t].w
      BY <1>5, <2>1
    <2>4. Sound(q)'
      BY <1>2, <2>1, <2>2, <2>3 DEF Sound, Busy, Born, Completed
    <2>5. \A j \in Keys : Calls(saver', j) = Calls(saver, j)
      <3>1. <<r, t>> \in Calls(saver, k) /\ \A j \in Keys \ {k} : <<r, t>> \notin Calls(saver, j)
        BY <1>3, <2>2 DEF Calls
      <3>2. Moved(r, t, q) /\ q.pc = pc /\ q.key = k
        BY <2>3 DEF Moved
      <3>3. Calls(saver', k) = Calls(saver, k) \cup {<<r, t>>}
        BY <3>2, ActiveAfter
      <3>4. \A j \in Keys \ {k} : Calls(saver', j) = Calls(saver, j) \ {<<r, t>>}
        BY <3>2, ActiveAfter
      <3> QED
        BY <3>1, <3>3, <3>4
    <2> QED
      BY <1>4, <2>2, <2>3, <2>4, <2>5, SameOwners, SaverAlone
  <1>8. CASE Abort(r, t) \/ Save(r, t) \/ SaveFails(r, t)
    <2>1. saver[r][t].pc \in {"sleep", "poll", "write"} /\ Release(saver[r][t].key)
          /\ UNCHANGED <<reg, writer, req, expiries>>
      BY <1>8 DEF Abort, Save, SaveFails
    <2>2. disk' \subseteq Keys
      BY <1>3, <1>4, <1>8 DEF Abort, Save, SaveFails
    <2>3. \E pc \in {"over", "abandoned"} : Return(r, t, pc)
      BY <1>8 DEF Abort, Save, SaveFails
    <2> QED
      BY <2>1, <2>2, <2>3, OwnerLeaves
  <1> QED
    BY <1>6, <1>7, <1>8 DEF SaverStep

-------------------------------------------------------------------------------
(* Writers and their registration.                                         *)

\* A download ends.
LEMMA SettleInv ==
  ASSUME Inv, NEW w \in Writers, Settle(w)
  PROVE  Inv'
  <1>1. PICK st \in {"whole", "failed"} : writer' = [writer EXCEPT ![w].st = st]
    BY DEF Settle
  <1>2. writer[w].st = "fetching" /\ UNCHANGED <<reg, disk, marker, req, saver, expiries>>
    BY DEF Settle
  <1>3. writer \in [Writers -> WriterRecord]
    BY DEF Inv, TypeOK, WriterRecord
  <1>4. /\ writer' \in [Writers -> WriterRecord]
        /\ \A v \in Writers : /\ writer'[v].key = writer[v].key
                              /\ writer'[v].st = IF v = w THEN st ELSE writer[v].st
    BY <1>1, <1>3 DEF WriterRecord
  <1>5. Grow /\ \A k \in Keys : Of(k)' = Of(k)
    BY <1>2, <1>4 DEF Grow, Completed, Of
  <1>6. (ReqLive /\ SaverLive /\ RegLive /\ Births)'
    BY <1>2, <1>5, NoneMoves, SameBirths
  <1>7. OneOwner'
    BY <1>2, SameOwners DEF Calls
  <1>8. Unsaved'
    BY <1>2 DEF Inv, Unsaved
  <1> QED
    BY <1>2, <1>5, <1>6, <1>7, <1>8, Parts DEF Inv, TypeOK, ReqRecord, SaverRecord

\* A registration runs out.
LEMMA ExpireInv ==
  ASSUME Inv, NEW k \in Keys, Expire(k)
  PROVE  Inv'
  <1>1. /\ reg[k] # None /\ expiries["head"] + expiries["tail"] < MaxExpiries
        /\ reg' = [reg EXCEPT ![k] = None] /\ expiries' = [expiries EXCEPT ![k] = @ + 1]
        /\ UNCHANGED <<writer, disk, marker, req, saver>>
    BY DEF Expire
  <1>2. Grow /\ \A j \in Keys : Of(j)' = Of(j)
    BY <1>1, SameWriters
  <1>3. reg \in [Keys -> Writers \cup {None}] /\ expiries \in [Keys -> Nat]
    BY DEF Inv, TypeOK
  <1>4. /\ expiries' \in [Keys -> Nat]
        /\ \A j \in Keys : expiries'[j] = IF j = k THEN expiries[j] + 1 ELSE expiries[j]
        /\ expiries'["head"] + expiries'["tail"] <= MaxExpiries
    <2>1. /\ expiries' \in [Keys -> Nat]
          /\ \A j \in Keys : expiries'[j] = IF j = k THEN expiries[j] + 1 ELSE expiries[j]
      BY <1>1, <1>3
    <2>2. expiries["head"] \in Nat /\ expiries["tail"] \in Nat /\ MaxExpiries \in Nat
      BY <1>3, SystemAssumption DEF Keys
    <2>3. k = "head" \/ k = "tail"
      BY DEF Keys
    <2>4. /\ expiries'["head"] = IF "head" = k THEN expiries["head"] + 1 ELSE expiries["head"]
          /\ expiries'["tail"] = IF "tail" = k THEN expiries["tail"] + 1 ELSE expiries["tail"]
      BY <2>1 DEF Keys
    <2> QED
      BY <1>1, <2>1, <2>2, <2>3, <2>4
  <1>5. /\ reg' \in [Keys -> Writers \cup {None}]
        /\ \A j \in Keys : reg'[j] = IF j = k THEN None ELSE reg[j]
    BY <1>1, <1>3
  <1>6. RegLive'
    BY <1>1, <1>5 DEF Inv, RegLive, Born
  <1>7. Births'
    <2>1. IsFiniteSet(Of("head")) /\ IsFiniteSet(Of("tail"))
      BY SystemAssumption, FS_Subset DEF Of
    <2>2. \A j \in Keys : Cardinality(Of(j)) \in Nat
      BY <2>1, FS_CardinalityType DEF Keys
    <2>3. InUse(k) = 1 /\ InUse(k)' = 0
      BY <1>1, <1>5 DEF InUse
    <2>4. \A j \in Keys \ {k} : InUse(j)' = InUse(j) /\ InUse(j) \in Nat
      BY <1>5 DEF InUse
    <2>5. Births
      BY DEF Inv
    <2>6. ASSUME NEW j \in Keys PROVE Cardinality(Of(j)') <= InUse(j)' + expiries'[j]
      <3>1. /\ Of(j)' = Of(j) /\ Cardinality(Of(j)) \in Nat /\ expiries[j] \in Nat
            /\ Cardinality(Of(j)) <= InUse(j) + expiries[j]
            /\ expiries'[j] = IF j = k THEN expiries[j] + 1 ELSE expiries[j]
        BY <1>2, <1>3, <1>4, <2>2, <2>5 DEF Births
      <3> QED
        BY <2>3, <2>4, <3>1
    <2> QED
      BY <2>6 DEF Births
  <1>8. ReqLive' /\ SaverLive'
    BY <1>1, <1>2, NoneMoves
  <1>9. OneOwner'
    BY <1>1, SameOwners DEF Calls
  <1>10. Unsaved'
    BY <1>1 DEF Inv, Unsaved
  <1> QED
    BY <1>1, <1>2, <1>4, <1>5, <1>6, <1>7, <1>8, <1>9, <1>10, Parts
       DEF Inv, TypeOK, ReqRecord, SaverRecord

\* A cleanup, or no step at all.
LEMMA RestInv ==
  ASSUME Inv, Evict \/ UNCHANGED vars
  PROVE  Inv'
  <1>1. UNCHANGED <<reg, writer, marker, req, saver, expiries>>
    BY DEF Evict, vars
  <1>2. disk' \subseteq Keys
    BY DEF Inv, TypeOK, Evict, vars
  <1>3. Grow /\ \A k \in Keys : Of(k)' = Of(k)
    BY <1>1, SameWriters
  <1>4. (ReqLive /\ SaverLive /\ RegLive /\ Births)'
    BY <1>1, <1>3, NoneMoves, SameBirths
  <1>5. OneOwner'
    BY <1>1, SameOwners DEF Calls
  <1>6. Unsaved'
    BY <1>1 DEF Inv, Unsaved
  <1> QED
    BY <1>1, <1>2, <1>3, <1>4, <1>5, <1>6, Parts DEF Inv, TypeOK, ReqRecord, SaverRecord

-------------------------------------------------------------------------------
(* The theorems.                                                           *)

\* No writer was created and nothing is registered.
LEMMA InitInv ==
  ASSUME Init
  PROVE  Inv
  <1>1. TypeOK
    BY SystemAssumption DEF Init, TypeOK, Keys, NotCome, NoSaver, Asking
  <1>2. RegLive /\ ReqLive /\ SaverLive /\ Unsaved
    BY DEF Init, RegLive, ReqLive, SaverLive, Unsaved, Good, Sound, Busy, NotCome, NoSaver, Keys
  <1>3. OneOwner
    BY DEF Init, OneOwner, Calls, NoSaver
  <1>4. Births
    <2>1. \A k \in Keys : Of(k) = {} /\ InUse(k) = 0
      BY DEF Init, Of, InUse
    <2>2. \A k \in Keys : Cardinality(Of(k)) = 0
      BY <2>1, FS_EmptySet
    <2>3. \A k \in Keys : expiries[k] = 0
      BY DEF Init
    <2> QED
      BY <2>1, <2>2, <2>3 DEF Births
  <1> QED
    BY <1>1, <1>2, <1>3, <1>4 DEF Inv

\* Every step keeps the invariant.
LEMMA NextInv ==
  ASSUME Inv, [Next]_vars
  PROVE  Inv'
  <1>1. ASSUME NEW r \in Requests, RequestStep(r) \/ Disconnect(r) \/ Prefetch(r)
                                   \/ \E k \in Keys : Arrive(r, k)
        PROVE  Inv'
    BY <1>1, ArriveInv, UseOrEndInv, JoinWriterInv, NewWriterInv, UrlArrivesInv,
       UrlArrivesAndWarmsUpInv DEF RequestStep
  <1>2. ASSUME NEW r \in Requests, NEW t \in Tasks, SaverStep(r, t) PROVE Inv'
    BY <1>2, SaverInv
  <1>3. ASSUME NEW w \in Writers, Settle(w) PROVE Inv'
    BY <1>3, SettleInv
  <1>4. ASSUME NEW k \in Keys, Expire(k) PROVE Inv'
    BY <1>4, ExpireInv
  <1>5. CASE Evict \/ UNCHANGED vars
    BY <1>5, RestInv
  <1> QED
    BY <1>1, <1>2, <1>3, <1>4, <1>5 DEF Next

\* Every reachable state satisfies the invariant.
THEOREM Invariance == Spec => []Inv
  <1>1. Init => Inv
    BY InitInv
  <1>2. Inv /\ [Next]_vars => Inv'
    BY NextInv
  <1> QED
    BY <1>1, <1>2, PTL DEF Spec

\* Every variable keeps its type, and what is registered for a part of the
\* file, or read for it, is a writer of that part.
THEOREM TypeCorrect == Spec => []TypeOK
  <1>1. Inv => TypeOK
    BY DEF Inv
  <1> QED
    BY <1>1, Invariance, PTL

\* However many calls of _write_to_disk there are, the marker of a key stands
\* for exactly one that is past the check of it.
THEOREM MarkerHasOneOwner == Spec => []MarkerOwned
  <1>1. ASSUME Inv, NEW k \in Keys
        PROVE  Cardinality(Active(k)) = IF k \in marker THEN 1 ELSE 0
    <2>1. Active(k) = Calls(saver, k)
      BY DEF Active, Calls
    <2>2. /\ k \in marker <=> Active(k) # {}
          /\ \A p, q \in Active(k) : p = q
      BY <1>1, <2>1 DEF Inv, OneOwner
    <2>3. CASE k \in marker
      <3>1. PICK p : Active(k) = {p}
        BY <2>2, <2>3
      <3> QED
        BY <2>3, <3>1, FS_Singleton
    <2>4. CASE k \notin marker
      BY <2>2, <2>4, FS_EmptySet
    <2> QED
      BY <2>3, <2>4
  <1>2. Inv => MarkerOwned
    BY <1>1 DEF MarkerOwned
  <1> QED
    BY <1>2, Invariance, PTL

\* However many requests miss at once, a range is downloaded once, and once
\* more for each registration of it that ran out.
THEOREM OneDownload == Spec => []DownloadOnce
  <1>1. ASSUME Inv, NEW k \in Keys PROVE Cardinality(Of(k)) <= 1 + expiries[k]
    <2>1. InUse(k) \in {0, 1} /\ expiries[k] \in Nat /\ Cardinality(Of(k)) <= InUse(k) + expiries[k]
      BY <1>1 DEF Inv, TypeOK, Births, InUse
    <2>2. IsFiniteSet(Of(k))
      BY SystemAssumption, FS_Subset DEF Of
    <2>3. Cardinality(Of(k)) \in Nat
      BY <2>2, FS_CardinalityType
    <2> QED
      BY <2>1, <2>3
  <1>2. Inv => DownloadOnce
    BY <1>1 DEF DownloadOnce, Of
  <1> QED
    BY <1>2, Invariance, PTL

\* FileStorage is only given writers whose download has ended.
THEOREM SavesAreSettled == Spec => []SavesSettled
  <1>1. Inv => SavesSettled
    BY DEF Inv, SaverLive, Sound, SavesSettled
  <1> QED
    BY <1>1, Invariance, PTL

\* The bound on the writers never keeps a request from creating one: while a
\* sub key has no registered writer there is one left.
THEOREM WritersSuffice == Spec => []((\E k \in Keys : reg[k] = None) => CanCreate)
  <1>1. ASSUME Inv, NEW k \in Keys, reg[k] = None PROVE CanCreate
    <2>1. SUFFICES ASSUME ~CanCreate PROVE FALSE
      OBVIOUS
    <2>2. Writers = Of("head") \cup Of("tail") /\ Of("head") \cap Of("tail") = {}
      BY <1>1, <2>1 DEF Inv, TypeOK, CanCreate, Of, Keys
    <2>3. IsFiniteSet(Of("head")) /\ IsFiniteSet(Of("tail"))
      BY SystemAssumption, FS_Subset DEF Of
    <2>4. Cardinality(Writers) = Cardinality(Of("head")) + Cardinality(Of("tail"))
      <3>1. Cardinality({}) = 0
        BY FS_EmptySet
      <3>2. /\ Cardinality(Of("head")) \in Nat /\ Cardinality(Of("tail")) \in Nat
        BY <2>3, FS_CardinalityType
      <3>3. Cardinality(Of("head") \cup Of("tail"))
               = Cardinality(Of("head")) + Cardinality(Of("tail"))
                 - Cardinality(Of("head") \cap Of("tail"))
        BY <2>3, FS_Union
      <3>4. Cardinality(Of("head") \cap Of("tail")) = 0
        BY <2>2, <3>1
      <3>5. Cardinality(Of("head") \cup Of("tail")) = Cardinality(Writers)
        BY <2>2
      <3> QED
        BY <3>2, <3>3, <3>4, <3>5
    <2>5. Cardinality(Keys) = 2
      <3>1. Cardinality({"head"}) = 1 /\ IsFiniteSet({"head"})
        BY FS_Singleton
      <3>2. Keys = {"head"} \cup {"tail"} /\ "tail" \notin {"head"}
        BY DEF Keys
      <3> QED
        BY <3>1, <3>2, FS_AddElement
    <2>6. InUse("head") + InUse("tail") <= 1
      BY <1>1 DEF InUse, Keys
    <2>7. /\ Cardinality(Of("head")) <= InUse("head") + expiries["head"]
          /\ Cardinality(Of("tail")) <= InUse("tail") + expiries["tail"]
          /\ expiries["head"] + expiries["tail"] <= MaxExpiries
          /\ expiries["head"] \in Nat /\ expiries["tail"] \in Nat
      BY <1>1 DEF Inv, TypeOK, Births, Keys
    <2>8. InUse("head") \in Nat /\ InUse("tail") \in Nat /\ MaxExpiries \in Nat
      BY SystemAssumption DEF InUse
    <2>9. Cardinality(Writers) = 2 + MaxExpiries
      BY <2>5, SystemAssumption
    <2>10. /\ Cardinality(Of("head")) \in Nat /\ Cardinality(Of("tail")) \in Nat
      BY <2>3, FS_CardinalityType
    <2> QED
      BY <2>4, <2>6, <2>7, <2>8, <2>9, <2>10
  <1>2. Inv => ((\E k \in Keys : reg[k] = None) => CanCreate)
    BY <1>1
  <1> QED
    BY <1>2, Invariance, PTL
===============================================================================
