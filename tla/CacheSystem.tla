------------------------------ MODULE CacheSystem ------------------------------
(***************************************************************************)
(* CacheSystem of cache/system.py for one media file: how requests         *)
(* (routes/redirect.py, utils/network.py), the registry of writers, the    *)
(* writers and the tasks that save them to disk work on one another.       *)
(*                                                                         *)
(* The parts it is composed of are reduced to what the others rely on: a   *)
(* writer to ChunksWriter's Source (with "idle" for one whose write() was  *)
(* not called), the registry to TaskRegistry's table for the two sub keys  *)
(* of the file, a write to disk to what FileStorage makes of it: there is  *)
(* a file under the name of the range afterwards, or nothing.              *)
(*                                                                         *)
(* A step is what runs between two suspension points.  The locks of        *)
(* TaskManager are never contended, so looking a writer up and registering *)
(* a new one is one step, and so is everything that start_write_cache_file *)
(* does once it has the url.                                               *)
(***************************************************************************)
EXTENDS Integers, FiniteSets

CONSTANTS Requests,     \* the requests for the file, and its prefetches
          Writers,      \* the ChunksWriter objects there can be
          None,         \* no writer
          DiskCache,    \* ~MEMORY_CACHE_ONLY
          MaxExpiries   \* bound: registrations that run out

\* The sub keys of a file, and the tasks a request may create: to save the
\* writer it asked for, and the tail it warmed up.
Keys  == {"head", "tail"}
Tasks == {"own", "warm"}

ASSUME SystemAssumption ==
    /\ None \notin Writers
    /\ DiskCache \in BOOLEAN
    /\ MaxExpiries \in Nat
    /\ IsFiniteSet(Writers)
    /\ Cardinality(Writers) = Cardinality(Keys) + MaxExpiries

VARIABLES reg,       \* reg[k]: the writer registered under sub key k, or None
          writer,    \* writer[w]: [key, st]
          disk,      \* the keys of which there is a file on disk
          marker,    \* the keys for which disk_writer_... is registered
          req,       \* req[r]: where request r stands
          saver,     \* saver[r][t]: the task _write_to_disk that r created as t
          expiries   \* expiries[k]: registrations under k that ran out so far

vars == <<reg, writer, disk, marker, req, saver, expiries>>

\* A request that has not come; prefetch: it is one of cache_next_episode.
\* own: the writer it is to start; w: the writer it reads.
NotCome == [pc |-> "new", key |-> "head", own |-> None, w |-> None, prefetch |-> FALSE]

NoSaver == [pc |-> "none", key |-> "head", w |-> None]

Init == /\ reg = [k \in Keys |-> None]
        /\ writer = [w \in Writers |-> [key |-> "head", st |-> "unborn"]]
        /\ disk = {} /\ marker = {}
        /\ req = [r \in Requests |-> NotCome]
        /\ saver = [r \in Requests |-> [t \in Tasks |-> NoSaver]]
        /\ expiries = [k \in Keys |-> 0]

Completed(w) == writer[w].st \in {"whole", "failed"}

-------------------------------------------------------------------------------
(* Requests.                                                               *)

\* Request r is "over", in whatever way, or was given "nothing".
Leave(r, pc) == req' = [req EXCEPT ![r] = [NotCome EXCEPT !.pc = pc]]

\* get_cache_file, given the registry, and the request goes on with what it
\* returns: the writer's stream, a file's, or None, after a warning.
Serve(r, k, table) ==
    IF table[k] # None
    THEN req' = [req EXCEPT ![r].pc = "reading", ![r].key = k, ![r].w = table[k]]
    ELSE Leave(r, IF k \in disk THEN "over" ELSE "nothing")

\* get_cache_status.  At its one call for a request the status of the range is
\* not set yet, so it looks for the head's writer whatever is asked for.
CacheExist(k) == reg["head"] # None \/ k \in disk

\* A request for the head or the tail of the file, up to the first await after
\* get_cache_status.
Arrive(r, k) ==
    /\ req[r].pc = "new"
    /\ IF CacheExist(k)
       THEN Serve(r, k, reg)
       ELSE req' = [req EXCEPT ![r].pc = "miss", ![r].key = k]
    /\ UNCHANGED <<reg, writer, disk, marker, saver, expiries>>

\* cache_next_episode has found this file: it is done if the head is cached.
Prefetch(r) ==
    /\ req[r].pc = "new"
    /\ IF CacheExist("head")
       THEN Leave(r, "over")
       ELSE req' = [req EXCEPT ![r].pc = "miss", ![r].prefetch = TRUE]
    /\ UNCHANGED <<reg, writer, disk, marker, saver, expiries>>

\* There is a ChunksWriter left to create, and this is the next.
CanCreate == \E w \in Writers : writer[w].st = "unborn"
Fresh == CHOOSE w \in Writers : writer[w].st = "unborn"

\* Mutant: a new writer is registered only when it is started.
RegisterLater(k, w) == UNCHANGED reg

\* create_task(ChunksWriter, ...) in _get_writer
Register(k, w) == reg' = [reg EXCEPT ![k] = w]

\* Mutant: a writer that is registered is taken to be started.
Registered(w) == TRUE

\* writer.task is not None
HasTask(w) == writer[w].st # "idle"

\* start_write_cache_file up to the url.  A writer that is registered and has
\* its task is used as it is; a new one, or one that still waits for a url,
\* is started by whoever gets the url first.
UseWriter(r) ==
    /\ req[r].pc = "miss"
    /\ LET k == req[r].key
       IN  /\ reg[k] # None /\ HasTask(reg[k])
           /\ IF req[r].prefetch THEN Leave(r, "over")
                                 ELSE Serve(r, k, reg)
    /\ UNCHANGED <<reg, writer, disk, marker, saver, expiries>>

GetUrl(r, w) == req' = [req EXCEPT ![r].pc = "url", ![r].own = w]

JoinWriter(r) ==
    /\ req[r].pc = "miss"
    /\ LET k == req[r].key
       IN  /\ reg[k] # None /\ ~HasTask(reg[k])
           /\ GetUrl(r, reg[k])
    /\ UNCHANGED <<reg, writer, disk, marker, saver, expiries>>

NewWriter(r) ==
    /\ req[r].pc = "miss" /\ reg[req[r].key] = None /\ CanCreate
    /\ Register(req[r].key, Fresh)
    /\ writer' = [writer EXCEPT ![Fresh] = [key |-> req[r].key, st |-> "idle"]]
    /\ GetUrl(r, Fresh)
    /\ UNCHANGED <<disk, marker, saver, expiries>>

\* get_raw_url raises: the writer stays registered, without a task.
UrlFails(r) == /\ req[r].pc = "url"
               /\ Leave(r, "over")
               /\ UNCHANGED <<reg, writer, disk, marker, saver, expiries>>

\* write() on the writers ws: one that has its task is left alone.
Started(ws) == [w \in Writers |->
    IF w \in ws /\ writer[w].st \in {"unborn", "idle"}
    THEN [writer[w] EXCEPT !.st = "fetching"] ELSE writer[w]]

\* The tasks _write_to_disk of r for the writer it asked for and, unless None,
\* the tail it warms up; none if only memory is used.
Saving(r, warm) ==
    IF ~DiskCache THEN saver ELSE
    [saver EXCEPT
        ![r]["own"]  = [pc |-> "new", key |-> req[r].key, w |-> req[r].own],
        ![r]["warm"] = IF warm = None THEN @
                       ELSE [pc |-> "new", key |-> "tail", w |-> warm]]

\* get_cache_file looks the writer up again; a prefetch has no use for it.
Continue(r, table) == IF req[r].prefetch
                      THEN Leave(r, "over")
                      ELSE Serve(r, req[r].key, table)

\* The url is there: the writer is started and the write to disk set up.
UrlArrives(r) ==
    /\ req[r].pc = "url" /\ reg["tail"] # None
    /\ writer' = Started({req[r].own})
    /\ saver' = Saving(r, None)
    /\ Continue(r, reg)
    /\ UNCHANGED <<reg, disk, marker, expiries>>

\* Mutant: the copy of the request keeps the status of the original.
StatusKept == "head"

\* The sub key of the request that _warm_up_tail_cache makes up.
WarmKey == "tail"

\* The same, and no writer is registered for the tail: it is warmed up.
UrlArrivesAndWarmsUp(r) ==
    /\ req[r].pc = "url" /\ reg["tail"] = None /\ CanCreate
    /\ writer' = [Started({req[r].own, Fresh}) EXCEPT ![Fresh].key = "tail"]
    /\ saver' = Saving(r, Fresh)
    /\ reg' = [reg EXCEPT ![WarmKey] = Fresh]
    /\ Continue(r, reg')
    /\ UNCHANGED <<disk, marker, expiries>>

\* The stream of a writer that completed ends: whole, or broken off by the
\* error or cut short by it.
ReadEnds(r) ==
    /\ req[r].pc = "reading" /\ Completed(req[r].w)
    /\ Leave(r, "over")
    /\ UNCHANGED <<reg, writer, disk, marker, saver, expiries>>

\* The client goes away: what it awaits is cancelled.
Disconnect(r) ==
    /\ req[r].pc \in {"miss", "url", "reading"} /\ ~req[r].prefetch
    /\ Leave(r, "over")
    /\ UNCHANGED <<reg, writer, disk, marker, saver, expiries>>

-------------------------------------------------------------------------------
(* Writers and their registration.                                         *)

\* The download ends: ChunksWriter sets `completed`, perhaps with an error.
Settle(w) == /\ writer[w].st = "fetching"
             /\ \E st \in {"whole", "failed"} :
                   writer' = [writer EXCEPT ![w].st = st]
             /\ UNCHANGED <<reg, disk, marker, req, saver, expiries>>

\* The registration is older than its 180 s and _cleanup_task removes it.
Expire(k) == /\ reg[k] # None /\ expiries["head"] + expiries["tail"] < MaxExpiries
             /\ reg' = [reg EXCEPT ![k] = None]
             /\ expiries' = [expiries EXCEPT ![k] = @ + 1]
             /\ UNCHANGED <<writer, disk, marker, req, saver>>

-------------------------------------------------------------------------------
(* _write_to_disk.                                                         *)

SaverAt(r, t, pc) == saver' = [saver EXCEPT ![r][t].pc = pc]

\* The call returns.
Return(r, t, pc) == saver' = [saver EXCEPT ![r][t] = [NoSaver EXCEPT !.pc = pc]]

\* Mutant: the `finally` belongs to the whole function.
SkipAndRelease(k) == marker' = marker \ {k}

\* Somebody saves the key already: its marker is left alone.
Skip(k) == UNCHANGED marker

\* The task starts: it marks the key, or there is nothing for it to do.
Begin(r, t) ==
    /\ saver[r][t].pc = "new"
    /\ LET k == saver[r][t].key
       IN  \/ k \in marker    /\ Return(r, t, "over") /\ Skip(k)
           \/ k \notin marker /\ SaverAt(r, t, "sleep") /\ marker' = marker \cup {k}
    /\ UNCHANGED <<reg, writer, disk, req, expiries>>

\* Mutant: the writer is saved as far as it has come.
NoWait(w) == TRUE

\* writer.completed, after the 60 s
ReadyToSave(w) == Completed(w)

\* The 60 s are over.
WakeUp(r, t) ==
    /\ saver[r][t].pc = "sleep"
    /\ SaverAt(r, t, IF ReadyToSave(saver[r][t].w) THEN "write" ELSE "poll")
    /\ UNCHANGED <<reg, writer, disk, marker, req, expiries>>

\* Mutant: the marker is kept after a `return`.
Keep(k) == UNCHANGED marker

\* remove_task in the `finally`
Release(k) == marker' = marker \ {k}

\* The three polls are over, or one found the writer completed ("abandoned"):
\* either way the call returns.
Abort(r, t) ==
    /\ saver[r][t].pc = "poll"
    /\ Return(r, t, IF Completed(saver[r][t].w) THEN "abandoned" ELSE "over")
    /\ Release(saver[r][t].key)
    /\ UNCHANGED <<reg, writer, disk, req, expiries>>

\* storage.write_to_disk leaves a file under the name of the range.
Save(r, t) ==
    /\ saver[r][t].pc = "write" /\ writer[saver[r][t].w].st = "whole"
    /\ disk' = disk \cup {saver[r][t].key}
    /\ Return(r, t, "over")
    /\ Release(saver[r][t].key)
    /\ UNCHANGED <<reg, writer, req, expiries>>

\* It fails or is timed out; if the writer holds an error it always fails.
SaveFails(r, t) ==
    /\ saver[r][t].pc = "write"
    /\ Return(r, t, "over")
    /\ Release(saver[r][t].key)
    /\ UNCHANGED <<reg, writer, disk, req, expiries>>

\* The directory of the file is removed by a cleanup.
Evict == /\ disk # {}
         /\ disk' = {}
         /\ UNCHANGED <<reg, writer, marker, req, saver, expiries>>

-------------------------------------------------------------------------------
RequestStep(r) == \/ UseWriter(r) \/ JoinWriter(r) \/ NewWriter(r)
                  \/ UrlFails(r) \/ UrlArrives(r) \/ UrlArrivesAndWarmsUp(r)
                  \/ ReadEnds(r)

SaverStep(r, t) == Begin(r, t) \/ WakeUp(r, t) \/ Abort(r, t) \/ Save(r, t) \/ SaveFails(r, t)

Next == \/ \E r \in Requests : \/ RequestStep(r) \/ Disconnect(r) \/ Prefetch(r)
                               \/ \E k \in Keys : Arrive(r, k)
                               \/ \E t \in Tasks : SaverStep(r, t)
        \/ \E w \in Writers : Settle(w)
        \/ \E k \in Keys : Expire(k)
        \/ Evict

Spec == Init /\ [][Next]_vars

\* The loop runs what is ready, a url comes or fails, a download ends
\* (ChunksWriter's StreamsEnd), sleeps end, and a write to disk ends
\* (FileStorage's JobsEnd, and the 90 s).  No such step can repeat for ever, so
\* it is enough that the loop does not stand still while one is possible.
\* Clients, expiry and eviction are free.
SystemStep == \/ \E r \in Requests : RequestStep(r) \/ \E t \in Tasks : SaverStep(r, t)
              \/ \E w \in Writers : Settle(w)

FairSpec == Spec /\ WF_vars(SystemStep)

-------------------------------------------------------------------------------
(* Properties.                                                             *)

Asking == {"miss", "url", "reading"}

\* The types; what is registered under a sub key, and read for it, is a writer
\* of that part of the file.
TypeOK ==
    /\ reg \in [Keys -> Writers \cup {None}]
    /\ \A k \in Keys : reg[k] # None => writer[reg[k]].key = k
    /\ \A r \in Requests : req[r].pc = "reading" => writer[req[r].w].key = req[r].key
    /\ writer \in [Writers -> [key : Keys,
                             st : {"unborn", "idle", "fetching", "whole", "failed"}]]
    /\ disk \subseteq Keys /\ marker \subseteq Keys
    /\ req \in [Requests ->
          [pc : {"new", "over", "nothing"} \cup Asking,
           key : Keys, own : Writers \cup {None}, w : Writers \cup {None},
           prefetch : BOOLEAN]]
    /\ saver \in [Requests -> [Tasks ->
          [pc : {"none", "new", "sleep", "poll", "write", "over", "abandoned"},
           key : Keys, w : Writers \cup {None}]]]
    /\ expiries \in [Keys -> Nat] /\ expiries["head"] + expiries["tail"] <= MaxExpiries

\* The calls of _write_to_disk that are past the check of the marker.
Active(k) == {p \in Requests \X Tasks :
                /\ saver[p[1]][p[2]].key = k
                /\ saver[p[1]][p[2]].pc \in {"sleep", "poll", "write"}}

\* The marker stands for exactly one call that is under way, however many
\* requests start and join writers of the key: nobody writes the range beside
\* it, and a call that finds the marker never takes it away from its owner.
MarkerOwned ==
    \A k \in Keys : Cardinality(Active(k)) = IF k \in marker THEN 1 ELSE 0

\* However many requests miss at once, and wait for the url at once, a range is
\* downloaded again only after a registration of its own sub key ran out: the
\* warm-up of the tail and the requests for it do not start two.
DownloadOnce ==
    \A k \in Keys :
        Cardinality({w \in Writers : writer[w].st # "unborn" /\ writer[w].key = k})
            <= 1 + expiries[k]

\* FileStorage is given a writer whose outcome stands, which is what makes its
\* read() hand out all the writer will ever have, or raise.
SavesSettled == \A r \in Requests, t \in Tasks :
    saver[r][t].pc = "write" => Completed(saver[r][t].w)

\* r has started a writer, and reads another one, that has no task and for which
\* nobody gets a url: while r waited for its url, the registration of its
\* own ran out, and the next writer was registered and abandoned.
Stranded(r) ==
    /\ req[r].pc = "reading" /\ req[r].own \notin {None, req[r].w}
    /\ writer[req[r].w].st = "idle"
    /\ ~\E s \in Requests : req[s].pc = "url" /\ req[s].own = req[r].w

\* A request that missed comes to its end, although it may join a writer of
\* which another request, that fails or goes away, was to get the url - unless
\* it is stranded for good, which the code lets happen: get_cache_file looks the
\* writer up again and never compares it with the one that was just started
\* (network.py:63-64, system.py:185, 193, 237).
MissEnds == \A r \in Requests :
    req[r].pc = "miss" ~> (req[r].pc \notin Asking \/ []Stranded(r))

\* A request that is served from memory is not left waiting either.  It is: a
\* writer whose url failed, or whose client went away meanwhile, stays
\* registered, and nobody will start it.
ReadersServed == \A r \in Requests :
    req[r].pc = "reading" ~> req[r].pc # "reading"
===============================================================================
