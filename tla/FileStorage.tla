------------------------------ MODULE FileStorage ------------------------------
(***************************************************************************)
(* FileStorage of cache/storage/file_storage.py, with the removal of a     *)
(* cache directory from cache/cleanup.py: files on disk, the TinyDB        *)
(* records about them, and the calls of write_to_disk that run side by     *)
(* side.                                                                   *)
(*                                                                         *)
(* A step is what happens between two suspension points of the event loop, *)
(* or one operation that a thread carries out for it (aiofiles: remove,    *)
(* open, write, rename, unlink).  write_to_disk runs under                 *)
(* wait_for(.., 90), so it can be cancelled wherever it awaits; the        *)
(* process can stop at any time and the disk is what it was.               *)
(*                                                                         *)
(* A rename that a thread has begun is taken to end before another job of  *)
(* the directory gets as far as opening its file.                          *)
(*                                                                         *)
(* A cached file is named by the range of the request that saved it, and   *)
(* modelled by the number of bytes it holds.  It can hold fewer than the   *)
(* name says: the writer may have been made for a shorter range.           *)
(***************************************************************************)
EXTENDS Integers, Sequences, FiniteSets, Sums

CONSTANTS Dirs,        \* the cache directories (one per name, size, container)
          Ranges,      \* the ranges written, <<first, last>>
          Jobs,        \* the calls of write_to_disk
          Streams,     \* the calls of read_from_disk
          None,        \* nobody, nothing
          MaxCrashes   \* bound: restarts of the process

\* A row of cache_files: the bytes of the directory, how often it was used, and
\* the number of uses its score is computed from.
Row == [size : Nat, access : Nat, scored : Nat]

ASSUME StorageAssumption ==
    /\ \A r \in Ranges : r \in Nat \X Nat /\ r[1] <= r[2]
    /\ None \notin Jobs /\ None \notin Row /\ None \notin Dirs
    /\ MaxCrashes \in Nat

VARIABLES dirs,      \* the directories that exist
          final,     \* final[d][r]: the bytes in the file cache_file_<r> of d
          tmp,       \* tmp[d][r]: the bytes in cache_file_<r>.tmp of d, 0 till filled
          lock,      \* lock[d]: the job that holds the lock of d
          job,       \* job[j]: the call j of write_to_disk
          record,    \* record[d]: the row of d in table cache_files, or None
          sysSize,   \* cache_size in table system_info
          sysCount,  \* cache_count
          table,     \* the table the shared TinyDBHandler is set to
          pending,   \* the update_score tasks not yet run, first to run first
          stream,    \* stream[q]: the call q of read_from_disk
          crashes,   \* restarts so far
          torn,      \* a restart fell between two writes to the database
          evicted    \* a directory was removed, or half removed, before

disk  == <<dirs, final, tmp>>
db    == <<record, sysSize, sysCount, table, pending>>
ghost == <<crashes, torn, evicted>>
vars  == <<disk, lock, job, db, stream, ghost>>

Size(r) == (r[2] - r[1]) + 1

\* r covers all of q.
Covers(r, q) == r[1] <= q[1] /\ q[2] <= r[2]

\* No such file.
Absent == -1

Files(d) == {r \in Ranges : final[d][r] # Absent}

\* A call: gives is the number of bytes read() hands out for the range before
\* it ends, 0 if it raises.
Idle == [pc |-> "idle", dir |-> None, rng |-> None, gives |-> 0, todo |-> {}]

Running == {"lock", "clear", "fill", "rename", "renamed", "undo", "unlink"}
Over    == {"skipped", "done", "failed", "cancelled", "orphaned"}

NoFiles == [d \in Dirs |-> [r \in Ranges |-> Absent]]

Init == /\ dirs = {} /\ final = NoFiles /\ tmp = NoFiles
        /\ lock = [d \in Dirs |-> None]
        /\ job = [j \in Jobs |-> Idle]
        /\ record = [d \in Dirs |-> None]
        /\ sysSize = 0 /\ sysCount = 0
        /\ table = "cache_files" /\ pending = <<>>
        /\ stream = [q \in Streams |-> [pc |-> "idle"]]
        /\ crashes = 0 /\ torn = FALSE /\ evicted = FALSE

-------------------------------------------------------------------------------
(* write_to_disk.                                                          *)

Dir(j) == job[j].dir
Rng(j) == job[j].rng

Goto(j, pc) == job' = [job EXCEPT ![j].pc = pc]

\* Leaving the `async with` of the directory's lock, whatever the reason.
Release(j) == lock' = [d \in Dirs |-> IF lock[d] = j THEN None ELSE lock[d]]

\* r and w are kept under one sub key: two heads, or two tails of a file.
SameKey(r, w) == IF r[1] = 0 THEN w[1] = 0 ELSE w[1] # 0 /\ w[2] = r[2]

\* What read() of range r hands out if the writer has completed range w.  The
\* writer is that of the sub key, whichever request or prefetch made it: if it
\* ends before r does read() ends with it, if it begins after r does it raises.
Handed(r, w) == CASE r[1] < w[1]  -> 0
                  [] r[1] >= w[1] -> (IF w[2] < r[2] THEN w[2] ELSE r[2]) - r[1] + 1

\* The call, up to asking for the lock, with a writer that completed without
\* error or, so that read() raises IOError, with one.
Call(j) == /\ job[j].pc = "idle"
           /\ \E d \in Dirs, r, w \in Ranges : \E gives \in {0, Handed(r, w)} :
                 /\ SameKey(r, w)
                 /\ job' = [job EXCEPT ![j] =
                       [pc |-> "lock", dir |-> d, rng |-> r,
                        gives |-> gives, todo |-> {}]]
                 /\ dirs' = dirs \cup {d}
           /\ UNCHANGED <<final, tmp, lock, db, stream, ghost>>

\* The files of d that range r makes superfluous.
Overlaps(d, r) == {q \in Files(d) : Covers(r, q)}

\* Mutant: no lock.
NoLock(d) == TRUE

\* Nobody is inside the `async with` of the directory's lock.
Free(d) == lock[d] = None

\* The lock is free: either the range is there already, or the job owns the
\* directory and has listed what to remove.
Acquire(j) ==
    /\ job[j].pc = "lock" /\ Free(Dir(j))
    /\ IF \E r \in Files(Dir(j)) : Covers(r, Rng(j))
       THEN Goto(j, "skipped") /\ UNCHANGED lock
       ELSE /\ lock' = [lock EXCEPT ![Dir(j)] = j]
            /\ job' = [job EXCEPT ![j].pc = "clear",
                                  ![j].todo = Overlaps(Dir(j), Rng(j))]
    /\ UNCHANGED <<disk, db, stream, ghost>>

\* One superfluous file is removed; one that is gone by now is passed over.
\* Neither the record nor cache_size is told.
Clear(j) ==
    /\ job[j].pc = "clear"
    /\ \E r \in job[j].todo :
          /\ final' = [final EXCEPT ![Dir(j)][r] = Absent]
          /\ job' = [job EXCEPT ![j].todo = @ \ {r}]
    /\ UNCHANGED <<dirs, tmp, lock, db, stream, ghost>>

\* Mutant: the lock is kept when an exception passes.
FailLocked(j) == Goto(j, "undo") /\ UNCHANGED lock

\* An exception below the lock, except CancelledError: the lock is released,
\* then the handler looks for the .tmp file.
Fail(j) == Goto(j, "undo") /\ Release(j)

\* The file to remove vanished between is_file() and remove().
ClearFails(j) ==
    /\ job[j].pc = "clear"
    /\ \E r \in job[j].todo : final[Dir(j)][r] = Absent
    /\ Fail(j)
    /\ UNCHANGED <<disk, db, stream, ghost>>

\* open(temp_path, 'wb'): created, or emptied.
Open(j) ==
    /\ job[j].pc = "clear" /\ job[j].todo = {}
    /\ IF Dir(j) \in dirs
       THEN /\ tmp' = [tmp EXCEPT ![Dir(j)][Rng(j)] = 0]
            /\ Goto(j, "fill") /\ UNCHANGED lock
       ELSE Fail(j) /\ UNCHANGED tmp
    /\ UNCHANGED <<dirs, final, db, stream, ghost>>

\* What read() hands out is written and the file closed; nothing compares it
\* with the range.  If the name was removed meanwhile the bytes go to a file
\* without a name.
Fill(j) ==
    /\ job[j].pc = "fill" /\ job[j].gives > 0
    /\ tmp' = [tmp EXCEPT ![Dir(j)][Rng(j)] = IF @ = Absent THEN @ ELSE job[j].gives]
    /\ Goto(j, "rename")
    /\ UNCHANGED <<dirs, final, lock, db, stream, ghost>>

\* Mutant: the error ends the loop like the last chunk does.
FillStopsShort(j) == /\ job[j].pc = "fill" /\ job[j].gives = 0
                     /\ Goto(j, "rename")
                     /\ UNCHANGED <<disk, lock, db, stream, ghost>>

\* read() raises IOError, perhaps after some bytes.
FillFails(j) == /\ job[j].pc = "fill" /\ job[j].gives = 0
                /\ Fail(j)
                /\ UNCHANGED <<disk, db, stream, ghost>>

MoveTmp(d, r) == /\ final' = [final EXCEPT ![d][r] = tmp[d][r]]
                 /\ tmp' = [tmp EXCEPT ![d][r] = Absent]

\* rename, in its thread; without a .tmp file it raises.
Rename(j) ==
    /\ job[j].pc = "rename"
    /\ IF tmp[Dir(j)][Rng(j)] # Absent
       THEN MoveTmp(Dir(j), Rng(j)) /\ Goto(j, "renamed") /\ UNCHANGED lock
       ELSE Fail(j) /\ UNCHANGED <<final, tmp>>
    /\ UNCHANGED <<dirs, db, stream, ghost>>

\* The two awaits of the exception handler, outside the lock.
Undo(j) ==
    /\ job[j].pc = "undo"
    /\ Goto(j, IF tmp[Dir(j)][Rng(j)] = Absent THEN "failed" ELSE "unlink")
    /\ UNCHANGED <<disk, lock, db, stream, ghost>>

Unlink(j) ==
    /\ job[j].pc = "unlink"
    /\ tmp' = [tmp EXCEPT ![Dir(j)][Rng(j)] = Absent]
    /\ Goto(j, "failed")
    /\ UNCHANGED <<dirs, final, lock, db, stream, ghost>>

\* Mutant: the new file's size replaces the directory's.
RowReplaced(d, n) ==
    IF record[d] = None THEN [size |-> n, access |-> 1, scored |-> 1]
    ELSE [record[d] EXCEPT !.size = n, !.access = @ + 1]

\* The row of d after one more file of size n: inserted with its score, or
\* updated, its score to follow in a task of its own.
RowAfter(d, n) ==
    IF record[d] = None THEN [size |-> n, access |-> 1, scored |-> 1]
    ELSE [record[d] EXCEPT !.size = @ + n, !.access = @ + 1]

\* Mutant: every file counts as a directory.
EveryFile(d) == 1

\* is_new, as it counts for cache_count.
IsNew(d) == IF record[d] = None THEN 1 ELSE 0

\* stat().st_size of the file of j.
Stat(j) == final[Dir(j)][Rng(j)]

\* rename has returned: the lock is released and the statistics are written,
\* without a suspension in between.  stat() raises if the file is gone.
Commit(j) ==
    /\ job[j].pc = "renamed"
    /\ Release(j)
    /\ IF Stat(j) = Absent
       THEN Goto(j, "failed") /\ UNCHANGED db
       ELSE /\ Goto(j, "done")
            /\ record' = [record EXCEPT ![Dir(j)] = RowAfter(Dir(j), Stat(j))]
            /\ pending' = IF record[Dir(j)] = None THEN pending
                          ELSE Append(pending, [dir    |-> Dir(j),
                                                access |-> record'[Dir(j)].access])
            /\ table' = "system_info"
            /\ sysSize' = sysSize + Stat(j)
            /\ sysCount' = sysCount + IsNew(Dir(j))
    /\ UNCHANGED <<disk, stream, ghost>>

\* The next task update_score runs: on whatever table the handler is set to.
UpdateScore ==
    /\ pending # <<>>
    /\ pending' = Tail(pending)
    /\ LET p == Head(pending)
       IN  record' = IF table = "cache_files" /\ record[p.dir] # None
                     THEN [record EXCEPT ![p.dir].scored = p.access]
                     ELSE record
    /\ UNCHANGED <<disk, lock, job, sysSize, sysCount, table, stream, ghost>>

\* recalculate_all_scores of score.py, on a schedule and before a cleanup.
Recalculate ==
    /\ record' = [d \in Dirs |-> IF record[d] = None THEN None
                                ELSE [record[d] EXCEPT !.scored = record[d].access]]
    /\ table' = "cache_files"
    /\ UNCHANGED <<disk, lock, job, sysSize, sysCount, pending, stream, ghost>>

\* Where a call is left that is cancelled: if its rename is done, the file is
\* there and nothing accounts for it.
Cut(pc) == IF pc = "renamed" THEN "orphaned" ELSE "cancelled"

\* wait_for cancels the call after 90 s.  CancelledError is not caught: the
\* lock is released and a .tmp file stays.
Timeout(j) ==
    /\ job[j].pc \in Running
    /\ Release(j)
    /\ Goto(j, Cut(job[j].pc))
    /\ UNCHANGED <<disk, db, stream, ghost>>

-------------------------------------------------------------------------------
(* Lookups and read_from_disk.                                             *)

\* get_file_headers, or get_cache_file_path where no file serves the request.
Lookup(d) ==
    /\ dirs' = dirs \cup {d}
    /\ table' \in {table, "cache_files"}
    /\ UNCHANGED <<final, tmp, lock, job, record, sysSize, sysCount, pending,
                   stream, ghost>>

\* get_cache_file_path finds a file that holds the start of the request, and
\* the generator is returned; it opens the file when it is iterated.
Find(q) ==
    /\ stream[q].pc = "idle"
    /\ \E d \in Dirs :
          /\ dirs' = dirs \cup {d}
          /\ \E r \in Files(d) :
                stream' = [stream EXCEPT ![q] = [pc |-> "found", dir |-> d, rng |-> r]]
    /\ table' = "cache_files"
    /\ UNCHANGED <<final, tmp, lock, job, record, sysSize, sysCount, pending, ghost>>

\* How the stream from the file of range r goes that holds n bytes.
Outcome(r, n) == CASE n = Absent                -> "empty"
                   [] n # Absent /\ n < Size(r)  -> "short"
                   [] n # Absent /\ n >= Size(r) -> "served"

\* _stream_file opens the path: what it then reads is this file, even if the
\* name is removed.  A missing file is logged, and the stream is empty.
OpenFile(q) ==
    /\ stream[q].pc = "found"
    /\ LET r == stream[q].rng
       IN  stream' = [stream EXCEPT ![q].pc = Outcome(r, final[stream[q].dir][r])]
    /\ UNCHANGED <<disk, lock, job, db, ghost>>

-------------------------------------------------------------------------------
(* Removal of directories, and restarts.                                   *)

\* Mutant: max(0, ...) is forgotten.
Unclamped(n) == n

\* max(0, ...)
Clamped(n) == IF n < 0 THEN 0 ELSE n

\* _remove_cache_entry of cleanup.py: one step, as rmtree and the database
\* are called without a suspension; the lock of d is not asked for.
RemoveEntry(d) ==
    /\ record[d] # None
    /\ final' = [final EXCEPT ![d] = NoFiles[d]]
    /\ tmp' = [tmp EXCEPT ![d] = NoFiles[d]]
    /\ dirs' = dirs \ {d}
    /\ record' = [record EXCEPT ![d] = None]
    /\ sysSize' = Clamped(sysSize - record[d].size)
    /\ sysCount' = Clamped(sysCount - 1)
    /\ table' = "system_info"
    /\ evicted' = TRUE
    /\ UNCHANGED <<lock, job, pending, stream, crashes, torn>>

\* files after rmtree has come as far as `gone`.
Less(files, gone) ==
    [r \in Ranges |-> IF r \in gone THEN Absent ELSE files[r]]

\* rmtree raises half way, because a thread of write_to_disk adds, renames or
\* removes a file under it; the caller catches the error and the row stays.
RemoveEntryFails(d) ==
    /\ record[d] # None
    /\ \E j \in Jobs : Dir(j) = d /\ job[j].pc \in {"clear", "rename", "unlink"}
    /\ \E gone, goneTmp \in SUBSET Ranges :
          /\ final' = [final EXCEPT ![d] = Less(@, gone)]
          /\ tmp' = [tmp EXCEPT ![d] = Less(@, goneTmp)]
    /\ table' = "cache_files"
    /\ evicted' = TRUE
    /\ UNCHANGED <<dirs, lock, job, record, sysSize, sysCount, pending,
                   stream, crashes, torn>>

\* Every call ends with the process; what a consumer found is not opened.
Stopped == [j \in Jobs |-> IF job[j].pc \in Running
                           THEN [job[j] EXCEPT !.pc = Cut(@)] ELSE job[j]]

\* The process starts again on the same disk and database.
Restart ==
    /\ crashes < MaxCrashes
    /\ crashes' = crashes + 1
    /\ lock' = [d \in Dirs |-> None]
    /\ table' = "cache_files" /\ pending' = <<>>
    /\ stream' = [q \in Streams |->
          IF stream[q].pc = "found" THEN [pc |-> "idle"] ELSE stream[q]]
    /\ UNCHANGED <<sysSize, sysCount>>

Crash == /\ Restart
         /\ job' = Stopped
         /\ UNCHANGED <<disk, record, torn, evicted>>

\* It stops inside Commit, the row written and system_info not.
CrashInCommit(j) ==
    /\ job[j].pc = "renamed" /\ Stat(j) # Absent
    /\ Restart
    /\ job' = [Stopped EXCEPT ![j].pc = "done"]
    /\ record' = [record EXCEPT ![Dir(j)] = RowAfter(Dir(j), Stat(j))]
    /\ torn' = TRUE
    /\ UNCHANGED <<disk, evicted>>

\* It stops inside RemoveEntry: in rmtree, or after it, and the row is there
\* still; or with the row deleted and system_info not updated.
CrashInRemoval(d) ==
    /\ record[d] # None
    /\ Restart
    /\ job' = Stopped
    /\ \E gone, goneTmp \in SUBSET Ranges :
          /\ final' = [final EXCEPT ![d] = Less(@, gone)]
          /\ tmp' = [tmp EXCEPT ![d] = Less(@, goneTmp)]
          /\ \/ UNCHANGED <<dirs, record, torn>>
             \/ /\ gone = Ranges /\ goneTmp = Ranges
                /\ dirs' = dirs \ {d}
                /\ \/ UNCHANGED <<record, torn>>
                   \/ record' = [record EXCEPT ![d] = None] /\ torn' = TRUE
    /\ evicted' = TRUE

-------------------------------------------------------------------------------
\* What a job does of itself once it is called.
JobStep(j) == \/ Acquire(j) \/ Clear(j) \/ ClearFails(j) \/ Open(j)
              \/ Fill(j) \/ FillFails(j) \/ Rename(j) \/ Commit(j)
              \/ Undo(j) \/ Unlink(j)

Next == \/ \E j \in Jobs : JobStep(j) \/ Call(j) \/ Timeout(j) \/ CrashInCommit(j)
        \/ UpdateScore \/ Recalculate
        \/ \E q \in Streams : Find(q) \/ OpenFile(q)
        \/ \E d \in Dirs : Lookup(d) \/ RemoveEntry(d) \/ RemoveEntryFails(d)
                        \/ CrashInRemoval(d)
        \/ Crash

Spec == Init /\ [][Next]_vars

\* The threads finish what they are given and the loop resumes the job.
\* asyncio.Lock is granted in order; as every job asks once, weak fairness
\* says as much.  Nothing makes a timeout happen.
FairSpec == Spec /\ \A j \in Jobs : WF_vars(JobStep(j))

-------------------------------------------------------------------------------
(* Properties.                                                             *)

Recorded == {d \in Dirs : record[d] # None}

\* The types; cache_size stays a size after a restart that tore its update.
TypeOK ==
    /\ dirs \subseteq Dirs
    /\ final \in [Dirs -> [Ranges -> Nat \cup {Absent}]]
    /\ tmp \in [Dirs -> [Ranges -> Nat \cup {Absent}]]
    /\ lock \in [Dirs -> Jobs \cup {None}]
    /\ \A j \in Jobs : /\ job[j].pc \in {"idle"} \cup Running \cup Over
                        /\ Dir(j) \in Dirs \cup {None}
                        /\ job[j].gives \in Nat /\ job[j].todo \subseteq Ranges
    /\ \A d \in Recorded : record[d] \in Row
    /\ sysSize \in Nat /\ sysCount \in Nat
    /\ table \in {"cache_files", "system_info"}
    /\ pending \in Seq([dir : Dirs, access : Nat])
    /\ crashes \in 0..MaxCrashes

\* What the writers of the calls for range r of d had of it.
Given(d, r) == {job[j].gives : j \in {i \in Jobs : Dir(i) = d /\ Rng(i) = r}}

\* A file under its final name holds all that a completed writer had of its
\* range, and never a piece of a write that failed, timed out, lost its file
\* or stopped half way.  So a file is shorter than its name says, and a stream
\* from it ends early, only if a call for it had the shorter writer of another
\* request.
AsWritten ==
    /\ \A d \in Dirs : \A r \in Files(d) : final[d][r] \in Given(d, r) \ {0}
    /\ \A q \in Streams : stream[q].pc = "short" =>
          \E n \in Given(stream[q].dir, stream[q].rng) : 0 < n /\ n < Size(stream[q].rng)

\* No file of a directory repeats what another one holds: the lock of the
\* directory makes "is it there?", "remove what it covers" and "write it" one.
NoNested == \A d \in Dirs : \A r, q \in Files(d) : Covers(r, q) => r = q

\* system_info sums up the rows of cache_files, unless the process was stopped
\* between the two writes.
Accounting ==
    ~torn => /\ sysSize = Sum([d \in Recorded |-> record[d].size], Recorded)
             /\ sysCount = Cardinality(Recorded)

\* The row of a directory owns up to at least the bytes on disk, but for the
\* files whose job was cut off after the rename.  It may claim more: files
\* removed as superfluous stay in its sum.
DiskAccounted ==
    \A d \in Dirs :
        LET uncounted == {Rng(j) : j \in {i \in Jobs :
                            Dir(i) = d /\ job[i].pc \in {"renamed", "orphaned"}}}
            bytes == Sum(final[d], Files(d) \ uncounted)
        IN  bytes <= IF record[d] = None THEN 0 ELSE record[d].size

\* A job whose writer completed fails only if a directory was removed under
\* it, or if read() raised in a job for the same range: that one
\* unlinks the .tmp file after it has released the lock.
FailureExplained ==
    \A j \in Jobs : (job[j].pc = "failed" /\ job[j].gives > 0) =>
        \/ evicted
        \/ \E i \in Jobs : Dir(i) = Dir(j) /\ Rng(i) = Rng(j) /\ job[i].gives = 0

\* Every call of write_to_disk ends, and not only because it is timed out.
JobsEnd == \A j \in Jobs : job[j].pc = "lock" ~> job[j].pc \in Over

\* Once the tasks are done every score reflects the row it stands in.  It does
\* not: update_score finds the handler switched to system_info and updates
\* nothing.
ScoreFresh == pending = <<>> =>
    \A d \in Recorded : record[d].scored = record[d].access
===============================================================================
