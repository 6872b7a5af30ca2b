-------------------------------- MODULE Cleanup --------------------------------
(***************************************************************************)
(* CacheScheduler and CacheCleanupManager: the scheduled tasks, and what   *)
(* they remove from the rows of cache_files that FileStorage keeps.        *)
(*                                                                         *)
(* Neither check_and_cleanup nor recalculate_all_scores nor                *)
(* force_cleanup_low_scores ever suspends (db_lock is free whenever the    *)
(* loop runs them, TinyDB and rmtree are synchronous): each execution is   *)
(* one step, and only its order among the others is open.  The process may *)
(* end inside one, after any of its writes.                                *)
(*                                                                         *)
(* A unit of time is a day; the rounds of the scheduler (5 s), lookups and *)
(* writes are short compared with it.  Sizes are in an arbitrary unit.     *)
(***************************************************************************)
EXTENDS Scores, FiniteSets, Sums

CONSTANTS Entries,     \* the cache directories
          None,        \* no such row or file
          Kind,        \* Kind[e]: [episode, series, progress]
          Bytes,       \* Bytes[e]: the sizes of the files e can have, by name
          Within,      \* Within[e][p]: the files whose range lies in that of p
          Threshold,   \* max_cache_size * cleanup_threshold
          Target,      \* max_cache_size * cleanup_target
          Unit,        \* what sizes are rounded to: 0.01 GB in the code
          Protection,  \* CACHE_PROTECTION_DAYS
          MinScore,    \* CACHE_MIN_SCORE_THRESHOLD, in tenths
          Interval,    \* Interval[n]: of each registered task
          MaxSaves,    \* bound: saves that one row counts
          MaxRestarts, \* bound: restarts of the process
          MaxTime      \* bound: the clock stops there

Tasks == DOMAIN Interval

Parts(e) == DOMAIN Bytes[e]

\* What is kept of a directory and of a file.
Row  == [size : Nat, score : ScoreRange, created : Nat, read : Nat, count : Nat]
File == [atime : Nat, before : Nat]

ASSUME CleanupAssumption ==
    /\ Threshold \in Nat /\ Target \in Nat /\ Target <= Threshold
    /\ Unit \in Nat \ {0}
    /\ Protection \in Nat /\ MinScore \in Nat /\ MaxTime \in Nat
    /\ MaxRestarts \in Nat /\ MaxSaves \in Nat
    /\ Tasks \subseteq {"check", "recalculate", "weekly"}
    /\ \A n \in Tasks : Interval[n] \in Nat \ {0}
    /\ None \notin Row \cup File \cup UNION {Parts(e) : e \in Entries}
    /\ \A e \in Entries :
          /\ Kind[e] \in [episode : BOOLEAN, series : BOOLEAN, progress : BOOLEAN]
          /\ \A p \in Parts(e) : /\ Bytes[e][p] \in Nat
                                 /\ Within[e][p] \subseteq Parts(e) \ {p}

VARIABLES row,      \* row[e]: [size, score, created, read, count], or None
          file,     \* file[e][p]: [atime, before], or None; before is when the
                    \* file was read before it was last read
          total,    \* cache_size of system_info
          saving,   \* saving[e]: the file a thread writes under e, or None
          next,     \* next_run_time
          created,  \* tasks with an execution that has not begun
          restarts, \* restarts so far
          torn,     \* a restart fell between a row's write and cache_size's
          lost,     \* directories that lost a file since last_read_time was set
          now       \* time

disk  == <<row, file, total>>
ghost == <<torn, lost>>
vars  == <<disk, saving, next, created, restarts, ghost, now>>

NoFiles(e) == [p \in Parts(e) |-> None]

\* register_cleanup_tasks: the scores at once, the rest after its interval.
Registered == [n \in Tasks |-> IF n = "recalculate" THEN now ELSE now + Interval[n]]

Init == /\ row = [e \in Entries |-> None]
        /\ file = [e \in Entries |-> NoFiles(e)]
        /\ total = 0 /\ saving = [e \in Entries |-> None]
        /\ torn = FALSE /\ lost = {}
        /\ now = 0
        /\ next = Registered
        /\ created = {} /\ restarts = 0

-------------------------------------------------------------------------------
(* What the requests do to the records.                                    *)

Score(e, r) == CacheScore(Kind[e], r.count, 24 * (now - r.read), now - r.created)

\* The files there are of e, and the directories that a thread writes under.
Held(e) == {p \in Parts(e) : file[e][p] # None}
Busy    == {e \in Entries : saving[e] # None}

\* _is_already_fully_cached finds no file that p lies in.
Savable(e, p) == p \notin Held(e) /\ \A q \in Held(e) : p \notin Within[e][q]

\* write_to_disk of file p removes the files within p, of which the row and
\* cache_size are not told.  If it fails to, or is cut off, that is all.
BeginSave(e) ==
    /\ saving[e] = None
    /\ row[e] # None => row[e].count < MaxSaves
    /\ \E p \in {q \in Parts(e) : Savable(e, q)} :
       \E S \in SUBSET (Within[e][p] \cap Held(e)) :
          /\ file' = [file EXCEPT ![e] = [q \in Parts(e) |-> IF q \in S THEN None ELSE @[q]]]
          /\ lost' = IF S = {} THEN lost ELSE lost \cup {e}
          /\ \/ S = Within[e][p] \cap Held(e) /\ saving' = [saving EXCEPT ![e] = p]
             \/ UNCHANGED saving
    /\ UNCHANGED <<row, total, next, created, restarts, torn, now>>

\* _update_cache_stats: a new row with its score, or one more file in an old
\* row, whose new score is stored only if update_score finds its table again
\* (see FileStorage).
RowsWith(e, p) ==
    LET new == [size |-> Bytes[e][p], score |-> 4000, created |-> now,
                read |-> now, count |-> 1]
        old == [row[e] EXCEPT !.size = @ + Bytes[e][p], !.count = @ + 1, !.read = now]
        Scored(r) == [r EXCEPT !.score = Score(e, r)]
    IN  IF row[e] = None THEN {Scored(new)} ELSE {old, Scored(old)}

\* The rename.
Appears(e, p) == file' = [file EXCEPT ![e][p] = [atime |-> now, before |-> now]]

Saved(e) == [saving EXCEPT ![e] = None]

\* The row and then cache_size take the file in.
EndSave(e) == /\ saving[e] # None
              /\ Appears(e, saving[e])
              /\ \E r \in RowsWith(e, saving[e]) : row' = [row EXCEPT ![e] = r]
              /\ total' = total + Bytes[e][saving[e]]
              /\ saving' = Saved(e)
              /\ lost' = lost \ {e}
              /\ UNCHANGED <<next, created, restarts, torn, now>>

\* The write is given up.
SaveFails(e) == /\ saving[e] # None
                /\ saving' = Saved(e)
                /\ UNCHANGED <<disk, next, created, restarts, ghost, now>>

\* The time of the save is over between its rename and the row.
SaveCutOff(e) == /\ saving[e] # None
                 /\ Appears(e, saving[e])
                 /\ saving' = Saved(e)
                 /\ UNCHANGED <<row, total, next, created, restarts, ghost, now>>

\* get_cache_file_path: last_read_time is the atime from before this request.
LookedUp(e, p) == [row[e] EXCEPT !.read = file[e][p].atime]

\* A request finds file p of e and reads it; a file without a row stays so.
Access(e) == \E p \in Held(e) :
                /\ row' = [row EXCEPT ![e] = IF @ = None THEN None ELSE LookedUp(e, p)]
                /\ file' = [file EXCEPT ![e][p] =
                              [atime |-> now, before |-> file[e][p].atime]]
                /\ lost' = lost \ {e}
                /\ UNCHANGED <<total, saving, next, created, restarts, torn, now>>

-------------------------------------------------------------------------------
(* The policy.                                                             *)

Rows == {e \in Entries : row[e] # None}

\* Mutant: the scores stay what they were.
StaleScores == row

\* recalculate_all_scores.
Recalculated == [e \in Entries |->
                   IF row[e] = None THEN None
                   ELSE [row[e] EXCEPT !.score = Score(e, row[e])]]

\* Mutant: only what was written lately is protected.
Written(e) == now - row[e].created < Protection

\* (current_time - last_read) < protection_seconds
Protected(e) == now - row[e].read < Protection

\* round(x, 2): ties go either way.
Rounded(x) == {r \in (x - Unit)..(x + Unit) : r % Unit = 0 /\ 2 * r - 2 * x \in -Unit..Unit}

\* Mutant: down to the threshold only.
ToThreshold == {a - b : a \in Rounded(total), b \in Rounded(Threshold)}

\* target_reduction_gb.
Reductions == {a - b : a \in Rounded(total), b \in Rounded(Target)}

\* candidates.sort: the lowest score first, then the largest.
SortsBefore(r, s) == r.score < s.score \/ (r.score = s.score /\ r.size >= s.size)

\* Every order of the removable entries S that the sort of their rows may leave.
Queues(S, rows) == {q \in [1..Cardinality(S) -> S] :
                      \A i, j \in DOMAIN q :
                          i < j => q[i] # q[j] /\ SortsBefore(rows[q[i]], rows[q[j]])}

SizeOf(S) == Sum([e \in S |-> row[e].size], S)

\* What a run down q has removed before q[j]; rmtree fails for those in stuck.
Ahead(q, j, stuck) == {q[k] : k \in 1..(j - 1)} \ stuck

\* Mutant: the first candidates that are enough, and one more.
UpToEnough(q, reduction, stuck) ==
    {q[i] : i \in {j \in DOMAIN q : j = 1 \/ SizeOf(Ahead(q, j - 1, stuck)) < reduction}}

\* The candidates that are reached before cleaned_bytes is enough.
UntilEnough(q, reduction, stuck) ==
    {q[i] : i \in {j \in DOMAIN q : SizeOf(Ahead(q, j, stuck)) < reduction}}

\* Mutant: the row alone is removed.
Uncounted(S) == total

\* _update_system_stats_after_removal, of all of S.
TotalWithout(S) == LET left == total - SizeOf(S) IN IF left < 0 THEN 0 ELSE left

\* _remove_cache_entry, for every entry in gone; for those in uncounted up to
\* the row, for those in hurt up to some file in rmtree.
Remove(gone, uncounted, hurt, rows) ==
    \E lose \in SUBSET UNION {{e} \X Held(e) : e \in hurt} :
       /\ row' = [e \in Entries |-> IF e \in gone \cup uncounted THEN None ELSE rows[e]]
       /\ file' = [e \in Entries |->
                     [p \in Parts(e) |-> IF e \in gone \cup uncounted \/ <<e, p>> \in lose
                                        THEN None ELSE file[e][p]]]
       /\ total' = TotalWithout(gone)
       /\ torn' = (torn \/ uncounted # {})
       /\ lost' = (lost \ (gone \cup uncounted)) \cup {x[1] : x \in lose}

\* The process ends while h is removed, after those in done.
RemoveUpTo(done, h, stuck, rows) == \/ Remove(done \ stuck, {}, (done \cap stuck) \cup {h}, rows)
                                    \/ Remove(done \ stuck, {h}, done \cap stuck, rows)

\* A write under a directory that is gone fails.
Undermine(gone) == saving' = [e \in Entries |-> IF e \in gone THEN None ELSE saving[e]]

NeedsCleanup == total >= Threshold

\* _get_cleanup_candidates_by_size, and get_cleanup_candidates without the
\* protected ones.
Candidates == {e \in Rows : ~Protected(e)}
LowScores  == {e \in Candidates : row[e].score < MinScore}

\* check_and_cleanup, cleanup_by_size.  rmtree can raise where a thread adds to
\* the directory.
Check == IF ~NeedsCleanup THEN UNCHANGED <<disk, saving, ghost>>
         ELSE \E reduction \in Reductions, q \in Queues(Candidates, Recalculated),
                 stuck \in SUBSET (Candidates \cap Busy) :
                 LET reached == UntilEnough(q, reduction, stuck)
                 IN  /\ Remove(reached \ stuck, {}, reached \cap stuck, Recalculated)
                     /\ Undermine(reached \ stuck)

Recalculate == row' = Recalculated /\ UNCHANGED <<file, total, saving, ghost>>

\* force_cleanup_low_scores, by the scores as they are stored.
Weekly == \E stuck \in SUBSET (LowScores \cap Busy) :
             /\ Remove(LowScores \ stuck, {}, stuck, row)
             /\ Undermine(LowScores \ stuck)

-------------------------------------------------------------------------------
(* The scheduler.                                                          *)

Due == {n \in Tasks : now >= next[n]}

\* A round of _run_scheduler; what the last one created has begun by then.
Wake == /\ created = {} /\ Due # {}
        /\ created' = Due
        /\ UNCHANGED <<disk, saving, next, restarts, ghost, now>>

\* asyncio runs them in the order they were created in: that of the dict.
Before(n) == CASE n = "check" -> {}
               [] n = "recalculate" -> {"check"}
               [] n = "weekly" -> {"check", "recalculate"}
Turn(n) == n \in created /\ Before(n) \cap created = {}

\* Mutant: a task that failed stays due.
StaysDue(n, ok) == IF ok THEN now + Interval[n] ELSE next[n]

\* next_run_time, whether the task failed or not.
NextRun(n, ok) == now + Interval[n]

Finish(n, ok) == /\ next' = [next EXCEPT ![n] = NextRun(n, ok)]
                 /\ created' = created \ {n}
                 /\ UNCHANGED <<restarts, now>>

CheckRuns == /\ Turn("check") /\ Check /\ Finish("check", TRUE)
RecalculateRuns == /\ Turn("recalculate") /\ Recalculate /\ Finish("recalculate", TRUE)
WeeklyRuns == /\ Turn("weekly") /\ Weekly /\ Finish("weekly", TRUE)

\* The records cannot be read; recalculate_all_scores catches that itself.
Fails(n) == /\ n # "recalculate" /\ Turn(n)
            /\ Finish(n, FALSE)
            /\ UNCHANGED <<disk, saving, ghost>>

\* The process stops and starts again: every task is registered anew.
Restarts == /\ restarts < MaxRestarts /\ restarts' = restarts + 1
            /\ saving' = [e \in Entries |-> None]
            /\ created' = {} /\ next' = Registered
            /\ UNCHANGED now

Restart == Restarts /\ UNCHANGED <<disk, ghost>>

\* It stops between the writes of one operation: the row of a save and
\* cache_size,
RestartInSave(e) == /\ saving[e] # None
                    /\ Restarts
                    /\ Appears(e, saving[e])
                    /\ \E r \in RowsWith(e, saving[e]) : row' = [row EXCEPT ![e] = r]
                    /\ torn' = TRUE /\ lost' = lost \ {e}
                    /\ UNCHANGED total

\* two rows of a recalculation, by itself or in a check,
RestartInRecalculate ==
    /\ Turn("recalculate") \/ (Turn("check") /\ NeedsCleanup)
    /\ Restarts
    /\ \E S \in SUBSET Rows :
          row' = [e \in Entries |-> IF e \in S THEN Recalculated[e] ELSE row[e]]
    /\ UNCHANGED <<file, total, ghost>>

\* or the steps of the removals of a check
RestartInCheck ==
    /\ Turn("check") /\ NeedsCleanup
    /\ Restarts
    /\ \E reduction \in Reductions, q \in Queues(Candidates, Recalculated),
          stuck \in SUBSET (Candidates \cap Busy) :
       \E j \in DOMAIN q :
          /\ SizeOf(Ahead(q, j, stuck)) < reduction
          /\ RemoveUpTo(Ahead(q, j, {}), q[j], stuck, Recalculated)

\* and of a weekly round, which begins with the lowest scores.
RestartInWeekly ==
    /\ Turn("weekly")
    /\ Restarts
    /\ \E done \in SUBSET LowScores, stuck \in SUBSET (LowScores \cap Busy) :
       \E h \in LowScores \ done :
          /\ \A e \in done, f \in LowScores \ done : row[e].score <= row[f].score
          /\ \A f \in LowScores \ done : row[h].score <= row[f].score
          /\ RemoveUpTo(done, h, stuck, row)

\* Time passes when nothing short is under way.
Tick == /\ now < MaxTime
        /\ Busy = {} /\ created = {} /\ Due = {}
        /\ now' = now + 1
        /\ UNCHANGED <<disk, saving, next, created, restarts, ghost>>

-------------------------------------------------------------------------------
Requests == \E e \in Entries : \/ BeginSave(e) \/ EndSave(e) \/ SaveFails(e)
                               \/ SaveCutOff(e) \/ Access(e)

Executions == CheckRuns \/ RecalculateRuns \/ WeeklyRuns \/ \E n \in Tasks : Fails(n)

Stops == \/ Restart \/ RestartInRecalculate \/ RestartInCheck \/ RestartInWeekly
         \/ \E e \in Entries : RestartInSave(e)

Next == Requests \/ Wake \/ Executions \/ Stops \/ Tick

Spec == Init /\ [][Next]_vars

\* The event loop gets to the scheduler and to what it created, which then
\* runs to its end in one step, whatever it does.
Runs(n) == Turn(n) /\ created' = created \ {n}

FairSpec == /\ Spec
            /\ WF_created(created = {} /\ Due # {} /\ created' = Due)
            /\ \A n \in Tasks : WF_created(Runs(n))
-------------------------------------------------------------------------------
(* Correctness.                                                            *)

\* A row stands for a file that is there unless one was removed behind its back
\* (superfluous, or by an rmtree that did not come to its end), and cache_size
\* is the total of the rows unless a restart tore an update; it stays a size.
\* Not the other way round: a file may have no row, a row may count files that
\* are gone.  What is created was due.
TypeOK ==
    /\ \A e \in Entries : row[e] # None =>
          /\ row[e].score \in ScoreRange
          /\ row[e].created <= now /\ row[e].read <= now
          /\ e \in lost \/ Held(e) # {}
    /\ total \in Nat /\ (torn \/ total = SizeOf(Rows))
    /\ \A e \in Entries : saving[e] \in Parts(e) \cup {None}
    /\ created \subseteq Due
    /\ \A n \in Tasks : next[n] <= now + Interval[n]

Gone(e) == row[e] # None /\ row'[e] = None

\* What is evicted, by size or by score, is cold: it has a file that had not
\* been read for the days of protection when it was last asked for.  (That
\* last request itself does not count, see ReadIsKept.)  Only where a file was
\* removed since can the time in the row be that of the one removed.
ColdOnly ==
    [][\A e \in Entries \ lost : Gone(e) =>
         \E p \in Parts(e) : /\ file[e][p] # None
                             /\ now - file[e][p].before >= Protection]_vars

\* "A cache that was accessed in the last N days is not removed."  The code
\* records the time of the access before.
ReadIsKept ==
    [][\A e \in Entries : Gone(e) =>
         \A p \in Parts(e) :
            file[e][p] # None => now - file[e][p].atime >= Protection]_vars

\* After a check that found the threshold reached, the target is reached as
\* far as sizes are rounded, or all that is left is protected or in the way
\* of a write.
ReachesTarget ==
    [][NeedsCleanup /\ CheckRuns =>
         \/ total' <= Target + Unit
         \/ \A e \in Rows : row'[e] = None \/ Protected(e) \/ e \in Busy]_vars

\* A check removes nothing more than that takes: but for one of the removed
\* entries the target would not be reached.
NoNeedlessEviction ==
    [][Turn("check") =>
         LET gone == {e \in Entries : Gone(e)}
         IN  gone # {} => \E e \in gone : total' + row[e].size > Target - Unit]_vars

\* A check removes the entries of the lowest score there is at that time: none
\* that scores higher goes before one that could go and stays.
LowestFirst ==
    [][Turn("check") =>
         \A e, f \in Rows :
            Gone(e) /\ ~Gone(f) /\ ~Protected(f) /\ f \notin Busy
              => Score(e, row[e]) <= Score(f, row[f])]_vars

\* The scheduler keeps up: whatever is due, and whether it fails or not, there
\* comes a time when nothing is.
CatchesUp == []<>(Due = {})
===============================================================================
