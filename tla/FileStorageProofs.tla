-------------------------- MODULE FileStorageProofs --------------------------
(***************************************************************************)
(* Theorems about FileStorage, for any directories, ranges, jobs and       *)
(* streams.                                                                *)
(***************************************************************************)
EXTENDS FileStorage, SumsProofs, TLAPS

Content   == Nat \cup {Absent}
JobRecord == [pc : {"idle"} \cup Running \cup Over, dir : Dirs \cup {None},
              rng : Ranges \cup {None}, gives : Nat, todo : SUBSET Ranges]

\* What is on disk, the locks and the jobs.
CoreTypes == /\ dirs \subseteq Dirs
             /\ final \in [Dirs -> [Ranges -> Content]]
             /\ tmp \in [Dirs -> [Ranges -> Content]]
             /\ lock \in [Dirs -> Jobs \cup {None}]
             /\ job \in [Jobs -> JobRecord]
             /\ evicted \in BOOLEAN

\* A job is as it was made, or was called for a directory and a range.
Called == \A j \in Jobs : IF job[j].pc = "idle" THEN job[j] = Idle
                          ELSE Dir(j) \in Dirs /\ Rng(j) \in Ranges

\* Inside the `async with` of the directory's lock.
Inside == {"clear", "fill", "rename", "renamed"}
Owner  == \A j \in Jobs : job[j].pc \in Inside => lock[Dir(j)] = j

\* What is about to be renamed holds what the job was given.
FilledTmp == \A j \in Jobs : job[j].pc = "rename" =>
    job[j].gives > 0 /\ tmp[Dir(j)][Rng(j)] \in {Absent, job[j].gives}

\* The job i was given the n bytes of the file.
Source(i, d, r, n) == Dir(i) = d /\ Rng(i) = r /\ job[i].gives = n /\ n > 0
Written == \A d \in Dirs, r \in Ranges : final[d][r] # Absent =>
               \E i \in Jobs : Source(i, d, r, final[d][r])

\* What a job found inside the lock still stands: no file covers its range,
\* and those that its range covers are still to be removed.
Cleared == \A j \in Jobs :
    /\ job[j].pc \in {"clear", "fill", "rename"} =>
          \A r \in Ranges : final[Dir(j)][r] # Absent =>
              /\ ~Covers(r, Rng(j))
              /\ Covers(Rng(j), r) => r \in job[j].todo
    /\ job[j].pc \in {"fill", "rename"} => job[j].todo = {}

\* A directory was removed, or read() raised in a job for the same range.
Excused(j) == \/ evicted
              \/ \E i \in Jobs : Dir(i) = Dir(j) /\ Rng(i) = Rng(j) /\ job[i].gives = 0

\* Otherwise whatever the job relies on is there.
Explained == \A j \in Jobs : Excused(j) \/
    /\ job[j].pc # "idle" => Dir(j) \in dirs
    /\ job[j].pc = "clear" => \A r \in job[j].todo : final[Dir(j)][r] # Absent
    /\ job[j].pc \in {"fill", "rename"} => tmp[Dir(j)][Rng(j)] # Absent
    /\ job[j].pc = "renamed" => final[Dir(j)][Rng(j)] # Absent
    /\ job[j].pc \notin {"undo", "unlink", "failed"}

Core == /\ CoreTypes /\ Called /\ Owner /\ FilledTmp /\ Written
        /\ Cleared /\ NoNested /\ Explained

core == <<dirs, final, tmp, lock, job, evicted>>

-------------------------------------------------------------------------------
(* Jobs, locks and files.                                                  *)

\* Only one job is inside the lock of a directory.
LEMMA Alone ==
  ASSUME Core, NEW i \in Jobs, NEW j \in Jobs, job[i].pc \in Inside, job[j].pc \in Inside,
         Dir(i) = Dir(j)
  PROVE  i = j
  BY DEF Core, Owner

\* What Goto does.
LEMMA GotoMoves ==
  ASSUME CoreTypes, NEW j \in Jobs, NEW pc \in {"idle"} \cup Running \cup Over, Goto(j, pc)
  PROVE  /\ job' \in [Jobs -> JobRecord]
         /\ job'[j].pc = pc
         /\ \A i \in Jobs : /\ i # j => job'[i] = job[i]
                            /\ job'[i].dir = job[i].dir
                            /\ job'[i].rng = job[i].rng
                            /\ job'[i].gives = job[i].gives
                            /\ job'[i].todo = job[i].todo
  BY DEF CoreTypes, JobRecord, Goto

\* Files that stay what they are have been written by the jobs that wrote them.
LEMMA WrittenStays ==
  ASSUME Written,
         \A d \in Dirs, q \in Ranges : final'[d][q] \in {Absent, final[d][q]},
         \A i \in Jobs : job[i].gives > 0 => /\ job'[i].dir = job[i].dir
                                            /\ job'[i].rng = job[i].rng
                                            /\ job'[i].gives = job[i].gives
  PROVE  Written'
  <1>1. ASSUME NEW d \in Dirs, NEW r \in Ranges, final'[d][r] # Absent
        PROVE  \E i \in Jobs : Source(i, d, r, final[d][r])'
    <2>1. final'[d][r] = final[d][r] /\ final[d][r] # Absent
      BY <1>1
    <2>2. PICK i \in Jobs : Source(i, d, r, final[d][r])
      BY <2>1 DEF Written
    <2>3. Source(i, d, r, final[d][r])'
      BY <2>1, <2>2 DEF Source, Dir, Rng
    <2> QED
      BY <2>3
  <1> QED
    BY <1>1 DEF Written

\* A job is out of the lock, and the files are as they were.
LEMMA OutInv ==
  ASSUME Core, NEW j \in Jobs, NEW pc \in (Over \cup {"undo", "unlink"}), Goto(j, pc),
         job[j].pc # "idle",
         Release(j) \/ (job[j].pc \notin Inside /\ UNCHANGED lock),
         pc \in {"undo", "unlink", "failed"} => Excused(j),
         UNCHANGED <<dirs, final, tmp, evicted>>
  PROVE  Core'
  <1>1. /\ job' \in [Jobs -> JobRecord]
        /\ job'[j].pc = pc
        /\ \A i \in Jobs : /\ i # j => job'[i] = job[i]
                           /\ job'[i].dir = job[i].dir
                           /\ job'[i].rng = job[i].rng
                           /\ job'[i].gives = job[i].gives
                           /\ job'[i].todo = job[i].todo
    <2>1. pc \in {"idle"} \cup Running \cup Over
      BY DEF Running
    <2> QED
      BY <2>1, GotoMoves DEF Core
  <1>2. pc \notin Inside /\ pc # "idle"
    BY DEF Over, Inside
  <1>3. CoreTypes'
    <2>1. lock' \in [Dirs -> Jobs \cup {None}]
      BY DEF Core, CoreTypes, Release
    <2> QED
      BY <1>1, <2>1 DEF Core, CoreTypes
  <1>4. Called'
    BY <1>1, <1>2 DEF Core, Called, Dir, Rng
  <1>5. Owner'
    <2>1. ASSUME NEW i \in Jobs, job'[i].pc \in Inside PROVE lock'[Dir(i)'] = i
      <3>1. i # j /\ job'[i] = job[i] /\ job[i].pc # "idle"
        BY <1>1, <1>2, <2>1 DEF Inside
      <3>2. Dir(i)' = Dir(i) /\ Dir(i) \in Dirs /\ lock[Dir(i)] = i
        BY <2>1, <3>1 DEF Core, Called, Owner, Dir
      <3> QED
        BY <3>1, <3>2 DEF Release
    <2> QED
      BY <2>1 DEF Owner
  <1>6. FilledTmp' /\ Written'
    <2>1. FilledTmp'
      BY <1>1, <1>2 DEF Core, FilledTmp, Dir, Rng, Inside
    <2> QED
      BY <1>1, <2>1, WrittenStays DEF Core
  <1>7. Cleared'
    BY <1>1, <1>2 DEF Core, Cleared, Dir, Rng, Inside
  <1>8. NoNested'
    BY DEF Core, NoNested, Files
  <1>9. Explained'
    BY <1>1, <1>2 DEF Core, Explained, Excused, Dir, Rng, Inside
  <1> QED
    BY <1>3, <1>4, <1>5, <1>6, <1>7, <1>8, <1>9 DEF Core

\* What a writer hands out is so many bytes.
LEMMA HandedNat ==
  ASSUME NEW r \in Ranges, NEW w \in Ranges, SameKey(r, w)
  PROVE  Handed(r, w) \in Nat
  BY StorageAssumption DEF Handed, SameKey

\* A job comes; its directory is made.
LEMMA CallInv ==
  ASSUME Core, NEW j \in Jobs, Call(j)
  PROVE  Core'
  <1>1. PICK d \in Dirs, r \in Ranges, gives \in Nat :
           /\ job' = [job EXCEPT ![j] = [pc |-> "lock", dir |-> d, rng |-> r,
                                        gives |-> gives, todo |-> {}]]
           /\ dirs' = dirs \cup {d}
    BY HandedNat DEF Call
  <1>2. job[j].pc = "idle" /\ UNCHANGED <<final, tmp, lock, evicted>>
    BY DEF Call, ghost
  <1>3. /\ job' \in [Jobs -> JobRecord]
        /\ job'[j] = [pc |-> "lock", dir |-> d, rng |-> r, gives |-> gives, todo |-> {}]
        /\ \A i \in Jobs : i # j => job'[i] = job[i]
    BY <1>1 DEF Core, CoreTypes, JobRecord, Running
  <1>4. job[j] = Idle
    BY <1>2 DEF Core, Called
  <1>5. CoreTypes'
    BY <1>1, <1>2, <1>3 DEF Core, CoreTypes
  <1>6. Called'
    BY <1>3 DEF Core, Called, Dir, Rng
  <1>7. Owner' /\ FilledTmp' /\ Written'
    <2>1. Owner' /\ FilledTmp'
      BY <1>2, <1>3 DEF Core, Owner, FilledTmp, Dir, Rng, Inside
    <2>2. \A i \in Jobs : job[i].gives > 0 => job'[i] = job[i]
      BY <1>3, <1>4 DEF Idle
    <2> QED
      BY <1>2, <2>1, <2>2, WrittenStays DEF Core
  <1>8. Cleared' /\ NoNested'
    BY <1>2, <1>3 DEF Core, Cleared, NoNested, Files, Dir, Rng
  <1>9. Explained'
    <2>1. ASSUME NEW i \in Jobs, i # j, job[i].pc # "idle", Excused(i) PROVE Excused(i)'
      <3>1. Dir(i) \in Dirs /\ Dir(j) = None /\ job'[i] = job[i]
        BY <1>3, <1>4, <2>1 DEF Core, Called, Idle, Dir
      <3>2. CASE evicted
        BY <1>2, <3>2 DEF Excused
      <3>3. CASE ~evicted
        <4>1. PICK k \in Jobs : Dir(k) = Dir(i) /\ Rng(k) = Rng(i) /\ job[k].gives = 0
          BY <2>1, <3>3 DEF Excused
        <4>2. k # j
          BY <3>1, <4>1, StorageAssumption
        <4>3. job'[k] = job[k]
          BY <1>3, <4>2
        <4> QED
          BY <3>1, <4>1, <4>3 DEF Excused, Dir, Rng
      <3> QED
        BY <3>2, <3>3
    <2> QED
      BY <1>1, <1>2, <1>3, <2>1 DEF Core, Explained, Dir, Rng
  <1> QED
    BY <1>5, <1>6, <1>7, <1>8, <1>9 DEF Core

\* The lock is taken, and what covers or is covered by the range is looked up.
LEMMA AcquireInv ==
  ASSUME Core, NEW j \in Jobs, Acquire(j)
  PROVE  Core'
  <1>1. job[j].pc = "lock" /\ lock[Dir(j)] = None /\ UNCHANGED <<dirs, final, tmp, evicted>>
    BY DEF Acquire, Free, disk, ghost
  <1>2. CASE Goto(j, "skipped") /\ UNCHANGED lock
    BY <1>1, <1>2, OutInv DEF Over, Inside
  <1>3. CASE /\ ~\E r \in Files(Dir(j)) : Covers(r, Rng(j))
             /\ lock' = [lock EXCEPT ![Dir(j)] = j]
             /\ job' = [job EXCEPT ![j].pc = "clear",
                                  ![j].todo = Overlaps(Dir(j), Rng(j))]
    <2>1. Dir(j) \in Dirs /\ Rng(j) \in Ranges
      BY <1>1 DEF Core, Called
    <2>2. /\ job' \in [Jobs -> JobRecord]
          /\ job'[j].pc = "clear"
          /\ job'[j].todo = {q \in Ranges : final[Dir(j)][q] # Absent /\ Covers(Rng(j), q)}
          /\ \A i \in Jobs : /\ i # j => job'[i] = job[i]
                             /\ job'[i].dir = job[i].dir
                             /\ job'[i].rng = job[i].rng
                             /\ job'[i].gives = job[i].gives
      <3>1. PICK T \in SUBSET Ranges : T = Overlaps(Dir(j), Rng(j))
        BY DEF Overlaps, Files
      <3>2. T = {q \in Ranges : final[Dir(j)][q] # Absent /\ Covers(Rng(j), q)}
        BY <3>1 DEF Overlaps, Files
      <3> QED
        BY <1>3, <3>1, <3>2 DEF Core, CoreTypes, JobRecord, Running
    <2>3. /\ lock' \in [Dirs -> Jobs \cup {None}]
          /\ lock'[Dir(j)] = j /\ \A d \in Dirs : d # Dir(j) => lock'[d] = lock[d]
      BY <1>3, <2>1 DEF Core, CoreTypes
    <2>4. CoreTypes'
      BY <1>1, <2>2, <2>3 DEF Core, CoreTypes
    <2>5. Called'
      BY <2>1, <2>2 DEF Core, Called, Dir, Rng
    <2>6. Owner'
      <3>1. ASSUME NEW i \in Jobs, i # j, job'[i].pc \in Inside PROVE lock'[Dir(i)'] = i
        <4>1. job[i].pc \in Inside /\ Dir(i)' = Dir(i) /\ Dir(i) \in Dirs /\ lock[Dir(i)] = i
          BY <2>2, <3>1 DEF Core, Called, Owner, Dir, Inside
        <4> QED
          BY <1>1, <2>3, <4>1, StorageAssumption
      <3> QED
        BY <2>2, <2>3, <3>1 DEF Owner, Dir
    <2>7. FilledTmp' /\ Written'
      <3>1. FilledTmp'
        BY <1>1, <2>2 DEF Core, FilledTmp, Dir, Rng
      <3>2. \A i \in Jobs : /\ job'[i].dir = job[i].dir
                            /\ job'[i].rng = job[i].rng
                            /\ job'[i].gives = job[i].gives
        BY <2>2
      <3> QED
        BY <1>1, <3>1, <3>2, WrittenStays DEF Core
    <2>8. Cleared'
      BY <1>1, <1>3, <2>2 DEF Core, Cleared, Dir, Rng, Files
    <2>9. NoNested'
      BY <1>1 DEF Core, NoNested, Files
    <2>10. Explained'
      BY <1>1, <2>2 DEF Core, Explained, Excused, Dir, Rng
    <2> QED
      BY <2>4, <2>5, <2>6, <2>7, <2>8, <2>9, <2>10 DEF Core
  <1> QED
    BY <1>2, <1>3 DEF Acquire

\* A covered file is removed inside the lock.
LEMMA ClearInv ==
  ASSUME Core, NEW j \in Jobs, Clear(j)
  PROVE  Core'
  <1>1. PICK r \in job[j].todo : /\ final' = [final EXCEPT ![Dir(j)][r] = Absent]
                                 /\ job' = [job EXCEPT ![j].todo = @ \ {r}]
    BY DEF Clear
  <1>2. job[j].pc = "clear" /\ UNCHANGED <<dirs, tmp, lock, evicted>>
    BY DEF Clear, ghost
  <1>3. Dir(j) \in Dirs /\ Rng(j) \in Ranges /\ r \in Ranges
    BY <1>2 DEF Core, CoreTypes, JobRecord, Called
  <1>4. /\ job' \in [Jobs -> JobRecord]
        /\ job'[j].todo = job[j].todo \ {r}
        /\ \A i \in Jobs : /\ i # j => job'[i] = job[i]
                           /\ job'[i].pc = job[i].pc
                           /\ job'[i].dir = job[i].dir
                           /\ job'[i].rng = job[i].rng
                           /\ job'[i].gives = job[i].gives
    BY <1>1 DEF Core, CoreTypes, JobRecord
  <1>5. /\ final' \in [Dirs -> [Ranges -> Content]]
        /\ \A d \in Dirs, q \in Ranges :
              final'[d][q] = IF d = Dir(j) /\ q = r THEN Absent ELSE final[d][q]
    BY <1>1, <1>3 DEF Core, CoreTypes, Content
  <1>6. \A i \in Jobs : i # j /\ job[i].pc \in Inside => Dir(i) # Dir(j)
    BY <1>2, Alone DEF Inside
  <1>7. CoreTypes' /\ Called'
    BY <1>2, <1>3, <1>4, <1>5 DEF Core, CoreTypes, Called, Dir, Rng
  <1>8. Owner' /\ FilledTmp' /\ Written'
    <2>1. Owner' /\ FilledTmp'
      BY <1>2, <1>4 DEF Core, Owner, FilledTmp, Dir, Rng
    <2> QED
      BY <1>4, <1>5, <2>1, WrittenStays DEF Core
  <1>9. Cleared'
    <2>1. ASSUME NEW i \in Jobs, job[i].pc \in {"clear", "fill", "rename"}, NEW q \in Ranges,
                 final'[Dir(i)][q] # Absent
          PROVE  ~Covers(q, Rng(i)) /\ (Covers(Rng(i), q) => q \in job'[i].todo)
      <3>1. Dir(i) \in Dirs
        BY <2>1 DEF Core, Called
      <3>2. final[Dir(i)][q] # Absent /\ (i = j => q # r)
        BY <1>5, <2>1, <3>1
      <3> QED
        BY <1>4, <2>1, <3>2 DEF Core, Cleared
    <2>2. \A i \in Jobs : job[i].pc \in {"fill", "rename"} => job'[i].todo = {}
      BY <1>2, <1>4 DEF Core, Cleared
    <2> QED
      BY <1>4, <2>1, <2>2 DEF Cleared, Dir, Rng
  <1>10. NoNested'
    BY <1>5 DEF Core, NoNested, Files
  <1>11. Explained'
    <2>1. ASSUME NEW i \in Jobs, Excused(i) PROVE Excused(i)'
      BY <1>2, <1>4, <2>1 DEF Excused, Dir, Rng
    <2>2. ASSUME NEW i \in Jobs, ~Excused(i), i # j,
                 job[i].pc = "renamed" \/ job[i].pc = "clear"
          PROVE  \A q \in Ranges : final'[Dir(i)][q] = final[Dir(i)][q]
      <3>1. Dir(i) \in Dirs /\ Dir(i) # Dir(j)
        BY <1>6, <2>2 DEF Core, Called, Inside
      <3> QED
        BY <1>5, <3>1
    <2>3. \A q \in job'[j].todo : Excused(j) \/ final'[Dir(j)][q] # Absent
      BY <1>2, <1>3, <1>4, <1>5 DEF Core, CoreTypes, JobRecord, Explained
    <2>4. \A i \in Jobs : job[i].pc # "idle" => Rng(i) \in Ranges
      BY DEF Core, Called
    <2>5. ASSUME NEW i \in Jobs, ~Excused(i), job[i].pc = "clear"
          PROVE  \A q \in job'[i].todo : final'[Dir(i)][q] # Absent
      <3>1. job[i].todo \subseteq Ranges
        BY DEF Core, CoreTypes, JobRecord
      <3> QED
        BY <1>4, <2>2, <2>3, <2>5, <3>1 DEF Core, Explained
    <2>6. ASSUME NEW i \in Jobs, ~Excused(i), job[i].pc = "renamed"
          PROVE  final'[Dir(i)][Rng(i)] # Absent
      BY <1>2, <2>2, <2>4, <2>6 DEF Core, Explained
    <2>7. ASSUME NEW i \in Jobs, ~Excused(i)
          PROVE  /\ job[i].pc # "idle" => Dir(i) \in dirs
                 /\ job[i].pc \in {"fill", "rename"} => tmp[Dir(i)][Rng(i)] # Absent
                 /\ job[i].pc \notin {"undo", "unlink", "failed"}
      BY <2>7 DEF Core, Explained
    <2> QED
      BY <1>2, <1>4, <2>1, <2>5, <2>6, <2>7 DEF Explained, Dir, Rng
  <1> QED
    BY <1>7, <1>8, <1>9, <1>10, <1>11 DEF Core

\* An exception below the lock, to a job that is excused.
LEMMA FailInv ==
  ASSUME Core, NEW j \in Jobs, Fail(j), job[j].pc # "idle", Excused(j),
         UNCHANGED <<dirs, final, tmp, evicted>>
  PROVE  Core'
  <1>1. Goto(j, "undo") /\ Release(j)
    BY DEF Fail
  <1> QED
    BY <1>1, OutInv

\* A job goes on inside the lock, and the .tmp file of its range changes.
LEMMA TmpInv ==
  ASSUME Core, NEW j \in Jobs, NEW pc \in {"fill", "rename"}, Goto(j, pc),
         job[j].pc \in Inside, job[j].todo = {}, job[j].pc \in {"clear", "fill"},
         NEW c \in Content, tmp' = [tmp EXCEPT ![Dir(j)][Rng(j)] = c],
         pc = "rename" => job[j].gives > 0 /\ c \in {Absent, job[j].gives},
         c # Absent \/ Excused(j),
         UNCHANGED <<dirs, final, lock, evicted>>
  PROVE  Core'
  <1>1. /\ job' \in [Jobs -> JobRecord]
        /\ job'[j].pc = pc
        /\ \A i \in Jobs : /\ i # j => job'[i] = job[i]
                           /\ job'[i].dir = job[i].dir
                           /\ job'[i].rng = job[i].rng
                           /\ job'[i].gives = job[i].gives
                           /\ job'[i].todo = job[i].todo
    <2>1. pc \in {"idle"} \cup Running \cup Over
      BY DEF Running
    <2> QED
      BY <2>1, GotoMoves DEF Core
  <1>2. Dir(j) \in Dirs /\ Rng(j) \in Ranges
    BY DEF Core, Called, Inside
  <1>3. /\ tmp' \in [Dirs -> [Ranges -> Content]]
        /\ \A d \in Dirs, q \in Ranges :
              tmp'[d][q] = IF d = Dir(j) /\ q = Rng(j) THEN c ELSE tmp[d][q]
    BY <1>2 DEF Core, CoreTypes, Content
  <1>4. \A i \in Jobs : i # j /\ job[i].pc \in Inside => Dir(i) # Dir(j)
    BY Alone
  <1>5. CoreTypes' /\ Called'
    BY <1>1, <1>2, <1>3 DEF Core, CoreTypes, Called, Dir, Rng
  <1>6. Owner' /\ Written'
    <2>1. Owner'
      BY <1>1 DEF Core, Owner, Dir
    <2> QED
      BY <1>1, <2>1, WrittenStays DEF Core
  <1>7. FilledTmp'
    <2>1. ASSUME NEW i \in Jobs, i # j, job[i].pc = "rename"
          PROVE  job[i].gives > 0 /\ tmp'[Dir(i)][Rng(i)] \in {Absent, job[i].gives}
      <3>1. Dir(i) \in Dirs /\ Rng(i) \in Ranges /\ Dir(i) # Dir(j)
        BY <1>4, <2>1 DEF Core, Called, Inside
      <3> QED
        BY <1>3, <2>1, <3>1 DEF Core, FilledTmp
    <2> QED
      BY <1>1, <1>2, <1>3, <2>1 DEF FilledTmp, Dir, Rng
  <1>8. Cleared' /\ NoNested'
    BY <1>1 DEF Core, Cleared, NoNested, Files, Dir, Rng
  <1>9. Explained'
    <2>1. ASSUME NEW i \in Jobs, Excused(i) PROVE Excused(i)'
      BY <1>1, <2>1 DEF Excused, Dir, Rng
    <2>2. ASSUME NEW i \in Jobs, i # j, ~Excused(i), job[i].pc \in {"fill", "rename"}
          PROVE  tmp'[Dir(i)][Rng(i)] # Absent
      <3>1. Dir(i) \in Dirs /\ Rng(i) \in Ranges /\ Dir(i) # Dir(j)
        BY <1>4, <2>2 DEF Core, Called, Inside
      <3> QED
        BY <1>3, <2>2, <3>1 DEF Core, Explained
    <2>3. tmp'[Dir(j)][Rng(j)] # Absent \/ Excused(j)
      BY <1>2, <1>3
    <2>4. job[j].pc # "idle"
      OBVIOUS
    <2> QED
      BY <1>1, <2>1, <2>2, <2>3, <2>4 DEF Core, Explained, Dir, Rng
  <1> QED
    BY <1>5, <1>6, <1>7, <1>8, <1>9 DEF Core

\* The .tmp file is opened, and filled or left short.
LEMMA OpenOrFillInv ==
  ASSUME Core, NEW j \in Jobs, ClearFails(j) \/ Open(j) \/ Fill(j) \/ FillFails(j)
  PROVE  Core'
  <1>1. CASE ClearFails(j)
    <2>1. Excused(j)
      BY <1>1 DEF ClearFails, Core, Explained
    <2> QED
      BY <1>1, <2>1, FailInv DEF ClearFails, disk, ghost
  <1>2. CASE FillFails(j)
    <2>1. Excused(j)
      BY <1>2 DEF FillFails, Excused
    <2> QED
      BY <1>2, <2>1, FailInv DEF FillFails, disk, ghost
  <1>3. CASE Open(j)
    <2>1. job[j].pc = "clear" /\ job[j].todo = {} /\ UNCHANGED <<dirs, final, evicted>>
      BY <1>3 DEF Open, ghost
    <2>2. CASE Dir(j) \in dirs
      BY <1>3, <2>1, <2>2, TmpInv DEF Open, Content, Inside, Absent
    <2>3. CASE Dir(j) \notin dirs
      <3>1. Excused(j)
        BY <2>1, <2>3 DEF Core, Explained
      <3> QED
        BY <1>3, <2>1, <2>3, <3>1, FailInv DEF Open
    <2> QED
      BY <2>2, <2>3
  <1>4. CASE Fill(j)
    <2>1. job[j].pc = "fill" /\ Goto(j, "rename") /\ UNCHANGED <<dirs, final, lock, evicted>>
      BY <1>4 DEF Fill, ghost
    <2>2. job[j].todo = {} /\ Dir(j) \in Dirs /\ Rng(j) \in Ranges
      BY <2>1 DEF Core, Cleared, Called
    <2>3. PICK c \in {Absent, job[j].gives} :
             c = IF tmp[Dir(j)][Rng(j)] = Absent THEN Absent ELSE job[j].gives
      OBVIOUS
    <2>6. job[j].gives > 0 /\ job[j].gives \in Nat
      BY <1>4 DEF Fill, Core, CoreTypes, JobRecord
    <2>4. tmp' = [tmp EXCEPT ![Dir(j)][Rng(j)] = c]
      BY <1>4, <2>2, <2>3 DEF Fill, Core, CoreTypes
    <2>5. c # Absent \/ Excused(j)
      <3>1. tmp[Dir(j)][Rng(j)] # Absent \/ Excused(j)
        BY <2>1 DEF Core, Explained
      <3> QED
        BY <2>3, <2>6, <3>1 DEF Absent
    <2> QED
      BY <2>1, <2>2, <2>3, <2>4, <2>5, <2>6, TmpInv DEF Content, Inside
  <1> QED
    BY <1>1, <1>2, <1>3, <1>4

\* The .tmp file becomes the file of the range.
LEMMA RenameInv ==
  ASSUME Core, NEW j \in Jobs, Rename(j)
  PROVE  Core'
  <1>1. job[j].pc = "rename" /\ UNCHANGED <<dirs, evicted>>
    BY DEF Rename, ghost
  <1>2. Dir(j) \in Dirs /\ Rng(j) \in Ranges /\ job[j].todo = {}
    BY <1>1 DEF Core, Called, Cleared
  <1>3. CASE tmp[Dir(j)][Rng(j)] = Absent
    <2>1. Excused(j)
      BY <1>1, <1>3 DEF Core, Explained
    <2> QED
      BY <1>1, <1>3, <2>1, FailInv DEF Rename
  <1>4. CASE tmp[Dir(j)][Rng(j)] # Absent
    <2>1. /\ final' = [final EXCEPT ![Dir(j)][Rng(j)] = tmp[Dir(j)][Rng(j)]]
          /\ tmp' = [tmp EXCEPT ![Dir(j)][Rng(j)] = Absent]
          /\ Goto(j, "renamed") /\ UNCHANGED lock
      BY <1>4 DEF Rename, MoveTmp
    <2>2. /\ job' \in [Jobs -> JobRecord]
          /\ job'[j].pc = "renamed"
          /\ \A i \in Jobs : /\ i # j => job'[i] = job[i]
                             /\ job'[i].dir = job[i].dir
                             /\ job'[i].rng = job[i].rng
                             /\ job'[i].gives = job[i].gives
                             /\ job'[i].todo = job[i].todo
      BY <2>1, GotoMoves DEF Core, Running
    <2>3. PICK n \in Nat : n = tmp[Dir(j)][Rng(j)] /\ n = job[j].gives /\ n > 0
      BY <1>1, <1>2, <1>4 DEF Core, CoreTypes, Content, FilledTmp
    <2>4. /\ final' \in [Dirs -> [Ranges -> Content]]
          /\ tmp' \in [Dirs -> [Ranges -> Content]]
          /\ \A d \in Dirs, q \in Ranges :
                /\ final'[d][q] = IF d = Dir(j) /\ q = Rng(j) THEN n ELSE final[d][q]
                /\ tmp'[d][q] = IF d = Dir(j) /\ q = Rng(j) THEN Absent ELSE tmp[d][q]
      BY <1>2, <2>1, <2>3 DEF Core, CoreTypes, Content
    <2>5. \A i \in Jobs : i # j /\ job[i].pc \in Inside =>
             Dir(i) # Dir(j) /\ Dir(i) \in Dirs /\ Rng(i) \in Ranges
      <3>1. job[j].pc \in Inside
        BY <1>1 DEF Inside
      <3> QED
        BY <3>1, Alone DEF Core, Called, Inside
    <2>6. CoreTypes' /\ Called'
      BY <1>1, <1>2, <2>1, <2>2, <2>4 DEF Core, CoreTypes, Called, Dir, Rng
    <2>7. Owner'
      BY <1>1, <2>1, <2>2 DEF Core, Owner, Dir, Inside
    <2>8. Written'
      <3>1. ASSUME NEW d \in Dirs, NEW r \in Ranges, final'[d][r] # Absent
            PROVE  \E i \in Jobs : Source(i, d, r, final[d][r])'
        <4>1. CASE d = Dir(j) /\ r = Rng(j)
          <5>1. final'[d][r] = n
            BY <2>4, <4>1
          <5>2. Source(j, d, r, final[d][r])'
            BY <2>2, <2>3, <4>1, <5>1 DEF Source, Dir, Rng
          <5> QED
            BY <5>2
        <4>2. CASE ~(d = Dir(j) /\ r = Rng(j))
          <5>1. final'[d][r] = final[d][r]
            BY <2>4, <4>2
          <5>2. PICK i \in Jobs : Source(i, d, r, final[d][r])
            BY <3>1, <5>1 DEF Core, Written
          <5>3. Source(i, d, r, final[d][r])'
            BY <2>2, <5>1, <5>2 DEF Source, Dir, Rng
          <5> QED
            BY <5>3
        <4> QED
          BY <4>1, <4>2
      <3> QED
        BY <3>1 DEF Written
    \* To the others inside a lock, whose directories are not this one,
    \* nothing changed.
    <2>9. ASSUME NEW i \in Jobs, i # j, job[i].pc \in Inside
          PROVE  \A q \in Ranges : /\ final'[Dir(i)][q] = final[Dir(i)][q]
                                   /\ tmp'[Dir(i)][q] = tmp[Dir(i)][q]
      BY <2>4, <2>5, <2>9
    <2>10. FilledTmp'
      BY <2>2, <2>5, <2>9 DEF Core, FilledTmp, Dir, Rng, Inside
    <2>11. Cleared'
      BY <2>2, <2>9 DEF Core, Cleared, Dir, Rng, Inside
    <2>12. NoNested'
      <3>1. ASSUME NEW d \in Dirs, NEW r \in Ranges, NEW q \in Ranges,
                   final'[d][r] # Absent, final'[d][q] # Absent, Covers(r, q)
            PROVE  r = q
        <4>1. CASE d = Dir(j) /\ r = Rng(j) /\ q # r
          BY <1>1, <1>2, <2>4, <3>1, <4>1 DEF Core, Cleared
        <4>2. CASE d = Dir(j) /\ q = Rng(j) /\ q # r
          BY <1>1, <1>2, <2>4, <3>1, <4>2 DEF Core, Cleared
        <4>3. CASE ~(d = Dir(j) /\ (r = Rng(j) \/ q = Rng(j)))
          BY <2>4, <3>1, <4>3 DEF Core, NoNested, Files
        <4> QED
          BY <4>1, <4>2, <4>3
      <3> QED
        BY <3>1 DEF NoNested, Files
    <2>13. Explained'
      <3>1. ASSUME NEW i \in Jobs, Excused(i) PROVE Excused(i)'
        BY <1>1, <2>2, <3>1 DEF Excused, Dir, Rng
      <3>2. final'[Dir(j)][Rng(j)] # Absent
        BY <1>2, <2>4 DEF Absent
      <3>3. ASSUME NEW i \in Jobs, i # j, ~Excused(i)
            PROVE  /\ job[i].pc # "idle" => Dir(i) \in dirs'
                   /\ job[i].pc = "clear" =>
                         \A r \in job[i].todo : final'[Dir(i)][r] # Absent
                   /\ job[i].pc \in {"fill", "rename"} => tmp'[Dir(i)][Rng(i)] # Absent
                   /\ job[i].pc = "renamed" => final'[Dir(i)][Rng(i)] # Absent
                   /\ job[i].pc \notin {"undo", "unlink", "failed"}
        <4>1. job[i].todo \subseteq Ranges
          BY DEF Core, CoreTypes, JobRecord
        <4> QED
          BY <1>1, <2>5, <2>9, <3>3, <4>1 DEF Core, Explained, Inside
      <3>4. ~Excused(j) => Dir(j) \in dirs
        BY <1>1 DEF Core, Explained
      <3> QED
        BY <1>1, <2>2, <3>1, <3>2, <3>3, <3>4 DEF Explained, Dir, Rng
    <2> QED
      BY <2>6, <2>7, <2>8, <2>10, <2>11, <2>12, <2>13 DEF Core
  <1> QED
    BY <1>3, <1>4

\* The job removes the .tmp file of its range, outside the lock: perhaps one
\* that another job fills.
LEMMA UnlinkInv ==
  ASSUME Core, NEW j \in Jobs, Unlink(j)
  PROVE  Core'
  <1>1. /\ job[j].pc = "unlink" /\ tmp' = [tmp EXCEPT ![Dir(j)][Rng(j)] = Absent]
        /\ Goto(j, "failed") /\ UNCHANGED <<dirs, final, lock, evicted>>
    BY DEF Unlink, ghost
  <1>2. Dir(j) \in Dirs /\ Rng(j) \in Ranges /\ Excused(j)
    BY <1>1 DEF Core, Called, Explained
  <1>3. /\ job' \in [Jobs -> JobRecord]
        /\ job'[j].pc = "failed"
        /\ \A i \in Jobs : /\ i # j => job'[i] = job[i]
                           /\ job'[i].dir = job[i].dir
                           /\ job'[i].rng = job[i].rng
                           /\ job'[i].gives = job[i].gives
                           /\ job'[i].todo = job[i].todo
    BY <1>1, GotoMoves DEF Core, Over
  <1>4. /\ tmp' \in [Dirs -> [Ranges -> Content]]
        /\ \A d \in Dirs, q \in Ranges :
              tmp'[d][q] = IF d = Dir(j) /\ q = Rng(j) THEN Absent ELSE tmp[d][q]
    BY <1>1, <1>2 DEF Core, CoreTypes, Content
  <1>5. CoreTypes' /\ Called'
    BY <1>1, <1>2, <1>3, <1>4 DEF Core, CoreTypes, Called, Dir, Rng
  <1>6. Owner' /\ Written'
    <2>1. Owner'
      BY <1>1, <1>3 DEF Core, Owner, Dir, Inside
    <2> QED
      BY <1>1, <1>3, <2>1, WrittenStays DEF Core
  <1>7. \A i \in Jobs : job[i].pc # "idle" => Dir(i) \in Dirs /\ Rng(i) \in Ranges
    BY DEF Core, Called
  <1>8. FilledTmp'
    BY <1>3, <1>4, <1>7 DEF Core, FilledTmp, Dir, Rng
  <1>9. Cleared' /\ NoNested'
    BY <1>1, <1>3 DEF Core, Cleared, NoNested, Files, Dir, Rng
  <1>10. Explained'
    <2>1. ASSUME NEW i \in Jobs, Excused(i) PROVE Excused(i)'
      BY <1>1, <1>3, <2>1 DEF Excused, Dir, Rng
    <2>2. ASSUME NEW i \in Jobs, ~Excused(i) PROVE ~(Dir(i) = Dir(j) /\ Rng(i) = Rng(j))
      BY <1>2, <2>2 DEF Excused
    <2>3. ASSUME NEW i \in Jobs, ~Excused(i), job[i].pc # "idle"
          PROVE  tmp'[Dir(i)][Rng(i)] = tmp[Dir(i)][Rng(i)]
      BY <1>4, <1>7, <2>2, <2>3
    <2> QED
      BY <1>1, <1>2, <1>3, <2>1, <2>3 DEF Core, Explained, Dir, Rng
  <1> QED
    BY <1>5, <1>6, <1>8, <1>9, <1>10 DEF Core

\* A job that ends, or goes to its exception handler's awaits.
LEMMA EndInv ==
  ASSUME Core, NEW j \in Jobs, Undo(j) \/ Commit(j) \/ Timeout(j)
  PROVE  Core'
  <1>1. CASE Undo(j)
    <2>1. Excused(j) /\ job[j].pc = "undo"
      BY <1>1 DEF Undo, Core, Explained
    <2>2. PICK pc \in {"failed", "unlink"} : Goto(j, pc)
      BY <1>1 DEF Undo
    <2> QED
      BY <1>1, <2>1, <2>2, OutInv DEF Undo, disk, ghost, Over, Inside
  <1>2. CASE Commit(j)
    <2>1. job[j].pc = "renamed" /\ Release(j) /\ UNCHANGED <<dirs, final, tmp, evicted>>
      BY <1>2 DEF Commit, disk, ghost
    <2>2. CASE Stat(j) = Absent
      <3>1. Excused(j)
        BY <2>1, <2>2 DEF Core, Explained, Stat
      <3> QED
        BY <1>2, <2>1, <2>2, <3>1, OutInv DEF Commit, Over
    <2>3. CASE Stat(j) # Absent
      BY <1>2, <2>1, <2>3, OutInv DEF Commit, Over
    <2> QED
      BY <2>2, <2>3
  <1>3. CASE Timeout(j)
    <2>1. PICK pc \in {"orphaned", "cancelled"} : Goto(j, pc)
      BY <1>3 DEF Timeout, Cut
    <2> QED
      BY <1>3, <2>1, OutInv DEF Timeout, Running, Over, disk, ghost
  <1> QED
    BY <1>1, <1>2, <1>3

\* Files go; what is left is as it was.
LEMMA FewerFiles ==
  ASSUME Core, UNCHANGED <<lock, job>>, dirs' \subseteq dirs, evicted' = TRUE,
         final' \in [Dirs -> [Ranges -> Content]],
         tmp' \in [Dirs -> [Ranges -> Content]],
         \A e \in Dirs, q \in Ranges : /\ final'[e][q] \in {Absent, final[e][q]}
                                       /\ tmp'[e][q] \in {Absent, tmp[e][q]}
  PROVE  Core'
  <1>1. CoreTypes'
    BY DEF Core, CoreTypes
  <1>2. Called' /\ Owner' /\ Explained'
    BY DEF Core, Called, Owner, Explained, Excused, Dir, Rng
  <1>3. \A i \in Jobs : job[i].pc # "idle" => Dir(i) \in Dirs /\ Rng(i) \in Ranges
    BY DEF Core, Called
  <1>4. FilledTmp'
    <2>1. ASSUME NEW i \in Jobs, job[i].pc = "rename"
          PROVE  job[i].gives > 0 /\ tmp'[Dir(i)][Rng(i)] \in {Absent, job[i].gives}
      <3>1. tmp'[Dir(i)][Rng(i)] \in {Absent, tmp[Dir(i)][Rng(i)]}
        BY <1>3, <2>1
      <3> QED
        BY <2>1, <3>1 DEF Core, FilledTmp
    <2> QED
      BY <2>1 DEF FilledTmp, Dir, Rng
  <1>5. Written'
    BY WrittenStays DEF Core
  <1>6. Cleared'
    BY <1>3 DEF Core, Cleared, Dir, Rng
  <1>7. NoNested'
    BY DEF Core, NoNested, Files
  <1> QED
    BY <1>1, <1>2, <1>4, <1>5, <1>6, <1>7 DEF Core

\* The files of d that rmtree has removed so far, and the others.
LEMMA LessFiles ==
  ASSUME CoreTypes, NEW d \in Dirs, NEW gone \in SUBSET Ranges, NEW goneTmp \in SUBSET Ranges,
         final' = [final EXCEPT ![d] = Less(final[d], gone)],
         tmp' = [tmp EXCEPT ![d] = Less(tmp[d], goneTmp)]
  PROVE  /\ final' \in [Dirs -> [Ranges -> Content]]
         /\ tmp' \in [Dirs -> [Ranges -> Content]]
         /\ \A e \in Dirs, q \in Ranges : /\ final'[e][q] \in {Absent, final[e][q]}
                                          /\ tmp'[e][q] \in {Absent, tmp[e][q]}
         /\ gone = Ranges => \A q \in Ranges : final'[d][q] = Absent
  BY DEF Less, CoreTypes, Content

\* Files go with their directory, wholly or in part.
LEMMA RemoveInv ==
  ASSUME Core, NEW d \in Dirs, RemoveEntry(d) \/ RemoveEntryFails(d)
  PROVE  Core'
  <1>1. UNCHANGED <<lock, job>> /\ dirs' \subseteq dirs /\ evicted' = TRUE
    BY DEF RemoveEntry, RemoveEntryFails
  <1>2. CASE RemoveEntry(d)
    <2>1. /\ final' \in [Dirs -> [Ranges -> Content]]
          /\ tmp' \in [Dirs -> [Ranges -> Content]]
          /\ \A e \in Dirs, q \in Ranges : /\ final'[e][q] \in {Absent, final[e][q]}
                                           /\ tmp'[e][q] \in {Absent, tmp[e][q]}
      BY <1>2 DEF RemoveEntry, NoFiles, Core, CoreTypes, Content
    <2> QED
      BY <1>1, <2>1, FewerFiles
  <1>3. CASE RemoveEntryFails(d)
    <2>1. PICK gone \in SUBSET Ranges, goneTmp \in SUBSET Ranges :
             /\ final' = [final EXCEPT ![d] = Less(final[d], gone)]
             /\ tmp' = [tmp EXCEPT ![d] = Less(tmp[d], goneTmp)]
      BY <1>3 DEF RemoveEntryFails
    <2> QED
      BY <1>1, <2>1, LessFiles, FewerFiles DEF Core
  <1> QED
    BY <1>2, <1>3

\* The disk is as it was, or files went with a directory.
DiskLess == \/ UNCHANGED <<dirs, final, tmp, evicted>>
            \/ /\ dirs' \subseteq dirs /\ evicted' = TRUE
               /\ final' \in [Dirs -> [Ranges -> Content]]
               /\ tmp' \in [Dirs -> [Ranges -> Content]]
               /\ \A e \in Dirs, q \in Ranges : /\ final'[e][q] \in {Absent, final[e][q]}
                                               /\ tmp'[e][q] \in {Absent, tmp[e][q]}

\* The process stops: no lock is held, and no job is inside one.
LEMMA StopInv ==
  ASSUME Core, Restart, DiskLess,
         job' = Stopped \/ \E j \in Jobs : /\ job[j].pc = "renamed"
                                           /\ job' = [Stopped EXCEPT ![j].pc = "done"]
  PROVE  Core'
  <1>1. /\ lock' = [d \in Dirs |-> None]
        /\ dirs' \subseteq dirs /\ evicted' \in {evicted, TRUE}
        /\ dirs' = dirs \/ evicted' = TRUE
        /\ final' \in [Dirs -> [Ranges -> Content]]
        /\ tmp' \in [Dirs -> [Ranges -> Content]]
        /\ \A e \in Dirs, q \in Ranges : final'[e][q] \in {Absent, final[e][q]}
    BY DEF Restart, DiskLess, Core, CoreTypes
  <1>2. /\ Stopped \in [Jobs -> JobRecord]
        /\ \A i \in Jobs : IF job[i].pc \in Running
                           THEN /\ Stopped[i].pc \in {"orphaned", "cancelled"}
                                /\ Stopped[i].dir = job[i].dir
                                /\ Stopped[i].rng = job[i].rng
                                /\ Stopped[i].gives = job[i].gives
                                /\ Stopped[i].todo = job[i].todo
                           ELSE Stopped[i] = job[i]
    <2>1. ASSUME NEW i \in Jobs, job[i].pc \in Running
          PROVE  \E pc \in {"orphaned", "cancelled"} : Stopped[i] = [job[i] EXCEPT !.pc = pc]
      BY <2>1 DEF Stopped, Cut
    <2>2. ASSUME NEW i \in Jobs, job[i].pc \notin Running PROVE Stopped[i] = job[i]
      BY <2>2 DEF Stopped
    <2>3. ASSUME NEW i \in Jobs, job[i].pc \in Running
          PROVE  /\ Stopped[i].pc \in {"orphaned", "cancelled"}
                 /\ Stopped[i].dir = job[i].dir
                 /\ Stopped[i].rng = job[i].rng
                 /\ Stopped[i].gives = job[i].gives
                 /\ Stopped[i].todo = job[i].todo
                 /\ Stopped[i] \in JobRecord
      <3>1. job[i] \in JobRecord
        BY DEF Core, CoreTypes
      <3>2. PICK pc \in {"orphaned", "cancelled"} : Stopped[i] = [job[i] EXCEPT !.pc = pc]
        BY <2>1, <2>3
      <3> QED
        BY <3>1, <3>2 DEF JobRecord, Over
    <2>4. \A i \in Jobs : Stopped[i] \in JobRecord
      BY <2>2, <2>3 DEF Core, CoreTypes
    <2>5. Stopped \in [Jobs -> JobRecord]
      BY <2>4 DEF Stopped
    <2> QED
      BY <2>2, <2>3, <2>5
  <1>3. /\ job' \in [Jobs -> JobRecord]
        /\ \A i \in Jobs :
              \/ job'[i] = job[i] /\ job[i].pc \notin Running
              \/ /\ job[i].pc \in Running
                 /\ job'[i].pc \in {"orphaned", "cancelled", "done"}
                 /\ job'[i].dir = job[i].dir
                 /\ job'[i].rng = job[i].rng
                 /\ job'[i].gives = job[i].gives
    <2>1. CASE job' = Stopped
      BY <1>2, <2>1
    <2>2. CASE \E j \in Jobs : /\ job[j].pc = "renamed"
                               /\ job' = [Stopped EXCEPT ![j].pc = "done"]
      BY <1>2, <2>2 DEF JobRecord, Over, Running
    <2> QED
      BY <2>1, <2>2
  <1>4. CoreTypes'
    BY <1>1, <1>3 DEF Core, CoreTypes
  <1>5. Called'
    BY <1>3 DEF Core, Called, Dir, Rng, Running
  <1>6. \A i \in Jobs : job'[i].pc \notin Inside
    BY <1>3 DEF Inside, Running
  <1>7. Owner' /\ FilledTmp' /\ Written' /\ Cleared' /\ NoNested'
    <2>1. Owner' /\ FilledTmp' /\ Cleared'
      BY <1>6 DEF Owner, FilledTmp, Cleared, Inside
    <2>2. NoNested'
      BY <1>1 DEF Core, NoNested, Files
    <2> QED
      BY <1>1, <1>3, <2>1, <2>2, WrittenStays DEF Core
  <1>8. Explained'
    <2>1. ASSUME NEW i \in Jobs, Excused(i) PROVE Excused(i)'
      <3>1. CASE evicted
        BY <1>1, <3>1 DEF Core, CoreTypes, Excused
      <3>2. CASE ~evicted
        <4>1. PICK k \in Jobs : Dir(k) = Dir(i) /\ Rng(k) = Rng(i) /\ job[k].gives = 0
          BY <2>1, <3>2 DEF Excused
        <4>2. /\ job'[k].dir = job[k].dir /\ job'[k].rng = job[k].rng
              /\ job'[k].gives = job[k].gives
          BY <1>3
        <4>3. job'[i].dir = job[i].dir /\ job'[i].rng = job[i].rng
          BY <1>3
        <4> QED
          BY <4>1, <4>2, <4>3 DEF Excused, Dir, Rng
      <3> QED
        BY <3>1, <3>2
    <2>2. CASE evicted' = TRUE
      BY <2>2 DEF Explained, Excused
    <2>3. CASE dirs' = dirs
      <3> SUFFICES ASSUME NEW i \in Jobs, ~Excused(i)
                   PROVE  Excused(i)' \/ (/\ job'[i].pc # "idle" => Dir(i)' \in dirs'
                                         /\ job'[i].pc \notin Inside
                                         /\ job'[i].pc \notin {"undo", "unlink", "failed"})
        BY <2>1 DEF Explained, Inside
      <3> QED
        BY <1>3, <1>6, <2>3 DEF Core, Explained, Dir, Running
    <2> QED
      BY <1>1, <2>2, <2>3
  <1> QED
    BY <1>4, <1>5, <1>7, <1>8 DEF Core

\* A directory may be made; the rest is as it was.
LEMMA GrowInv ==
  ASSUME Core, dirs \subseteq dirs', dirs' \subseteq Dirs,
         UNCHANGED <<final, tmp, lock, job, evicted>>
  PROVE  Core'
  <1>1. CoreTypes' /\ Called' /\ Owner' /\ FilledTmp' /\ Written'
    BY DEF Core, CoreTypes, Called, Owner, FilledTmp, Written, Source, Dir, Rng
  <1>2. Cleared' /\ NoNested'
    BY DEF Core, Cleared, NoNested, Files, Dir, Rng
  <1>3. Explained'
    BY DEF Core, Explained, Excused, Dir, Rng
  <1> QED
    BY <1>1, <1>2, <1>3 DEF Core

\* No step breaks the agreement of jobs, locks and files.
LEMMA CoreStep ==
  ASSUME Core, [Next]_vars
  PROVE  Core'
  <1>1. ASSUME NEW j \in Jobs, JobStep(j) \/ Call(j) \/ Timeout(j) PROVE Core'
    BY <1>1, CallInv, AcquireInv, ClearInv, OpenOrFillInv, RenameInv, UnlinkInv, EndInv
       DEF JobStep
  <1>2. ASSUME NEW j \in Jobs, CrashInCommit(j) PROVE Core'
    BY <1>2, StopInv DEF CrashInCommit, DiskLess, disk
  <1>3. CASE Crash
    BY <1>3, StopInv DEF Crash, DiskLess, disk
  <1>9. ASSUME NEW d \in Dirs, CrashInRemoval(d) PROVE Core'
    <2>1. PICK gone \in SUBSET Ranges, goneTmp \in SUBSET Ranges :
             /\ final' = [final EXCEPT ![d] = Less(final[d], gone)]
             /\ tmp' = [tmp EXCEPT ![d] = Less(tmp[d], goneTmp)]
      BY <1>9 DEF CrashInRemoval
    <2>2. dirs' \subseteq dirs /\ evicted' = TRUE
      BY <1>9 DEF CrashInRemoval
    <2>3. DiskLess
      BY <2>1, <2>2, LessFiles DEF DiskLess, Core
    <2> QED
      BY <1>9, <2>3, StopInv DEF CrashInRemoval
  <1>4. ASSUME NEW d \in Dirs, RemoveEntry(d) \/ RemoveEntryFails(d) PROVE Core'
    BY <1>4, RemoveInv
  <1>5. dirs \subseteq Dirs
    BY DEF Core, CoreTypes
  <1>6. ASSUME NEW d \in Dirs, Lookup(d) PROVE Core'
    BY <1>5, <1>6, GrowInv DEF Lookup, ghost
  <1>7. ASSUME NEW q \in Streams, Find(q) \/ OpenFile(q) PROVE Core'
    BY <1>5, <1>7, GrowInv DEF Find, OpenFile, disk, ghost
  <1>8. CASE UpdateScore \/ Recalculate \/ UNCHANGED vars
    BY <1>5, <1>8, GrowInv DEF UpdateScore, Recalculate, vars, disk, ghost
  <1> QED
    BY <1>1, <1>2, <1>3, <1>4, <1>6, <1>7, <1>8, <1>9 DEF Next

-------------------------------------------------------------------------------
(* The database: its types.                                                *)

\* A task update_score.
Rescoring == [dir : Dirs, access : Nat]

DataTypes == /\ record \in [Dirs -> Row \cup {None}]
             /\ sysSize \in Nat /\ sysCount \in Nat
             /\ table \in {"cache_files", "system_info"}
             /\ pending \in Seq(Rescoring)
             /\ crashes \in 0..MaxCrashes

\* A call for the file had a writer of fewer bytes.
Shorter(d, r) == \E i \in Jobs : /\ Dir(i) = d /\ Rng(i) = r
                                 /\ 0 < job[i].gives /\ job[i].gives < Size(r)

\* A stream that was found has a directory and a range; it is short only if a
\* writer was.
Served(x) == /\ x.pc = "short" => Shorter(x.dir, x.rng)
             /\ x.pc = "found" => \E d \in Dirs, r \in Ranges :
                                     x = [pc |-> "found", dir |-> d, rng |-> r]
Streamed == /\ stream = [q \in Streams |-> stream[q]]
            /\ \A q \in Streams : Served(stream[q])

\* The file of a job has a size, if it is there.
LEMMA StatNat ==
  ASSUME Core, NEW j \in Jobs, job[j].pc = "renamed", Stat(j) # Absent
  PROVE  Dir(j) \in Dirs /\ Rng(j) \in Ranges /\ Stat(j) \in Nat
  <1>1. Dir(j) \in Dirs /\ Rng(j) \in Ranges
    BY DEF Core, Called
  <1> QED
    BY <1>1 DEF Core, CoreTypes, Content, Stat

\* What a commit makes of a row is a row.
LEMMA RowAfterIsRow ==
  ASSUME DataTypes, NEW d \in Dirs, NEW n \in Nat
  PROVE  /\ RowAfter(d, n) \in Row
         /\ RowAfter(d, n).size = n + IF record[d] = None THEN 0 ELSE record[d].size
  <1>1. CASE record[d] = None
    BY <1>1 DEF RowAfter, Row
  <1>2. CASE record[d] # None
    <2>1. record[d] \in Row
      BY <1>2 DEF DataTypes
    <2>2. RowAfter(d, n) = [record[d] EXCEPT !.size = @ + n, !.access = @ + 1]
      BY <1>2 DEF RowAfter
    <2>3. PICK x \in Row : x = record[d]
      BY <2>1
    <2>4. PICK size \in Nat, access \in Nat : size = x.size + n /\ access = x.access + 1
      BY DEF Row
    <2>5. [x EXCEPT !.size = @ + n, !.access = @ + 1]
             = [x EXCEPT !.size = size, !.access = access]
      BY <2>4 DEF Row
    <2>6. PICK y : y = [x EXCEPT !.size = size, !.access = access]
      OBVIOUS
    <2>7. y \in Row /\ y.size = size
      BY <2>6 DEF Row
    <2>8. RowAfter(d, n) = y
      BY <2>2, <2>3, <2>5, <2>6
    <2>9. record[d].size = x.size /\ x.size \in Nat
      BY <2>3 DEF Row
    <2> QED
      BY <1>2, <2>4, <2>7, <2>8, <2>9
  <1> QED
    BY <1>1, <1>2

\* A row stays a row.
LEMMA RecordTypes ==
  ASSUME Core, DataTypes, [Next]_vars
  PROVE  record' \in [Dirs -> Row \cup {None}]
  <1>1. ASSUME NEW j \in Jobs, job[j].pc = "renamed", Stat(j) # Absent,
               record' = [record EXCEPT ![Dir(j)] = RowAfter(Dir(j), Stat(j))]
        PROVE  record' \in [Dirs -> Row \cup {None}]
    <2>1. Dir(j) \in Dirs /\ Stat(j) \in Nat
      BY <1>1, StatNat
    <2>2. RowAfter(Dir(j), Stat(j)) \in Row
      BY <2>1, RowAfterIsRow
    <2> QED
      BY <1>1, <2>1, <2>2 DEF DataTypes
  <1>2. CASE UpdateScore
    <2>1. Head(pending) \in Rescoring
      BY <1>2 DEF UpdateScore, DataTypes
    <2> QED
      BY <1>2, <2>1 DEF UpdateScore, DataTypes, Row, Rescoring
  <1>3. CASE Recalculate
    BY <1>3 DEF Recalculate, DataTypes, Row
  <1>4. ASSUME NEW d \in Dirs, RemoveEntry(d) \/ CrashInRemoval(d)
        PROVE  record' \in [Dirs -> Row \cup {None}]
    BY <1>4 DEF RemoveEntry, CrashInRemoval, DataTypes
  <1>5. CASE UNCHANGED record
    BY <1>5 DEF DataTypes
  <1>6. ASSUME NEW j \in Jobs, Commit(j) \/ CrashInCommit(j) PROVE record' \in [Dirs -> Row \cup {None}]
    BY <1>1, <1>5, <1>6 DEF Commit, CrashInCommit, db
  <1>7. ASSUME NEW j \in Jobs, JobStep(j) \/ Call(j) \/ Timeout(j), ~Commit(j)
        PROVE  UNCHANGED record
    BY <1>7 DEF JobStep, Acquire, Clear, ClearFails, Open, Fill, FillFails, Rename, Undo,
                Unlink, Call, Timeout, db
  <1>8. ASSUME \/ Crash
               \/ \E q \in Streams : Find(q) \/ OpenFile(q)
               \/ \E d \in Dirs : Lookup(d) \/ RemoveEntryFails(d)
        PROVE  UNCHANGED record
    BY <1>8 DEF Crash, Find, OpenFile, Lookup, RemoveEntryFails, db
  <1> QED
    BY <1>2, <1>3, <1>4, <1>5, <1>6, <1>7, <1>8 DEF Next, vars, db

\* Totals, handler and waiting scores keep their types as well.
LEMMA DataStep ==
  ASSUME Core, DataTypes, [Next]_vars
  PROVE  DataTypes'
  <1>1. record' \in [Dirs -> Row \cup {None}]
    BY RecordTypes
  <1> DEFINE Rest == /\ sysSize' \in Nat /\ sysCount' \in Nat
                     /\ table' \in {"cache_files", "system_info"}
                     /\ pending' \in Seq(Rescoring)
                     /\ crashes' \in 0..MaxCrashes
  <1> SUFFICES Rest
    BY <1>1 DEF DataTypes
  <1>2. CASE UNCHANGED <<sysSize, sysCount, pending, crashes>>
             /\ table' \in {table, "cache_files", "system_info"}
    BY <1>2 DEF DataTypes
  <1>3. ASSUME NEW j \in Jobs, Commit(j) PROVE Rest
    <2>1. CASE Stat(j) = Absent
      BY <1>2, <1>3, <2>1 DEF Commit, db, ghost
    <2>2. CASE Stat(j) # Absent
      <3>1. Dir(j) \in Dirs /\ Rng(j) \in Ranges /\ Stat(j) \in Nat
        BY <1>3, <2>2, StatNat DEF Commit, Stat
      <3>2. record'[Dir(j)] \in Row
        BY <1>3, <2>2, <3>1, RowAfterIsRow DEF Commit, DataTypes
      <3>3. pending' \in Seq(Rescoring)
        <4>1. PICK p \in Rescoring : p = [dir |-> Dir(j), access |-> record'[Dir(j)].access]
          BY <3>1, <3>2 DEF Row, Rescoring
        <4> QED
          BY <1>3, <2>2, <4>1 DEF Commit, DataTypes
      <3>4. sysSize' \in Nat /\ sysCount' \in Nat
        BY <1>3, <2>2, <3>1 DEF Commit, DataTypes, IsNew
      <3> QED
        BY <1>3, <2>2, <3>3, <3>4 DEF Commit, DataTypes, ghost
    <2> QED
      BY <2>1, <2>2
  <1>4. CASE UpdateScore
    BY <1>4 DEF UpdateScore, DataTypes, ghost
  <1>5. CASE Recalculate
    BY <1>2, <1>5 DEF Recalculate, ghost
  <1>6. ASSUME NEW d \in Dirs, RemoveEntry(d) PROVE Rest
    <2>1. record[d].size \in Nat
      BY <1>6 DEF RemoveEntry, DataTypes, Row
    <2> QED
      BY <1>6, <2>1 DEF RemoveEntry, DataTypes, Clamped
  <1>7. CASE Restart
    BY <1>7, StorageAssumption DEF Restart, DataTypes
  <1>8. ASSUME NEW j \in Jobs, JobStep(j) \/ Call(j) \/ Timeout(j) \/ CrashInCommit(j)
        PROVE  Rest
    <2>1. CASE JobStep(j) /\ ~Commit(j)
      BY <1>2, <2>1 DEF JobStep, Acquire, Clear, ClearFails, Open, Fill, FillFails, Rename,
                        Undo, Unlink, db, ghost
    <2>2. CASE Call(j) \/ Timeout(j)
      BY <1>2, <2>2 DEF Call, Timeout, db, ghost
    <2> QED
      BY <1>3, <1>7, <1>8, <2>1, <2>2 DEF CrashInCommit
  <1>9. ASSUME \/ \E q \in Streams : Find(q) \/ OpenFile(q)
               \/ \E d \in Dirs : Lookup(d) \/ RemoveEntryFails(d)
               \/ UNCHANGED vars
        PROVE  Rest
    BY <1>2, <1>9 DEF Find, OpenFile, Lookup, RemoveEntryFails, vars, db, ghost
  <1> QED
    BY <1>1, <1>4, <1>5, <1>6, <1>7, <1>8, <1>9 DEF Next, Crash, CrashInRemoval, DataTypes

\* A job that is here has renamed its file, and no row accounts for it.
Ahead == {"renamed", "orphaned"}

\* The jobs as a crash leaves them.
LEMMA StoppedIs ==
  ASSUME CoreTypes
  PROVE  /\ Stopped \in [Jobs -> JobRecord]
         /\ \A i \in Jobs : /\ Stopped[i].dir = job[i].dir /\ Stopped[i].rng = job[i].rng
                            /\ Stopped[i].gives = job[i].gives
                            /\ job[i].pc \in Ahead => Stopped[i].pc \in Ahead
  <1>1. ASSUME NEW i \in Jobs, job[i].pc \in Running
        PROVE  /\ Stopped[i].dir = job[i].dir /\ Stopped[i].rng = job[i].rng
               /\ Stopped[i].gives = job[i].gives
               /\ Stopped[i].pc = Cut(job[i].pc) /\ Stopped[i] \in JobRecord
    <2>1. PICK pc \in {"orphaned", "cancelled"} : pc = Cut(job[i].pc)
      BY DEF Cut
    <2>2. Stopped[i] = [job[i] EXCEPT !.pc = pc]
      BY <1>1, <2>1 DEF Stopped
    <2>3. job[i] \in JobRecord
      BY DEF CoreTypes
    <2> QED
      BY <2>1, <2>2, <2>3 DEF JobRecord, Over
  <1>2. ASSUME NEW i \in Jobs, job[i].pc \notin Running PROVE Stopped[i] = job[i]
    BY <1>2 DEF Stopped
  <1>3. "renamed" \in Running /\ "orphaned" \notin Running /\ Cut("renamed") = "orphaned"
    BY DEF Running, Cut
  <1>4. \A i \in Jobs : Stopped[i] \in JobRecord
    BY <1>1, <1>2 DEF CoreTypes
  <1>5. Stopped \in [Jobs -> JobRecord]
    BY <1>4 DEF Stopped
  <1> QED
    BY <1>1, <1>2, <1>3, <1>5 DEF Ahead

\* A call that was given something keeps what it was called with.
LEMMA CallsStay ==
  ASSUME Core, [Next]_vars, NEW i \in Jobs, job[i].gives > 0
  PROVE  job'[i].dir = job[i].dir /\ job'[i].rng = job[i].rng /\ job'[i].gives = job[i].gives
  <1> DEFINE Stays == /\ job'[i].dir = job[i].dir
                      /\ job'[i].rng = job[i].rng
                      /\ job'[i].gives = job[i].gives
  <1>1. ASSUME NEW j \in Jobs, NEW pc, Goto(j, pc) PROVE Stays
    BY <1>1 DEF Goto, Core, CoreTypes, JobRecord
  <1>2. ASSUME NEW j \in Jobs, JobStep(j) \/ Timeout(j) PROVE Stays
    <2>1. CASE Acquire(j) \/ Clear(j)
      <3>1. CASE \E pc : Goto(j, pc)
        BY <1>1, <3>1
      <3>2. CASE \E T : job' = [job EXCEPT ![j].pc = "clear", ![j].todo = T]
        BY <3>2 DEF Core, CoreTypes, JobRecord
      <3>3. CASE \E T : job' = [job EXCEPT ![j].todo = T]
        BY <3>3 DEF Core, CoreTypes, JobRecord
      <3> QED
        BY <2>1, <3>1, <3>2, <3>3 DEF Acquire, Clear
    <2>2. CASE \/ ClearFails(j) \/ Open(j) \/ Fill(j) \/ FillFails(j) \/ Rename(j)
               \/ Commit(j) \/ Undo(j) \/ Unlink(j) \/ Timeout(j)
      <3>1. \E pc : Goto(j, pc)
        BY <2>2 DEF ClearFails, Open, Fill, FillFails, Rename, Commit, Undo, Unlink, Timeout, Fail
      <3> QED
        BY <1>1, <3>1
    <2> QED
      BY <1>2, <2>1, <2>2 DEF JobStep
  <1>3. ASSUME NEW j \in Jobs, Call(j) PROVE Stays
    <2>1. i # j
      BY <1>3 DEF Call, Core, Called, Idle
    <2> QED
      BY <1>3, <2>1 DEF Call, Core, CoreTypes
  <1>4. ASSUME job' = Stopped PROVE Stays
    BY <1>4, StoppedIs DEF Core
  <1>5. ASSUME NEW j \in Jobs, CrashInCommit(j) PROVE Stays
    BY <1>5, StoppedIs DEF Core, CrashInCommit, JobRecord
  <1>6. ASSUME UNCHANGED job PROVE Stays
    BY <1>6
  <1> QED
    BY <1>2, <1>3, <1>4, <1>5, <1>6
       DEF Next, Crash, CrashInRemoval, UpdateScore, Recalculate, Find, OpenFile, Lookup,
           RemoveEntry, RemoveEntryFails, vars

\* A stream that has found its file is cut short by no step.
LEMMA StreamStep ==
  ASSUME Core, Streamed, [Next]_vars
  PROVE  Streamed'
  <1>1. ASSUME NEW d, NEW r, Shorter(d, r) PROVE Shorter(d, r)'
    <2>1. PICK i \in Jobs : /\ Dir(i) = d /\ Rng(i) = r
                            /\ 0 < job[i].gives /\ job[i].gives < Size(r)
      BY <1>1 DEF Shorter
    <2>2. job'[i].dir = job[i].dir /\ job'[i].rng = job[i].rng /\ job'[i].gives = job[i].gives
      BY <2>1, CallsStay DEF Core, CoreTypes, JobRecord
    <2> QED
      BY <2>1, <2>2 DEF Shorter, Dir, Rng
  <1>2. ASSUME NEW x, Served(x) PROVE Served(x)'
    BY <1>1, <1>2 DEF Served
  <1>3. CASE UNCHANGED stream
    <2>1. PICK s : s = stream
      OBVIOUS
    <2>2. \A q \in Streams : Served(s[q])'
      BY <1>2, <2>1 DEF Streamed
    <2> QED
      BY <1>3, <2>1, <2>2 DEF Streamed
  <1>4. ASSUME NEW q \in Streams, NEW x, stream' = [stream EXCEPT ![q] = x], Served(x)'
        PROVE  Streamed'
    <2>1. PICK s : s = stream
      OBVIOUS
    <2>2. \A u \in Streams : Served(s[u])'
      BY <1>2, <2>1 DEF Streamed
    <2>3. /\ stream' = [u \in Streams |-> stream'[u]]
          /\ \A u \in Streams : stream'[u] = IF u = q THEN x ELSE s[u]
      BY <1>4, <2>1 DEF Streamed
    <2>4. \A u \in Streams : Served(stream[u])'
      <3> SUFFICES ASSUME NEW u \in Streams PROVE Served(stream[u])'
        OBVIOUS
      <3>1. CASE u = q
        <4>1. stream'[u] = x
          BY <2>3, <3>1
        <4> QED
          BY <1>4, <4>1
      <3>2. CASE u # q
        <4>1. stream'[u] = s[u]
          BY <2>3, <3>2
        <4> QED
          BY <2>2, <4>1
      <3> QED
        BY <3>1, <3>2
    <2> QED
      BY <2>3, <2>4 DEF Streamed
  <1>5. ASSUME NEW q \in Streams, Find(q) PROVE Streamed'
    <2>1. PICK d \in Dirs, r \in Ranges :
             stream' = [stream EXCEPT ![q] = [pc |-> "found", dir |-> d, rng |-> r]]
      BY <1>5 DEF Find, Files
    <2> QED
      BY <1>4, <2>1 DEF Served
  <1>6. ASSUME NEW q \in Streams, OpenFile(q) PROVE Streamed'
    <2>1. PICK d \in Dirs, r \in Ranges :
             stream[q] = [pc |-> "found", dir |-> d, rng |-> r]
      BY <1>6 DEF OpenFile, Streamed, Served
    <2>2. PICK o : o = Outcome(r, final[d][r])
      OBVIOUS
    <2>3. o \in {"empty", "short", "served"} /\ (o = "short" => Shorter(d, r))
      <3>1. final[d][r] \in Nat \cup {Absent}
        BY DEF Core, CoreTypes, Content
      <3>2. Size(r) \in Nat
        BY StorageAssumption DEF Size
      <3>3. CASE final[d][r] = Absent
        BY <2>2, <3>3 DEF Outcome
      <3>4. CASE final[d][r] # Absent
        <4>1. PICK i \in Jobs : Source(i, d, r, final[d][r])
          BY <3>4 DEF Core, Written
        <4>2. final[d][r] < Size(r) => Shorter(d, r)
          BY <4>1 DEF Source, Shorter
        <4> QED
          BY <2>2, <3>1, <3>2, <3>4, <4>2 DEF Outcome
      <3> QED
        BY <3>3, <3>4
    <2>4. stream' = [stream EXCEPT ![q] = [pc |-> o, dir |-> d, rng |-> r]]
      <3>1. stream[q].dir = d /\ stream[q].rng = r
        BY <2>1
      <3>2. stream' = [stream EXCEPT ![q].pc = o]
        BY <1>6, <2>2, <3>1 DEF OpenFile
      <3>3. [stream[q] EXCEPT !.pc = o] = [pc |-> o, dir |-> d, rng |-> r]
        BY <2>1
      <3> QED
        BY <3>2, <3>3
    <2>5. PICK x : x = [pc |-> o, dir |-> d, rng |-> r]
      OBVIOUS
    <2>6. x.pc = o /\ x.dir = d /\ x.rng = r
      BY <2>5
    <2>7. Served(x)'
      BY <1>1, <2>3, <2>6 DEF Served
    <2> QED
      BY <1>4, <2>4, <2>5, <2>7
  <1>7. CASE Restart
    <2>1. PICK s : s = stream
      OBVIOUS
    <2>2. \A u \in Streams : Served(s[u])'
      BY <1>2, <2>1 DEF Streamed
    <2>3. /\ stream' = [u \in Streams |-> stream'[u]]
          /\ \A u \in Streams : stream'[u] = s[u] \/ stream'[u] = [pc |-> "idle"]
      BY <1>7, <2>1 DEF Restart
    <2>4. Served([pc |-> "idle"])'
      BY DEF Served
    <2>5. \A u \in Streams : Served(stream[u])'
      <3> SUFFICES ASSUME NEW u \in Streams PROVE Served(stream[u])'
        OBVIOUS
      <3> QED
        BY <2>2, <2>3, <2>4
    <2> QED
      BY <2>3, <2>5 DEF Streamed
  <1>8. ASSUME NEW j \in Jobs, JobStep(j) \/ Call(j) \/ Timeout(j) PROVE UNCHANGED stream
    BY <1>8 DEF JobStep, Acquire, Clear, ClearFails, Open, Fill, FillFails, Rename, Commit,
                Undo, Unlink, Call, Timeout
  <1>9. ASSUME \/ \E d \in Dirs : Lookup(d) \/ RemoveEntry(d) \/ RemoveEntryFails(d)
               \/ UpdateScore \/ Recalculate \/ UNCHANGED vars
        PROVE  UNCHANGED stream
    BY <1>9 DEF Lookup, RemoveEntry, RemoveEntryFails, UpdateScore, Recalculate, vars
  <1> QED
    BY <1>3, <1>5, <1>6, <1>7, <1>8, <1>9 DEF Next, Crash, CrashInCommit, CrashInRemoval

-------------------------------------------------------------------------------
(* The rows and what system_info sums up.                                  *)

\* The rows of a table t, and what the row of d counts for, if there is one.
Present(t)  == {d \in Dirs : t[d] # None}
Sizes(t)    == Sum([d \in Present(t) |-> t[d].size], Present(t))
Claim(t, d) == IF t[d] = None THEN 0 ELSE t[d].size
One(t, d)   == IF t[d] = None THEN 0 ELSE 1

Tables == [Dirs -> Row \cup {None}]

\* A row counts apart from the others.
LEMMA Apart ==
  ASSUME NEW t \in Tables, IsFiniteSet(Present(t)), NEW d \in Dirs, NEW f,
         f = [e \in Present(t) |-> t[e].size]
  PROVE  /\ IsFiniteSet(Present(t) \ {d})
         /\ Cardinality(Present(t) \ {d}) \in Nat
         /\ Cardinality(Present(t)) = Cardinality(Present(t) \ {d}) + One(t, d)
         /\ Sum(f, Present(t) \ {d}) \in Nat
         /\ Sizes(t) = Sum(f, Present(t) \ {d}) + Claim(t, d)
  <1> DEFINE P == Present(t)
             R == Present(t) \ {d}
  <1>1. IsFiniteSet(R) /\ Cardinality(R) \in Nat /\ Cardinality(P) \in Nat
    BY FS_RemoveElement, FS_CardinalityType
  <1>2. \A e \in P : f[e] \in Nat /\ f[e] = t[e].size
    BY DEF Present, Tables, Row
  <1>3. Sum(f, R) \in Nat
    BY <1>1, <1>2, SumNat
  <1>4. Sizes(t) = Sum(f, P)
    BY DEF Sizes
  <1>5. CASE t[d] = None
    <2>1. R = P
      BY <1>5 DEF Present
    <2> QED
      BY <1>1, <1>3, <1>4, <1>5, <2>1 DEF One, Claim
  <1>6. CASE t[d] # None
    <2>1. d \in P
      BY <1>6 DEF Present
    <2>2. Cardinality(R) = Cardinality(P) - 1
      BY <2>1, FS_RemoveElement
    <2>3. Sum(f, P) = f[d] + Sum(f, R)
      BY <1>2, <2>1, SumRemove
    <2>4. f[d] = t[d].size /\ f[d] \in Nat
      BY <1>2, <2>1
    <2>5. Sizes(t) = Sum(f, R) + Claim(t, d)
      BY <1>3, <1>4, <1>6, <2>3, <2>4 DEF Claim
    <2>6. Cardinality(P) = Cardinality(R) + One(t, d)
      BY <1>1, <1>6, <2>2 DEF One
    <2> QED
      BY <1>1, <1>3, <2>5, <2>6
  <1> QED
    BY <1>5, <1>6

\* One row changes.
LEMMA OneRow ==
  ASSUME NEW t \in Tables, NEW u \in Tables, IsFiniteSet(Present(t)), NEW d \in Dirs,
         \A e \in Dirs \ {d} : u[e] = t[e]
  PROVE  /\ IsFiniteSet(Present(u))
         /\ \E n, s \in Nat : /\ Cardinality(Present(t)) = n + One(t, d)
                              /\ Cardinality(Present(u)) = n + One(u, d)
                              /\ Sizes(t) = s + Claim(t, d)
                              /\ Sizes(u) = s + Claim(u, d)
  <1> DEFINE R == Present(t) \ {d}
  <1>1. Present(u) \ {d} = R
    BY DEF Present
  <1>2. IsFiniteSet(Present(u))
    <2>1. IsFiniteSet(R \cup {d})
      BY FS_RemoveElement, FS_AddElement
    <2>2. Present(u) \in SUBSET (R \cup {d})
      BY <1>1
    <2> QED
      BY <2>1, <2>2, FS_Subset
  <1>3. PICK f, g : /\ f = [e \in Present(t) |-> t[e].size]
                    /\ g = [e \in Present(u) |-> u[e].size]
    OBVIOUS
  <1>4. /\ IsFiniteSet(R) /\ Cardinality(R) \in Nat /\ Sum(f, R) \in Nat
        /\ Cardinality(Present(t)) = Cardinality(R) + One(t, d)
        /\ Sizes(t) = Sum(f, R) + Claim(t, d)
    BY <1>3, Apart
  <1>5. /\ Cardinality(Present(u)) = Cardinality(R) + One(u, d)
        /\ Sizes(u) = Sum(g, R) + Claim(u, d)
    BY <1>1, <1>2, <1>3, Apart
  <1>6. Sum(f, R) = Sum(g, R)
    <2>1. \A e \in R : e \in Present(t) /\ e \in Present(u) /\ t[e] = u[e]
      BY <1>1 DEF Present
    <2>2. \A e \in R : f[e] = g[e]
      BY <1>3, <2>1
    <2> QED
      BY <1>4, <2>2, SumSame
  <1> QED
    BY <1>2, <1>4, <1>5, <1>6

\* No row changes its size.
LEMMA SameRows ==
  ASSUME NEW t \in Tables, NEW u \in Tables, IsFiniteSet(Present(t)),
         \A d \in Dirs : /\ u[d] = None <=> t[d] = None
                         /\ t[d] # None => u[d].size = t[d].size
  PROVE  Present(u) = Present(t) /\ Sizes(u) = Sizes(t)
  <1>1. Present(u) = Present(t)
    BY DEF Present
  <1>2. PICK f, g : /\ f = [e \in Present(t) |-> t[e].size]
                    /\ g = [e \in Present(t) |-> u[e].size]
    OBVIOUS
  <1>3. \A e \in Present(t) : f[e] = g[e]
    BY <1>2 DEF Present
  <1>4. Sum(f, Present(t)) = Sum(g, Present(t))
    BY <1>3, SumSame
  <1> QED
    BY <1>1, <1>2, <1>4 DEF Sizes

Accounted == /\ IsFiniteSet(Present(record))
             /\ ~torn => /\ sysSize = Sizes(record)
                         /\ sysCount = Cardinality(Present(record))

\* What a step does to the rows.
SameData == /\ \A d \in Dirs : /\ record'[d] = None <=> record[d] = None
                               /\ record[d] # None => record'[d].size = record[d].size
            /\ UNCHANGED <<sysSize, sysCount, torn>>

Committed(j) == /\ job[j].pc = "renamed" /\ job'[j].pc = "done"
                /\ Stat(j) # Absent
                /\ record' = [record EXCEPT ![Dir(j)] = RowAfter(Dir(j), Stat(j))]
                /\ UNCHANGED disk
                /\ \A i \in Jobs : /\ job'[i].dir = job[i].dir /\ job'[i].rng = job[i].rng
                                   /\ i # j /\ job[i].pc \in {"renamed", "orphaned"}
                                        => job'[i].pc \in {"renamed", "orphaned"}

RowGone(d) == /\ record[d] # None
              /\ record' = [record EXCEPT ![d] = None]
              /\ Files(d)' = {}
              /\ \/ torn' = TRUE
                 \/ /\ sysSize' = Clamped(sysSize - record[d].size)
                    /\ sysCount' = Clamped(sysCount - 1)
                    /\ UNCHANGED torn

\* A step commits one job, removes one directory, or leaves the rows alone.
LEMMA RowStep ==
  ASSUME Core, DataTypes, [Next]_vars
  PROVE  \/ SameData
         \/ \E d \in Dirs : RowGone(d)
         \/ \E j \in Jobs :
               /\ Committed(j)
               /\ \/ torn' = TRUE
                  \/ /\ sysSize' = sysSize + Stat(j)
                     /\ sysCount' = sysCount + IsNew(Dir(j))
                     /\ UNCHANGED torn
  <1>1. ASSUME UNCHANGED <<record, sysSize, sysCount, torn>> PROVE SameData
    BY <1>1 DEF SameData
  <1>2. ASSUME NEW j \in Jobs, Commit(j)
        PROVE  \/ SameData
               \/ /\ Committed(j)
                  /\ sysSize' = sysSize + Stat(j)
                  /\ sysCount' = sysCount + IsNew(Dir(j))
                  /\ UNCHANGED torn
    <2>1. CASE Stat(j) = Absent
      BY <1>1, <1>2, <2>1 DEF Commit, db, ghost
    <2>2. CASE Stat(j) # Absent
      <3>1. Goto(j, "done")
        BY <1>2, <2>2 DEF Commit
      <3>2. /\ job'[j].pc = "done"
            /\ \A i \in Jobs : /\ i # j => job'[i] = job[i]
                               /\ job'[i].dir = job[i].dir
                               /\ job'[i].rng = job[i].rng
        BY <3>1, GotoMoves DEF Core, Over
      <3> QED
        BY <1>2, <2>2, <3>2 DEF Commit, Committed, ghost
    <2> QED
      BY <2>1, <2>2
  <1>3. ASSUME NEW j \in Jobs, CrashInCommit(j) PROVE Committed(j) /\ torn' = TRUE
    <2>1. /\ job' = [Stopped EXCEPT ![j].pc = "done"]
          /\ job[j].pc = "renamed"
      BY <1>3 DEF CrashInCommit
    <2>2. /\ Stopped \in [Jobs -> JobRecord]
          /\ \A i \in Jobs : /\ Stopped[i].dir = job[i].dir /\ Stopped[i].rng = job[i].rng
                             /\ job[i].pc \in Ahead => Stopped[i].pc \in Ahead
      BY StoppedIs DEF Core
    <2>3. /\ job'[j].pc = "done"
          /\ \A i \in Jobs : /\ job'[i].dir = job[i].dir
                             /\ job'[i].rng = job[i].rng
                             /\ i # j /\ job[i].pc \in Ahead => job'[i].pc \in Ahead
      BY <2>1, <2>2 DEF JobRecord
    <2> QED
      BY <1>3, <2>1, <2>3 DEF CrashInCommit, Restart, Committed, Ahead
  <1>4. CASE UpdateScore
    <2>1. Head(pending) \in Rescoring
      BY <1>4 DEF UpdateScore, DataTypes
    <2>2. PICK d \in Dirs, n \in Nat : d = Head(pending).dir /\ n = Head(pending).access
      BY <2>1 DEF Rescoring
    <2>3. \/ record' = record
          \/ record[d] # None /\ record' = [record EXCEPT ![d].scored = n]
      BY <1>4, <2>2 DEF UpdateScore
    <2>4. CASE record[d] # None /\ record' = [record EXCEPT ![d].scored = n]
      <3>1. PICK y : y = [record[d] EXCEPT !.scored = n] /\ y \in Row /\ y.size = record[d].size
        BY <2>4 DEF DataTypes, Row
      <3>2. record' = [record EXCEPT ![d] = y] /\ y # None
        BY <2>4, <3>1, StorageAssumption
      <3> QED
        BY <1>4, <2>4, <3>1, <3>2 DEF UpdateScore, SameData, DataTypes, ghost
    <2> QED
      BY <1>1, <1>4, <2>3, <2>4 DEF UpdateScore, ghost
  <1>5. CASE Recalculate
    <2>1. ASSUME NEW d \in Dirs, record[d] # None
          PROVE  record'[d] \in Row /\ record'[d].size = record[d].size
      <3>0. PICK n \in Nat : n = record[d].access
        BY <2>1 DEF DataTypes, Row
      <3>1. PICK x \in Row : x = record[d]
        BY <2>1 DEF DataTypes
      <3>2. PICK y : y = [x EXCEPT !.scored = n]
        OBVIOUS
      <3>3. y \in Row /\ y.size = x.size
        BY <3>2 DEF Row
      <3>4. record'[d] = y
        BY <1>5, <2>1, <3>0, <3>1, <3>2 DEF Recalculate
      <3> QED
        BY <3>1, <3>3, <3>4
    <2>2. ASSUME NEW d \in Dirs, record[d] = None PROVE record'[d] = None
      BY <1>5, <2>2 DEF Recalculate
    <2> QED
      BY <1>5, <2>1, <2>2, StorageAssumption DEF Recalculate, SameData, ghost
  <1>6. ASSUME NEW j \in Jobs, JobStep(j) \/ Call(j) \/ Timeout(j), ~Commit(j)
        PROVE  SameData
    BY <1>1, <1>6 DEF JobStep, Acquire, Clear, ClearFails, Open, Fill, FillFails, Rename,
                      Undo, Unlink, Call, Timeout, db, ghost
  <1>7. ASSUME \/ Crash
               \/ \E q \in Streams : Find(q) \/ OpenFile(q)
               \/ \E d \in Dirs : Lookup(d) \/ RemoveEntryFails(d)
               \/ UNCHANGED vars
        PROVE  SameData
    BY <1>1, <1>7 DEF Crash, Restart, Find, OpenFile, Lookup, RemoveEntryFails, vars, db, ghost
  <1>8. ASSUME NEW d \in Dirs, RemoveEntry(d) PROVE RowGone(d)
    BY <1>8 DEF RemoveEntry, RowGone, NoFiles, Files, Core, CoreTypes, DataTypes
  <1>9. ASSUME NEW d \in Dirs, CrashInRemoval(d) PROVE RowGone(d) \/ SameData
    <2>1. PICK gone \in SUBSET Ranges, goneTmp \in SUBSET Ranges :
             /\ final' = [final EXCEPT ![d] = Less(final[d], gone)]
             /\ tmp' = [tmp EXCEPT ![d] = Less(tmp[d], goneTmp)]
             /\ \/ UNCHANGED <<record, torn>>
                \/ gone = Ranges /\ record' = [record EXCEPT ![d] = None] /\ torn' = TRUE
      BY <1>9 DEF CrashInRemoval
    <2>2. record[d] # None /\ UNCHANGED <<sysSize, sysCount>>
      BY <1>9 DEF CrashInRemoval, Restart
    <2>3. gone = Ranges => Files(d)' = {}
      BY <2>1, LessFiles DEF Core, Files
    <2> QED
      BY <1>1, <2>1, <2>2, <2>3 DEF RowGone
  <1> QED
    BY <1>2, <1>3, <1>4, <1>5, <1>6, <1>7, <1>8, <1>9 DEF Next

\* cache_size and cache_count follow the rows.
LEMMA AccountStep ==
  ASSUME Core, DataTypes, Accounted, [Next]_vars
  PROVE  Accounted'
  <1>1. PICK t \in Tables, u \in Tables : t = record /\ u = record'
    BY RecordTypes DEF DataTypes, Tables
  <1>2. IsFiniteSet(Present(t)) /\ (~torn => sysSize = Sizes(t) /\ sysCount = Cardinality(Present(t)))
    BY <1>1 DEF Accounted
  <1>3. SUFFICES /\ IsFiniteSet(Present(u))
                 /\ ~torn' => sysSize' = Sizes(u) /\ sysCount' = Cardinality(Present(u))
    BY <1>1 DEF Accounted, Present, Sizes
  <1>4. CASE SameData
    <2>1. Present(u) = Present(t) /\ Sizes(u) = Sizes(t)
      BY <1>1, <1>2, <1>4, SameRows DEF SameData
    <2> QED
      BY <1>2, <1>4, <2>1 DEF SameData
  <1>5. ASSUME NEW d \in Dirs, RowGone(d)
        PROVE  /\ IsFiniteSet(Present(u))
               /\ ~torn' => sysSize' = Sizes(u) /\ sysCount' = Cardinality(Present(u))
    <2>1. /\ t[d] # None /\ u[d] = None /\ \A e \in Dirs \ {d} : u[e] = t[e]
          /\ \/ torn' = TRUE
             \/ /\ sysSize' = Clamped(sysSize - t[d].size) /\ sysCount' = Clamped(sysCount - 1)
                /\ UNCHANGED torn
      BY <1>1, <1>5 DEF RowGone, Tables
    <2>2. /\ IsFiniteSet(Present(u))
          /\ \E n, s \in Nat : /\ Cardinality(Present(t)) = n + One(t, d)
                               /\ Cardinality(Present(u)) = n + One(u, d)
                               /\ Sizes(t) = s + Claim(t, d)
                               /\ Sizes(u) = s + Claim(u, d)
      BY <1>2, <2>1, OneRow
    <2>3. PICK n \in Nat, s \in Nat : /\ Cardinality(Present(t)) = n + 1
                                      /\ Cardinality(Present(u)) = n + 0
                                      /\ Sizes(t) = s + t[d].size
                                      /\ Sizes(u) = s + 0
      BY <2>1, <2>2 DEF One, Claim
    <2>4. t[d].size \in Nat
      BY <2>1 DEF Tables, Row
    <2>5. ASSUME ~torn' PROVE sysSize' = Sizes(u) /\ sysCount' = Cardinality(Present(u))
      BY <1>2, <2>1, <2>3, <2>4, <2>5 DEF Clamped
    <2> QED
      BY <2>2, <2>5
  <1>6. ASSUME NEW j \in Jobs, Committed(j),
               \/ torn' = TRUE
               \/ /\ sysSize' = sysSize + Stat(j)
                  /\ sysCount' = sysCount + IsNew(Dir(j))
                  /\ UNCHANGED torn
        PROVE  /\ IsFiniteSet(Present(u))
               /\ ~torn' => sysSize' = Sizes(u) /\ sysCount' = Cardinality(Present(u))
    <2>1. PICK d \in Dirs : d = Dir(j)
      BY <1>6 DEF Committed, Core, Called
    <2>2. PICK z \in Nat : z = Stat(j)
      BY <1>6, StatNat DEF Committed
    <2>3. /\ u[d] \in Row /\ u[d] # None /\ u[d].size = z + Claim(t, d)
          /\ \A e \in Dirs \ {d} : u[e] = t[e]
      <3>1. /\ RowAfter(d, z) \in Row
            /\ RowAfter(d, z).size = z + IF record[d] = None THEN 0 ELSE record[d].size
        BY RowAfterIsRow
      <3>2. u = [t EXCEPT ![d] = RowAfter(d, z)]
        BY <1>1, <1>6, <2>1, <2>2 DEF Committed
      <3> QED
        BY <1>1, <3>1, <3>2, StorageAssumption DEF Claim, Tables
    <2>4. /\ IsFiniteSet(Present(u))
          /\ \E n, s \in Nat : /\ Cardinality(Present(t)) = n + One(t, d)
                               /\ Cardinality(Present(u)) = n + One(u, d)
                               /\ Sizes(t) = s + Claim(t, d)
                               /\ Sizes(u) = s + Claim(u, d)
      BY <1>2, <2>3, OneRow
    <2>5. PICK n \in Nat, s \in Nat : /\ Cardinality(Present(t)) = n + One(t, d)
                                      /\ Cardinality(Present(u)) = n + 1
                                      /\ Sizes(t) = s + Claim(t, d)
                                      /\ Sizes(u) = s + (z + Claim(t, d))
      BY <2>3, <2>4 DEF One, Claim
    <2>6. One(t, d) \in Nat /\ Claim(t, d) \in Nat /\ IsNew(d) = 1 - One(t, d)
      BY <1>1 DEF One, Claim, IsNew, Tables, Row
    <2>7. ASSUME ~torn' PROVE sysSize' = Sizes(u) /\ sysCount' = Cardinality(Present(u))
      BY <1>2, <1>6, <2>1, <2>2, <2>5, <2>6, <2>7
    <2> QED
      BY <2>4, <2>7
  <1> QED
    BY <1>4, <1>5, <1>6, RowStep
-------------------------------------------------------------------------------
(* The bytes on disk and what the rows claim.                              *)

\* The files of d no row accounts for yet, or ever, and the others.
Uncounted(d) == {Rng(j) : j \in {i \in Jobs : Dir(i) = d /\ job[i].pc \in Ahead}}
Counted(d)   == Files(d) \ Uncounted(d)

OnDisk == \A d \in Dirs : /\ IsFiniteSet(Files(d))
                          /\ Sum(final[d], Counted(d)) <= Claim(record, d)

\* No job but j gets its file accounted for.
StayAhead(j) == \A i \in Jobs : i # j /\ job[i].pc \in Ahead =>
    /\ job'[i].pc \in Ahead
    /\ job'[i].dir = job[i].dir
    /\ job'[i].rng = job[i].rng

\* While the jobs ahead of their row stay so, but for j, the files that count
\* grow by that of j at most.
LEMMA AheadCounted ==
  ASSUME NEW d, NEW j, StayAhead(j), Files(d)' \subseteq Files(d)
  PROVE  /\ Counted(d)' \subseteq Counted(d) \cup {Rng(j)}
         /\ (j \notin Jobs \/ Dir(j) # d \/ Rng(j) \notin Files(d))
               => Counted(d)' \subseteq Counted(d)
  <1>1. ASSUME NEW i \in Jobs, i # j, Dir(i) = d, job[i].pc \in Ahead
        PROVE  Rng(i) \in Uncounted(d)'
    <2>1. job'[i].pc \in Ahead /\ job'[i].dir = d /\ job'[i].rng = Rng(i)
      BY <1>1 DEF StayAhead, Dir, Rng
    <2> QED
      BY <2>1 DEF Uncounted, Dir, Rng
  <1>2. \A x \in Uncounted(d) : x \in Uncounted(d)' \/
           (x = Rng(j) /\ j \in Jobs /\ Dir(j) = d /\ job[j].pc \in Ahead)
    BY <1>1 DEF Uncounted
  <1> QED
    BY <1>2 DEF Counted

\* What a step does to the files of d and to those accounted for.
FilesGrow(d) == \/ Files(d)' \subseteq Files(d)
                \/ \E x \in Ranges : Files(d)' \subseteq Files(d) \cup {x}
CountedGrow(d) == \/ Counted(d)' \subseteq Counted(d)
                  \/ \E j \in Jobs : /\ Committed(j) /\ Dir(j) = d
                                     /\ Counted(d)' \subseteq Counted(d) \cup {Rng(j)}

\* A step of a job adds to the files that count only what it has committed.
LEMMA JobFiles ==
  ASSUME Core, NEW d \in Dirs, NEW j \in Jobs,
         JobStep(j) \/ Call(j) \/ Timeout(j) \/ CrashInCommit(j)
  PROVE  FilesGrow(d) /\ CountedGrow(d)
  <1>1. ASSUME NEW pc \in {"idle"} \cup Running \cup Over, Goto(j, pc),
               job[j].pc \in Ahead => pc \in Ahead
        PROVE  StayAhead(None) /\ StayAhead(j)
    BY <1>1, GotoMoves DEF Core, StayAhead
  <1>2. ASSUME StayAhead(None), Files(d)' \subseteq Files(d)
        PROVE  FilesGrow(d) /\ CountedGrow(d)
    BY <1>2, AheadCounted, StorageAssumption DEF FilesGrow, CountedGrow
  <1>3. ASSUME UNCHANGED final PROVE Files(d)' \subseteq Files(d)
    BY <1>3 DEF Files
  <1>4. Running \cup Over \subseteq {"idle"} \cup Running \cup Over
    OBVIOUS
  <1>5. CASE Acquire(j)
    <2>1. \A i \in Jobs : job[i].pc \in Ahead => job'[i] = job[i]
      <3>1. job[j].pc \notin Ahead
        BY <1>5 DEF Acquire, Ahead
      <3>2. \A i \in Jobs : i # j => job'[i] = job[i]
        BY <1>5 DEF Acquire, Goto, Core, CoreTypes
      <3> QED
        BY <3>1, <3>2
    <2>2. UNCHANGED final
      BY <1>5 DEF Acquire, disk
    <2> QED
      BY <1>2, <1>3, <2>1, <2>2 DEF StayAhead
  <1>6. CASE Clear(j)
    <2>1. \A i \in Jobs : job[i].pc \in Ahead => job'[i] = job[i]
      <3>1. job[j].pc \notin Ahead
        BY <1>6 DEF Clear, Ahead
      <3>2. \A i \in Jobs : i # j => job'[i] = job[i]
        BY <1>6 DEF Clear, Core, CoreTypes
      <3> QED
        BY <3>1, <3>2
    <2>2. Files(d)' \subseteq Files(d)
      BY <1>6 DEF Clear, Files, Core, CoreTypes
    <2> QED
      BY <1>2, <2>1, <2>2 DEF StayAhead
  <1>7. CASE \/ ClearFails(j) \/ Open(j) \/ Fill(j) \/ FillFails(j) \/ Undo(j) \/ Unlink(j)
             \/ Rename(j) /\ tmp[Dir(j)][Rng(j)] = Absent
    <2>1. UNCHANGED final /\ job[j].pc \notin Ahead
      BY <1>7 DEF ClearFails, Open, Fill, FillFails, Undo, Unlink, Rename, disk, Ahead
    <2>2. \E pc \in {"undo", "fill", "rename", "failed", "unlink"} : Goto(j, pc)
      BY <1>7 DEF ClearFails, Open, Fill, FillFails, Undo, Unlink, Rename, Fail
    <2>3. \A pc \in {"undo", "fill", "rename", "failed", "unlink"} :
             pc \in {"idle"} \cup Running \cup Over
      BY DEF Running, Over
    <2>4. StayAhead(None)
      BY <1>1, <2>1, <2>2, <2>3
    <2> QED
      BY <1>2, <1>3, <2>1, <2>4
  <1>8. CASE Rename(j) /\ tmp[Dir(j)][Rng(j)] # Absent
    <2>1. Goto(j, "renamed") /\ MoveTmp(Dir(j), Rng(j)) /\ job[j].pc = "rename"
      BY <1>8 DEF Rename
    <2>2. Dir(j) \in Dirs /\ Rng(j) \in Ranges
      BY <2>1 DEF Core, Called
    <2>3. StayAhead(None)
      BY <1>1, <2>1 DEF Running, Ahead
    <2>4. Files(d)' \subseteq Files(d) \cup {Rng(j)} /\ (d # Dir(j) => Files(d)' \subseteq Files(d))
      BY <2>1, <2>2 DEF MoveTmp, Files, Core, CoreTypes
    <2>5. CASE d # Dir(j)
      BY <1>2, <2>3, <2>4, <2>5
    <2>6. CASE d = Dir(j)
      <3>1. Rng(j) \in Uncounted(d)'
        <4>1. job'[j].pc = "renamed" /\ job'[j].dir = d /\ job'[j].rng = Rng(j)
          BY <2>1, <2>6, GotoMoves DEF Core, Running, Dir, Rng
        <4> QED
          BY <4>1 DEF Uncounted, Ahead, Dir, Rng
      <3>2. \A x \in Uncounted(d) : x \in Uncounted(d)'
        <4>1. ASSUME NEW i \in Jobs, Dir(i) = d, job[i].pc \in Ahead
              PROVE  Rng(i) \in Uncounted(d)'
          <5>1. job'[i].pc \in Ahead /\ job'[i].dir = d /\ job'[i].rng = Rng(i)
            BY <2>3, <4>1, StorageAssumption DEF StayAhead, Dir, Rng
          <5> QED
            BY <5>1 DEF Uncounted, Dir, Rng
        <4> QED
          BY <4>1 DEF Uncounted
      <3>3. Counted(d)' \subseteq Counted(d)
        BY <2>4, <3>1, <3>2 DEF Counted
      <3> QED
        BY <2>2, <2>4, <3>3 DEF FilesGrow, CountedGrow
    <2> QED
      BY <2>5, <2>6
  <1>9. CASE Commit(j)
    <2>1. UNCHANGED final /\ job[j].pc = "renamed" /\ Rng(j) \in Ranges
      BY <1>9 DEF Commit, disk, Core, Called
    <2>2. \E pc \in {"failed", "done"} : Goto(j, pc)
      BY <1>9 DEF Commit
    <2>3. /\ \A i \in Jobs : /\ i # j => job'[i] = job[i]
                             /\ job'[i].dir = job[i].dir
                             /\ job'[i].rng = job[i].rng
      BY <2>2, GotoMoves DEF Core, Over
    <2>4. StayAhead(j)
      BY <2>3 DEF StayAhead
    <2>5. Files(d)' \subseteq Files(d)
      BY <1>3, <2>1
    <2>6. CASE Stat(j) = Absent \/ Dir(j) # d
      <3>1. Dir(j) # d \/ Rng(j) \notin Files(d)
        BY <2>6 DEF Files, Stat
      <3> QED
        BY <2>4, <2>5, <3>1, AheadCounted DEF FilesGrow, CountedGrow
    <2>7. CASE Stat(j) # Absent /\ Dir(j) = d
      <3>1. Committed(j)
        <4>1. Goto(j, "done")
          BY <1>9, <2>7 DEF Commit
        <4>2. job'[j].pc = "done"
          BY <4>1, GotoMoves DEF Core, Over
        <4> QED
          BY <1>9, <2>3, <2>7, <4>2 DEF Commit, Committed
      <3> QED
        BY <2>4, <2>5, <2>7, <3>1, AheadCounted DEF FilesGrow, CountedGrow
    <2> QED
      BY <2>6, <2>7
  <1>10. CASE Call(j)
    <2>1. \A i \in Jobs : job[i].pc \in Ahead => job'[i] = job[i]
      <3>1. job[j].pc \notin Ahead
        BY <1>10 DEF Call, Ahead
      <3>2. \A i \in Jobs : i # j => job'[i] = job[i]
        BY <1>10 DEF Call, Core, CoreTypes
      <3> QED
        BY <3>1, <3>2
    <2>2. UNCHANGED final
      BY <1>10 DEF Call
    <2> QED
      BY <1>2, <1>3, <2>1, <2>2 DEF StayAhead
  <1>11. CASE Timeout(j)
    <2>1. PICK pc \in Over : pc = Cut(job[j].pc) /\ Goto(j, pc)
                             /\ (job[j].pc \in Ahead => pc \in Ahead)
      BY <1>11 DEF Timeout, Cut, Over, Ahead, Running
    <2>2. StayAhead(None)
      BY <1>1, <2>1
    <2> QED
      BY <1>2, <1>3, <1>11, <2>2 DEF Timeout, disk
  <1>12. CASE CrashInCommit(j)
    <2>1. /\ job' = [Stopped EXCEPT ![j].pc = "done"]
          /\ UNCHANGED disk /\ job[j].pc = "renamed" /\ Stat(j) # Absent
          /\ record' = [record EXCEPT ![Dir(j)] = RowAfter(Dir(j), Stat(j))]
      BY <1>12 DEF CrashInCommit, Restart
    <2>2. /\ Stopped \in [Jobs -> JobRecord]
          /\ \A i \in Jobs : /\ Stopped[i].dir = job[i].dir /\ Stopped[i].rng = job[i].rng
                             /\ job[i].pc \in Ahead => Stopped[i].pc \in Ahead
      BY StoppedIs DEF Core
    <2>3. /\ job'[j].pc = "done"
          /\ \A i \in Jobs : /\ job'[i].dir = job[i].dir
                             /\ job'[i].rng = job[i].rng
                             /\ i # j /\ job[i].pc \in Ahead => job'[i].pc \in Ahead
      BY <2>1, <2>2 DEF JobRecord
    <2>4. StayAhead(j) /\ Committed(j)
      BY <2>1, <2>3 DEF StayAhead, Committed, Ahead
    <2>5. Files(d)' \subseteq Files(d)
      BY <1>3, <2>1 DEF disk
    <2> QED
      BY <2>4, <2>5, AheadCounted DEF FilesGrow, CountedGrow
  <1> QED
    BY <1>5, <1>6, <1>7, <1>8, <1>9, <1>10, <1>11, <1>12 DEF JobStep

\* Any other step adds none.
LEMMA OtherFiles ==
  ASSUME Core, NEW d \in Dirs,
         \/ UpdateScore \/ Recalculate
         \/ \E q \in Streams : Find(q) \/ OpenFile(q)
         \/ \E e \in Dirs : \/ Lookup(e) \/ RemoveEntry(e) \/ RemoveEntryFails(e)
                          \/ CrashInRemoval(e)
         \/ Crash \/ UNCHANGED vars
  PROVE  FilesGrow(d) /\ CountedGrow(d)
  <1>1. Files(d)' \subseteq Files(d)
    <2>1. CASE UNCHANGED final
      BY <2>1 DEF Files
    <2>2. ASSUME NEW e \in Dirs, RemoveEntry(e) PROVE Files(d)' \subseteq Files(d)
      BY <2>2 DEF RemoveEntry, NoFiles, Files, Core, CoreTypes
    <2>3. ASSUME NEW e \in Dirs, RemoveEntryFails(e) \/ CrashInRemoval(e)
          PROVE  Files(d)' \subseteq Files(d)
      <3>1. PICK gone \in SUBSET Ranges, goneTmp \in SUBSET Ranges :
               /\ final' = [final EXCEPT ![e] = Less(final[e], gone)]
               /\ tmp' = [tmp EXCEPT ![e] = Less(tmp[e], goneTmp)]
        BY <2>3 DEF RemoveEntryFails, CrashInRemoval
      <3>2. \A q \in Ranges : final'[d][q] \in {Absent, final[d][q]}
        BY <3>1, LessFiles DEF Core
      <3> QED
        BY <3>2 DEF Files
    <2> QED
      BY <2>1, <2>2, <2>3 DEF UpdateScore, Recalculate, Find, OpenFile, Lookup, Crash, Restart,
                              vars, disk
  <1>2. StayAhead(None)
    <2>1. CASE UNCHANGED job
      BY <2>1 DEF StayAhead
    <2>2. CASE job' = Stopped
      BY <2>2, StoppedIs DEF StayAhead, Core
    <2> QED
      BY <2>1, <2>2 DEF UpdateScore, Recalculate, Find, OpenFile, Lookup, RemoveEntry,
                        RemoveEntryFails, CrashInRemoval, Crash, vars
  <1> QED
    BY <1>1, <1>2, AheadCounted, StorageAssumption DEF FilesGrow, CountedGrow

\* A file that counts holds what it held.
LEMMA ContentStays ==
  ASSUME Core, [Next]_vars, NEW d \in Dirs
  PROVE  \A r \in Counted(d)' : final'[d][r] = final[d][r]
  <1>1. ASSUME \A q \in Ranges : final'[d][q] \in {Absent, final[d][q]}
        PROVE  \A r \in Counted(d)' : final'[d][r] = final[d][r]
    BY <1>1 DEF Counted, Files
  <1>2. ASSUME UNCHANGED final PROVE \A r \in Counted(d)' : final'[d][r] = final[d][r]
    BY <1>2
  <1>3. ASSUME NEW j \in Jobs, Rename(j), ~UNCHANGED final
        PROVE  \A r \in Counted(d)' : final'[d][r] = final[d][r]
    <2>1. Goto(j, "renamed") /\ MoveTmp(Dir(j), Rng(j)) /\ job[j].pc = "rename"
      BY <1>3 DEF Rename
    <2>2. Dir(j) \in Dirs /\ Rng(j) \in Ranges
      BY <2>1 DEF Core, Called
    <2>3. job'[j].pc = "renamed" /\ job'[j].dir = Dir(j) /\ job'[j].rng = Rng(j)
      BY <2>1, GotoMoves DEF Core, Running, Dir, Rng
    <2>4. d = Dir(j) => Rng(j) \in Uncounted(d)'
      BY <2>3 DEF Uncounted, Ahead, Dir, Rng
    <2>5. \A q \in Ranges : d # Dir(j) \/ q # Rng(j) => final'[d][q] = final[d][q]
      BY <2>1, <2>2 DEF MoveTmp, Core, CoreTypes
    <2> QED
      BY <2>4, <2>5 DEF Counted, Files
  <1>4. ASSUME NEW j \in Jobs, Clear(j) PROVE \A q \in Ranges : final'[d][q] \in {Absent, final[d][q]}
    BY <1>4 DEF Clear, Core, CoreTypes
  <1>5. ASSUME NEW e \in Dirs, RemoveEntry(e)
        PROVE  \A q \in Ranges : final'[d][q] \in {Absent, final[d][q]}
    BY <1>5 DEF RemoveEntry, NoFiles, Core, CoreTypes
  <1>6. ASSUME NEW e \in Dirs, RemoveEntryFails(e) \/ CrashInRemoval(e)
        PROVE  \A q \in Ranges : final'[d][q] \in {Absent, final[d][q]}
    <2>1. PICK gone \in SUBSET Ranges, goneTmp \in SUBSET Ranges :
             /\ final' = [final EXCEPT ![e] = Less(final[e], gone)]
             /\ tmp' = [tmp EXCEPT ![e] = Less(tmp[e], goneTmp)]
      BY <1>6 DEF RemoveEntryFails, CrashInRemoval
    <2> QED
      BY <2>1, LessFiles DEF Core
  <1>7. ASSUME NEW j \in Jobs, JobStep(j) \/ Call(j) \/ Timeout(j) \/ CrashInCommit(j),
               ~Clear(j), ~Rename(j)
        PROVE  UNCHANGED final
    BY <1>7 DEF JobStep, Acquire, ClearFails, Open, Fill, FillFails, Commit, Undo, Unlink,
                Call, Timeout, CrashInCommit, disk
  <1>8. ASSUME \/ UpdateScore \/ Recalculate \/ Crash \/ UNCHANGED vars
               \/ \E q \in Streams : Find(q) \/ OpenFile(q)
               \/ \E e \in Dirs : Lookup(e)
        PROVE  UNCHANGED final
    BY <1>8 DEF UpdateScore, Recalculate, Crash, Find, OpenFile, Lookup, vars, disk
  <1> QED
    BY <1>1, <1>2, <1>3, <1>4, <1>5, <1>6, <1>7, <1>8 DEF Next, JobStep

\* So what the rows claim is no less than what counts.
LEMMA DiskStep ==
  ASSUME Core, DataTypes, OnDisk, [Next]_vars
  PROVE  OnDisk'
  <1> SUFFICES ASSUME NEW d \in Dirs
               PROVE  IsFiniteSet(Files(d)') /\ Sum(final'[d], Counted(d)') <= Claim(record', d)
    BY DEF OnDisk, Claim
  <1>1. FilesGrow(d) /\ CountedGrow(d)
    BY JobFiles, OtherFiles DEF Next
  <1>2. PICK F, G, C, D : F = Files(d) /\ G = Files(d)' /\ C = Counted(d) /\ D = Counted(d)'
    OBVIOUS
  <1>6. PICK f, g : f = final[d] /\ g = final'[d]
    OBVIOUS
  <1>3. IsFiniteSet(F) /\ Sum(f, C) <= Claim(record, d) /\ C \subseteq F
    BY <1>2, <1>6 DEF OnDisk, Counted
  <1>4. IsFiniteSet(G)
    <2>1. \A x : IsFiniteSet(F \cup {x})
      BY <1>3, FS_AddElement
    <2>2. G \subseteq F \/ \E x : G \subseteq F \cup {x}
      BY <1>1, <1>2 DEF FilesGrow
    <2> QED
      BY <1>3, <2>1, <2>2, FS_Subset
  <1>5. F \subseteq Ranges /\ G \subseteq Ranges /\ D \subseteq G /\ IsFiniteSet(C)
    <2>1. F \subseteq Ranges /\ G \subseteq Ranges /\ D \subseteq G
      BY <1>2 DEF Files, Counted
    <2> QED
      BY <1>3, <2>1, FS_Subset
  <1>7. \A r \in F : f[r] \in Nat
    BY <1>2, <1>6 DEF Files, Core, CoreTypes, Content
  <1>13. Sum(g, D) = Sum(f, D)
    <2>1. \A r \in D : g[r] = f[r]
      BY <1>2, <1>6, ContentStays
    <2>2. IsFiniteSet(D)
      BY <1>4, <1>5, FS_Subset
    <2> QED
      BY <2>1, <2>2, SumSame
  <1>8. Sum(f, C) \in Nat /\ Sum(f, C) <= Claim(record, d)
    BY <1>3, <1>5, <1>7, SumNat
  <1>9. ASSUME D \subseteq C PROVE Sum(f, D) <= Claim(record, d) /\ Sum(f, D) \in Nat
    <2>1. Sum(f, D) <= Sum(f, C)
      <3>1. D \in SUBSET C /\ \A x \in C : f[x] \in Nat
        BY <1>3, <1>5, <1>7, <1>9
      <3> QED
        BY <1>5, <3>1, SumSubset
    <2>2. Sum(f, D) \in Nat
      <3>1. IsFiniteSet(D) /\ \A x \in D : f[x] \in Nat
        BY <1>3, <1>4, <1>5, <1>7, <1>9, FS_Subset
      <3> QED
        BY <3>1, SumNat
    <2>3. Claim(record, d) \in Nat
      BY DEF Claim, DataTypes, Row
    <2> QED
      BY <1>8, <2>1, <2>2, <2>3
  <1>10. ASSUME NEW j \in Jobs, Committed(j), Dir(j) = d, D \subseteq C \cup {Rng(j)}
         PROVE  Sum(f, D) <= Claim(record', d)
    <2>1. PICK x \in F : x = Rng(j)
      BY <1>2, <1>10, StatNat DEF Committed, Files, Stat
    <2>2. PICK z \in Nat : z = Stat(j) /\ z = f[x]
      BY <1>6, <1>10, <2>1, StatNat DEF Committed, Stat
    <2>3. PICK E : E = C \cup {x}
      OBVIOUS
    <2>4. IsFiniteSet(E) /\ (\A y \in E : f[y] \in Nat) /\ D \in SUBSET E
      <3>1. IsFiniteSet(E)
        BY <1>5, <2>3, FS_AddElement
      <3> QED
        BY <1>3, <1>5, <1>7, <1>10, <2>1, <2>3, <3>1
    <2>5. Sum(f, E) \in Nat /\ Sum(f, E) <= Sum(f, C) + z
      <3>1. CASE x \in C
        <4>1. E = C
          BY <2>3, <3>1
        <4> QED
          BY <1>8, <4>1
      <3>2. CASE x \notin C
        <4>1. f[x] = z /\ \A y \in C : f[y] \in Nat
          BY <1>3, <1>5, <1>7, <2>2
        <4>2. Sum(f, C \cup {x}) = f[x] + Sum(f, C)
          BY <1>5, <3>2, <4>1, SumAdd
        <4> QED
          BY <1>8, <2>3, <4>1, <4>2
      <3> QED
        BY <3>1, <3>2
    <2>6. Sum(f, D) <= Sum(f, E) /\ Sum(f, D) \in Nat
      <3>1. Sum(f, D) <= Sum(f, E)
        BY <2>4, SumSubset
      <3>2. IsFiniteSet(D) /\ \A y \in D : f[y] \in Nat
        BY <1>4, <1>5, <2>4, FS_Subset
      <3> QED
        BY <3>1, <3>2, SumNat
    <2>7. Claim(record', d) = z + Claim(record, d) /\ Claim(record, d) \in Nat
      <3>1. /\ RowAfter(d, z) \in Row
            /\ RowAfter(d, z).size = z + IF record[d] = None THEN 0 ELSE record[d].size
        BY RowAfterIsRow
      <3>2. record' = [record EXCEPT ![d] = RowAfter(d, z)]
        BY <1>10, <2>1, <2>2 DEF Committed
      <3>3. record'[d] = RowAfter(d, z)
        BY <3>2 DEF DataTypes
      <3>4. Claim(record, d) \in Nat
        BY DEF Claim, DataTypes, Row
      <3> QED
        BY <3>1, <3>3, <3>4, StorageAssumption DEF Claim
    <2> QED
      BY <1>8, <2>5, <2>6, <2>7
  <1>11. CASE \E j \in Jobs : Committed(j) /\ Dir(j) = d /\ D \subseteq C \cup {Rng(j)}
    BY <1>2, <1>4, <1>6, <1>10, <1>11, <1>13
  <1>12. CASE D \subseteq C
    <2>1. Claim(record', d) \in Nat
      BY RecordTypes DEF Claim, Row
    <2>2. CASE Claim(record', d) >= Claim(record, d)
      <3>1. Claim(record, d) \in Nat
        BY DEF Claim, DataTypes, Row
      <3> QED
        BY <1>2, <1>4, <1>6, <1>9, <1>13, <1>12, <2>1, <2>2, <3>1
    <2>3. CASE \E e \in Dirs : RowGone(e)
      <3>1. PICK e \in Dirs : RowGone(e)
        BY <2>3
      <3>2. CASE e = d
        <4>1. Files(d)' = {}
          BY <3>1, <3>2 DEF RowGone
        <4>2. Sum(f, D) = 0
          <5>1. D = {}
            BY <1>2, <4>1 DEF Counted
          <5> QED
            BY <5>1, SumEmpty
        <4> QED
          BY <1>2, <1>4, <1>6, <1>13, <2>1, <4>2
      <3>3. CASE e # d
        <4>1. record'[d] = record[d]
          BY <3>1, <3>3 DEF RowGone, DataTypes
        <4>2. Claim(record', d) = Claim(record, d)
          BY <4>1 DEF Claim
        <4> QED
          BY <1>2, <1>4, <1>6, <1>9, <1>13, <1>12, <4>2
      <3> QED
        BY <3>2, <3>3
    <2>4. CASE SameData
      <3>1. Claim(record', d) = Claim(record, d)
        BY <2>4 DEF SameData, Claim
      <3> QED
        BY <1>2, <1>4, <1>6, <1>9, <1>13, <1>12, <3>1
    <2>5. ASSUME NEW j \in Jobs, Committed(j) PROVE Claim(record', d) >= Claim(record, d)
      <3>0. Claim(record, d) \in Nat
        BY DEF Claim, DataTypes, Row
      <3>1. PICK z \in Nat : z = Stat(j)
        BY <2>5, StatNat DEF Committed
      <3>2. /\ RowAfter(d, z) \in Row
            /\ RowAfter(d, z).size = z + IF record[d] = None THEN 0 ELSE record[d].size
        BY RowAfterIsRow
      <3>3. CASE Dir(j) = d
        <4>1. record'[d] = RowAfter(d, z)
          BY <2>5, <3>1, <3>3 DEF Committed, DataTypes
        <4> QED
          BY <3>0, <3>2, <4>1, StorageAssumption DEF Claim
      <3>4. CASE Dir(j) # d
        <4>1. record'[d] = record[d]
          BY <2>5, <3>4 DEF Committed, DataTypes
        <4> QED
          BY <3>0, <4>1 DEF Claim
      <3> QED
        BY <3>3, <3>4
    <2> QED
      BY <2>2, <2>3, <2>4, <2>5, RowStep
  <1> QED
    BY <1>1, <1>2, <1>11, <1>12 DEF CountedGrow

-------------------------------------------------------------------------------
(* The theorems.                                                           *)

Inv == Core /\ DataTypes /\ Streamed /\ Accounted /\ OnDisk

\* An empty disk satisfies the invariant.
LEMMA InitInv == Init => Inv
  <1> SUFFICES ASSUME Init PROVE Inv
    OBVIOUS
  <1>1. Idle \in JobRecord
    BY DEF Idle, JobRecord
  <1>2. CoreTypes
    BY <1>1 DEF Init, CoreTypes, NoFiles, Content
  <1>3. Called /\ Owner /\ FilledTmp /\ Written /\ Cleared
    BY DEF Init, Called, Owner, FilledTmp, Written, Cleared, Idle, Inside, NoFiles
  <1>4. \A d \in Dirs : Files(d) = {}
    BY DEF Init, NoFiles, Files
  <1>5. NoNested
    BY <1>4 DEF NoNested
  <1>6. Explained
    BY DEF Init, Explained, Idle
  <1>7. DataTypes
    BY StorageAssumption DEF Init, DataTypes
  <1>8. Streamed
    BY DEF Init, Streamed, Served
  <1>9. Present(record) = {}
    BY DEF Init, Present
  <1>10. Accounted
    <2>1. IsFiniteSet(Present(record)) /\ Cardinality(Present(record)) = 0
      BY <1>9, FS_EmptySet
    <2>2. Sizes(record) = 0
      BY <1>9, SumEmpty DEF Sizes
    <2> QED
      BY <2>1, <2>2 DEF Init, Accounted
  <1>11. OnDisk
    <2>1. \A d \in Dirs : Claim(record, d) = 0
      BY DEF Init, Claim
    <2>2. \A d \in Dirs : Counted(d) = {} /\ IsFiniteSet(Files(d))
      BY <1>4, FS_EmptySet DEF Counted
    <2>3. \A f : Sum(f, {}) = 0
      BY SumEmpty
    <2> QED
      BY <2>1, <2>2, <2>3 DEF OnDisk
  <1> QED
    BY <1>2, <1>3, <1>5, <1>6, <1>7, <1>8, <1>10, <1>11 DEF Inv, Core

\* Every step keeps it.
LEMMA NextInv == Inv /\ [Next]_vars => Inv'
  BY CoreStep, DataStep, StreamStep, AccountStep, DiskStep DEF Inv

\* Every reachable state satisfies the invariant.
THEOREM Invariance == Spec => []Inv
  BY InitInv, NextInv, PTL DEF Spec

\* Types, among them that cache_size and cache_count never go below zero.
THEOREM TypeCorrect == Spec => []TypeOK
  <1>1. Inv => TypeOK
    <2> SUFFICES ASSUME Inv PROVE TypeOK
      OBVIOUS
    <2>1. \A j \in Jobs : /\ job[j].pc \in {"idle"} \cup Running \cup Over
                          /\ Dir(j) \in Dirs \cup {None}
                          /\ job[j].gives \in Nat /\ job[j].todo \subseteq Ranges
      BY DEF Inv, Core, CoreTypes, JobRecord, Dir
    <2>2. \A d \in Recorded : record[d] \in Row
      BY DEF Inv, DataTypes, Recorded
    <2> QED
      BY <2>1, <2>2 DEF Inv, Core, CoreTypes, Content, DataTypes, Rescoring, TypeOK
  <1> QED
    BY <1>1, Invariance, PTL

\* A file under its final name holds all that the completed writer of a call
\* for it had, and no stream from disk ends early unless such a writer was
\* shorter than the range, whatever timed out, failed, was removed or stopped.
THEOREM FilesAsWritten == Spec => []AsWritten
  <1>1. Inv => AsWritten
    <2> SUFFICES ASSUME Inv PROVE AsWritten
      OBVIOUS
    <2>1. ASSUME NEW q \in Streams, stream[q].pc = "short"
          PROVE  \E n \in Given(stream[q].dir, stream[q].rng) : 0 < n /\ n < Size(stream[q].rng)
      <3>1. Shorter(stream[q].dir, stream[q].rng)
        BY <2>1 DEF Inv, Streamed, Served
      <3> QED
        BY <3>1 DEF Shorter, Given
    <2>2. ASSUME NEW d \in Dirs, NEW r \in Files(d) PROVE final[d][r] \in Given(d, r) \ {0}
      <3>1. PICK i \in Jobs : Source(i, d, r, final[d][r])
        BY <2>2 DEF Inv, Core, Written, Files
      <3>2. job[i].gives \in Given(d, r)
        BY <3>1 DEF Source, Given
      <3> QED
        BY <3>1, <3>2 DEF Source
    <2> QED
      BY <2>1, <2>2 DEF AsWritten
  <1> QED
    BY <1>1, Invariance, PTL

\* No file of a directory repeats what another one holds.
THEOREM NothingTwice == Spec => []NoNested
  <1>1. Inv => NoNested
    BY DEF Inv, Core
  <1> QED
    BY <1>1, Invariance, PTL

\* A job whose writer completed fails only if something was removed under it or
\* read() raised in a job for the same range.
THEOREM FailuresExplained == Spec => []FailureExplained
  <1>1. Inv => FailureExplained
    BY DEF Inv, Core, Explained, Excused, FailureExplained
  <1> QED
    BY <1>1, Invariance, PTL

\* system_info sums up the rows, unless a crash fell between the two writes.
THEOREM TotalsAgree == Spec => []Accounting
  <1>1. Inv => Accounting
    BY DEF Inv, Accounted, Accounting, Present, Recorded, Sizes
  <1> QED
    BY <1>1, Invariance, PTL

\* The row of a directory claims no less than the bytes on disk, but for files
\* whose job was cut off after the rename.
THEOREM BytesAccounted == Spec => []DiskAccounted
  <1>1. Inv => DiskAccounted
    BY DEF Inv, OnDisk, DiskAccounted, Counted, Uncounted, Claim, Ahead
  <1> QED
    BY <1>1, Invariance, PTL
===============================================================================
