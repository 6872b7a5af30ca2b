----------------------------- MODULE RawLinksProofs -----------------------------
(***************************************************************************)
(* Theorems about RawLinks, for every set of managers and every lifetime.  *)
(*                                                                         *)
(* Inv strengthens the invariants with what ties the registration and the  *)
(* cached link to the time their fetch began.                              *)
(***************************************************************************)
EXTENDS RawLinks, TLAPS

\* What is registered was started, and its registration is not overdue.
Registered == reg # None => /\ Born(reg)
                            /\ regUntil = task[reg].at + TaskTtl
                            /\ now <= regUntil

\* A cached link is a real one, and cached from the time of its registration.
Cached == cache # None => /\ task[cache].st = "done"
                          /\ cacheUntil <= task[cache].at + TaskTtl + CacheTtl
                          /\ now <= cacheUntil

Past == \A t \in Tasks : Born(t) => task[t].at <= now

\* Who waits, waits within the lifetime of the registration.
Waiting == \A m \in Managers :
    mgr[m].pc = "wait" => /\ mgr[m].on # None
                          /\ Born(mgr[m].on)
                          /\ now <= task[mgr[m].on].at + TaskTtl

\* The failure a manager was told of stands, and its task is not registered.
Told == \A m \in Managers :
    mgr[m].pc = "failed" => /\ mgr[m].on # None
                            /\ task[mgr[m].on].st = "failed"
                            /\ reg # mgr[m].on

\* Without a failure only the clock ends a registration.
Kept == ~Refused => \A t \in Tasks :
    (Born(t) /\ now < task[t].at + TaskTtl) => reg = t

Inv == TypeOK /\ Registered /\ Cached /\ Past /\ Waiting /\ Told /\ Kept /\ OneFetch

TaskRecord == [st : {"unborn", "fetching", "done", "failed"},
               attempt : 0..MaxAttempts, at : Nat]

MgrRecord == [pc : {"new", "ready", "wait", "has", "failed", "lost", "left"},
              url : Tasks \cup {None}, on : Tasks \cup {None}]

-------------------------------------------------------------------------------
LEMMA InitInv == Init => Inv
  <1> SUFFICES ASSUME Init PROVE Inv
    OBVIOUS
  <1>1. TypeOK
    BY LinkAssumption DEF Init, TypeOK
  <1>2. Registered /\ Cached /\ Past /\ Waiting /\ Told
    BY DEF Init, Registered, Cached, Past, Waiting, Told, Born
  <1>3. Kept /\ OneFetch
    BY DEF Init, Kept, OneFetch, Born
  <1> QED
    BY <1>1, <1>2, <1>3 DEF Inv

\* A step of a fetch: the task stays born, with its time, and what was over
\* stays as it was.
LEMMA FetchInv ==
  ASSUME Inv, NEW t \in Tasks, Fetch(t)
  PROVE  Inv'
  <1>1. /\ task[t].st = "fetching"
        /\ UNCHANGED <<reg, regUntil, cache, cacheUntil, mgr, now>>
    BY DEF Fetch, FetchRetries, FetchSucceeds, FetchFails
  <1>2. /\ task' \in [Tasks -> TaskRecord]
        /\ \A u \in Tasks : u # t => task'[u] = task[u]
        /\ task'[t].st # "unborn" /\ task'[t].at = task[t].at
    <2>1. task \in [Tasks -> TaskRecord] /\ MaxAttempts \in Nat
      BY LinkAssumption DEF Inv, TypeOK, TaskRecord
    <2>2. CASE FetchRetries(t)
      <3>1. task[t].attempt + 1 \in 0..MaxAttempts
        BY <2>1, <2>2 DEF FetchRetries, TaskRecord
      <3> QED
        BY <2>1, <2>2, <3>1 DEF FetchRetries, TaskRecord
    <2>3. CASE FetchSucceeds(t) \/ FetchFails(t)
      BY <2>1, <2>3 DEF FetchSucceeds, FetchFails, Becomes, TaskRecord
    <2> QED
      BY <2>2, <2>3 DEF Fetch
  <1>3. TypeOK'
    BY <1>1, <1>2 DEF Inv, TypeOK, TaskRecord
  <1>4. \A u \in Tasks : /\ Born(u)' <=> Born(u)
                         /\ task'[u].at = task[u].at
                         /\ task[u].st \in {"done", "failed"} => task'[u].st = task[u].st
    BY <1>1, <1>2 DEF Born
  <1>5. Refused' <=> Refused
    BY <1>1 DEF Refused
  <1>6. (Registered /\ Cached /\ Past)'
    BY <1>1, <1>3, <1>4 DEF Inv, TypeOK, Registered, Cached, Past
  <1>7. (Waiting /\ Told)'
    BY <1>1, <1>3, <1>4 DEF Inv, TypeOK, Waiting, Told
  <1>8. (Kept /\ OneFetch)'
    BY <1>1, <1>4, <1>5 DEF Inv, Kept, OneFetch
  <1> QED
    BY <1>3, <1>6, <1>7, <1>8 DEF Inv

-------------------------------------------------------------------------------
\* A manager moves to a record q; task, clock and cache are as they were.  The
\* cases of a manager that is not answered by a task.
LEMMA ManagerMoves ==
  ASSUME Inv, NEW m \in Managers, NEW q \in MgrRecord,
         mgr' = [mgr EXCEPT ![m] = q],
         mgr[m].pc # "failed", q.pc # "failed",
         q.pc = "wait" => /\ q.on # None /\ Born(q.on)
                          /\ now <= task[q.on].at + TaskTtl,
         UNCHANGED <<task, reg, regUntil, now>>,
         /\ cache' \in Tasks \cup {None} /\ cacheUntil' \in Nat
         /\ Cached'
  PROVE  Inv'
  <1>1. mgr \in [Managers -> MgrRecord]
    BY DEF Inv, TypeOK, MgrRecord
  <1>2. mgr' \in [Managers -> MgrRecord]
    BY <1>1
  <1>3. mgr'[m] = q /\ \A n \in Managers : n # m => mgr'[n] = mgr[n]
    BY <1>1
  <1>4. TypeOK'
    BY <1>2, <1>3 DEF Inv, TypeOK, MgrRecord
  <1>5. Refused' <=> Refused
    BY <1>3 DEF Refused
  <1>6. (Registered /\ Past)'
    BY DEF Inv, Registered, Past, Born
  <1>7. Waiting' /\ Told'
    BY <1>3 DEF Inv, Waiting, Told, Born
  <1>8. Kept' /\ OneFetch'
    BY <1>5 DEF Inv, Kept, OneFetch, Born
  <1> QED
    BY <1>4, <1>6, <1>7, <1>8 DEF Inv

\* A manager's record after an EXCEPT on two of its fields.
LEMMA MgrFields ==
  ASSUME Inv, NEW m \in Managers, NEW pc, NEW url \in Tasks \cup {None},
         pc \in {"new", "ready", "wait", "has", "failed", "lost", "left"}
  PROVE  /\ [mgr[m] EXCEPT !.pc = pc] \in MgrRecord
         /\ [mgr[m] EXCEPT !.pc = pc, !.url = url] \in MgrRecord
         /\ [mgr EXCEPT ![m].pc = pc]
              = [mgr EXCEPT ![m] = [mgr[m] EXCEPT !.pc = pc]]
         /\ [mgr EXCEPT ![m].pc = pc, ![m].url = url]
              = [mgr EXCEPT ![m] = [mgr[m] EXCEPT !.pc = pc, !.url = url]]
  <1>1. mgr \in [Managers -> MgrRecord]
    BY DEF Inv, TypeOK, MgrRecord
  <1>2. mgr[m] \in MgrRecord
    BY <1>1
  <1> QED
    BY <1>1, <1>2 DEF MgrRecord

LEMMA CreateTaskInv ==
  ASSUME Inv, NEW m \in Managers, CreateTask(m)
  PROVE  Inv'
  <1>0. mgr[m].pc = "new" /\ UNCHANGED <<cache, cacheUntil, now>>
    BY DEF CreateTask
  <1>1. CASE UseCached(m)
    <2>1. cache \in Tasks
      BY <1>1 DEF Inv, TypeOK, UseCached
    <2> DEFINE q == [mgr[m] EXCEPT !.pc = "ready", !.url = cache]
    <2>2. q \in MgrRecord /\ mgr' = [mgr EXCEPT ![m] = q]
      BY <1>1, <2>1, MgrFields DEF UseCached
    <2>3. q.pc = "ready"
      BY DEF Inv, TypeOK
    <2>4. Cached' /\ cache' \in Tasks \cup {None} /\ cacheUntil' \in Nat
      BY <1>0, <1>1 DEF Inv, TypeOK, Cached, UseCached
    <2> HIDE DEF q
    <2> QED
      BY <1>0, <1>1, <2>2, <2>3, <2>4, ManagerMoves DEF UseCached
  <1>2. CASE Reuse(m)
    <2> DEFINE q == [mgr[m] EXCEPT !.pc = "ready"]
    <2>2. q \in MgrRecord /\ mgr' = [mgr EXCEPT ![m] = q]
      BY <1>2, MgrFields DEF Reuse
    <2>3. q.pc = "ready"
      BY DEF Inv, TypeOK
    <2>4. Cached' /\ cache' \in Tasks \cup {None} /\ cacheUntil' \in Nat
      BY <1>0, <1>2 DEF Inv, TypeOK, Cached, Reuse
    <2> HIDE DEF q
    <2> QED
      BY <1>0, <1>2, <2>2, <2>3, <2>4, ManagerMoves DEF Reuse
  <1>3. CASE Start(m)
    <2>1. Fresh \in Tasks /\ task[Fresh].st = "unborn"
      BY <1>3 DEF Start, CanCreate, Fresh
    <2> DEFINE f == Fresh
    <2>2. /\ task' = [task EXCEPT ![f] = [st |-> "fetching", attempt |-> 1, at |-> now]]
          /\ reg' = f /\ regUntil' = now + TaskTtl
          /\ mgr' = [mgr EXCEPT ![m] = [mgr[m] EXCEPT !.pc = "ready"]]
          /\ reg = None /\ cache = None
      BY <1>3, MgrFields DEF Start, Nothing
    <2>3. f \in Tasks /\ task[f].st = "unborn"
      BY <2>1
    <2> HIDE DEF f
    <2>4. /\ now \in Nat /\ TaskTtl \in Nat \ {0} /\ MaxAttempts \in Nat \ {0}
          /\ task \in [Tasks -> TaskRecord]
          /\ mgr \in [Managers -> MgrRecord]
          /\ None \notin Tasks
      BY LinkAssumption DEF Inv, TypeOK, TaskRecord, MgrRecord
    <2>5. /\ task' \in [Tasks -> TaskRecord]
          /\ task'[f].st = "fetching" /\ task'[f].at = now
          /\ \A u \in Tasks : u # f => task'[u] = task[u]
      BY <2>2, <2>3, <2>4 DEF TaskRecord
    <2>6. /\ mgr' \in [Managers -> MgrRecord]
          /\ mgr'[m].pc = "ready"
          /\ \A n \in Managers : n # m => mgr'[n] = mgr[n]
      <3>1. [mgr[m] EXCEPT !.pc = "ready"] \in MgrRecord
        BY MgrFields
      <3>2. [mgr[m] EXCEPT !.pc = "ready"].pc = "ready"
        BY <2>4 DEF MgrRecord
      <3> QED
        BY <2>2, <2>4, <3>1, <3>2
    <2>7. TypeOK'
      <3>1. \A n \in Managers : mgr'[n].pc = "wait" => mgr'[n].on # None
        BY <2>6 DEF Inv, TypeOK
      <3>2. regUntil' \in Nat /\ reg' \in Tasks \cup {None} /\ now' \in Nat
        BY <1>0, <2>2, <2>3, <2>4
      <3>3. cache' \in Tasks \cup {None} /\ cacheUntil' \in Nat
        BY <1>0 DEF Inv, TypeOK
      <3> QED
        BY <2>5, <2>6, <3>1, <3>2, <3>3 DEF TypeOK, TaskRecord, MgrRecord
    <2>8. Refused' <=> Refused
      BY <1>0, <2>6 DEF Refused
    <2>9. Registered' /\ Cached'
      BY <1>0, <2>2, <2>4, <2>5 DEF Registered, Cached, Born
    <2>10. Past'
      BY <1>0, <2>3, <2>4, <2>5 DEF Inv, Past, Born
    <2>11. Waiting' /\ Told'
      <3>1. ASSUME NEW n \in Managers, mgr'[n].pc \in {"wait", "failed"}
            PROVE  /\ mgr'[n] = mgr[n] /\ mgr[n].on \in Tasks /\ mgr[n].on # f
                   /\ task'[mgr[n].on] = task[mgr[n].on]
        <4>1. n # m /\ mgr'[n] = mgr[n]
          BY <2>6, <3>1
        <4>2. mgr[n].on \in Tasks /\ task[mgr[n].on].st # "unborn"
          BY <2>4, <3>1, <4>1 DEF Inv, Waiting, Told, Born, MgrRecord
        <4> QED
          BY <2>3, <2>5, <4>1, <4>2
      <3> QED
        BY <1>0, <2>2, <3>1 DEF Inv, Waiting, Told, Born
    <2>12. Kept' /\ OneFetch'
      <3> SUFFICES ASSUME ~Refused PROVE Kept' /\ OneFetch'
        BY <2>8 DEF Kept, OneFetch
      <3>1. \A t \in Tasks : Born(t) => task[t].at + TaskTtl <= now
        <4> SUFFICES ASSUME NEW t \in Tasks, Born(t)
                     PROVE  task[t].at + TaskTtl <= now
          OBVIOUS
        <4>1. ~(now < task[t].at + TaskTtl)
          BY <2>2, <2>4 DEF Inv, Kept
        <4> QED
          BY <2>4, <4>1 DEF TaskRecord
      <3>2. \A t \in Tasks : t # f => (Born(t)' <=> Born(t)) /\ task'[t].at = task[t].at
        BY <2>5 DEF Born
      <3>3. Kept'
        BY <1>0, <2>2, <2>4, <2>5, <3>1, <3>2 DEF Kept, TaskRecord
      <3>4. OneFetch'
        <4> SUFFICES ASSUME NEW t \in Tasks, NEW u \in Tasks, t # u, Born(t)', Born(u)',
                            task'[t].at <= task'[u].at
                     PROVE  task'[t].at + TaskTtl <= task'[u].at
          BY <1>0 DEF OneFetch
        <4>1. CASE t = f
          <5>1. Born(u) /\ task'[u].at = task[u].at /\ task[u].at \in Nat
            BY <2>4, <3>2, <4>1 DEF TaskRecord
          <5> QED
            BY <2>4, <2>5, <3>1, <4>1, <5>1
        <4>2. CASE u = f
          <5>1. Born(t) /\ task'[t].at = task[t].at
            BY <3>2, <4>2
          <5> QED
            BY <2>5, <3>1, <4>2, <5>1
        <4>3. CASE t # f /\ u # f
          BY <3>2, <4>3 DEF Inv, OneFetch
        <4> QED
          BY <4>1, <4>2, <4>3
      <3> QED
        BY <3>3, <3>4
    <2> QED
      BY <2>7, <2>9, <2>10, <2>11, <2>12 DEF Inv
  <1> QED
    BY <1>1, <1>2, <1>3 DEF CreateTask

-------------------------------------------------------------------------------
\* The answer of a task that is over, within the lifetime of its registration.
LEMMA AnswerInv ==
  ASSUME Inv, NEW m \in Managers, NEW t \in Tasks,
         mgr[m].pc \in {"ready", "wait"},
         now <= task[t].at + TaskTtl,
         Receive(m, t) \/ Refuse(m, t),
         UNCHANGED <<task, now>>
  PROVE  Inv'
  <1>1. CASE Receive(m, t)
    <2> DEFINE q == [pc |-> "has", url |-> t, on |-> t]
    <2>1. q \in MgrRecord /\ q.pc = "has" /\ mgr' = [mgr EXCEPT ![m] = q]
      BY <1>1 DEF Receive, Answered, MgrRecord
    <2>2. /\ cache' = t /\ cacheUntil' = now + CacheTtl
          /\ task[t].st = "done" /\ UNCHANGED <<reg, regUntil>>
      BY <1>1 DEF Receive, Expiry
    <2>3. /\ now \in Nat /\ CacheTtl \in Nat \ {0} /\ TaskTtl \in Nat
          /\ task[t].at \in Nat
      BY LinkAssumption DEF Inv, TypeOK
    <2>4. Cached' /\ cache' \in Tasks \cup {None} /\ cacheUntil' \in Nat
      BY <2>2, <2>3 DEF Cached
    <2>5. q.pc # "failed" /\ q.pc # "wait" /\ mgr[m].pc # "failed"
      BY <2>1
    <2> HIDE DEF q
    <2> QED
      BY <2>1, <2>2, <2>4, <2>5, ManagerMoves
  <1>2. CASE Refuse(m, t)
    <2> DEFINE q == [pc |-> "failed", url |-> None, on |-> t]
    <2>1. /\ task[t].st = "failed" /\ reg' = None
          /\ mgr' = [mgr EXCEPT ![m] = q]
          /\ UNCHANGED <<regUntil, cache, cacheUntil>>
      BY <1>2 DEF Refuse, Answered, RemoveTask
    <2>2. q \in MgrRecord /\ q.pc = "failed" /\ q.on = t
      BY DEF MgrRecord
    <2> HIDE DEF q
    <2>3. mgr \in [Managers -> MgrRecord] /\ None \notin Tasks
      BY LinkAssumption DEF Inv, TypeOK, MgrRecord
    <2>4. /\ mgr' \in [Managers -> MgrRecord] /\ mgr'[m] = q
          /\ \A n \in Managers : n # m => mgr'[n] = mgr[n]
      BY <2>1, <2>2, <2>3
    <2>5. TypeOK'
      BY <2>1, <2>2, <2>4 DEF Inv, TypeOK, MgrRecord
    <2>6. Refused'
      BY <2>2, <2>4 DEF Refused
    <2>7. (Registered /\ Cached /\ Past)'
      BY <2>1 DEF Inv, Registered, Cached, Past, Born
    <2>8. Waiting'
      BY <2>2, <2>4 DEF Inv, Waiting, Born
    <2>9. Told'
      <3> SUFFICES ASSUME NEW n \in Managers, mgr'[n].pc = "failed"
                   PROVE  /\ mgr'[n].on # None
                          /\ task[mgr'[n].on].st = "failed"
                          /\ reg' # mgr'[n].on
        BY DEF Told
      <3>1. mgr'[n].on # None /\ task[mgr'[n].on].st = "failed"
        BY <2>1, <2>2, <2>3, <2>4 DEF Inv, Told
      <3> QED
        BY <2>1, <3>1
    <2>10. (Kept /\ OneFetch)'
      BY <2>6 DEF Kept, OneFetch
    <2> QED
      BY <2>5, <2>7, <2>8, <2>9, <2>10 DEF Inv
  <1> QED
    BY <1>1, <1>2

LEMMA GetRawUrlInv ==
  ASSUME Inv, NEW m \in Managers, GetRawUrl(m)
  PROVE  Inv'
  <1>0. mgr[m].pc = "ready" /\ UNCHANGED <<task, now>>
    BY DEF GetRawUrl
  <1>1. CASE AtHand(m)
    <2> DEFINE url == IF mgr[m].url # None THEN mgr[m].url ELSE cache
               q == [mgr[m] EXCEPT !.pc = "has", !.url = url]
    <2>1. url \in Tasks \cup {None}
      BY DEF Inv, TypeOK
    <2>2. mgr' = [mgr EXCEPT ![m].pc = "has", ![m].url = url]
      BY <1>1 DEF AtHand, Inv, TypeOK
    <2> HIDE DEF url
    <2>3. q \in MgrRecord /\ mgr' = [mgr EXCEPT ![m] = q]
      BY <2>1, <2>2, MgrFields
    <2>4. q.pc = "has"
      BY DEF Inv, TypeOK
    <2>5. Cached' /\ cache' \in Tasks \cup {None} /\ cacheUntil' \in Nat
      BY <1>0, <1>1 DEF Inv, TypeOK, Cached, AtHand
    <2> HIDE DEF q
    <2> QED
      BY <1>0, <1>1, <2>3, <2>4, <2>5, ManagerMoves DEF AtHand
  <1>2. CASE Lost(m)
    <2> DEFINE q == [mgr[m] EXCEPT !.pc = "lost"]
    <2>1. q \in MgrRecord /\ mgr' = [mgr EXCEPT ![m] = q]
      BY <1>2, MgrFields DEF Lost
    <2>2. q.pc = "lost"
      BY DEF Inv, TypeOK
    <2>3. Cached' /\ cache' \in Tasks \cup {None} /\ cacheUntil' \in Nat
      BY <1>0, <1>2 DEF Inv, TypeOK, Cached, Lost
    <2> HIDE DEF q
    <2> QED
      BY <1>0, <1>2, <2>1, <2>2, <2>3, ManagerMoves DEF Lost
  <1>3. CASE reg # None /\ (Receive(m, reg) \/ Refuse(m, reg) \/ Wait(m, reg))
    <2>1. /\ reg \in Tasks /\ Born(reg)
          /\ now <= task[reg].at + TaskTtl
      BY <1>3 DEF Inv, TypeOK, Registered
    <2>2. CASE Receive(m, reg) \/ Refuse(m, reg)
      BY <1>0, <2>1, <2>2, AnswerInv
    <2>3. CASE Wait(m, reg)
      <3> DEFINE q == [pc |-> "wait", url |-> None, on |-> reg]
      <3>1. q \in MgrRecord /\ mgr' = [mgr EXCEPT ![m] = q]
        BY <2>1, <2>3 DEF Wait, Answered, MgrRecord
      <3>2. q.pc = "wait" /\ q.on = reg
        OBVIOUS
      <3>3. Cached' /\ cache' \in Tasks \cup {None} /\ cacheUntil' \in Nat
        BY <1>0, <2>3 DEF Inv, TypeOK, Cached, Wait
      <3> HIDE DEF q
      <3> QED
        BY <1>0, <1>3, <2>1, <2>3, <3>1, <3>2, <3>3, ManagerMoves DEF Wait
    <2> QED
      BY <1>3, <2>2, <2>3
  <1> QED
    BY <1>1, <1>2, <1>3 DEF GetRawUrl

LEMMA ManagerInv ==
  ASSUME Inv, NEW m \in Managers, ManagerStep(m)
  PROVE  Inv'
  <1>1. CASE Wake(m)
    <2>1. /\ mgr[m].pc = "wait" /\ mgr[m].on \in Tasks
          /\ now <= task[mgr[m].on].at + TaskTtl
      BY <1>1 DEF Wake, Inv, TypeOK, Waiting
    <2> QED
      BY <1>1, <2>1, AnswerInv DEF Wake
  <1>2. CASE Leave(m)
    <2> DEFINE q == [mgr[m] EXCEPT !.pc = "left"]
    <2>1. q \in MgrRecord /\ mgr' = [mgr EXCEPT ![m] = q]
      BY <1>2, MgrFields DEF Leave
    <2>2. q.pc = "left"
      BY DEF Inv, TypeOK
    <2>3. Cached' /\ cache' \in Tasks \cup {None} /\ cacheUntil' \in Nat
      BY <1>2 DEF Inv, TypeOK, Cached, Leave
    <2> HIDE DEF q
    <2> QED
      BY <1>2, <2>1, <2>2, <2>3, ManagerMoves DEF Leave
  <1> QED
    BY <1>1, <1>2, CreateTaskInv, GetRawUrlInv DEF ManagerStep

-------------------------------------------------------------------------------
LEMMA TimeInv ==
  ASSUME Inv, ExpireTask \/ ExpireLink \/ Tick
  PROVE  Inv'
  <1>0. /\ now \in Nat /\ TaskTtl \in Nat \ {0} /\ CacheTtl \in Nat
        /\ task \in [Tasks -> TaskRecord] /\ reg \in Tasks \cup {None}
        /\ regUntil \in Nat /\ cacheUntil \in Nat
        /\ None \notin Tasks
    BY LinkAssumption DEF Inv, TypeOK, TaskRecord
  <1>1. CASE ExpireTask
    <2>1. /\ reg' = None /\ UNCHANGED <<task, regUntil, cache, cacheUntil, mgr, now>>
          /\ reg # None /\ regUntil <= now
      BY <1>1 DEF ExpireTask
    <2>2. TypeOK' /\ (Registered /\ Cached /\ Past /\ Waiting)' /\ OneFetch'
      BY <2>1 DEF Inv, TypeOK, Registered, Cached, Past, Waiting, OneFetch, Born, Refused
    <2>3. Told'
      BY <2>1 DEF Inv, Told
    <2>4. Kept'
      <3> SUFFICES ASSUME ~Refused, NEW t \in Tasks, Born(t),
                          now < task[t].at + TaskTtl
                   PROVE  FALSE
        BY <2>1 DEF Kept, Refused, Born
      <3>1. reg = t /\ regUntil = task[t].at + TaskTtl
        BY <2>1 DEF Inv, Kept, Registered
      <3> QED
        BY <1>0, <2>1, <3>1 DEF TaskRecord
    <2> QED
      BY <2>2, <2>3, <2>4 DEF Inv
  <1>2. CASE ExpireLink
    <2>1. cache' = None /\ UNCHANGED <<task, reg, regUntil, cacheUntil, mgr, now>>
      BY <1>2 DEF ExpireLink
    <2> QED
      BY <2>1 DEF Inv, TypeOK, Registered, Cached, Past, Waiting, Told, Kept,
                  OneFetch, Born, Refused
  <1>3. CASE Tick
    <2>1. /\ now' = now + 1 /\ Quiet
          /\ UNCHANGED <<task, reg, regUntil, cache, cacheUntil, mgr>>
      BY <1>3 DEF Tick
    <2>2. TypeOK' /\ Told' /\ OneFetch'
      BY <1>0, <2>1 DEF Inv, TypeOK, Told, OneFetch, Born, Refused
    <2>3. Registered'
      BY <1>0, <2>1 DEF Inv, Registered, Quiet, Born
    <2>4. Cached'
      BY <1>0, <2>1 DEF Inv, Cached, Quiet
    <2>5. Past' /\ Waiting'
      BY <1>0, <2>1 DEF Inv, Past, Waiting, Quiet, Born, TaskRecord
    <2>6. Kept'
      BY <1>0, <2>1 DEF Inv, Kept, Born, Refused, TaskRecord
    <2> QED
      BY <2>2, <2>3, <2>4, <2>5, <2>6 DEF Inv
  <1> QED
    BY <1>1, <1>2, <1>3

LEMMA NextInv == Inv /\ [Next]_vars => Inv'
  <1> SUFFICES ASSUME Inv, [Next]_vars PROVE Inv'
    OBVIOUS
  <1>1. CASE UNCHANGED vars
    BY <1>1 DEF vars, Inv, TypeOK, Registered, Cached, Past, Waiting, Told, Kept,
                OneFetch, Born, Refused
  <1>2. CASE Next
    BY <1>2, FetchInv, ManagerInv, TimeInv DEF Next
  <1> QED
    BY <1>1, <1>2

-------------------------------------------------------------------------------
\* The strengthened invariant holds in every reachable state.
THEOREM Invariance == Spec => []Inv
  BY InitInv, NextInv, PTL DEF Spec

\* The types, for every number of managers, attempts and every lifetime.
THEOREM TypeCorrect == Spec => []TypeOK
  <1>1. Inv => TypeOK
    BY DEF Inv
  <1> QED
    BY <1>1, Invariance, PTL

\* create_task coalesces: without a reported failure two fetches of a link are
\* a registration's lifetime apart.
THEOREM Coalesced == Spec => []OneFetch
  <1>1. Inv => OneFetch
    BY DEF Inv
  <1> QED
    BY <1>1, Invariance, PTL

\* The except branches of get_raw_url: a failure that was reported is not
\* handed out again.
THEOREM Dropped == Spec => []FailureDropped
  <1>1. Inv => FailureDropped
    BY DEF Inv, Told, FailureDropped
  <1> QED
    BY <1>1, Invariance, PTL

\* What create_task and get_raw_url find in the cache is a real link, and no
\* older than both lifetimes together.
THEOREM NoStaleLink == Spec => []LinkFresh
  <1>1. Inv => LinkFresh
    <2> SUFFICES ASSUME Inv, cache # None
                 PROVE  /\ task[cache].st = "done"
                        /\ now <= task[cache].at + TaskTtl + CacheTtl
      BY DEF LinkFresh
    <2>1. /\ cache \in Tasks /\ now \in Nat /\ cacheUntil \in Nat
          /\ task[cache].at \in Nat /\ TaskTtl \in Nat /\ CacheTtl \in Nat
      BY LinkAssumption DEF Inv, TypeOK
    <2> QED
      BY <2>1 DEF Inv, Cached
  <1> QED
    BY <1>1, Invariance, PTL

-------------------------------------------------------------------------------
\* Who has asked create_task found a task, started one, or found the link of one.
Asked == \A m \in Managers : mgr[m].pc # "new" => \E t \in Tasks : Born(t)

\* No step undoes a task, its time, or a reported failure.
LEMMA Stays ==
  ASSUME Inv, [Next]_vars
  PROVE  /\ \A t \in Tasks : Born(t) => Born(t)' /\ task'[t].at = task[t].at
         /\ Refused => Refused'
         /\ now <= now'
  <1>0. /\ task \in [Tasks -> TaskRecord] /\ mgr \in [Managers -> MgrRecord]
        /\ now \in Nat
    BY DEF Inv, TypeOK, TaskRecord, MgrRecord
  <1>1. CASE UNCHANGED vars
    BY <1>0, <1>1 DEF vars, Born, Refused
  <1>2. ASSUME NEW t \in Tasks, Fetch(t)
        PROVE  /\ \A u \in Tasks : Born(u) => Born(u)' /\ task'[u].at = task[u].at
               /\ UNCHANGED <<mgr, now>>
    BY <1>0, <1>2 DEF Fetch, FetchRetries, FetchSucceeds, FetchFails, Becomes,
                      Born, TaskRecord
  <1>3. ASSUME NEW m \in Managers, ManagerStep(m)
        PROVE  /\ \A u \in Tasks : Born(u) => Born(u)' /\ task'[u].at = task[u].at
               /\ now' = now
               /\ mgr[m].pc # "failed"
               /\ \A n \in Managers : n # m => mgr'[n] = mgr[n]
    <2>1. CASE CreateTask(m)
      <3>1. CASE Start(m)
        <4>1. Fresh \in Tasks /\ task[Fresh].st = "unborn"
          BY <3>1 DEF Start, CanCreate, Fresh
        <4> DEFINE f == Fresh
        <4>2. /\ task' = [task EXCEPT ![f] = [st |-> "fetching", attempt |-> 1, at |-> now]]
              /\ f \in Tasks /\ task[f].st = "unborn"
          BY <3>1, <4>1 DEF Start
        <4> HIDE DEF f
        <4>3. \A u \in Tasks : Born(u) => Born(u)' /\ task'[u].at = task[u].at
          BY <1>0, <4>2 DEF Born
        <4> QED
          BY <1>0, <2>1, <3>1, <4>3 DEF CreateTask, Start
      <3>2. CASE UseCached(m) \/ Reuse(m)
        BY <1>0, <2>1, <3>2 DEF CreateTask, UseCached, Reuse, Born
      <3> QED
        BY <2>1, <3>1, <3>2 DEF CreateTask
    <2>2. CASE GetRawUrl(m)
      BY <1>0, <2>2 DEF GetRawUrl, AtHand, Lost, Receive, Refuse, Wait, Answered, Born
    <2>3. CASE Wake(m)
      BY <1>0, <2>3 DEF Wake, Receive, Refuse, Answered, Born
    <2>4. CASE Leave(m)
      BY <1>0, <2>4 DEF Leave, Born
    <2> QED
      BY <1>3, <2>1, <2>2, <2>3, <2>4 DEF ManagerStep
  <1>4. CASE ExpireTask \/ ExpireLink \/ Tick
    BY <1>0, <1>4 DEF ExpireTask, ExpireLink, Tick, Born, Refused
  <1>5. CASE \E t \in Tasks : Fetch(t)
    BY <1>0, <1>2, <1>5 DEF Refused
  <1>6. CASE \E m \in Managers : ManagerStep(m)
    <2>1. PICK m \in Managers : ManagerStep(m)
      BY <1>6
    <2> QED
      BY <1>0, <1>3, <2>1 DEF Refused
  <1> QED
    BY <1>1, <1>4, <1>5, <1>6 DEF Next

\* A manager that leaves "new" has a task, one that becomes lost has an expired
\* one or another manager's failure.
LEMMA AskedInv == Inv /\ Asked /\ LostExplained /\ [Next]_vars
                    => Asked' /\ LostExplained'
  <1> SUFFICES ASSUME Inv, Asked, LostExplained, [Next]_vars
               PROVE  Asked' /\ LostExplained'
    OBVIOUS
  <1>0. /\ task \in [Tasks -> TaskRecord] /\ mgr \in [Managers -> MgrRecord]
        /\ now \in Nat /\ now' \in Nat /\ TaskTtl \in Nat
        /\ task' \in [Tasks -> TaskRecord]
    BY LinkAssumption, NextInv DEF Inv, TypeOK, TaskRecord, MgrRecord
  <1>1. /\ (\E t \in Tasks : Born(t)) => \E t \in Tasks : Born(t)'
        /\ Refused => Refused'
        /\ (\E t \in Tasks : Born(t) /\ task[t].at + TaskTtl <= now)
             => \E t \in Tasks : Born(t)' /\ task'[t].at + TaskTtl <= now'
    BY <1>0, Stays DEF TaskRecord
  <1>2. CASE mgr' = mgr
    BY <1>1, <1>2 DEF Asked, LostExplained
  <1>3. ASSUME NEW m \in Managers, ManagerStep(m)
        PROVE  Asked' /\ LostExplained'
    <2>1. \A n \in Managers : n # m => mgr'[n] = mgr[n]
      BY <1>0, <1>3 DEF ManagerStep, CreateTask, UseCached, Reuse, Start, GetRawUrl,
         AtHand, Lost, Receive, Refuse, Wait, Wake, Leave, Answered
    <2>2. \E t \in Tasks : Born(t)'
      <3>1. CASE UseCached(m) /\ CreateTask(m)
        <4>1. cache \in Tasks /\ Born(cache)
          BY <3>1 DEF UseCached, Inv, TypeOK, Cached, Born
        <4> QED
          BY <1>1, <4>1
      <3>2. CASE Reuse(m) /\ CreateTask(m)
        <4>1. reg \in Tasks /\ Born(reg)
          BY <3>2 DEF Reuse, Inv, TypeOK, Registered
        <4> QED
          BY <1>1, <4>1
      <3>3. CASE Start(m)
        <4>1. Fresh \in Tasks
          BY <3>3 DEF Start, CanCreate, Fresh
        <4> DEFINE f == Fresh
        <4>2. /\ task' = [task EXCEPT ![f] = [st |-> "fetching", attempt |-> 1, at |-> now]]
              /\ f \in Tasks
          BY <3>3, <4>1 DEF Start
        <4> HIDE DEF f
        <4>3. task'[f].st = "fetching"
          BY <1>0, <4>2
        <4> QED
          BY <4>2, <4>3 DEF Born
      <3>4. CASE mgr[m].pc # "new"
        BY <1>1, <3>4 DEF Asked
      <3> QED
        BY <1>3, <3>1, <3>2, <3>3, <3>4 DEF ManagerStep, CreateTask, GetRawUrl, Wake, Leave
    <2>3. Asked'
      BY <2>2 DEF Asked
    <2>4. CASE mgr'[m].pc # "lost"
      BY <1>1, <2>1, <2>3, <2>4 DEF LostExplained
    <2>5. CASE mgr'[m].pc = "lost"
      <3>1. mgr[m].pc = "ready" /\ Nothing /\ UNCHANGED <<task, now>>
        BY <1>0, <1>3, <2>5 DEF ManagerStep, CreateTask, UseCached, Reuse, Start,
           GetRawUrl, AtHand, Lost, Receive, Refuse, Wait, Wake, Leave, Answered, MgrRecord
      <3>2. Refused \/ \E t \in Tasks : Born(t) /\ task[t].at + TaskTtl <= now
        <4>1. PICK t \in Tasks : Born(t)
          BY <3>1 DEF Asked
        <4>2. reg # t
          BY <3>1, LinkAssumption DEF Nothing
        <4>3. Refused \/ ~(now < task[t].at + TaskTtl)
          BY <4>1, <4>2 DEF Inv, Kept
        <4> QED
          BY <1>0, <4>1, <4>3 DEF TaskRecord
      <3> QED
        BY <1>1, <2>3, <3>2 DEF LostExplained
    <2> QED
      BY <2>4, <2>5
  <1>4. mgr' = mgr \/ \E m \in Managers : ManagerStep(m)
    BY DEF Next, vars, Fetch, FetchRetries, FetchSucceeds, FetchFails, ExpireTask,
           ExpireLink, Tick
  <1> QED
    BY <1>2, <1>3, <1>4

\* "RawLinkTask not created" is only said after a failure, or when the
\* registration of a task has run out.
THEOREM Obtainable == Spec => []LostExplained
  <1>1. Init => Asked /\ LostExplained
    BY DEF Init, Asked, LostExplained
  <1> QED
    BY <1>1, AskedInv, Invariance, PTL DEF Spec
===============================================================================
