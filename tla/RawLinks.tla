-------------------------------- MODULE RawLinks --------------------------------
(***************************************************************************)
(* RawLinkManager and RawLinkTask of providers/manager.py for one path and *)
(* one user agent, by which both the registry and the cache of links are   *)
(* keyed: any number of managers, one per request, share a task that       *)
(* fetches the link, and the link once it is cached.                       *)
(*                                                                         *)
(* The cache lives in memory and TaskManager's lock is never contended, so *)
(* create_task does not suspend, and get_raw_url does so only while the    *)
(* task it found is still running.  A link is named by the task that       *)
(* fetched it.                                                             *)
(*                                                                         *)
(* Time is counted in steps that are long compared to a fetch (at most     *)
(* five attempts) and short compared to the two lifetimes.                 *)
(***************************************************************************)
EXTENDS Integers

CONSTANTS Managers,     \* the RawLinkManager objects
          Tasks,        \* the RawLinkTask objects
          None,         \* Python's
          MaxAttempts,  \* stop_after_attempt: 5; 4 when Emby is the provider
          TaskTtl,      \* ttl of the registered task, 600 s in the code
          CacheTtl,     \* ttl of the cached link, 3600 s in the code
          MaxTime       \* bound: the clock stops there

ASSUME LinkAssumption == /\ None \notin Tasks
                         /\ MaxAttempts \in Nat \ {0}
                         /\ TaskTtl \in Nat \ {0}
                         /\ CacheTtl \in Nat \ {0}
                         /\ MaxTime \in Nat

VARIABLES task,       \* task[t]: [st, attempt, at], at: when it was created
          reg,        \* the registered task, or None
          regUntil,   \* when its registration expires
          cache,      \* the cached link, or None
          cacheUntil, \* when it expires
          mgr,        \* mgr[m]: [pc, url, on], on: the task last awaited
          now         \* time

vars == <<task, reg, regUntil, cache, cacheUntil, mgr, now>>

Init == /\ task = [t \in Tasks |-> [st |-> "unborn", attempt |-> 0, at |-> 0]]
        /\ reg = None /\ regUntil = 0
        /\ cache = None /\ cacheUntil = 0
        /\ mgr = [m \in Managers |-> [pc |-> "new", url |-> None, on |-> None]]
        /\ now = 0

-------------------------------------------------------------------------------
(* create_task.                                                            *)

\* Mutant: the cache is asked, the registry is not.
Unshared == cache = None

\* Neither the cache nor the registry has anything.
Nothing == cache = None /\ reg = None

\* The link is cached: it becomes the manager's own.
UseCached(m) == /\ cache # None
                /\ mgr' = [mgr EXCEPT ![m].pc = "ready", ![m].url = cache]
                /\ UNCHANGED <<task, reg, regUntil>>

\* A task is registered, in whatever state it is.
Reuse(m) == /\ cache = None /\ reg # None
            /\ mgr' = [mgr EXCEPT ![m].pc = "ready"]
            /\ UNCHANGED <<task, reg, regUntil>>

\* The next RawLinkTask, if there is one left to create.
CanCreate == \E t \in Tasks : task[t].st = "unborn"
Fresh == CHOOSE t \in Tasks : task[t].st = "unborn"

\* Neither a link nor a task: a new task runs and is registered.
Start(m) == /\ Nothing /\ CanCreate
            /\ task' = [task EXCEPT ![Fresh] =
                  [st |-> "fetching", attempt |-> 1, at |-> now]]
            /\ reg' = Fresh /\ regUntil' = now + TaskTtl
            /\ mgr' = [mgr EXCEPT ![m].pc = "ready"]

CreateTask(m) == /\ mgr[m].pc = "new"
                 /\ UseCached(m) \/ Reuse(m) \/ Start(m)
                 /\ UNCHANGED <<cache, cacheUntil, now>>

-------------------------------------------------------------------------------
(* The task: _run, and the providers' requests with their retries.         *)

Becomes(t, st) == task' = [task EXCEPT ![t].st = st]

\* Mutant: once more than allowed.
RetriesOnceMore(t) ==
    /\ task[t].st = "fetching" /\ task[t].attempt <= MaxAttempts
    /\ task' = [task EXCEPT ![t].attempt = @ + 1]
    /\ UNCHANGED <<reg, regUntil, cache, cacheUntil, mgr, now>>

\* A request error, or a 5xx of the Emby that is asked: tried again.
FetchRetries(t) == /\ task[t].st = "fetching" /\ task[t].attempt < MaxAttempts
                   /\ task' = [task EXCEPT ![t].attempt = @ + 1]
                   /\ UNCHANGED <<reg, regUntil, cache, cacheUntil, mgr, now>>

\* _run returns the link.
FetchSucceeds(t) == /\ task[t].st = "fetching"
                    /\ Becomes(t, "done")
                    /\ UNCHANGED <<reg, regUntil, cache, cacheUntil, mgr, now>>

\* An error of the last attempt, or one that is not retried: no such file, a
\* refused key, an answer without a link.
FetchFails(t) == /\ task[t].st = "fetching"
                 /\ Becomes(t, "failed")
                 /\ UNCHANGED <<reg, regUntil, cache, cacheUntil, mgr, now>>

-------------------------------------------------------------------------------
(* get_raw_url.                                                            *)

Answered(m, pc, url, on) == mgr' = [mgr EXCEPT ![m] = [pc |-> pc, url |-> url, on |-> on]]

\* cache.set(..., ttl=3600)
Expiry == now + CacheTtl

\* get_result returns the link of t.
Receive(m, t) == /\ task[t].st = "done"
                 /\ Answered(m, "has", t, t)
                 /\ cache' = t /\ cacheUntil' = Expiry
                 /\ UNCHANGED <<reg, regUntil>>

\* Mutant: the failed task stays registered.
KeepTask == UNCHANGED reg

\* remove_task: whatever is registered by now goes.
RemoveTask == reg' = None

\* get_result raises what _run raised.
Refuse(m, t) == /\ task[t].st = "failed"
                /\ Answered(m, "failed", None, t)
                /\ RemoveTask
                /\ UNCHANGED <<regUntil, cache, cacheUntil>>

Wait(m, t) == /\ task[t].st = "fetching"
              /\ Answered(m, "wait", None, t)
              /\ UNCHANGED <<reg, regUntil, cache, cacheUntil>>

\* Mutant: every hit renews the cached link.
Renew(m) == /\ mgr[m].url # None \/ cache # None
            /\ mgr' = [mgr EXCEPT ![m].pc = "has",
                                  ![m].url = IF @ # None THEN @ ELSE cache]
            /\ cacheUntil' = Expiry
            /\ UNCHANGED <<reg, regUntil, cache>>

\* The manager has its link, or finds one in the cache.
AtHand(m) == /\ mgr[m].url # None \/ cache # None
             /\ mgr' = [mgr EXCEPT ![m].pc = "has",
                                   ![m].url = IF @ # None THEN @ ELSE cache]
             /\ UNCHANGED <<reg, regUntil, cache, cacheUntil>>

\* Neither a link nor a task: "RawLinkTask not created".
Lost(m) == /\ mgr[m].url = None /\ Nothing
           /\ mgr' = [mgr EXCEPT ![m].pc = "lost"]
           /\ UNCHANGED <<reg, regUntil, cache, cacheUntil>>

\* get_raw_url, up to its end or the await of a running task.
GetRawUrl(m) ==
    /\ mgr[m].pc = "ready"
    /\ \/ AtHand(m)
       \/ Lost(m)
       \/ /\ mgr[m].url = None /\ cache = None /\ reg # None
          /\ Receive(m, reg) \/ Refuse(m, reg) \/ Wait(m, reg)
    /\ UNCHANGED <<task, now>>

\* The task that m awaits is over.
Wake(m) == /\ mgr[m].pc = "wait"
           /\ Receive(m, mgr[m].on) \/ Refuse(m, mgr[m].on)
           /\ UNCHANGED <<task, now>>

\* Mutant: without asyncio.shield the task is cancelled with its waiter.
LeaveUnshielded(m) ==
    /\ mgr[m].pc = "wait"
    /\ mgr' = [mgr EXCEPT ![m].pc = "left"]
    /\ task' = [task EXCEPT ![mgr[m].on].st =
                  IF @ = "fetching" THEN "cancelled" ELSE @]
    /\ UNCHANGED <<reg, regUntil, cache, cacheUntil, now>>

\* The client of m goes away: its await is cancelled and the task goes on.
Leave(m) == /\ mgr[m].pc = "wait"
            /\ mgr' = [mgr EXCEPT ![m].pc = "left"]
            /\ UNCHANGED <<task, reg, regUntil, cache, cacheUntil, now>>

-------------------------------------------------------------------------------
(* Time.                                                                   *)

\* Mutant: a registration ends with its task.
DropFinished == /\ reg # None /\ task[reg].st # "fetching"
                /\ reg' = None
                /\ UNCHANGED <<task, regUntil, cache, cacheUntil, mgr, now>>

\* TaskManager's loop removes the registration.
ExpireTask == /\ reg # None /\ regUntil <= now
              /\ reg' = None
              /\ UNCHANGED <<task, regUntil, cache, cacheUntil, mgr, now>>

\* aiocache drops the link.
ExpireLink == /\ cache # None /\ cacheUntil <= now
              /\ cache' = None
              /\ UNCHANGED <<task, reg, regUntil, cacheUntil, mgr, now>>

\* Nothing is under way that is short compared to a step of the clock.
Quiet == /\ \A t \in Tasks : task[t].st # "fetching"
         /\ \A m \in Managers : mgr[m].pc # "wait"
         /\ reg # None => now < regUntil
         /\ cache # None => now < cacheUntil

Tick == /\ now < MaxTime /\ Quiet
        /\ now' = now + 1
        /\ UNCHANGED <<task, reg, regUntil, cache, cacheUntil, mgr>>

-------------------------------------------------------------------------------
Fetch(t) == FetchRetries(t) \/ FetchSucceeds(t) \/ FetchFails(t)

ManagerStep(m) == CreateTask(m) \/ GetRawUrl(m) \/ Wake(m) \/ Leave(m)

Next == \/ \E t \in Tasks : Fetch(t)
        \/ \E m \in Managers : ManagerStep(m)
        \/ ExpireTask \/ ExpireLink \/ Tick

Spec == Init /\ [][Next]_vars

\* A request for the link ends, in one way or another, and the loop resumes
\* who awaited it.  Nobody has to ask.
FairSpec == Spec /\ WF_vars(\E t \in Tasks : Fetch(t))
                 /\ \A m \in Managers : WF_vars(Wake(m))

-------------------------------------------------------------------------------
(* Properties.                                                             *)

Born(t) == task[t].st # "unborn"

\* The types; who waits, waits for a task that was started.
TypeOK ==
    /\ task \in [Tasks -> [st : {"unborn", "fetching", "done", "failed"},
                           attempt : 0..MaxAttempts, at : Nat]]
    /\ reg \in Tasks \cup {None} /\ regUntil \in Nat
    /\ cache \in Tasks \cup {None} /\ cacheUntil \in Nat
    /\ mgr \in [Managers -> [pc : {"new", "ready", "wait", "has",
                                   "failed", "lost", "left"},
                             url : Tasks \cup {None}, on : Tasks \cup {None}]]
    /\ \A m \in Managers : mgr[m].pc = "wait" => mgr[m].on # None
    /\ now \in Nat

Refused == \E m \in Managers : mgr[m].pc = "failed"

\* However many managers ask, and in whatever order, two fetches are at least
\* the lifetime of a registration apart, unless a failure was reported.
OneFetch ==
    ~Refused => \A t, u \in Tasks :
        (t # u /\ Born(t) /\ Born(u) /\ task[t].at <= task[u].at)
            => task[t].at + TaskTtl <= task[u].at

\* A failure is handed out while its task is registered, and never after one
\* manager has been told of it: the next one starts a new fetch.
FailureDropped ==
    \A m \in Managers : mgr[m].pc = "failed" => reg # mgr[m].on

\* What is cached is the link of a fetch that succeeded, and never older than
\* both lifetimes together, though any manager may put it there again: 600 s
\* and 3600 s in the code (the docstring of get_alist_raw_url says 5 minutes).
\* The link that a manager has at hand has no lifetime.
LinkFresh ==
    cache # None => /\ task[cache].st = "done"
                    /\ now <= task[cache].at + TaskTtl + CacheTtl

\* A manager that waits gets its answer, although the client that started the
\* task may have gone.
WaitersAnswered == \A m \in Managers :
    mgr[m].pc = "wait" ~> mgr[m].pc \in {"has", "failed", "left"}

\* get_raw_url does not start a task itself (manager.py:81): a manager can be
\* told that none was created, but only when another manager's failure removed
\* the task, or when the registration of one ran out before this manager asked.
LostExplained == \A m \in Managers : mgr[m].pc = "lost" =>
    Refused \/ \E t \in Tasks : Born(t) /\ task[t].at + TaskTtl <= now
===============================================================================
