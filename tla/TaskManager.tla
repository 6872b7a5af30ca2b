------------------------------ MODULE TaskManager ------------------------------
(***************************************************************************)
(* TaskManager of cache/manager.py: a dict of dicts of dicts, type name -> *)
(* file id -> sub key -> (instance, expired_at), and the background loop   *)
(* that removes expired entries once per cleanup_interval.                 *)
(*                                                                         *)
(* self.lock is held over code that never awaits, so it is never contended *)
(* and taking it never suspends: each method, and one round of the loop    *)
(* with all its remove_task calls, is one step of the event loop.          *)
(***************************************************************************)
EXTENDS Integers

CONSTANTS Types, Files, Subs,  \* ChunksWriter, ...; file ids; "head", "tail"
          Instances,           \* what is registered
          Ttls,                \* the ttl arguments used, besides None
          None,                \* Python's
          DefaultTtl,          \* default_ttl, 300 s in the code
          Interval,            \* cleanup_interval, 1 s in the code
          MaxTime              \* bound: the clock stops there

ASSUME ManagerAssumption == /\ None \notin Ttls \cup Instances
                            /\ Ttls \subseteq Nat \ {0}
                            /\ DefaultTtl \in Nat \ {0}
                            /\ Interval \in Nat \ {0}
                            /\ MaxTime \in Nat

VARIABLES tasks,   \* self.tasks
          now,     \* time.time(), in seconds
          wakeAt   \* when the loop's sleep ends

vars == <<tasks, now, wakeAt>>

Empty == [k \in {} |-> 0]

\* d[k] = v
SetItem(d, k, v) == [j \in DOMAIN d \cup {k} |-> IF j = k THEN v ELSE d[j]]

\* d.get(k, {})
GetMap(d, k) == IF k \in DOMAIN d THEN d[k] ELSE Empty

\* Mutant: file id and sub key swapped.
InsertSwapped(m, t, f, s, e) ==
    SetItem(m, t, SetItem(GetMap(m, t), s, SetItem(GetMap(GetMap(m, t), s), f, e)))

\* The nested dict m with m[t][f][s] set, the levels above created as needed.
Insert(m, t, f, s, e) ==
    LET fileMap == GetMap(m, t)
    IN  SetItem(m, t, SetItem(fileMap, f, SetItem(GetMap(fileMap, f), s, e)))

\* What remove_task for every key of K leaves of the sub map of file f, of the
\* file map of type t, and of m: a map that became empty goes with its key.
SubsLeft(m, K, t, f) == {s \in DOMAIN m[t][f] : <<t, f, s>> \notin K}

\* Mutants: empty maps are left behind; a file map goes with the first of its
\* keys.
FilesKept(m, K, t) == DOMAIN m[t]
FilesIntact(m, K, t) ==
    {f \in DOMAIN m[t] : SubsLeft(m, K, t, f) = DOMAIN m[t][f]}

FilesLeft(m, K, t) == {f \in DOMAIN m[t] : SubsLeft(m, K, t, f) # {}}

Without(m, K) ==
    [t \in {u \in DOMAIN m : FilesLeft(m, K, u) # {}} |->
        [f \in FilesLeft(m, K, t) |->
            [s \in SubsLeft(m, K, t, f) |-> m[t][f][s]]]]

\* The (type, file, sub key) triples that have an entry.
KeysOf(m) == UNION {UNION {{<<t, f, s>> : s \in DOMAIN m[t][f]} :
                              f \in DOMAIN m[t]} : t \in DOMAIN m}

Init == tasks = Empty /\ now = 0 /\ wakeAt = 0

-------------------------------------------------------------------------------
Lifetime(ttl) == IF ttl = None THEN DefaultTtl ELSE ttl

create_task(t, f, s, x, ttl) ==
    /\ tasks' = Insert(tasks, t, f, s, [task   |-> x,
                                       expiry |-> now + Lifetime(ttl)])
    /\ UNCHANGED <<now, wakeAt>>

\* No effect when there is no such entry.
remove_task(t, f, s) == /\ tasks' = Without(tasks, {<<t, f, s>>})
                        /\ UNCHANGED <<now, wakeAt>>

\* get_task, whatever the expiry says; None when there is no entry.
get_task(t, f, s) == LET subMap == GetMap(GetMap(tasks, t), f)
                     IN  IF s \in DOMAIN subMap THEN subMap[s].task ELSE None

\* Mutant: the second in which an entry expires is not counted.
OverdueKeys == {k \in KeysOf(tasks) : tasks[k[1]][k[2]][k[3]].expiry < now}

ExpiredKeys == {k \in KeysOf(tasks) : tasks[k[1]][k[2]][k[3]].expiry <= now}

\* One round of _cleanup_task.
_cleanup_task == /\ now >= wakeAt
                 /\ tasks' = Without(tasks, ExpiredKeys)
                 /\ wakeAt' = now + Interval
                 /\ UNCHANGED now

\* Time passes; the loop is not late by more than the second it is due in.
Tick == /\ now < wakeAt /\ now < MaxTime
        /\ now' = now + 1
        /\ UNCHANGED <<tasks, wakeAt>>

Next == \/ \E t \in Types, f \in Files, s \in Subs :
              \/ \E x \in Instances, ttl \in Ttls \cup {None} :
                    create_task(t, f, s, x, ttl)
              \/ remove_task(t, f, s)
        \/ _cleanup_task
        \/ Tick

Spec == Init /\ [][Next]_vars

-------------------------------------------------------------------------------
(* Properties.                                                             *)

\* The shape of the nested dict.
TypeOK ==
    /\ KeysOf(tasks) \subseteq Types \X Files \X Subs
    /\ \A k \in KeysOf(tasks) :
          /\ tasks[k[1]][k[2]][k[3]].task \in Instances
          /\ tasks[k[1]][k[2]][k[3]].expiry \in Nat
    /\ now \in Nat /\ wakeAt \in Nat

\* No empty inner dict stays behind: a long run of calls leaks no keys, and
\* what remove_task prunes is exactly what became empty.
NoEmptyMaps == \A t \in DOMAIN tasks :
    tasks[t] # Empty /\ \A f \in DOMAIN tasks[t] : tasks[t][f] # Empty

\* No entry is returned once a round of the loop was due since it expired: a
\* writer registered for 180 s is gone within the 181st, although get_task
\* itself looks at no expiry.  This is so of an entry registered with ttl=None
\* too, after default_ttl; the docstring has it that None sets no expiry.
NoOverstay == \A t \in Types, f \in Files, s \in Subs :
    get_task(t, f, s) # None => now < tasks[t][f][s].expiry + Interval

-------------------------------------------------------------------------------
(* TaskManager implements TaskRegistry.                                    *)

Flat == [k \in KeysOf(tasks) |-> tasks[k[1]][k[2]][k[3]]]

TR == INSTANCE TaskRegistry WITH
          Keys <- Types \X Files \X Subs,
          Lifetimes <- Ttls \cup {DefaultTtl},
          entries <- Flat

\* Nested or flat makes no difference: an operation on one key, and a round of
\* the loop over many, never touches another key's entry.
ImplementsRegistry == TR!RegistrySpec
===============================================================================
