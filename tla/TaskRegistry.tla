----------------------------- MODULE TaskRegistry -----------------------------
(***************************************************************************)
(* What TaskManager is for its callers: one flat table from keys to        *)
(* entries, each with the time at which it expires.  Expired entries stay  *)
(* readable until the next sweep, which takes exactly them away.           *)
(***************************************************************************)
EXTENDS Integers

CONSTANTS Keys,        \* (type, file id, sub key)
          Instances,   \* what is registered
          Lifetimes    \* the lifetimes entries are created with, in seconds

VARIABLES entries,     \* [a subset of Keys -> Entry]
          now          \* seconds

rvars == <<entries, now>>

Entry(x, expiry) == [task |-> x, expiry |-> expiry]

Expired(m) == {k \in DOMAIN m : m[k].expiry <= now}

RegistryInit == entries = [k \in {} |-> Entry(k, 0)] /\ now = 0

\* An entry is added, or replaced together with its expiry.
Put(k) == /\ \E x \in Instances, life \in Lifetimes :
                entries' = [j \in DOMAIN entries \cup {k} |->
                              IF j = k THEN Entry(x, now + life) ELSE entries[j]]
          /\ UNCHANGED now

\* An entry is taken away on demand; no other is touched.
Drop(k) == /\ entries' = [j \in DOMAIN entries \ {k} |-> entries[j]]
           /\ UNCHANGED now

\* The expired entries, all of them and no other, are taken away.
Sweep == /\ entries' = [j \in DOMAIN entries \ Expired(entries) |-> entries[j]]
         /\ UNCHANGED now

Tick == now' = now + 1 /\ UNCHANGED entries

RegistryNext == \/ \E k \in Keys : Put(k) \/ Drop(k)
                \/ Sweep
                \/ Tick

RegistrySpec == RegistryInit /\ [][RegistryNext]_rvars
===============================================================================
