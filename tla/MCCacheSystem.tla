----------------------------- MODULE MCCacheSystem -----------------------------
(* Small instances of CacheSystem for TLC. *)
EXTENDS CacheSystem
===============================================================================
