------------------------------ MODULE MCRawLinks ------------------------------
(* RawLinks on small instances. *)
EXTENDS RawLinks
===============================================================================
