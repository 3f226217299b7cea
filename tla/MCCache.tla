------------------------------ MODULE MCCache ------------------------------
(***************************************************************************)
(* Two keys, so that a batch can have one or both; a time to live longer   *)
(* and one shorter than the cleanup interval, and items that never expire. *)
(***************************************************************************)
EXTENDS Cache

CONSTANTS k1, k2, o1, o2

MCDuration == {NoExpiration, DefaultExpiration, 1}

=============================================================================
