---------------------------- MODULE MCConfigSync ----------------------------
(* Small instances of ConfigSync.  The requests are interchangeable. *)
EXTENDS ConfigSync, TLC

Requests == Permutations(Handler)
=============================================================================
