----------------------------- MODULE LiveConfig -----------------------------
(***************************************************************************)
(* What UpdateWAFConfig promises to whoever watches the xDS cache: the     *)
(* node's snapshot is replaced as a whole, every replacement takes the     *)
(* next version number, and nothing else changes either of them while the  *)
(* process lives.  Both are in memory: a restart empties the cache and     *)
(* counts again from zero.                                                 *)
(***************************************************************************)
EXTENDS Naturals

CONSTANTS Content, NoSnapshot

VARIABLES live, version

Init == live = NoSnapshot /\ version = 0

Publish(c) ==
  /\ live' = c
  /\ version' = version + 1

(* A push before RunXDSServer made the cache: only the counter moves. *)
PushWithoutCache ==
  /\ live = NoSnapshot
  /\ version' = version + 1
  /\ UNCHANGED live

Restart ==
  /\ live' = NoSnapshot
  /\ version' = 0

Next == (\E c \in Content : Publish(c)) \/ PushWithoutCache \/ Restart

Spec == Init /\ [][Next]_<<live, version>>
=============================================================================
