----------------------------- MODULE MCDetection -----------------------------
(***************************************************************************)
(* Detection on small instances.                                           *)
(***************************************************************************)
EXTENDS Detection, TLC

(* Requests: limits scaled down to a window of three requests.             *)
Mixed ==
  {[path |-> p, id |-> 0] : p \in {"login", "cart", "checkout"}} \cup
  {[path |-> "product", id |-> 1], [path |-> "product", id |-> 2],
   [path |-> "order", id |-> 1]}
Limits == [login |-> 3, voucher |-> 2, register |-> 2]

Interchangeable == Permutations(Goroutine) \cup Permutations(Address)
==============================================================================
