-------------------------- MODULE MCConfiguration ---------------------------
(***************************************************************************)
(* Small instances of Configuration: two numbers per range of ids, two     *)
(* tables with a row or two, two goroutines of each kind.                  *)
(***************************************************************************)
EXTENDS Configuration, TLC

(* Ranges of two numbers, so that a table can outgrow its own; the code    *)
(* starts at 10001, 20001, 30001, 50001, 60001 and 70001.                  *)
ScaledIds == [blocked |-> 11, exceptions |-> 21, geo |-> 23, api |-> 25,
              bots |-> 27, indicators |-> 13]

(* A custom rule, a patch, two rules of custom_rules and a pattern. *)
SomeIds == [custom |-> {90}, cve |-> {91}, base |-> {1000, 101}, dlp |-> {92}]

(* Two rows in the table with keys; one row in the other, that changes.    *)
(* Of that one the key is what a restore leaves alone.                     *)
Ids == [t \in ByKey |-> 2] @@ [t \in ById |-> 1]
Values == [t \in ByKey |-> {1}] @@ [t \in ById |-> {1, 2}]
OneColumn == [t \in ByKey \cup ById |-> {1}]

(* Bodies whose double is less than Floor, more than Floor, more than      *)
(* MaxInt; and a body of more than MaxInt.                                 *)
BodySizes == {1, 2, 3, 6}

Interchangeable == Permutations(Key) \cup Permutations(Saver) \cup
  Permutations(Handler) \cup Permutations(Feature)
=============================================================================
