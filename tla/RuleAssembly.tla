---------------------------- MODULE RuleAssembly ----------------------------
(***************************************************************************)
(* The SecLang text a sync assembles (main.go 1912-2189).                  *)
(*                                                                         *)
(* Six tables are rendered into directives that the code numbers, each     *)
(* table from a first id of its own.  Custom rules, CVE patches and DLP    *)
(* patterns bring their ids with them, and custom_rules is a text in       *)
(* which an operator may write anything.  The parts are joined in a fixed  *)
(* order, and rule 1000, from which API discovery learns, is added if the  *)
(* text does not contain "id:1000".  A directive is abstracted to the row  *)
(* it comes from and to its id.  How a sync reads the tables while they    *)
(* change is the concern of ConfigSync: here they rest during a sync.      *)
(***************************************************************************)
EXTENDS Integers, FiniteSets, FiniteSetsExt, SequencesExt

CONSTANTS
  FirstId,  \* section -> id of its first directive: 10001, 20001, ...
  Gap,      \* distance between first ids: 10000 in the code
  Written,  \* section -> ids its rows may bring with them
  MaxRows   \* bound on the rows of all tables together

Numbered == {"blocked", "geo", "api", "bots", "indicators", "exceptions"}
Authored == {"custom", "cve", "base", "dlp"}

(* What becomes of a row: a directive with an id, one without (a GLOBAL    *)
(* exception), or nothing (ALLOW, an unknown action, an address that is    *)
(* neither IP nor domain).                                                 *)
Outcomes == [blocked |-> {"rule"}, api |-> {"rule"},
             geo |-> {"rule", "none"}, bots |-> {"rule", "none"},
             indicators |-> {"rule", "none"}, exceptions |-> {"rule", "plain"}]

IdAssumption ==
  /\ FirstId \in [Numbered -> Nat] /\ Gap \in Nat \ {0}
  /\ \A s, t \in Numbered :
       s # t => FirstId[s] + Gap <= FirstId[t] \/ FirstId[t] + Gap <= FirstId[s]
  /\ Written \in [Authored -> SUBSET Nat]
  /\ \A s \in Authored : IsFiniteSet(Written[s])
  /\ MaxRows \in Nat

VARIABLES
  rows,      \* outcomes of the rows of each numbered section, in query order
  authored,  \* ids in each authored section
  text       \* the directives of the last sync, <<>> if a table changed since

vars == <<rows, authored, text>>

NoId == -1
Learner == 1000
Directive == [section : Numbered \cup Authored \cup {"learner"},
              row : Nat, id : Nat \cup {NoId}]

TypeOK ==
  /\ \A s \in Numbered : rows[s] \in Seq(Outcomes[s])
  /\ \A s \in Authored : authored[s] \subseteq Written[s]
  /\ text \in Seq(Directive)

-----------------------------------------------------------------------------

(* The counter of a section moves with every row it reads; that of the     *)
(* indicators only with those that become a directive.                     *)
MovesCounter(s, outcome) == s # "indicators" \/ outcome = "rule"

(* The id of the directive made from the n-th row. *)
Number(s, n) ==
  FirstId[s] + Cardinality({m \in 1..n - 1 : MovesCounter(s, rows[s][m])})

(* What a loop over the rows of a query goes through, in their order. *)
Ordered(S) ==
  CHOOSE f \in [1..Cardinality(S) -> S] : \A i, j \in DOMAIN f : i < j => f[i] < f[j]

Rendered(s) ==
  LET asking == Ordered({n \in DOMAIN rows[s] : rows[s][n] # "none"})
  IN [i \in DOMAIN asking |->
        [section |-> s, row |-> asking[i],
         id |-> IF rows[s][asking[i]] = "rule" THEN Number(s, asking[i]) ELSE NoId]]

(* ORDER BY rule_id *)
Transcribed(s) ==
  LET ids == Ordered(authored[s])
  IN [i \in DOMAIN ids |-> [section |-> s, row |-> i, id |-> ids[i]]]

(* Fault: the indicators are fetched and not joined. *)
JoinedForgetting ==
  Rendered("blocked") \o (Rendered("geo") \o (Rendered("api") \o (Rendered("bots") \o
    (Rendered("exceptions") \o (Transcribed("custom") \o (Transcribed("cve") \o
      (Transcribed("base") \o Transcribed("dlp"))))))))

(* Every part is put before what is joined already. *)
Joined ==
  Rendered("blocked") \o (Rendered("geo") \o (Rendered("api") \o (Rendered("bots") \o
    (Rendered("indicators") \o (Rendered("exceptions") \o (Transcribed("custom") \o
      (Transcribed("cve") \o (Transcribed("base") \o Transcribed("dlp")))))))))

(* strings.Contains(fullRules, "id:1000"): the digits of an id begin so. *)
ContainsLearner(directives) ==
  \E d \in ToSet(directives), k \in {1, 10, 100} : d.id \div k = Learner

(* The text handed to UpdateWAFConfig. *)
Text ==
  IF ContainsLearner(Joined) THEN Joined
  ELSE <<[section |-> "learner", row |-> 1, id |-> Learner]>> \o Joined

-----------------------------------------------------------------------------
(* The tables before the first request: custom_rules is DefaultRuleSet.    *)
Init ==
  /\ rows = [s \in Numbered |-> <<>>]
  /\ authored = [s \in Authored |-> IF s = "base" THEN Written[s] ELSE {}]
  /\ text = <<>>

RowCount == MapThenSumSet(LAMBDA s : Len(rows[s]), Numbered)

Insert(s, outcome) ==
  /\ RowCount < MaxRows
  /\ rows' = [rows EXCEPT ![s] = Append(@, outcome)]
  /\ text' = <<>>
  /\ UNCHANGED authored

Delete(s, n) ==
  /\ rows' = [rows EXCEPT ![s] = RemoveAt(@, n)]
  /\ text' = <<>>
  /\ UNCHANGED authored

(* A custom rule is enabled or disabled, a patch or a pattern, too, and    *)
(* updateConfigHandler replaces the base.                                  *)
Author(s, ids) ==
  /\ authored' = [authored EXCEPT ![s] = ids]
  /\ text' = <<>>
  /\ UNCHANGED rows

Sync ==
  /\ text' = Text
  /\ UNCHANGED <<rows, authored>>

Next ==
  \/ \E s \in Numbered :
       \/ \E outcome \in Outcomes[s] : Insert(s, outcome)
       \/ \E n \in DOMAIN rows[s] : Delete(s, n)
  \/ \E s \in Authored : \E ids \in SUBSET Written[s] : Author(s, ids)
  \/ Sync

Spec == Init /\ [][Next]_vars

-----------------------------------------------------------------------------
Positions(s) == {i \in DOMAIN text : text[i].section = s}

(* Coraza refuses a text with two rules of one id.  While no table has     *)
(* outgrown its range the numbers never repeat, in spite of rows that take *)
(* a number and rows that do not (main.go 1927-2108).                      *)
NumbersAreDistinct ==
  (\A s \in Numbered : Len(rows[s]) <= Gap) =>
    \A s, t \in Numbered : \A i \in Positions(s), j \in Positions(t) :
      i # j /\ text[i].id = text[j].id => text[i].id = NoId

(* A synced text has one directive for every row that asks for one and for *)
(* every authored id, and no directive that no row asks for.               *)
EveryRowIsRendered ==
  text # <<>> =>
    /\ \A s \in Numbered :
         /\ {text[i].row : i \in Positions(s)} =
              {n \in DOMAIN rows[s] : rows[s][n] # "none"}
         /\ \A i, j \in Positions(s) : text[i].row = text[j].row => i = j
    /\ \A s \in Authored :
         /\ {text[i].id : i \in Positions(s)} = authored[s]
         /\ Cardinality(Positions(s)) = Cardinality(authored[s])

Before(s, t) == \A i \in Positions(s), j \in Positions(t) : i < j

(* "Assemble full rules in strict execution precedence" (main.go 2146):    *)
(* blocked addresses first, every other barrier before the exceptions,     *)
(* exceptions, custom rules and patches before the base with the core rule *)
(* set, response patterns last.                                            *)
PrecedenceHolds ==
  /\ \A s \in (Numbered \cup Authored) \ {"blocked"} : Before("blocked", s)
  /\ \A s \in {"geo", "api", "bots", "indicators"} : Before(s, "exceptions")
  /\ \A s \in {"custom", "cve"} : Before("exceptions", s) /\ Before(s, "base")
  /\ Before("exceptions", "base") /\ Before("base", "dlp")
=============================================================================
