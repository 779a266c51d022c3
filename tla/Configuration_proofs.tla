------------------------ MODULE Configuration_proofs ------------------------
(***************************************************************************)
(* What a configuration's way to a push and into the history promises, for *)
(* any rules, features, contents and tables, any number of overlapping     *)
(* requests and savers, and any limits: the life of rules, learning, the   *)
(* history of pushed texts, backups and the text itself, each by an        *)
(* inductive invariant of its own.                                         *)
(***************************************************************************)
EXTENDS Configuration, SequenceTheorems, FiniteSetTheorems, WellFoundedInduction, TLAPS

-----------------------------------------------------------------------------
(* A component instantiates the modules it extends: its sizes of sets are  *)
(* sizes of sets.                                                          *)
LEMMA LearningCardinality ==
  \A S : /\ Learning!Cardinality(S) = Cardinality(S)
         /\ Learning!IsFiniteSet(S) <=> IsFiniteSet(S)
BY DEF Learning!Cardinality, Learning!IsFiniteSet, Cardinality, IsFiniteSet

LEMMA HistoryCardinality ==
  \A S : /\ History!Cardinality(S) = Cardinality(S)
         /\ History!IsFiniteSet(S) <=> IsFiniteSet(S)
BY DEF History!Cardinality, History!IsFiniteSet, Cardinality, IsFiniteSet

LEMMA AssemblyCardinality ==
  \A S : /\ Assembly!Cardinality(S) = Cardinality(S)
         /\ Assembly!IsFiniteSet(S) <=> IsFiniteSet(S)
BY DEF Assembly!Cardinality, Assembly!IsFiniteSet, Cardinality, IsFiniteSet

(* A request under way has a job, and one that is about to write VALIDATED *)
(* or TESTING has checked the text, which no other request can change.     *)
WritesWhatItChecked ==
  \A h \in Handler :
    /\ ruleAt[h] # "idle" => job[h] \in Rules!Job
    /\ ruleAt[h] = "update" =>
         /\ job[h].op = "validate" => job[h].rule \in compiles /\ job[h].rule \in secLang
         /\ job[h].op = "test" => job[h].rule \in compiles

Logged(r) == \E n \in DOMAIN log[r] : log[r][n].to = status[r]
ToBeLogged(r) ==
  \E h \in Handler : ruleAt[h] = "record" /\ job[h].rule = r /\ Rules!To[job[h].op] = status[r]

(* The entry that accounts for a status is written or about to be, or it   *)
(* failed: StatusIsAudited at every moment, and not only at rest.          *)
StatusIsAccounted ==
  \A r \in Rule \ Seeded : Rules!Exists(r) /\ r \notin missed => Logged(r) \/ ToBeLogged(r)

RuleInv == Rules!TypeOK /\ WritesWhatItChecked /\ Rules!ValidatedTextIsSound /\ StatusIsAccounted

LEMMA StatusOfOperation ==
  ASSUME NEW op \in Rules!Operation
  PROVE  /\ Rules!To[op] \in Rules!Status
         /\ Rules!To[op] = "VALIDATED" => op = "validate"
         /\ Rules!To[op] = "TESTING" => op = "test"
BY DEF Rules!Operation, Rules!To, Rules!Status

LEMMA RuleInit ==
  ASSUME Rules!BoundAssumption, Rules!Init PROVE RuleInv
<1>1. Rules!TypeOK
  <2>1. log \in [Rule -> Seq(Rules!Entry)]
    BY EmptySeq DEF Rules!Init
  <2> QED
    BY <2>1 DEF Rules!BoundAssumption, Rules!Init, Rules!TypeOK, Rules!Status
<1>2. WritesWhatItChecked /\ Rules!ValidatedTextIsSound /\ StatusIsAccounted
  BY
  DEF Rules!Init, Rules!BoundAssumption, WritesWhatItChecked, Rules!ValidatedTextIsSound,
      StatusIsAccounted, Rules!Exists
<1> QED
  BY <1>1, <1>2 DEF RuleInv

(* A request starts with the job it was sent. *)
LEMMA RequestStarts ==
  ASSUME Rules!TypeOK, NEW h \in Handler, NEW op \in Rules!Operation, NEW r \in Rule,
         NEW stmt \in {"update", "record"}, Rules!Start(h, op, r, stmt)
  PROVE  /\ job' \in [Handler -> Rules!Job \cup {Nothing}]
         /\ ruleAt' \in [Handler -> {"idle", "update", "record"}]
         /\ ruleAt[h] = "idle" /\ ruleAt'[h] = stmt
         /\ job'[h] = [op |-> op, rule |-> r]
         /\ job'[h] \in Rules!Job
         /\ \A g \in Handler \ {h} : ruleAt'[g] = ruleAt[g] /\ job'[g] = job[g]
BY DEF Rules!Start, Rules!TypeOK, Rules!Job

(* A request that moves on writes no status any more. *)
LEMMA RequestMovesOn ==
  ASSUME Rules!TypeOK, NEW h \in Handler, NEW stmt \in {"idle", "record"}, Rules!Then(h, stmt)
  PROVE  /\ job' \in [Handler -> Rules!Job \cup {Nothing}]
         /\ ruleAt' \in [Handler -> {"idle", "update", "record"}]
         /\ ruleAt'[h] = stmt
         /\ stmt = "record" => job'[h] = job[h]
         /\ \A g \in Handler \ {h} : ruleAt'[g] = ruleAt[g] /\ job'[g] = job[g]
BY DEF Rules!Then, Rules!TypeOK

(* What requests other than the one that moves have checked stays checked. *)
LEMMA CheckedKeeps ==
  ASSUME WritesWhatItChecked, NEW h \in Handler,
         \A g \in Handler \ {h} : ruleAt'[g] = ruleAt[g] /\ job'[g] = job[g],
         ruleAt'[h] = "idle" \/ (ruleAt'[h] = "record" /\ job'[h] \in Rules!Job),
         compiles \subseteq compiles', secLang \subseteq secLang'
  PROVE  WritesWhatItChecked'
BY DEF WritesWhatItChecked

LEMMA DraftKeeps ==
  ASSUME RuleInv, NEW h \in Handler, NEW r \in Rule, NEW act \in {"BLOCK", "MONITOR"},
         NEW words \in SUBSET {"regex", "SecRule"}, Rules!Draft(h, r, act, words)
  PROVE  RuleInv'
<1>0. Rules!TypeOK /\ WritesWhatItChecked /\ Rules!ValidatedTextIsSound /\ StatusIsAccounted
  BY DEF RuleInv
<1>1. Rules!Start(h, "draft", r, "record") /\ "draft" \in Rules!Operation
  BY DEF Rules!Draft, Rules!Operation
<1>2. /\ status' = [status EXCEPT ![r] = "DRAFT"]
      /\ action' = [action EXCEPT ![r] = act]
      /\ compiles \subseteq compiles' /\ compiles' \subseteq compiles \cup {r}
      /\ secLang \subseteq secLang' /\ secLang' \subseteq secLang \cup {r}
      /\ UNCHANGED <<approved, log, missed, ruleFaults>>
  BY DEF Rules!Draft
<1>3. /\ job' \in [Handler -> Rules!Job \cup {Nothing}]
      /\ ruleAt' \in [Handler -> {"idle", "update", "record"}]
      /\ ruleAt[h] = "idle" /\ ruleAt'[h] = "record"
      /\ job'[h] = [op |-> "draft", rule |-> r] /\ job'[h] \in Rules!Job
      /\ \A g \in Handler \ {h} : ruleAt'[g] = ruleAt[g] /\ job'[g] = job[g]
  BY <1>0, <1>1, RequestStarts
<1>4. Rules!TypeOK'
  BY <1>0, <1>2, <1>3 DEF Rules!TypeOK, Rules!Status
<1>5. WritesWhatItChecked'
  BY <1>0, <1>2, <1>3, CheckedKeeps
<1>6. Rules!ValidatedTextIsSound'
  BY <1>0, <1>2 DEF Rules!TypeOK, Rules!ValidatedTextIsSound
<1>7. StatusIsAccounted'
  <2> SUFFICES ASSUME NEW s \in Rule \ Seeded, Rules!Exists(s)', s \notin missed
               PROVE  Logged(s)' \/ ToBeLogged(s)'
    BY <1>2 DEF StatusIsAccounted
  <2>1. CASE s = r
    <3>1. Rules!To["draft"] = "DRAFT" /\ status'[r] = "DRAFT"
      BY <1>0, <1>2 DEF Rules!To, Rules!TypeOK
    <3>2. job'[h].op = "draft" /\ job'[h].rule = r
      BY <1>3
    <3> QED
      BY <1>3, <2>1, <3>1, <3>2 DEF ToBeLogged
  <2>2. CASE s # r
    <3>1. status'[s] = status[s]
      BY <1>0, <1>2, <2>2 DEF Rules!TypeOK
    <3>2. Rules!Exists(s)
      BY <3>1 DEF Rules!Exists
    <3>3. Logged(s) => Logged(s)'
      BY <1>2, <3>1 DEF Logged
    <3>4. ToBeLogged(s) => ToBeLogged(s)'
      BY <1>3, <3>1 DEF ToBeLogged
    <3> QED
      BY <1>0, <3>2, <3>3, <3>4 DEF StatusIsAccounted
  <2> QED
    BY <2>1, <2>2
<1> QED
  BY <1>4, <1>5, <1>6, <1>7 DEF RuleInv

LEMMA RequestKeeps ==
  ASSUME RuleInv, NEW h \in Handler, NEW op \in Rules!Operation, NEW r \in Rule,
           Rules!Request(h, op, r)
  PROVE  RuleInv'
<1>0. Rules!TypeOK /\ WritesWhatItChecked /\ Rules!ValidatedTextIsSound /\ StatusIsAccounted
  BY DEF RuleInv
<1>1. Rules!Start(h, op, r, "update") /\ Rules!Accepts(op, r)
  BY DEF Rules!Request
<1>2. UNCHANGED <<status, action, approved, compiles, secLang, log, missed, ruleFaults>>
  BY DEF Rules!Request, Rules!rule
<1>3. /\ job' \in [Handler -> Rules!Job \cup {Nothing}]
      /\ ruleAt' \in [Handler -> {"idle", "update", "record"}]
      /\ ruleAt[h] = "idle" /\ ruleAt'[h] = "update"
      /\ job'[h] = [op |-> op, rule |-> r] /\ job'[h] \in Rules!Job
      /\ \A g \in Handler \ {h} : ruleAt'[g] = ruleAt[g] /\ job'[g] = job[g]
  BY <1>0, <1>1, RequestStarts
<1>4. Rules!TypeOK'
  BY <1>0, <1>2, <1>3 DEF Rules!TypeOK
<1>5. WritesWhatItChecked'
  <2>1. /\ op = "validate" => r \in compiles /\ r \in secLang
        /\ op = "test" => r \in compiles
    BY <1>1 DEF Rules!Accepts
  <2>2. job'[h].op = op /\ job'[h].rule = r
    BY <1>3
  <2> QED
    BY <1>0, <1>2, <1>3, <2>1, <2>2 DEF WritesWhatItChecked
<1>6. Rules!ValidatedTextIsSound'
  BY <1>0, <1>2 DEF Rules!ValidatedTextIsSound
<1>7. StatusIsAccounted'
  BY <1>0, <1>2, <1>3 DEF StatusIsAccounted, Rules!Exists, Logged, ToBeLogged
<1> QED
  BY <1>4, <1>5, <1>6, <1>7 DEF RuleInv

LEMMA UpdateKeeps ==
  ASSUME RuleInv, NEW h \in Handler, Rules!Update(h) PROVE RuleInv'
<1>0. Rules!TypeOK /\ WritesWhatItChecked /\ Rules!ValidatedTextIsSound /\ StatusIsAccounted
  BY DEF RuleInv
<1>1. PICK r, op : r = job[h].rule /\ op = job[h].op
  OBVIOUS
<1>2. /\ ruleAt[h] = "update"
      /\ status' = [status EXCEPT ![r] = IF Rules!Exists(r) THEN Rules!To[op] ELSE @]
      /\ Rules!Then(h, "record")
      /\ UNCHANGED <<compiles, secLang, log, missed, ruleFaults>>
  BY <1>1 DEF Rules!Update
<1>3. /\ job[h] \in Rules!Job /\ r \in Rule /\ op \in Rules!Operation
      /\ op = "validate" => r \in compiles /\ r \in secLang
      /\ op = "test" => r \in compiles
  BY <1>0, <1>1, <1>2 DEF WritesWhatItChecked, Rules!Job
<1>4. /\ job' \in [Handler -> Rules!Job \cup {Nothing}]
      /\ ruleAt' \in [Handler -> {"idle", "update", "record"}]
      /\ ruleAt'[h] = "record" /\ job'[h] = job[h]
      /\ \A g \in Handler \ {h} : ruleAt'[g] = ruleAt[g] /\ job'[g] = job[g]
  BY <1>0, <1>2, RequestMovesOn
<1>5. /\ status'[r] = IF Rules!Exists(r) THEN Rules!To[op] ELSE status[r]
      /\ \A s \in Rule \ {r} : status'[s] = status[s]
      /\ status' \in [Rule -> Rules!Status]
  BY <1>0, <1>2, <1>3, StatusOfOperation DEF Rules!TypeOK
<1>6. /\ approved' \subseteq Rule
      /\ action' \in [Rule -> {"BLOCK", "MONITOR"}]
  <2>1. approved' = IF op = "approve" THEN approved \cup {r} ELSE approved
    BY <1>1 DEF Rules!Update
  <2>2. \/ action' = [action EXCEPT ![r] = "MONITOR"]
        \/ action' = [action EXCEPT ![r] = "BLOCK"]
        \/ action' = action
    BY <1>1 DEF Rules!Update
  <2> QED
    BY <1>0, <1>3, <2>1, <2>2 DEF Rules!TypeOK
<1>7. Rules!TypeOK'
  BY <1>0, <1>2, <1>4, <1>5, <1>6 DEF Rules!TypeOK
<1>8. WritesWhatItChecked'
  BY <1>0, <1>2, <1>3, <1>4, CheckedKeeps
<1>9. Rules!ValidatedTextIsSound'
  BY <1>0, <1>2, <1>3, <1>5, StatusOfOperation DEF Rules!ValidatedTextIsSound
<1>10. StatusIsAccounted'
  <2> SUFFICES ASSUME NEW s \in Rule \ Seeded, Rules!Exists(s)', s \notin missed
               PROVE  Logged(s)' \/ ToBeLogged(s)'
    BY <1>2 DEF StatusIsAccounted
  <2>1. CASE s = r
    <3>1. Rules!Exists(r)
      BY <1>5, <2>1 DEF Rules!Exists
    <3> QED
      BY <1>1, <1>4, <1>5, <2>1, <3>1 DEF ToBeLogged
  <2>2. CASE s # r
    <3>1. status'[s] = status[s]
      BY <1>5, <2>2
    <3>2. Rules!Exists(s)
      BY <3>1 DEF Rules!Exists
    <3>3. Logged(s) => Logged(s)'
      BY <1>2, <3>1 DEF Logged
    <3>4. ToBeLogged(s) => ToBeLogged(s)'
      BY <1>2, <1>4, <3>1 DEF ToBeLogged
    <3> QED
      BY <1>0, <3>2, <3>3, <3>4 DEF StatusIsAccounted
  <2> QED
    BY <2>1, <2>2
<1> QED
  BY <1>7, <1>8, <1>9, <1>10 DEF RuleInv

LEMMA RecordKeeps ==
  ASSUME RuleInv, NEW h \in Handler, Rules!Record(h) PROVE RuleInv'
<1>0. Rules!TypeOK /\ WritesWhatItChecked /\ Rules!ValidatedTextIsSound /\ StatusIsAccounted
  BY DEF RuleInv
<1>1. PICK r, entry : r = job[h].rule /\
             entry = [from |-> Rules!From[job[h].op], to |-> Rules!To[job[h].op]]
  OBVIOUS
<1>2. /\ ruleAt[h] = "record" /\ Rules!Then(h, "idle")
      /\ log' = [log EXCEPT ![r] = Append(@, entry)]
      /\ UNCHANGED <<status, action, approved, compiles, secLang, missed, ruleFaults>>
  BY <1>1 DEF Rules!Record, Rules!rule
<1>3. job[h] \in Rules!Job /\ r \in Rule /\ entry \in Rules!Entry /\ entry.to = Rules!To[job[h].op]
  <2>1. job[h] \in Rules!Job
    BY <1>0, <1>2 DEF WritesWhatItChecked
  <2>2. job[h].op \in Rules!Operation /\ job[h].rule \in Rule
    BY <2>1 DEF Rules!Job
  <2>3. Rules!From[job[h].op] \in Rules!Status /\ Rules!To[job[h].op] \in Rules!Status
    BY <2>2 DEF Rules!From, Rules!To, Rules!Operation, Rules!Status
  <2> QED
    BY <1>1, <2>1, <2>2, <2>3 DEF Rules!Entry
<1>4. /\ job' \in [Handler -> Rules!Job \cup {Nothing}]
      /\ ruleAt' \in [Handler -> {"idle", "update", "record"}]
      /\ ruleAt'[h] = "idle"
      /\ \A g \in Handler \ {h} : ruleAt'[g] = ruleAt[g] /\ job'[g] = job[g]
  BY <1>0, <1>2, RequestMovesOn
<1>5. log[r] \in Seq(Rules!Entry)
  BY <1>0, <1>3 DEF Rules!TypeOK
<1>6. /\ log'[r] = Append(log[r], entry) /\ log'[r] \in Seq(Rules!Entry)
      /\ Len(log'[r]) = Len(log[r]) + 1
      /\ log'[r][Len(log[r]) + 1] = entry
      /\ \A n \in 1..Len(log[r]) : log'[r][n] = log[r][n]
  <2>1. log'[r] = Append(log[r], entry)
    BY <1>0, <1>2, <1>3 DEF Rules!TypeOK
  <2> QED
    BY <1>3, <1>5, <2>1, AppendProperties
<1>10. \A s \in Rule \ {r} : log'[s] = log[s]
  BY <1>0, <1>2 DEF Rules!TypeOK
<1>9. Rules!TypeOK'
  <2>1. log' \in [Rule -> Seq(Rules!Entry)]
    BY <1>0, <1>2, <1>6 DEF Rules!TypeOK
  <2> QED
    BY <1>0, <1>2, <1>4, <2>1 DEF Rules!TypeOK
<1>7. WritesWhatItChecked' /\ Rules!ValidatedTextIsSound'
  BY <1>0, <1>2, <1>4, CheckedKeeps DEF Rules!ValidatedTextIsSound
<1>8. StatusIsAccounted'
  <2> SUFFICES ASSUME NEW s \in Rule \ Seeded, Rules!Exists(s), s \notin missed
               PROVE  Logged(s)' \/ ToBeLogged(s)'
    BY <1>2 DEF StatusIsAccounted, Rules!Exists
  <2>0. DOMAIN log[r] = 1..Len(log[r]) /\ DOMAIN log'[r] = 1..(Len(log[r]) + 1)
        /\ Len(log[r]) \in Nat
    BY <1>5, <1>6, LenProperties
  <2>1. Logged(s) => Logged(s)'
    <3>1. CASE s = r
      BY <1>2, <1>6, <2>0, <3>1 DEF Logged
    <3>2. CASE s # r
      BY <1>2, <1>10, <3>2 DEF Logged
    <3> QED
      BY <3>1, <3>2
  <2>2. ToBeLogged(s) => Logged(s)' \/ ToBeLogged(s)'
    <3> SUFFICES ASSUME NEW g \in Handler, ruleAt[g] = "record", job[g].rule = s,
                        Rules!To[job[g].op] = status[s]
                 PROVE  Logged(s)' \/ ToBeLogged(s)'
      BY DEF ToBeLogged
    <3>1. CASE g = h
      <4>1. Len(log[r]) + 1 \in DOMAIN log'[s] /\ log'[s][Len(log[r]) + 1].to = status'[s]
        BY <1>1, <1>2, <1>3, <1>6, <2>0, <3>1
      <4> QED
        BY <4>1 DEF Logged
    <3>2. CASE g # h
      BY <1>2, <1>4, <3>2 DEF ToBeLogged
    <3> QED
      BY <3>1, <3>2
  <2> QED
    BY <1>0, <2>1, <2>2 DEF StatusIsAccounted
<1> QED
  BY <1>9, <1>7, <1>8 DEF RuleInv

(* A request whose statement failed leaves the rule as it is, and is        *)
(* over, or goes on to its entry.                                          *)
LEMMA FailureKeeps ==
  ASSUME Rules!BoundAssumption, RuleInv, NEW h \in Handler, Rules!StatementFails(h) PROVE RuleInv'
<1>0. Rules!TypeOK /\ WritesWhatItChecked /\ Rules!ValidatedTextIsSound /\ StatusIsAccounted
  BY DEF RuleInv
<1>1. PICK stmt \in {"idle", "record"} :
             Rules!Then(h, stmt) /\ (ruleAt[h] = "record" => stmt = "idle")
  BY DEF Rules!StatementFails
<1>2. /\ ruleAt[h] # "idle"
      /\ missed' = IF ruleAt[h] = "record" THEN missed \cup {job[h].rule} ELSE missed
      /\ UNCHANGED <<status, action, approved, compiles, secLang, log>>
      /\ ruleFaults < MaxFaults /\ ruleFaults' = ruleFaults + 1
  BY DEF Rules!StatementFails, Rules!rule
<1>3. job[h] \in Rules!Job /\ job[h].rule \in Rule
  BY <1>0, <1>2 DEF WritesWhatItChecked, Rules!Job
<1>4. /\ job' \in [Handler -> Rules!Job \cup {Nothing}]
      /\ ruleAt' \in [Handler -> {"idle", "update", "record"}]
      /\ ruleAt'[h] = stmt /\ (stmt = "record" => job'[h] = job[h])
      /\ \A g \in Handler \ {h} : ruleAt'[g] = ruleAt[g] /\ job'[g] = job[g]
  BY <1>0, <1>1, RequestMovesOn
<1>5. ruleFaults' \in 0..MaxFaults
  BY <1>0, <1>2 DEF Rules!TypeOK, Rules!BoundAssumption
<1>6. Rules!TypeOK'
  BY <1>0, <1>2, <1>3, <1>4, <1>5 DEF Rules!TypeOK
<1>7. WritesWhatItChecked' /\ Rules!ValidatedTextIsSound'
  BY <1>0, <1>1, <1>2, <1>3, <1>4, CheckedKeeps DEF Rules!ValidatedTextIsSound
<1>8. StatusIsAccounted'
  <2> SUFFICES ASSUME NEW s \in Rule \ Seeded, Rules!Exists(s), s \notin missed'
               PROVE  Logged(s)' \/ ToBeLogged(s)'
    BY <1>2 DEF StatusIsAccounted, Rules!Exists
  <2>1. Logged(s) => Logged(s)'
    BY <1>2 DEF Logged
  <2>2. ToBeLogged(s) => ToBeLogged(s)'
    BY <1>2, <1>4 DEF ToBeLogged
  <2>3. s \notin missed
    BY <1>2
  <2> QED
    BY <1>0, <2>1, <2>2, <2>3 DEF StatusIsAccounted
<1> QED
  BY <1>6, <1>7, <1>8 DEF RuleInv

LEMMA RuleStep ==
  ASSUME Rules!BoundAssumption PROVE RuleInv /\ [Rules!Next]_(Rules!vars) => RuleInv'
<1> SUFFICES ASSUME RuleInv, [Rules!Next]_(Rules!vars) PROVE RuleInv'
  OBVIOUS
<1>1. CASE UNCHANGED Rules!vars
  <2>1. UNCHANGED <<status, action, approved, compiles, secLang, log, ruleAt, job, missed,
          ruleFaults>>
    BY <1>1 DEF Rules!vars, Rules!rule
  <2> QED
    BY <2>1
    DEF RuleInv, Rules!TypeOK, WritesWhatItChecked, Rules!ValidatedTextIsSound, StatusIsAccounted,
                Rules!Exists, Logged, ToBeLogged
<1> QED
  BY <1>1, DraftKeeps, RequestKeeps, UpdateKeeps, RecordKeeps, FailureKeeps DEF Rules!Next

(* At rest no entry is pending. *)
LEMMA AccountedIsAudited == RuleInv => Rules!StatusIsAudited
BY DEF RuleInv, StatusIsAccounted, Rules!StatusIsAudited, Rules!Busy, Logged, ToBeLogged

-----------------------------------------------------------------------------
(* Learning.  A request that has begun and not yet written its observation *)
(* or its policy.                                                          *)
Unwritten == {h \in Handler : learnAt[h] \in {"merge", "insert"}}

(* Every observation and every policy was begun: the counters stay within  *)
(* their bounds however requests overlap.                                  *)
RequestsAreCounted ==
  /\ total \in Nat /\ IsFiniteSet(policies)
  /\ total + Cardinality(policies) + Cardinality(Unwritten) <= begun

(* Without overlap the request that is to write its observation is the     *)
(* only such one and has read the profile as it is.                        *)
ReadIsCurrent ==
  ~overtaken =>
    /\ \A g, h \in Handler : learnAt[g] = "merge" /\ learnAt[h] = "merge" => g = h
    /\ \A h \in Handler : learnAt[h] = "merge" => known[h] = seen
    /\ Learning!Within(observed, seen)

LearningInv == Learning!TypeOK /\ RequestsAreCounted /\ Learning!OnlyObservedIsAllowed /\
  ReadIsCurrent

(* Pieces of what was learnt are ordered, their join is above both, and a  *)
(* larger body allows a larger limit.                                      *)
LEMMA BlankLearnt == ASSUME Learning!BoundAssumption PROVE Learning!Blank \in Learning!Learnt
BY LearningCardinality DEF Learning!Blank, Learning!Learnt, Learning!BoundAssumption

LEMMA WithinOrder ==
  /\ \A a \in Learning!Learnt : Learning!Within(Learning!Blank, a) /\ Learning!Within(a, a)
  /\ \A a, b, c \in Learning!Learnt : Learning!Within(a, b) /\ Learning!Within(b, c) =>
       Learning!Within(a, c)
BY DEF Learning!Within, Learning!Blank, Learning!Learnt

LEMMA JoinAbove ==
  ASSUME Learning!BoundAssumption, NEW a \in Learning!Learnt,
           NEW b \in Learning!Observation \cup {Learning!Blank},
         Learning!Join(a, b).size <= MaxInt
  PROVE  /\ Learning!Join(a, b) \in Learning!Learnt
         /\ b \in Learning!Learnt
         /\ Learning!Within(a, Learning!Join(a, b)) /\ Learning!Within(b, Learning!Join(a, b))
<1>1. /\ b.features \subseteq Feature /\ b.size \in Nat
      /\ b = [features |-> b.features, size |-> b.size]
  <2>1. CASE b \in Learning!Observation
    BY <2>1, LearningCardinality DEF Learning!Observation, Learning!BoundAssumption
  <2>2. CASE b = Learning!Blank
    BY <2>2 DEF Learning!Blank
  <2> QED
    BY <2>1, <2>2
<1>2. /\ a.features \subseteq Feature /\ a.size \in 0..MaxInt /\ MaxInt \in Nat
  BY LearningCardinality DEF Learning!Learnt, Learning!BoundAssumption
<1>3. b.size <= MaxInt
  BY <1>1, <1>2 DEF Learning!Join
<1>4. b \in Learning!Learnt
  BY <1>1, <1>2, <1>3 DEF Learning!Learnt
<1> QED
  BY <1>1, <1>2, <1>3, <1>4 DEF Learning!Join, Learning!Learnt, Learning!Within

LEMMA JoinMonotone ==
  ASSUME NEW a \in Learning!Learnt, NEW b \in Learning!Learnt, NEW c \in Learning!Learnt,
           Learning!Within(a, b)
  PROVE  Learning!Within(Learning!Join(a, c), Learning!Join(b, c)) /\
           Learning!Join(b, c) \in Learning!Learnt
BY DEF Learning!Learnt, Learning!Within, Learning!Join

LEMMA LimitMonotone ==
  ASSUME Learning!BoundAssumption, NEW a \in Learning!Learnt, NEW b \in Learning!Learnt,
           Learning!Within(a, b)
  PROVE  Learning!LimitFor(a.size) <= Learning!LimitFor(b.size) /\
           Learning!LimitFor(a.size) \in Nat /\ Learning!LimitFor(b.size) \in Nat
BY LearningCardinality
DEF Learning!Learnt, Learning!Within, Learning!LimitFor, Learning!BoundAssumption

LEMMA UnwrittenFinite ==
  ASSUME Learning!BoundAssumption
  PROVE  IsFiniteSet(Unwritten) /\ Cardinality(Unwritten) \in Nat
<1>1. IsFiniteSet(Handler) /\ Unwritten \in SUBSET Handler
  BY LearningCardinality DEF Learning!BoundAssumption, Unwritten
<1>2. IsFiniteSet(Unwritten)
  BY <1>1, FS_Subset
<1> QED
  BY <1>2, FS_CardinalityType

LEMMA PoliciesCounted ==
  ASSUME RequestsAreCounted
  PROVE  Cardinality(policies) \in Nat
<1>1. IsFiniteSet(policies)
  BY DEF RequestsAreCounted
<1> QED
  BY <1>1, FS_CardinalityType

LEMMA LearningInit ==
  ASSUME Learning!BoundAssumption, Learning!Init PROVE LearningInv
<1>1. Unwritten = {} /\ policies = {} /\ total = 0 /\ begun = 0
  BY DEF Learning!Init, Unwritten
<1>2. RequestsAreCounted
  BY <1>1, FS_EmptySet DEF RequestsAreCounted
<1>3. Learning!TypeOK
  <2>1. total \in 0..MaxRequests /\ begun \in 0..MaxRequests /\ learnFaults \in 0..MaxFaults
    BY LearningCardinality DEF Learning!Init, Learning!BoundAssumption
  <2>2. learnAt \in [Handler -> {"idle", "merge", "insert", "ready", "enforce"}]
    BY DEF Learning!Init
  <2>3. known \in [Handler -> Learning!Learnt] /\
          shown \in [Handler -> Learning!Observation \cup {Learning!Blank}]
    BY BlankLearnt DEF Learning!Init
  <2> QED
    BY <2>1, <2>2, <2>3, BlankLearnt DEF Learning!Init, Learning!TypeOK
<1>4. Learning!OnlyObservedIsAllowed /\ ReadIsCurrent
  BY BlankLearnt, WithinOrder DEF Learning!Init, Learning!OnlyObservedIsAllowed, ReadIsCurrent
<1> QED
  BY <1>2, <1>3, <1>4 DEF LearningInv

(* A request that moves on keeps what it read and what it was shown, or    *)
(* forgets both.                                                           *)
LEMMA LearningMovesOn ==
  ASSUME Learning!BoundAssumption, Learning!TypeOK, NEW h \in Handler, NEW stmt \in {"idle",
           "ready", "enforce"}, Learning!Goto(h, stmt)
  PROVE  /\ learnAt' \in [Handler -> {"idle", "merge", "insert", "ready", "enforce"}]
         /\ known' \in [Handler -> Learning!Learnt]
         /\ shown' \in [Handler -> Learning!Observation \cup {Learning!Blank}]
         /\ \A g \in Handler : known'[g] = known[g] \/ known'[g] = Learning!Blank
         /\ learnAt'[h] = stmt
         /\ \A g \in Handler \ {h} : learnAt'[g] = learnAt[g] /\ known'[g] = known[g]
         /\ Unwritten' = Unwritten \ {h}
<1>1. /\ learnAt' = [learnAt EXCEPT ![h] = stmt]
      /\ known' = [known EXCEPT ![h] = IF stmt = "idle" THEN Learning!Blank ELSE @]
      /\ shown' = [shown EXCEPT ![h] = IF stmt = "idle" THEN Learning!Blank ELSE @]
  BY DEF Learning!Goto
<1>2. /\ learnAt' \in [Handler -> {"idle", "merge", "insert", "ready", "enforce"}]
      /\ known' \in [Handler -> Learning!Learnt]
      /\ shown' \in [Handler -> Learning!Observation \cup {Learning!Blank}]
  BY <1>1, BlankLearnt DEF Learning!TypeOK
<1>3. /\ \A g \in Handler : known'[g] = known[g] \/ known'[g] = Learning!Blank
      /\ learnAt'[h] = stmt
      /\ \A g \in Handler \ {h} : learnAt'[g] = learnAt[g] /\ known'[g] = known[g]
  BY <1>1 DEF Learning!TypeOK
<1> QED
  BY <1>2, <1>3 DEF Unwritten

(* Reading the profile gives a request only what is in the profile. *)
LEMMA LearningBegins ==
  ASSUME Learning!BoundAssumption, LearningInv, NEW h \in Handler, NEW stmt \in {"merge", "insert"},
         NEW observation \in Learning!Observation \cup {Learning!Blank},
           Learning!Begin(h, stmt, observation)
  PROVE  LearningInv'
<1>0. Learning!TypeOK /\ RequestsAreCounted /\ Learning!OnlyObservedIsAllowed /\ ReadIsCurrent
  BY DEF LearningInv
<1>1. /\ learnAt[h] = "idle" /\ begun < MaxRequests /\ begun' = begun + 1
      /\ learnAt' = [learnAt EXCEPT ![h] = stmt]
      /\ known' = [known EXCEPT ![h] = seen]
      /\ shown' = [shown EXCEPT ![h] = observation]
      /\ overtaken' = (overtaken \/ \E g \in Handler : learnAt[g] # "idle")
      /\ UNCHANGED <<profile, seen, total, policies, observed, learnFaults>>
  BY DEF Learning!Begin, Learning!profile
<1>2. Learning!TypeOK'
  <2>1. begun' \in 0..MaxRequests
    BY <1>0, <1>1, LearningCardinality DEF Learning!TypeOK, Learning!BoundAssumption
  <2>2. overtaken' \in BOOLEAN
    BY <1>1
  <2> QED
    BY <1>0, <1>1, <2>1, <2>2 DEF Learning!TypeOK
<1>3. /\ learnAt'[h] = stmt /\ known'[h] = seen
      /\ \A g \in Handler \ {h} : learnAt'[g] = learnAt[g] /\ known'[g] = known[g]
  BY <1>0, <1>1 DEF Learning!TypeOK
<1>4. RequestsAreCounted'
  <2>1. Unwritten' = Unwritten \cup {h} /\ h \notin Unwritten
    BY <1>1, <1>3 DEF Unwritten
  <2>2. IsFiniteSet(Unwritten) /\ Cardinality(Unwritten) \in Nat
    BY UnwrittenFinite
  <2>3. Cardinality(Unwritten') = Cardinality(Unwritten) + 1
    BY <2>1, <2>2, FS_AddElement
  <2>4. Cardinality(policies) \in Nat /\ begun \in Nat
    BY <1>0, PoliciesCounted DEF Learning!TypeOK
  <2> QED
    BY <1>0, <1>1, <2>2, <2>3, <2>4 DEF RequestsAreCounted
<1>5. Learning!OnlyObservedIsAllowed'
  BY <1>0, <1>1, <1>3 DEF Learning!OnlyObservedIsAllowed
<1>6. ReadIsCurrent'
  <2> SUFFICES ASSUME ~overtaken' PROVE ReadIsCurrent'
    BY DEF ReadIsCurrent
  <2>1. ~overtaken /\ \A g \in Handler : learnAt[g] = "idle"
    BY <1>1
  <2>2. \A g \in Handler \ {h} : learnAt'[g] = "idle"
    BY <1>3, <2>1
  <2>3. Learning!Within(observed', seen') /\ known'[h] = seen'
    BY <1>0, <1>1, <1>3, <2>1 DEF ReadIsCurrent
  <2> QED
    BY <2>2, <2>3 DEF ReadIsCurrent
<1> QED
  BY <1>2, <1>4, <1>5, <1>6 DEF LearningInv

(* A step that changes at most the status of the profile and moves on. *)
LEMMA QuietKeeps ==
  ASSUME Learning!BoundAssumption, LearningInv, NEW h \in Handler,
         NEW stmt \in {"idle", "ready", "enforce"}, Learning!Goto(h, stmt),
         profile' \in {"NONE", "LEARNING", "READY_FOR_REVIEW", "ENFORCED"},
         learnFaults' \in 0..MaxFaults,
         UNCHANGED <<seen, total, policies, observed, begun, overtaken>>
  PROVE  LearningInv'
<1>0. Learning!TypeOK /\ RequestsAreCounted /\ Learning!OnlyObservedIsAllowed /\ ReadIsCurrent
  BY DEF LearningInv
<1>1. /\ learnAt' \in [Handler -> {"idle", "merge", "insert", "ready", "enforce"}]
      /\ known' \in [Handler -> Learning!Learnt]
      /\ shown' \in [Handler -> Learning!Observation \cup {Learning!Blank}]
      /\ \A g \in Handler : known'[g] = known[g] \/ known'[g] = Learning!Blank
      /\ learnAt'[h] = stmt
      /\ \A g \in Handler \ {h} : learnAt'[g] = learnAt[g] /\ known'[g] = known[g]
      /\ Unwritten' = Unwritten \ {h}
  BY <1>0, LearningMovesOn
<1>2. Learning!TypeOK'
  BY <1>0, <1>1 DEF Learning!TypeOK
<1>3. RequestsAreCounted'
  <2>1. IsFiniteSet(Unwritten) /\ Cardinality(Unwritten) \in Nat
    BY UnwrittenFinite
  <2>2. Unwritten' \in SUBSET Unwritten
    BY <1>1
  <2>3. IsFiniteSet(Unwritten') /\ Cardinality(Unwritten') <= Cardinality(Unwritten)
    BY <2>1, <2>2, FS_Subset
  <2>4. Cardinality(Unwritten') \in Nat
    BY <2>3, FS_CardinalityType
  <2>5. Cardinality(policies) \in Nat /\ begun \in Nat
    BY <1>0, PoliciesCounted DEF Learning!TypeOK
  <2> QED
    BY <1>0, <2>1, <2>3, <2>4, <2>5 DEF RequestsAreCounted
<1>4. Learning!OnlyObservedIsAllowed'
  <2>1. \A g \in Handler : Learning!Within(known'[g], observed)
    BY <1>0, <1>1, WithinOrder DEF Learning!OnlyObservedIsAllowed, Learning!TypeOK
  <2> QED
    BY <1>0, <2>1 DEF Learning!OnlyObservedIsAllowed
<1>5. ReadIsCurrent'
  <2> SUFFICES ASSUME ~overtaken PROVE ReadIsCurrent'
    BY DEF ReadIsCurrent
  <2>1. \A g \in Handler : learnAt'[g] = "merge" => learnAt[g] = "merge"
    BY <1>0, <1>1 DEF Learning!TypeOK
  <2>2. \A g \in Handler : learnAt'[g] = "merge" => g # h
    BY <1>1
  <2> QED
    BY <1>0, <1>1, <2>1, <2>2 DEF ReadIsCurrent
<1> QED
  BY <1>2, <1>3, <1>4, <1>5 DEF LearningInv

LEMMA MergeKeeps ==
  ASSUME Learning!BoundAssumption, LearningInv, NEW h \in Handler,
           Learning!Merge(h) PROVE LearningInv'
<1>0. Learning!TypeOK /\ RequestsAreCounted /\ Learning!OnlyObservedIsAllowed /\ ReadIsCurrent
  BY DEF LearningInv
<1>1. /\ learnAt[h] = "merge" /\ Learning!Goto(h, "idle")
      /\ Learning!Join(known[h], shown[h]).size <= MaxInt
      /\ seen' = Learning!Join(known[h], shown[h])
      /\ total' = total + 1
      /\ observed' = Learning!Join(observed, shown[h])
      /\ UNCHANGED <<profile, policies, begun, overtaken, learnFaults>>
  BY DEF Learning!Merge, Learning!MergedFits
<1>2. /\ learnAt' \in [Handler -> {"idle", "merge", "insert", "ready", "enforce"}]
      /\ known' \in [Handler -> Learning!Learnt]
      /\ shown' \in [Handler -> Learning!Observation \cup {Learning!Blank}]
      /\ \A g \in Handler : known'[g] = known[g] \/ known'[g] = Learning!Blank
      /\ learnAt'[h] = "idle"
      /\ \A g \in Handler \ {h} : learnAt'[g] = learnAt[g] /\ known'[g] = known[g]
      /\ Unwritten' = Unwritten \ {h}
  BY <1>0, <1>1, LearningMovesOn
<1>3. RequestsAreCounted' /\ total' \in 0..MaxRequests
  <2>1. IsFiniteSet(Unwritten) /\ h \in Unwritten /\ Cardinality(Unwritten) \in Nat
    BY <1>1, UnwrittenFinite DEF Unwritten
  <2>2. IsFiniteSet(Unwritten') /\ Cardinality(Unwritten') = Cardinality(Unwritten) - 1
    BY <1>2, <2>1, FS_RemoveElement
  <2>3. Cardinality(Unwritten') \in Nat
    BY <2>2, FS_CardinalityType
  <2>4. Cardinality(policies) \in Nat /\ begun \in 0..MaxRequests
    BY <1>0, PoliciesCounted DEF Learning!TypeOK
  <2>5. RequestsAreCounted'
    BY <1>0, <1>1, <2>1, <2>2, <2>3, <2>4 DEF RequestsAreCounted
  <2> QED
    BY <1>0, <1>1, <2>2, <2>3, <2>4, <2>5, LearningCardinality
    DEF RequestsAreCounted, Learning!BoundAssumption
<1>4. /\ known[h] \in Learning!Learnt /\ observed \in Learning!Learnt /\
           shown[h] \in Learning!Observation \cup {Learning!Blank}
      /\ Learning!Within(known[h], observed)
  BY <1>0 DEF Learning!TypeOK, Learning!OnlyObservedIsAllowed
<1>5. /\ seen' \in Learning!Learnt /\ observed' \in Learning!Learnt
      /\ Learning!Within(seen', observed') /\ Learning!Within(observed, observed')
  <2>1. seen' \in Learning!Learnt /\ shown[h] \in Learning!Learnt
    BY <1>1, <1>4, JoinAbove
  <2>2. Learning!Within(seen', observed') /\ observed' \in Learning!Learnt
    BY <1>1, <1>4, <2>1, JoinMonotone
  <2>3. Learning!Within(observed, observed')
    BY <1>1, <1>4, <2>1 DEF Learning!Within, Learning!Join, Learning!Learnt
  <2> QED
    BY <2>1, <2>2, <2>3
<1>6. Learning!TypeOK'
  BY <1>0, <1>1, <1>2, <1>3, <1>5 DEF Learning!TypeOK
<1>7. Learning!OnlyObservedIsAllowed'
  <2>1. \A g \in Handler : Learning!Within(known'[g], observed')
    <3> SUFFICES ASSUME NEW g \in Handler PROVE Learning!Within(known'[g], observed')
      OBVIOUS
    <3>1. known[g] \in Learning!Learnt /\ Learning!Within(known[g], observed)
      BY <1>0 DEF Learning!TypeOK, Learning!OnlyObservedIsAllowed
    <3>2. Learning!Within(known[g], observed')
      BY <1>4, <1>5, <3>1, WithinOrder
    <3>3. Learning!Within(Learning!Blank, observed')
      BY <1>5, WithinOrder
    <3> QED
      BY <1>2, <3>2, <3>3
  <2>2. ASSUME NEW q \in policies
        PROVE  q.features \subseteq observed'.features /\
                 q.limit <= Learning!LimitFor(observed'.size)
    <3>1. q.features \subseteq observed.features /\ q.limit <= Learning!LimitFor(observed.size)
      BY <1>0 DEF Learning!OnlyObservedIsAllowed
    <3>2. Learning!LimitFor(observed.size) <= Learning!LimitFor(observed'.size)
      BY <1>4, <1>5, LimitMonotone
    <3>3. q.limit \in Nat /\ Learning!LimitFor(observed.size) \in Nat /\
            Learning!LimitFor(observed'.size) \in Nat
      BY <1>0, <1>4, <1>5, LimitMonotone DEF Learning!TypeOK, Learning!Policy
    <3> QED
      BY <1>5, <3>1, <3>2, <3>3 DEF Learning!Within
  <2> QED
    BY <1>1, <1>5, <2>1, <2>2 DEF Learning!OnlyObservedIsAllowed
<1>8. ReadIsCurrent'
  <2> SUFFICES ASSUME ~overtaken PROVE ReadIsCurrent'
    BY <1>1 DEF ReadIsCurrent
  <2>1. \A g \in Handler : learnAt'[g] # "merge"
    BY <1>0, <1>1, <1>2 DEF ReadIsCurrent
  <2>2. known[h] = seen /\ Learning!Within(observed, seen)
    BY <1>0, <1>1 DEF ReadIsCurrent
  <2>3. Learning!Within(observed', seen')
    <3>1. shown[h] \in Learning!Learnt
      BY <1>1, <1>4, JoinAbove
    <3> QED
      BY <1>1, <1>4, <2>2, <3>1, JoinMonotone
  <2> QED
    BY <1>1, <2>1, <2>3 DEF ReadIsCurrent
<1> QED
  BY <1>3, <1>6, <1>7, <1>8 DEF LearningInv

LEMMA InsertPolicyKeeps ==
  ASSUME Learning!BoundAssumption, LearningInv, NEW h \in Handler,
           Learning!InsertPolicy(h) PROVE LearningInv'
<1>0. Learning!TypeOK /\ RequestsAreCounted /\ Learning!OnlyObservedIsAllowed /\ ReadIsCurrent
  BY DEF LearningInv
<1>1. PICK new : new = [id |-> Learning!NextId, features |-> known[h].features,
                       limit |-> Learning!LimitFor(known[h].size), status |-> "PENDING_REVIEW"]
  OBVIOUS
<1>2. /\ learnAt[h] = "insert" /\ Learning!Goto(h, "ready")
      /\ policies' = policies \cup {new}
      /\ UNCHANGED <<profile, seen, total, observed, begun, overtaken, learnFaults>>
  BY <1>1 DEF Learning!InsertPolicy, Learning!Suggested, Learning!profile
<1>3. /\ learnAt' \in [Handler -> {"idle", "merge", "insert", "ready", "enforce"}]
      /\ known' \in [Handler -> Learning!Learnt]
      /\ shown' \in [Handler -> Learning!Observation \cup {Learning!Blank}]
      /\ \A g \in Handler : known'[g] = known[g] \/ known'[g] = Learning!Blank
      /\ learnAt'[h] = "ready"
      /\ \A g \in Handler \ {h} : learnAt'[g] = learnAt[g] /\ known'[g] = known[g]
      /\ Unwritten' = Unwritten \ {h}
  BY <1>0, <1>2, LearningMovesOn
<1>4. RequestsAreCounted' /\ Learning!NextId \in 1..MaxRequests
  <2>1. IsFiniteSet(Unwritten) /\ h \in Unwritten /\ Cardinality(Unwritten) \in Nat
    BY <1>2, UnwrittenFinite DEF Unwritten
  <2>2. IsFiniteSet(Unwritten') /\ Cardinality(Unwritten') = Cardinality(Unwritten) - 1
    BY <1>3, <2>1, FS_RemoveElement
  <2>3. Cardinality(Unwritten') \in Nat
    BY <2>2, FS_CardinalityType
  <2>4. IsFiniteSet(policies) /\ Cardinality(policies) \in Nat /\ begun \in 0..MaxRequests
    BY <1>0, PoliciesCounted DEF Learning!TypeOK, RequestsAreCounted
  <2>5. /\ IsFiniteSet(policies')
        /\ Cardinality(policies') = Cardinality(policies)
             \/ Cardinality(policies') = Cardinality(policies) + 1
    BY <1>2, <2>4, FS_AddElement
  <2>6. RequestsAreCounted'
    BY <1>0, <1>2, <2>1, <2>2, <2>3, <2>4, <2>5 DEF RequestsAreCounted
  <2>7. Learning!NextId \in 1..MaxRequests
    BY <1>0, <2>1, <2>2, <2>3, <2>4, LearningCardinality
    DEF RequestsAreCounted, Learning!BoundAssumption, Learning!NextId
  <2> QED
    BY <2>6, <2>7
<1>5. /\ new \in Learning!Policy
      /\ new.features \subseteq observed.features /\ new.limit <= Learning!LimitFor(observed.size)
  <2>1. /\ known[h] \in Learning!Learnt /\ observed \in Learning!Learnt /\
             Learning!Within(known[h], observed)
        /\ Learning!LimitFor(known[h].size) <= MaxInt
    BY <1>0
    DEF Learning!TypeOK, Learning!OnlyObservedIsAllowed, Learning!InsertPolicy, Learning!LimitFits
  <2>2. Learning!LimitFor(known[h].size) \in Nat /\
          Learning!LimitFor(known[h].size) <= Learning!LimitFor(observed.size)
    BY <2>1, LimitMonotone
  <2>3. new \in Learning!Policy
    BY <1>1, <1>4, <2>1, <2>2, LearningCardinality
    DEF Learning!Policy, Learning!Learnt, Learning!BoundAssumption
  <2> QED
    BY <1>1, <2>1, <2>2, <2>3 DEF Learning!Within
<1>6. Learning!TypeOK'
  BY <1>0, <1>2, <1>3, <1>5 DEF Learning!TypeOK
<1>7. Learning!OnlyObservedIsAllowed'
  <2>1. \A g \in Handler : Learning!Within(known'[g], observed)
    BY <1>0, <1>3, WithinOrder DEF Learning!OnlyObservedIsAllowed, Learning!TypeOK
  <2> QED
    BY <1>0, <1>2, <1>5, <2>1 DEF Learning!OnlyObservedIsAllowed
<1>8. ReadIsCurrent'
  <2>1. \A g \in Handler : learnAt'[g] = "merge" => learnAt[g] = "merge"
    BY <1>2, <1>3
  <2>2. \A g \in Handler : learnAt'[g] = "merge" => g # h
    BY <1>3
  <2> QED
    BY <1>0, <1>2, <1>3, <2>1, <2>2 DEF ReadIsCurrent
<1> QED
  BY <1>4, <1>6, <1>7, <1>8 DEF LearningInv

(* Approve enforces every policy and changes nothing else of it. *)
LEMMA Enforced ==
  ASSUME Learning!TypeOK, NEW p \in policies
  PROVE  /\ [p EXCEPT !.status = "ENFORCED"] \in Learning!Policy
         /\ [p EXCEPT !.status = "ENFORCED"].id = p.id
         /\ [p EXCEPT !.status = "ENFORCED"].features = p.features
         /\ [p EXCEPT !.status = "ENFORCED"].limit = p.limit
         /\ [p EXCEPT !.status = "ENFORCED"].status = "ENFORCED"
<1>1. p \in Learning!Policy
  BY DEF Learning!TypeOK
<1> QED
  BY <1>1 DEF Learning!Policy

LEMMA ApproveKeeps ==
  ASSUME Learning!BoundAssumption, LearningInv, NEW h \in Handler,
           Learning!Approve(h) PROVE LearningInv'
<1>0. Learning!TypeOK /\ RequestsAreCounted /\ Learning!OnlyObservedIsAllowed /\ ReadIsCurrent
  BY DEF LearningInv
<1>1. /\ learnAt[h] = "idle" /\ Learning!Goto(h, "enforce")
      /\ policies' = {[p EXCEPT !.status = "ENFORCED"] : p \in policies}
      /\ UNCHANGED <<profile, seen, total, observed, begun, overtaken, learnFaults>>
  BY DEF Learning!Approve, Learning!profile
<1>2. /\ learnAt' \in [Handler -> {"idle", "merge", "insert", "ready", "enforce"}]
      /\ known' \in [Handler -> Learning!Learnt]
      /\ shown' \in [Handler -> Learning!Observation \cup {Learning!Blank}]
      /\ \A g \in Handler : known'[g] = known[g] \/ known'[g] = Learning!Blank
      /\ learnAt'[h] = "enforce"
      /\ \A g \in Handler \ {h} : learnAt'[g] = learnAt[g] /\ known'[g] = known[g]
      /\ Unwritten' = Unwritten \ {h}
  BY <1>0, <1>1, LearningMovesOn
<1>3. /\ policies' \subseteq Learning!Policy
      /\ \A q \in policies' :
           q.features \subseteq observed.features /\ q.limit <= Learning!LimitFor(observed.size)
  <2> SUFFICES ASSUME NEW p \in policies
               PROVE  /\ [p EXCEPT !.status = "ENFORCED"] \in Learning!Policy
                      /\ [p EXCEPT !.status = "ENFORCED"].features \subseteq observed.features
                      /\ [p EXCEPT !.status = "ENFORCED"].limit <= Learning!LimitFor(observed.size)
    BY <1>1
  <2> QED
    BY <1>0, Enforced DEF Learning!OnlyObservedIsAllowed
<1>4. Learning!TypeOK'
  BY <1>0, <1>1, <1>2, <1>3 DEF Learning!TypeOK
<1>5. RequestsAreCounted'
  <2>1. Unwritten' = Unwritten
    BY <1>1, <1>2 DEF Unwritten
  <2>2. IsFiniteSet(policies) /\ Cardinality(policies) \in Nat
    BY <1>0, PoliciesCounted DEF RequestsAreCounted
  <2>3. PICK f : f = [p \in policies |-> [p EXCEPT !.status = "ENFORCED"]]
    OBVIOUS
  <2>4. f \in Surjection(policies, policies')
    BY <1>1, <2>3 DEF Surjection
  <2>5. IsFiniteSet(policies') /\ Cardinality(policies') <= Cardinality(policies)
    BY <2>2, <2>4, FS_Surjection
  <2>6. Cardinality(policies') \in Nat
    BY <2>5, FS_CardinalityType
  <2>7. Cardinality(Unwritten) \in Nat /\ begun \in Nat
    BY <1>0, UnwrittenFinite DEF Learning!TypeOK
  <2> QED
    BY <1>0, <1>1, <2>1, <2>2, <2>5, <2>6, <2>7 DEF RequestsAreCounted
<1>6. Learning!OnlyObservedIsAllowed'
  <2>1. \A g \in Handler : Learning!Within(known'[g], observed)
    BY <1>0, <1>2, WithinOrder DEF Learning!OnlyObservedIsAllowed, Learning!TypeOK
  <2> QED
    BY <1>0, <1>1, <1>3, <2>1 DEF Learning!OnlyObservedIsAllowed
<1>7. ReadIsCurrent'
  <2>1. \A g \in Handler : learnAt'[g] = "merge" => learnAt[g] = "merge" /\ g # h
    BY <1>2
  <2> QED
    BY <1>0, <1>1, <1>2, <2>1 DEF ReadIsCurrent
<1> QED
  BY <1>4, <1>5, <1>6, <1>7 DEF LearningInv

LEMMA StatusKeeps ==
  ASSUME Learning!BoundAssumption, LearningInv, NEW h \in Handler,
         Learning!SetReady(h) \/ Learning!SetEnforced(h) \/ Learning!MergeFails(h) \/
           Learning!InsertFails(h) \/ Learning!SetStatusFails(h)
  PROVE  LearningInv'
<1>1. PICK stmt \in {"idle", "ready"} : Learning!Goto(h, stmt)
  BY
  DEF Learning!SetReady, Learning!SetEnforced, Learning!MergeFails, Learning!InsertFails,
      Learning!SetStatusFails
<1>2. UNCHANGED <<seen, total, policies, observed, begun, overtaken>>
  BY
  DEF Learning!SetReady, Learning!SetEnforced, Learning!MergeFails, Learning!InsertFails,
      Learning!SetStatusFails, Learning!profile
<1>3. profile' \in {"NONE", "LEARNING", "READY_FOR_REVIEW", "ENFORCED"}
  BY
  DEF Learning!SetReady, Learning!SetEnforced, Learning!MergeFails, Learning!InsertFails,
      Learning!SetStatusFails, Learning!profile,
         LearningInv, Learning!TypeOK
<1>4. learnFaults' = learnFaults \/ (learnFaults < MaxFaults /\ learnFaults' = learnFaults + 1)
  BY
  DEF Learning!SetReady, Learning!SetEnforced, Learning!MergeFails, Learning!InsertFails,
      Learning!SetStatusFails, Learning!Fault
<1>5. learnFaults' \in 0..MaxFaults
  BY <1>4, LearningCardinality DEF LearningInv, Learning!TypeOK, Learning!BoundAssumption
<1> QED
  BY <1>1, <1>2, <1>3, <1>5, QuietKeeps

LEMMA StartLearningKeeps ==
  ASSUME LearningInv, Learning!StartLearning PROVE LearningInv'
<1>1. /\ profile' = "LEARNING"
      /\ UNCHANGED <<seen, total, policies, learnAt, known, shown, observed, begun, overtaken,
           learnFaults>>
  BY DEF Learning!StartLearning, Learning!request
<1>2. Learning!TypeOK'
  BY <1>1 DEF LearningInv, Learning!TypeOK
<1>3. RequestsAreCounted' /\ Learning!OnlyObservedIsAllowed' /\ ReadIsCurrent'
  BY <1>1
  DEF LearningInv, RequestsAreCounted, Unwritten, Learning!OnlyObservedIsAllowed, ReadIsCurrent
<1> QED
  BY <1>2, <1>3 DEF LearningInv

LEMMA LearningStep ==
  ASSUME Learning!BoundAssumption PROVE LearningInv /\ [Learning!Next]_(Learning!vars) =>
           LearningInv'
<1> SUFFICES ASSUME LearningInv, [Learning!Next]_(Learning!vars) PROVE LearningInv'
  OBVIOUS
<1>1. ASSUME NEW h \in Handler, NEW observation \in Learning!Observation,
               Learning!Observe(h, observation)
      PROVE  LearningInv'
  BY <1>1, LearningBegins DEF Learning!Observe
<1>2. ASSUME NEW h \in Handler, Learning!Generate(h) PROVE LearningInv'
  BY <1>2, LearningBegins DEF Learning!Generate
<1>3. CASE UNCHANGED Learning!vars
  <2>1. UNCHANGED <<profile, seen, total, policies, learnAt, known, shown, observed, begun,
                    overtaken, learnFaults>>
    BY <1>3 DEF Learning!vars, Learning!profile, Learning!request
  <2> QED
    BY <2>1
    DEF LearningInv, Learning!TypeOK, RequestsAreCounted, Unwritten, Learning!OnlyObservedIsAllowed,
                ReadIsCurrent
<1> QED
  BY <1>1, <1>2, <1>3, StartLearningKeeps, MergeKeeps, InsertPolicyKeeps, ApproveKeeps, StatusKeeps
  DEF Learning!Next

(* What a step makes of a policy. *)
LEMMA PolicyStep ==
  ASSUME LearningInv, [Learning!Next]_(Learning!vars), NEW p \in policies
  PROVE  \E q \in policies' : /\ q.id = p.id
                              /\ q.features = p.features /\ q.limit = p.limit
                              /\ p.status = "ENFORCED" => q.status = "ENFORCED"
<1>1. CASE p \in policies'
  BY <1>1
<1>2. ASSUME NEW h \in Handler, Learning!Approve(h)
      PROVE  \E q \in policies' : /\ q.id = p.id
                                  /\ q.features = p.features /\ q.limit = p.limit
                                  /\ p.status = "ENFORCED" => q.status = "ENFORCED"
  <2>1. [p EXCEPT !.status = "ENFORCED"] \in policies'
    BY <1>2 DEF Learning!Approve
  <2> QED
    BY <2>1, Enforced DEF LearningInv
<1>3. p \in policies' \/ \E h \in Handler : Learning!Approve(h)
  BY
  DEF Learning!Next, Learning!vars, Learning!profile, Learning!StartLearning, Learning!Observe,
      Learning!Generate, Learning!Begin, Learning!Merge, Learning!InsertPolicy,
         Learning!SetReady, Learning!SetEnforced, Learning!MergeFails, Learning!InsertFails,
           Learning!SetStatusFails
<1> QED
  BY <1>1, <1>2, <1>3

-----------------------------------------------------------------------------
(* The history of pushed texts.  A saver that has yet to insert its row,   *)
(* and one that has yet to prune.                                          *)
Inserters == {s \in Saver : pc[s] \in {"read", "insert"}}
Pruners == {s \in Saver : pc[s] = "prune"}

(* Ids are never used twice, and no version overtakes the id of its row. *)
RowsAreNumbered ==
  /\ IsFiniteSet(saved)
  /\ \A a, b \in saved : a.id = b.id => a = b
  /\ \A row \in saved : row.id <= lastSaved /\ row.version <= row.id
  /\ \A s \in Saver : highest[s] <= lastSaved

(* There is an id left for every saver that will insert. *)
IdsSuffice == lastSaved + Cardinality(Inserters) <= MaxSaved

(* Until savers overlap or a statement fails versions are ids, the newest  *)
(* row is there, and the saver that is to insert has read its version.     *)
VersionsAreIds ==
  ~overlapped /\ failures = 0 =>
    /\ \A row \in saved : row.version = row.id
    /\ lastSaved > 0 => \E row \in saved : row.id = lastSaved
    /\ \A s, t \in Saver : pc[s] # "idle" /\ pc[t] # "idle" => s = t
    /\ \A s \in Saver : pc[s] = "insert" => highest[s] = lastSaved

HistoryInv ==
  /\ History!TypeOK /\ RowsAreNumbered /\ IdsSuffice
  /\ History!HistoryWasPublished /\ History!RetentionBounded /\ VersionsAreIds

LEMMA VersionsSound == HistoryInv => History!VersionsFollowIds
BY DEF HistoryInv, History!TypeOK, History!Row, VersionsAreIds, History!VersionsFollowIds

LEMMA SaversFinite ==
  ASSUME History!HistoryAssumption
  PROVE  /\ IsFiniteSet(Inserters) /\ Cardinality(Inserters) \in Nat
         /\ IsFiniteSet(Pruners) /\ Cardinality(Pruners) \in Nat
<1>1. IsFiniteSet(Saver) /\ Inserters \in SUBSET Saver /\ Pruners \in SUBSET Saver
  BY HistoryCardinality DEF History!HistoryAssumption, Inserters, Pruners
<1>2. IsFiniteSet(Inserters) /\ IsFiniteSet(Pruners)
  BY <1>1, FS_Subset
<1> QED
  BY <1>2, FS_CardinalityType

(* A set of numbers has a lowest one, and if it is bounded a highest. *)
LEMMA LowestExists ==
  ASSUME NEW S \in SUBSET Nat, S # {}
  PROVE  \E x \in S : \A y \in S : x <= y
<1>1. PICK R : R = OpToRel(<, Nat)
  OBVIOUS
<1>2. IsWellFoundedOn(R, Nat)
  BY <1>1, NatLessThanWellFounded
<1>3. PICK x \in S : \A y \in S : ~(<<y, x>> \in R)
  BY <1>2, WFMin
<1>4. \A y \in S : y < x => <<y, x>> \in R
  BY <1>1 DEF OpToRel
<1>5. ASSUME NEW y \in S PROVE x <= y
  <2>1. ~(y < x)
    BY <1>3, <1>4
  <2>2. x \in Nat /\ y \in Nat
    OBVIOUS
  <2> QED
    BY <2>1, <2>2
<1> QED
  BY <1>5

LEMMA HighestExists ==
  ASSUME NEW n \in Nat, NEW S \in SUBSET (0..n), S # {}
  PROVE  \E x \in S : \A y \in S : y <= x
<1>1. PICK D : D = {n - x : x \in S}
  OBVIOUS
<1>2. D \in SUBSET Nat
  <2>1. \A x \in S : n - x \in Nat
    OBVIOUS
  <2> QED
    BY <1>1, <2>1
<1>3. D # {}
  BY <1>1
<1>4. PICK d \in D : \A e \in D : d <= e
  BY <1>2, <1>3, LowestExists
<1>5. PICK x \in S : d = n - x
  BY <1>1
<1>6. ASSUME NEW y \in S PROVE y <= x
  <2>1. n - y \in D /\ x \in 0..n /\ y \in 0..n
    BY <1>1
  <2> QED
    BY <1>4, <1>5, <2>1
<1> QED
  BY <1>6

(* The version a saver reads is that of a row, or 0, and none is higher. *)
LEMMA HighestVersionIs ==
  ASSUME History!HistoryAssumption, History!TypeOK
  PROVE  /\ History!HighestVersion \in {row.version : row \in saved} \cup {0}
         /\ \A row \in saved : row.version <= History!HighestVersion
<1>1. PICK S : S = {row.version : row \in saved} \cup {0}
  OBVIOUS
<1>2. MaxSaved \in Nat /\ S \in SUBSET (0..MaxSaved) /\ S # {}
  <2>1. \A row \in saved : row.version \in 0..MaxSaved
    BY DEF History!TypeOK, History!Row
  <2> QED
    BY <1>1, <2>1, HistoryCardinality DEF History!HistoryAssumption
<1>3. \E x \in S : \A y \in S : x >= y
  <2>1. PICK x \in S : \A y \in S : y <= x
    BY <1>2, HighestExists
  <2>2. \A y \in S : x >= y
    BY <1>2, <2>1
  <2> QED
    BY <2>2
<1>4. PICK m : m = CHOOSE x \in S : \A y \in S : x >= y
  OBVIOUS
<1>5. m \in S /\ \A y \in S : m >= y
  BY <1>3, <1>4
<1>6. History!HighestVersion = m
  BY <1>1, <1>4 DEF History!HighestVersion, History!Max
<1> QED
  BY <1>1, <1>2, <1>5, <1>6

LEMMA HistoryInit ==
  ASSUME History!HistoryAssumption, History!Init PROVE HistoryInv
<1>1. /\ Inserters = {} /\ Pruners = {} /\ saved = {} /\ lastSaved = 0 /\ unpruned = 0
      /\ failures = 0
  BY DEF History!Init, History!AllIdle, Inserters, Pruners
<1>2. /\ pc \in [Saver -> {"idle", "read", "insert", "prune"}]
      /\ saving \in [Saver -> Content \cup {NoContent}]
      /\ highest = [s \in Saver |-> 0]
      /\ highest \in [Saver -> 0..MaxSaved]
  BY HistoryCardinality DEF History!Init, History!AllIdle, History!HistoryAssumption
<1>3. IsFiniteSet(saved) /\ Cardinality(saved) = 0 /\ Cardinality(Inserters) = 0
      /\ Cardinality(Pruners) = 0
  BY <1>1, FS_EmptySet
<1>4. History!TypeOK
  <2>1. lastSaved \in 0..MaxSaved /\ failures \in 0..MaxFaults /\ unpruned \in Nat
    BY <1>1, HistoryCardinality DEF History!HistoryAssumption
  <2> QED
    BY <1>1, <1>2, <2>1 DEF History!Init, History!TypeOK
<1>5. RowsAreNumbered /\ IdsSuffice /\ History!RetentionBounded
  BY <1>1, <1>2, <1>3, HistoryCardinality
  DEF RowsAreNumbered, IdsSuffice, History!RetentionBounded, Pruners, History!HistoryAssumption
<1>6. History!HistoryWasPublished /\ VersionsAreIds
  BY <1>1 DEF History!Init, History!AllIdle, History!HistoryWasPublished, VersionsAreIds
<1> QED
  BY <1>4, <1>5, <1>6 DEF HistoryInv

(* A content is published and a saver starts with it. *)
LEMMA SaverStarts ==
  ASSUME History!HistoryAssumption, HistoryInv, NEW s \in Saver, NEW c \in Content,
         History!Publish(c), History!StartSaver(s, c)
  PROVE  HistoryInv'
<1>0. /\ History!TypeOK /\ RowsAreNumbered /\ IdsSuffice
      /\ History!HistoryWasPublished /\ History!RetentionBounded /\ VersionsAreIds
  BY DEF HistoryInv
<1>1. /\ pc[s] = "idle" /\ lastSaved + Cardinality(Inserters) < MaxSaved
      /\ pc' = [pc EXCEPT ![s] = "read"]
      /\ saving' = [saving EXCEPT ![s] = c]
      /\ overlapped' = (overlapped \/ \E t \in Saver : pc[t] # "idle")
      /\ UNCHANGED <<saved, lastSaved, highest, unpruned, failures>>
      /\ live' = c /\ pushed' = pushed \cup {c}
  BY HistoryCardinality DEF History!StartSaver, History!Publish, Inserters
<1>2. /\ pc'[s] = "read" /\ saving'[s] = c
      /\ \A t \in Saver \ {s} : pc'[t] = pc[t] /\ saving'[t] = saving[t]
  BY <1>0, <1>1 DEF History!TypeOK
<1>3. History!TypeOK'
  BY <1>0, <1>1 DEF History!TypeOK
<1>4. RowsAreNumbered'
  BY <1>0, <1>1 DEF RowsAreNumbered
<1>5. IdsSuffice'
  <2>1. Inserters' = Inserters \cup {s} /\ s \notin Inserters
    BY <1>1, <1>2 DEF Inserters
  <2>2. IsFiniteSet(Inserters) /\ Cardinality(Inserters) \in Nat
    BY SaversFinite
  <2>3. Cardinality(Inserters') = Cardinality(Inserters) + 1
    BY <2>1, <2>2, FS_AddElement
  <2>4. lastSaved \in Nat /\ MaxSaved \in Nat
    BY <1>0, HistoryCardinality DEF History!TypeOK, History!HistoryAssumption
  <2> QED
    BY <1>1, <2>2, <2>3, <2>4 DEF IdsSuffice
<1>6. History!HistoryWasPublished'
  BY <1>0, <1>1, <1>2 DEF History!HistoryWasPublished
<1>7. History!RetentionBounded'
  <2>1. Pruners' = Pruners
    BY <1>1, <1>2 DEF Pruners
  <2> QED
    BY <1>0, <1>1, <2>1, HistoryCardinality DEF History!RetentionBounded, Pruners
<1>8. VersionsAreIds'
  <2> SUFFICES ASSUME ~overlapped', failures = 0 PROVE VersionsAreIds'
    BY <1>1 DEF VersionsAreIds
  <2>1. ~overlapped /\ \A t \in Saver : pc[t] = "idle"
    BY <1>1
  <2>2. \A t \in Saver : pc'[t] # "idle" => t = s
    BY <1>2, <2>1
  <2>3. \A t \in Saver : pc'[t] # "insert"
    BY <1>2, <2>1
  <2> QED
    BY <1>0, <1>1, <2>1, <2>2, <2>3 DEF VersionsAreIds
<1> QED
  BY <1>3, <1>4, <1>5, <1>6, <1>7, <1>8 DEF HistoryInv

LEMMA PushOnlyKeeps ==
  ASSUME HistoryInv, NEW c \in Content, History!PushOnly(c) PROVE HistoryInv'
<1>1. /\ live' = c /\ pushed' = pushed \cup {c}
      /\ UNCHANGED <<saved, lastSaved, pc, saving, highest, unpruned, overlapped, failures>>
  BY DEF History!PushOnly, History!Publish, History!saver
<1>2. History!TypeOK'
  BY <1>1 DEF HistoryInv, History!TypeOK
<1>3. RowsAreNumbered' /\ IdsSuffice' /\ History!RetentionBounded' /\ VersionsAreIds'
  BY <1>1, HistoryCardinality
  DEF HistoryInv, RowsAreNumbered, IdsSuffice, Inserters, History!RetentionBounded, VersionsAreIds
<1>4. History!HistoryWasPublished'
  BY <1>1 DEF HistoryInv, History!HistoryWasPublished
<1> QED
  BY <1>2, <1>3, <1>4 DEF HistoryInv

(* What the statement of a saver does to the programme counters. *)
LEMMA SaverMovesOn ==
  ASSUME History!TypeOK, NEW s \in Saver, NEW stmt, NEW then \in {"idle", "insert", "prune"},
         History!Step(s, stmt, then)
  PROVE  /\ pc[s] = stmt /\ pc'[s] = then
         /\ pc' \in [Saver -> {"idle", "read", "insert", "prune"}]
         /\ \A t \in Saver \ {s} : pc'[t] = pc[t]
         /\ UNCHANGED <<live, pushed, overlapped>>
BY DEF History!Step, History!TypeOK

LEMMA FaultCounts ==
  ASSUME History!HistoryAssumption, History!TypeOK,
           History!Fault PROVE failures' \in 0..MaxFaults /\ failures' > 0
BY HistoryCardinality DEF History!TypeOK, History!Fault, History!HistoryAssumption

LEMMA ReadMaxKeeps ==
  ASSUME History!HistoryAssumption, HistoryInv, NEW s \in Saver, History!ReadMax(s) \/
           History!ReadFails(s)
  PROVE  HistoryInv'
<1>0. /\ History!TypeOK /\ RowsAreNumbered /\ IdsSuffice
      /\ History!HistoryWasPublished /\ History!RetentionBounded /\ VersionsAreIds
  BY DEF HistoryInv
<1>1. History!Step(s, "read", "insert") /\ UNCHANGED <<saved, lastSaved, saving, unpruned>>
  BY DEF History!ReadMax, History!ReadFails
<1>2. /\ pc[s] = "read" /\ pc'[s] = "insert"
      /\ pc' \in [Saver -> {"idle", "read", "insert", "prune"}]
      /\ \A t \in Saver \ {s} : pc'[t] = pc[t]
      /\ UNCHANGED <<live, pushed, overlapped>>
  BY <1>0, <1>1, SaverMovesOn
<1>3. /\ History!HighestVersion \in {row.version : row \in saved} \cup {0}
      /\ \A row \in saved : row.version <= History!HighestVersion
  BY <1>0, HighestVersionIs
<1>4. History!HighestVersion \in 0..MaxSaved /\ History!HighestVersion <= lastSaved
  <2>1. CASE History!HighestVersion = 0
    BY <1>0, <2>1, HistoryCardinality DEF History!TypeOK, History!HistoryAssumption
  <2>2. CASE History!HighestVersion # 0
    <3>1. PICK row \in saved : History!HighestVersion = row.version
      BY <1>3, <2>2
    <3>2. row.version \in 1..MaxSaved /\ row.id \in 1..MaxSaved /\ lastSaved \in 0..MaxSaved
      BY <1>0 DEF History!TypeOK, History!Row
    <3> QED
      BY <1>0, <3>1, <3>2 DEF RowsAreNumbered
  <2> QED
    BY <2>1, <2>2
<1>5. /\ highest' \in [Saver -> 0..MaxSaved] /\ failures' \in 0..MaxFaults
      /\ \A t \in Saver : highest'[t] <= lastSaved
      /\ \/ highest' = [highest EXCEPT ![s] = History!HighestVersion] /\ failures' = failures
         \/ failures' > 0
  <2>1. CASE History!ReadMax(s)
    <3>1. highest' = [highest EXCEPT ![s] = History!HighestVersion] /\ failures' = failures
      BY <2>1 DEF History!ReadMax
    <3> QED
      BY <1>0, <1>4, <3>1 DEF History!TypeOK, RowsAreNumbered
  <2>2. CASE History!ReadFails(s)
    <3>1. History!Fault /\ highest' = highest
      BY <2>2 DEF History!ReadFails
    <3> QED
      BY <1>0, <3>1, FaultCounts DEF History!TypeOK, RowsAreNumbered
  <2> QED
    BY <2>1, <2>2
<1>6. History!TypeOK'
  BY <1>0, <1>1, <1>2, <1>5 DEF History!TypeOK
<1>7. RowsAreNumbered'
  BY <1>0, <1>1, <1>5 DEF RowsAreNumbered
<1>8. IdsSuffice' /\ History!RetentionBounded'
  <2>1. Inserters' = Inserters /\ Pruners' = Pruners
    BY <1>2 DEF Inserters, Pruners
  <2> QED
    BY <1>0, <1>1, <2>1, HistoryCardinality DEF IdsSuffice, History!RetentionBounded, Pruners
<1>9. History!HistoryWasPublished'
  BY <1>0, <1>1, <1>2 DEF History!HistoryWasPublished
<1>10. VersionsAreIds'
  <2> SUFFICES ASSUME ~overlapped, failures' = 0 PROVE VersionsAreIds'
    BY <1>2 DEF VersionsAreIds
  <2>1. highest'[s] = History!HighestVersion /\ failures = 0
    BY <1>0, <1>5 DEF History!TypeOK
  <2>2. History!HighestVersion = lastSaved
    <3>1. CASE lastSaved = 0
      BY <1>4, <3>1
    <3>2. CASE lastSaved > 0
      <4>1. PICK row \in saved : row.id = lastSaved
        BY <1>0, <2>1, <3>2 DEF VersionsAreIds
      <4>2. row.version = lastSaved
        BY <1>0, <2>1, <4>1 DEF VersionsAreIds
      <4>3. lastSaved <= History!HighestVersion
        BY <1>3, <4>2
      <4>4. lastSaved \in Nat /\ History!HighestVersion \in Nat
        BY <1>0, <1>4 DEF History!TypeOK
      <4> QED
        BY <1>4, <4>3, <4>4
    <3> QED
      BY <1>0, <3>1, <3>2 DEF History!TypeOK
  <2>3. \A t \in Saver : pc'[t] # "idle" => t = s
    BY <1>0, <1>2, <2>1 DEF VersionsAreIds
  <2>4. \A t \in Saver : pc'[t] = "insert" => highest'[t] = lastSaved
    BY <2>1, <2>2, <2>3
  <2> QED
    BY <1>0, <1>1, <1>2, <2>1, <2>3, <2>4 DEF VersionsAreIds
<1> QED
  BY <1>6, <1>7, <1>8, <1>9, <1>10 DEF HistoryInv
LEMMA SaverInserts ==
  ASSUME History!HistoryAssumption, HistoryInv, NEW s \in Saver, History!Insert(s)
  PROVE  HistoryInv'
<1>0. /\ History!TypeOK /\ RowsAreNumbered /\ IdsSuffice
      /\ History!HistoryWasPublished /\ History!RetentionBounded /\ VersionsAreIds
  BY DEF HistoryInv
<1>1. PICK new : new = [id |-> lastSaved + 1, version |-> highest[s] + 1, content |-> saving[s]]
  OBVIOUS
<1>2. /\ History!Step(s, "insert", "prune") /\ lastSaved' = lastSaved + 1
      /\ saved' = saved \cup {new}
      /\ UNCHANGED <<saving, highest, unpruned, failures>>
  BY <1>1 DEF History!Insert
<1>3. /\ pc[s] = "insert" /\ pc'[s] = "prune"
      /\ pc' \in [Saver -> {"idle", "read", "insert", "prune"}]
      /\ \A t \in Saver \ {s} : pc'[t] = pc[t]
      /\ UNCHANGED <<live, pushed, overlapped>>
  BY <1>0, <1>2, SaverMovesOn
<1>4. Inserters' = Inserters \ {s} /\ s \in Inserters /\ Pruners' = Pruners \cup {s} /\
        s \notin Pruners
  BY <1>3 DEF Inserters, Pruners
<1>5. /\ Cardinality(Inserters') = Cardinality(Inserters) - 1
      /\ Cardinality(Pruners') = Cardinality(Pruners) + 1
      /\ Cardinality(Inserters) \in Nat /\ Cardinality(Inserters') \in Nat
      /\ Cardinality(Pruners) \in Nat
  <2>1. IsFiniteSet(Inserters) /\ IsFiniteSet(Pruners) /\ Cardinality(Inserters) \in Nat
        /\ Cardinality(Pruners) \in Nat
    BY SaversFinite
  <2>2. IsFiniteSet(Inserters') /\ Cardinality(Inserters') = Cardinality(Inserters) - 1
    BY <1>4, <2>1, FS_RemoveElement
  <2>3. Cardinality(Pruners') = Cardinality(Pruners) + 1
    BY <1>4, <2>1, FS_AddElement
  <2>4. Cardinality(Inserters') \in Nat
    BY <2>2, FS_CardinalityType
  <2> QED
    BY <2>1, <2>2, <2>3, <2>4
<1>6. IdsSuffice' /\ lastSaved' \in 0..MaxSaved
  <2>1. lastSaved \in Nat /\ MaxSaved \in Nat
    BY <1>0, HistoryCardinality DEF History!TypeOK, History!HistoryAssumption
  <2> QED
    BY <1>0, <1>2, <1>5, <2>1 DEF IdsSuffice
<1>7. new \in History!Row /\ new.id = lastSaved + 1 /\ new.version = highest[s] + 1 /\
        new.content = saving[s]
  <2>1. highest[s] \in Nat /\ highest[s] <= lastSaved /\ lastSaved \in Nat /\ MaxSaved \in Nat
    BY <1>0, HistoryCardinality DEF History!TypeOK, RowsAreNumbered, History!HistoryAssumption
  <2>2. lastSaved + 1 \in 1..MaxSaved /\ highest[s] + 1 \in 1..MaxSaved
    BY <1>2, <1>6, <2>1
  <2>3. saving[s] \in Content
    BY <1>0, <1>3 DEF History!HistoryWasPublished, History!TypeOK
  <2> QED
    BY <1>1, <2>2, <2>3 DEF History!Row
<1>8. History!TypeOK'
  BY <1>0, <1>2, <1>3, <1>6, <1>7 DEF History!TypeOK
<1>9. RowsAreNumbered'
  <2>1. IsFiniteSet(saved')
    BY <1>0, <1>2, FS_AddElement DEF RowsAreNumbered
  <2>2. \A row \in saved : row.id <= lastSaved /\ row.id \in Nat /\ row.version <= row.id
    BY <1>0 DEF RowsAreNumbered, History!TypeOK, History!Row
  <2>3. lastSaved \in Nat /\ highest[s] \in Nat /\ highest[s] <= lastSaved
        /\ \A t \in Saver : highest[t] \in Nat /\ highest[t] <= lastSaved
    BY <1>0 DEF History!TypeOK, RowsAreNumbered
  <2>4. \A a, b \in saved' : a.id = b.id => a = b
    BY <1>0, <1>2, <1>7, <2>2, <2>3 DEF RowsAreNumbered
  <2>5. \A row \in saved' : row.id <= lastSaved' /\ row.version <= row.id
    BY <1>2, <1>7, <2>2, <2>3
  <2>6. \A t \in Saver : highest'[t] <= lastSaved'
    BY <1>2, <2>3
  <2> QED
    BY <2>1, <2>4, <2>5, <2>6 DEF RowsAreNumbered
<1>10. History!HistoryWasPublished'
  BY <1>0, <1>2, <1>3, <1>7 DEF History!HistoryWasPublished
<1>11. History!RetentionBounded'
  <2>1. /\ IsFiniteSet(saved) /\ Cardinality(saved) \in Nat
        /\ Cardinality(saved') = Cardinality(saved) \/ Cardinality(saved') = Cardinality(saved) + 1
    <3>1. IsFiniteSet(saved)
      BY <1>0 DEF RowsAreNumbered
    <3> QED
      BY <1>2, <3>1, FS_AddElement, FS_CardinalityType
  <2>2. unpruned \in Nat /\ Limit \in Nat
    BY <1>0, HistoryCardinality DEF History!TypeOK, History!HistoryAssumption
  <2>3. Cardinality(saved) <= Limit + Cardinality(Pruners) + unpruned
    BY <1>0, HistoryCardinality DEF History!RetentionBounded, Pruners
  <2>4. Cardinality(saved') <= Limit + Cardinality(Pruners') + unpruned'
    BY <1>2, <1>5, <2>1, <2>2, <2>3
  <2> QED
    BY <2>4, HistoryCardinality DEF History!RetentionBounded, Pruners
<1>12. VersionsAreIds'
  <2> SUFFICES ASSUME ~overlapped, failures = 0 PROVE VersionsAreIds'
    BY <1>2, <1>3 DEF VersionsAreIds
  <2>1. highest[s] = lastSaved /\ new.version = new.id
    BY <1>0, <1>3, <1>7 DEF VersionsAreIds
  <2>2. \A row \in saved' : row.version = row.id
    BY <1>0, <1>2, <2>1 DEF VersionsAreIds
  <2>3. new \in saved' /\ new.id = lastSaved'
    BY <1>2, <1>7
  <2>4. \A t \in Saver : pc'[t] # "idle" => t = s
    BY <1>0, <1>3 DEF VersionsAreIds
  <2> QED
    BY <1>3, <2>2, <2>3, <2>4 DEF VersionsAreIds
<1> QED
  BY <1>6, <1>8, <1>9, <1>10, <1>11, <1>12 DEF HistoryInv

LEMMA SaverInsertFails ==
  ASSUME History!HistoryAssumption, HistoryInv, NEW s \in Saver, History!InsertFails(s)
  PROVE  HistoryInv'
<1>0. /\ History!TypeOK /\ RowsAreNumbered /\ IdsSuffice
      /\ History!HistoryWasPublished /\ History!RetentionBounded /\ VersionsAreIds
  BY DEF HistoryInv
<1>1. History!Fault /\ History!Step(s, "insert", "prune") /\
        UNCHANGED <<saved, lastSaved, saving, highest, unpruned>>
  BY DEF History!InsertFails
<1>2. /\ pc[s] = "insert" /\ pc'[s] = "prune"
      /\ pc' \in [Saver -> {"idle", "read", "insert", "prune"}]
      /\ \A t \in Saver \ {s} : pc'[t] = pc[t]
      /\ UNCHANGED <<live, pushed, overlapped>>
  BY <1>0, <1>1, SaverMovesOn
<1>3. failures' \in 0..MaxFaults /\ failures' > 0
  BY <1>0, <1>1, FaultCounts
<1>4. History!TypeOK' /\ RowsAreNumbered' /\ History!HistoryWasPublished'
  BY <1>0, <1>1, <1>2, <1>3 DEF History!TypeOK, RowsAreNumbered, History!HistoryWasPublished
<1>5. /\ Cardinality(Inserters') <= Cardinality(Inserters)
      /\ Cardinality(Pruners') = Cardinality(Pruners) + 1
      /\ Cardinality(Inserters) \in Nat /\ Cardinality(Inserters') \in Nat
      /\ Cardinality(Pruners) \in Nat
  <2>1. IsFiniteSet(Inserters) /\ IsFiniteSet(Pruners) /\ Cardinality(Inserters) \in Nat
        /\ Cardinality(Pruners) \in Nat
    BY SaversFinite
  <2>2. Inserters' = Inserters \ {s} /\ Pruners' = Pruners \cup {s} /\ s \notin Pruners
    BY <1>2 DEF Inserters, Pruners
  <2>3. Inserters' \in SUBSET Inserters
    BY <2>2
  <2>4. IsFiniteSet(Inserters') /\ Cardinality(Inserters') <= Cardinality(Inserters)
    BY <2>1, <2>3, FS_Subset
  <2>5. Cardinality(Pruners') = Cardinality(Pruners) + 1
    BY <2>1, <2>2, FS_AddElement
  <2>6. Cardinality(Inserters') \in Nat
    BY <2>4, FS_CardinalityType
  <2> QED
    BY <2>1, <2>4, <2>5, <2>6
<1>6. IdsSuffice'
  <2>1. lastSaved \in Nat /\ MaxSaved \in Nat
    BY <1>0, HistoryCardinality DEF History!TypeOK, History!HistoryAssumption
  <2> QED
    BY <1>0, <1>1, <1>5, <2>1 DEF IdsSuffice
<1>7. History!RetentionBounded'
  <2>1. Cardinality(saved) \in Nat
    BY <1>0, FS_CardinalityType DEF RowsAreNumbered
  <2>2. unpruned \in Nat /\ Limit \in Nat
    BY <1>0, HistoryCardinality DEF History!TypeOK, History!HistoryAssumption
  <2>3. Cardinality(saved) <= Limit + Cardinality(Pruners) + unpruned
    BY <1>0, HistoryCardinality DEF History!RetentionBounded, Pruners
  <2>4. Cardinality(saved') <= Limit + Cardinality(Pruners') + unpruned'
    BY <1>1, <1>5, <2>1, <2>2, <2>3
  <2> QED
    BY <2>4, HistoryCardinality DEF History!RetentionBounded, Pruners
<1>8. VersionsAreIds'
  BY <1>3 DEF VersionsAreIds
<1> QED
  BY <1>4, <1>6, <1>7, <1>8 DEF HistoryInv

(* A saver that is done forgets what it saved. *)
LEMMA SaverRests ==
  ASSUME History!HistoryAssumption, HistoryInv, NEW s \in Saver, History!Rest(s),
           UNCHANGED lastSaved,
         saved' \in SUBSET saved, failures' \in 0..MaxFaults
  PROVE  /\ pc[s] = "prune" /\ pc'[s] = "idle"
         /\ \A t \in Saver \ {s} : pc'[t] = pc[t]
         /\ UNCHANGED <<live, pushed, overlapped>>
         /\ unpruned' \in Nat => History!TypeOK'
         /\ RowsAreNumbered' /\ IdsSuffice' /\ History!HistoryWasPublished'
         /\ Cardinality(Pruners') = Cardinality(Pruners) - 1
         /\ Cardinality(Pruners) \in Nat /\ Cardinality(Pruners') \in Nat
<1>0. /\ History!TypeOK /\ RowsAreNumbered /\ IdsSuffice
      /\ History!HistoryWasPublished /\ History!RetentionBounded /\ VersionsAreIds
  BY DEF HistoryInv
<1>1. /\ History!Step(s, "prune", "idle")
      /\ saving' = [saving EXCEPT ![s] = NoContent]
      /\ highest' = [highest EXCEPT ![s] = 0]
  BY DEF History!Rest
<1>2. /\ pc[s] = "prune" /\ pc'[s] = "idle"
      /\ pc' \in [Saver -> {"idle", "read", "insert", "prune"}]
      /\ \A t \in Saver \ {s} : pc'[t] = pc[t]
      /\ UNCHANGED <<live, pushed, overlapped>>
  BY <1>0, <1>1, SaverMovesOn
<1>3. /\ saving' \in [Saver -> Content \cup {NoContent}]
      /\ highest' \in [Saver -> 0..MaxSaved]
      /\ \A t \in Saver \ {s} : saving'[t] = saving[t] /\ highest'[t] = highest[t]
      /\ highest'[s] = 0
  BY <1>0, <1>1, HistoryCardinality DEF History!TypeOK, History!HistoryAssumption
<1>4. unpruned' \in Nat => History!TypeOK'
  BY <1>0, <1>2, <1>3 DEF History!TypeOK
<1>5. RowsAreNumbered'
  <2>1. IsFiniteSet(saved')
    BY <1>0, FS_Subset DEF RowsAreNumbered
  <2>2. \A t \in Saver : highest'[t] <= lastSaved
    BY <1>0, <1>3 DEF RowsAreNumbered, History!TypeOK
  <2> QED
    BY <1>0, <2>1, <2>2 DEF RowsAreNumbered
<1>6. History!HistoryWasPublished'
  BY <1>0, <1>2, <1>3 DEF History!HistoryWasPublished
<1>7. IdsSuffice'
  <2>1. Inserters' = Inserters
    BY <1>2 DEF Inserters
  <2> QED
    BY <1>0, <2>1 DEF IdsSuffice
<1>8. /\ Cardinality(Pruners') = Cardinality(Pruners) - 1
      /\ Cardinality(Pruners) \in Nat /\ Cardinality(Pruners') \in Nat
  <2>1. IsFiniteSet(Pruners) /\ Cardinality(Pruners) \in Nat
    BY SaversFinite
  <2>2. Pruners' = Pruners \ {s} /\ s \in Pruners
    BY <1>2 DEF Pruners
  <2>3. IsFiniteSet(Pruners') /\ Cardinality(Pruners') = Cardinality(Pruners) - 1
    BY <2>1, <2>2, FS_RemoveElement
  <2> QED
    BY <2>1, <2>3, FS_CardinalityType
<1> QED
  BY <1>2, <1>4, <1>5, <1>6, <1>7, <1>8
(* What a prune leaves: the lowest row left has fewer than Limit above it. *)
LEMMA PruneLeavesLimit ==
  ASSUME History!HistoryAssumption, History!TypeOK, RowsAreNumbered,
         NEW kept, kept = {row \in saved : Cardinality(History!NewerThan(row)) < Limit}
  PROVE  IsFiniteSet(kept) /\ Cardinality(kept) \in Nat /\ Cardinality(kept) <= Limit
<1>1. IsFiniteSet(saved) /\ kept \in SUBSET saved
  BY DEF RowsAreNumbered
<1>2. IsFiniteSet(kept)
  BY <1>1, FS_Subset
<1>3. Cardinality(kept) \in Nat
  BY <1>2, FS_CardinalityType
<1>4. CASE kept = {}
  BY <1>2, <1>3, <1>4, FS_EmptySet, HistoryCardinality DEF History!HistoryAssumption
<1>5. CASE kept # {}
  <2>1. PICK ids : ids = {row.id : row \in kept}
    OBVIOUS
  <2>2. \A row \in saved : row.id \in Nat
    BY DEF History!TypeOK, History!Row
  <2>3. ids \in SUBSET Nat /\ ids # {}
    BY <1>1, <1>5, <2>1, <2>2
  <2>4. PICK n \in ids : \A k \in ids : n <= k
    BY <2>3, LowestExists
  <2>5. PICK row \in kept : row.id = n
    BY <2>1
  <2>6. PICK newer : newer = History!NewerThan(row)
    OBVIOUS
  <2>7. kept \subseteq newer \cup {row}
    <3> SUFFICES ASSUME NEW other \in kept, other # row PROVE other \in newer
      OBVIOUS
    <3>1. other.id \in Nat /\ row.id \in Nat /\ row.id <= other.id
      BY <1>1, <2>1, <2>2, <2>4, <2>5
    <3>2. other.id # row.id
      BY <1>1 DEF RowsAreNumbered
    <3> QED
      BY <1>1, <2>6, <3>1, <3>2 DEF History!NewerThan
  <2>8. newer \in SUBSET saved
    BY <2>6 DEF History!NewerThan
  <2>9. IsFiniteSet(newer)
    BY <1>1, <2>8, FS_Subset
  <2>10. Cardinality(newer) \in Nat /\ Cardinality(newer) < Limit
    BY <2>5, <2>6, <2>9, FS_CardinalityType
  <2>11. /\ IsFiniteSet(newer \cup {row})
         /\ Cardinality(newer \cup {row}) = Cardinality(newer)
              \/ Cardinality(newer \cup {row}) = Cardinality(newer) + 1
    BY <2>9, FS_AddElement
  <2>12. Cardinality(kept) <= Cardinality(newer \cup {row})
    BY <2>7, <2>11, FS_Subset
  <2> QED
    BY <1>2, <1>3, <2>10, <2>11, <2>12, HistoryCardinality DEF History!HistoryAssumption
<1> QED
  BY <1>4, <1>5

LEMMA PruneKeeps ==
  ASSUME History!HistoryAssumption, HistoryInv, NEW s \in Saver, History!Prune(s)
  PROVE  HistoryInv'
<1>0. /\ History!TypeOK /\ RowsAreNumbered /\ IdsSuffice
      /\ History!HistoryWasPublished /\ History!RetentionBounded /\ VersionsAreIds
  BY DEF HistoryInv
<1>1. /\ History!Rest(s) /\ UNCHANGED <<lastSaved, unpruned, failures>>
      /\ saved' = {row \in saved : Cardinality(History!NewerThan(row)) < Limit}
  BY HistoryCardinality DEF History!Prune
<1>2. saved' \in SUBSET saved /\ failures' \in 0..MaxFaults
  BY <1>0, <1>1 DEF History!TypeOK
<1>3. /\ pc[s] = "prune" /\ pc'[s] = "idle"
      /\ \A t \in Saver \ {s} : pc'[t] = pc[t]
      /\ UNCHANGED <<live, pushed, overlapped>>
      /\ RowsAreNumbered' /\ IdsSuffice' /\ History!HistoryWasPublished'
      /\ Cardinality(Pruners') \in Nat
      /\ unpruned' \in Nat => History!TypeOK'
  BY <1>1, <1>2, SaverRests
<1>4. History!TypeOK' /\ unpruned' \in Nat
  BY <1>0, <1>1, <1>3 DEF History!TypeOK
<1>5. History!RetentionBounded'
  <2>1. Cardinality(saved') \in Nat /\ Cardinality(saved') <= Limit
    BY <1>0, <1>1, PruneLeavesLimit
  <2>2. Cardinality(saved') <= Limit + Cardinality(Pruners') + unpruned'
    BY <1>3, <1>4, <2>1, HistoryCardinality DEF History!HistoryAssumption
  <2> QED
    BY <2>2, HistoryCardinality DEF History!RetentionBounded, Pruners
<1>6. VersionsAreIds'
  <2> SUFFICES ASSUME ~overlapped, failures = 0 PROVE VersionsAreIds'
    BY <1>1, <1>3 DEF VersionsAreIds
  <2>1. lastSaved > 0 => \E row \in saved' : row.id = lastSaved
    <3> SUFFICES ASSUME lastSaved > 0 PROVE \E row \in saved' : row.id = lastSaved
      OBVIOUS
    <3>1. PICK row \in saved : row.id = lastSaved
      BY <1>0 DEF VersionsAreIds
    <3>2. History!NewerThan(row) = {}
      <4>1. \A other \in saved : other.id \in Nat /\ other.id <= lastSaved /\ lastSaved \in Nat
        BY <1>0 DEF History!TypeOK, History!Row, RowsAreNumbered
      <4> QED
        BY <3>1, <4>1 DEF History!NewerThan
    <3>3. Cardinality(History!NewerThan(row)) < Limit
      BY <3>2, FS_EmptySet, HistoryCardinality DEF History!HistoryAssumption
    <3> QED
      BY <1>1, <3>1, <3>3
  <2>2. \A row \in saved' : row.version = row.id
    BY <1>0, <1>2 DEF VersionsAreIds
  <2>3. \A t \in Saver : pc'[t] = "idle"
    BY <1>0, <1>3 DEF VersionsAreIds
  <2> QED
    BY <1>1, <2>1, <2>2, <2>3 DEF VersionsAreIds
<1> QED
  BY <1>3, <1>4, <1>5, <1>6 DEF HistoryInv

LEMMA PruneFailsKeeps ==
  ASSUME History!HistoryAssumption, HistoryInv, NEW s \in Saver, History!PruneFails(s)
  PROVE  HistoryInv'
<1>0. /\ History!TypeOK /\ RowsAreNumbered /\ IdsSuffice
      /\ History!HistoryWasPublished /\ History!RetentionBounded /\ VersionsAreIds
  BY DEF HistoryInv
<1>1. /\ History!Rest(s) /\ UNCHANGED <<saved, lastSaved>> /\ unpruned' = unpruned + 1 /\
           History!Fault
  BY DEF History!PruneFails
<1>2. failures' \in 0..MaxFaults /\ failures' > 0 /\ saved' \in SUBSET saved
  BY <1>0, <1>1, FaultCounts
<1>3. /\ RowsAreNumbered' /\ IdsSuffice' /\ History!HistoryWasPublished'
      /\ Cardinality(Pruners') = Cardinality(Pruners) - 1
      /\ Cardinality(Pruners) \in Nat /\ Cardinality(Pruners') \in Nat
      /\ unpruned' \in Nat => History!TypeOK'
  BY <1>1, <1>2, SaverRests
<1>4. unpruned \in Nat /\ unpruned' \in Nat /\ History!TypeOK'
  BY <1>0, <1>1, <1>3 DEF History!TypeOK
<1>5. History!RetentionBounded'
  <2>1. Cardinality(saved) \in Nat
    BY <1>0, FS_CardinalityType DEF RowsAreNumbered
  <2>2. Cardinality(saved) <= Limit + Cardinality(Pruners) + unpruned
    BY <1>0, HistoryCardinality DEF History!RetentionBounded, Pruners
  <2>3. Cardinality(saved') <= Limit + Cardinality(Pruners') + unpruned'
    BY <1>1, <1>3, <1>4, <2>1, <2>2, HistoryCardinality DEF History!HistoryAssumption
  <2> QED
    BY <2>3, HistoryCardinality DEF History!RetentionBounded, Pruners
<1>6. VersionsAreIds'
  BY <1>2 DEF VersionsAreIds
<1> QED
  BY <1>3, <1>4, <1>5, <1>6 DEF HistoryInv

(* Savers that had inserted will not prune any more: they are counted. *)
LEMMA CrashKeeps ==
  ASSUME History!HistoryAssumption, HistoryInv, History!Crash PROVE HistoryInv'
<1>0. /\ History!TypeOK /\ RowsAreNumbered /\ IdsSuffice
      /\ History!HistoryWasPublished /\ History!RetentionBounded /\ VersionsAreIds
  BY DEF HistoryInv
<1>1. /\ History!Fault /\ live' = NoContent
      /\ pc' = [s \in Saver |-> "idle"]
      /\ saving' = [s \in Saver |-> NoContent]
      /\ highest' = [s \in Saver |-> 0]
      /\ unpruned' = unpruned + Cardinality(Pruners)
      /\ UNCHANGED <<saved, lastSaved, pushed, overlapped>>
  BY HistoryCardinality DEF History!Crash, Pruners
<1>2. Cardinality(Pruners) \in Nat /\ Cardinality(Inserters) \in Nat
  BY SaversFinite
<1>3. unpruned \in Nat /\ unpruned' \in Nat /\ failures' \in 0..MaxFaults /\ failures' > 0
  BY <1>0, <1>1, <1>2, FaultCounts DEF History!TypeOK
<1>4. History!TypeOK'
  <2>1. /\ pc' \in [Saver -> {"idle", "read", "insert", "prune"}]
        /\ saving' \in [Saver -> Content \cup {NoContent}]
        /\ highest' \in [Saver -> 0..MaxSaved]
    BY <1>1, HistoryCardinality DEF History!HistoryAssumption
  <2> QED
    BY <1>0, <1>1, <1>3, <2>1 DEF History!TypeOK
<1>5. RowsAreNumbered' /\ History!HistoryWasPublished'
  BY <1>0, <1>1 DEF RowsAreNumbered, History!TypeOK, History!HistoryWasPublished
<1>6. Inserters' = {} /\ Pruners' = {} /\ Cardinality(Inserters') = 0 /\ Cardinality(Pruners') = 0
  <2>1. Inserters' = {} /\ Pruners' = {}
    BY <1>1 DEF Inserters, Pruners
  <2> QED
    BY <2>1, FS_EmptySet
<1>7. IdsSuffice'
  <2>1. lastSaved \in Nat /\ MaxSaved \in Nat
    BY <1>0, HistoryCardinality DEF History!TypeOK, History!HistoryAssumption
  <2> QED
    BY <1>0, <1>1, <1>2, <1>6, <2>1 DEF IdsSuffice
<1>8. History!RetentionBounded'
  <2>1. Cardinality(saved) \in Nat
    BY <1>0, FS_CardinalityType DEF RowsAreNumbered
  <2>2. Cardinality(saved) <= Limit + Cardinality(Pruners) + unpruned
    BY <1>0, HistoryCardinality DEF History!RetentionBounded, Pruners
  <2>3. Cardinality(saved') <= Limit + Cardinality(Pruners') + unpruned'
    BY <1>1, <1>2, <1>3, <1>6, <2>1, <2>2, HistoryCardinality DEF History!HistoryAssumption
  <2> QED
    BY <2>3, HistoryCardinality DEF History!RetentionBounded, Pruners
<1>9. VersionsAreIds'
  BY <1>3 DEF VersionsAreIds
<1> QED
  BY <1>4, <1>5, <1>7, <1>8, <1>9 DEF HistoryInv

LEMMA HistoryStep ==
  ASSUME History!HistoryAssumption PROVE HistoryInv /\ [History!Next]_(History!vars) => HistoryInv'
<1> SUFFICES ASSUME HistoryInv, [History!Next]_(History!vars) PROVE HistoryInv'
  OBVIOUS
<1>1. ASSUME NEW s \in Saver, NEW c \in Content, History!PushAndSave(s, c) PROVE HistoryInv'
  BY <1>1, SaverStarts DEF History!PushAndSave
<1>2. ASSUME NEW s \in Saver, NEW row \in saved, History!Rollback(s, row) PROVE HistoryInv'
  <2>1. row.content \in Content
    BY DEF HistoryInv, History!TypeOK, History!Row
  <2> QED
    BY <1>2, <2>1, SaverStarts DEF History!Rollback
<1>3. CASE UNCHANGED History!vars
  <2>1. UNCHANGED <<saved, lastSaved, live, pc, saving, highest, pushed, unpruned, overlapped,
                    failures>>
    BY <1>3 DEF History!vars, History!saver
  <2>2. History!TypeOK'
    BY <2>1 DEF HistoryInv, History!TypeOK
  <2>3. RowsAreNumbered' /\ IdsSuffice' /\ History!HistoryWasPublished' /\ History!RetentionBounded'
    BY <2>1, HistoryCardinality
    DEF HistoryInv, RowsAreNumbered, IdsSuffice, Inserters, History!HistoryWasPublished,
                History!RetentionBounded
  <2>4. VersionsAreIds'
    BY <2>1 DEF HistoryInv, VersionsAreIds
  <2> QED
    BY <2>2, <2>3, <2>4 DEF HistoryInv
<1> QED
  BY <1>1, <1>2, <1>3, PushOnlyKeeps, ReadMaxKeeps, SaverInserts, SaverInsertFails, PruneKeeps,
     PruneFailsKeeps, CrashKeeps
  DEF History!Next

(* The newest row outlives every step. *)
LEMMA NewestStep ==
  ASSUME History!HistoryAssumption, [History!Next]_(History!vars), NEW row \in saved,
           History!NewerThan(row) = {}
  PROVE  row \in saved'
<1>1. ASSUME NEW s \in Saver, History!Prune(s) PROVE row \in saved'
  BY <1>1, FS_EmptySet, HistoryCardinality DEF History!Prune, History!HistoryAssumption
<1>2. CASE ~\E s \in Saver : History!Prune(s)
  BY <1>2, HistoryCardinality
  DEF History!Next, History!vars, History!PushAndSave, History!Rollback, History!StartSaver,
      History!ReadMax, History!Insert, History!ReadFails,
              History!InsertFails, History!PruneFails, History!PushOnly, History!Crash
<1> QED
  BY <1>1, <1>2

-----------------------------------------------------------------------------
(* Backup and restore.                                                     *)
Distinct(t, given) == \A a, b \in given : a # b => ~Backup!Clash(t, a, b)

(* Tables as the database can hold them. *)
Sound(db) ==
  Backup!IsTables(db) /\ \A t \in Backup!Table : Distinct(t, db[t])

(* Whatever is read, stored, restored or half restored was once a state of *)
(* tables, or a part of one.                                               *)
BackupInv ==
  /\ Sound(tables) /\ Sound(read) /\ Sound(draft)
  /\ bundle # NoBundle => Sound(bundle.rows)
  /\ restoring # NoBundle => Sound(restoring.rows)
  /\ tx # "none" => restoring # NoBundle
  /\ lastId \in [Backup!Table -> Nat]

LEMMA EmptyIsSound == Sound(Backup!Empty)
BY DEF Sound, Backup!Empty, Backup!IsTables, Distinct

LEMMA BackupInit == Backup!Init => BackupInv
BY EmptyIsSound DEF Backup!Init, BackupInv

(* Replacing one table by rows that may be there keeps a database sound. *)
LEMMA SoundExcept ==
  ASSUME NEW db, Sound(db), NEW t \in Backup!Table, NEW given \in SUBSET Backup!Row(t),
         Distinct(t, given)
  PROVE  Sound([db EXCEPT ![t] = given])
BY DEF Sound, Backup!IsTables

(* Fewer rows are as distinct. *)
LEMMA DistinctSubset ==
  ASSUME NEW t \in Backup!Table, NEW given, NEW fewer \in SUBSET given, Distinct(t, given)
  PROVE  Distinct(t, fewer)
BY DEF Distinct

(* A row that a restore updates keeps its id, its key and the columns that *)
(* ON CONFLICT leaves alone.                                               *)
LEMMA UpdatedRow ==
  ASSUME NEW t \in Backup!Table, NEW given \in SUBSET Backup!Row(t), NEW other \in Backup!Row(t)
  PROVE  /\ Backup!Updated(t, other, given) \in Backup!Row(t)
         /\ Backup!Updated(t, other, given).id = other.id
         /\ Backup!Updated(t, other, given).key = other.key
         /\ Backup!Updated(t, other, given).fixed = other.fixed
<1>1. CASE \E row \in given : Backup!Target(t, row, other)
  <2> DEFINE row == CHOOSE row \in given : Backup!Target(t, row, other)
  <2>1. row \in given
    BY <1>1
  <2>2. Backup!Updated(t, other, given) = [other EXCEPT !.value = row.value]
    BY <1>1 DEF Backup!Updated
  <2> HIDE DEF row
  <2> QED
    BY <2>1, <2>2 DEF Backup!Row
<1>2. CASE ~\E row \in given : Backup!Target(t, row, other)
  BY <1>2 DEF Backup!Updated
<1> QED
  BY <1>1, <1>2

(* An upsert none of whose rows is rejected keeps the rows distinct.       *)
LEMMA UpsertDistinct ==
  ASSUME NEW t \in Backup!Table, NEW given \in SUBSET Backup!Row(t),
           NEW old \in SUBSET Backup!Row(t),
         Distinct(t, given), Distinct(t, old), Backup!Rejected(t, given, old) = {}
  PROVE  Backup!Upsert(t, given, old) \in SUBSET Backup!Row(t) /\
           Distinct(t, Backup!Upsert(t, given, old))
<1> DEFINE upd(other) == Backup!Updated(t, other, given)
           ins == Backup!Inserted(t, given, old)
<1>1. \A other \in old : /\ upd(other) \in Backup!Row(t)
                         /\ upd(other).id = other.id
                         /\ upd(other).key = other.key
  BY UpdatedRow
<1>2. ins \subseteq given /\ \A row \in ins, other \in old : ~Backup!Clash(t, row, other)
  BY DEF Backup!Inserted, Backup!Rejected
<1>3. Backup!Upsert(t, given, old) = {upd(other) : other \in old} \cup ins
  BY DEF Backup!Upsert
<1> HIDE DEF upd, ins
<1>4. ASSUME NEW a \in Backup!Upsert(t, given, old), NEW b \in Backup!Upsert(t, given, old), a # b
      PROVE  ~Backup!Clash(t, a, b)
  <2>1. CASE a \in ins /\ b \in ins
    BY <1>2, <1>4, <2>1 DEF Distinct
  <2>2. ASSUME NEW row \in ins, NEW other \in old
        PROVE  ~Backup!Clash(t, row, upd(other)) /\ ~Backup!Clash(t, upd(other), row)
    BY <1>1, <1>2 DEF Backup!Clash
  <2>3. ASSUME NEW x \in old, NEW y \in old, upd(x) # upd(y)
        PROVE  ~Backup!Clash(t, upd(x), upd(y))
    <3>1. x # y /\ ~Backup!Clash(t, x, y)
      BY <2>3 DEF Distinct
    <3> QED
      BY <1>1, <3>1 DEF Backup!Clash
  <2> QED
    BY <1>3, <1>4, <2>1, <2>2, <2>3
<1> QED
  BY <1>1, <1>2, <1>3, <1>4 DEF Distinct

(* A handler's write. *)
LEMMA WriteKeeps ==
  ASSUME BackupInv, NEW t \in Backup!Table,
         \/ \E k \in Key, v \in Value[t], x \in Fixed[t] : Backup!Create(t, k, v, x)
         \/ \E row \in tables[t], v \in Value[t], x \in Fixed[t] : Backup!Modify(t, row, v, x)
         \/ \E row \in tables[t] : Backup!Delete(t, row)
  PROVE  BackupInv'
<1>0. tables[t] \in SUBSET Backup!Row(t) /\ Distinct(t, tables[t]) /\ lastId[t] \in Nat
  BY DEF BackupInv, Sound, Backup!IsTables
<1>1. Sound(tables') /\ lastId' \in [Backup!Table -> Nat]
  <2>1. ASSUME NEW k \in Key, NEW v \in Value[t], NEW x \in Fixed[t], Backup!Create(t, k, v, x)
        PROVE  Sound(tables') /\ lastId' \in [Backup!Table -> Nat]
    <3> DEFINE row == [id |-> lastId[t] + 1, key |-> k, value |-> v, fixed |-> x]
    <3>1. /\ lastId' = [lastId EXCEPT ![t] = @ + 1]
          /\ tables' = IF \E other \in tables[t] : Backup!Clash(t, row, other) THEN tables
                       ELSE [tables EXCEPT ![t] = tables[t] \cup {row}]
      BY <2>1 DEF Backup!Create
    <3>2. row \in Backup!Row(t)
      BY <1>0 DEF Backup!Row
    <3> HIDE DEF row
    <3>3. CASE \E other \in tables[t] : Backup!Clash(t, row, other)
      BY <3>1, <3>3 DEF BackupInv
    <3>4. CASE ~\E other \in tables[t] : Backup!Clash(t, row, other)
      <4>1. Distinct(t, tables[t] \cup {row})
        BY <1>0, <3>4 DEF Distinct, Backup!Clash
      <4>2. tables[t] \cup {row} \in SUBSET Backup!Row(t)
        BY <1>0, <3>2
      <4>3. Sound([tables EXCEPT ![t] = tables[t] \cup {row}])
        BY <4>1, <4>2, SoundExcept DEF BackupInv
      <4>4. tables' = [tables EXCEPT ![t] = tables[t] \cup {row}]
        BY <3>1, <3>4
      <4>5. lastId' \in [Backup!Table -> Nat]
        BY <1>0, <3>1 DEF BackupInv
      <4> QED
        BY <4>3, <4>4, <4>5
    <3> QED
      BY <3>1, <3>3, <3>4 DEF BackupInv
  <2>2. ASSUME NEW row \in tables[t], NEW v \in Value[t], NEW x \in Fixed[t],
               Backup!Modify(t, row, v, x)
        PROVE  Sound(tables') /\ lastId' \in [Backup!Table -> Nat]
    <3> DEFINE new == [row EXCEPT !.value = v, !.fixed = x]
    <3>1. /\ tables' = [tables EXCEPT ![t] = (tables[t] \ {row}) \cup {new}]
          /\ lastId' = lastId
      BY <2>2 DEF Backup!Modify
    <3>2. new \in Backup!Row(t) /\ new.id = row.id /\ new.key = row.key
      BY <1>0 DEF Backup!Row
    <3> HIDE DEF new
    <3>3. Distinct(t, (tables[t] \ {row}) \cup {new})
      BY <1>0, <3>2 DEF Distinct, Backup!Clash
    <3> QED
      BY <1>0, <3>1, <3>2, <3>3, SoundExcept DEF BackupInv
  <2>3. ASSUME NEW row \in tables[t], Backup!Delete(t, row)
        PROVE  Sound(tables') /\ lastId' \in [Backup!Table -> Nat]
    <3>1. /\ tables' = [tables EXCEPT ![t] = tables[t] \ {row}]
          /\ lastId' = lastId
      BY <2>3 DEF Backup!Delete
    <3>2. Distinct(t, tables[t] \ {row})
      BY <1>0, DistinctSubset
    <3> QED
      BY <1>0, <3>1, <3>2, SoundExcept DEF BackupInv
  <2> QED
    BY <2>1, <2>2, <2>3
<1>2. UNCHANGED <<Backup!export, bundle, Backup!restore>>
  BY DEF Backup!Create, Backup!Modify, Backup!Delete, Backup!MayWrite
<1> QED
  BY <1>1, <1>2 DEF BackupInv, Backup!export, Backup!restore

(* What an export has read of a table is what the table held, or nothing.  *)
LEMMA ExportKeeps ==
  ASSUME BackupInv, NEW t \in Backup!Table, Backup!ExportTable(t) \/ Backup!ExportFails(t)
  PROVE  BackupInv'
<1>1. PICK given \in {tables[t], {}} : Backup!Exported(t, given)
  BY DEF Backup!ExportTable, Backup!ExportFails
<1>2. given \in SUBSET Backup!Row(t) /\ Distinct(t, given)
  BY <1>1 DEF BackupInv, Sound, Backup!IsTables, Distinct
<1>3. Sound([read EXCEPT ![t] = given])
  BY <1>2, SoundExcept DEF BackupInv
<1>4. UNCHANGED <<tables, lastId, Backup!restore>>
  BY <1>1 DEF Backup!Exported
<1>5. CASE exporting = {t}
  <2>1. bundle' = [rows |-> [read EXCEPT ![t] = given], intact |-> TRUE] /\ read' = Backup!Empty
    BY <1>1, <1>5 DEF Backup!Exported
  <2>2. bundle'.rows = [read EXCEPT ![t] = given]
    BY <2>1
  <2> QED
    BY <1>3, <1>4, <2>1, <2>2, EmptyIsSound DEF BackupInv, Backup!restore
<1>6. CASE exporting # {t}
  <2>1. read' = [read EXCEPT ![t] = given] /\ UNCHANGED bundle
    BY <1>1, <1>6 DEF Backup!Exported
  <2> QED
    BY <1>3, <1>4, <2>1 DEF BackupInv, Backup!restore
<1> QED
  BY <1>5, <1>6

(* A bundle that lost a row in storage. *)
LEMMA DamageKeeps ==
  ASSUME BackupInv, NEW t \in Backup!Table, bundle # NoBundle, NEW row, Backup!Damage(t, row)
  PROVE  BackupInv'
<1> DEFINE rest == bundle.rows[t] \ {row}
<1>1. /\ bundle' = [rows |-> [bundle.rows EXCEPT ![t] = rest], intact |-> FALSE]
      /\ UNCHANGED <<tables, lastId, Backup!export, Backup!restore>>
  BY DEF Backup!Damage
<1>2. Sound(bundle.rows)
  BY DEF BackupInv
<1>3. rest \in SUBSET Backup!Row(t) /\ Distinct(t, rest)
  BY <1>2, DistinctSubset DEF Sound, Backup!IsTables
<1> HIDE DEF rest
<1>4. Sound(bundle'.rows)
  BY <1>1, <1>2, <1>3, SoundExcept
<1> QED
  BY <1>1, <1>4 DEF BackupInv, Backup!export, Backup!restore

LEMMA RestoreTableKeeps ==
  ASSUME BackupInv, NEW t \in Backup!Table, Backup!RestoreTable(t)
  PROVE  BackupInv'
<1> DEFINE given == restoring.rows[t]
           old == draft[t]
<1>1. /\ tx # "none"
      /\ UNCHANGED <<tables, lastId, Backup!export, bundle, restoring>>
      /\ tx' = tx \/ tx' = "aborted"
  BY DEF Backup!RestoreTable
<1>2. Sound(restoring.rows) /\ Sound(draft)
  BY <1>1 DEF BackupInv
<1>3. /\ given \in SUBSET Backup!Row(t) /\ Distinct(t, given)
      /\ old \in SUBSET Backup!Row(t) /\ Distinct(t, old)
  BY <1>2 DEF Sound, Backup!IsTables
<1>4. Sound(draft')
  <2>1. CASE tx = "aborted" \/ Backup!Rejected(t, given, old) # {}
    BY <1>2, <2>1 DEF Backup!RestoreTable
  <2>2. CASE ~(tx = "aborted" \/ Backup!Rejected(t, given, old) # {})
    <3>1. draft' = [draft EXCEPT ![t] = Backup!Upsert(t, given, old)]
      BY <2>2 DEF Backup!RestoreTable
    <3> HIDE DEF given, old
    <3> QED
      BY <1>2, <1>3, <2>2, <3>1, UpsertDistinct, SoundExcept
  <2> QED
    BY <2>1, <2>2
<1> QED
  BY <1>1, <1>4 DEF BackupInv, Backup!export

LEMMA BackupStep == BackupInv /\ [Backup!Next]_(Backup!vars) => BackupInv'
<1> SUFFICES ASSUME BackupInv, [Backup!Next]_(Backup!vars) PROVE BackupInv'
  OBVIOUS
<1>1. CASE Backup!BeginExport
  BY <1>1, EmptyIsSound DEF Backup!BeginExport, BackupInv, Backup!restore
<1>2. CASE Backup!Reinstall
  BY <1>2, EmptyIsSound DEF Backup!Reinstall, BackupInv, Backup!restore
<1>3. CASE Backup!BeginRestore
  BY <1>3 DEF Backup!BeginRestore, BackupInv, Backup!export
<1>4. CASE Backup!Commit
  BY <1>4, EmptyIsSound DEF Backup!Commit, BackupInv, Backup!export
<1>5. CASE UNCHANGED Backup!vars
  BY <1>5 DEF Backup!vars, Backup!export, Backup!restore, BackupInv
<1> QED
  BY <1>1, <1>2, <1>3, <1>4, <1>5, WriteKeeps, ExportKeeps, DamageKeeps,
     RestoreTableKeeps DEF Backup!Next

(* No two rows of a table share an id or a key. *)
LEMMA BackupDistinct == BackupInv => Backup!RowsAreDistinct
BY DEF BackupInv, Sound, Distinct, Backup!RowsAreDistinct

-----------------------------------------------------------------------------
LEMMA BackupTypesInit ==
  ASSUME Backup!BackupAssumption, Backup!Init PROVE Backup!TypeOK
<1>1. Backup!IsTables(Backup!Empty)
  BY EmptyIsSound DEF Sound
<1>2. \A t \in Backup!Table : lastId[t] \in 0..MaxId[t]
  BY DEF Backup!Init, Backup!BackupAssumption
<1>3. faults \in 0..MaxFaults
  BY DEF Backup!Init, Backup!BackupAssumption
<1> QED
  BY <1>1, <1>2, <1>3 DEF Backup!Init, Backup!TypeOK, Backup!IsBundle

(* A bundle is read whole: its rows are tables, and it knows if it is      *)
(* intact.                                                                 *)
LEMMA BundleStep ==
  ASSUME Backup!TypeOK, BackupInv', [Backup!Next]_(Backup!vars)
  PROVE  Backup!IsBundle(bundle') /\ Backup!IsBundle(restoring')
<1>1. bundle' = bundle \/ (\E given : \E b \in BOOLEAN : bundle' = [rows |-> given, intact |-> b])
  BY
  DEF Backup!Next, Backup!vars, Backup!restore, Backup!MayWrite, Backup!Create, Backup!Modify,
      Backup!Delete, Backup!BeginExport, Backup!Exported,
         Backup!ExportTable, Backup!ExportFails, Backup!Damage, Backup!Reinstall,
           Backup!BeginRestore, Backup!RestoreTable, Backup!Commit
<1>2. restoring' = restoring \/ restoring' = bundle \/ restoring' = NoBundle
  BY
  DEF Backup!Next, Backup!vars, Backup!restore, Backup!MayWrite, Backup!Create, Backup!Modify,
      Backup!Delete, Backup!BeginExport, Backup!Exported,
         Backup!ExportTable, Backup!ExportFails, Backup!Damage, Backup!Reinstall,
           Backup!BeginRestore, Backup!RestoreTable, Backup!Commit
<1>3. Backup!IsBundle(bundle')
  BY <1>1 DEF Backup!TypeOK, Backup!IsBundle, BackupInv, Sound
<1>4. Backup!IsBundle(restoring')
  BY <1>2 DEF Backup!TypeOK, Backup!IsBundle
<1> QED
  BY <1>3, <1>4

LEMMA BackupTypesStep ==
  ASSUME Backup!BackupAssumption, Backup!TypeOK, BackupInv, BackupInv', [Backup!Next]_(Backup!vars)
  PROVE  Backup!TypeOK'
<1>1. Backup!IsTables(tables') /\ Backup!IsTables(read') /\ Backup!IsTables(draft')
  BY DEF BackupInv, Sound
<1>2. Backup!IsBundle(bundle') /\ Backup!IsBundle(restoring')
  BY BundleStep
<1>3. \A t \in Backup!Table : lastId'[t] \in 0..MaxId[t]
  <2>1. \A t \in Backup!Table : lastId[t] \in 0..MaxId[t] /\ MaxId[t] \in Nat
    BY DEF Backup!TypeOK, Backup!BackupAssumption
  <2>2. \/ lastId' = lastId
        \/ lastId' = [t \in Backup!Table |-> 0]
        \/ \E t \in Backup!Table : lastId[t] < MaxId[t] /\ lastId' = [lastId EXCEPT ![t] = @ + 1]
    BY
    DEF Backup!Next, Backup!vars, Backup!restore, Backup!MayWrite, Backup!Create, Backup!Modify,
        Backup!Delete, Backup!BeginExport, Backup!Exported,
           Backup!ExportTable, Backup!ExportFails, Backup!Damage, Backup!Reinstall,
             Backup!BeginRestore, Backup!RestoreTable, Backup!Commit
  <2>3. ASSUME NEW t \in Backup!Table, lastId[t] < MaxId[t], lastId' = [lastId EXCEPT ![t] = @ + 1],
               NEW u \in Backup!Table
        PROVE  lastId'[u] \in 0..MaxId[u]
    BY <2>1, <2>3 DEF BackupInv
  <2> QED
    BY <2>1, <2>2, <2>3
<1>4. /\ exporting' \subseteq Backup!Table
      /\ tx' \in {"none", "open", "aborted"}
      /\ left' \subseteq Backup!Table
      /\ faults' = faults \/ (faults < MaxFaults /\ faults' = faults + 1)
  BY
  DEF Backup!TypeOK, Backup!Next, Backup!vars, Backup!export, Backup!restore, Backup!MayWrite,
      Backup!Create, Backup!Modify, Backup!Delete, Backup!BeginExport,
         Backup!Exported, Backup!ExportTable, Backup!ExportFails, Backup!Damage, Backup!Reinstall,
           Backup!BeginRestore, Backup!RestoreTable,
         Backup!Commit, Backup!Fault
<1>5. faults' \in 0..MaxFaults
  BY <1>4 DEF Backup!TypeOK, Backup!BackupAssumption
<1> QED
  BY <1>1, <1>2, <1>3, <1>4, <1>5 DEF Backup!TypeOK

-----------------------------------------------------------------------------
(* While a restore is open its draft is the tables as they are, but for    *)
(* those it is through with, which have every row of the bundle.           *)
DraftIsComplete ==
  tx = "open" => \A t \in Backup!Table :
    IF t \in left THEN draft[t] = tables[t]
    ELSE /\ Backup!Restored(t, restoring.rows[t], tables[t], draft[t])
         /\ Backup!Retained(tables[t], draft[t])

(* An upsert inserts every row or updates the one in its place, and        *)
(* retains every row.                                                      *)
LEMMA UpsertComplete ==
  ASSUME NEW t \in Backup!Table, NEW given \in SUBSET Backup!Row(t),
           NEW old \in SUBSET Backup!Row(t),
         Distinct(t, given)
  PROVE  /\ Backup!Restored(t, given, old, Backup!Upsert(t, given, old))
         /\ Backup!Retained(old, Backup!Upsert(t, given, old))
<1>1. Backup!Upsert(t, given, old) = {Backup!Updated(t, other, given) :
        other \in old} \cup Backup!Inserted(t, given, old)
  BY DEF Backup!Upsert
<1>2. \A other \in old : Backup!Updated(t, other, given) \in Backup!Upsert(t, given, old)
  BY <1>1
<1>3. ASSUME NEW row \in given
      PROVE  \/ row \in Backup!Upsert(t, given, old)
             \/ \E other \in old :
                  /\ Backup!Target(t, row, other)
                  /\ [other EXCEPT !.value = row.value] \in Backup!Upsert(t, given, old)
  <2>1. CASE row \in Backup!Inserted(t, given, old)
    BY <1>1, <2>1
  <2>2. CASE row \notin Backup!Inserted(t, given, old)
    <3>1. PICK other \in old : Backup!Target(t, row, other)
      BY <2>2 DEF Backup!Inserted
    <3>2. PICK source : source = CHOOSE r \in given : Backup!Target(t, r, other)
      OBVIOUS
    <3>3. source \in given /\ Backup!Target(t, source, other)
      BY <3>1, <3>2
    <3>4. source = row
      BY <3>1, <3>3 DEF Backup!Target, Distinct, Backup!Clash
    <3>5. Backup!Updated(t, other, given) = [other EXCEPT !.value = row.value]
      BY <3>1, <3>2, <3>4 DEF Backup!Updated
    <3> QED
      BY <1>2, <3>1, <3>5
  <2> QED
    BY <2>1, <2>2
<1>4. Backup!Restored(t, given, old, Backup!Upsert(t, given, old))
  BY <1>3 DEF Backup!Restored
<1>5. ASSUME NEW other \in old
      PROVE  \E row \in Backup!Upsert(t, given, old) :
               row.id = other.id /\ row.key = other.key /\ row.fixed = other.fixed
  BY <1>2, UpdatedRow
<1> QED
  BY <1>4, <1>5 DEF Backup!Retained

LEMMA RestoreTableCompletes ==
  ASSUME BackupInv, DraftIsComplete, NEW t \in Backup!Table, Backup!RestoreTable(t)
  PROVE  DraftIsComplete'
<1>1. PICK given, old : given = restoring.rows[t] /\ old = draft[t]
  OBVIOUS
<1>2. /\ tx # "none" /\ t \in left /\ left' = left \ {t}
      /\ UNCHANGED <<tables, restoring>>
  BY DEF Backup!RestoreTable
<1>3. CASE tx' # "open"
  BY <1>3 DEF DraftIsComplete
<1>4. CASE tx' = "open"
  <2>1. tx = "open" /\ draft' = [draft EXCEPT ![t] = Backup!Upsert(t, given, old)]
    BY <1>1, <1>4 DEF Backup!RestoreTable
  <2>2. Sound(restoring.rows) /\ Sound(draft)
    BY <1>2 DEF BackupInv
  <2>3. /\ given \in SUBSET Backup!Row(t) /\ Distinct(t, given)
        /\ old \in SUBSET Backup!Row(t)
    BY <1>1, <2>2 DEF Sound, Backup!IsTables
  <2>4. old = tables[t]
    BY <1>1, <1>2, <2>1 DEF DraftIsComplete
  <2>5. /\ Backup!Restored(t, given, old, Backup!Upsert(t, given, old))
        /\ Backup!Retained(old, Backup!Upsert(t, given, old))
    BY <2>3, UpsertComplete
  <2>6. draft'[t] = Backup!Upsert(t, given, old) /\ \A u \in Backup!Table \ {t} :
          draft'[u] = draft[u]
    BY <2>1, <2>2 DEF Sound, Backup!IsTables
  <2>7. t \notin left' /\ \A u \in Backup!Table \ {t} : u \in left' <=> u \in left
    BY <1>2
  <2>8. ASSUME NEW u \in Backup!Table
        PROVE  IF u \in left' THEN draft'[u] = tables[u]
               ELSE /\ Backup!Restored(u, restoring.rows[u], tables[u], draft'[u])
                    /\ Backup!Retained(tables[u], draft'[u])
    <3>1. CASE u = t
      BY <1>1, <2>4, <2>5, <2>6, <2>7, <3>1
    <3>2. CASE u # t
      BY <2>1, <2>6, <2>7, <3>2 DEF DraftIsComplete
    <3> QED
      BY <3>1, <3>2
  <2> QED
    BY <1>2, <2>8 DEF DraftIsComplete
<1> QED
  BY <1>3, <1>4

LEMMA DraftStep ==
  ASSUME BackupInv, DraftIsComplete, [Backup!Next]_(Backup!vars) PROVE DraftIsComplete'
<1>1. CASE Backup!BeginRestore
  <2>1. left' = Backup!Table /\ draft' = tables /\ tables' = tables
    BY <1>1 DEF Backup!BeginRestore
  <2> QED
    BY <2>1 DEF DraftIsComplete
<1>2. CASE tx' # "open"
  BY <1>2 DEF DraftIsComplete
<1>3. CASE tx' = "open" /\ UNCHANGED <<tables, tx, left, restoring, draft>>
  BY <1>3 DEF DraftIsComplete
<1>4. \/ Backup!BeginRestore \/ tx' # "open" \/ UNCHANGED <<tables, tx, left, restoring, draft>>
      \/ \E t \in Backup!Table : Backup!RestoreTable(t)
  BY
  DEF Backup!Next, Backup!vars, Backup!restore, Backup!MayWrite, Backup!Create, Backup!Modify,
      Backup!Delete, Backup!BeginExport, Backup!Exported,
         Backup!ExportTable, Backup!ExportFails, Backup!Damage, Backup!Reinstall, Backup!Commit
<1> QED
  BY <1>1, <1>2, <1>3, <1>4, RestoreTableCompletes

(* What the end of a restore leaves. *)
LEMMA AtomicStep ==
  ASSUME Backup!TypeOK, DraftIsComplete, [Backup!Next]_(Backup!vars), Backup!Ends
  PROVE  \/ tables' = tables
         \/ \A t \in Backup!Table :
              /\ Backup!Restored(t, restoring.rows[t], tables[t], tables'[t])
              /\ Backup!Retained(tables[t], tables'[t])
<1>1. Backup!Commit
  BY
  DEF Backup!Ends, Backup!Next, Backup!vars, Backup!restore, Backup!MayWrite, Backup!Create,
      Backup!Modify, Backup!Delete, Backup!BeginExport, Backup!Exported,
         Backup!ExportTable, Backup!ExportFails, Backup!Damage, Backup!Reinstall,
           Backup!BeginRestore, Backup!RestoreTable
<1>2. CASE tx = "open"
  <2>1. tables' = draft /\ left = {}
    BY <1>1, <1>2 DEF Backup!Commit
  <2> QED
    BY <1>2, <2>1 DEF DraftIsComplete
<1>3. CASE tx # "open"
  BY <1>1, <1>3 DEF Backup!Commit
<1> QED
  BY <1>2, <1>3

-----------------------------------------------------------------------------
(* The assembled text.  A section asks for one directive for each of some  *)
(* of its rows, or for each of its ids.                                    *)
Section == Assembly!Numbered \cup Assembly!Authored

Asked(s) ==
  IF s \in Assembly!Numbered THEN {n \in DOMAIN rows[s] : rows[s][n] # "none"} ELSE authored[s]

KeyOf(d) == IF d.section \in Assembly!Numbered THEN d.row ELSE d.id

(* The place of each section in the text. *)
Place == [learner |-> 0, blocked |-> 1, geo |-> 2, api |-> 3, bots |-> 4,
          indicators |-> 5, exceptions |-> 6, custom |-> 7, cve |-> 8, base |-> 9,
          dlp |-> 10]

Proper(d) ==
  /\ d \in Assembly!Directive
  /\ d.section \in Assembly!Numbered =>
       d.id = IF rows[d.section][d.row] = "rule" THEN Assembly!Number(d.section, d.row)
         ELSE Assembly!NoId

Of(u, s) == {i \in DOMAIN u : u[i].section = s}

(* A text has one directive for everything a section asks for. *)
Whole(u, s) ==
  /\ {KeyOf(u[i]) : i \in Of(u, s)} = Asked(s)
  /\ \A i, j \in Of(u, s) : KeyOf(u[i]) = KeyOf(u[j]) => i = j

IsPart(p, s) ==
  /\ p \in Seq(Assembly!Directive)
  /\ \A i \in DOMAIN p : Proper(p[i]) /\ p[i].section = s
  /\ s \in Section => Whole(p, s)

(* The sections from place k on are joined in their order. *)
JoinedFrom(u, k) ==
  /\ u \in Seq(Assembly!Directive)
  /\ \A i \in DOMAIN u : Proper(u[i]) /\ k <= Place[u[i].section]
  /\ \A i, j \in DOMAIN u : i < j => Place[u[i].section] <= Place[u[j].section]
  /\ \A s \in Section : k <= Place[s] => Whole(u, s)

TablesTyped ==
  /\ \A s \in Assembly!Numbered : rows[s] \in Seq(Assembly!Outcomes[s])
  /\ \A s \in Assembly!Authored : authored[s] \subseteq Written[s]

AssemblyInv ==
  /\ Assembly!TypeOK
  /\ DOMAIN rows = Assembly!Numbered /\ DOMAIN authored = Assembly!Authored
  /\ text # <<>> => JoinedFrom(text, 0)

-----------------------------------------------------------------------------
(* Every finite set of numbers can be listed in ascending order: otherwise *)
(* a smallest set that cannot would have a lowest number, and the list of  *)
(* the others would follow it.                                             *)
Ascends(f) == \A i, j \in DOMAIN f : i < j => f[i] < f[j]
Listed(S) == \E f \in [1..Cardinality(S) -> S] : Ascends(f)

LEMMA LowestFirst ==
  ASSUME NEW S \in SUBSET Nat, IsFiniteSet(S), NEW m \in S, \A y \in S : m <= y,
         Listed(S \ {m})
  PROVE  Listed(S)
<1> DEFINE T == S \ {m}
<1>1. IsFiniteSet(T) /\ Cardinality(T) = Cardinality(S) - 1 /\ Cardinality(S) \in Nat
  BY FS_RemoveElement, FS_CardinalityType
<1>2. PICK n \in Nat : n = Cardinality(S)
  BY <1>1
<1>3. PICK f \in [1..n - 1 -> T] : Ascends(f)
  BY <1>1, <1>2 DEF Listed
<1> DEFINE g == [i \in 1..n |-> IF i = 1 THEN m ELSE f[i - 1]]
<1>4. \A i \in 1..n : i # 1 => i - 1 \in 1..n - 1 /\ f[i - 1] \in T
  BY <1>3
<1>5. g \in [1..n -> S]
  BY <1>4
<1>6. ASSUME NEW i \in 1..n, NEW j \in 1..n, i < j
      PROVE  g[i] < g[j]
  <2>1. j # 1 /\ j - 1 \in 1..n - 1 /\ f[j - 1] \in T /\ g[j] = f[j - 1]
    BY <1>4, <1>6
  <2>2. CASE i = 1
    <3>1. g[i] = m
      BY <2>2
    <3>2. m \in Nat /\ f[j - 1] \in Nat /\ m <= f[j - 1] /\ m # f[j - 1]
      BY <2>1
    <3> QED
      BY <2>1, <3>1, <3>2
  <2>3. CASE i # 1
    <3>1. i - 1 \in 1..n - 1 /\ g[i] = f[i - 1] /\ i - 1 < j - 1
      BY <1>4, <1>6, <2>3
    <3> QED
      BY <1>3, <2>1, <3>1 DEF Ascends
  <2> QED
    BY <2>2, <2>3
<1>7. Ascends(g)
  <2>1. DOMAIN g = 1..n
    OBVIOUS
  <2> HIDE DEF g
  <2> QED
    BY <1>6, <2>1 DEF Ascends
<1> QED
  BY <1>2, <1>5, <1>7 DEF Listed

LEMMA ListExists ==
  ASSUME NEW S \in SUBSET Nat, IsFiniteSet(S)
  PROVE  Listed(S)
<1> DEFINE Unlisted(n) ==
      \E T \in SUBSET Nat : IsFiniteSet(T) /\ Cardinality(T) = n /\ ~Listed(T)
<1> DEFINE Bad == {n \in Nat : Unlisted(n)}
<1> SUFFICES ASSUME ~Listed(S) PROVE FALSE
  OBVIOUS
<1>1. Cardinality(S) \in Bad
  BY FS_CardinalityType
<1>2. PICK n \in Bad : \A k \in Bad : n <= k
  <2>1. Bad \in SUBSET Nat /\ Bad # {}
    BY <1>1
  <2> HIDE DEF Bad
  <2> QED
    BY <2>1, LowestExists
<1>3. PICK T \in SUBSET Nat : IsFiniteSet(T) /\ Cardinality(T) = n /\ ~Listed(T)
  BY <1>2
<1>4. CASE T = {}
  <2>1. Cardinality(T) = 0
    BY <1>4, FS_EmptySet
  <2> DEFINE f == [i \in 1..0 |-> 0]
  <2>2. f \in [1..0 -> T] /\ Ascends(f)
    BY DEF Ascends
  <2> QED
    BY <1>3, <2>1, <2>2 DEF Listed
<1>5. CASE T # {}
  <2>1. PICK m \in T : \A y \in T : m <= y
    BY <1>5, LowestExists
  <2>2. IsFiniteSet(T \ {m}) /\ Cardinality(T \ {m}) = n - 1 /\ n \in Nat
    BY <1>2, <1>3, FS_RemoveElement
  <2>3. n - 1 \in Nat
    BY <2>2, FS_CardinalityType
  <2>4. n - 1 \notin Bad
    BY <1>2, <2>2, <2>3
  <2>5. Listed(T \ {m})
    BY <2>2, <2>3, <2>4
  <2> QED
    BY <1>3, <2>1, <2>5, LowestFirst
<1> QED
  BY <1>4, <1>5

(* The order of a query lists every number of the set once. *)
LEMMA OrderedIs ==
  ASSUME NEW S \in SUBSET Nat, IsFiniteSet(S)
  PROVE  /\ Cardinality(S) \in Nat
         /\ Assembly!Ordered(S) \in [1..Cardinality(S) -> S]
         /\ \A i, j \in 1..Cardinality(S) : Assembly!Ordered(S)[i] = Assembly!Ordered(S)[j] => i = j
         /\ \A x \in S : \E i \in 1..Cardinality(S) : Assembly!Ordered(S)[i] = x
<1>1. PICK n \in Nat : n = Cardinality(S)
  BY FS_CardinalityType
<1>2. PICK f : f = Assembly!Ordered(S)
  OBVIOUS
<1>3. f \in [1..n -> S] /\ \A i, j \in DOMAIN f : i < j => f[i] < f[j]
  BY <1>1, <1>2, ListExists, AssemblyCardinality DEF Listed, Ascends, Assembly!Ordered
<1>4. ASSUME NEW i \in 1..n, NEW j \in 1..n, f[i] = f[j]
      PROVE  i = j
  <2>1. f[i] \in Nat /\ f[j] \in Nat
    BY <1>3
  <2>2. ~(i < j) /\ ~(j < i)
    BY <1>3, <1>4, <2>1
  <2> QED
    BY <2>2
<1>5. f \in Injection(1..n, S)
  BY <1>3, <1>4 DEF Injection, IsInjective
<1>6. IsFiniteSet(1..n) /\ Cardinality(1..n) = n
  BY FS_Interval
<1>7. f \in Surjection(1..n, S)
  BY <1>1, <1>5, <1>6, FS_Injection
<1>8. \A x \in S : \E i \in 1..n : f[i] = x
  BY <1>7 DEF Surjection
<1> QED
  BY <1>1, <1>2, <1>3, <1>4, <1>8

-----------------------------------------------------------------------------
(* The rows of a section that ask for a directive have one each. *)
LEMMA RenderedIs ==
  ASSUME Assembly!IdAssumption, TablesTyped, NEW s \in Assembly!Numbered
  PROVE  IsPart(Assembly!Rendered(s), s)
<1> DEFINE S == {n \in DOMAIN rows[s] : rows[s][n] # "none"}
<1>1. rows[s] \in Seq(Assembly!Outcomes[s]) /\ Len(rows[s]) \in Nat
      /\ DOMAIN rows[s] = 1..Len(rows[s])
  BY DEF TablesTyped
<1>2. S \in SUBSET Nat /\ S \subseteq 1..Len(rows[s]) /\ IsFiniteSet(S)
  <2>1. S \in SUBSET (1..Len(rows[s])) /\ IsFiniteSet(1..Len(rows[s]))
    BY <1>1, FS_Interval
  <2> QED
    BY <2>1, FS_Subset
<1>3. PICK n \in Nat : n = Cardinality(S)
  BY <1>2, FS_CardinalityType
<1>4. PICK f : f = Assembly!Ordered(S)
  OBVIOUS
<1>5. /\ f \in [1..n -> S]
      /\ \A i, j \in 1..n : f[i] = f[j] => i = j
      /\ \A x \in S : \E i \in 1..n : f[i] = x
  <2> HIDE DEF S
  <2> QED
    BY <1>2, <1>3, <1>4, OrderedIs
<1> DEFINE d(i) == [section |-> s, row |-> f[i],
                    id |-> IF rows[s][f[i]] = "rule" THEN Assembly!Number(s, f[i])
                      ELSE Assembly!NoId]
<1>6. Assembly!Rendered(s) = [i \in 1..n |-> d(i)]
  BY <1>4, <1>5 DEF Assembly!Rendered
<1>7. \A i \in 1..n : d(i) \in Assembly!Directive /\ Proper(d(i)) /\ KeyOf(d(i)) = f[i]
  <2> SUFFICES ASSUME NEW i \in 1..n
               PROVE  d(i) \in Assembly!Directive /\ Proper(d(i)) /\ KeyOf(d(i)) = f[i]
    OBVIOUS
  <2>1. f[i] \in S /\ f[i] \in 1..Len(rows[s])
    BY <1>2, <1>5
  <2>2. Assembly!Number(s, f[i]) \in Nat
    <3>1. FirstId[s] \in Nat
      BY AssemblyCardinality DEF Assembly!IdAssumption
    <3>2. Cardinality({m \in 1..f[i] - 1 : Assembly!MovesCounter(s, rows[s][m])}) \in Nat
      <4>1. {m \in 1..f[i] - 1 : Assembly!MovesCounter(s, rows[s][m])} \in SUBSET (1..f[i] - 1)
        OBVIOUS
      <4>2. IsFiniteSet(1..f[i] - 1)
        BY <2>1, FS_Interval
      <4> QED
        BY <4>1, <4>2, FS_Subset, FS_CardinalityType
    <3> QED
      BY <3>1, <3>2, AssemblyCardinality DEF Assembly!Number
  <2>3. d(i) \in Assembly!Directive
    BY <2>1, <2>2 DEF Assembly!Directive
  <2> QED
    BY <2>3 DEF Proper, KeyOf
<1> DEFINE p == [i \in 1..n |-> d(i)]
<1>8. p \in Seq(Assembly!Directive) /\ DOMAIN p = 1..n
  BY <1>7
<1>9. \A i \in 1..n : p[i] = d(i) /\ p[i].section = s
  OBVIOUS
<1>10. Of(p, s) = 1..n
  BY <1>8, <1>9 DEF Of
<1>11. \A i \in 1..n : Proper(p[i]) /\ KeyOf(p[i]) = f[i]
  BY <1>7, <1>9
<1>12. Asked(s) = S
  BY DEF Asked
<1> HIDE DEF p, d, S
<1>13. Whole(p, s)
  <2>1. {KeyOf(p[i]) : i \in 1..n} = S
    BY <1>5, <1>11
  <2> QED
    BY <1>5, <1>10, <1>11, <1>12, <2>1 DEF Whole
<1>14. IsPart(p, s)
  BY <1>8, <1>9, <1>11, <1>13 DEF IsPart
<1> QED
  BY <1>6, <1>14 DEF p

(* An authored section has a directive for each of its ids. *)
LEMMA TranscribedIs ==
  ASSUME Assembly!IdAssumption, TablesTyped, NEW s \in Assembly!Authored
  PROVE  IsPart(Assembly!Transcribed(s), s)
<1>1. authored[s] \in SUBSET Nat /\ IsFiniteSet(authored[s])
  <2>1. Written[s] \in SUBSET Nat /\ IsFiniteSet(Written[s])
    BY AssemblyCardinality DEF Assembly!IdAssumption
  <2>2. authored[s] \in SUBSET Written[s]
    BY DEF TablesTyped
  <2> QED
    BY <2>1, <2>2, FS_Subset
<1>2. PICK S : S = authored[s]
  OBVIOUS
<1>3. PICK n \in Nat : n = Cardinality(S)
  BY <1>1, <1>2, FS_CardinalityType
<1>4. PICK f : f = Assembly!Ordered(S)
  OBVIOUS
<1>5. /\ f \in [1..n -> S]
      /\ \A i, j \in 1..n : f[i] = f[j] => i = j
      /\ \A x \in S : \E i \in 1..n : f[i] = x
  BY <1>1, <1>2, <1>3, <1>4, OrderedIs
<1> DEFINE d(i) == [section |-> s, row |-> i, id |-> f[i]]
<1>6. Assembly!Transcribed(s) = [i \in 1..n |-> d(i)]
  BY <1>2, <1>4, <1>5 DEF Assembly!Transcribed
<1>7. s \notin Assembly!Numbered
  BY DEF Assembly!Numbered, Assembly!Authored
<1>8. \A i \in 1..n : d(i) \in Assembly!Directive /\ Proper(d(i)) /\ KeyOf(d(i)) = f[i]
  <2> SUFFICES ASSUME NEW i \in 1..n
               PROVE  d(i) \in Assembly!Directive /\ Proper(d(i)) /\ KeyOf(d(i)) = f[i]
    OBVIOUS
  <2>1. f[i] \in Nat
    BY <1>1, <1>2, <1>5
  <2>2. d(i) \in Assembly!Directive
    BY <2>1 DEF Assembly!Directive
  <2> QED
    BY <1>7, <2>2 DEF Proper, KeyOf
<1> DEFINE p == [i \in 1..n |-> d(i)]
<1>9. p \in Seq(Assembly!Directive) /\ DOMAIN p = 1..n
  BY <1>8
<1>10. \A i \in 1..n : p[i] = d(i) /\ p[i].section = s
  OBVIOUS
<1>11. Of(p, s) = 1..n
  BY <1>9, <1>10 DEF Of
<1>12. \A i \in 1..n : Proper(p[i]) /\ KeyOf(p[i]) = f[i]
  BY <1>8, <1>10
<1>13. Asked(s) = S
  BY <1>2, <1>7 DEF Asked
<1> HIDE DEF p, d
<1>14. Whole(p, s)
  <2>1. {KeyOf(p[i]) : i \in 1..n} = S
    BY <1>5, <1>12
  <2> QED
    BY <1>5, <1>11, <1>12, <1>13, <2>1 DEF Whole
<1>15. IsPart(p, s)
  BY <1>9, <1>10, <1>12, <1>14 DEF IsPart
<1> QED
  BY <1>6, <1>15 DEF p

(* A part that comes before every section of a text may be put before it. *)
LEMMA JoinBefore ==
  ASSUME NEW k \in Nat, NEW s \in Section \cup {"learner"}, Place[s] = k,
         \A t \in Section : k <= Place[t] => t = s \/ k + 1 <= Place[t],
         NEW p, IsPart(p, s), NEW u, JoinedFrom(u, k + 1)
  PROVE  JoinedFrom(p \o u, k)
<1> DEFINE w == p \o u
<1>1. p \in Seq(Assembly!Directive) /\ u \in Seq(Assembly!Directive)
  BY DEF IsPart, JoinedFrom
<1>2. PICK m \in Nat, n \in Nat : m = Len(p) /\ n = Len(u)
  BY <1>1
<1>3. DOMAIN p = 1..m /\ DOMAIN u = 1..n
  BY <1>1, <1>2
<1>4. /\ w \in Seq(Assembly!Directive) /\ DOMAIN w = 1..m + n
      /\ \A i \in 1..m : i \in 1..m + n /\ w[i] = p[i]
      /\ \A i \in 1..n : m + i \in 1..m + n /\ w[m + i] = u[i]
      /\ \A i \in 1..m + n : i \in 1..m \/ (i - m \in 1..n /\ i > m /\ w[i] = u[i - m])
  <2>1. /\ w \in Seq(Assembly!Directive) /\ Len(w) = m + n
        /\ \A i \in 1..m + n : w[i] = IF i <= m THEN p[i] ELSE u[i - m]
    BY <1>1, <1>2, ConcatProperties
  <2> HIDE DEF w
  <2>2. DOMAIN w = 1..m + n
    BY <2>1
  <2>3. \A i \in 1..m : i \in 1..m + n /\ w[i] = p[i]
    BY <2>1
  <2>4. \A i \in 1..n : m + i \in 1..m + n /\ w[m + i] = u[i]
    <3> TAKE i \in 1..n
    <3>1. m + i \in 1..m + n /\ ~(m + i <= m) /\ (m + i) - m = i
      OBVIOUS
    <3> QED
      BY <2>1, <3>1
  <2>5. \A i \in 1..m + n : i \in 1..m \/ (i - m \in 1..n /\ i > m /\ w[i] = u[i - m])
    <3> TAKE i \in 1..m + n
    <3>1. CASE i <= m
      BY <3>1
    <3>2. CASE ~(i <= m)
      BY <2>1, <3>2
    <3> QED
      BY <3>1, <3>2
  <2> QED
    BY <2>1, <2>2, <2>3, <2>4, <2>5
<1>5. \A i \in 1..m : Proper(p[i]) /\ p[i].section = s /\ Place[p[i].section] = k
  BY <1>3 DEF IsPart
<1>6. \A i \in 1..n : Proper(u[i]) /\ k + 1 <= Place[u[i].section]
                      /\ Place[u[i].section] \in Nat
  <2> TAKE i \in 1..n
  <2>1. Proper(u[i]) /\ k + 1 <= Place[u[i].section]
    BY <1>3 DEF JoinedFrom
  <2>2. u[i].section \in Assembly!Numbered \cup Assembly!Authored \cup {"learner"}
    BY <2>1 DEF Proper, Assembly!Directive
  <2>3. Place[u[i].section] \in Nat
    BY <2>2 DEF Place, Assembly!Numbered, Assembly!Authored
  <2> QED
    BY <2>1, <2>3
<1> HIDE DEF w
<1>7. \A i \in DOMAIN w : Proper(w[i]) /\ k <= Place[w[i].section]
  <2> TAKE i \in DOMAIN w
  <2>1. CASE i \in 1..m
    BY <1>4, <1>5, <2>1
  <2>2. CASE i - m \in 1..n /\ w[i] = u[i - m]
    <3>1. Proper(u[i - m]) /\ k + 1 <= Place[u[i - m].section] /\ Place[u[i - m].section] \in Nat
      BY <1>6, <2>2
    <3> QED
      BY <2>2, <3>1
  <2> QED
    BY <1>4, <2>1, <2>2
<1>8. ASSUME NEW i \in DOMAIN w, NEW j \in DOMAIN w, i < j
      PROVE  Place[w[i].section] <= Place[w[j].section]
  <2>0. i \in 1..m + n /\ j \in 1..m + n
    BY <1>4
  <2>1. CASE i \in 1..m
    <3>1. Place[w[i].section] = k
      BY <1>4, <1>5, <2>1
    <3> QED
      BY <1>7, <3>1
  <2>2. CASE i - m \in 1..n /\ i > m /\ w[i] = u[i - m]
    <3>1. j - m \in 1..n /\ w[j] = u[j - m]
      <4>1. j \notin 1..m
        BY <1>8, <2>0, <2>2
      <4> QED
        BY <1>4, <2>0, <4>1
    <3>2. i - m < j - m
      BY <1>8, <2>0
    <3>3. Place[u[i - m].section] <= Place[u[j - m].section]
      BY <1>3, <2>2, <3>1, <3>2 DEF JoinedFrom
    <3> QED
      BY <2>2, <3>1, <3>3
  <2> QED
    BY <1>4, <2>0, <2>1, <2>2
<1>9. ASSUME NEW t \in Section, k <= Place[t]
      PROVE  Whole(w, t)
  <2>1. CASE t = s
    <3>1. \A i \in 1..n : u[i].section # s
      BY <1>6
    <3>2. Of(w, s) = 1..m /\ Of(p, s) = 1..m
      <4>1. \A i \in 1..m : w[i].section = s
        BY <1>4, <1>5
      <4>2. \A i \in 1..m + n : w[i].section = s => i \in 1..m
        BY <1>4, <3>1
      <4>3. 1..m \subseteq 1..m + n
        BY <1>4
      <4> QED
        BY <1>3, <1>4, <1>5, <4>1, <4>2, <4>3 DEF Of
    <3>3. Whole(p, s)
      BY <1>9, <2>1 DEF IsPart
    <3>4. \A i \in 1..m : KeyOf(w[i]) = KeyOf(p[i])
      BY <1>4
    <3>5. {KeyOf(w[i]) : i \in 1..m} = {KeyOf(p[i]) : i \in 1..m}
      BY <3>4
    <3> QED
      BY <2>1, <3>2, <3>3, <3>4, <3>5 DEF Whole
  <2>2. CASE t # s
    <3>1. k + 1 <= Place[t]
      BY <1>9, <2>2
    <3>2. Whole(u, t)
      BY <1>9, <3>1 DEF JoinedFrom
    <3>3. \A i \in 1..n : i \in Of(u, t) <=> m + i \in Of(w, t)
      BY <1>3, <1>4 DEF Of
    <3>4. \A i \in Of(w, t) : i - m \in 1..n /\ i - m \in Of(u, t) /\ w[i] = u[i - m]
                              /\ i \in 1..m + n
      <4> TAKE i \in Of(w, t)
      <4>1. i \in 1..m + n /\ w[i].section = t
        BY <1>4 DEF Of
      <4>2. i \notin 1..m
        BY <1>4, <1>5, <2>2, <4>1
      <4>3. i - m \in 1..n /\ w[i] = u[i - m]
        BY <1>4, <4>1, <4>2
      <4> QED
        BY <1>3, <4>1, <4>3 DEF Of
    <3>5. \A i \in Of(u, t) : i \in 1..n /\ m + i \in Of(w, t) /\ w[m + i] = u[i]
      <4> TAKE i \in Of(u, t)
      <4>1. i \in 1..n
        BY <1>3 DEF Of
      <4> QED
        BY <1>4, <3>3, <4>1
    <3>6. {KeyOf(w[i]) : i \in Of(w, t)} = {KeyOf(u[i]) : i \in Of(u, t)}
      <4>1. \A i \in Of(w, t) : \E j \in Of(u, t) : KeyOf(w[i]) = KeyOf(u[j])
        BY <3>4
      <4>2. \A j \in Of(u, t) : \E i \in Of(w, t) : KeyOf(w[i]) = KeyOf(u[j])
        BY <3>5
      <4> QED
        BY <4>1, <4>2
    <3>7. ASSUME NEW i \in Of(w, t), NEW j \in Of(w, t), KeyOf(w[i]) = KeyOf(w[j])
          PROVE  i = j
      <4>1. i - m = j - m
        BY <3>2, <3>4, <3>7 DEF Whole
      <4> QED
        BY <3>4, <4>1
    <3> QED
      BY <3>2, <3>6, <3>7 DEF Whole
  <2> QED
    BY <2>1, <2>2
<1> QED
  BY <1>4, <1>7, <1>8, <1>9 DEF JoinedFrom, w

LEMMA LastPart ==
  ASSUME NEW p, IsPart(p, "dlp")
  PROVE  JoinedFrom(p, 10)
<1>1. /\ p \in Seq(Assembly!Directive)
      /\ \A i \in DOMAIN p : Proper(p[i]) /\ p[i].section = "dlp"
      /\ Whole(p, "dlp")
  BY DEF IsPart, Section, Assembly!Authored
<1>2. \A s \in Section : 10 <= Place[s] => s = "dlp"
  BY DEF Section, Assembly!Numbered, Assembly!Authored, Place
<1>3. Place["dlp"] = 10
  BY DEF Place
<1> QED
  BY <1>1, <1>2, <1>3 DEF JoinedFrom

(* The places of the sections follow one another. *)
LEMMA NextPlace ==
  ASSUME NEW s \in Section \cup {"learner"}
  PROVE  /\ Place[s] \in Nat
         /\ \A t \in Section : Place[s] <= Place[t] => t = s \/ Place[s] + 1 <= Place[t]
<1>1. s \in {"learner", "blocked", "geo", "api", "bots", "indicators", "exceptions",
             "custom", "cve", "base", "dlp"}
  BY DEF Section, Assembly!Numbered, Assembly!Authored
<1>2. \A t \in Section : t \in {"blocked", "geo", "api", "bots", "indicators",
                                "exceptions", "custom", "cve", "base", "dlp"}
  BY DEF Section, Assembly!Numbered, Assembly!Authored
<1> QED
  BY <1>1, <1>2 DEF Place

LEMMA JoinNext ==
  ASSUME NEW s \in Section \cup {"learner"}, NEW k \in Nat, Place[s] = k,
         NEW p, IsPart(p, s), NEW u, JoinedFrom(u, k + 1)
  PROVE  JoinedFrom(p \o u, k)
BY NextPlace, JoinBefore

(* The text joins every part in its place, and the learner before them. *)
LEMMA JoinedIs ==
  ASSUME Assembly!IdAssumption, TablesTyped
  PROVE  JoinedFrom(Assembly!Joined, 1)
<1>1. /\ \A s \in Assembly!Numbered : IsPart(Assembly!Rendered(s), s)
      /\ \A s \in Assembly!Authored : IsPart(Assembly!Transcribed(s), s)
  BY RenderedIs, TranscribedIs
<1>2. /\ {"blocked", "geo", "api", "bots", "indicators", "exceptions"} \subseteq Assembly!Numbered
      /\ {"custom", "cve", "base", "dlp"} \subseteq Assembly!Authored
  BY DEF Assembly!Numbered, Assembly!Authored
<1> DEFINE t10 == Assembly!Transcribed("dlp")
           t9 == Assembly!Transcribed("base") \o t10
           t8 == Assembly!Transcribed("cve") \o t9
           t7 == Assembly!Transcribed("custom") \o t8
           t6 == Assembly!Rendered("exceptions") \o t7
           t5 == Assembly!Rendered("indicators") \o t6
           t4 == Assembly!Rendered("bots") \o t5
           t3 == Assembly!Rendered("api") \o t4
           t2 == Assembly!Rendered("geo") \o t3
           t1 == Assembly!Rendered("blocked") \o t2
<1>3. JoinedFrom(t10, 10)
  BY <1>1, <1>2, LastPart
<1>4. JoinedFrom(t9, 9)
  <2>1. "base" \in Section /\ Place["base"] = 9
    BY <1>2 DEF Section, Place
  <2>2. IsPart(Assembly!Transcribed("base"), "base")
    BY <1>1, <1>2
  <2>3. JoinedFrom(t10, 9 + 1)
    BY <1>3
  <2> HIDE DEF t10
  <2> QED
    BY <2>1, <2>2, <2>3, JoinNext
<1>5. JoinedFrom(t8, 8)
  <2>1. "cve" \in Section /\ Place["cve"] = 8
    BY <1>2 DEF Section, Place
  <2>2. IsPart(Assembly!Transcribed("cve"), "cve")
    BY <1>1, <1>2
  <2>3. JoinedFrom(t9, 8 + 1)
    BY <1>4
  <2> HIDE DEF t9
  <2> QED
    BY <2>1, <2>2, <2>3, JoinNext
<1>6. JoinedFrom(t7, 7)
  <2>1. "custom" \in Section /\ Place["custom"] = 7
    BY <1>2 DEF Section, Place
  <2>2. IsPart(Assembly!Transcribed("custom"), "custom")
    BY <1>1, <1>2
  <2>3. JoinedFrom(t8, 7 + 1)
    BY <1>5
  <2> HIDE DEF t8
  <2> QED
    BY <2>1, <2>2, <2>3, JoinNext
<1>7. JoinedFrom(t6, 6)
  <2>1. "exceptions" \in Section /\ Place["exceptions"] = 6
    BY <1>2 DEF Section, Place
  <2>2. IsPart(Assembly!Rendered("exceptions"), "exceptions")
    BY <1>1, <1>2
  <2>3. JoinedFrom(t7, 6 + 1)
    BY <1>6
  <2> HIDE DEF t7
  <2> QED
    BY <2>1, <2>2, <2>3, JoinNext
<1>8. JoinedFrom(t5, 5)
  <2>1. "indicators" \in Section /\ Place["indicators"] = 5
    BY <1>2 DEF Section, Place
  <2>2. IsPart(Assembly!Rendered("indicators"), "indicators")
    BY <1>1, <1>2
  <2>3. JoinedFrom(t6, 5 + 1)
    BY <1>7
  <2> HIDE DEF t6
  <2> QED
    BY <2>1, <2>2, <2>3, JoinNext
<1>9. JoinedFrom(t4, 4)
  <2>1. "bots" \in Section /\ Place["bots"] = 4
    BY <1>2 DEF Section, Place
  <2>2. IsPart(Assembly!Rendered("bots"), "bots")
    BY <1>1, <1>2
  <2>3. JoinedFrom(t5, 4 + 1)
    BY <1>8
  <2> HIDE DEF t5
  <2> QED
    BY <2>1, <2>2, <2>3, JoinNext
<1>10. JoinedFrom(t3, 3)
  <2>1. "api" \in Section /\ Place["api"] = 3
    BY <1>2 DEF Section, Place
  <2>2. IsPart(Assembly!Rendered("api"), "api")
    BY <1>1, <1>2
  <2>3. JoinedFrom(t4, 3 + 1)
    BY <1>9
  <2> HIDE DEF t4
  <2> QED
    BY <2>1, <2>2, <2>3, JoinNext
<1>11. JoinedFrom(t2, 2)
  <2>1. "geo" \in Section /\ Place["geo"] = 2
    BY <1>2 DEF Section, Place
  <2>2. IsPart(Assembly!Rendered("geo"), "geo")
    BY <1>1, <1>2
  <2>3. JoinedFrom(t3, 2 + 1)
    BY <1>10
  <2> HIDE DEF t3
  <2> QED
    BY <2>1, <2>2, <2>3, JoinNext
<1>12. JoinedFrom(t1, 1)
  <2>1. "blocked" \in Section /\ Place["blocked"] = 1
    BY <1>2 DEF Section, Place
  <2>2. IsPart(Assembly!Rendered("blocked"), "blocked")
    BY <1>1, <1>2
  <2>3. JoinedFrom(t2, 1 + 1)
    BY <1>11
  <2> HIDE DEF t2
  <2> QED
    BY <2>1, <2>2, <2>3, JoinNext
<1> QED
  BY <1>12 DEF Assembly!Joined

LEMMA TextIs ==
  ASSUME Assembly!IdAssumption, TablesTyped
  PROVE  JoinedFrom(Assembly!Text, 0)
<1>1. JoinedFrom(Assembly!Joined, 1)
  BY JoinedIs
<1>2. JoinedFrom(Assembly!Joined, 0)
  <2>1. \A s \in Section : 1 <= Place[s]
    BY DEF Section, Assembly!Numbered, Assembly!Authored, Place
  <2>2. \A i \in DOMAIN Assembly!Joined : Place[Assembly!Joined[i].section] \in Nat
    <3> TAKE i \in DOMAIN Assembly!Joined
    <3>1. Assembly!Joined[i].section \in Section \cup {"learner"}
      BY <1>1 DEF JoinedFrom, Proper, Assembly!Directive, Section
    <3> QED
      BY <3>1, NextPlace
  <2>3. \A i \in DOMAIN Assembly!Joined : 0 <= Place[Assembly!Joined[i].section]
    BY <2>2
  <2> QED
    BY <1>1, <2>1, <2>3 DEF JoinedFrom
<1> DEFINE d == [section |-> "learner", row |-> 1, id |-> Assembly!Learner]
<1>3. IsPart(<<d>>, "learner")
  <2>1. "learner" \notin Section
    BY DEF Section, Assembly!Numbered, Assembly!Authored
  <2>2. d \in Assembly!Directive
    BY DEF Assembly!Directive, Assembly!Learner
  <2>3. Proper(d)
    BY <2>1, <2>2 DEF Proper, Section
  <2> QED
    BY <2>1, <2>2, <2>3 DEF IsPart
<1>4. JoinedFrom(<<d>> \o Assembly!Joined, 0)
  <2>1. Place["learner"] = 0
    BY DEF Place
  <2>2. JoinedFrom(Assembly!Joined, 0 + 1)
    BY <1>1
  <2> HIDE DEF d
  <2> QED
    BY <1>3, <2>1, <2>2, JoinNext
<1> QED
  BY <1>2, <1>4 DEF Assembly!Text

-----------------------------------------------------------------------------
LEMMA AssemblyInit ==
  ASSUME Assembly!IdAssumption, Assembly!Init
  PROVE  AssemblyInv
<1>1. \A s \in Assembly!Numbered : rows[s] \in Seq(Assembly!Outcomes[s])
  BY DEF Assembly!Init
<1>2. \A s \in Assembly!Authored : authored[s] \subseteq Written[s]
  BY DEF Assembly!Init
<1> QED
  BY <1>1, <1>2 DEF AssemblyInv, Assembly!TypeOK, Assembly!Init

LEMMA RemovedIs ==
  ASSUME NEW S, NEW q \in Seq(S), NEW n \in DOMAIN q
  PROVE  Assembly!RemoveAt(q, n) \in Seq(S)
<1>1. Len(q) \in Nat /\ n \in 1..Len(q)
  OBVIOUS
<1>2. SubSeq(q, 1, n - 1) \in Seq(S) /\ SubSeq(q, n + 1, Len(q)) \in Seq(S)
  <2>1. \A i \in 1..n - 1 : q[i] \in S
    BY <1>1
  <2>2. \A i \in n + 1..Len(q) : q[i] \in S
    BY <1>1
  <2> QED
    BY <1>1, <2>1, <2>2, SubSeqProperties
<1> QED
  BY <1>2, ConcatProperties DEF Assembly!RemoveAt

(* What a text should hold depends on the tables alone. *)
LEMMA TablesDecide ==
  ASSUME UNCHANGED <<rows, authored>>, NEW u, JoinedFrom(u, 0), text' = u
  PROVE  JoinedFrom(text, 0)'
<1>1. rows' = rows /\ authored' = authored
  OBVIOUS
<1>2. \A s, n : Assembly!Number(s, n)' = Assembly!Number(s, n)
  BY <1>1, AssemblyCardinality DEF Assembly!Number
<1>3. \A d : Proper(d)' <=> Proper(d)
  BY <1>1, <1>2 DEF Proper
<1>4. \A s : Asked(s)' = Asked(s)
  BY <1>1 DEF Asked
<1>5. \A s : Whole(text, s)' <=> Whole(u, s)
  BY <1>4 DEF Whole, Of, KeyOf
<1> QED
  BY <1>3, <1>5 DEF JoinedFrom, Place, Section

LEMMA AssemblyStep ==
  ASSUME Assembly!IdAssumption, AssemblyInv, [Assembly!Next]_(Assembly!vars)
  PROVE  AssemblyInv'
<1> USE DEF AssemblyInv, Assembly!TypeOK
<1>1. ASSUME NEW s \in Assembly!Numbered, NEW outcome \in Assembly!Outcomes[s],
               Assembly!Insert(s, outcome)
      PROVE  AssemblyInv'
  <2>1. rows' = [rows EXCEPT ![s] = Append(rows[s], outcome)] /\ text' = <<>>
        /\ authored' = authored
    BY <1>1 DEF Assembly!Insert
  <2>2. Append(rows[s], outcome) \in Seq(Assembly!Outcomes[s])
    BY <1>1
  <2>3. \A t \in Assembly!Numbered : rows'[t] \in Seq(Assembly!Outcomes[t])
    BY <2>1, <2>2
  <2> QED
    BY <2>1, <2>3
<1>2. ASSUME NEW s \in Assembly!Numbered, NEW n \in DOMAIN rows[s], Assembly!Delete(s, n)
      PROVE  AssemblyInv'
  <2>1. rows' = [rows EXCEPT ![s] = Assembly!RemoveAt(rows[s], n)] /\ text' = <<>>
        /\ authored' = authored
    BY <1>2 DEF Assembly!Delete
  <2>2. Assembly!RemoveAt(rows[s], n) \in Seq(Assembly!Outcomes[s])
    BY <1>2, RemovedIs
  <2>3. \A t \in Assembly!Numbered : rows'[t] \in Seq(Assembly!Outcomes[t])
    BY <2>1, <2>2
  <2> QED
    BY <2>1, <2>3
<1>3. ASSUME NEW s \in Assembly!Authored, NEW ids \in SUBSET Written[s], Assembly!Author(s, ids)
      PROVE  AssemblyInv'
  <2>1. authored' = [authored EXCEPT ![s] = ids] /\ text' = <<>> /\ rows' = rows
    BY <1>3 DEF Assembly!Author
  <2>2. \A t \in Assembly!Authored : authored'[t] \subseteq Written[t]
    BY <2>1
  <2> QED
    BY <2>1, <2>2
<1>4. CASE Assembly!Sync
  <2>1. text' = Assembly!Text /\ rows' = rows /\ authored' = authored
    BY <1>4 DEF Assembly!Sync
  <2>2. PICK u : u = Assembly!Text
    OBVIOUS
  <2>3. JoinedFrom(u, 0)
    BY <2>2, TextIs DEF TablesTyped
  <2>4. JoinedFrom(text, 0)'
    BY <2>1, <2>2, <2>3, TablesDecide
  <2>5. text' \in Seq(Assembly!Directive)
    BY <2>1, <2>2, <2>3 DEF JoinedFrom
  <2> QED
    BY <2>1, <2>4, <2>5
<1>5. CASE UNCHANGED Assembly!vars
  <2>1. rows' = rows /\ authored' = authored /\ text' = text
    BY <1>5 DEF Assembly!vars
  <2>2. PICK u : u = text
    OBVIOUS
  <2>3. JoinedFrom(u, 0) => JoinedFrom(text, 0)'
    BY <2>1, <2>2, TablesDecide
  <2> QED
    BY <2>1, <2>2, <2>3
<1> QED
  BY <1>1, <1>2, <1>3, <1>4, <1>5 DEF Assembly!Next

-----------------------------------------------------------------------------
LEMMA PositionsAre == ASSUME NEW s PROVE Assembly!Positions(s) = Of(text, s)
BY DEF Assembly!Positions, Of

LEMMA RowsAreRendered == AssemblyInv => Assembly!EveryRowIsRendered
<1> SUFFICES ASSUME AssemblyInv, text # <<>>
             PROVE  /\ \A s \in Assembly!Numbered :
                         /\ {text[i].row : i \in Assembly!Positions(s)} =
                              {n \in DOMAIN rows[s] : rows[s][n] # "none"}
                         /\ \A i, j \in Assembly!Positions(s) : text[i].row = text[j].row => i = j
                    /\ \A s \in Assembly!Authored :
                         /\ {text[i].id : i \in Assembly!Positions(s)} = authored[s]
                         /\ Cardinality(Assembly!Positions(s)) = Cardinality(authored[s])
  BY AssemblyCardinality DEF Assembly!EveryRowIsRendered
<1>1. JoinedFrom(text, 0)
  BY DEF AssemblyInv
<1>2. \A s \in Section : Whole(text, s)
  BY <1>1, NextPlace DEF JoinedFrom
<1>3. ASSUME NEW s \in Assembly!Numbered
      PROVE  /\ {text[i].row : i \in Assembly!Positions(s)} =
                  {n \in DOMAIN rows[s] : rows[s][n] # "none"}
             /\ \A i, j \in Assembly!Positions(s) : text[i].row = text[j].row => i = j
  <2>1. \A i \in Assembly!Positions(s) : KeyOf(text[i]) = text[i].row
    BY DEF Assembly!Positions, KeyOf
  <2>2. Whole(text, s) /\ Assembly!Positions(s) = Of(text, s)
    BY <1>2, PositionsAre DEF Section
  <2> QED
    BY <2>1, <2>2 DEF Whole, Asked
<1>4. ASSUME NEW s \in Assembly!Authored
      PROVE  /\ {text[i].id : i \in Assembly!Positions(s)} = authored[s]
             /\ Cardinality(Assembly!Positions(s)) = Cardinality(authored[s])
  <2>0. s \notin Assembly!Numbered
    BY DEF Assembly!Numbered, Assembly!Authored
  <2>1. \A i \in Assembly!Positions(s) : KeyOf(text[i]) = text[i].id
    BY <2>0 DEF Assembly!Positions, KeyOf
  <2>2. Whole(text, s) /\ Assembly!Positions(s) = Of(text, s)
    BY <1>2, PositionsAre DEF Section
  <2>3. {text[i].id : i \in Assembly!Positions(s)} = authored[s]
    BY <2>0, <2>1, <2>2 DEF Whole, Asked
  <2>4. \A i, j \in Assembly!Positions(s) : text[i].id = text[j].id => i = j
    BY <2>1, <2>2 DEF Whole
  <2> DEFINE f == [i \in Assembly!Positions(s) |-> text[i].id]
  <2>5. f \in Bijection(Assembly!Positions(s), authored[s])
    <3>1. f \in [Assembly!Positions(s) -> authored[s]]
      BY <2>3
    <3>2. f \in Injection(Assembly!Positions(s), authored[s])
      BY <2>4, <3>1 DEF Injection, IsInjective
    <3>3. f \in Surjection(Assembly!Positions(s), authored[s])
      BY <2>3, <3>1 DEF Surjection
    <3> QED
      BY <3>2, <3>3 DEF Bijection
  <2>6. IsFiniteSet(Assembly!Positions(s))
    <3>1. text \in Seq(Assembly!Directive)
      BY <1>1 DEF JoinedFrom
    <3>2. Assembly!Positions(s) \in SUBSET (1..Len(text)) /\ Len(text) \in Nat
      BY <3>1 DEF Assembly!Positions
    <3> QED
      <4>1. IsFiniteSet(1..Len(text))
        BY <3>2, FS_Interval
      <4> QED
        BY <3>2, <4>1, FS_Subset
  <2>7. ExistsBijection(Assembly!Positions(s), authored[s])
    BY <2>5 DEF ExistsBijection
  <2>8. Cardinality(Assembly!Positions(s)) = Cardinality(authored[s])
    BY <2>6, <2>7, FS_Bijection
  <2> QED
    BY <2>3, <2>8
<1> QED
  BY <1>3, <1>4

LEMMA SectionsPrecede == AssemblyInv => Assembly!PrecedenceHolds
<1> SUFFICES ASSUME AssemblyInv PROVE Assembly!PrecedenceHolds
  OBVIOUS
<1>1. ASSUME NEW s \in Section, NEW t \in Section, Place[s] < Place[t]
      PROVE  Assembly!Before(s, t)
  <2> SUFFICES ASSUME NEW i \in Assembly!Positions(s), NEW j \in Assembly!Positions(t)
               PROVE  i < j
    BY DEF Assembly!Before
  <2>1. i \in DOMAIN text /\ j \in DOMAIN text /\ text[i].section = s /\ text[j].section = t
    BY DEF Assembly!Positions
  <2>2. text \in Seq(Assembly!Directive) /\ JoinedFrom(text, 0)
    <3>1. text # <<>>
      BY <2>1
    <3> QED
      BY <3>1 DEF AssemblyInv, Assembly!TypeOK
  <2>3. i \in Nat /\ j \in Nat
    BY <2>1, <2>2
  <2>4. Place[s] \in Nat /\ Place[t] \in Nat
    BY NextPlace
  <2>5. ~(j < i)
    <3>1. j < i => Place[t] <= Place[s]
      BY <2>1, <2>2 DEF JoinedFrom
    <3> QED
      BY <1>1, <2>4, <3>1
  <2>6. i # j
    BY <1>1, <2>1, <2>4
  <2> QED
    BY <2>3, <2>5, <2>6
<1>2. \A s \in Section \ {"blocked"} : Place["blocked"] < Place[s]
  BY DEF Section, Assembly!Numbered, Assembly!Authored, Place
<1>3. \A s \in {"geo", "api", "bots", "indicators"} : Place[s] < Place["exceptions"]
  BY DEF Place
<1>4. \A s \in {"custom", "cve"} : Place["exceptions"] < Place[s] /\ Place[s] < Place["base"]
  BY DEF Place
<1>5. Place["exceptions"] < Place["base"] /\ Place["base"] < Place["dlp"]
  BY DEF Place
<1>6. {"blocked", "geo", "api", "bots", "indicators", "exceptions", "custom", "cve",
       "base", "dlp"} \subseteq Section
  BY DEF Section, Assembly!Numbered, Assembly!Authored
<1>7. \A s \in Section \ {"blocked"} : Assembly!Before("blocked", s)
  BY <1>1, <1>2, <1>6
<1>8. \A s \in {"geo", "api", "bots", "indicators"} : Assembly!Before(s, "exceptions")
  BY <1>1, <1>3, <1>6
<1>9. \A s \in {"custom", "cve"} : Assembly!Before("exceptions", s) /\ Assembly!Before(s, "base")
  BY <1>1, <1>4, <1>6
<1>10. Assembly!Before("exceptions", "base") /\ Assembly!Before("base", "dlp")
  BY <1>1, <1>5, <1>6
<1> QED
  BY <1>7, <1>8, <1>9, <1>10 DEF Assembly!PrecedenceHolds, Section

(* The number of a row lies in the range of its section, as long as the    *)
(* section keeps within it, and rows that become rules never share one.    *)
LEMMA NumbersGrow ==
  ASSUME Assembly!IdAssumption, TablesTyped, NEW s \in Assembly!Numbered, NEW n \in DOMAIN rows[s]
  PROVE  /\ Assembly!Number(s, n) \in Nat
         /\ FirstId[s] <= Assembly!Number(s, n) /\ Assembly!Number(s, n) < FirstId[s] + Len(rows[s])
         /\ \A m \in DOMAIN rows[s] :
              m < n /\ rows[s][m] = "rule" => Assembly!Number(s, m) < Assembly!Number(s, n)
<1> DEFINE Counted(m) == {l \in 1..m - 1 : Assembly!MovesCounter(s, rows[s][l])}
<1>1. rows[s] \in Seq(Assembly!Outcomes[s]) /\ Len(rows[s]) \in Nat /\
        DOMAIN rows[s] = 1..Len(rows[s])
  BY DEF TablesTyped
<1>2. FirstId[s] \in Nat
  BY AssemblyCardinality DEF Assembly!IdAssumption
<1>3. \A m \in DOMAIN rows[s] :
        /\ IsFiniteSet(Counted(m)) /\ Cardinality(Counted(m)) \in Nat
        /\ Cardinality(Counted(m)) <= m - 1
  <2> TAKE m \in DOMAIN rows[s]
  <2>1. m \in 1..Len(rows[s])
    BY <1>1
  <2>2. IsFiniteSet(1..m - 1) /\ Cardinality(1..m - 1) = m - 1
    <3>1. PICK l \in Nat : l = m - 1
      BY <2>1
    <3>2. IsFiniteSet(1..l) /\ Cardinality(1..l) = IF 1 > l THEN 0 ELSE l - 1 + 1
      BY FS_Interval
    <3> QED
      BY <3>1, <3>2
  <2>3. Counted(m) \in SUBSET (1..m - 1)
    OBVIOUS
  <2> QED
    BY <2>2, <2>3, FS_Subset, FS_CardinalityType
<1>4. \A m \in DOMAIN rows[s] : Assembly!Number(s, m) = FirstId[s] + Cardinality(Counted(m))
  BY AssemblyCardinality DEF Assembly!Number
<1>5. ASSUME NEW m \in DOMAIN rows[s], m < n, rows[s][m] = "rule"
      PROVE  Cardinality(Counted(m)) < Cardinality(Counted(n))
  <2>1. m \in 1..Len(rows[s]) /\ n \in 1..Len(rows[s])
    BY <1>1
  <2>2. Counted(m) \in SUBSET Counted(n)
    BY <1>5, <2>1
  <2>3. m \in Counted(n) /\ m \notin Counted(m)
    BY <1>5, <2>1 DEF Assembly!MovesCounter
  <2> HIDE DEF Counted
  <2>4. Cardinality(Counted(m)) <= Cardinality(Counted(n))
        /\ Cardinality(Counted(m)) # Cardinality(Counted(n))
    BY <1>3, <2>2, <2>3, FS_Subset
  <2> QED
    BY <1>3, <2>4
<1> HIDE DEF Counted
<1>6. n \in 1..Len(rows[s])
  BY <1>1
<1>7. /\ Assembly!Number(s, n) \in Nat
      /\ FirstId[s] <= Assembly!Number(s, n) /\ Assembly!Number(s, n) < FirstId[s] + Len(rows[s])
  BY <1>1, <1>2, <1>3, <1>4, <1>6
<1>8. \A m \in DOMAIN rows[s] :
        m < n /\ rows[s][m] = "rule" => Assembly!Number(s, m) < Assembly!Number(s, n)
  BY <1>2, <1>3, <1>4, <1>5
<1> QED
  BY <1>7, <1>8

LEMMA NumbersAre ==
  ASSUME Assembly!IdAssumption, AssemblyInv
  PROVE  Assembly!NumbersAreDistinct
<1> SUFFICES ASSUME \A s \in Assembly!Numbered : Len(rows[s]) <= Gap,
                    NEW s \in Assembly!Numbered, NEW t \in Assembly!Numbered,
                    NEW i \in Assembly!Positions(s), NEW j \in Assembly!Positions(t),
                    i # j, text[i].id = text[j].id, text[i].id # Assembly!NoId
             PROVE  FALSE
  BY DEF Assembly!NumbersAreDistinct
<1>1. /\ i \in DOMAIN text /\ j \in DOMAIN text
      /\ text[i].section = s /\ text[j].section = t
  BY DEF Assembly!Positions
<1>2. JoinedFrom(text, 0)
  <2>1. text # <<>>
    BY <1>1
  <2> QED
    BY <2>1 DEF AssemblyInv
<1>3. TablesTyped
  BY DEF AssemblyInv, Assembly!TypeOK, TablesTyped
<1>4. \A r \in Section : Whole(text, r)
  BY <1>2, NextPlace DEF JoinedFrom
<1>5. Assembly!EveryRowIsRendered
  BY RowsAreRendered
<1>6. text[i].row \in DOMAIN rows[s] /\ text[j].row \in DOMAIN rows[t]
  BY <1>1, <1>5, AssemblyCardinality DEF Assembly!EveryRowIsRendered
<1>7. PICK n, m : n = text[i].row /\ m = text[j].row
  OBVIOUS
<1>8. /\ rows[s][n] = "rule" /\ text[i].id = Assembly!Number(s, n)
      /\ rows[t][m] = "rule" /\ text[j].id = Assembly!Number(t, m)
  BY <1>1, <1>2, <1>7 DEF JoinedFrom, Proper
<1>9. /\ Len(rows[s]) \in Nat /\ Len(rows[t]) \in Nat
      /\ Len(rows[s]) <= Gap /\ Len(rows[t]) <= Gap /\ Gap \in Nat
      /\ FirstId[s] \in Nat /\ FirstId[t] \in Nat
  BY <1>3, AssemblyCardinality DEF TablesTyped, Assembly!IdAssumption
<1>10. CASE s # t
  <2>1. FirstId[s] + Gap <= FirstId[t] \/ FirstId[t] + Gap <= FirstId[s]
    BY <1>10, AssemblyCardinality DEF Assembly!IdAssumption
  <2>2. /\ Assembly!Number(s, n) \in Nat /\ Assembly!Number(t, m) \in Nat
        /\ FirstId[s] <= Assembly!Number(s, n) /\ Assembly!Number(s, n) < FirstId[s] + Len(rows[s])
        /\ FirstId[t] <= Assembly!Number(t, m) /\ Assembly!Number(t, m) < FirstId[t] + Len(rows[t])
    BY <1>3, <1>6, <1>7, NumbersGrow
  <2>3. Assembly!Number(s, n) = Assembly!Number(t, m)
    BY <1>8
  <2> QED
    BY <1>9, <2>1, <2>2, <2>3
<1>11. CASE s = t
  <2>1. n # m
    BY <1>5, <1>7, <1>1, <1>11, AssemblyCardinality DEF Assembly!EveryRowIsRendered
  <2>2. n \in DOMAIN rows[s] /\ m \in DOMAIN rows[s] /\ n \in Nat /\ m \in Nat
    BY <1>3, <1>6, <1>7, <1>11 DEF TablesTyped
  <2>3. Assembly!Number(s, n) \in Nat /\ Assembly!Number(s, m) \in Nat /\
          Assembly!Number(s, n) = Assembly!Number(s, m)
    BY <1>3, <1>8, <1>11, <2>2, NumbersGrow
  <2>4. n < m => Assembly!Number(s, n) < Assembly!Number(s, m)
    BY <1>3, <1>8, <2>2, NumbersGrow
  <2>5. m < n => Assembly!Number(s, m) < Assembly!Number(s, n)
    BY <1>3, <1>8, <1>11, <2>2, NumbersGrow
  <2> QED
    BY <2>1, <2>2, <2>3, <2>4, <2>5
<1> QED
  BY <1>10, <1>11

-----------------------------------------------------------------------------
(* The whole.  A step is a step of each part or leaves it alone. *)
LEMMA PartsStep ==
  [Next]_vars => /\ [Rules!Next]_(Rules!vars)
                 /\ [Learning!Next]_(Learning!vars)
                 /\ [History!Next]_(History!vars)
                 /\ [Backup!Next]_(Backup!vars)
                 /\ [Assembly!Next]_(Assembly!vars)
BY DEF Next, vars, ruleVars, learningVars, textVars, assemblyVars, historyVars, backupVars,
       Assembly!vars, Rules!vars, Rules!rule, Learning!vars, Learning!profile, Learning!request,
         History!vars,
       History!saver, Backup!vars, Backup!export, Backup!restore

LEMMA RulesCorrect == Spec => []RuleInv
<1>1. Init => RuleInv
  BY RuleInit, RuleAssumption DEF Init
<1>2. RuleInv /\ [Next]_vars => RuleInv'
  BY PartsStep, RuleStep, RuleAssumption
<1> QED
  BY <1>1, <1>2, PTL DEF Spec

LEMMA LearningCorrect == Spec => []LearningInv
<1>1. Init => LearningInv
  BY LearningInit, LearningAssumption DEF Init
<1>2. LearningInv /\ [Next]_vars => LearningInv'
  BY PartsStep, LearningStep, LearningAssumption
<1> QED
  BY <1>1, <1>2, PTL DEF Spec

LEMMA HistoryCorrect == Spec => []HistoryInv
<1>1. Init => HistoryInv
  BY HistoryInit, HistoryAssumption DEF Init
<1>2. HistoryInv /\ [Next]_vars => HistoryInv'
  BY PartsStep, HistoryStep, HistoryAssumption
<1> QED
  BY <1>1, <1>2, PTL DEF Spec

LEMMA BackupCorrect == Spec => [](BackupInv /\ Backup!TypeOK /\ DraftIsComplete)
<1>1. Init => BackupInv /\ Backup!TypeOK /\ DraftIsComplete
  <2>1. Init => tx = "none"
    BY DEF Init, Backup!Init
  <2> QED
    BY <2>1, BackupInit, BackupTypesInit, BackupAssumption DEF Init, DraftIsComplete
<1>2. BackupInv /\ Backup!TypeOK /\ DraftIsComplete /\ [Next]_vars
        => BackupInv' /\ Backup!TypeOK' /\ DraftIsComplete'
  BY PartsStep, BackupStep, BackupTypesStep, DraftStep, BackupAssumption
<1> QED
  BY <1>1, <1>2, PTL DEF Spec

LEMMA AssemblyCorrect == Spec => []AssemblyInv
<1>1. Init => AssemblyInv
  BY AssemblyInit, AssemblyAssumption DEF Init
<1>2. AssemblyInv /\ [Next]_vars => AssemblyInv'
  BY PartsStep, AssemblyStep, AssemblyAssumption
<1> QED
  BY <1>1, <1>2, PTL DEF Spec

(* No overlap of requests makes a rule VALIDATED or TESTING whose own text *)
(* has not passed (rule_lifecycle.go 273-393).                             *)
THEOREM ValidatedTextCorrect == Spec => []ValidatedTextIsSound
<1>1. RuleInv => ValidatedTextIsSound
  BY DEF RuleInv, ValidatedTextIsSound
<1> QED
  BY <1>1, RulesCorrect, PTL

(* At rest an audit entry leads to the status of every rule, unless the    *)
(* entry failed (rule_lifecycle.go 395-530).                               *)
THEOREM AuditCorrect == Spec => []StatusIsAudited
<1>1. RuleInv => StatusIsAudited
  BY AccountedIsAudited DEF StatusIsAudited
<1> QED
  BY <1>1, RulesCorrect, PTL

(* However observations, generations and approvals overlap and fail, the   *)
(* profile and every suggested policy name only what was observed, and the *)
(* body limit of a policy is Floor or twice an observed size at most, for  *)
(* any Floor (learning_positive_engine.go 229-459).                        *)
THEOREM OnlyObservedCorrect == Spec => []OnlyObservedIsAllowed
<1>1. LearningInv => OnlyObservedIsAllowed
  BY DEF LearningInv, OnlyObservedIsAllowed
<1> QED
  BY <1>1, LearningCorrect, PTL

(* What was observed stays in the profile until requests overlap           *)
(* (learning_positive_engine.go 319).                                      *)
THEOREM ObservationsCorrect == Spec => []ObservationsAreKept
<1>1. LearningInv => ObservationsAreKept
  BY DEF LearningInv, ReadIsCurrent, ObservationsAreKept, Learning!ObservationsAreKept
<1> QED
  BY <1>1, LearningCorrect, PTL

(* A policy keeps what it allows, and stays enforced                       *)
(* (learning_positive_engine.go 478-505).                                  *)
THEOREM PoliciesCorrect == Spec => PoliciesAreFixed
<1>1. LearningInv /\ [Next]_vars =>
        [\A p \in policies : \E q \in policies' :
           /\ q.id = p.id
           /\ q.features = p.features /\ q.limit = p.limit
           /\ p.status = "ENFORCED" => q.status = "ENFORCED"]_(Learning!vars)
  BY PartsStep, PolicyStep
<1> QED
  BY <1>1, LearningCorrect, PTL DEF Spec, PoliciesAreFixed, Learning!PoliciesAreFixed

(* Whatever savers, failures and crashes interleave, the history holds     *)
(* only what was served, outgrows its limit only by rows yet to be pruned, *)
(* and its versions follow its ids until savers overlap or a statement     *)
(* fails (main.go 2197-2216, 4144-4162).                                   *)
THEOREM HistorySound == Spec => []HistoryIsSound
<1>1. HistoryInv => HistoryIsSound
  BY VersionsSound DEF HistoryInv, HistoryIsSound
<1> QED
  BY <1>1, HistoryCorrect, PTL

(* No statement of any saver removes the newest row (main.go 2214-2216).   *)
THEOREM NewestCorrect == Spec => NewestSurvives
<1>1. [Next]_vars =>
        [\A row \in saved : History!NewerThan(row) = {} => row \in saved']_(History!vars)
  BY PartsStep, NewestStep, HistoryAssumption
<1> QED
  BY <1>1, PTL DEF Spec, NewestSurvives, History!NewestSurvives

(* No order of writes, exports, damage, reinstallations and restores gives *)
(* two rows of a table one id or one natural key (main.go 5995-6142).      *)
THEOREM RowsCorrect == Spec => []RowsAreDistinct
<1>1. BackupInv => RowsAreDistinct
  BY BackupDistinct DEF RowsAreDistinct
<1> QED
  BY <1>1, BackupCorrect, PTL

(* A restore that ends has inserted every row of the bundle or, where its  *)
(* place is taken, updated the row that is there, of which the id, the key *)
(* and the columns that ON CONFLICT does not name stay; or it has changed  *)
(* nothing (main.go 5976-6160).                                            *)
THEOREM RestoreCorrect == Spec => RestoreIsAtomic
<1>1. Backup!TypeOK /\ DraftIsComplete /\ [Next]_vars =>
        [Backup!Ends =>
           \/ tables' = tables
           \/ \A t \in Backup!Table :
                /\ Backup!Restored(t, restoring.rows[t], tables[t], tables'[t])
                /\ Backup!Retained(tables[t], tables'[t])]_(Backup!vars)
  BY PartsStep, AtomicStep
<1> QED
  BY <1>1, BackupCorrect, PTL DEF Spec, RestoreIsAtomic, Backup!RestoreIsAtomic

(* Whatever is written to the tables before a sync, the text has one       *)
(* directive for every row and id that asks for one and no other, its      *)
(* parts keep their precedence, and no number repeats while the tables     *)
(* keep within their ranges, for any ranges that do not meet (main.go      *)
(* 1912-2189).                                                             *)
THEOREM TextCorrect == Spec => []TextIsWellFormed
<1>1. AssemblyInv => TextIsWellFormed
  BY RowsAreRendered, SectionsPrecede, NumbersAre, AssemblyAssumption DEF TextIsWellFormed
<1> QED
  BY <1>1, AssemblyCorrect, PTL

(* The variables of all parts have their types. *)
THEOREM TypesCorrect == Spec => []TypeOK
<1>1. RuleInv /\ LearningInv /\ HistoryInv /\ AssemblyInv /\ Backup!TypeOK => TypeOK
  BY DEF RuleInv, LearningInv, HistoryInv, AssemblyInv, TypeOK
<1> QED
  BY <1>1, RulesCorrect, LearningCorrect, HistoryCorrect, BackupCorrect, AssemblyCorrect, PTL
=============================================================================
