---------------------------- MODULE Query_proofs ----------------------------
(***************************************************************************)
(* For any tools, any questions and any bound on the questions in flight:  *)
(* the types, that a tool that locks its button shows its answers in       *)
(* order, and that a tool at rest shows the answer to the question asked   *)
(* last.                                                                   *)
(***************************************************************************)
EXTENDS Query, SequenceTheorems, TLAPS

(* The sequences of the model are those of Answer: one element is taken    *)
(* out and the rest closes up.                                             *)
LEMMA RemoveAtShape ==
  ASSUME NEW S, NEW s \in Seq(S), NEW i \in 1 .. Len(s)
  PROVE  /\ RemoveAt(s, i) \in Seq(S)
         /\ Len(RemoveAt(s, i)) = Len(s) - 1
         /\ \A j \in 1 .. Len(s) - 1 :
              RemoveAt(s, i)[j] = IF j < i THEN s[j] ELSE s[j + 1]
<1> DEFINE before == SubSeq(s, 1, i - 1)
           after == SubSeq(s, i + 1, Len(s))
<1>1. Len(s) \in Nat /\ i \in Int
  BY LenProperties
<1>2. /\ before \in Seq(S) /\ Len(before) = i - 1
      /\ \A j \in 1 .. i - 1 : before[j] = s[j]
  BY <1>1, SubSeqProperties, ElementOfSeq
<1>3. /\ after \in Seq(S) /\ Len(after) = Len(s) - i
      /\ \A j \in 1 .. Len(s) - i : after[j] = s[i + j]
  BY <1>1, SubSeqProperties, ElementOfSeq
<1>4. RemoveAt(s, i) = before \o after
  BY DEF RemoveAt
<1> HIDE DEF before, after
<1>5. /\ before \o after \in Seq(S) /\ Len(before \o after) = Len(before) + Len(after)
      /\ \A j \in 1 .. Len(before) + Len(after) : (before \o after)[j] =
           IF j <= Len(before) THEN before[j] ELSE after[j - Len(before)]
  BY <1>2, <1>3, ConcatProperties
<1>6. ASSUME NEW j \in 1 .. Len(s) - 1
      PROVE  (before \o after)[j] = IF j < i THEN s[j] ELSE s[j + 1]
  <2>1. CASE j < i
    BY <1>1, <1>2, <1>3, <1>5, <2>1
  <2>2. CASE ~(j < i)
    <3>1. (before \o after)[j] = after[j - (i - 1)] /\ j - (i - 1) \in 1 .. Len(s) - i
      BY <1>1, <1>2, <1>3, <1>5, <2>2
    <3>2. after[j - (i - 1)] = s[i + (j - (i - 1))]
      BY <1>3, <3>1
    <3>3. i + (j - (i - 1)) = j + 1
      BY <1>1
    <3> QED  BY <2>2, <3>1, <3>2, <3>3
  <2> QED  BY <2>1, <2>2
<1> QED  BY <1>1, <1>2, <1>3, <1>4, <1>5, <1>6

(* A locked tool has at most one question in flight, whose answer nothing  *)
(* overtakes, and its button is enabled only without one.                  *)
OneQuestion ==
  Is.locks => /\ Len(calls) <= 1
              /\ \A i \in DOMAIN calls : ~calls[i].late
              /\ ~crossed
              /\ ~busy => calls = <<>>

(* An input is never empty, but a row may be closed. *)
InputIsThere == ~Is.chosen => question \in Question

(* The question asked last is in flight, behind all others, or it has been *)
(* answered: then whatever is still in flight is overtaken, and its answer *)
(* would say so.                                                           *)
LastInFlight == calls # <<>> /\ calls[Len(calls)] = Call(asked)
LastShown ==
  /\ \A i \in DOMAIN calls : calls[i].late
  /\ crossed \/ (answer # NoAnswer /\ answer.to = asked)
LastIsAnswered == asked # None /\ ~kept => LastInFlight \/ LastShown

IInv == TypeOK /\ OneQuestion /\ InputIsThere /\ LastIsAnswered

(* What the proofs use of a tool. *)
LEMMA ToolFacts ==
  ASSUME tool \in Tool
  PROVE  /\ Is.flagged \in BOOLEAN /\ Is.starts \in BOOLEAN /\ Is.chosen \in BOOLEAN
         /\ {Is.refused, Is.failed} \subseteq Fallback
         /\ Is.locks => Is.flagged /\ ~Is.chosen /\ ~Is.starts /\ Is.closes = {}
         /\ "question" \in Is.closes => Is.chosen
  BY QueryAssumption DEF QueryAssumption, IsTool, Is

LEMMA CallsFacts ==
  ASSUME TypeOK
  PROVE  /\ Len(calls) \in Nat /\ DOMAIN calls = 1 .. Len(calls)
         /\ calls \in [1 .. Len(calls) -> CallSet]
         /\ MaxCalls \in Nat
  BY LenProperties, QueryAssumption DEF TypeOK, QueryAssumption

(* It holds initially: only tools without a lock start with a question.    *)
LEMMA InitIInv == Init => IInv
<1> SUFFICES ASSUME Init PROVE IInv
  OBVIOUS
<1>1. /\ question \in Question \cup {None}
      /\ Is.starts \/ ~Is.chosen => question \in Question
  BY DEF Init
<1>2. tool \in Tool
  BY DEF Init
<1>3. calls \in Seq(CallSet) /\ Len(calls) <= 1 /\ (~Is.starts => calls = <<>>)
  <2>1. CASE Is.starts
    <3>1. Call(question) \in CallSet
      BY <1>1, <2>1 DEF Call, CallSet
    <3> QED  BY <2>1, <3>1 DEF Init
  <2>2. CASE ~Is.starts
    BY <2>2 DEF Init
  <2> QED  BY <2>1, <2>2
<1>4. TypeOK
  <2>1. busy \in BOOLEAN /\ asked \in Question \cup {None}
    BY <1>1, <1>2, ToolFacts DEF Init
  <2>2. Len(calls) <= MaxCalls
    BY <1>3, LenProperties, QueryAssumption DEF QueryAssumption
  <2>3. /\ answer.to = None /\ answer.as = "none" /\ acted.on = None
        /\ crossed = FALSE /\ kept = FALSE /\ acting = FALSE
    BY DEF Init, NoAnswer
  <2> QED  BY <1>1, <1>2, <1>3, <2>1, <2>2, <2>3 DEF TypeOK
<1>5. OneQuestion
  BY <1>2, <1>3, ToolFacts DEF OneQuestion, Init
<1>6. LastIsAnswered
  <2> SUFFICES ASSUME asked # None PROVE LastInFlight
    BY DEF LastIsAnswered
  <2>1. Is.starts /\ calls = <<Call(asked)>>
    BY DEF Init
  <2> QED  BY <2>1 DEF LastInFlight
<1> QED  BY <1>1, <1>4, <1>5, <1>6 DEF IInv, InputIsThere

(* A question is added, and the flag raised where there is one. *)
LEMMA SubmitIInv ==
  ASSUME IInv, NEW q \in Question, Submit(q), question' \in Question,
         Is.locks => ~busy
  PROVE  IInv'
<1>1. tool \in Tool /\ tool' = tool /\ Is' = Is
  BY DEF IInv, TypeOK, Submit, Is
<1>2. calls \in Seq(CallSet) /\ Call(q) \in CallSet /\ calls' = Append(calls, Call(q))
  BY DEF IInv, TypeOK, Submit, Call, CallSet
<1>3. /\ calls' \in Seq(CallSet) /\ Len(calls') = Len(calls) + 1
      /\ calls'[Len(calls) + 1] = Call(q)
  BY <1>2, AppendProperties
<1>4. Len(calls') <= MaxCalls
  BY <1>3, CallsFacts DEF IInv, Submit
<1>5. TypeOK'
  <2>1. busy' \in BOOLEAN /\ asked' \in Question /\ kept' = FALSE
    BY <1>1, ToolFacts DEF Submit
  <2>2. /\ answer'.to \in Question \cup {None}
        /\ answer'.as \in {"none", "answer", "error", "madeUp"}
    BY DEF IInv, TypeOK, Submit, NoAnswer
  <2>3. crossed' \in BOOLEAN /\ acting' \in BOOLEAN /\ acted'.on \in Question \cup {None}
    BY DEF IInv, TypeOK, Submit
  <2> QED  BY <1>1, <1>3, <1>4, <2>1, <2>2, <2>3 DEF TypeOK
<1>6. OneQuestion'
  <2> SUFFICES ASSUME Is.locks PROVE OneQuestion!2'
    BY <1>1 DEF OneQuestion
  <2>1. calls = <<>> /\ busy' = TRUE /\ ~crossed'
    BY <1>1, ToolFacts DEF IInv, OneQuestion, Submit
  <2>2. Len(calls') = 1 /\ calls'[1] = Call(q)
    BY <1>3, <2>1
  <2>3. DOMAIN calls' = {1}
    <3>1. DOMAIN calls' = 1 .. Len(calls')
      BY <1>3, LenProperties
    <3> QED  BY <2>2, <3>1
  <2>4. ~calls'[1].late
    BY <2>2 DEF Call
  <2> QED  BY <2>1, <2>2, <2>3, <2>4
<1>7. LastIsAnswered'
  <2>1. asked' = q
    BY DEF Submit
  <2>2. Len(calls') = Len(calls) + 1 /\ Len(calls) \in Nat /\ calls' # <<>>
    BY <1>2, <1>3, LenProperties, EmptySeq
  <2>3. calls'[Len(calls')] = Call(asked')
    BY <1>3, <2>1, <2>2
  <2> QED  BY <2>2, <2>3 DEF LastIsAnswered, LastInFlight, Call
<1> QED  BY <1>1, <1>5, <1>6, <1>7 DEF IInv, InputIsThere

(* The one question in flight is answered, and nothing is left. *)
LEMMA AnswerIInv ==
  ASSUME IInv, NEW i \in DOMAIN calls, Answer(i)
  PROVE  IInv'
<1> DEFINE marked == [j \in DOMAIN calls |->
                       [calls[j] EXCEPT !.late = @ \/ (j < i /\ ~calls[i].late)]]
<1>1. /\ calls \in [1 .. Len(calls) -> CallSet] /\ Len(calls) \in Nat
      /\ DOMAIN calls = 1 .. Len(calls) /\ MaxCalls \in Nat /\ Len(calls) <= MaxCalls
  BY CallsFacts DEF IInv, TypeOK
<1>2. calls[i] \in CallSet /\ calls[i].late \in BOOLEAN /\ calls[i].to \in Question
  BY <1>1 DEF CallSet
<1>3. marked \in Seq(CallSet) /\ Len(marked) = Len(calls)
  <2>1. marked \in [1 .. Len(calls) -> CallSet]
    BY <1>1, <1>2 DEF CallSet
  <2> HIDE DEF marked
  <2> QED  BY <1>1, <2>1, SeqDef
<1>4. PICK o \in {"answer", Is.refused, Is.failed} :
        /\ answer' = CASE o = "keep" -> answer [] o = "drop" -> NoAnswer
                       [] OTHER -> Shown(calls[i].to, o)
        /\ crossed' = IF o = "keep" THEN crossed ELSE calls[i].late
        /\ kept' = (kept \/ (~calls[i].late /\ o \in {"keep", "drop"}))
        /\ busy' = BusyAfter(o)
        /\ calls' = RemoveAt(marked, i)
        /\ UNCHANGED <<tool, question, asked, acting, acted>>
  BY DEF Answer
<1> HIDE DEF marked
<1>5. /\ calls' \in Seq(CallSet) /\ Len(calls') = Len(calls) - 1
      /\ \A j \in 1 .. Len(calls) - 1 : calls'[j] = IF j < i THEN marked[j] ELSE marked[j + 1]
  BY <1>1, <1>3, <1>4, RemoveAtShape
<1>6. tool \in Tool /\ tool' = tool /\ Is' = Is
  BY <1>4 DEF IInv, TypeOK, Is
<1>7. TypeOK'
  <2>1. o \in {"answer", "keep", "drop", "error", "madeUp"}
    BY <1>4, <1>6, ToolFacts DEF Fallback
  <2>2. /\ answer'.to \in Question \cup {None}
        /\ answer'.as \in {"none", "answer", "error", "madeUp"}
    BY <1>2, <1>4, <2>1 DEF IInv, TypeOK, NoAnswer, Shown
  <2>3. crossed' \in BOOLEAN /\ kept' \in BOOLEAN /\ busy' \in BOOLEAN
    <3>1. crossed \in BOOLEAN /\ kept \in BOOLEAN
      BY DEF IInv, TypeOK
    <3>2. crossed' \in BOOLEAN
      BY <1>2, <1>4, <3>1
    <3>3. kept' \in BOOLEAN
      BY <1>4
    <3> QED  BY <1>4, <3>2, <3>3 DEF BusyAfter
  <2>4. Len(calls') <= MaxCalls
    BY <1>1, <1>5
  <2>5. /\ question' \in Question \cup {None} /\ asked' \in Question \cup {None}
        /\ acting' \in BOOLEAN /\ acted'.on \in Question \cup {None}
    BY <1>4 DEF IInv, TypeOK
  <2> QED  BY <1>5, <1>6, <2>2, <2>3, <2>4, <2>5 DEF TypeOK
<1>8. OneQuestion'
  <2> SUFFICES ASSUME Is.locks PROVE OneQuestion!2'
    BY <1>6 DEF OneQuestion
  <2>1. Len(calls) <= 1 /\ ~calls[i].late /\ ~crossed
    BY DEF IInv, OneQuestion
  <2>2. Len(calls') = 0
    BY <1>1, <1>5, <2>1
  <2>3. calls' = <<>> /\ DOMAIN calls' = {}
    BY <1>5, <2>2, EmptySeq, LenProperties
  <2> QED  BY <1>4, <2>1, <2>2, <2>3
<1>9. InputIsThere'
  BY <1>4, <1>6 DEF IInv, InputIsThere
<1>10. LastIsAnswered'
  <2> SUFFICES ASSUME asked' # None, ~kept' PROVE LastInFlight' \/ LastShown'
    BY DEF LastIsAnswered
  <2>1. /\ asked' = asked /\ (calls[i].late \/ o \notin {"keep", "drop"})
        /\ LastInFlight \/ LastShown
    BY <1>4 DEF IInv, LastIsAnswered
  <2>2. \A j \in DOMAIN calls :
          /\ marked[j].late = (calls[j].late \/ (j < i /\ ~calls[i].late))
          /\ marked[j].to = calls[j].to /\ marked[j] \in CallSet
    BY <1>1, <1>2 DEF marked, CallSet
  <2>3. DOMAIN calls' = 1 .. Len(calls) - 1
    BY <1>5, LenProperties
  <2>4. CASE LastInFlight /\ i # Len(calls)
    <3>1. /\ Len(calls) - 1 \in 1 .. Len(calls) - 1 /\ Len(calls) - 1 + 1 = Len(calls)
          /\ ~(Len(calls) - 1 < i)
      BY <1>1, <2>4
    <3>2. calls'[Len(calls')] = marked[Len(calls)]
      BY <1>5, <3>1
    <3>3. marked[Len(calls)] = calls[Len(calls)]
      <4>1. Len(calls) \in DOMAIN calls /\ ~(Len(calls) < i)
        BY <1>1
      <4>2. calls[Len(calls)].late = FALSE
        BY <2>4 DEF LastInFlight, Call
      <4> QED  BY <1>1, <2>2, <4>1, <4>2 DEF CallSet
    <3>4. calls' # <<>>
      BY <2>3, <3>1
    <3> QED  BY <2>1, <2>4, <3>2, <3>3, <3>4 DEF LastInFlight, Call
  <2>5. CASE LastInFlight /\ i = Len(calls)
    <3>1. calls[i].late = FALSE /\ calls[i].to = asked
      BY <2>5 DEF LastInFlight, Call
    <3>2. answer' = Shown(asked, o) /\ o # "none"
      BY <1>4, <1>6, <2>1, <3>1, ToolFacts DEF Fallback
    <3>3. answer' # NoAnswer /\ answer'.to = asked'
      BY <2>1, <3>2 DEF Shown, NoAnswer
    <3>4. ASSUME NEW j \in DOMAIN calls' PROVE calls'[j].late
      <4>1. j \in DOMAIN calls /\ j < i /\ calls'[j] = marked[j]
        BY <1>1, <1>5, <2>3, <2>5
      <4> QED  BY <2>2, <3>1, <4>1
    <3> QED  BY <3>3, <3>4 DEF LastShown
  <2>6. CASE LastShown
    <3>1. \A j \in DOMAIN calls : calls[j].late
      BY <2>6 DEF LastShown
    <3>2. ASSUME NEW j \in DOMAIN calls' PROVE calls'[j].late
      <4>1. PICK k \in DOMAIN calls : calls'[j] = marked[k]
        BY <1>1, <1>5, <2>3
      <4> QED  BY <2>2, <3>1, <4>1
    <3>3. IF o = "keep" THEN answer' = answer /\ crossed' = crossed ELSE crossed'
      BY <1>4, <3>1
    <3> QED  BY <2>1, <2>6, <3>2, <3>3 DEF LastShown
  <2> QED  BY <2>1, <2>4, <2>5, <2>6
<1> QED  BY <1>7, <1>8, <1>9, <1>10 DEF IInv

(* Closing marks what is in flight, but a locked tool cannot be closed.    *)
LEMMA ClosedIInv ==
  ASSUME IInv, Is.closes # {}, tool' = tool,
         question' = question \/ ("question" \in Is.closes /\ question' = None),
         answer' \in {answer, NoAnswer},
         calls' = [i \in DOMAIN calls |-> [calls[i] EXCEPT !.late = TRUE]],
         asked' = None, crossed' = FALSE, kept' = FALSE,
         busy' = busy, acting' \in BOOLEAN, acted' = acted
  PROVE  IInv'
<1>1. tool \in Tool /\ Is' = Is /\ ~Is.locks
  BY ToolFacts DEF IInv, TypeOK, Is
<1>2. calls' \in Seq(CallSet) /\ Len(calls') = Len(calls)
  <2>1. calls \in [1 .. Len(calls) -> CallSet] /\ Len(calls) \in Nat
    BY CallsFacts DEF IInv
  <2>2. calls' \in [1 .. Len(calls) -> CallSet]
    BY <2>1 DEF CallSet
  <2> QED  BY <2>1, <2>2, SeqDef
<1>3. /\ answer'.to \in Question \cup {None}
      /\ answer'.as \in {"none", "answer", "error", "madeUp"}
  BY DEF IInv, TypeOK, NoAnswer
<1>4. question' \in Question \cup {None} /\ InputIsThere'
  BY <1>1, ToolFacts DEF IInv, TypeOK, InputIsThere
<1>5. TypeOK'
  BY <1>1, <1>2, <1>3, <1>4 DEF IInv, TypeOK
<1>6. OneQuestion'
  BY <1>1 DEF OneQuestion
<1>7. LastIsAnswered'
  BY DEF LastIsAnswered
<1> QED  BY <1>4, <1>5, <1>6, <1>7 DEF IInv

(* Whatever leaves the tool, its questions, its answer and its flag alone  *)
(* leaves both alone.                                                      *)
LEMMA Undisturbed ==
  ASSUME IInv, UNCHANGED <<tool, answer, busy, calls, asked, crossed, kept>>
  PROVE  OneQuestion' /\ LastIsAnswered' /\ Is' = Is
  BY DEF IInv, OneQuestion, LastIsAnswered, LastInFlight, LastShown, Is

LEMMA StepIInv == IInv /\ [Next]_vars => IInv'
<1> SUFFICES ASSUME IInv, [Next]_vars PROVE IInv'
  OBVIOUS
<1>1. ASSUME NEW q \in Question, Edit(q) PROVE IInv'
  <2>1. TypeOK'
    BY <1>1 DEF IInv, Edit, TypeOK
  <2>2. InputIsThere'
    BY <1>1 DEF Edit, InputIsThere
  <2> QED  BY <1>1, <2>1, <2>2, Undisturbed DEF Edit, IInv
<1>2. ASSUME NEW q \in Question, Choose(q) PROVE IInv'
  <2>1. ~Is.locks
    BY <1>2, ToolFacts DEF Choose, IInv, TypeOK
  <2> QED  BY <1>2, <2>1, SubmitIInv DEF Choose
<1>3. CASE Ask
  BY <1>3, SubmitIInv DEF Ask, IInv, InputIsThere
<1>4. CASE Close
  <2>1. acting' \in BOOLEAN /\ Is.closes # {}
    BY <1>4 DEF Close, IInv, TypeOK
  <2>2. question' = question \/ ("question" \in Is.closes /\ question' = None)
    BY <1>4 DEF Close
  <2> QED  BY <1>4, <2>1, <2>2, ClosedIInv DEF Close
<1>5. CASE Act
  <2>1. acted'.on \in Question \cup {None}
    <3>1. \E q \in {question, answer.to} : acted' = [on |-> q, seen |-> answer]
      BY <1>5 DEF Act
    <3>2. {question, answer.to} \subseteq Question \cup {None}
      BY DEF IInv, TypeOK
    <3> QED  BY <3>1, <3>2
  <2>2. TypeOK'
    BY <1>5, <2>1 DEF Act, IInv, TypeOK
  <2> QED  BY <1>5, <2>2, Undisturbed DEF Act, IInv, InputIsThere
<1>6. CASE Done
  <2>1. CASE UNCHANGED <<answer, calls, asked, crossed, kept>>
    <3>1. TypeOK'
      BY <1>6, <2>1 DEF Done, IInv, TypeOK
    <3> QED  BY <1>6, <2>1, <3>1, Undisturbed DEF Done, IInv, InputIsThere
  <2>2. CASE /\ "answer" \in Is.closes /\ answer' = NoAnswer
             /\ calls' = [i \in DOMAIN calls |-> [calls[i] EXCEPT !.late = TRUE]]
             /\ asked' = None /\ crossed' = FALSE /\ kept' = FALSE
    BY <1>6, <2>2, ClosedIInv DEF Done
  <2> QED  BY <1>6, <2>1, <2>2 DEF Done
<1>7. ASSUME NEW i \in DOMAIN calls, Answer(i) PROVE IInv'
  BY <1>7, AnswerIInv
<1>8. CASE UNCHANGED vars
  <2>1. TypeOK'
    BY <1>8 DEF vars, IInv, TypeOK
  <2> QED  BY <1>8, <2>1, Undisturbed DEF vars, IInv, InputIsThere
<1> QED  BY <1>1, <1>2, <1>3, <1>4, <1>5, <1>6, <1>7, <1>8 DEF Next

(* Every variable of a tool keeps its type, for any tools and questions. *)
THEOREM TypeCorrect == Spec => []TypeOK
<1>1. IInv => TypeOK
  BY DEF IInv
<1> QED  BY <1>1, InitIInv, StepIInv, PTL DEF Spec

(* However many answers are slow, fail or are refused: a tool that locks   *)
(* its button while it asks (`disabled={simulating}`) never shows an       *)
(* answer that has been overtaken.                                         *)
THEOREM LockedInOrder == Spec => []LockedToolsAnswerInOrder
<1>1. IInv => LockedToolsAnswerInOrder
  BY DEF IInv, OneQuestion, LockedToolsAnswerInOrder
<1> QED  BY <1>1, InitIInv, StepIInv, PTL DEF Spec

(* Whatever else was asked before, refused or answered late: at rest the   *)
(* answer on display is to the question asked last, unless an answer was   *)
(* overtaken or that question got none of its own.                         *)
THEOREM LatestShown == Spec => []LatestIsShown
<1>1. IInv => LatestIsShown
  BY DEF IInv, LastIsAnswered, LastInFlight, LastShown, LatestIsShown
<1> QED  BY <1>1, InitIInv, StepIInv, PTL DEF Spec
=============================================================================
