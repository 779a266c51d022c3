------------------------------- MODULE Query -------------------------------
(***************************************************************************)
(* The tools of the dashboard that ask one question and show one answer: a *)
(* simulation, a lookup, a filter, the details of a row.  The management   *)
(* plane changes nothing that a page shows when they ask.                  *)
(*                                                                         *)
(* An answer is shown when it arrives, whatever has been asked since, and  *)
(* whatever the input has become.  No tool looks at what its answer is an  *)
(* answer to, and none aborts a request.  Some lock their button until the *)
(* answer is there.  Some go on from the answer: they publish a rule, or   *)
(* make an exception.                                                      *)
(***************************************************************************)
EXTENDS Naturals, Sequences, SequencesExt

CONSTANTS
  Tool,       \* the tools
  Made,       \* Made[t]: what tool t is made of
  Question,   \* what may be asked: rules, addresses, filters, rows
  None,
  MaxCalls    \* bound on the questions in flight

(* What becomes of the answer on display when a question is refused, or    *)
(* the connection breaks: it is kept, dropped, or replaced by an error or  *)
(* by an answer that the page makes up.                                    *)
Fallback == {"keep", "drop", "error", "madeUp"}

(* locks: its button is disabled while it asks.  chosen: choosing a        *)
(* question asks it.  starts: it asks when it is mounted.  repeats: the    *)
(* question that was chosen last may be chosen again.                      *)
IsTool(t) ==
  /\ t.flagged \in BOOLEAN /\ t.clears \in BOOLEAN
  /\ t.refused \in Fallback /\ t.failed \in Fallback
  /\ t.locks \in BOOLEAN /\ t.chosen \in BOOLEAN /\ t.fixed \in BOOLEAN
  /\ t.starts \in BOOLEAN /\ t.repeats \in BOOLEAN
  /\ t.closes \in SUBSET {"question", "answer"}
  /\ t.acts \in {"no", "question", "answer", "answered question"}

QueryAssumption ==
  /\ None \notin Question
  /\ MaxCalls \in Nat \ {0}
  /\ \A t \in Tool :
       /\ IsTool(Made[t])
       /\ Made[t].locks => Made[t].flagged /\ ~Made[t].chosen /\ ~Made[t].starts
                          /\ Made[t].closes = {}
       /\ "question" \in Made[t].closes => Made[t].chosen

ASSUME QueryAssumption

VARIABLES
  tool,      \* the tool somebody uses
  question,  \* what is in its input, or chosen
  answer,    \* the answer on display, and what it is an answer to
  busy,      \* the flag that says it is asking
  calls,     \* the questions in flight, in the order of asking
  asked,     \* the question asked last, since the answer was closed
  crossed,   \* whether the answer is to a question that was overtaken
  kept,      \* whether the question asked last got no answer of its own
  acting,    \* whether it is going on from an answer
  acted      \* what it went on with, and the answer on display then

vars == <<tool, question, answer, busy, calls, asked, crossed, kept, acting, acted>>

-----------------------------------------------------------------------------
Is == Made[tool]
NoAnswer == [to |-> None, as |-> "none"]
(* An answer taken for one to whatever is in the input by now. *)
ShownForInput(q, kind) == [to |-> question, as |-> kind]

Shown(q, kind) == [to |-> q, as |-> kind]
Call(q) == [to |-> q, late |-> FALSE]

Init ==
  /\ tool \in Tool
  /\ question \in IF Is.chosen /\ ~Is.starts THEN {None} ELSE Question
  /\ answer = NoAnswer
  /\ busy = Is.starts
  /\ calls = IF Is.starts THEN <<Call(question)>> ELSE <<>>
  /\ asked = IF Is.starts THEN question ELSE None
  /\ crossed = FALSE /\ kept = FALSE
  /\ acting = FALSE /\ acted = [on |-> None, seen |-> NoAnswer]

(* Somebody edits the input.  The answer stays on display. *)
Edit(q) ==
  /\ ~Is.chosen /\ ~Is.fixed /\ q # question
  /\ question' = q
  /\ UNCHANGED <<tool, answer, busy, calls, asked, crossed, kept, acting, acted>>

(* A form that is submitted by its button and by its key. *)
SubmitTwice(q) ==
  /\ Len(calls) < MaxCalls
  /\ calls' = calls \o <<Call(q), Call(q)>>
  /\ busy' = Is.flagged
  /\ answer' = IF Is.clears THEN NoAnswer ELSE answer
  /\ asked' = q /\ kept' = FALSE
  /\ UNCHANGED <<tool, crossed, acting, acted>>

(* A handler up to its request. *)
Submit(q) ==
  /\ Len(calls) < MaxCalls
  /\ calls' = Append(calls, Call(q))
  /\ busy' = Is.flagged
  /\ answer' = IF Is.clears THEN NoAnswer ELSE answer
  /\ asked' = q /\ kept' = FALSE
  /\ UNCHANGED <<tool, crossed, acting, acted>>

(* A button that nothing disables. *)
AskUnlocked == ~Is.chosen /\ Submit(question) /\ UNCHANGED question

Ask ==
  /\ ~Is.chosen
  /\ Is.locks => ~busy
  /\ Submit(question)
  /\ UNCHANGED question

(* A filter is set, or a row is opened. *)
Choose(q) ==
  /\ Is.chosen
  /\ q = question => Is.repeats
  /\ question' = q
  /\ Submit(q)

(* Somebody closes the details.  What is in flight goes on. *)
Close ==
  /\ IF "question" \in Is.closes THEN question # None
                                  ELSE "answer" \in Is.closes /\ answer # NoAnswer
  /\ question' = IF "question" \in Is.closes THEN None ELSE question
  /\ answer' = IF "answer" \in Is.closes THEN NoAnswer ELSE answer
  /\ calls' = [i \in DOMAIN calls |-> [calls[i] EXCEPT !.late = TRUE]]
  /\ asked' = None /\ crossed' = FALSE /\ kept' = FALSE
  /\ UNCHANGED <<tool, busy, acting, acted>>

(* A flag that is lowered by an answer only. *)
BusyAfterAnswer(o) == o # "answer" /\ busy

(* Whatever comes of a question, `finally` lowers the flag. *)
BusyAfter(o) == FALSE

(* A handler from the answer on. *)
Answer(i) ==
  LET c == calls[i]
  IN  \E o \in {"answer", Is.refused, Is.failed} :
        /\ answer' = CASE o = "keep" -> answer [] o = "drop" -> NoAnswer
                       [] OTHER -> Shown(c.to, o)
        /\ crossed' = IF o = "keep" THEN crossed ELSE c.late
        /\ kept' = (kept \/ (~c.late /\ o \in {"keep", "drop"}))
        /\ busy' = BusyAfter(o)
        /\ calls' = RemoveAt([j \in DOMAIN calls |->
                      [calls[j] EXCEPT !.late = @ \/ (j < i /\ ~c.late)]], i)
        /\ UNCHANGED <<tool, question, asked, acting, acted>>

-----------------------------------------------------------------------------
(* What a tool goes on with is its input or its answer.  Where it is the   *)
(* answered question, the button is on display with an answer, and sends   *)
(* the input.  Bound: one request at a time.                               *)
Act ==
  /\ ~acting
  /\ \/ /\ Is.acts = "question" /\ question # None
        /\ acted' = [on |-> question, seen |-> answer]
     \/ /\ Is.acts = "answered question" /\ answer # NoAnswer
        /\ acted' = [on |-> question, seen |-> answer]
     \/ /\ Is.acts = "answer" /\ answer # NoAnswer
        /\ acted' = [on |-> answer.to, seen |-> answer]
  /\ acting' = TRUE
  /\ UNCHANGED <<tool, question, answer, busy, calls, asked, crossed, kept>>

(* Where the answer can be closed, going on from it closes it.             *)
Done ==
  /\ acting
  /\ acting' = FALSE
  /\ \/ UNCHANGED <<answer, calls, asked, crossed, kept>>
     \/ /\ Is.acts = "answer" /\ "answer" \in Is.closes
        /\ answer' = NoAnswer
        /\ calls' = [i \in DOMAIN calls |-> [calls[i] EXCEPT !.late = TRUE]]
        /\ asked' = None /\ crossed' = FALSE /\ kept' = FALSE
  /\ UNCHANGED <<tool, question, busy, acted>>

-----------------------------------------------------------------------------
Next ==
  \/ \E q \in Question : Edit(q) \/ Choose(q)
  \/ Ask \/ Close \/ Act \/ Done
  \/ \E i \in DOMAIN calls : Answer(i)

Spec == Init /\ [][Next]_vars

(* A question is answered some day, if only by a connection that breaks.   *)
AnswerFirst == calls # <<>> /\ Answer(1)
FairSpec == Spec /\ WF_vars(AnswerFirst)

-----------------------------------------------------------------------------
CallSet == [to : Question, late : BOOLEAN]

TypeOK ==
  /\ tool \in Tool
  /\ question \in Question \cup {None} /\ asked \in Question \cup {None}
  /\ answer.to \in Question \cup {None}
  /\ answer.as \in {"none", "answer", "error", "madeUp"}
  /\ busy \in BOOLEAN /\ crossed \in BOOLEAN /\ kept \in BOOLEAN /\ acting \in BOOLEAN
  /\ calls \in Seq(CallSet)
  /\ Len(calls) <= MaxCalls
  /\ acted.on \in Question \cup {None}

(* A tool that locks its button while it asks never shows an answer that a *)
(* later one has overtaken (`disabled={simulating}` and its like): the     *)
(* lock is down only when nothing is in flight.                            *)
LockedToolsAnswerInOrder ==
  Is.locks => ~crossed /\ (~busy => calls = <<>>)

(* At rest, the answer on display is to the question asked last, and not   *)
(* to what the input has become since, unless an answer was overtaken or   *)
(* the last question got none of its own.                                  *)
LatestIsShown ==
  calls = <<>> /\ ~crossed /\ ~kept /\ asked # None =>
    answer # NoAnswer /\ answer.to = asked

(* Every tool comes to the end of what it asks: `finally` lowers the flag. *)
AskingEnds == busy ~> ~busy

(* What is deployed from the simulator was simulated: simulator/page.tsx   *)
(* describes the rule as "tested and deployed via WAF Policy Simulator".   *)
DeployedWasSimulated ==
  acted.on # None => acted.seen.as = "answer" /\ acted.seen.to = acted.on
=============================================================================
