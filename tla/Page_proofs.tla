---------------------------- MODULE Page_proofs ----------------------------
(***************************************************************************)
(* For any pages, whatever they are made of, any rows and any bound on the *)
(* requests in flight: the types; that a flag which disables every control *)
(* that raises it lets one request out at a time; that a form is taken     *)
(* once; and that a page at rest shows what is stored.                     *)
(***************************************************************************)
EXTENDS Page, FiniteSetTheorems, SequenceTheorems, TLAPS

(* Taking an element out: the elements behind it close up.                 *)
LEMMA RemoveAtShape ==
  ASSUME NEW S, NEW s \in Seq(S), NEW i \in 1 .. Len(s)
  PROVE  /\ RemoveAt(s, i) \in Seq(S)
         /\ Len(RemoveAt(s, i)) = Len(s) - 1
         /\ \A j \in 1 .. Len(s) - 1 :
              RemoveAt(s, i)[j] = IF j < i THEN s[j] ELSE s[j + 1]
<1> DEFINE before == SubSeq(s, 1, i - 1)
           after == SubSeq(s, i + 1, Len(s))
<1>1. Len(s) \in Nat /\ i \in Int
  BY LenProperties
<1>2. /\ before \in Seq(S) /\ Len(before) = i - 1
      /\ \A j \in 1 .. i - 1 : before[j] = s[j]
  BY <1>1, SubSeqProperties, ElementOfSeq
<1>3. /\ after \in Seq(S) /\ Len(after) = Len(s) - i
      /\ \A j \in 1 .. Len(s) - i : after[j] = s[i + j]
  BY <1>1, SubSeqProperties, ElementOfSeq
<1>4. RemoveAt(s, i) = before \o after
  BY DEF RemoveAt
<1> HIDE DEF before, after
<1>5. /\ before \o after \in Seq(S) /\ Len(before \o after) = Len(before) + Len(after)
      /\ \A j \in 1 .. Len(before) + Len(after) : (before \o after)[j] =
           IF j <= Len(before) THEN before[j] ELSE after[j - Len(before)]
  BY <1>2, <1>3, ConcatProperties
<1>6. ASSUME NEW j \in 1 .. Len(s) - 1
      PROVE  (before \o after)[j] = IF j < i THEN s[j] ELSE s[j + 1]
  <2>1. CASE j < i
    BY <1>1, <1>2, <1>3, <1>5, <2>1
  <2>2. CASE ~(j < i)
    <3>1. (before \o after)[j] = after[j - (i - 1)] /\ j - (i - 1) \in 1 .. Len(s) - i
      BY <1>1, <1>2, <1>3, <1>5, <2>2
    <3>2. after[j - (i - 1)] = s[i + (j - (i - 1))]
      BY <1>3, <3>1
    <3>3. i + (j - (i - 1)) = j + 1
      BY <1>1
    <3> QED  BY <2>2, <3>1, <3>2, <3>3
  <2> QED  BY <2>1, <2>2
<1> QED  BY <1>1, <1>2, <1>3, <1>4, <1>5, <1>6

(* A finite set is listed by a sequence of its members. *)
LEMMA SetToSeqShape ==
  ASSUME NEW S, IsFiniteSet(S)
  PROVE  Cardinality(S) \in Nat /\ SetToSeq(S) \in [1 .. Cardinality(S) -> S]
<1>1. Cardinality(S) \in Nat /\ ExistsBijection(1 .. Cardinality(S), S)
  BY FS_CardinalityType
<1>2. \E f \in [1 .. Cardinality(S) -> S] : IsInjective(f)
  BY <1>1 DEF ExistsBijection, Bijection, Injection, IsInjective
<1> QED  BY <1>1, <1>2 DEF SetToSeq

-----------------------------------------------------------------------------
(* What a page is made of. *)

LEMMA HandlerFacts ==
  ASSUME page \in Page, NEW n \in Names
  PROVE  /\ n # "fetch"
         /\ Does(n).table \in Is.tables /\ Does(n).flag # "loading"
         /\ Does(n).flag \in Flags /\ Does(n).perRow \in BOOLEAN
         /\ \A v \in DOMAIN Does(n).gives : v \in Value /\ Does(n).gives[v] \subseteq Updates
         /\ At(n).form # "none" => At(n).form \in Forms
<1>1. /\ n # "fetch" /\ IsHandler(Does(n), Is.tables) /\ Does(n).flag # "loading"
  BY MadeAssumption DEF MadeAssumption, Names, Does, Is
<1>2. Does(n).flag \in Flags
  BY DEF Flags, FlagsOf, Names, Does, Is
<1>3. \A v \in DOMAIN Does(n).gives : Does(n).gives[v] \subseteq Updates
  BY DEF Updates, UpdatesOf, Names, Does, Is
<1>4. At(n).form # "none" => At(n).form \in Forms
  BY MadeAssumption DEF MadeAssumption, Forms, FormsOf, ControlsOf, At, Names, Is
<1> QED  BY <1>1, <1>2, <1>3, <1>4 DEF IsHandler

LEMMA UpdateFacts ==
  ASSUME page \in Page, NEW u \in Updates, NEW v \in Value
  PROVE  Apply(u, v) \in Value
<1>1. IsUpdate(u)
  <2>1. CASE u = Nothing
    BY <2>1 DEF IsUpdate, Nothing
  <2>2. CASE u # Nothing
    <3>1. PICK n \in DOMAIN Made[page].does :
            \E w \in DOMAIN Made[page].does[n].gives : u \in Made[page].does[n].gives[w]
      BY <2>2 DEF Updates, UpdatesOf
    <3>2. IsHandler(Made[page].does[n], Made[page].tables)
      BY MadeAssumption DEF MadeAssumption
    <3> QED  BY <3>1, <3>2 DEF IsHandler
  <2> QED  BY <2>1, <2>2
<1> QED  BY <1>1 DEF IsUpdate, Apply

LEMMA ItemFacts ==
  ASSUME page \in Page
  PROVE  /\ \A i \in Items : i[1] \in Is.tables
         /\ NoItem \notin Items /\ NoItem \in Everything /\ Items \subseteq Everything
         /\ Blank \in [Items -> Value]
         /\ Preset \subseteq Forms
         /\ \A t \in Is.tables : Is.rows[t] \subseteq Value
         /\ Nothing \in Updates
<1>1. \A i \in Items : i[1] \in Is.tables
  BY MadeAssumption DEF MadeAssumption, Items, Is
<1>2. "none" \notin Is.tables /\ \A t \in Is.tables : Is.rows[t] \subseteq Value
  BY MadeAssumption DEF MadeAssumption, Is
<1>3. NoItem \notin Items
  BY <1>1, <1>2 DEF NoItem
<1>4. Blank \in [Items -> Value]
  BY MadeAssumption DEF MadeAssumption, Blank
<1>5. Preset \subseteq Forms
  <2> SUFFICES ASSUME NEW c \in ControlsOf(page), c.preset PROVE c.form \in Forms
    BY DEF Preset, PresetOf
  <2>1. IsControl(c)
    BY MadeAssumption DEF MadeAssumption, ControlsOf
  <2> QED  BY <2>1 DEF IsControl, Forms, FormsOf
<1>6. Nothing \in Updates
  BY DEF Updates, UpdatesOf
<1> QED  BY <1>1, <1>2, <1>3, <1>4, <1>5, <1>6 DEF Everything, EverythingOf, Items

-----------------------------------------------------------------------------
(* A request that is in flight. *)

LEMMA FetchIsCall ==
  ASSUME page \in Page, NEW f \in Flags \cup {"none"}
  PROVE  Fetch(f) \in Call
  BY ItemFacts DEF Fetch, Call

LEMMA ChangeIsCall ==
  ASSUME page \in Page, shown \in [Items -> Value],
         NEW n \in Names, NEW item \in Everything, NEW u \in Updates
  PROVE  Change(n, item, u) \in Call
<1>1. (IF Patches(n) THEN shown ELSE Blank) \in [Items -> Value]
  BY ItemFacts
<1> QED  BY <1>1, HandlerFacts DEF Change, Call

LEMMA CallFacts ==
  ASSUME NEW c \in Call
  PROVE  /\ c.does \in Names \cup {"fetch"} /\ c.item \in Everything /\ c.asks \in Updates
         /\ c.taken \in BOOLEAN /\ c.late \in BOOLEAN /\ c.crossed \in BOOLEAN
         /\ c.rows \in [Items -> Value] /\ c.got \subseteq Is.tables
         /\ c.flag \in Flags \cup {"none"}
         /\ \A b \in BOOLEAN : [c EXCEPT !.late = b] \in Call
         /\ \A b, d \in BOOLEAN : [c EXCEPT !.taken = b, !.crossed = d] \in Call
  BY DEF Call

LEMMA CallsFacts ==
  ASSUME TypeOK
  PROVE  /\ Len(calls) \in Nat /\ DOMAIN calls = 1 .. Len(calls)
         /\ calls \in [1 .. Len(calls) -> Call]
         /\ MaxCalls \in Nat \ {0}
  BY LenProperties, MadeAssumption DEF TypeOK, MadeAssumption

(* A request that is sent is the last one in flight.                       *)
LEMMA SentShape ==
  ASSUME NEW s \in Seq(Call), NEW c \in Call
  PROVE  /\ Append(s, c) \in Seq(Call) /\ Len(Append(s, c)) = Len(s) + 1
         /\ DOMAIN s = 1 .. Len(s) /\ Len(s) \in Nat
         /\ DOMAIN Append(s, c) = DOMAIN s \cup {Len(s) + 1} /\ Len(s) + 1 \notin DOMAIN s
         /\ \A j \in DOMAIN s : Append(s, c)[j] = s[j]
         /\ Append(s, c)[Len(s) + 1] = c
<1>1. /\ Append(s, c) \in Seq(Call) /\ Len(Append(s, c)) = Len(s) + 1
      /\ \A j \in 1 .. Len(s) : Append(s, c)[j] = s[j]
      /\ Append(s, c)[Len(s) + 1] = c
  BY AppendProperties
<1>2. Len(s) \in Nat /\ DOMAIN s = 1 .. Len(s) /\ DOMAIN Append(s, c) = 1 .. Len(s) + 1
  BY <1>1, LenProperties
<1>3. 1 .. Len(s) + 1 = (1 .. Len(s)) \cup {Len(s) + 1}
  BY <1>2
<1> QED  BY <1>1, <1>2, <1>3

(* What a page leaves behind, and its first fetch.                         *)
LEMMA LeftShape ==
  ASSUME TypeOK, Leave
  PROVE  \E left \in Seq(Call) :
           /\ calls' = Append(left, Fetch("none")) /\ Len(left) + 1 <= MaxCalls
           /\ \A i \in DOMAIN left :
                left[i].does # "fetch" /\ left[i].late /\ left[i].flag = "none"
<1> DEFINE at == SetToSeq(Untaken)
           left == [i \in DOMAIN at |-> Orphan(calls[at[i]])]
<1>1. page \in Page
  BY DEF TypeOK
<1>2. Len(at) < MaxCalls /\ calls' = Append(left, Fetch("none"))
  BY DEF Leave
<1>3. /\ Cardinality(Untaken) \in Nat
      /\ at \in [1 .. Cardinality(Untaken) -> Untaken]
  <2>1. IsFiniteSet(DOMAIN calls)
    BY CallsFacts, FS_Interval
  <2>2. IsFiniteSet(Untaken)
    BY <2>1, FS_Subset DEF Untaken
  <2> QED  BY <2>2, SetToSeqShape
<1> HIDE DEF at
<1>4. ASSUME NEW i \in 1 .. Cardinality(Untaken)
      PROVE  /\ Orphan(calls[at[i]]) \in Call
             /\ Orphan(calls[at[i]]).does # "fetch"
             /\ Orphan(calls[at[i]]).late /\ Orphan(calls[at[i]]).flag = "none"
  <2>1. calls[at[i]] \in Call /\ calls[at[i]].does # "fetch"
    BY <1>3, CallsFacts DEF Untaken
  <2>2. Blank \in [Items -> Value]
    BY <1>1, ItemFacts
  <2> QED  BY <2>1, <2>2 DEF Orphan, Call
<1>5. at \in Seq(Untaken) /\ DOMAIN at = 1 .. Cardinality(Untaken)
  BY <1>3, SeqDef
<1>6. /\ left \in [1 .. Cardinality(Untaken) -> Call]
      /\ \A i \in DOMAIN left :
           left[i].does # "fetch" /\ left[i].late /\ left[i].flag = "none"
  BY <1>4, <1>5
<1> HIDE DEF left
<1>7. left \in Seq(Call) /\ Len(left) = Cardinality(Untaken)
  BY <1>3, <1>6, SeqDef, LenProperties
<1>8. Len(at) = Cardinality(Untaken)
  BY <1>3, <1>5, LenProperties
<1>9. Len(left) + 1 <= MaxCalls
  BY <1>2, <1>3, <1>7, <1>8, CallsFacts
<1> QED  BY <1>2, <1>6, <1>7, <1>9

(* A step on the same page: what depends on the page alone stays.          *)
LEMMA SamePage ==
  ASSUME page' = page
  PROVE  /\ Is' = Is /\ Items' = Items /\ Everything' = Everything /\ Flags' = Flags
         /\ Forms' = Forms /\ Call' = Call /\ Names' = Names
         /\ \A f : Guarded(f)' = Guarded(f)
<1>1. /\ Is' = Is /\ Items' = Items /\ Flags' = Flags /\ Names' = Names
      /\ Updates' = Updates
  BY DEF Is, Items, Flags, Names, Updates
<1>2. Everything' = Everything
  BY DEF Everything
<1>3. Forms' = Forms
  BY DEF Forms
<1>4. Call' = Call
  BY <1>1, <1>2 DEF Call
<1>5. \A f : Guarded(f)' = Guarded(f)
  BY <1>1 DEF Guarded, Does, At, Is
<1> QED  BY <1>1, <1>2, <1>3, <1>4, <1>5

-----------------------------------------------------------------------------
(* While a guarded request is in flight, its flag disables every row, and  *)
(* no answer of another request lowers it.                                 *)
FlagsAreUp ==
  /\ \A i \in DOMAIN calls : calls[i].flag # "loading"
  /\ \A i \in DOMAIN calls : Guarded(calls[i].flag) => busy[calls[i].flag] = Everything

IInv == TypeOK /\ OneChangeAtATime /\ FlagsAreUp

(* Whatever a step makes of the requests: every guarded one afterwards is  *)
(* one from before, by k, and no two are the same one.                     *)
LEMMA Carried ==
  ASSUME IInv, page' = page, NEW k,
         \A j \in DOMAIN calls' : calls'[j].flag # "loading",
         \A j \in DOMAIN calls' : Guarded(calls'[j].flag) =>
           /\ k[j] \in DOMAIN calls /\ calls[k[j]].flag = calls'[j].flag
           /\ busy'[calls'[j].flag] = busy[calls'[j].flag]
           /\ \A l \in DOMAIN calls' : calls'[l].flag = calls'[j].flag /\ k[l] = k[j] => l = j
  PROVE  OneChangeAtATime' /\ FlagsAreUp'
<1>1. Everything' = Everything /\ \A f : Guarded(f)' = Guarded(f)
  BY SamePage
<1>2. OneChangeAtATime'
  <2> SUFFICES ASSUME NEW i \in DOMAIN calls', NEW j \in DOMAIN calls',
                      calls'[i].flag = calls'[j].flag, Guarded(calls'[i].flag)
               PROVE  i = j
    BY <1>1 DEF OneChangeAtATime
  <2>1. k[i] = k[j]
    BY DEF IInv, OneChangeAtATime
  <2> QED  BY <2>1
<1>3. FlagsAreUp'
  BY <1>1 DEF IInv, FlagsAreUp
<1> QED  BY <1>2, <1>3

(* The requests keep their places and their flags, and the flags stay up. *)
LEMMA Undisturbed ==
  ASSUME IInv, page' = page, busy' = busy, DOMAIN calls' = DOMAIN calls,
         \A j \in DOMAIN calls : calls'[j].flag = calls[j].flag
  PROVE  OneChangeAtATime' /\ FlagsAreUp'
<1> DEFINE k == [j \in DOMAIN calls |-> j]
<1>1. \A j \in DOMAIN calls' : calls'[j].flag # "loading"
  BY DEF IInv, FlagsAreUp
<1>2. \A j \in DOMAIN calls' : Guarded(calls'[j].flag) =>
           /\ k[j] \in DOMAIN calls /\ calls[k[j]].flag = calls'[j].flag
           /\ busy'[calls'[j].flag] = busy[calls'[j].flag]
           /\ \A l \in DOMAIN calls' : calls'[l].flag = calls'[j].flag /\ k[l] = k[j] => l = j
  OBVIOUS
<1> HIDE DEF k
<1> QED  BY <1>1, <1>2, Carried

LEMMA InitIInv == Init => IInv
<1> SUFFICES ASSUME Init PROVE IInv
  OBVIOUS
<1>1. page \in Page
  BY DEF Init
<1>2. Fetch("none") \in Call /\ Fetch("none").flag = "none"
  BY <1>1, FetchIsCall DEF Fetch
<1>3. calls = <<Fetch("none")>> /\ calls \in Seq(Call) /\ Len(calls) = 1 /\ DOMAIN calls = {1}
  BY <1>2 DEF Init
<1>4. busy \in [Flags -> SUBSET Everything]
  BY DEF Init
<1>5. Len(calls) <= MaxCalls
  BY <1>3, MadeAssumption DEF MadeAssumption
<1>6. TypeOK
  BY <1>1, <1>3, <1>4, <1>5, ItemFacts DEF Init, TypeOK
<1>7. OneChangeAtATime
  BY <1>3 DEF OneChangeAtATime
<1>8. FlagsAreUp
  BY <1>2, <1>3 DEF FlagsAreUp, Guarded
<1> QED  BY <1>6, <1>7, <1>8 DEF IInv

-----------------------------------------------------------------------------
LEMMA RaisedType ==
  ASSUME TypeOK, NEW f \in Flags \cup {"none"}, NEW S \in SUBSET Everything
  PROVE  /\ Raised(f, S) \in [Flags -> SUBSET Everything]
         /\ \A g \in Flags : g # f => Raised(f, S)[g] = busy[g]
         /\ f # "none" => Raised(f, S)[f] = S
  BY DEF TypeOK, Raised

(* A form is opened or closed.                                             *)
LEMMA FormIInv ==
  ASSUME IInv, NEW f \in Forms, FillForm(f) \/ CloseForm(f)
  PROVE  IInv'
<1>1. page' = page /\ UNCHANGED <<store, shown, busy, calls, excused>>
  BY DEF FillForm, CloseForm
<1>2. ready' \subseteq Forms /\ sent' \subseteq Forms /\ twice' \subseteq Forms
  BY DEF FillForm, CloseForm, IInv, TypeOK
<1>3. TypeOK'
  BY <1>1, <1>2, SamePage DEF IInv, TypeOK
<1> QED  BY <1>1, <1>3, Undisturbed DEF IInv

LEMMA AskedIsGiven ==
  ASSUME TypeOK, NEW n \in Names, NEW item \in Everything, Offered(n, item),
         NEW u \in Asked(n, item)
  PROVE  u = Nothing \/ \E v \in DOMAIN Does(n).gives : u \in Does(n).gives[v]
<1>1. page \in Page
  BY DEF TypeOK
<1>2. CASE DOMAIN Does(n).gives = {}
  BY <1>2 DEF Asked
<1>3. CASE DOMAIN Does(n).gives # {} /\ item = NoItem
  <2>1. ~OfRow(n)
    BY <1>1, <1>3, ItemFacts DEF Offered, OfferedTo
  <2>2. Absent \in DOMAIN Does(n).gives
    BY <1>3, <2>1 DEF OfRow
  <2> QED  BY <1>3, <2>2 DEF Asked
<1>4. CASE DOMAIN Does(n).gives # {} /\ item # NoItem
  <2>1. shown[item] \in DOMAIN Does(n).gives
    BY <1>4 DEF Offered, OfferedTo
  <2> QED  BY <1>4, <2>1 DEF Asked
<1> QED  BY <1>2, <1>3, <1>4

LEMMA OfferedIsTyped ==
  ASSUME TypeOK, NEW n \in Names, NEW item \in Everything, Offered(n, item),
         NEW u \in Asked(n, item)
  PROVE  u \in Updates
<1>1. page \in Page
  BY DEF TypeOK
<1>2. u = Nothing \/ \E v \in DOMAIN Does(n).gives : u \in Does(n).gives[v]
  BY AskedIsGiven
<1> QED  BY <1>1, <1>2, HandlerFacts, ItemFacts

(* A control that a flag disables is not used while the flag is up.        *)
LEMMA ClickIInv ==
  ASSUME IInv, NEW n \in Names, NEW item \in Everything, Click(n, item)
  PROVE  IInv'
<1>1. PICK u \in Asked(n, item) : calls' = Append(calls, Change(n, item, u))
  BY DEF Click
<1> DEFINE c == Change(n, item, u)
           S == IF Does(n).perRow THEN {item} ELSE Everything
<1>2. /\ page \in Page /\ page' = page /\ TypeOK
      /\ UNCHANGED <<store, shown, ready, sent, twice, excused>>
      /\ busy' = Raised(Does(n).flag, S)
  BY DEF IInv, TypeOK, Click
<1>3. c \in Call /\ c.flag = Does(n).flag
  <2>1. u \in Updates
    BY <1>1, <1>2, OfferedIsTyped DEF Click
  <2>2. shown \in [Items -> Value]
    BY <1>2 DEF TypeOK
  <2> QED  BY <1>2, <2>1, <2>2, ChangeIsCall DEF Change
<1> HIDE DEF c
<1>4. /\ calls' \in Seq(Call) /\ Len(calls') = Len(calls) + 1
      /\ DOMAIN calls' = 1 .. Len(calls) + 1
      /\ \A j \in 1 .. Len(calls) : calls'[j] = calls[j]
      /\ calls'[Len(calls) + 1] = c
  <2>1. calls \in Seq(Call) /\ calls' = Append(calls, c)
    BY <1>1, <1>2 DEF TypeOK, c
  <2> QED  BY <1>3, <2>1, AppendProperties, LenProperties
<1>5. Len(calls') <= MaxCalls
  BY <1>2, <1>4, CallsFacts DEF Click
<1>6. /\ Does(n).flag \in Flags /\ Does(n).flag # "loading" /\ S \subseteq Everything
      /\ Guarded(Does(n).flag) => S = Everything
  BY <1>2, HandlerFacts DEF Guarded
<1> HIDE DEF S
<1>7. /\ busy' \in [Flags -> SUBSET Everything]
      /\ \A g \in Flags : g # Does(n).flag => busy'[g] = busy[g]
      /\ Does(n).flag # "none" => busy'[Does(n).flag] = S
  BY <1>2, <1>6, RaisedType
<1>8. TypeOK'
  BY <1>2, <1>4, <1>5, <1>7, SamePage DEF TypeOK
<1>9. ASSUME Guarded(Does(n).flag), NEW i \in DOMAIN calls PROVE calls[i].flag # Does(n).flag
  <2> SUFFICES ASSUME calls[i].flag = Does(n).flag PROVE FALSE
    OBVIOUS
  <2>1. busy[Does(n).flag] = Everything
    BY <1>9 DEF IInv, FlagsAreUp
  <2>2. Does(n).flag \in At(n).disabled
    BY <1>9 DEF Guarded
  <2> QED  BY <2>1, <2>2 DEF Click, Offered, Enabled
<1>10. \A i \in DOMAIN calls : calls[i].flag \in Flags \cup {"none"}
  BY <1>2, CallsFacts, CallFacts
<1>11. DOMAIN calls = 1 .. Len(calls) /\ Len(calls) \in Nat
  BY <1>2, CallsFacts
<1>12. OneChangeAtATime'
  <2> SUFFICES ASSUME NEW i \in DOMAIN calls', NEW j \in DOMAIN calls',
                      calls'[i].flag = calls'[j].flag, Guarded(calls'[i].flag)
               PROVE  i = j
    BY <1>2, SamePage DEF OneChangeAtATime
  <2>1. CASE i \in DOMAIN calls /\ j \in DOMAIN calls
    BY <1>4, <1>11, <2>1 DEF IInv, OneChangeAtATime
  <2>2. CASE i \notin DOMAIN calls \/ j \notin DOMAIN calls
    <3>1. calls'[i].flag = Does(n).flag
      BY <1>3, <1>4, <1>11, <2>2
    <3>2. i \notin DOMAIN calls /\ j \notin DOMAIN calls
      BY <1>4, <1>9, <1>11, <3>1
    <3> QED  BY <1>4, <1>11, <3>2
  <2> QED  BY <2>1, <2>2
<1>13. FlagsAreUp'
  <2>1. ASSUME NEW i \in DOMAIN calls'
        PROVE  /\ calls'[i].flag # "loading"
               /\ Guarded(calls'[i].flag) => busy'[calls'[i].flag] = Everything
    <3>1. CASE i \in DOMAIN calls
      <4>1. /\ calls'[i] = calls[i] /\ calls[i].flag # "loading"
            /\ Guarded(calls[i].flag) => busy[calls[i].flag] = Everything
        BY <1>4, <1>11, <3>1 DEF IInv, FlagsAreUp
      <4>2. ASSUME Guarded(calls[i].flag) PROVE busy'[calls[i].flag] = busy[calls[i].flag]
        BY <1>7, <1>9, <1>10, <3>1, <4>2 DEF Guarded
      <4> QED  BY <4>1, <4>2
    <3>2. CASE i \notin DOMAIN calls
      <4>1. calls'[i].flag = Does(n).flag
        BY <1>3, <1>4, <1>11, <3>2
      <4>2. ASSUME Guarded(Does(n).flag) PROVE busy'[Does(n).flag] = Everything
        BY <1>6, <1>7, <4>2 DEF Guarded
      <4> QED  BY <1>6, <4>1, <4>2
    <3> QED  BY <3>1, <3>2
  <2> QED  BY <1>2, <2>1, SamePage DEF FlagsAreUp
<1> QED  BY <1>8, <1>12, <1>13 DEF IInv

(* A fetch that lowers no flag of a change is added behind requests that   *)
(* keep their places and flags.                                            *)
LEMMA RefreshIInv ==
  ASSUME IInv, Refresh
  PROVE  IInv'
<1>1. /\ page \in Page /\ page' = page /\ TypeOK /\ busy' = Loading
      /\ UNCHANGED <<store, shown, ready, sent, twice, excused>>
  BY DEF IInv, TypeOK, Refresh
<1>2. Fetch("none") \in Call /\ Fetch("none").flag = "none"
  BY <1>1, FetchIsCall DEF Fetch
<1>3. /\ calls' \in Seq(Call) /\ Len(calls') = Len(calls) + 1
      /\ DOMAIN calls' = 1 .. Len(calls) + 1
      /\ \A j \in 1 .. Len(calls) : calls'[j] = calls[j]
      /\ calls'[Len(calls) + 1] = Fetch("none")
  <2>1. calls \in Seq(Call) /\ calls' = Append(calls, Fetch("none"))
    BY <1>1 DEF TypeOK, Refresh
  <2> QED  BY <1>2, <2>1, AppendProperties, LenProperties
<1>4. DOMAIN calls = 1 .. Len(calls) /\ Len(calls) \in Nat /\ Len(calls') <= MaxCalls
  BY <1>1, <1>3, CallsFacts DEF Refresh
<1>5. /\ busy' \in [Flags -> SUBSET Everything]
      /\ \A g \in Flags : g # "loading" => busy'[g] = busy[g]
  <2>1. CASE Is.quiet
    BY <1>1, <2>1 DEF Loading, TypeOK
  <2>2. CASE ~Is.quiet
    <3>1. "loading" \in Flags
      BY <1>1 DEF Flags, FlagsOf
    <3>2. busy' = Raised("loading", Everything)
      BY <1>1, <2>2 DEF Loading
    <3> QED  BY <1>1, <3>1, <3>2, RaisedType
  <2> QED  BY <2>1, <2>2
<1>6. TypeOK'
  BY <1>1, <1>3, <1>4, <1>5, SamePage DEF TypeOK
<1>7. \A i \in DOMAIN calls : calls[i].flag \in Flags \cup {"none"} /\ calls[i].flag # "loading"
  BY <1>1, CallsFacts, CallFacts DEF IInv, FlagsAreUp
<1> DEFINE k == [j \in 1 .. Len(calls) + 1 |-> j]
<1>8. \A j \in DOMAIN calls' : calls'[j].flag # "loading"
  BY <1>2, <1>3, <1>4, <1>7
<1>9. ASSUME NEW j \in DOMAIN calls', Guarded(calls'[j].flag)
      PROVE  /\ k[j] \in DOMAIN calls /\ calls[k[j]].flag = calls'[j].flag
             /\ busy'[calls'[j].flag] = busy[calls'[j].flag]
             /\ \A l \in DOMAIN calls' :
                  calls'[l].flag = calls'[j].flag /\ k[l] = k[j] => l = j
  <2>1. calls'[j].flag # "none"
    BY <1>9 DEF Guarded
  <2>2. j \in DOMAIN calls /\ calls'[j] = calls[j]
    BY <1>2, <1>3, <1>4, <2>1
  <2> QED  BY <1>3, <1>5, <1>7, <2>1, <2>2
<1> HIDE DEF k
<1>10. OneChangeAtATime' /\ FlagsAreUp'
  BY <1>1, <1>8, <1>9, Carried
<1> QED  BY <1>6, <1>10 DEF IInv

(* What a page leaves behind lowers none of its flags.                     *)
LEMMA LeaveIInv ==
  ASSUME IInv, Leave
  PROVE  IInv'
<1>1. page \in Page /\ page' = page /\ TypeOK /\ UNCHANGED <<store, excused>> /\ Mounted
  BY DEF IInv, TypeOK, Leave
<1>2. PICK left \in Seq(Call) :
        /\ calls' = Append(left, Fetch("none")) /\ Len(left) + 1 <= MaxCalls
        /\ \A i \in DOMAIN left : left[i].flag = "none"
  BY <1>1, LeftShape
<1>3. Fetch("none") \in Call /\ Fetch("none").flag = "none"
  BY <1>1, FetchIsCall DEF Fetch
<1>4. /\ calls' \in Seq(Call) /\ Len(calls') <= MaxCalls
      /\ \A i \in DOMAIN calls' : calls'[i].flag = "none"
  BY <1>2, <1>3, SentShape
<1>5. TypeOK'
  <2>1. busy' \in [Flags -> SUBSET Everything]
    BY <1>1 DEF Mounted
  <2>2. /\ shown' \in [Items -> Value]
        /\ ready' \subseteq Forms /\ sent' \subseteq Forms /\ twice' \subseteq Forms
    BY <1>1, ItemFacts DEF Mounted
  <2> QED  BY <1>1, <1>4, <2>1, <2>2, SamePage DEF TypeOK
<1>6. OneChangeAtATime' /\ FlagsAreUp'
  <2>1. \A j \in DOMAIN calls' : calls'[j].flag # "loading" /\ ~Guarded(calls'[j].flag)
    BY <1>4 DEF Guarded
  <2> DEFINE k == <<>>
  <2> HIDE DEF k
  <2> QED  BY <1>1, <2>1, Carried
<1> QED  BY <1>5, <1>6 DEF IInv

-----------------------------------------------------------------------------
LEMMA ReadIInv ==
  ASSUME IInv, NEW i \in DOMAIN calls, NEW t \in Is.tables, Read(i, t)
  PROVE  IInv'
<1>1. /\ page' = page /\ TypeOK /\ UNCHANGED <<store, shown, busy, ready, sent, twice, excused>>
  BY DEF IInv, Read
<1>2. /\ Len(calls) \in Nat /\ DOMAIN calls = 1 .. Len(calls)
      /\ calls \in [1 .. Len(calls) -> Call]
  BY <1>1, CallsFacts
<1> DEFINE got == calls[i].got \cup {t}
           rows == [j \in Items |-> IF j[1] = t THEN store[j] ELSE calls[i].rows[j]]
<1>3. rows \in [Items -> Value] /\ got \subseteq Is.tables
  <2>1. calls[i].rows \in [Items -> Value] /\ calls[i].got \subseteq Is.tables
    BY <1>2, CallFacts
  <2> QED  BY <1>1, <2>1 DEF TypeOK
<1>4. calls' = [calls EXCEPT ![i] = [@ EXCEPT !.got = got, !.rows = rows]]
  BY DEF Read
<1> HIDE DEF got, rows
<1>5. [calls[i] EXCEPT !.got = got, !.rows = rows] \in Call
  <2>1. calls[i] \in Call
    BY <1>2
  <2> QED  BY <1>3, <2>1 DEF Call
<1>6. calls' \in [1 .. Len(calls) -> Call] /\ DOMAIN calls' = DOMAIN calls
  BY <1>2, <1>4, <1>5
<1>7. calls' \in Seq(Call) /\ Len(calls') = Len(calls)
  BY <1>2, <1>6, SeqDef, LenProperties
<1>8. TypeOK'
  BY <1>1, <1>7, SamePage DEF TypeOK
<1>9. \A j \in DOMAIN calls : calls'[j].flag = calls[j].flag
  BY <1>2, <1>4 DEF Call
<1> QED  BY <1>1, <1>6, <1>8, <1>9, Undisturbed DEF IInv

LEMMA TakeIInv ==
  ASSUME IInv, NEW i \in DOMAIN calls, Take(i)
  PROVE  IInv'
<1>1. page \in Page /\ page' = page /\ TypeOK /\ UNCHANGED <<shown, busy, ready>>
  BY DEF IInv, TypeOK, Take
<1>2. /\ Len(calls) \in Nat /\ DOMAIN calls = 1 .. Len(calls)
      /\ calls \in [1 .. Len(calls) -> Call]
  BY <1>1, CallsFacts
<1>3. store' \in [Items -> Value]
  <2>1. calls[i].asks \in Updates /\ store \in [Items -> Value]
    BY <1>1, <1>2, CallFacts DEF TypeOK
  <2>2. store' = store \/ \E k : store' = [store EXCEPT ![k] = Apply(calls[i].asks, @)]
    BY DEF Take, Stored
  <2>3. \A k \in Items : Apply(calls[i].asks, store[k]) \in Value
    BY <1>1, <2>1, UpdateFacts
  <2> QED  BY <2>1, <2>2, <2>3
<1>4. /\ calls' \in [1 .. Len(calls) -> Call] /\ DOMAIN calls' = DOMAIN calls
      /\ \A j \in DOMAIN calls : calls'[j].flag = calls[j].flag
  <2> DEFINE taken(j) == calls[j].taken \/ j = i
             crossed(j) == calls[j].crossed \/ Crossed(j, i)
  <2>1. calls' = [j \in DOMAIN calls |->
                   [calls[j] EXCEPT !.taken = taken(j), !.crossed = crossed(j)]]
    BY DEF Take
  <2>2. \A j : taken(j) \in BOOLEAN /\ crossed(j) \in BOOLEAN
    BY DEF Crossed
  <2> HIDE DEF taken, crossed
  <2>3. ASSUME NEW j \in DOMAIN calls
        PROVE  /\ [calls[j] EXCEPT !.taken = taken(j), !.crossed = crossed(j)] \in Call
               /\ [calls[j] EXCEPT !.taken = taken(j), !.crossed = crossed(j)].flag = calls[j].flag
    <3>1. calls[j] \in Call
      BY <1>2
    <3> QED  BY <2>2, <3>1 DEF Call
  <2> QED  BY <1>2, <2>1, <2>3
<1>5. calls' \in Seq(Call) /\ Len(calls') = Len(calls)
  BY <1>2, <1>4, SeqDef, LenProperties
<1>6. sent' \subseteq Forms /\ twice' \subseteq Forms
  <2> DEFINE form == At(calls[i].does).form
             counts == ~calls[i].late /\ Protected(calls[i].does)
  <2>1. calls[i].does \in Names
    BY <1>2, CallFacts DEF Take
  <2>2. counts => form \in Forms
    BY <1>1, <2>1, HandlerFacts DEF Protected
  <2>3. /\ sent' = IF counts THEN sent \cup {form} ELSE sent
        /\ twice' = IF counts /\ form \in sent THEN twice \cup {form} ELSE twice
    BY DEF Take
  <2> HIDE DEF form, counts
  <2> QED  BY <1>1, <2>2, <2>3 DEF TypeOK
<1>7. excused' \in BOOLEAN
  BY DEF Take
<1>8. TypeOK'
  BY <1>1, <1>3, <1>5, <1>6, <1>7, SamePage DEF TypeOK
<1> QED  BY <1>1, <1>4, <1>8, Undisturbed DEF IInv

LEMMA ElsewhereIInv ==
  ASSUME IInv, NEW i \in Items, Elsewhere(i)
  PROVE  IInv'
<1>1. /\ page \in Page /\ page' = page /\ TypeOK
      /\ UNCHANGED <<shown, busy, ready, calls, sent, twice>> /\ excused' = TRUE
  BY DEF IInv, TypeOK, Elsewhere
<1>2. PICK v \in Is.rows[i[1]] \cup {Absent} : store' = [store EXCEPT ![i] = v]
  BY DEF Elsewhere
<1>3. v \in Value
  <2>1. Absent \in Value
    BY MadeAssumption DEF MadeAssumption
  <2> QED  BY <1>1, <2>1, ItemFacts
<1>4. store' \in [Items -> Value]
  BY <1>1, <1>2, <1>3 DEF TypeOK
<1>5. TypeOK'
  BY <1>1, <1>4, SamePage DEF TypeOK
<1> QED  BY <1>1, <1>5, Undisturbed DEF IInv

-----------------------------------------------------------------------------
(* What is in flight without request i: the others, in their order.        *)
Behind(i, j) == IF j < i THEN j ELSE j + 1

(* One request, but for whether it is overtaken. *)
Same(c, d) ==
  /\ c.does = d.does /\ c.item = d.item /\ c.asks = d.asks /\ c.taken = d.taken
  /\ c.rows = d.rows /\ c.got = d.got /\ c.crossed = d.crossed /\ c.flag = d.flag

(* Whether an answer to one of S overtakes request j. *)
Overtaken(j, S) == calls[j].late \/ (j \in S /\ calls[j].does = "fetch")

LEMMA RestShape ==
  ASSUME TypeOK, NEW i \in DOMAIN calls, NEW S
  PROVE  /\ Rest(i, S) \in Seq(Call)
         /\ Len(Rest(i, S)) = Len(calls) - 1
         /\ DOMAIN Rest(i, S) = 1 .. Len(calls) - 1
         /\ \A j \in 1 .. Len(calls) - 1 :
              /\ Behind(i, j) \in DOMAIN calls /\ Behind(i, j) # i
              /\ Same(Rest(i, S)[j], calls[Behind(i, j)])
              /\ Rest(i, S)[j].late = Overtaken(Behind(i, j), S)
<1> DEFINE marked == [j \in DOMAIN calls |-> [calls[j] EXCEPT !.late = Overtaken(j, S)]]
<1>1. /\ Len(calls) \in Nat /\ DOMAIN calls = 1 .. Len(calls)
      /\ calls \in [1 .. Len(calls) -> Call]
  BY CallsFacts
<1>2. Rest(i, S) = RemoveAt(marked, i)
  BY DEF Rest, Overtaken
<1>3. \A j \in DOMAIN calls : Overtaken(j, S) \in BOOLEAN
  BY <1>1, CallFacts DEF Overtaken
<1>4. ASSUME NEW j \in DOMAIN calls
      PROVE  /\ marked[j] \in Call
             /\ Same(marked[j], calls[j]) /\ marked[j].late = Overtaken(j, S)
  <2>1. calls[j] \in Call /\ Overtaken(j, S) \in BOOLEAN
    BY <1>1, <1>3
  <2>2. marked[j] = [calls[j] EXCEPT !.late = Overtaken(j, S)]
    OBVIOUS
  <2> HIDE DEF marked
  <2> QED  BY <2>1, <2>2 DEF Call, Same
<1>5. marked \in [1 .. Len(calls) -> Call]
  <2>1. DOMAIN marked = 1 .. Len(calls)
    BY <1>1
  <2>2. marked = [j \in 1 .. Len(calls) |-> marked[j]]
    BY <1>1
  <2> QED  BY <1>1, <1>4, <2>2
<1> HIDE DEF marked
<1>6. marked \in Seq(Call) /\ Len(marked) = Len(calls)
  BY <1>1, <1>5, SeqDef, LenProperties
<1>7. /\ RemoveAt(marked, i) \in Seq(Call)
      /\ Len(RemoveAt(marked, i)) = Len(calls) - 1
      /\ \A j \in 1 .. Len(calls) - 1 :
           RemoveAt(marked, i)[j] = IF j < i THEN marked[j] ELSE marked[j + 1]
  BY <1>1, <1>6, RemoveAtShape
<1>8. DOMAIN RemoveAt(marked, i) = 1 .. Len(calls) - 1
  BY <1>7, LenProperties
<1>9. ASSUME NEW j \in 1 .. Len(calls) - 1
      PROVE  /\ Behind(i, j) \in DOMAIN calls /\ Behind(i, j) # i
             /\ RemoveAt(marked, i)[j] = marked[Behind(i, j)]
  BY <1>1, <1>7 DEF Behind
<1>10. ASSUME NEW j \in 1 .. Len(calls) - 1
       PROVE  /\ Same(Rest(i, S)[j], calls[Behind(i, j)])
              /\ Rest(i, S)[j].late = Overtaken(Behind(i, j), S)
  BY <1>2, <1>4, <1>9
<1> QED  BY <1>2, <1>7, <1>8, <1>9, <1>10

(* Every other request is still there, in its order. *)
LEMMA RestOthers ==
  ASSUME TypeOK, NEW i \in DOMAIN calls, NEW S
  PROVE  /\ \A j \in DOMAIN Rest(i, S) :
              /\ Behind(i, j) \in DOMAIN calls \ {i}
              /\ Same(Rest(i, S)[j], calls[Behind(i, j)])
              /\ Rest(i, S)[j].late = Overtaken(Behind(i, j), S)
         /\ \A l \in DOMAIN calls \ {i} : \E j \in DOMAIN Rest(i, S) : Behind(i, j) = l
         /\ \A j, k \in DOMAIN Rest(i, S) : Behind(i, j) <= Behind(i, k) => j <= k
<1>1. Len(calls) \in Nat /\ DOMAIN calls = 1 .. Len(calls)
  BY CallsFacts
<1>2. DOMAIN Rest(i, S) = 1 .. Len(calls) - 1
  BY RestShape
<1>3. ASSUME NEW l \in DOMAIN calls \ {i} PROVE \E j \in 1 .. Len(calls) - 1 : Behind(i, j) = l
  <2> DEFINE j == IF l < i THEN l ELSE l - 1
  <2>1. j \in 1 .. Len(calls) - 1 /\ Behind(i, j) = l
    BY <1>1 DEF Behind
  <2> QED  BY <2>1
<1>4. \A j, k \in 1 .. Len(calls) - 1 : Behind(i, j) <= Behind(i, k) => j <= k
  BY <1>1 DEF Behind
<1>5. \A j \in 1 .. Len(calls) - 1 : Behind(i, j) \in DOMAIN calls \ {i}
  BY RestShape
<1>6. \A j \in 1 .. Len(calls) - 1 :
        /\ Same(Rest(i, S)[j], calls[Behind(i, j)])
        /\ Rest(i, S)[j].late = Overtaken(Behind(i, j), S)
  BY RestShape
<1> QED  BY <1>2, <1>3, <1>4, <1>5, <1>6

LEMMA RestOfAll ==
  ASSUME TypeOK, NEW i \in DOMAIN calls
  PROVE  RemoveAt(calls, i) = Rest(i, {})
<1> DEFINE marked == [j \in DOMAIN calls |->
                       [calls[j] EXCEPT !.late = @ \/ (j \in {} /\ calls[j].does = "fetch")]]
<1>1. ASSUME NEW j \in DOMAIN calls PROVE marked[j] = calls[j]
  <2>1. calls[j] \in Call
    BY CallsFacts
  <2>2. marked[j] = [calls[j] EXCEPT !.late = @ \/ FALSE]
    OBVIOUS
  <2>3. [calls[j] EXCEPT !.late = @ \/ FALSE] = calls[j]
    BY <2>1 DEF Call
  <2> QED  BY <2>2, <2>3
<1>2. calls = [j \in DOMAIN calls |-> calls[j]]
  BY CallsFacts
<1>3. marked = calls
  BY <1>1, <1>2
<1> QED  BY <1>3 DEF Rest

LEMMA RestFlags ==
  ASSUME TypeOK, NEW i \in DOMAIN calls, NEW S
  PROVE  /\ Rest(i, S) \in Seq(Call)
         /\ Len(Rest(i, S)) = Len(calls) - 1
         /\ DOMAIN Rest(i, S) = 1 .. Len(calls) - 1
         /\ \A j \in 1 .. Len(calls) - 1 : Rest(i, S)[j].flag = calls[Behind(i, j)].flag
<1>1. \A c, d : Same(c, d) => c.flag = d.flag
  BY DEF Same
<1> QED  BY <1>1, RestShape

(* An answer takes request i away, and lowers its flag at most.            *)
LEMMA Answered ==
  ASSUME IInv, page' = page, NEW i \in DOMAIN calls,
         DOMAIN calls' = 1 .. Len(calls) - 1,
         \A j \in 1 .. Len(calls) - 1 : calls'[j].flag = calls[Behind(i, j)].flag,
         \A g \in Flags \ {"loading", calls[i].flag} : busy'[g] = busy[g]
  PROVE  OneChangeAtATime' /\ FlagsAreUp'
<1> DEFINE k == [j \in 1 .. Len(calls) - 1 |-> Behind(i, j)]
<1>1. /\ Len(calls) \in Nat /\ DOMAIN calls = 1 .. Len(calls)
      /\ calls \in [1 .. Len(calls) -> Call]
  BY CallsFacts DEF IInv
<1>2. ASSUME NEW j \in DOMAIN calls'
      PROVE  k[j] \in DOMAIN calls /\ k[j] # i /\ calls[k[j]].flag = calls'[j].flag
  BY <1>1 DEF Behind
<1>3. ASSUME NEW j \in DOMAIN calls', NEW l \in DOMAIN calls', k[j] = k[l] PROVE j = l
  BY <1>1, <1>3 DEF Behind
<1> HIDE DEF k
<1>4. \A j \in DOMAIN calls' : calls'[j].flag # "loading"
  BY <1>2 DEF IInv, FlagsAreUp
<1>5. ASSUME NEW j \in DOMAIN calls', Guarded(calls'[j].flag)
      PROVE  busy'[calls'[j].flag] = busy[calls'[j].flag]
  <2>1. calls'[j].flag # calls[i].flag
    BY <1>2, <1>5 DEF IInv, OneChangeAtATime
  <2>2. calls'[j].flag \in Flags
    BY <1>1, <1>2, <1>5, CallFacts DEF Guarded
  <2> QED  BY <1>4, <2>1, <2>2
<1> QED  BY <1>2, <1>3, <1>4, <1>5, Carried

LEMMA AnswerFetchIInv ==
  ASSUME IInv, NEW i \in DOMAIN calls, AnswerFetch(i)
  PROVE  IInv'
<1> DEFINE c == calls[i]
<1>1. page \in Page /\ page' = page /\ TypeOK /\ UNCHANGED <<store, ready, sent, twice>>
  BY DEF IInv, TypeOK, AnswerFetch
<1>2. /\ Len(calls) \in Nat /\ DOMAIN calls = 1 .. Len(calls) /\ c \in Call
      /\ MaxCalls \in Nat /\ Len(calls) <= MaxCalls
  BY <1>1, CallsFacts DEF TypeOK
<1>3. /\ calls' \in Seq(Call) /\ Len(calls') = Len(calls) - 1
      /\ DOMAIN calls' = 1 .. Len(calls) - 1
      /\ \A j \in 1 .. Len(calls) - 1 :
           calls'[j].flag = calls[Behind(i, j)].flag
  BY <1>1, RestFlags DEF AnswerFetch
<1>4. /\ busy' \in [Flags -> SUBSET Everything]
      /\ \A g \in Flags \ {"loading", c.flag} : busy'[g] = busy[g]
  BY <1>1 DEF AnswerFetch, TypeOK
<1>5. PICK got \in {c.got, {}} :
        /\ shown' = [j \in Items |-> IF j[1] \in got THEN c.rows[j]
                                      ELSE IF Is.empties THEN Absent ELSE shown[j]]
        /\ excused' = Excused(c.late \/ got # Is.tables)
  BY DEF AnswerFetch
<1>6. shown' \in [Items -> Value]
  <2>1. c.rows \in [Items -> Value] /\ shown \in [Items -> Value]
    BY <1>1, <1>2, CallFacts DEF TypeOK
  <2>2. Absent \in Value
    BY MadeAssumption DEF MadeAssumption
  <2> QED  BY <1>5, <2>1, <2>2
<1>7. excused' \in BOOLEAN
  BY <1>5 DEF Excused
<1>8. TypeOK'
  <2>1. Len(calls') <= MaxCalls
    BY <1>2, <1>3
  <2> QED  BY <1>1, <1>3, <1>4, <1>6, <1>7, <2>1, SamePage DEF TypeOK
<1> QED  BY <1>1, <1>3, <1>4, <1>8, Answered DEF IInv

LEMMA AnswerNobodyIInv ==
  ASSUME IInv, NEW i \in DOMAIN calls, AnswerNobody(i)
  PROVE  IInv'
<1>1. /\ page' = page /\ TypeOK
      /\ UNCHANGED <<store, shown, busy, ready, sent, twice, excused>>
  BY DEF IInv, AnswerNobody
<1>2. /\ Len(calls) \in Nat /\ DOMAIN calls = 1 .. Len(calls) /\ calls \in Seq(Call)
      /\ MaxCalls \in Nat /\ Len(calls) <= MaxCalls
  BY <1>1, CallsFacts DEF TypeOK
<1>3. /\ calls' \in Seq(Call) /\ Len(calls') = Len(calls) - 1
      /\ \A j \in 1 .. Len(calls) - 1 : calls'[j] = calls[Behind(i, j)]
  <2>1. calls' = RemoveAt(calls, i)
    BY DEF AnswerNobody
  <2>2. /\ RemoveAt(calls, i) \in Seq(Call) /\ Len(RemoveAt(calls, i)) = Len(calls) - 1
        /\ \A j \in 1 .. Len(calls) - 1 :
             RemoveAt(calls, i)[j] = IF j < i THEN calls[j] ELSE calls[j + 1]
    BY <1>2, RemoveAtShape
  <2> QED  BY <2>1, <2>2 DEF Behind
<1>4. DOMAIN calls' = 1 .. Len(calls) - 1
  BY <1>3, LenProperties
<1>5. TypeOK'
  <2>1. Len(calls') <= MaxCalls
    BY <1>2, <1>3
  <2> QED  BY <1>1, <1>3, <2>1, SamePage DEF TypeOK
<1> QED  BY <1>1, <1>3, <1>4, <1>5, Answered DEF IInv

(* A handler from the answer on.  Its flag comes down, or goes over to the *)
(* fetch that it waits for.                                                *)
LEMMA AnswerWithIInv ==
  ASSUME IInv, NEW i \in DOMAIN calls, calls[i].does # "fetch",
         NEW E, NEW lost \in BOOLEAN, AnswerWith(i, E, lost)
  PROVE  IInv'
<1> DEFINE c == calls[i]
           waits == "wait" \in E
           S == IF "patch" \in E THEN DOMAIN calls ELSE {}
           rest == Rest(i, S)
           lowers == IF waits THEN "none" ELSE c.flag
           lowered == Raised(lowers, {})
           next == Fetch(IF waits THEN c.flag ELSE "none")
<1>1. page \in Page /\ page' = page /\ TypeOK /\ UNCHANGED <<store, twice>>
  BY DEF IInv, TypeOK, AnswerWith
<1>2. /\ Len(calls) \in Nat /\ DOMAIN calls = 1 .. Len(calls) /\ c \in Call
      /\ c.flag \in Flags \cup {"none"} /\ c.flag # "loading"
      /\ MaxCalls \in Nat /\ Len(calls) <= MaxCalls
  <2>1. c \in Call
    BY <1>1, CallsFacts
  <2> QED  BY <1>1, <2>1, CallsFacts, CallFacts DEF IInv, FlagsAreUp, TypeOK
<1>3. /\ rest \in Seq(Call) /\ Len(rest) = Len(calls) - 1
      /\ DOMAIN rest = 1 .. Len(calls) - 1
      /\ \A j \in 1 .. Len(calls) - 1 :
           rest[j].flag = calls[Behind(i, j)].flag
  BY <1>1, RestFlags
<1>4. /\ lowered \in [Flags -> SUBSET Everything]
      /\ \A g \in Flags : g # lowers => lowered[g] = busy[g]
  <2>1. lowers \in Flags \cup {"none"}
    BY <1>2
  <2> HIDE DEF lowers
  <2> QED  BY <1>1, <2>1, RaisedType
<1>5. next \in Call /\ next.flag = IF waits THEN c.flag ELSE "none"
  <2>1. (IF waits THEN c.flag ELSE "none") \in Flags \cup {"none"}
    BY <1>2
  <2> QED  BY <1>1, <2>1, FetchIsCall DEF Fetch
<1>6. IF Refetches(E)
        THEN /\ calls' = Append(rest, next)
             /\ busy' = IF Is.quiet THEN lowered
                        ELSE [lowered EXCEPT !["loading"] = Everything]
        ELSE calls' = rest /\ busy' = lowered
  BY DEF AnswerWith
<1>7. ready' \subseteq Forms /\ sent' \subseteq Forms
  BY <1>1 DEF AnswerWith, Displayed, TypeOK
<1>8. shown' \in [Items -> Value]
  <2>1. c.rows \in [Items -> Value] /\ shown \in [Items -> Value] /\ c.asks \in Updates
    BY <1>1, <1>2, CallFacts DEF TypeOK
  <2>2. \A j \in Items : Apply(c.asks, c.rows[j]) \in Value
    BY <1>1, <2>1, UpdateFacts
  <2>3. Patched(c) \in [Items -> Value]
    BY <2>1, <2>2 DEF Patched
  <2>4. shown' = Patched(c) \/ shown' = shown
    BY DEF AnswerWith
  <2> QED  BY <2>1, <2>3, <2>4
<1>9. excused' \in BOOLEAN
  BY DEF AnswerWith, Excused
<1> HIDE DEF S, rest, lowered, next
<1>10. /\ busy' \in [Flags -> SUBSET Everything]
       /\ \A g \in Flags \ {"loading", lowers} : busy'[g] = busy[g]
  BY <1>4, <1>6
<1>11. CASE Refetches(E)
  <2>1. /\ calls' \in Seq(Call) /\ Len(calls') = Len(calls)
        /\ \A j \in 1 .. Len(calls) - 1 : calls'[j] = rest[j]
        /\ calls'[Len(calls)] = next
    <3>1. /\ Append(rest, next) \in Seq(Call)
          /\ Len(Append(rest, next)) = Len(rest) + 1
          /\ \A j \in 1 .. Len(rest) : Append(rest, next)[j] = rest[j]
          /\ Append(rest, next)[Len(rest) + 1] = next
      BY <1>3, <1>5, AppendProperties
    <3>2. Len(rest) + 1 = Len(calls)
      BY <1>2, <1>3
    <3> QED  BY <1>3, <1>6, <1>11, <3>1, <3>2
  <2>2. DOMAIN calls' = 1 .. Len(calls)
    BY <2>1, LenProperties
  <2>3. TypeOK'
    BY <1>1, <1>2, <1>7, <1>8, <1>9, <1>10, <2>1, SamePage DEF TypeOK
  <2> DEFINE k == [j \in 1 .. Len(calls) |->
                    IF j = Len(calls) THEN i ELSE Behind(i, j)]
  <2>4. ASSUME NEW j \in DOMAIN calls', j # Len(calls)
        PROVE  /\ k[j] \in DOMAIN calls /\ k[j] # i /\ calls[k[j]].flag = calls'[j].flag
    BY <1>2, <1>3, <2>1, <2>2, <2>4 DEF Behind
  <2>5. k[Len(calls)] = i /\ Len(calls) \in DOMAIN calls'
    <3>1. Len(calls) \in 1 .. Len(calls)
      BY <1>2
    <3> QED  BY <2>2, <3>1
  <2>6. ASSUME NEW j \in DOMAIN calls', NEW l \in DOMAIN calls', k[j] = k[l] PROVE j = l
    BY <1>2, <2>2, <2>6 DEF Behind
  <2> HIDE DEF k
  <2>7. calls'[Len(calls)].flag = IF waits THEN c.flag ELSE "none"
    BY <1>5, <2>1
  <2>8. \A j \in DOMAIN calls' : calls'[j].flag # "loading"
    BY <1>2, <2>4, <2>7 DEF IInv, FlagsAreUp
  <2>9. ASSUME NEW j \in DOMAIN calls', Guarded(calls'[j].flag)
        PROVE  /\ k[j] \in DOMAIN calls /\ calls[k[j]].flag = calls'[j].flag
               /\ busy'[calls'[j].flag] = busy[calls'[j].flag]
    <3>1. CASE j = Len(calls)
      <4>1. waits
        BY <2>7, <2>9, <3>1 DEF Guarded
      <4>2. c.flag \in Flags \ {"loading", "none"}
        BY <1>2, <2>7, <2>9, <3>1, <4>1 DEF Guarded
      <4> QED  BY <1>10, <2>5, <2>7, <3>1, <4>1, <4>2
    <3>2. CASE j # Len(calls)
      <4>1. k[j] \in DOMAIN calls /\ k[j] # i /\ calls[k[j]].flag = calls'[j].flag
        BY <2>4, <3>2
      <4>2. calls'[j].flag # c.flag
        BY <2>9, <4>1 DEF IInv, OneChangeAtATime
      <4>3. calls[k[j]] \in Call
        BY <1>1, <4>1, CallsFacts
      <4>4. calls'[j].flag \in Flags \ {"loading", "none"}
        BY <2>8, <2>9, <4>1, <4>3, CallFacts DEF Guarded
      <4> QED  BY <1>10, <4>1, <4>2, <4>4
    <3> QED  BY <3>1, <3>2
  <2>10. OneChangeAtATime' /\ FlagsAreUp'
    BY <1>1, <2>6, <2>8, <2>9, Carried
  <2> QED  BY <2>3, <2>10 DEF IInv
<1>12. CASE ~Refetches(E)
  <2>1. calls' = rest /\ lowers = c.flag
    BY <1>6, <1>12 DEF Refetches
  <2>2. Len(calls') <= MaxCalls
    BY <1>2, <1>3, <2>1
  <2>3. TypeOK'
    BY <1>1, <1>3, <1>7, <1>8, <1>9, <1>10, <2>1, <2>2, SamePage DEF TypeOK
  <2>4. \A g \in Flags \ {"loading", calls[i].flag} : busy'[g] = busy[g]
    BY <1>10, <2>1
  <2> QED  BY <1>1, <1>3, <2>1, <2>3, <2>4, Answered DEF IInv
<1> QED  BY <1>11, <1>12

LEMMA AnswerChangeIInv ==
  ASSUME IInv, NEW i \in DOMAIN calls, AnswerChange(i)
  PROVE  IInv'
<1>1. calls[i].does # "fetch"
  BY DEF AnswerChange
<1>2. calls[i].taken \in BOOLEAN
  BY CallsFacts, CallFacts DEF IInv
<1>3. \E E : AnswerWith(i, E, FALSE) \/ AnswerWith(i, E, calls[i].taken)
  BY DEF AnswerChange
<1> QED  BY <1>1, <1>2, <1>3, AnswerWithIInv

LEMMA StepIInv == IInv /\ [Next]_vars => IInv'
<1> SUFFICES ASSUME IInv, [Next]_vars PROVE IInv'
  OBVIOUS
<1>1. ASSUME NEW f \in Forms, FillForm(f) \/ CloseForm(f) PROVE IInv'
  BY <1>1, FormIInv
<1>2. ASSUME NEW n \in Names, NEW item \in Everything, Click(n, item) PROVE IInv'
  BY <1>2, ClickIInv
<1>3. CASE Refresh
  BY <1>3, RefreshIInv
<1>4. CASE Leave
  BY <1>4, LeaveIInv
<1>5. ASSUME NEW i \in DOMAIN calls, Take(i) PROVE IInv'
  BY <1>5, TakeIInv
<1>6. ASSUME NEW i \in DOMAIN calls, Answer(i) PROVE IInv'
  BY <1>6, AnswerFetchIInv, AnswerChangeIInv, AnswerNobodyIInv DEF Answer
<1>7. ASSUME NEW i \in DOMAIN calls, NEW t \in Is.tables, Read(i, t) PROVE IInv'
  BY <1>7, ReadIInv
<1>8. ASSUME NEW i \in Items, Elsewhere(i) PROVE IInv'
  BY <1>8, ElsewhereIInv
<1>9. CASE UNCHANGED vars
  <2>1. page' = page /\ busy' = busy /\ calls' = calls
    BY <1>9 DEF vars
  <2>2. TypeOK'
    BY <1>9, SamePage DEF vars, IInv, TypeOK
  <2> QED  BY <2>1, <2>2, Undisturbed DEF IInv
<1> QED  BY <1>1, <1>2, <1>3, <1>4, <1>5, <1>6, <1>7, <1>8, <1>9 DEF Next

-----------------------------------------------------------------------------
(* Every variable of a page keeps its type: no request, answer or change   *)
(* from elsewhere brings a row into a state that the page does not know.   *)
THEOREM TypeCorrect == Spec => []TypeOK
<1>1. IInv => TypeOK
  BY DEF IInv
<1> QED  BY <1>1, InitIInv, StepIInv, PTL DEF Spec

(* `setActionLoading(true)`, the buttons that it disables, and the answer  *)
(* that lowers it: of the requests of such buttons, one at most is under   *)
(* way, however long it takes, on any page and with any number of rows.    *)
THEOREM OneChange == Spec => []OneChangeAtATime
<1>1. IInv => OneChangeAtATime
  BY DEF IInv
<1> QED  BY <1>1, InitIInv, StepIInv, PTL DEF Spec

-----------------------------------------------------------------------------
(* A form is taken once.  While its contents are taken and it is still on  *)
(* display, the request that brought them is under way, and its flag       *)
(* disables every control of the form; no second request of the form is    *)
(* waiting to be taken.                                                    *)

(* A request that counts as a use of its form. *)
Counts(c) == c.does # "fetch" /\ ~c.late /\ Protected(c.does)
FormOf(c) == At(c.does).form

FlagsAreKept ==
  \A i \in DOMAIN calls :
    calls[i].does # "fetch" /\ ~calls[i].late => calls[i].flag = Does(calls[i].does).flag
SentIsTaken ==
  \A i \in DOMAIN calls : Counts(calls[i]) /\ FormOf(calls[i]) \in sent => calls[i].taken
SentIsUnderWay ==
  \A f \in sent \cap ready : \E i \in DOMAIN calls : Counts(calls[i]) /\ FormOf(calls[i]) = f

FormInv == IInv /\ FormIsTakenOnce /\ FlagsAreKept /\ SentIsTaken /\ SentIsUnderWay

(* One request, as far as its form goes. *)
Alike(c, d) == c.does = d.does /\ c.late = d.late /\ c.taken = d.taken /\ c.flag = d.flag

LEMMA SameMake ==
  ASSUME page' = page
  PROVE  /\ \A n : Does(n)' = Does(n) /\ At(n)' = At(n) /\ Protected(n)' = Protected(n)
         /\ \A c : Counts(c)' = Counts(c) /\ FormOf(c)' = FormOf(c)
<1>1. Is' = Is /\ \A f : Guarded(f)' = Guarded(f)
  BY SamePage
<1>2. \A n : Does(n)' = Does(n) /\ At(n)' = At(n)
  BY <1>1 DEF Does, At
<1>3. \A n : Protected(n)' = Protected(n)
  BY <1>1, <1>2 DEF Protected
<1> QED  BY <1>2, <1>3 DEF Counts, FormOf

(* Two requests of one form raise one flag, so one of them is under way. *)
LEMMA OneUseOfAForm ==
  ASSUME FormInv, NEW i \in DOMAIN calls, NEW j \in DOMAIN calls,
         Counts(calls[i]), Counts(calls[j]), FormOf(calls[i]) = FormOf(calls[j])
  PROVE  i = j
<1>1. calls[i].does \in Names /\ calls[j].does \in Names /\ page \in Page
  BY CallsFacts, CallFacts DEF FormInv, IInv, TypeOK, Counts
<1>2. Does(calls[i].does).flag = Does(calls[j].does).flag
  BY <1>1, MadeAssumption DEF MadeAssumption, Counts, Protected, FormOf, Names, Does, At, Is
<1>3. calls[i].flag = calls[j].flag /\ Guarded(calls[i].flag)
  BY <1>2 DEF FormInv, FlagsAreKept, Counts, Protected
<1> QED  BY <1>3 DEF FormInv, IInv, OneChangeAtATime

(* A step that takes nothing, and sends nothing but a fetch. *)
LEMMA FormsKept ==
  ASSUME FormInv, page' = page, sent' \subseteq sent, twice' \subseteq twice,
         \A j \in DOMAIN calls' :
           \/ calls'[j].does = "fetch" \/ calls'[j].late
           \/ \E i \in DOMAIN calls : Alike(calls'[j], calls[i]),
         \A f \in sent' \cap ready' :
           /\ f \in ready
           /\ \A i \in DOMAIN calls : Counts(calls[i]) /\ FormOf(calls[i]) = f =>
                \E j \in DOMAIN calls' : Alike(calls'[j], calls[i])
  PROVE  FormIsTakenOnce' /\ FlagsAreKept' /\ SentIsTaken' /\ SentIsUnderWay'
<1>1. FormIsTakenOnce'
  BY DEF FormInv, FormIsTakenOnce
<1>2. \A c, d : Alike(c, d) => Counts(c) = Counts(d) /\ FormOf(c) = FormOf(d)
  BY DEF Alike, Counts, FormOf
<1>3. FlagsAreKept'
  <2>1. ASSUME NEW j \in DOMAIN calls', calls'[j].does # "fetch", ~calls'[j].late
        PROVE  calls'[j].flag = Does(calls'[j].does).flag
    <3>1. PICK i \in DOMAIN calls : Alike(calls'[j], calls[i])
      BY <2>1
    <3> QED  BY <2>1, <3>1 DEF FormInv, FlagsAreKept, Alike
  <2> QED  BY <2>1, SameMake DEF FlagsAreKept
<1>4. SentIsTaken'
  <2>1. ASSUME NEW j \in DOMAIN calls', Counts(calls'[j]), FormOf(calls'[j]) \in sent'
        PROVE  calls'[j].taken
    <3>1. PICK i \in DOMAIN calls : Alike(calls'[j], calls[i])
      BY <2>1 DEF Counts
    <3>2. Counts(calls[i]) /\ FormOf(calls[i]) \in sent
      BY <1>2, <2>1, <3>1
    <3> QED  BY <3>1, <3>2 DEF FormInv, SentIsTaken, Alike
  <2> QED  BY <2>1, SameMake DEF SentIsTaken
<1>5. SentIsUnderWay'
  <2>1. ASSUME NEW f \in sent' \cap ready'
        PROVE  \E j \in DOMAIN calls' : Counts(calls'[j]) /\ FormOf(calls'[j]) = f
    <3>1. PICK i \in DOMAIN calls : Counts(calls[i]) /\ FormOf(calls[i]) = f
      BY DEF FormInv, SentIsUnderWay
    <3>2. PICK j \in DOMAIN calls' : Alike(calls'[j], calls[i])
      BY <3>1
    <3> QED  BY <1>2, <3>1, <3>2
  <2> QED  BY <2>1, SameMake DEF SentIsUnderWay
<1> QED  BY <1>1, <1>3, <1>4, <1>5

LEMMA InitForms == Init => FormInv
<1> SUFFICES ASSUME Init PROVE FormInv
  OBVIOUS
<1>1. DOMAIN calls = {1} /\ calls[1].does = "fetch"
  BY DEF Init, Fetch
<1>2. FlagsAreKept /\ SentIsTaken
  BY <1>1 DEF FlagsAreKept, SentIsTaken, Counts
<1>3. FormIsTakenOnce /\ SentIsUnderWay
  BY DEF Init, FormIsTakenOnce, SentIsUnderWay
<1> QED  BY <1>2, <1>3, InitIInv DEF FormInv

(* A form that is on display and taken disables its controls. *)
LEMMA ClickForms ==
  ASSUME FormInv, NEW n \in Names, NEW item \in Everything, Click(n, item)
  PROVE  FormIsTakenOnce' /\ FlagsAreKept' /\ SentIsTaken' /\ SentIsUnderWay'
<1>1. PICK u \in Asked(n, item) : calls' = Append(calls, Change(n, item, u))
  BY DEF Click
<1> DEFINE c == Change(n, item, u)
<1>2. page \in Page /\ page' = page /\ UNCHANGED <<ready, sent, twice>> /\ TypeOK
  BY DEF FormInv, IInv, TypeOK, Click
<1>3. c \in Call /\ c.does = n /\ c.late = FALSE /\ c.flag = Does(n).flag
  <2>1. u \in Updates
    BY <1>1, <1>2, OfferedIsTyped DEF Click
  <2>2. c \in Call
    BY <1>2, <2>1, ChangeIsCall DEF TypeOK
  <2> QED  BY <2>2 DEF Change
<1> HIDE DEF c
<1>4. /\ DOMAIN calls' = DOMAIN calls \cup {Len(calls) + 1} /\ Len(calls) + 1 \notin DOMAIN calls
      /\ \A j \in DOMAIN calls : calls'[j] = calls[j]
      /\ calls'[Len(calls) + 1] = c
  <2>1. calls \in Seq(Call) /\ calls' = Append(calls, c)
    BY <1>1, <1>2 DEF TypeOK, c
  <2> QED  BY <1>3, <2>1, SentShape
<1>5. FormIsTakenOnce'
  BY <1>2 DEF FormInv, FormIsTakenOnce
<1>6. FlagsAreKept'
  <2>1. ASSUME NEW j \in DOMAIN calls', calls'[j].does # "fetch", ~calls'[j].late
        PROVE  calls'[j].flag = Does(calls'[j].does).flag
    BY <1>3, <1>4, <2>1 DEF FormInv, FlagsAreKept
  <2> QED  BY <1>2, <2>1, SameMake DEF FlagsAreKept
<1>7. ASSUME Protected(n) PROVE At(n).form \notin sent
  <2> SUFFICES ASSUME At(n).form \in sent PROVE FALSE
    OBVIOUS
  <2>1. At(n).form \in ready
    BY <1>7 DEF Protected, Click, Offered, OfferedTo
  <2>2. PICK i \in DOMAIN calls : Counts(calls[i]) /\ FormOf(calls[i]) = At(n).form
    BY <2>1 DEF FormInv, SentIsUnderWay
  <2>3. calls[i].does \in Names
    BY <1>2, <2>2, CallsFacts, CallFacts DEF Counts
  <2>4. calls[i].flag = Does(calls[i].does).flag /\ Guarded(calls[i].flag)
    BY <2>2 DEF FormInv, FlagsAreKept, Counts, Protected
  <2>5. Does(calls[i].does).flag = Does(n).flag
    BY <1>2, <1>7, <2>2, <2>3, MadeAssumption
    DEF MadeAssumption, Protected, FormOf, Names, Does, At, Is
  <2>6. busy[Does(n).flag] = Everything /\ Does(n).flag \in At(n).disabled
    BY <1>7, <2>4, <2>5 DEF FormInv, IInv, FlagsAreUp, Protected, Guarded
  <2> QED  BY <2>6 DEF Click, Offered, Enabled
<1>8. SentIsTaken'
  <2>1. ASSUME NEW j \in DOMAIN calls', Counts(calls'[j]), FormOf(calls'[j]) \in sent
        PROVE  calls'[j].taken
    <3>1. CASE j \in DOMAIN calls
      BY <1>4, <2>1, <3>1 DEF FormInv, SentIsTaken
    <3>2. CASE j \notin DOMAIN calls
      BY <1>3, <1>4, <1>7, <2>1, <3>2 DEF Counts, FormOf
    <3> QED  BY <3>1, <3>2
  <2> QED  BY <1>2, <2>1, SameMake DEF SentIsTaken
<1>9. SentIsUnderWay'
  <2>1. ASSUME NEW f \in sent \cap ready
        PROVE  \E j \in DOMAIN calls' : Counts(calls'[j]) /\ FormOf(calls'[j]) = f
    <3>1. PICK i \in DOMAIN calls : Counts(calls[i]) /\ FormOf(calls[i]) = f
      BY <2>1 DEF FormInv, SentIsUnderWay
    <3> QED  BY <1>4, <3>1
  <2> QED  BY <1>2, <2>1, SameMake DEF SentIsUnderWay
<1> QED  BY <1>5, <1>6, <1>8, <1>9

(* The one request of a form is taken once. *)
LEMMA TakeForms ==
  ASSUME FormInv, NEW i \in DOMAIN calls, Take(i)
  PROVE  FormIsTakenOnce' /\ FlagsAreKept' /\ SentIsTaken' /\ SentIsUnderWay'
<1> DEFINE form == FormOf(calls[i])
<1>1. page' = page /\ ready' = ready /\ TypeOK /\ calls[i].does # "fetch" /\ ~calls[i].taken
  BY DEF FormInv, IInv, Take
<1>2. /\ sent' = IF Counts(calls[i]) THEN sent \cup {form} ELSE sent
      /\ twice' = IF Counts(calls[i]) /\ form \in sent THEN twice \cup {form} ELSE twice
  BY DEF Take, Counts, FormOf
<1>3. ASSUME NEW j \in DOMAIN calls
      PROVE  /\ calls'[j].does = calls[j].does /\ calls'[j].late = calls[j].late
             /\ calls'[j].flag = calls[j].flag /\ calls'[j].taken = (calls[j].taken \/ j = i)
  <2>1. calls[j] \in Call
    BY <1>1, CallsFacts
  <2>2. calls'[j] = [calls[j] EXCEPT !.taken = @ \/ j = i, !.crossed = @ \/ Crossed(j, i)]
    BY DEF Take
  <2> QED  BY <2>1, <2>2 DEF Call
<1>4. DOMAIN calls' = DOMAIN calls
  BY DEF Take
<1>5. \A j \in DOMAIN calls :
        Counts(calls'[j]) = Counts(calls[j]) /\ FormOf(calls'[j]) = FormOf(calls[j])
  BY <1>3 DEF Counts, FormOf
<1>6. FormIsTakenOnce'
  BY <1>1, <1>2 DEF FormInv, FormIsTakenOnce, SentIsTaken
<1>7. FlagsAreKept'
  BY <1>1, <1>3, <1>4, SameMake DEF FormInv, FlagsAreKept
<1>8. SentIsTaken'
  <2>1. ASSUME NEW j \in DOMAIN calls, Counts(calls[j]), FormOf(calls[j]) \in sent'
        PROVE  calls'[j].taken
    <3>1. CASE FormOf(calls[j]) \in sent
      BY <1>3, <2>1, <3>1 DEF FormInv, SentIsTaken
    <3>2. CASE FormOf(calls[j]) \notin sent
      <4>1. Counts(calls[i]) /\ FormOf(calls[j]) = form
        BY <1>2, <2>1, <3>2
      <4>2. j = i
        BY <2>1, <4>1, OneUseOfAForm
      <4> QED  BY <1>3, <4>2
    <3> QED  BY <3>1, <3>2
  <2> QED  BY <1>1, <1>4, <1>5, <2>1, SameMake DEF SentIsTaken
<1>9. SentIsUnderWay'
  <2>1. ASSUME NEW f \in sent' \cap ready
        PROVE  \E j \in DOMAIN calls : Counts(calls[j]) /\ FormOf(calls[j]) = f
    BY <1>2, <2>1 DEF FormInv, SentIsUnderWay
  <2> QED  BY <1>1, <1>4, <1>5, <2>1, SameMake DEF SentIsUnderWay
<1> QED  BY <1>6, <1>7, <1>8, <1>9

(* The requests that are left, when one is answered. *)
LEMMA OthersStay ==
  ASSUME TypeOK, NEW i \in DOMAIN calls, NEW S, NEW f \in Flags \cup {"none"},
         calls' = Rest(i, S) \/ calls' = Append(Rest(i, S), Fetch(f))
  PROVE  /\ \A j \in DOMAIN calls' :
              calls'[j].does = "fetch" \/ \E l \in DOMAIN calls : Alike(calls'[j], calls[l])
         /\ \A l \in DOMAIN calls \ {i} :
              calls[l].does # "fetch" => \E j \in DOMAIN calls' : Alike(calls'[j], calls[l])
<1> DEFINE rest == Rest(i, S)
<1>1. page \in Page /\ rest \in Seq(Call)
  BY RestShape DEF TypeOK
<1>2. \A j \in DOMAIN calls : calls[j].late \in BOOLEAN
  BY CallsFacts, CallFacts
<1>3. ASSUME NEW j \in DOMAIN rest
      PROVE  rest[j].does = "fetch" \/ Alike(rest[j], calls[Behind(i, j)])
  <2>1. /\ Behind(i, j) \in DOMAIN calls /\ Same(rest[j], calls[Behind(i, j)])
        /\ rest[j].late = Overtaken(Behind(i, j), S)
    BY RestOthers
  <2> HIDE DEF rest
  <2> QED  BY <1>2, <2>1 DEF Same, Alike, Overtaken
<1>4. /\ \A j \in DOMAIN rest :
           rest[j].does = "fetch" \/ \E l \in DOMAIN calls : Alike(rest[j], calls[l])
      /\ \A l \in DOMAIN calls \ {i} :
           calls[l].does # "fetch" => \E j \in DOMAIN rest : Alike(rest[j], calls[l])
  <2>1. \A j \in DOMAIN rest : Behind(i, j) \in DOMAIN calls /\ Same(rest[j], calls[Behind(i, j)])
    BY RestOthers
  <2>2. \A l \in DOMAIN calls \ {i} : \E j \in DOMAIN rest : Behind(i, j) = l
    BY RestOthers
  <2> HIDE DEF rest
  <2> QED  BY <1>3, <2>1, <2>2 DEF Same
<1>5. CASE calls' = rest
  BY <1>4, <1>5
<1>6. CASE calls' = Append(rest, Fetch(f))
  <2>1. Fetch(f) \in Call /\ Fetch(f).does = "fetch"
    BY <1>1, FetchIsCall DEF Fetch
  <2> HIDE DEF rest
  <2>2. /\ DOMAIN calls' = DOMAIN rest \cup {Len(rest) + 1}
        /\ \A j \in DOMAIN rest : calls'[j] = rest[j]
        /\ calls'[Len(rest) + 1] = Fetch(f)
    BY <1>1, <1>6, <2>1, SentShape
  <2> QED  BY <1>4, <2>1, <2>2
<1> QED  BY <1>5, <1>6

(* The answer to a request of a form that is taken closes or clears it, or *)
(* is lost.                                                                *)
LEMMA AnswerForms ==
  ASSUME FormInv, NEW i \in DOMAIN calls, AnswerChange(i)
  PROVE  FormIsTakenOnce' /\ FlagsAreKept' /\ SentIsTaken' /\ SentIsUnderWay'
<1> DEFINE c == calls[i]
           form == FormOf(calls[i])
<1>1. PICK E, lost :
        /\ AnswerWith(i, E, lost)
        /\ Counts(c) /\ c.taken => "clear" \in E \/ "close" \in E \/ lost
  BY DEF AnswerChange, Counts, Protected
<1>2. page' = page /\ twice' = twice /\ TypeOK
  BY <1>1 DEF AnswerWith, FormInv, IInv
<1>3. c.flag \in Flags \cup {"none"}
  BY <1>2, CallsFacts, CallFacts
<1>4. \E S, f : f \in Flags \cup {"none"} /\ \/ calls' = Rest(i, S)
                                              \/ calls' = Append(Rest(i, S), Fetch(f))
  BY <1>1, <1>3 DEF AnswerWith
<1>5. /\ \A j \in DOMAIN calls' :
           calls'[j].does = "fetch" \/ \E l \in DOMAIN calls : Alike(calls'[j], calls[l])
      /\ \A l \in DOMAIN calls \ {i} :
           calls[l].does # "fetch" => \E j \in DOMAIN calls' : Alike(calls'[j], calls[l])
  BY <1>2, <1>4, OthersStay
<1>6. /\ sent' = IF "clear" \in E \/ lost THEN sent \ {form} ELSE sent
      /\ ready' = Displayed(E, form)
  BY <1>1 DEF AnswerWith, FormOf
<1>7. sent' \subseteq sent /\ ready' \subseteq ready
  BY <1>6 DEF Displayed
<1>8. ASSUME Counts(c) PROVE form \notin sent' \cap ready'
  <2>1. CASE form \in sent
    <3>1. "clear" \in E \/ "close" \in E \/ lost
      BY <1>1, <1>8, <2>1 DEF FormInv, SentIsTaken
    <3> QED  BY <1>6, <3>1 DEF Displayed
  <2> QED  BY <1>7, <2>1
<1>9. ASSUME NEW f \in sent' \cap ready', NEW l \in DOMAIN calls,
             Counts(calls[l]), FormOf(calls[l]) = f
      PROVE  \E j \in DOMAIN calls' : Alike(calls'[j], calls[l])
  <2>1. l # i
    BY <1>8, <1>9
  <2> QED  BY <1>5, <1>9, <2>1 DEF Counts
<1> HIDE DEF c, form
<1> QED  BY <1>2, <1>5, <1>7, <1>9, FormsKept

(* The answers that are no answer to a form. *)
LEMMA OtherAnswerForms ==
  ASSUME FormInv, NEW i \in DOMAIN calls, AnswerFetch(i) \/ AnswerNobody(i)
  PROVE  FormIsTakenOnce' /\ FlagsAreKept' /\ SentIsTaken' /\ SentIsUnderWay'
<1>1. page' = page /\ UNCHANGED <<ready, sent, twice>> /\ TypeOK /\ ~Counts(calls[i])
  BY DEF AnswerFetch, AnswerNobody, FormInv, IInv, Counts
<1>2. /\ \A j \in DOMAIN calls' :
           calls'[j].does = "fetch" \/ \E l \in DOMAIN calls : Alike(calls'[j], calls[l])
      /\ \A l \in DOMAIN calls \ {i} :
           calls[l].does # "fetch" => \E j \in DOMAIN calls' : Alike(calls'[j], calls[l])
  <2>1. CASE AnswerFetch(i)
    <3>1. calls' = Rest(i, 1 .. i - 1)
      BY <2>1 DEF AnswerFetch
    <3> QED  BY <1>1, <3>1, OthersStay
  <2>2. CASE AnswerNobody(i)
    <3>1. calls' = Rest(i, {})
      BY <1>1, <2>2, RestOfAll DEF AnswerNobody
    <3> QED  BY <1>1, <3>1, OthersStay
  <2> QED  BY <2>1, <2>2
<1>3. ASSUME NEW l \in DOMAIN calls, Counts(calls[l])
      PROVE  \E j \in DOMAIN calls' : Alike(calls'[j], calls[l])
  BY <1>1, <1>2, <1>3 DEF Counts
<1> QED  BY <1>1, <1>2, <1>3, FormsKept

(* What a page leaves behind is late. *)
LEMMA LeaveForms ==
  ASSUME FormInv, Leave
  PROVE  FormIsTakenOnce' /\ FlagsAreKept' /\ SentIsTaken' /\ SentIsUnderWay'
<1>1. page \in Page /\ page' = page /\ TypeOK /\ sent' = {} /\ twice' = {}
  BY DEF FormInv, IInv, TypeOK, Leave, Mounted
<1>2. PICK left \in Seq(Call) :
        /\ calls' = Append(left, Fetch("none")) /\ \A i \in DOMAIN left : left[i].late
  BY <1>1, LeftShape
<1>3. Fetch("none") \in Call /\ Fetch("none").does = "fetch"
  BY <1>1, FetchIsCall DEF Fetch
<1>4. \A j \in DOMAIN calls' : calls'[j].does = "fetch" \/ calls'[j].late
  BY <1>2, <1>3, SentShape
<1> QED  BY <1>1, <1>4, FormsKept

LEMMA StepForms == FormInv /\ [Next]_vars => FormInv'
<1> SUFFICES ASSUME FormInv, [Next]_vars
             PROVE  FormIsTakenOnce' /\ FlagsAreKept' /\ SentIsTaken' /\ SentIsUnderWay'
  BY StepIInv DEF FormInv
<1>1. ASSUME NEW f \in Forms, FillForm(f) \/ CloseForm(f)
      PROVE  FormIsTakenOnce' /\ FlagsAreKept' /\ SentIsTaken' /\ SentIsUnderWay'
  <2>1. page' = page /\ calls' = calls /\ sent' \subseteq sent /\ twice' \subseteq twice
    BY <1>1 DEF FillForm, CloseForm
  <2>2. sent' \cap ready' \subseteq ready
    BY <1>1 DEF FillForm, CloseForm
  <2> QED  BY <2>1, <2>2, FormsKept DEF Alike
<1>2. ASSUME NEW n \in Names, NEW item \in Everything, Click(n, item)
      PROVE  FormIsTakenOnce' /\ FlagsAreKept' /\ SentIsTaken' /\ SentIsUnderWay'
  BY <1>2, ClickForms
<1>3. CASE Refresh
  <2>1. page \in Page /\ TypeOK /\ page' = page /\ UNCHANGED <<ready, sent, twice>>
    BY <1>3 DEF Refresh, FormInv, IInv, TypeOK
  <2>2. Fetch("none") \in Call /\ Fetch("none").does = "fetch"
    BY <2>1, FetchIsCall DEF Fetch
  <2>3. /\ DOMAIN calls' = DOMAIN calls \cup {Len(calls) + 1}
        /\ \A j \in DOMAIN calls : calls'[j] = calls[j]
        /\ calls'[Len(calls) + 1] = Fetch("none")
    <3>1. calls \in Seq(Call) /\ calls' = Append(calls, Fetch("none"))
      BY <1>3, <2>1 DEF TypeOK, Refresh
    <3> QED  BY <2>2, <3>1, SentShape
  <2>4. \A j \in DOMAIN calls' :
          calls'[j].does = "fetch" \/ \E i \in DOMAIN calls : Alike(calls'[j], calls[i])
    BY <2>2, <2>3 DEF Alike
  <2>5. \A i \in DOMAIN calls : \E j \in DOMAIN calls' : Alike(calls'[j], calls[i])
    BY <2>3 DEF Alike
  <2> QED  BY <2>1, <2>4, <2>5, FormsKept
<1>4. CASE Leave
  BY <1>4, LeaveForms
<1>5. ASSUME NEW i \in DOMAIN calls, Take(i)
      PROVE  FormIsTakenOnce' /\ FlagsAreKept' /\ SentIsTaken' /\ SentIsUnderWay'
  BY <1>5, TakeForms
<1>6. ASSUME NEW i \in DOMAIN calls, Answer(i)
      PROVE  FormIsTakenOnce' /\ FlagsAreKept' /\ SentIsTaken' /\ SentIsUnderWay'
  BY <1>6, AnswerForms, OtherAnswerForms DEF Answer
<1>7. ASSUME NEW i \in DOMAIN calls, NEW t \in Is.tables, Read(i, t)
      PROVE  FormIsTakenOnce' /\ FlagsAreKept' /\ SentIsTaken' /\ SentIsUnderWay'
  <2>1. page' = page /\ UNCHANGED <<ready, sent, twice>> /\ DOMAIN calls' = DOMAIN calls
    BY <1>7 DEF Read
  <2>2. ASSUME NEW j \in DOMAIN calls PROVE Alike(calls'[j], calls[j])
    <3>1. calls[j] \in Call
      BY CallsFacts DEF FormInv, IInv
    <3>2. CASE j # i
      <4>1. calls'[j] = calls[j]
        BY <1>7, <3>2 DEF Read
      <4> QED  BY <4>1 DEF Alike
    <3>3. CASE j = i
      <4>1. \E got, rows : calls'[j] = [calls[j] EXCEPT !.got = got, !.rows = rows]
        BY <1>7, <3>3 DEF Read
      <4> QED  BY <3>1, <4>1 DEF Alike, Call
    <3> QED  BY <3>2, <3>3
  <2> QED  BY <2>1, <2>2, FormsKept
<1>8. ASSUME NEW i \in Items, Elsewhere(i)
      PROVE  FormIsTakenOnce' /\ FlagsAreKept' /\ SentIsTaken' /\ SentIsUnderWay'
  <2>1. page' = page /\ UNCHANGED <<ready, sent, twice, calls>>
    BY <1>8 DEF Elsewhere
  <2> QED  BY <2>1, FormsKept DEF Alike
<1>9. CASE UNCHANGED vars
  <2>1. page' = page /\ UNCHANGED <<ready, sent, twice, calls>>
    BY <1>9 DEF vars
  <2> QED  BY <2>1, FormsKept DEF Alike
<1> QED  BY <1>1, <1>2, <1>3, <1>4, <1>5, <1>6, <1>7, <1>8, <1>9 DEF Next

(* A form that somebody has filled in once is taken once, whatever is      *)
(* clicked twice, answered late or reopened meanwhile, unless an answer    *)
(* was lost after the request had been taken.                              *)
THEOREM FormOnce == Spec => []FormIsTakenOnce
<1>1. FormInv => FormIsTakenOnce
  BY DEF FormInv
<1> QED  BY <1>1, InitForms, StepForms, PTL DEF Spec

-----------------------------------------------------------------------------
(* A page at rest is current.  A page that needs no excuse, and waits for  *)
(* no answer that makes it fetch again, gets what is stored from its last  *)
(* fetch, or has it on display; a row may lag behind for the sake of a     *)
(* patch whose answer is under way.                                        *)

IsPatch(c) == c.does # "fetch" /\ ~c.late /\ Patches(c.does)
WillFetch(c) == c.does # "fetch" /\ ~c.late /\ c.taken /\ Refetches(Does(c.does).ok)

(* The answer to c brings row j up to date, or gives the page an excuse. *)
Awaits(c, j, rows) ==
  /\ IsPatch(c) /\ c.taken /\ c.item = j
  /\ c.crossed \/ rows[j] = Apply(c.asks, c.rows[j])

Followed(copy, tables, rows, cs) ==
  \A j \in Items : j[1] \in tables =>
    copy[j] = rows[j] \/ \E i \in DOMAIN cs : Awaits(cs[i], j, rows)

Pending(cs) ==
  \E i \in DOMAIN cs : WillFetch(cs[i]) \/ (cs[i].does = "fetch" /\ cs[i].late)
Latest(cs, i) ==
  /\ i \in DOMAIN cs /\ cs[i].does = "fetch"
  /\ \A j \in DOMAIN cs : cs[j].does = "fetch" => j <= i
CopyFollows(copy, rows, cs) ==
  /\ (\A i \in DOMAIN cs : cs[i].does # "fetch") => Followed(copy, Is.tables, rows, cs)
  /\ \A i : Latest(cs, i) => Followed(cs[i].rows, cs[i].got, rows, cs)

Applied(c, rows) ==
  IsPatch(c) /\ c.taken /\ ~c.crossed => Apply(c.asks, rows[c.item]) = rows[c.item]
Follows(copy, rows, cs) ==
  /\ \A i \in DOMAIN cs : Applied(cs[i], rows)
  /\ Pending(cs) \/ CopyFollows(copy, rows, cs)

(* A patch writes one value into the row it was called for.  A request     *)
(* whose answer changes nothing on the page changes no row.                *)
IsIdle(c) ==
  c.does # "fetch" /\ ~c.late /\ ~Patches(c.does) /\ ~Refetches(Does(c.does).ok)
Writes(c) ==
  /\ IsPatch(c) =>
       /\ c.item \in Items /\ c.rows[c.item] \in DOMAIN c.asks /\ c.rows # Blank
       /\ \A v, w \in DOMAIN c.asks : c.asks[v] = c.asks[w]
  /\ IsIdle(c) => \A v \in DOMAIN c.asks : c.asks[v] = v

ShownInv ==
  /\ IInv
  /\ \A i \in DOMAIN calls : Writes(calls[i])
  /\ ~excused => Follows(shown, store, calls)

LEMMA SameSight ==
  ASSUME page' = page
  PROVE  /\ (\A i \in DOMAIN calls : Writes(calls[i]))' = \A i \in DOMAIN calls' : Writes(calls'[i])
         /\ Follows(shown, store, calls)' = Follows(shown', store', calls')
<1>1. Is' = Is /\ Items' = Items /\ \A n : Does(n)' = Does(n)
  BY SamePage, SameMake
<1>2. \A c : /\ IsPatch(c)' = IsPatch(c) /\ WillFetch(c)' = WillFetch(c)
             /\ IsIdle(c)' = IsIdle(c)
  BY <1>1 DEF IsPatch, IsIdle, WillFetch, Patches
<1>3. Blank' = Blank
  BY <1>1 DEF Blank
<1>4. \A c : Writes(c)' = Writes(c)
  BY <1>1, <1>2, <1>3 DEF Writes
<1>5. \A c, j, rows : Awaits(c, j, rows)' = Awaits(c, j, rows)
  BY <1>2 DEF Awaits
<1>6. \A copy, tables, rows, cs :
        Followed(copy, tables, rows, cs)' = Followed(copy, tables, rows, cs)
  BY <1>1, <1>5 DEF Followed
<1>7. \A copy, rows, cs : CopyFollows(copy, rows, cs)' = CopyFollows(copy, rows, cs)
  BY <1>1, <1>6 DEF CopyFollows, Latest
<1>8. \A cs : Pending(cs)' = Pending(cs)
  BY <1>2 DEF Pending
<1>9. \A c, rows : Applied(c, rows)' = Applied(c, rows)
  BY <1>2 DEF Applied
<1>10. \A copy, rows, cs : Follows(copy, rows, cs)' = Follows(copy, rows, cs)
  BY <1>7, <1>8, <1>9 DEF Follows
<1> QED  BY <1>4, <1>10

(* What has to go on for a copy to be followed: every patch that is taken. *)
LEMMA FollowedKept ==
  ASSUME NEW copy, NEW tables, NEW rows, NEW cs, NEW ds, Followed(copy, tables, rows, cs),
         \A i \in DOMAIN cs : IsPatch(cs[i]) /\ cs[i].taken =>
           \E j \in DOMAIN ds : Same(ds[j], cs[i]) /\ ds[j].late = cs[i].late
  PROVE  Followed(copy, tables, rows, ds)
<1>1. \A c, d, j : Same(d, c) /\ d.late = c.late /\ Awaits(c, j, rows) => Awaits(d, j, rows)
  BY DEF Same, Awaits, IsPatch
<1> SUFFICES ASSUME NEW j \in Items, j[1] \in tables, copy[j] # rows[j]
             PROVE  \E l \in DOMAIN ds : Awaits(ds[l], j, rows)
  BY DEF Followed
<1>2. PICK i \in DOMAIN cs : Awaits(cs[i], j, rows)
  BY DEF Followed
<1>3. PICK l \in DOMAIN ds : Same(ds[l], cs[i]) /\ ds[l].late = cs[i].late
  BY <1>2 DEF Awaits
<1> QED  BY <1>1, <1>2, <1>3

(* A step that changes neither the rows nor the copy: what is pending and  *)
(* what is awaited goes on, and the last fetch is followed.                *)
LEMMA FollowsKept ==
  ASSUME NEW copy, NEW rows, NEW cs, NEW ds, Follows(copy, rows, cs),
         \A i \in DOMAIN cs : cs[i].does = "fetch" =>
           \E j \in DOMAIN ds : ds[j].does = "fetch" /\ (cs[i].late => ds[j].late),
         \A i \in DOMAIN cs : WillFetch(cs[i]) \/ (IsPatch(cs[i]) /\ cs[i].taken) =>
           \E j \in DOMAIN ds : Same(ds[j], cs[i]) /\ ds[j].late = cs[i].late,
         \A j \in DOMAIN ds : IsPatch(ds[j]) /\ ds[j].taken =>
           \E i \in DOMAIN cs : Same(ds[j], cs[i]) /\ ds[j].late = cs[i].late,
         CopyFollows(copy, rows, cs) =>
           \A j : Latest(ds, j) => Followed(ds[j].rows, ds[j].got, rows, ds)
  PROVE  Follows(copy, rows, ds)
<1>1. ASSUME NEW j \in DOMAIN ds PROVE Applied(ds[j], rows)
  <2> SUFFICES ASSUME IsPatch(ds[j]), ds[j].taken PROVE Applied(ds[j], rows)
    BY DEF Applied
  <2>1. PICK i \in DOMAIN cs : Same(ds[j], cs[i]) /\ ds[j].late = cs[i].late
    OBVIOUS
  <2>2. Applied(cs[i], rows)
    BY DEF Follows
  <2> QED  BY <2>1, <2>2 DEF Applied, Same, IsPatch
<1>2. ASSUME Pending(cs) PROVE Pending(ds)
  <2>1. PICK i \in DOMAIN cs : WillFetch(cs[i]) \/ (cs[i].does = "fetch" /\ cs[i].late)
    BY <1>2 DEF Pending
  <2>2. CASE WillFetch(cs[i])
    <3>1. PICK j \in DOMAIN ds : Same(ds[j], cs[i]) /\ ds[j].late = cs[i].late
      BY <2>2
    <3>2. WillFetch(ds[j])
      BY <2>2, <3>1 DEF WillFetch, Same
    <3> QED  BY <3>2 DEF Pending
  <2>3. CASE cs[i].does = "fetch" /\ cs[i].late
    BY <2>3 DEF Pending
  <2> QED  BY <2>1, <2>2, <2>3
<1>3. ASSUME CopyFollows(copy, rows, cs) PROVE CopyFollows(copy, rows, ds)
  <2>1. ASSUME \A j \in DOMAIN ds : ds[j].does # "fetch"
        PROVE  Followed(copy, Is.tables, rows, ds)
    <3>1. \A i \in DOMAIN cs : cs[i].does # "fetch"
      BY <2>1
    <3>2. Followed(copy, Is.tables, rows, cs)
      BY <1>3, <3>1 DEF CopyFollows
    <3> QED  BY <3>2, FollowedKept
  <2> QED  BY <1>3, <2>1 DEF CopyFollows
<1> QED  BY <1>1, <1>2, <1>3 DEF Follows

(* A fetch that has read nothing yet is the last one in flight. *)
LEMMA FollowsFetch ==
  ASSUME page \in Page, NEW f \in Flags \cup {"none"}, NEW cs \in Seq(Call), NEW copy, NEW rows,
         \A i \in DOMAIN cs : Applied(cs[i], rows)
  PROVE  Follows(copy, rows, Append(cs, Fetch(f)))
<1> DEFINE ds == Append(cs, Fetch(f))
<1>1. /\ Fetch(f) \in Call /\ Fetch(f).does = "fetch" /\ Fetch(f).got = {}
  BY FetchIsCall DEF Fetch
<1>2. /\ DOMAIN cs = 1 .. Len(cs) /\ Len(cs) \in Nat
      /\ DOMAIN ds = DOMAIN cs \cup {Len(cs) + 1}
      /\ \A j \in DOMAIN cs : ds[j] = cs[j]
      /\ ds[Len(cs) + 1] = Fetch(f)
  BY <1>1, SentShape
<1> HIDE DEF ds
<1>3. \A i \in DOMAIN ds : Applied(ds[i], rows)
  BY <1>1, <1>2 DEF Applied, IsPatch
<1>4. ASSUME NEW i, Latest(ds, i) PROVE Followed(ds[i].rows, ds[i].got, rows, ds)
  <2>1. i = Len(cs) + 1
    BY <1>1, <1>2, <1>4 DEF Latest
  <2> QED  BY <1>1, <1>2, <2>1 DEF Followed
<1>5. CopyFollows(copy, rows, ds)
  BY <1>1, <1>2, <1>4 DEF CopyFollows
<1> QED  BY <1>3, <1>5 DEF Follows, ds

(* A page that waits for nothing, and shows what is stored.                *)
LEMMA FollowsAtRest ==
  ASSUME NEW rows PROVE Follows(rows, rows, <<>>)
  BY DEF Follows, CopyFollows, Followed, Latest

LEMMA InitShown == Init => ShownInv
<1> SUFFICES ASSUME Init PROVE ShownInv
  OBVIOUS
<1>1. page \in Page /\ calls = <<Fetch("none")>>
  BY DEF Init
<1>2. calls = Append(<<>>, Fetch("none")) /\ <<>> \in Seq(Call)
  BY <1>1
<1>3. Follows(shown, store, Append(<<>>, Fetch("none")))
  <2>1. \A i \in DOMAIN <<>> : Applied(<<>>[i], store)
    OBVIOUS
  <2> QED  BY <1>1, <1>2, <2>1, FollowsFetch
<1>4. \A i \in DOMAIN calls : Writes(calls[i])
  BY <1>1 DEF Writes, IsPatch, IsIdle, Fetch
<1> QED  BY <1>2, <1>3, <1>4, InitIInv DEF ShownInv

-----------------------------------------------------------------------------
(* What a handler asks for. *)
LEMMA PatchFacts ==
  ASSUME page \in Page, NEW n \in Names, Patches(n)
  PROVE  /\ DOMAIN Does(n).gives # {} /\ Absent \notin DOMAIN Does(n).gives
         /\ \A v \in DOMAIN Does(n).gives : \A u \in Does(n).gives[v] :
              v \in DOMAIN u /\ \A w \in DOMAIN u : u[w] = u[v]
  BY CopyAssumption DEF CopyAssumption, KeepsUp, Patches, Does, Names, Is

LEMMA ClickShown ==
  ASSUME ShownInv, NEW n \in Names, NEW item \in Everything, Click(n, item)
  PROVE  /\ \A j \in DOMAIN calls' : Writes(calls'[j])
         /\ ~excused' => Follows(shown', store', calls')
<1>1. PICK u \in Asked(n, item) : calls' = Append(calls, Change(n, item, u))
  BY DEF Click
<1> DEFINE c == Change(n, item, u)
<1>2. page \in Page /\ page' = page /\ UNCHANGED <<shown, store, excused>> /\ TypeOK
  BY DEF ShownInv, IInv, TypeOK, Click
<1>3. u \in Updates
  BY <1>1, <1>2, OfferedIsTyped DEF Click
<1>4. /\ c \in Call /\ c.does = n /\ n # "fetch" /\ c.taken = FALSE /\ c.late = FALSE
      /\ c.item = item /\ c.asks = u
      /\ Patches(n) => c.rows = shown
  <2>1. c \in Call
    BY <1>2, <1>3, ChangeIsCall DEF TypeOK
  <2> QED  BY <1>2, <2>1, HandlerFacts DEF Change
<1> HIDE DEF c
<1>5. ASSUME Patches(n)
      PROVE  /\ item \in Items /\ shown[item] \in DOMAIN u /\ shown # Blank
             /\ \A v, w \in DOMAIN u : u[v] = u[w]
  <2>1. OfRow(n)
    BY <1>2, <1>5, PatchFacts DEF OfRow
  <2>2. item \in Items /\ shown[item] \in DOMAIN Does(n).gives
    BY <2>1 DEF Click, Offered, OfferedTo
  <2>3. shown # Blank
    BY <1>2, <1>5, <2>2, PatchFacts DEF Blank
  <2>4. u \in Does(n).gives[shown[item]]
    BY <1>1, <1>2, <2>2, ItemFacts DEF Asked
  <2>5. shown[item] \in DOMAIN u /\ \A w \in DOMAIN u : u[w] = u[shown[item]]
    BY <1>2, <1>5, <2>2, <2>4, PatchFacts
  <2> QED  BY <2>2, <2>3, <2>5
<1>6. ASSUME ~Patches(n), ~Refetches(Does(n).ok), NEW v \in DOMAIN u PROVE u[v] = v
  <2>1. \A w \in DOMAIN Does(n).gives : \A x \in Does(n).gives[w] : \A y \in DOMAIN x : x[y] = y
    BY <1>2, <1>6, CopyAssumption
    DEF CopyAssumption, KeepsUp, Patches, Refetches, Does, Names, Is
  <2>2. u = Nothing \/ \E w \in DOMAIN Does(n).gives : u \in Does(n).gives[w]
    BY <1>1, <1>2, AskedIsGiven DEF Click
  <2> QED  BY <2>1, <2>2 DEF Nothing
<1>7. Writes(c)
  BY <1>4, <1>5, <1>6 DEF Writes, IsPatch, IsIdle
<1>8. /\ DOMAIN calls' = DOMAIN calls \cup {Len(calls) + 1} /\ Len(calls) + 1 \notin DOMAIN calls
      /\ \A j \in DOMAIN calls : calls'[j] = calls[j]
      /\ calls'[Len(calls) + 1] = c
  <2>1. calls \in Seq(Call) /\ calls' = Append(calls, c)
    BY <1>1, <1>2 DEF TypeOK, c
  <2> QED  BY <1>4, <2>1, SentShape
<1>9. \A j \in DOMAIN calls' : Writes(calls'[j])
  BY <1>7, <1>8 DEF ShownInv
<1>10. ASSUME Follows(shown, store, calls) PROVE Follows(shown, store, calls')
  <2>1. \A j \in DOMAIN calls' :
          calls'[j].does = "fetch" \/ calls'[j].taken => j \in DOMAIN calls
    BY <1>4, <1>8
  <2>2. \A j : Latest(calls', j) => Latest(calls, j)
    BY <1>8, <2>1 DEF Latest
  <2>3. ASSUME CopyFollows(shown, store, calls), NEW j, Latest(calls', j)
        PROVE  Followed(calls'[j].rows, calls'[j].got, store, calls')
    <3>1. Latest(calls, j) /\ calls'[j] = calls[j]
      BY <1>8, <2>2, <2>3 DEF Latest
    <3>2. Followed(calls'[j].rows, calls'[j].got, store, calls)
      BY <2>3, <3>1 DEF CopyFollows
    <3> QED  BY <1>8, <3>2, FollowedKept DEF Same
  <2>4. \A i \in DOMAIN calls : i \in DOMAIN calls' /\ calls'[i] = calls[i]
    BY <1>8
  <2> QED  BY <1>10, <2>1, <2>3, <2>4, FollowsKept DEF Same
<1> QED  BY <1>2, <1>9, <1>10 DEF ShownInv

LEMMA RefreshShown ==
  ASSUME ShownInv, Refresh
  PROVE  /\ \A j \in DOMAIN calls' : Writes(calls'[j])
         /\ ~excused' => Follows(shown', store', calls')
<1>1. /\ page \in Page /\ page' = page /\ UNCHANGED <<shown, store, excused>>
      /\ calls \in Seq(Call) /\ calls' = Append(calls, Fetch("none"))
  BY DEF ShownInv, IInv, TypeOK, Refresh
<1>2. Fetch("none") \in Call /\ Fetch("none").does = "fetch"
  BY <1>1, FetchIsCall DEF Fetch
<1>3. \A j \in DOMAIN calls' : Writes(calls'[j])
  BY <1>1, <1>2, SentShape DEF ShownInv, Writes, IsPatch, IsIdle
<1>4. ASSUME ~excused PROVE Follows(shown, store, Append(calls, Fetch("none")))
  <2>1. \A i \in DOMAIN calls : Applied(calls[i], store)
    BY <1>4 DEF ShownInv, Follows
  <2> QED  BY <1>1, <2>1, FollowsFetch
<1> QED  BY <1>1, <1>3, <1>4

LEMMA LeaveShown ==
  ASSUME ShownInv, Leave
  PROVE  /\ \A j \in DOMAIN calls' : Writes(calls'[j])
         /\ ~excused' => Follows(shown', store', calls')
<1>1. page \in Page /\ TypeOK
  BY DEF ShownInv, IInv, TypeOK
<1>2. PICK left \in Seq(Call) :
        calls' = Append(left, Fetch("none")) /\ \A i \in DOMAIN left : left[i].late
  BY <1>1, LeftShape
<1>3. Fetch("none") \in Call /\ Fetch("none").does = "fetch"
  BY <1>1, FetchIsCall DEF Fetch
<1>4. \A j \in DOMAIN calls' : Writes(calls'[j])
  BY <1>2, <1>3, SentShape DEF Writes, IsPatch, IsIdle
<1>5. \A i \in DOMAIN left : Applied(left[i], store')
  BY <1>2 DEF Applied, IsPatch
<1>6. Follows(shown', store', Append(left, Fetch("none")))
  BY <1>1, <1>5, FollowsFetch
<1> QED  BY <1>2, <1>4, <1>6

(* A table that is read is followed. *)
LEMMA ReadShown ==
  ASSUME ShownInv, NEW i \in DOMAIN calls, NEW t \in Is.tables, Read(i, t)
  PROVE  /\ \A j \in DOMAIN calls' : Writes(calls'[j])
         /\ ~excused' => Follows(shown', store', calls')
<1>1. /\ TypeOK /\ UNCHANGED <<shown, store, excused>> /\ DOMAIN calls' = DOMAIN calls
      /\ calls[i].does = "fetch"
  BY DEF ShownInv, IInv, Read
<1>2. /\ calls'[i].does = "fetch" /\ calls'[i].late = calls[i].late
      /\ calls'[i].got = calls[i].got \cup {t}
      /\ calls'[i].rows = [j \in Items |-> IF j[1] = t THEN store[j] ELSE calls[i].rows[j]]
  <2> DEFINE rows == [j \in Items |-> IF j[1] = t THEN store[j] ELSE calls[i].rows[j]]
  <2>1. calls'[i] = [calls[i] EXCEPT !.got = @ \cup {t}, !.rows = rows]
    BY DEF Read
  <2>2. calls[i] \in Call
    BY <1>1, CallsFacts
  <2> HIDE DEF rows
  <2>3. /\ calls'[i].does = calls[i].does /\ calls'[i].late = calls[i].late
        /\ calls'[i].got = calls[i].got \cup {t} /\ calls'[i].rows = rows
    BY <2>1, <2>2 DEF Call
  <2> QED  BY <1>1, <2>3 DEF rows
<1>3. \A j \in DOMAIN calls : j # i => calls'[j] = calls[j]
  BY DEF Read
<1>4. \A j \in DOMAIN calls' : Writes(calls'[j])
  BY <1>1, <1>2, <1>3 DEF ShownInv, Writes, IsPatch, IsIdle
<1>5. ASSUME Follows(shown, store, calls) PROVE Follows(shown, store, calls')
  <2>1. \A j \in DOMAIN calls : calls[j].does # "fetch" => calls'[j] = calls[j]
    BY <1>1, <1>3
  <2>2. \A j \in DOMAIN calls : calls'[j].does = calls[j].does /\ calls'[j].late = calls[j].late
    BY <1>1, <1>2, <1>3
  <2>3. ASSUME CopyFollows(shown, store, calls), NEW j, Latest(calls', j)
        PROVE  Followed(calls'[j].rows, calls'[j].got, store, calls')
    <3>1. Latest(calls, j)
      BY <1>1, <2>2, <2>3 DEF Latest
    <3>2. Followed(calls[j].rows, calls[j].got, store, calls)
      BY <2>3, <3>1 DEF CopyFollows
    <3>3. Followed(calls[j].rows, calls[j].got, store, calls')
      BY <1>1, <2>1, <3>2, FollowedKept DEF Same, IsPatch
    <3>4. CASE j = i
      BY <1>2, <3>3, <3>4 DEF Followed
    <3>5. CASE j # i
      BY <1>3, <3>1, <3>3, <3>5 DEF Latest
    <3> QED  BY <3>4, <3>5
  <2>4. \A j \in DOMAIN calls :
          calls[j].does = "fetch" => calls'[j].does = "fetch" /\ (calls[j].late => calls'[j].late)
    BY <2>2
  <2>5. \A j \in DOMAIN calls : WillFetch(calls[j]) \/ (IsPatch(calls[j]) /\ calls[j].taken) =>
          Same(calls'[j], calls[j]) /\ calls'[j].late = calls[j].late
    BY <2>1 DEF Same, WillFetch, IsPatch
  <2>6. \A j \in DOMAIN calls' : IsPatch(calls'[j]) /\ calls'[j].taken =>
          Same(calls'[j], calls[j]) /\ calls'[j].late = calls[j].late
    BY <1>1, <2>1, <2>2 DEF Same, IsPatch
  <2> QED  BY <1>1, <1>5, <2>3, <2>4, <2>5, <2>6, FollowsKept
<1> QED  BY <1>1, <1>4, <1>5 DEF ShownInv

(* The rows after a change that no answer makes the page fetch: one row,   *)
(* and the change is a patch of it.                                        *)
LEMMA StoredFacts ==
  ASSUME ShownInv, NEW i \in DOMAIN calls, Take(i), ~calls[i].late,
         ~Refetches(Does(calls[i].does).ok), NEW j \in Items, store'[j] # store[j]
  PROVE  /\ IsPatch(calls[i]) /\ j = calls[i].item
         /\ store'[j] = Apply(calls[i].asks, calls[i].rows[j])
<1> DEFINE c == calls[i]
           h == Does(c.does)
<1>1. /\ page \in Page /\ c \in Call /\ c.does \in Names /\ c.does # "fetch"
      /\ c.asks \in Updates /\ store \in [Items -> Value]
  <2>1. TypeOK /\ c.does # "fetch"
    BY DEF ShownInv, IInv, Take
  <2> QED  BY <2>1, CallsFacts, CallFacts DEF TypeOK
<1>2. c.asks # Nothing
  BY DEF Take, Stored
<1>3. PICK k : store' = [store EXCEPT ![k] = Apply(c.asks, @)] /\ (c.item # NoItem => k = c.item)
  BY <1>2 DEF Take, Stored
<1>4. j = k /\ store'[j] = Apply(c.asks, store[j]) /\ store[j] \in DOMAIN c.asks
  BY <1>1, <1>3 DEF Apply
<1>5. store'[j] = c.asks[store[j]]
  BY <1>4 DEF Apply
<1>6. CASE Patches(c.does)
  <2>1. IsPatch(c)
    BY <1>1, <1>6 DEF IsPatch
  <2>2. /\ c.item \in Items /\ c.rows[c.item] \in DOMAIN c.asks
        /\ \A v, w \in DOMAIN c.asks : c.asks[v] = c.asks[w]
    BY <2>1 DEF ShownInv, Writes
  <2>3. j = c.item
    BY <1>1, <1>3, <1>4, <2>2, ItemFacts
  <2> QED  BY <1>4, <1>5, <2>1, <2>2, <2>3 DEF Apply
<1>7. CASE ~Patches(c.does)
  <2>1. \A v \in DOMAIN c.asks : c.asks[v] = v
    BY <1>1, <1>7 DEF ShownInv, Writes, IsIdle
  <2> QED  BY <1>4, <1>5, <2>1
<1> QED  BY <1>6, <1>7

(* A change that is taken: the answer to it brings the copy up to date, or *)
(* makes the page fetch again.                                             *)
LEMMA TakeShown ==
  ASSUME ShownInv, NEW i \in DOMAIN calls, Take(i)
  PROVE  /\ \A j \in DOMAIN calls' : Writes(calls'[j])
         /\ ~excused' => Follows(shown', store', calls')
<1> DEFINE c == calls[i]
<1>1. /\ page \in Page /\ TypeOK /\ shown' = shown /\ c.does # "fetch" /\ ~c.taken
      /\ excused' = (excused \/ c.late) /\ DOMAIN calls' = DOMAIN calls
  BY DEF ShownInv, IInv, TypeOK, Take
<1>2. ASSUME NEW j \in DOMAIN calls
      PROVE  /\ calls'[j].does = calls[j].does /\ calls'[j].late = calls[j].late
             /\ calls'[j].item = calls[j].item /\ calls'[j].asks = calls[j].asks
             /\ calls'[j].rows = calls[j].rows /\ calls'[j].got = calls[j].got
             /\ calls'[j].taken = (calls[j].taken \/ j = i)
             /\ calls'[j].crossed = (calls[j].crossed \/ Crossed(j, i))
  <2>1. calls[j] \in Call
    BY <1>1, CallsFacts
  <2>2. calls'[j] = [calls[j] EXCEPT !.taken = @ \/ j = i, !.crossed = @ \/ Crossed(j, i)]
    BY DEF Take
  <2> QED  BY <2>1, <2>2 DEF Call
<1>3. \A j \in DOMAIN calls' : Writes(calls'[j])
  BY <1>1, <1>2 DEF ShownInv, Writes, IsPatch, IsIdle
<1>4. SUFFICES ASSUME ~excused, ~c.late PROVE Follows(shown, store', calls')
  BY <1>1, <1>3
<1>5. Follows(shown, store, calls)
  BY <1>4 DEF ShownInv
<1>6. ASSUME NEW j \in DOMAIN calls, IsPatch(calls[j]), calls[j].taken
      PROVE  calls'[j].crossed \/ store'[calls[j].item] = store[calls[j].item]
  <2>1. calls[j].rows # Blank /\ j # i
    BY <1>1, <1>6 DEF ShownInv, Writes
  <2> QED  BY <1>2, <1>6, <2>1 DEF Crossed
<1>7. ASSUME IsPatch(c) PROVE Apply(c.asks, store'[c.item]) = store'[c.item]
  <2>1. /\ c.item \in Items /\ c.rows[c.item] \in DOMAIN c.asks
        /\ \A v, w \in DOMAIN c.asks : c.asks[v] = c.asks[w]
    BY <1>7 DEF ShownInv, Writes
  <2>2. c.asks # Nothing
    BY <2>1 DEF Nothing
  <2>3. c.item # NoItem
    BY <1>1, <2>1, ItemFacts
  <2>4. store' = [store EXCEPT ![c.item] = Apply(c.asks, @)]
    BY <2>2, <2>3 DEF Take, Stored
  <2>5. store'[c.item] = Apply(c.asks, store[c.item])
    BY <1>1, <2>1, <2>4 DEF TypeOK
  <2> QED  BY <2>1, <2>5 DEF Apply
<1>8. ASSUME NEW j \in DOMAIN calls' PROVE Applied(calls'[j], store')
  <2> SUFFICES ASSUME IsPatch(calls'[j]), calls'[j].taken, ~calls'[j].crossed
               PROVE  Apply(calls'[j].asks, store'[calls'[j].item]) = store'[calls'[j].item]
    BY DEF Applied
  <2>1. IsPatch(calls[j])
    BY <1>1, <1>2 DEF IsPatch
  <2>2. CASE j = i
    BY <1>2, <1>7, <2>1, <2>2
  <2>3. CASE j # i
    <3>1. calls[j].taken /\ ~calls[j].crossed
      BY <1>1, <1>2, <2>3
    <3>2. Apply(calls[j].asks, store[calls[j].item]) = store[calls[j].item]
      BY <1>1, <1>5, <2>1, <3>1 DEF Follows, Applied
    <3>3. store'[calls[j].item] = store[calls[j].item]
      BY <1>1, <1>6, <2>1, <3>1
    <3> QED  BY <1>1, <1>2, <3>2, <3>3
  <2> QED  BY <2>2, <2>3
<1>9. CASE Refetches(Does(c.does).ok)
  <2>1. WillFetch(calls'[i])
    BY <1>1, <1>2, <1>4, <1>9 DEF WillFetch
  <2> QED  BY <1>1, <1>8, <2>1 DEF Follows, Pending
<1>10. CASE Pending(calls)
  <2>1. PICK j \in DOMAIN calls : WillFetch(calls[j]) \/ (calls[j].does = "fetch" /\ calls[j].late)
    BY <1>10 DEF Pending
  <2>2. WillFetch(calls'[j]) \/ (calls'[j].does = "fetch" /\ calls'[j].late)
    BY <1>2, <2>1 DEF WillFetch
  <2> QED  BY <1>1, <1>8, <2>2 DEF Follows, Pending
<1>11. CASE ~Refetches(Does(c.does).ok) /\ CopyFollows(shown, store, calls)
  <2>1. ASSUME NEW copy, NEW tables, Followed(copy, tables, store, calls)
        PROVE  Followed(copy, tables, store', calls')
    <3> SUFFICES ASSUME NEW j \in Items, j[1] \in tables, copy[j] # store'[j]
                 PROVE  \E l \in DOMAIN calls' : Awaits(calls'[l], j, store')
      BY DEF Followed
    <3>1. CASE copy[j] = store[j]
      <4>1. IsPatch(c) /\ j = c.item /\ store'[j] = Apply(c.asks, c.rows[j])
        BY <1>4, <1>11, <3>1, StoredFacts
      <4>2. Awaits(calls'[i], j, store')
        BY <1>2, <4>1 DEF Awaits, IsPatch
      <4> QED  BY <1>1, <4>2
    <3>2. CASE copy[j] # store[j]
      <4>1. PICK l \in DOMAIN calls : Awaits(calls[l], j, store)
        BY <2>1, <3>2 DEF Followed
      <4>2. calls'[l].crossed \/ store'[j] = store[j]
        BY <1>6, <4>1 DEF Awaits
      <4>3. Awaits(calls'[l], j, store')
        BY <1>2, <4>1, <4>2 DEF Awaits, IsPatch
      <4> QED  BY <1>1, <4>3
    <3> QED  BY <3>1, <3>2
  <2>2. \A j : Latest(calls', j) => Latest(calls, j)
    BY <1>1, <1>2 DEF Latest
  <2>3. ASSUME NEW j, Latest(calls', j)
        PROVE  Followed(calls'[j].rows, calls'[j].got, store', calls')
    <3>1. Latest(calls, j) /\ j \in DOMAIN calls
      BY <2>2, <2>3 DEF Latest
    <3>2. Followed(calls[j].rows, calls[j].got, store, calls)
      BY <1>11, <3>1 DEF CopyFollows
    <3>3. Followed(calls[j].rows, calls[j].got, store', calls')
      BY <2>1, <3>2
    <3> QED  BY <1>2, <3>1, <3>3
  <2>4. ASSUME \A j \in DOMAIN calls' : calls'[j].does # "fetch"
        PROVE  Followed(shown, Is.tables, store', calls')
    BY <1>1, <1>2, <1>11, <2>1, <2>4 DEF CopyFollows
  <2> QED  BY <1>8, <2>3, <2>4 DEF Follows, CopyFollows
<1> QED  BY <1>5, <1>9, <1>10, <1>11 DEF Follows

-----------------------------------------------------------------------------
(* What an answer leaves in flight: the other requests, each as it was.    *)
LEMMA RestWrites ==
  ASSUME ShownInv, NEW i \in DOMAIN calls, NEW S
  PROVE  /\ \A j \in DOMAIN Rest(i, S) : Writes(Rest(i, S)[j])
         /\ \A rows : (\A j \in DOMAIN calls : Applied(calls[j], rows)) =>
              \A j \in DOMAIN Rest(i, S) : Applied(Rest(i, S)[j], rows)
<1> DEFINE rest == Rest(i, S)
<1>1. TypeOK /\ \A j \in DOMAIN calls : calls[j].late \in BOOLEAN
  BY CallsFacts, CallFacts DEF ShownInv, IInv
<1>2. ASSUME NEW j \in DOMAIN rest
      PROVE  /\ Behind(i, j) \in DOMAIN calls /\ Same(rest[j], calls[Behind(i, j)])
             /\ rest[j].does # "fetch" => rest[j].late = calls[Behind(i, j)].late
  <2>1. /\ Behind(i, j) \in DOMAIN calls /\ Same(rest[j], calls[Behind(i, j)])
        /\ rest[j].late = Overtaken(Behind(i, j), S)
    BY <1>1, RestOthers
  <2> HIDE DEF rest
  <2> QED  BY <1>1, <2>1 DEF Same, Overtaken
<1> HIDE DEF rest
<1>3. \A j \in DOMAIN rest : Writes(rest[j])
  BY <1>2 DEF ShownInv, Writes, IsPatch, IsIdle, Same
<1>4. ASSUME NEW rows, \A j \in DOMAIN calls : Applied(calls[j], rows), NEW j \in DOMAIN rest
      PROVE  Applied(rest[j], rows)
  BY <1>2, <1>4 DEF Applied, IsPatch, Same
<1> QED  BY <1>3, <1>4 DEF rest

(* A change whose answer brings nothing leaves the rest as it was. *)
LEMMA RestFollows ==
  ASSUME ShownInv, Follows(shown, store, calls), NEW i \in DOMAIN calls,
         calls[i].does # "fetch", ~WillFetch(calls[i]), ~(IsPatch(calls[i]) /\ calls[i].taken)
  PROVE  Follows(shown, store, Rest(i, {}))
<1> DEFINE rest == Rest(i, {})
<1>1. TypeOK
  BY DEF ShownInv, IInv
<1>2. /\ \A j \in DOMAIN rest :
           /\ Behind(i, j) \in DOMAIN calls \ {i}
           /\ Same(rest[j], calls[Behind(i, j)]) /\ rest[j].late = calls[Behind(i, j)].late
      /\ \A l \in DOMAIN calls \ {i} : \E j \in DOMAIN rest : Behind(i, j) = l
      /\ \A j, k \in DOMAIN rest : Behind(i, j) <= Behind(i, k) => j <= k
  <2>1. \A j \in DOMAIN calls : Overtaken(j, {}) = calls[j].late
    BY <1>1, CallsFacts, CallFacts DEF Overtaken
  <2>2. \A j \in DOMAIN rest :
           /\ Behind(i, j) \in DOMAIN calls \ {i}
           /\ Same(rest[j], calls[Behind(i, j)]) /\ rest[j].late = Overtaken(Behind(i, j), {})
    BY <1>1, RestOthers
  <2>3. /\ \A l \in DOMAIN calls \ {i} : \E j \in DOMAIN rest : Behind(i, j) = l
        /\ \A j, k \in DOMAIN rest : Behind(i, j) <= Behind(i, k) => j <= k
    BY <1>1, RestOthers
  <2> HIDE DEF rest
  <2> QED  BY <2>1, <2>2, <2>3
<1> HIDE DEF rest
<1>3. \A l \in DOMAIN calls : l # i => \E j \in DOMAIN rest :
        Same(rest[j], calls[l]) /\ rest[j].late = calls[l].late
  BY <1>2
<1>4. \A l \in DOMAIN calls : calls[l].does = "fetch" =>
        \E j \in DOMAIN rest : rest[j].does = "fetch" /\ (calls[l].late => rest[j].late)
  BY <1>3 DEF Same
<1>5. ASSUME NEW j, Latest(rest, j) PROVE Latest(calls, Behind(i, j))
  <2>1. /\ j \in DOMAIN rest /\ rest[j].does = "fetch"
        /\ \A k \in DOMAIN rest : rest[k].does = "fetch" => k <= j
    BY <1>5 DEF Latest
  <2>2. Behind(i, j) \in DOMAIN calls /\ calls[Behind(i, j)].does = "fetch"
    BY <1>2, <2>1 DEF Same
  <2>3. ASSUME NEW l \in DOMAIN calls, calls[l].does = "fetch" PROVE l <= Behind(i, j)
    <3>1. PICK k \in DOMAIN rest : Behind(i, k) = l
      BY <1>2, <2>3
    <3>2. k <= j
      BY <1>2, <2>1, <2>3, <3>1 DEF Same
    <3>3. DOMAIN rest \subseteq Nat /\ DOMAIN calls \subseteq Nat /\ i \in Nat
      <4>1. DOMAIN calls = 1 .. Len(calls) /\ DOMAIN rest = 1 .. Len(calls) - 1 /\ Len(calls) \in Nat
        BY <1>1, CallsFacts, RestShape DEF rest
      <4> QED  BY <4>1
    <3> QED  BY <2>1, <3>1, <3>2, <3>3 DEF Behind
  <2> QED  BY <2>2, <2>3 DEF Latest
<1>6. ASSUME CopyFollows(shown, store, calls), NEW j, Latest(rest, j)
      PROVE  Followed(rest[j].rows, rest[j].got, store, rest)
  <2>1. /\ Followed(calls[Behind(i, j)].rows, calls[Behind(i, j)].got, store, calls)
        /\ j \in DOMAIN rest
    BY <1>5, <1>6 DEF CopyFollows, Latest
  <2>2. rest[j].rows = calls[Behind(i, j)].rows /\ rest[j].got = calls[Behind(i, j)].got
    BY <1>2, <2>1 DEF Same
  <2> QED  BY <1>3, <2>1, <2>2, FollowedKept
<1>7. Follows(shown, store, rest)
  BY <1>2, <1>3, <1>4, <1>6, FollowsKept
<1> QED  BY <1>7 DEF rest

LEMMA AnswerNobodyShown ==
  ASSUME ShownInv, NEW i \in DOMAIN calls, AnswerNobody(i)
  PROVE  /\ \A j \in DOMAIN calls' : Writes(calls'[j])
         /\ ~excused' => Follows(shown', store', calls')
<1>1. TypeOK /\ UNCHANGED <<shown, store, excused>> /\ calls[i].does # "fetch" /\ calls[i].late
  BY DEF ShownInv, IInv, AnswerNobody
<1>2. calls' = Rest(i, {})
  BY <1>1, RestOfAll DEF AnswerNobody
<1>3. ~WillFetch(calls[i]) /\ ~IsPatch(calls[i])
  BY <1>1 DEF WillFetch, IsPatch
<1> QED  BY <1>1, <1>2, <1>3, RestWrites, RestFollows DEF ShownInv

(* The answer to a fetch.  It is the last one, or another is pending.      *)
LEMMA AnswerFetchShown ==
  ASSUME ShownInv, NEW i \in DOMAIN calls, AnswerFetch(i)
  PROVE  /\ \A j \in DOMAIN calls' : Writes(calls'[j])
         /\ ~excused' => Follows(shown', store', calls')
<1> DEFINE c == calls[i]
           S == 1 .. i - 1
           rest == Rest(i, S)
<1>1. /\ page \in Page /\ TypeOK /\ store' = store /\ c.does = "fetch" /\ calls' = rest
  BY DEF ShownInv, IInv, TypeOK, AnswerFetch
<1>2. PICK got \in {c.got, {}} :
        /\ shown' = [j \in Items |-> IF j[1] \in got THEN c.rows[j]
                                      ELSE IF Is.empties THEN Absent ELSE shown[j]]
        /\ excused' = Excused(c.late \/ got # Is.tables)
  BY DEF AnswerFetch
<1>3. \A j \in DOMAIN calls' : Writes(calls'[j])
  BY <1>1, RestWrites
<1>4. CASE shown' = store /\ calls' = <<>>
  BY <1>1, <1>3, <1>4, FollowsAtRest
<1>5. ASSUME ~(shown' = store /\ calls' = <<>>), ~excused' PROVE Follows(shown', store', calls')
  <2>1. ~excused /\ ~c.late /\ got = Is.tables
    BY <1>1, <1>2, <1>5 DEF Excused
  <2>2. \A j \in Items : shown'[j] = c.rows[j]
    BY <1>1, <1>2, <2>1, ItemFacts
  <2>3. Follows(shown, store, calls)
    BY <2>1 DEF ShownInv
  <2>4. \A j \in DOMAIN rest : Applied(rest[j], store)
    BY <2>3, RestWrites DEF Follows
  <2>5. /\ \A j \in DOMAIN rest :
             /\ Behind(i, j) \in DOMAIN calls \ {i}
             /\ Same(rest[j], calls[Behind(i, j)])
             /\ rest[j].late = Overtaken(Behind(i, j), S)
        /\ \A l \in DOMAIN calls \ {i} : \E j \in DOMAIN rest : Behind(i, j) = l
        /\ \A j, k \in DOMAIN rest : Behind(i, j) <= Behind(i, k) => j <= k
    BY <1>1, RestOthers
  <2>6. /\ DOMAIN calls = 1 .. Len(calls) /\ Len(calls) \in Nat
        /\ DOMAIN rest = 1 .. Len(calls) - 1
        /\ \A j \in DOMAIN calls : calls[j].late \in BOOLEAN
    BY <1>1, CallsFacts, CallFacts, RestShape
  <2> HIDE DEF rest, S
  <2>7. ASSUME NEW l \in DOMAIN calls \ {i}, calls[l].does # "fetch"
        PROVE  \E j \in DOMAIN rest : Same(rest[j], calls[l]) /\ rest[j].late = calls[l].late
    BY <2>5, <2>6, <2>7 DEF Overtaken
  <2>8. CASE Pending(calls)
    <3>1. PICK l \in DOMAIN calls : WillFetch(calls[l]) \/ (calls[l].does = "fetch" /\ calls[l].late)
      BY <2>8 DEF Pending
    <3>2. l # i
      BY <1>1, <2>1, <3>1 DEF WillFetch
    <3>3. ASSUME WillFetch(calls[l]) PROVE Pending(rest)
      <4>1. PICK j \in DOMAIN rest : Same(rest[j], calls[l]) /\ rest[j].late = calls[l].late
        BY <2>7, <3>2, <3>3 DEF WillFetch
      <4> QED  BY <3>3, <4>1 DEF Pending, WillFetch, Same
    <3>4. ASSUME calls[l].does = "fetch", calls[l].late PROVE Pending(rest)
      <4>1. PICK j \in DOMAIN rest : Behind(i, j) = l
        BY <2>5, <3>2
      <4>2. rest[j].does = "fetch"
        BY <2>5, <3>4, <4>1 DEF Same
      <4>3. rest[j].late
        BY <2>5, <3>4, <4>1 DEF Overtaken
      <4> QED  BY <4>2, <4>3 DEF Pending
    <3>5. Pending(rest)
      BY <3>1, <3>3, <3>4
    <3> QED  BY <1>1, <2>4, <3>5 DEF Follows
  <2>9. CASE CopyFollows(shown, store, calls) /\ \E l \in DOMAIN calls : l < i /\ calls[l].does = "fetch"
    <3>1. PICK l \in DOMAIN calls : l < i /\ calls[l].does = "fetch"
      BY <2>9
    <3>2. PICK j \in DOMAIN rest : Behind(i, j) = l
      BY <2>5, <2>6, <3>1
    <3>3. l \in S
      BY <2>6, <3>1 DEF S
    <3>4. Pending(rest)
      BY <2>5, <3>1, <3>2, <3>3 DEF Pending, Same, Overtaken
    <3> QED  BY <1>1, <2>4, <3>4 DEF Follows
  <2>10. CASE CopyFollows(shown, store, calls) /\ ~\E l \in DOMAIN calls : l < i /\ calls[l].does = "fetch"
    <3>1. ASSUME NEW copy, NEW tables, Followed(copy, tables, store, calls)
          PROVE  Followed(copy, tables, store, rest)
      <4>1. \A l \in DOMAIN calls : IsPatch(calls[l]) /\ calls[l].taken =>
              \E j \in DOMAIN rest : Same(rest[j], calls[l]) /\ rest[j].late = calls[l].late
        BY <1>1, <2>7 DEF IsPatch
      <4> QED  BY <3>1, <4>1, FollowedKept
    <3>2. ASSUME \A j \in DOMAIN rest : rest[j].does # "fetch"
          PROVE  Followed(shown', Is.tables, store, rest)
      <4>1. \A l \in DOMAIN calls : calls[l].does = "fetch" => l = i
        BY <2>5, <3>2 DEF Same
      <4>2. Latest(calls, i)
        BY <1>1, <2>6, <4>1 DEF Latest
      <4>3. Followed(c.rows, c.got, store, calls)
        BY <2>10, <4>2 DEF CopyFollows
      <4>4. Followed(c.rows, Is.tables, store, rest)
        <5>1. c.got = Is.tables \/ (c.got # Is.tables /\ Is.tables = {})
          BY <1>2, <2>1
        <5> QED  BY <3>1, <4>3, <5>1 DEF Followed
      <4> QED  BY <2>2, <4>4 DEF Followed
    <3>3. ASSUME NEW j, Latest(rest, j) PROVE Followed(rest[j].rows, rest[j].got, store, rest)
      <4>1. /\ j \in DOMAIN rest /\ rest[j].does = "fetch"
            /\ \A k \in DOMAIN rest : rest[k].does = "fetch" => k <= j
        BY <3>3 DEF Latest
      <4>2. Behind(i, j) \in DOMAIN calls \ {i} /\ calls[Behind(i, j)].does = "fetch"
        BY <2>5, <4>1 DEF Same
      <4>3. i < Behind(i, j)
        BY <2>6, <2>10, <4>2
      <4>4. ASSUME NEW l \in DOMAIN calls, calls[l].does = "fetch" PROVE l <= Behind(i, j)
        <5>1. CASE l = i
          BY <2>6, <4>3, <5>1, <4>2
        <5>2. CASE l # i
          <6>1. PICK k \in DOMAIN rest : Behind(i, k) = l
            BY <2>5, <5>2
          <6>2. k <= j
            BY <2>5, <4>1, <4>4, <6>1 DEF Same
          <6> QED  BY <2>6, <4>1, <6>1, <6>2 DEF Behind
        <5> QED  BY <5>1, <5>2
      <4>5. Followed(calls[Behind(i, j)].rows, calls[Behind(i, j)].got, store, calls)
        BY <2>10, <4>2, <4>4 DEF CopyFollows, Latest
      <4>6. rest[j].rows = calls[Behind(i, j)].rows /\ rest[j].got = calls[Behind(i, j)].got
        BY <2>5, <4>1 DEF Same
      <4> QED  BY <3>1, <4>5, <4>6
    <3>4. CopyFollows(shown', store, rest)
      BY <3>2, <3>3 DEF CopyFollows
    <3> QED  BY <1>1, <2>4, <3>4 DEF Follows
  <2> QED  BY <2>3, <2>8, <2>9, <2>10 DEF Follows
<1> QED  BY <1>3, <1>4, <1>5

-----------------------------------------------------------------------------
(* The answer to a change. *)

(* An answer that makes the page fetch again. *)
LEMMA RefetchShown ==
  ASSUME ShownInv, NEW i \in DOMAIN calls, NEW E, NEW lost, AnswerWith(i, E, lost),
         calls[i].does # "fetch", Refetches(E)
  PROVE  /\ \A j \in DOMAIN calls' : Writes(calls'[j])
         /\ ~excused' => Follows(shown', store', calls')
<1>1. page \in Page /\ TypeOK /\ store' = store /\ calls[i].flag \in Flags \cup {"none"}
  <2>1. page \in Page /\ TypeOK
    BY DEF ShownInv, IInv, TypeOK
  <2> QED  BY <2>1, CallsFacts, CallFacts DEF AnswerWith
<1>2. PICK S, f : f \in Flags \cup {"none"} /\ calls' = Append(Rest(i, S), Fetch(f))
  <2>1. calls' = Append(Rest(i, IF "patch" \in E THEN DOMAIN calls ELSE {}),
                        Fetch(IF "wait" \in E THEN calls[i].flag ELSE "none"))
    BY DEF AnswerWith
  <2>2. (IF "wait" \in E THEN calls[i].flag ELSE "none") \in Flags \cup {"none"}
    BY <1>1
  <2> QED  BY <2>1, <2>2
<1> DEFINE rest == Rest(i, S)
<1>3. rest \in Seq(Call) /\ \A j \in DOMAIN rest : Writes(rest[j])
  BY <1>1, RestShape, RestWrites
<1>4. Fetch(f) \in Call /\ Fetch(f).does = "fetch"
  BY <1>1, <1>2, FetchIsCall DEF Fetch
<1>5. \A j \in DOMAIN calls' : Writes(calls'[j])
  <2> HIDE DEF rest
  <2>1. calls' = Append(rest, Fetch(f))
    BY <1>2 DEF rest
  <2>2. Writes(Fetch(f))
    BY <1>4 DEF Writes, IsPatch, IsIdle
  <2>3. /\ DOMAIN calls' = DOMAIN rest \cup {Len(rest) + 1}
        /\ \A j \in DOMAIN rest : calls'[j] = rest[j]
        /\ calls'[Len(rest) + 1] = Fetch(f)
    BY <1>3, <1>4, <2>1, SentShape
  <2> QED  BY <1>3, <2>2, <2>3
<1>6. calls' # <<>>
  BY <1>2, <1>3, <1>4, SentShape
<1>7. ASSUME ~excused' PROVE Follows(shown', store, Append(rest, Fetch(f)))
  <2>1. ~excused
    BY <1>6, <1>7 DEF AnswerWith, Excused
  <2>2. \A j \in DOMAIN calls : Applied(calls[j], store)
    BY <2>1 DEF ShownInv, Follows
  <2>3. \A j \in DOMAIN rest : Applied(rest[j], store)
    BY <2>2, RestWrites
  <2> HIDE DEF rest
  <2> QED  BY <1>1, <1>2, <1>3, <2>3, FollowsFetch
<1> QED  BY <1>1, <1>2, <1>5, <1>7

(* An answer that patches the copy on display: the row that the change was *)
(* for is up to date then, and every fetch under way is overtaken.         *)
LEMMA PatchShown ==
  ASSUME ShownInv, NEW i \in DOMAIN calls, NEW E, AnswerWith(i, E, FALSE),
         calls[i].does # "fetch", IsPatch(calls[i]), calls[i].taken,
         ~Refetches(E), "patch" \in E, ~WillFetch(calls[i])
  PROVE  /\ \A j \in DOMAIN calls' : Writes(calls'[j])
         /\ ~excused' => Follows(shown', store', calls')
<1> DEFINE c == calls[i]
           rest == Rest(i, DOMAIN calls)
<1>1. /\ page \in Page /\ TypeOK /\ store' = store /\ calls' = rest /\ shown' = Patched(c)
      /\ excused' = Excused(c.crossed \/ c.rows # shown)
  BY DEF ShownInv, IInv, TypeOK, AnswerWith, Refetches
<1>2. \A j \in DOMAIN calls' : Writes(calls'[j])
  BY <1>1, RestWrites
<1>3. CASE shown' = store /\ calls' = <<>>
  BY <1>1, <1>2, <1>3, FollowsAtRest
<1>4. ASSUME ~(shown' = store /\ calls' = <<>>), ~excused' PROVE Follows(shown', store', calls')
  <2>1. ~excused /\ ~c.crossed /\ c.rows = shown
    BY <1>1, <1>4 DEF Excused
  <2>2. Follows(shown, store, calls)
    BY <2>1 DEF ShownInv
  <2>3. \A j \in DOMAIN rest : Applied(rest[j], store)
    BY <2>2, RestWrites DEF Follows
  <2>4. /\ \A j \in DOMAIN rest :
             /\ Behind(i, j) \in DOMAIN calls \ {i}
             /\ Same(rest[j], calls[Behind(i, j)])
             /\ rest[j].late = Overtaken(Behind(i, j), DOMAIN calls)
        /\ \A l \in DOMAIN calls \ {i} : \E j \in DOMAIN rest : Behind(i, j) = l
    BY <1>1, RestOthers
  <2>5. \A j \in DOMAIN calls : calls[j].late \in BOOLEAN
    BY <1>1, CallsFacts, CallFacts
  <2> HIDE DEF rest
  <2>6. ASSUME NEW l \in DOMAIN calls \ {i}, calls[l].does # "fetch"
        PROVE  \E j \in DOMAIN rest : Same(rest[j], calls[l]) /\ rest[j].late = calls[l].late
    BY <2>4, <2>5, <2>6 DEF Overtaken
  <2>7. ASSUME NEW j \in DOMAIN rest, rest[j].does = "fetch" PROVE Pending(rest)
    <3>1. rest[j].late
      BY <2>4, <2>7 DEF Same, Overtaken
    <3> QED  BY <2>7, <3>1 DEF Pending
  <2>8. ASSUME NEW l \in DOMAIN calls, WillFetch(calls[l]) PROVE Pending(rest)
    <3>1. l # i
      BY <2>8
    <3>2. PICK j \in DOMAIN rest : Same(rest[j], calls[l]) /\ rest[j].late = calls[l].late
      BY <2>6, <2>8, <3>1 DEF WillFetch
    <3> QED  BY <2>8, <3>2 DEF Pending, WillFetch, Same
  <2>9. CASE Pending(rest)
    BY <1>1, <2>3, <2>9 DEF Follows
  <2>10. CASE ~Pending(rest)
    <3>1. \A l \in DOMAIN calls : calls[l].does # "fetch"
      <4> SUFFICES ASSUME NEW l \in DOMAIN calls, calls[l].does = "fetch" PROVE FALSE
        OBVIOUS
      <4>1. PICK j \in DOMAIN rest : Behind(i, j) = l
        BY <2>4
      <4>2. rest[j].does = "fetch"
        BY <2>4, <4>1 DEF Same
      <4> QED  BY <2>7, <2>10, <4>2
    <3>2. ~Pending(calls)
      BY <2>8, <2>10, <3>1 DEF Pending
    <3>3. Followed(shown, Is.tables, store, calls)
      BY <2>2, <3>1, <3>2 DEF Follows, CopyFollows
    <3>4. c.item \in Items /\ shown \in [Items -> Value]
      BY <1>1 DEF ShownInv, Writes, TypeOK
    <3>5. Apply(c.asks, store[c.item]) = store[c.item]
      BY <2>1, <2>2 DEF Follows, Applied
    <3>6. shown' = [shown EXCEPT ![c.item] = Apply(c.asks, @)]
      BY <1>1, <2>1, <3>4 DEF Patched
    <3>7. Followed(shown', Is.tables, store, rest)
      <4> SUFFICES ASSUME NEW j \in Items, j[1] \in Is.tables, shown'[j] # store[j]
                   PROVE  \E k \in DOMAIN rest : Awaits(rest[k], j, store)
        BY DEF Followed
      <4>1. shown[j] # store[j]
        BY <3>4, <3>5, <3>6
      <4>2. PICK l \in DOMAIN calls : Awaits(calls[l], j, store)
        BY <3>3, <4>1 DEF Followed
      <4>3. l # i
        <5> SUFFICES ASSUME Awaits(c, j, store) PROVE FALSE
          BY <4>2
        <5>1. j = c.item /\ store[j] = Apply(c.asks, shown[j])
          BY <2>1 DEF Awaits
        <5> QED  BY <3>4, <3>6, <5>1
      <4>4. PICK k \in DOMAIN rest : Same(rest[k], calls[l]) /\ rest[k].late = calls[l].late
        BY <2>6, <4>2, <4>3 DEF Awaits, IsPatch
      <4>5. Awaits(rest[k], j, store)
        BY <4>2, <4>4 DEF Awaits, IsPatch, Same
      <4> QED  BY <4>5
    <3>8. CopyFollows(shown', store, rest)
      BY <2>7, <2>10, <3>7 DEF CopyFollows, Latest
    <3> QED  BY <1>1, <2>3, <3>8 DEF Follows
  <2> QED  BY <2>9, <2>10
<1> QED  BY <1>2, <1>3, <1>4

LEMMA AnswerChangeShown ==
  ASSUME ShownInv, NEW i \in DOMAIN calls, AnswerChange(i)
  PROVE  /\ \A j \in DOMAIN calls' : Writes(calls'[j])
         /\ ~excused' => Follows(shown', store', calls')
<1> DEFINE c == calls[i]
           h == Does(c.does)
<1>1. page \in Page /\ TypeOK /\ c.does # "fetch" /\ ~c.late /\ c.does \in Names
  <2>1. page \in Page /\ TypeOK /\ c.does # "fetch" /\ ~c.late
    BY DEF ShownInv, IInv, TypeOK, AnswerChange
  <2> QED  BY <2>1, CallsFacts, CallFacts
<1>2. "patch" \notin h.refused \cup h.failed
  BY <1>1, CopyAssumption DEF CopyAssumption, KeepsUp, Does, Names, Is
<1>3. PICK E, lost :
        /\ AnswerWith(i, E, lost)
        /\ \/ c.taken /\ E = h.ok /\ lost = FALSE
           \/ ~c.taken /\ "patch" \notin E /\ lost = FALSE
           \/ c.taken /\ "patch" \notin E /\ lost = TRUE
  <2>1. c.taken \in BOOLEAN
    BY <1>1, CallsFacts, CallFacts
  <2> QED  BY <1>2, <2>1 DEF AnswerChange
<1>4. CASE Refetches(E)
  BY <1>1, <1>3, <1>4, RefetchShown
<1>5. CASE ~Refetches(E) /\ "patch" \in E
  <2>1. c.taken /\ E = h.ok /\ lost = FALSE
    BY <1>3, <1>5
  <2>2. IsPatch(c) /\ ~WillFetch(c)
    BY <1>1, <1>5, <2>1 DEF IsPatch, WillFetch, Patches
  <2> QED  BY <1>1, <1>3, <1>5, <2>1, <2>2, PatchShown
<1>6. CASE ~Refetches(E) /\ "patch" \notin E
  <2>1. /\ store' = store /\ shown' = shown /\ calls' = Rest(i, {})
        /\ excused' = Excused(lost)
    BY <1>3, <1>6 DEF AnswerWith, Refetches
  <2>2. \A j \in DOMAIN calls' : Writes(calls'[j])
    BY <2>1, RestWrites
  <2>3. CASE shown' = store /\ calls' = <<>>
    BY <2>1, <2>2, <2>3, FollowsAtRest
  <2>4. ASSUME ~(shown' = store /\ calls' = <<>>), ~excused' PROVE Follows(shown', store', calls')
    <3>1. ~excused /\ lost = FALSE
      BY <1>3, <2>1, <2>4 DEF Excused
    <3>2. Follows(shown, store, calls)
      BY <3>1 DEF ShownInv
    <3>3. ~WillFetch(c) /\ ~(IsPatch(c) /\ c.taken)
      BY <1>3, <1>6, <3>1 DEF WillFetch, IsPatch, Patches
    <3>4. Follows(shown, store, Rest(i, {}))
      BY <1>1, <3>2, <3>3, RestFollows
    <3> QED  BY <2>1, <3>4
  <2> QED  BY <2>2, <2>3, <2>4
<1> QED  BY <1>4, <1>5, <1>6

LEMMA StepShown == ShownInv /\ [Next]_vars => ShownInv'
<1> SUFFICES ASSUME ShownInv, [Next]_vars PROVE ShownInv'
  OBVIOUS
<1>1. IInv'
  BY StepIInv DEF ShownInv
<1> SUFFICES /\ \A j \in DOMAIN calls' : Writes(calls'[j])
             /\ ~excused' => Follows(shown', store', calls')
  <2>1. page' = page
    BY DEF Next, vars, FillForm, CloseForm, Click, Refresh, Leave, Take, Read, Elsewhere,
           Answer, AnswerFetch, AnswerChange, AnswerNobody, AnswerWith
  <2> QED  BY <1>1, <2>1, SameSight DEF ShownInv
<1>2. CASE UNCHANGED <<store, shown, calls, excused>>
  BY <1>2 DEF ShownInv
<1>3. ASSUME NEW f \in Forms, FillForm(f) \/ CloseForm(f)
      PROVE  UNCHANGED <<store, shown, calls, excused>>
  BY <1>3 DEF FillForm, CloseForm
<1>4. ASSUME NEW n \in Names, NEW item \in Everything, Click(n, item)
      PROVE  /\ \A j \in DOMAIN calls' : Writes(calls'[j])
             /\ ~excused' => Follows(shown', store', calls')
  BY <1>4, ClickShown
<1>5. CASE Refresh
  BY <1>5, RefreshShown
<1>6. CASE Leave
  BY <1>6, LeaveShown
<1>7. ASSUME NEW i \in DOMAIN calls, Take(i)
      PROVE  /\ \A j \in DOMAIN calls' : Writes(calls'[j])
             /\ ~excused' => Follows(shown', store', calls')
  BY <1>7, TakeShown
<1>8. ASSUME NEW i \in DOMAIN calls, Answer(i)
      PROVE  /\ \A j \in DOMAIN calls' : Writes(calls'[j])
             /\ ~excused' => Follows(shown', store', calls')
  BY <1>8, AnswerFetchShown, AnswerChangeShown, AnswerNobodyShown DEF Answer
<1>9. ASSUME NEW i \in DOMAIN calls, NEW t \in Is.tables, Read(i, t)
      PROVE  /\ \A j \in DOMAIN calls' : Writes(calls'[j])
             /\ ~excused' => Follows(shown', store', calls')
  BY <1>9, ReadShown
<1>10. ASSUME NEW i \in Items, Elsewhere(i)
       PROVE  /\ \A j \in DOMAIN calls' : Writes(calls'[j])
              /\ ~excused' => Follows(shown', store', calls')
  BY <1>10 DEF Elsewhere, ShownInv
<1>11. CASE UNCHANGED vars
  BY <1>2, <1>11 DEF vars
<1> QED  BY <1>2, <1>3, <1>4, <1>5, <1>6, <1>7, <1>8, <1>9, <1>10, <1>11 DEF Next

(* A page that waits for nothing shows what is stored, whatever requests   *)
(* it had in flight, in whatever order they were taken and answered, and   *)
(* however often somebody went away and came back: unless another operator *)
(* has changed a row, an answer was lost, or answers overtook each other.  *)
THEOREM RestedPage == Spec => []RestedPageIsCurrent
<1>1. ShownInv => RestedPageIsCurrent
  <2> SUFFICES ASSUME ShownInv, calls = <<>>, ~excused PROVE shown = store
    BY DEF RestedPageIsCurrent
  <2>1. page \in Page /\ shown \in [Items -> Value] /\ store \in [Items -> Value]
    BY DEF ShownInv, IInv, TypeOK
  <2>2. DOMAIN calls = {}
    OBVIOUS
  <2>3. Followed(shown, Is.tables, store, calls)
    BY <2>2 DEF ShownInv, Follows, Pending, CopyFollows
  <2>4. \A j \in Items : shown[j] = store[j]
    BY <2>1, <2>2, <2>3, ItemFacts DEF Followed
  <2> QED  BY <2>1, <2>4
<1> QED  BY <1>1, InitShown, StepShown, PTL DEF Spec
=============================================================================
