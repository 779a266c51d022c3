-------------------------------- MODULE Page --------------------------------
(***************************************************************************)
(* A page of the dashboard (dashboard-ui/src/app/*/page.tsx): a React      *)
(* component that shows a copy of some tables of the management plane and  *)
(* sends a request for every control somebody uses.                        *)
(*                                                                         *)
(* A handler runs without interruption up to its request and from the      *)
(* answer on.  In between, other handlers run.  The management plane takes *)
(* requests in any order, and their answers arrive in any order.  Nothing  *)
(* limits how long an answer takes, and no page aborts a request.  A page  *)
(* forgets its state when somebody leaves it, but the requests it has sent *)
(* still take effect.                                                      *)
(*                                                                         *)
(* What the pages have in common is written here once.  Made[page] says    *)
(* what a page is made of: its tables, its forms, and for every handler    *)
(* what disables its control, what it asks for, and what it does with an   *)
(* answer.                                                                 *)
(***************************************************************************)
EXTENDS Naturals, Sequences, SequencesExt

CONSTANTS
  Page,      \* the pages
  Made,      \* Made[p]: what page p is made of
  Value,     \* what a row can be, and Absent
  Row,       \* Row[p]: the rows of page p, each a table and a key
  MaxCalls   \* bound on the requests in flight

Absent == "absent"
Outcome == {"ok", "refused", "failed"}
Effect == {"clear", "close", "fetch", "wait", "patch"}

(* An update is what a request makes of a row: a function on what the row  *)
(* may be.  An insertion is an update of an absent row.                    *)
IsUpdate(u) == /\ DOMAIN u \subseteq Value
               /\ \A v \in DOMAIN u : u[v] \in Value

(* A handler of a page.  gives[v] is what it may ask for of a row that is  *)
(* shown as v; a handler that changes no row gives nothing.  flag is       *)
(* raised before the request and lowered after the answer, for one row or  *)
(* for all.  The rest are the effects of the answer.                       *)
IsHandler(h, tables) ==
  /\ h.table \in tables
  /\ h.flag \in STRING /\ h.perRow \in BOOLEAN
  /\ \A v \in DOMAIN h.gives : v \in Value /\ \A u \in h.gives[v] : IsUpdate(u)
  /\ \A o \in Outcome : h[o] \subseteq Effect

(* The control that calls it: the rows that have one, the flags that       *)
(* disable it, and the form it submits.  An inline form is always on       *)
(* display, a preset one is complete from the start.                       *)
IsControl(c) ==
  /\ c.on \subseteq Value /\ c.disabled \subseteq STRING
  /\ c.form \in STRING /\ c.inline \in BOOLEAN /\ c.preset \in BOOLEAN
  /\ c.inline \/ c.preset => c.form # "none"

(* The controls of one form share one flag.                                *)
MadeAssumption ==
  /\ Absent \in Value
  /\ MaxCalls \in Nat \ {0}
  /\ \A p \in Page :
       /\ "none" \notin Made[p].tables
       /\ \A r \in Row[p] : r[1] \in Made[p].tables
       /\ DOMAIN Made[p].controls = DOMAIN Made[p].does
       /\ \A n \in DOMAIN Made[p].does :
            /\ n # "fetch" /\ n \in STRING
            /\ IsHandler(Made[p].does[n], Made[p].tables)
            /\ Made[p].does[n].flag # "loading"
            /\ IsControl(Made[p].controls[n])
       /\ \A n, m \in DOMAIN Made[p].does :
            Made[p].controls[n].form = Made[p].controls[m].form /\ Made[p].controls[n].form # "none"
              => Made[p].does[n].flag = Made[p].does[m].flag
       /\ \A t \in Made[p].tables : Made[p].rows[t] \subseteq Value
       /\ Made[p].quiet \in BOOLEAN /\ Made[p].empties \in BOOLEAN
       /\ Made[p].polls \in BOOLEAN /\ Made[p].refresh \in BOOLEAN
       /\ Made[p].refreshDisabled \subseteq STRING

ASSUME MadeAssumption

(* The copy on display keeps up with what a handler asks for: the handler  *)
(* fetches after its answer, or writes the one value that it asks for into *)
(* the row it was called for, or asks for no change of the rows at all.    *)
KeepsUp(h) ==
  /\ "patch" \notin h.refused \cup h.failed
  /\ IF "patch" \in h.ok
       THEN /\ DOMAIN h.gives # {} /\ Absent \notin DOMAIN h.gives
            /\ \A v \in DOMAIN h.gives : \A u \in h.gives[v] :
                 v \in DOMAIN u /\ \A w \in DOMAIN u : u[w] = u[v]
       ELSE \/ h.ok \cap {"fetch", "wait"} # {}
            \/ \A v \in DOMAIN h.gives : \A u \in h.gives[v] : \A w \in DOMAIN u : u[w] = w

CopyAssumption == \A p \in Page : \A n \in DOMAIN Made[p].does : KeepsUp(Made[p].does[n])

ASSUME CopyAssumption

VARIABLES
  page,      \* the page somebody has opened
  store,     \* the rows, in the database
  shown,     \* the rows, in the component's state
  busy,      \* busy[f]: the rows whose controls flag f disables
  ready,     \* the forms that are on display, with their fields filled in
  calls,     \* the requests in flight, in the order of sending
  sent,      \* the forms whose contents the management plane has taken
  twice,     \* the forms whose contents it has taken twice
  excused    \* whether the page may show an outdated copy

vars == <<page, store, shown, busy, ready, calls, sent, twice, excused>>

-----------------------------------------------------------------------------
Is == Made[page]
Does(n) == Is.does[n]
At(n) == Is.controls[n]
Names == DOMAIN Is.does
Items == Row[page]
NoItem == <<"none", "none">>
EverythingOf == [p \in Page |-> Row[p] \cup {NoItem}]
Everything == EverythingOf[page]
Blank == [i \in Items |-> Absent]

FlagsOf ==
  [p \in Page |->
    {"loading"} \cup {Made[p].does[n].flag : n \in DOMAIN Made[p].does}]
Flags == FlagsOf[page]
ControlsOf(p) == {Made[p].controls[n] : n \in DOMAIN Made[p].controls}
FormsOf == [p \in Page |-> {c.form : c \in ControlsOf(p)} \ {"none"}]
Forms == FormsOf[page]
InlineOf == [p \in Page |-> {c.form : c \in {d \in ControlsOf(p) : d.inline}}]
Inline == InlineOf[page]
PresetOf == [p \in Page |-> {c.form : c \in {d \in ControlsOf(p) : d.preset}}]
Preset == PresetOf[page]
Nothing == [v \in {} |-> Absent]

Fetch(flag) ==
  [does |-> "fetch", item |-> NoItem, asks |-> Nothing, taken |-> FALSE,
   rows |-> Blank, got |-> {}, late |-> FALSE, crossed |-> FALSE, flag |-> flag]

(* A handler that patches the copy closes over it when it is called. *)
Patches(n) == "patch" \in Does(n).ok

Change(n, item, u) ==
  [does |-> n, item |-> item, asks |-> u, taken |-> FALSE,
   rows |-> IF Patches(n) THEN shown ELSE Blank,
   got |-> {}, late |-> FALSE, crossed |-> FALSE, flag |-> Does(n).flag]

(* A flag that disables, in every row, the controls of all the handlers    *)
(* that raise it.                                                          *)
Guarded(f) ==
  /\ f # "none"
  /\ \A n \in Names : Does(n).flag = f => f \in At(n).disabled /\ ~Does(n).perRow

(* A form whose request is guarded, and whose fields are reset, or its     *)
(* dialog closed, once it has been taken.                                  *)
Protected(n) ==
  /\ Guarded(Does(n).flag) /\ At(n).form # "none"
  /\ Does(n).ok \cap {"clear", "close"} # {}

(* A flag that is never taken back. *)
RaisedMore(flag, items) ==
  IF flag = "none" THEN busy ELSE [busy EXCEPT ![flag] = @ \cup items]

(* A flag that is "none" is no flag. *)
Raised(flag, items) ==
  IF flag = "none" THEN busy ELSE [busy EXCEPT ![flag] = items]
Loading == IF Is.quiet THEN busy ELSE Raised("loading", Everything)

(* The component as it is mounted: its first fetch is under way. *)
Mounted ==
  /\ shown' = Blank
  /\ busy' = [f \in Flags |-> IF f = "loading" THEN Everything ELSE {}]
  /\ ready' = Preset
  /\ sent' = {} /\ twice' = {}

Init ==
  /\ page \in Page
  /\ store \in [Items -> Value]
  /\ \A i \in Items : store[i] = Absent \/ store[i] \in Is.rows[i[1]]
  /\ shown = Blank
  /\ busy = [f \in Flags |-> IF f = "loading" THEN Everything ELSE {}]
  /\ ready = Preset
  /\ sent = {} /\ twice = {}
  /\ calls = <<Fetch("none")>>
  /\ excused = FALSE

-----------------------------------------------------------------------------
(* What somebody does. *)

(* Somebody opens a form and fills it in, as it was before or anew.  The   *)
(* fields keep their contents while a dialog is closed.                    *)
FillForm(f) ==
  /\ f \in Forms \ ready
  /\ ready' = ready \cup {f} /\ sent' = sent \ {f} /\ twice' = twice \ {f}
  /\ UNCHANGED <<page, store, shown, busy, calls, excused>>

CloseForm(f) ==
  /\ f \in ready \ Inline
  /\ ready' = ready \ {f}
  /\ UNCHANGED <<page, store, shown, busy, calls, sent, twice, excused>>

(* A control is there and enabled. *)
Enabled(disabled, item) == \A d \in disabled : item \notin busy[d]
OfRow(n) == \E v \in DOMAIN Does(n).gives : v # Absent
OfferedTo(n, item) ==
  /\ At(n).form # "none" => At(n).form \in ready
  /\ IF OfRow(n)
       THEN /\ item \in Items /\ item[1] = Does(n).table
            /\ shown[item] \in DOMAIN Does(n).gives \cap At(n).on
       ELSE item = NoItem
Offered(n, item) == Enabled(At(n).disabled, item) /\ OfferedTo(n, item)

Asked(n, item) ==
  IF DOMAIN Does(n).gives = {} THEN {Nothing}
  ELSE Does(n).gives[IF item = NoItem THEN Absent ELSE shown[item]]

(* A handler up to its request. *)
Click(n, item) ==
  /\ Len(calls) < MaxCalls
  /\ Offered(n, item)
  /\ \E u \in Asked(n, item) : calls' = Append(calls, Change(n, item, u))
  /\ busy' = Raised(Does(n).flag, IF Does(n).perRow THEN {item} ELSE Everything)
  /\ UNCHANGED <<page, store, shown, ready, sent, twice, excused>>

(* The refresh button, or the interval of a page that polls. *)
Refresh ==
  /\ Len(calls) < MaxCalls
  /\ \/ Is.polls
     \/ Is.refresh /\ Enabled(Is.refreshDisabled, NoItem)
  /\ calls' = Append(calls, Fetch("none"))
  /\ busy' = Loading
  /\ UNCHANGED <<page, store, shown, ready, sent, twice, excused>>

(* Somebody goes to another page and comes back.  The page forgets its     *)
(* fetches, and the changes that are taken already; the management plane   *)
(* has yet to take the others.                                             *)
Untaken == {i \in DOMAIN calls : calls[i].does # "fetch" /\ ~calls[i].taken}
Orphan(c) == [c EXCEPT !.late = TRUE, !.rows = Blank, !.flag = "none"]

Leave ==
  LET at == SetToSeq(Untaken)
  IN  /\ Len(at) < MaxCalls
      /\ calls' = Append([i \in DOMAIN at |-> Orphan(calls[at[i]])], Fetch("none"))
      /\ Mounted
      /\ UNCHANGED <<page, store, excused>>

-----------------------------------------------------------------------------
(* What the management plane and the network do. *)

(* One of the tables of a fetch is read. *)
Read(i, t) ==
  /\ calls[i].does = "fetch" /\ t \in Is.tables \ calls[i].got
  /\ calls' = [calls EXCEPT
                ![i].got = @ \cup {t},
                ![i].rows = [j \in Items |-> IF j[1] = t THEN store[j] ELSE @[j]]]
  /\ UNCHANGED <<page, store, shown, busy, ready, sent, twice, excused>>

(* A status that no page knows. *)
ApplyUnknown(u, v) == IF v \in DOMAIN u THEN u[v] ELSE "unknown"

Apply(u, v) == IF v \in DOMAIN u THEN u[v] ELSE v
Room(c) == {i \in Items : i[1] = Does(c.does).table /\ store[i] \in DOMAIN c.asks}

(* The rows after a change.  An insertion takes a free key, or changes the *)
(* row that has its key where the management plane upserts.  A full table  *)
(* takes no more.                                                          *)
Stored(c) ==
  IF c.asks = Nothing THEN {store}
  ELSE {[store EXCEPT ![i] = Apply(c.asks, @)] :
          i \in IF c.item = NoItem THEN Room(c) ELSE {c.item}}

(* A row changes between a change that will be patched and its answer. *)
Crossed(j, i) ==
  /\ j # i /\ calls[j].taken /\ calls[j].rows # Blank
  /\ store'[calls[j].item] # store[calls[j].item]

Take(i) ==
  LET c == calls[i]
      form == At(c.does).form
      counts == ~c.late /\ Protected(c.does)
  IN  /\ c.does # "fetch" /\ ~c.taken
      /\ store' \in Stored(c)
      /\ calls' = [j \in DOMAIN calls |->
                    [calls[j] EXCEPT !.taken = @ \/ j = i, !.crossed = @ \/ Crossed(j, i)]]
      /\ sent' = IF counts THEN sent \cup {form} ELSE sent
      /\ twice' = IF counts /\ form \in sent THEN twice \cup {form} ELSE twice
      /\ excused' = (excused \/ c.late)
      /\ UNCHANGED <<page, shown, busy, ready>>

(* Another operator, another page, or a loop of the management plane       *)
(* changes a row.  Bound: once, until the page has caught up.              *)
Elsewhere(i) ==
  /\ ~excused
  /\ \E v \in Is.rows[i[1]] \cup {Absent} :
       v # store[i] /\ store' = [store EXCEPT ![i] = v]
  /\ excused' = TRUE
  /\ UNCHANGED <<page, shown, busy, ready, calls, sent, twice>>

-----------------------------------------------------------------------------
(* What the page does with an answer. *)

(* A page that shows what is stored, and waits for nothing, needs no       *)
(* excuse.                                                                 *)
Excused(more) == (excused \/ more) /\ ~(shown' = store /\ calls' = <<>>)

(* What is in flight without request i.  The fetches among S are overtaken *)
(* by its answer.                                                          *)
Rest(i, S) ==
  RemoveAt([j \in DOMAIN calls |->
             [calls[j] EXCEPT !.late = @ \/ (j \in S /\ calls[j].does = "fetch")]], i)

(* The end of a fetch.  The tables that were read replace the copy, unless *)
(* the connection has broken; the others were refused.                     *)
AnswerFetch(i) ==
  LET c == calls[i]
  IN  /\ c.does = "fetch"
      /\ calls' = Rest(i, 1 .. i - 1)
      /\ \E got \in {c.got, {}} :
           /\ shown' = [j \in Items |-> IF j[1] \in got THEN c.rows[j]
                                         ELSE IF Is.empties THEN Absent ELSE shown[j]]
           /\ excused' = Excused(c.late \/ got # Is.tables)
      /\ busy' = [f \in Flags |-> IF f \in {"loading", c.flag} THEN {} ELSE busy[f]]
      /\ UNCHANGED <<page, store, ready, sent, twice>>

(* The copy that a handler closed over, with its row patched. *)
Patched(c) ==
  [j \in Items |-> CASE j[1] # c.item[1] -> shown[j]
                     [] j = c.item -> Apply(c.asks, c.rows[j])
                     [] OTHER -> c.rows[j]]

(* A form that stays filled in. *)
DisplayedStill(E, form) == ready

(* The forms on display after the effects E of an answer on one of them. *)
Displayed(E, form) ==
  IF "close" \in E THEN ready \ {form}
  ELSE IF "clear" \in E THEN ready \ ({form} \ Preset) ELSE ready

(* An answer that makes the page fetch again, and one that is forgotten    *)
(* about where nothing waits for the fetch.                                *)
RefetchesWaiting(E) == "wait" \in E
Refetches(E) == E \cap {"fetch", "wait"} # {}

(* A handler from the answer on, with the effects E: its form, the copy,   *)
(* and the next fetch.  Its flag comes down now, or with the fetch it      *)
(* waits for.  A copy that is patched instead of fetched may be outdated   *)
(* when its source is, or when requests for the row cross.                 *)
AnswerWith(i, E, lost) ==
  LET c == calls[i]
      form == At(c.does).form
      patches == "patch" \in E
      waits == "wait" \in E
      rest == Rest(i, IF patches THEN DOMAIN calls ELSE {})
      lowered == Raised(IF waits THEN "none" ELSE c.flag, {})
  IN  /\ ready' = Displayed(E, form)
      /\ sent' = IF "clear" \in E \/ lost THEN sent \ {form} ELSE sent
      /\ shown' = IF patches THEN Patched(c) ELSE shown
      /\ IF Refetches(E)
           THEN /\ calls' = Append(rest, Fetch(IF waits THEN c.flag ELSE "none"))
                /\ busy' = IF Is.quiet THEN lowered
                           ELSE [lowered EXCEPT !["loading"] = Everything]
           ELSE calls' = rest /\ busy' = lowered
      /\ excused' = Excused(lost \/ (patches /\ (c.crossed \/ c.rows # shown)))
      /\ UNCHANGED <<page, store, twice>>

(* The connection may break before the management plane has taken the      *)
(* request, or after.                                                      *)
AnswerChange(i) ==
  LET c == calls[i]
  IN  /\ c.does # "fetch" /\ ~c.late
      /\ \/ AnswerWith(i, Does(c.does)[IF c.taken THEN "ok" ELSE "refused"], FALSE)
         \/ AnswerWith(i, Does(c.does).failed, c.taken)

(* The answer to a page that somebody has left. *)
AnswerNobody(i) ==
  /\ calls[i].does # "fetch" /\ calls[i].late
  /\ calls' = RemoveAt(calls, i)
  /\ UNCHANGED <<page, store, shown, busy, ready, sent, twice, excused>>

-----------------------------------------------------------------------------
Answer(i) == AnswerFetch(i) \/ AnswerChange(i) \/ AnswerNobody(i)

Next ==
  \/ \E f \in Forms : FillForm(f) \/ CloseForm(f)
  \/ \E n \in Names, item \in Everything : Click(n, item)
  \/ Refresh
  \/ Leave
  \/ \E i \in DOMAIN calls : Take(i) \/ Answer(i) \/ \E t \in Is.tables : Read(i, t)
  \/ \E i \in Items : Elsewhere(i)

Spec == Init /\ [][Next]_vars

(* A request is answered some day, if only by a connection that breaks,    *)
(* and the browser runs what waits for the answer.                         *)
AnswerFirst == calls # <<>> /\ Answer(1)
FairSpec == Spec /\ WF_vars(AnswerFirst)

-----------------------------------------------------------------------------
UpdatesOf ==
  [p \in Page |-> {Nothing} \cup
    UNION {LET gives == Made[p].does[n].gives IN UNION {gives[v] : v \in DOMAIN gives} :
             n \in DOMAIN Made[p].does}]
Updates == UpdatesOf[page]

Call ==
  [does : Names \cup {"fetch"}, item : Everything, asks : Updates, taken : BOOLEAN,
   rows : [Items -> Value], got : SUBSET Is.tables, late : BOOLEAN, crossed : BOOLEAN,
   flag : Flags \cup {"none"}]

TypeOK ==
  /\ page \in Page
  /\ store \in [Items -> Value] /\ shown \in [Items -> Value]
  /\ busy \in [Flags -> SUBSET Everything]
  /\ ready \subseteq Forms /\ sent \subseteq Forms /\ twice \subseteq Forms
  /\ calls \in Seq(Call) /\ Len(calls) <= MaxCalls
  /\ excused \in BOOLEAN

(* While a request is under way whose flag disables every control that     *)
(* raises it (`disabled={actionLoading}`), the page sends no other of its  *)
(* kind: no answer of one may lower the flag under another.                *)
OneChangeAtATime ==
  \A i, j \in DOMAIN calls :
    i # j /\ calls[i].flag = calls[j].flag => ~Guarded(calls[i].flag)

(* A form that is filled in once is taken once: no double click, no late   *)
(* answer and no reopened dialog sends it again, unless an answer was lost *)
(* after the management plane had taken it.                                *)
FormIsTakenOnce == twice = {}

(* A page that waits for nothing shows what is stored, unless another      *)
(* operator has changed it, a fetch or an answer was lost, or answers      *)
(* arrived in another order than their requests.                           *)
RestedPageIsCurrent == calls = <<>> /\ ~excused => shown = store

=============================================================================
