------------------------ MODULE IncidentCorrelation ------------------------
(***************************************************************************)
(* Blocked events become incidents: correlateIncident (main.go 3615).      *)
(*                                                                         *)
(* Every blocked event looks for an open incident of its source seen       *)
(* within the last hour, and then either counts itself on that incident or *)
(* inserts a new one.  The two statements are not in a transaction and     *)
(* events are ingested concurrently.  A new incident is numbered by the    *)
(* clock, in milliseconds modulo 100000: a number that is taken makes the  *)
(* INSERT do nothing, without an error.                                    *)
(***************************************************************************)
EXTENDS Integers, FiniteSets, FiniteSetsExt

CONSTANTS
  Source,      \* client addresses
  Number,      \* values of inc_number the clock can yield
  Worker,      \* goroutines ingesting events
  Nothing,     \* no row with the number, no event
  MaxEvents,   \* bound on blocked events
  MaxFaults    \* bound on failed statements and crashes

Open == {"INVESTIGATING", "ACKNOWLEDGED"}
Status == Open \cup {"RESOLVED"}
IncidentRow == [source : Source, status : Status, count : Nat, recent : BOOLEAN]

(* The clock yields 100000 numbers. *)
BoundAssumption ==
  /\ MaxEvents \in Nat /\ MaxFaults \in Nat
  /\ IsFiniteSet(Worker) /\ IsFiniteSet(Number)
  /\ Nothing \notin IncidentRow

VARIABLES
  incidents,  \* the row with each number
  pc,         \* next statement of a worker: "idle", "count" or "insert"
  event,      \* the source of the event a worker correlates
  found,      \* the incident its query returned
  events,     \* history: blocked events of each source
  lost,       \* history: events no incident counts
  reopened,   \* history: sources an incident of which was reopened
  faults      \* how much of MaxFaults has happened

worker == <<pc, event, found>>
vars == <<incidents, worker, events, lost, reopened, faults>>

Rows == {n \in Number : incidents[n] # Nothing}
OpenRows(s) == {n \in Rows : /\ incidents[n].source = s
                             /\ incidents[n].status \in Open
                             /\ incidents[n].recent}

TypeOK ==
  /\ incidents \in [Number -> IncidentRow \cup {Nothing}]
  /\ pc \in [Worker -> {"idle", "count", "insert"}]
  /\ event \in [Worker -> Source \cup {Nothing}]
  /\ found \in [Worker -> Number \cup {Nothing}]
  /\ events \in [Source -> Nat]
  /\ lost \in [Source -> Nat]
  /\ reopened \subseteq Source
  /\ faults \in 0..MaxFaults

Init ==
  /\ incidents = [n \in Number |-> Nothing]
  /\ pc = [w \in Worker |-> "idle"]
  /\ event = [w \in Worker |-> Nothing]
  /\ found = [w \in Worker |-> Nothing]
  /\ events = [s \in Source |-> 0]
  /\ lost = [s \in Source |-> 0]
  /\ reopened = {}
  /\ faults = 0

-----------------------------------------------------------------------------
Fault == faults < MaxFaults /\ faults' = faults + 1

(* Fault: the query does not compare the source. *)
LookupAnySource(w, s) ==
  /\ pc[w] = "idle"
  /\ MapThenSumSet(LAMBDA t : events[t], Source) < MaxEvents
  /\ events' = [events EXCEPT ![s] = @ + 1]
  /\ event' = [event EXCEPT ![w] = s]
  /\ \/ \E n \in UNION {OpenRows(t) : t \in Source} :
          /\ found' = [found EXCEPT ![w] = n]
          /\ pc' = [pc EXCEPT ![w] = "count"]
     \/ /\ \A t \in Source : OpenRows(t) = {}
        /\ pc' = [pc EXCEPT ![w] = "insert"]
        /\ UNCHANGED found
  /\ UNCHANGED <<incidents, lost, reopened, faults>>

(* Fault: the query never finds the open incident. *)
LookupNothing(w, s) ==
  /\ pc[w] = "idle"
  /\ MapThenSumSet(LAMBDA t : events[t], Source) < MaxEvents
  /\ events' = [events EXCEPT ![s] = @ + 1]
  /\ event' = [event EXCEPT ![w] = s]
  /\ pc' = [pc EXCEPT ![w] = "insert"]
  /\ UNCHANGED <<incidents, found, lost, reopened, faults>>

(* ingestEvent stores the event and calls correlateIncident, whose query   *)
(* finds an open incident or none.  An error of the query is taken for     *)
(* "none".                                                                 *)
Lookup(w, s) ==
  /\ pc[w] = "idle"
  /\ MapThenSumSet(LAMBDA t : events[t], Source) < MaxEvents
  /\ events' = [events EXCEPT ![s] = @ + 1]
  /\ event' = [event EXCEPT ![w] = s]
  /\ \/ \E n \in OpenRows(s) :
          /\ found' = [found EXCEPT ![w] = n]
          /\ pc' = [pc EXCEPT ![w] = "count"]
          /\ UNCHANGED faults
     \/ /\ OpenRows(s) = {}
        /\ pc' = [pc EXCEPT ![w] = "insert"]
        /\ UNCHANGED <<found, faults>>
     \/ /\ Fault
        /\ pc' = [pc EXCEPT ![w] = "insert"]
        /\ UNCHANGED found
  /\ UNCHANGED <<incidents, lost, reopened>>

Done(w) ==
  /\ pc' = [pc EXCEPT ![w] = "idle"]
  /\ event' = [event EXCEPT ![w] = Nothing]
  /\ found' = [found EXCEPT ![w] = Nothing]
  /\ UNCHANGED <<events, reopened>>

OneMore(row) == [row EXCEPT !.count = row.count + 1, !.recent = TRUE]

(* event_count = event_count + 1, whatever became of the incident since. *)
Count(w) ==
  /\ pc[w] = "count"
  /\ incidents' = [incidents EXCEPT ![found[w]] = OneMore(@)]
  /\ Done(w)
  /\ UNCHANGED <<lost, faults>>

(* Fault: ON CONFLICT overwrites the row that has the number. *)
InsertOverwriting(w, n) ==
  /\ pc[w] = "insert"
  /\ incidents' = [incidents EXCEPT ![n] =
       [source |-> event[w], status |-> "INVESTIGATING",
        count |-> 1, recent |-> TRUE]]
  /\ Done(w)
  /\ UNCHANGED <<lost, faults>>

(* INSERT ... ON CONFLICT (inc_number) DO NOTHING *)
Insert(w, n) ==
  /\ pc[w] = "insert"
  /\ IF n \in Rows
       THEN /\ lost' = [lost EXCEPT ![event[w]] = @ + 1]
            /\ UNCHANGED incidents
       ELSE /\ incidents' = [incidents EXCEPT ![n] =
                 [source |-> event[w], status |-> "INVESTIGATING",
                  count |-> 1, recent |-> TRUE]]
            /\ UNCHANGED lost
  /\ Done(w)
  /\ UNCHANGED faults

(* The statement fails; the error is ignored or logged. *)
StatementFails(w) ==
  /\ pc[w] # "idle"
  /\ Fault
  /\ lost' = [lost EXCEPT ![event[w]] = @ + 1]
  /\ Done(w)
  /\ UNCHANGED incidents

InFlight(s) == {w \in Worker : pc[w] # "idle" /\ event[w] = s}

(* The process ends: the events that were being correlated are not counted. *)
ProcessEnds ==
  /\ Fault
  /\ pc' = [w \in Worker |-> "idle"]
  /\ event' = [w \in Worker |-> Nothing]
  /\ found' = [w \in Worker |-> Nothing]
  /\ lost' = [s \in Source |-> lost[s] + Cardinality(InFlight(s))]
  /\ UNCHANGED <<incidents, events, reopened>>

(* updateIncidentStatus: any status at any time; last_seen is refreshed. *)
SetStatus(n, status) ==
  /\ n \in Rows
  /\ incidents' = [incidents EXCEPT ![n] =
                     [@ EXCEPT !.status = status, !.recent = TRUE]]
  /\ reopened' = IF n \notin OpenRows(incidents[n].source) /\ status \in Open
                 THEN reopened \cup {incidents[n].source} ELSE reopened
  /\ UNCHANGED <<worker, events, lost, faults>>

(* An hour passes without an event on the incident. *)
Age(n) ==
  /\ n \in Rows
  /\ incidents[n].recent
  /\ incidents' = [incidents EXCEPT ![n].recent = FALSE]
  /\ UNCHANGED <<worker, events, lost, reopened, faults>>

Next ==
  \/ \E w \in Worker :
       \/ \E s \in Source : Lookup(w, s)
       \/ Count(w)
       \/ \E n \in Number : Insert(w, n)
       \/ StatementFails(w)
  \/ \E n \in Number :
       \/ \E status \in Status : SetStatus(n, status)
       \/ Age(n)
  \/ ProcessEnds

Spec == Init /\ [][Next]_vars

-----------------------------------------------------------------------------
RowsOf(s) == {n \in Rows : incidents[n].source = s}

(* What event_count of the source's rows adds up to, one pair per event. *)
Counted(s) == UNION {{n} \X (1..incidents[n].count) : n \in RowsOf(s)}

(* However events of one source interleave with one another and with       *)
(* operators, each is counted exactly once, by an incident of its source,  *)
(* unless its statement failed, its number was taken or the process ended  *)
(* before the statement.                                                   *)
EventsAccounted ==
  \A s \in Source :
    events[s] = Cardinality(Counted(s)) + lost[s] + Cardinality(InFlight(s))

(* A worker that is about to count itself does so on an incident of its    *)
(* own source.                                                             *)
CountsOwnSource ==
  \A w \in Worker : pc[w] = "count" =>
    found[w] \in Rows /\ incidents[found[w]].source = event[w]

(* A source has at most as many open recent incidents as there are workers *)
(* and failed queries, unless an operator reopened one: duplicates come    *)
(* only from overlapping events (main.go 3619).                            *)
DuplicatesBounded ==
  \A s \in Source \ reopened :
    Cardinality(OpenRows(s)) <= Cardinality(Worker) + faults
=============================================================================
