--------------------------- MODULE SequenceEngine ---------------------------
(***************************************************************************)
(* Sliding windows of requests per client and the sequences that give an   *)
(* attack away (sequence_engine.go).                                       *)
(*                                                                         *)
(* Every access log entry is served by a goroutine of its own.  It looks   *)
(* the client's window up in a sync.Map, makes and stores one if there is  *)
(* none, appends the request under the window's mutex and starts another   *)
(* goroutine to evaluate the window.  Lookup and store are two steps.  An  *)
(* evaluation holds the mutex to its end.  Windows are memory: they are    *)
(* gone when the process ends.  Of a request the model keeps the path and, *)
(* for paths that end in a number, the number.                             *)
(***************************************************************************)
EXTENDS Naturals, Sequences, FiniteSets, SequencesExt

CONSTANTS
  Client,       \* addresses
  Request,      \* access log entries: [path, id]
  Ingest,       \* goroutines serving /api/v1/telemetry/access
  Nothing,      \* no window, no entry
  WindowSize,   \* requests a window keeps: 15 in the code
  MinLength,    \* requests an evaluation needs: 3
  Limit,        \* path -> occurrences that trigger: login 5, voucher and
                \* register 3
  IdorLimit,    \* neighbouring ids that trigger: 5
  ScrapeLimit,  \* products fetched that trigger: 10
  MaxRequests   \* bound on requests of a client

SizeAssumption ==
  /\ {WindowSize, IdorLimit, ScrapeLimit, MaxRequests} \subseteq Nat
  /\ MinLength \in Nat \ {0}
  /\ \A path \in DOMAIN Limit : Limit[path] \in Nat
  /\ Nothing \notin Ingest \X Client

VARIABLES
  tracked,     \* sequenceTracker
  windows,     \* Requests of every window; a goroutine makes at most one per client
  unjudged,    \* evaluations started and not finished, per window
  pc,          \* next step of an ingest: "idle", "store" or "append"
  entry,       \* the entry it serves
  window,      \* the window it got
  indicators,  \* clients in threat_indicators
  received,    \* history: requests appended for a client
  violations,  \* history: violations triggered for a client
  raced        \* history: clients two of whose first requests since the
               \* start of the process overlapped

ingest == <<pc, entry, window>>
vars == <<tracked, windows, unjudged, ingest, indicators, received, violations, raced>>

Window == Ingest \X Client
Entry == [client : Client, request : Request]

TypeOK ==
  /\ tracked \in [Client -> Window \cup {Nothing}]
  /\ windows \in [Window -> Seq(Request)]
  /\ \A x \in Window : Len(windows[x]) <= WindowSize
  /\ unjudged \in [Window -> Nat]
  /\ pc \in [Ingest -> {"idle", "store", "append"}]
  /\ entry \in [Ingest -> Entry \cup {Nothing}]
  /\ window \in [Ingest -> Window \cup {Nothing}]
  /\ indicators \subseteq Client
  /\ received \in [Client -> Nat]
  /\ violations \in [Client -> Nat]
  /\ raced \subseteq Client

Init ==
  /\ tracked = [c \in Client |-> Nothing]
  /\ windows = [x \in Window |-> <<>>]
  /\ unjudged = [x \in Window |-> 0]
  /\ pc = [g \in Ingest |-> "idle"]
  /\ entry = [g \in Ingest |-> Nothing]
  /\ window = [g \in Ingest |-> Nothing]
  /\ indicators = {}
  /\ received = [c \in Client |-> 0]
  /\ violations = [c \in Client |-> 0]
  /\ raced = {}

-----------------------------------------------------------------------------
(* What an evaluation looks for.                                           *)

Occurrences(path, reqs) == Len(SelectSeq(reqs, LAMBDA r : r.path = path))

Numbered(reqs) == SelectSeq(reqs, LAMBDA r : r.path \in {"product", "order"})
Products(reqs) == SelectSeq(reqs, LAMBDA r : r.path = "product")

NeighbouringIds(reqs) ==
  LET hits == Numbered(reqs)
  IN Cardinality({n \in 2..Len(hits) : /\ hits[n].path = hits[n - 1].path
                                       /\ hits[n].id # hits[n - 1].id})

ProductsFetched(reqs) ==
  LET hits == Products(reqs)
  IN Cardinality({n \in 1..Len(hits) : n = 1 \/ hits[n].id # hits[n - 1].id})

CartSkipped(reqs) ==
  /\ reqs # <<>>
  /\ Last(reqs).path = "checkout"
  /\ Occurrences("cart", reqs) = 0

(* The triggers that do not depend on time.  They differ in the reason     *)
(* they give and in nothing that follows.                                  *)
Suspicious(reqs) ==
  /\ Len(reqs) >= MinLength
  /\ \/ NeighbouringIds(reqs) >= IdorLimit
     \/ \E path \in DOMAIN Limit : Occurrences(path, reqs) >= Limit[path]
     \/ CartSkipped(reqs)
     \/ ProductsFetched(reqs) >= ScrapeLimit

(* The bot score falls to 40 only in a full window less than 5 s long.     *)
MayBeFast(reqs) == Len(reqs) >= MinLength /\ Len(reqs) = WindowSize

-----------------------------------------------------------------------------
Serving(c) == {g \in Ingest : pc[g] # "idle" /\ entry[g].client = c}

(* Fault: the map is not asked, every request makes a window. *)
ReceiveForgetting(g, c, r) ==
  /\ pc[g] = "idle"
  /\ received[c] + Cardinality(Serving(c)) < MaxRequests
  /\ entry' = [entry EXCEPT ![g] = [client |-> c, request |-> r]]
  /\ pc' = [pc EXCEPT ![g] = "store"]
  /\ raced' = IF tracked[c] = Nothing /\ Serving(c) # {} THEN raced \cup {c} ELSE raced
  /\ UNCHANGED <<window, tracked, windows, unjudged, indicators, received, violations>>

Receive(g, c, r) ==
  /\ pc[g] = "idle"
  /\ received[c] + Cardinality(Serving(c)) < MaxRequests
  /\ entry' = [entry EXCEPT ![g] = [client |-> c, request |-> r]]
  /\ window' = [window EXCEPT ![g] = tracked[c]]
  /\ pc' = [pc EXCEPT ![g] = IF tracked[c] = Nothing THEN "store" ELSE "append"]
  /\ raced' = IF tracked[c] = Nothing /\ Serving(c) # {} THEN raced \cup {c} ELSE raced
  /\ UNCHANGED <<tracked, windows, unjudged, indicators, received, violations>>

(* getSequenceWindow stores the window it made, whatever the map holds by  *)
(* now.                                                                    *)
StoreWindow(g) ==
  /\ pc[g] = "store"
  /\ pc' = [pc EXCEPT ![g] = "append"]
  /\ window' = [window EXCEPT ![g] = <<g, entry[g].client>>]
  /\ tracked' = [tracked EXCEPT ![entry[g].client] = window'[g]]
  /\ UNCHANGED <<windows, unjudged, entry, indicators, received, violations, raced>>

Rest(g) ==
  /\ pc[g] = "append"
  /\ pc' = [pc EXCEPT ![g] = "idle"]
  /\ entry' = [entry EXCEPT ![g] = Nothing]
  /\ window' = [window EXCEPT ![g] = Nothing]

Slide(reqs) == IF Len(reqs) > WindowSize THEN Tail(reqs) ELSE reqs

(* Fault: the window is evaluated only when it is full. *)
AppendJudgingFull(g) ==
  /\ Rest(g)
  /\ windows' = [windows EXCEPT ![window[g]] = Slide(Append(@, entry[g].request))]
  /\ unjudged' = [unjudged EXCEPT ![window[g]] =
       IF Len(windows'[window[g]]) = WindowSize THEN @ + 1 ELSE @]
  /\ received' = [received EXCEPT ![entry[g].client] = @ + 1]
  /\ UNCHANGED <<tracked, indicators, violations, raced>>

(* Under the window's mutex; then "go evaluateSequenceAnomalies". *)
AppendRequest(g) ==
  /\ Rest(g)
  /\ windows' = [windows EXCEPT ![window[g]] = Slide(Append(@, entry[g].request))]
  /\ unjudged' = [unjudged EXCEPT ![window[g]] = @ + 1]
  /\ received' = [received EXCEPT ![entry[g].client] = @ + 1]
  /\ UNCHANGED <<tracked, indicators, violations, raced>>

(* Fault: the window is kept after a violation. *)
EvaluateKeeping(x, fast) ==
  /\ unjudged[x] > 0
  /\ unjudged' = [unjudged EXCEPT ![x] = @ - 1]
  /\ IF Suspicious(windows[x]) \/ (fast /\ MayBeFast(windows[x]))
       THEN violations' = [violations EXCEPT ![x[2]] = @ + 1]
       ELSE UNCHANGED violations
  /\ UNCHANGED <<windows, tracked, ingest, indicators, received, raced>>

(* One evaluation.  triggerSequenceViolation's statement assigns           *)
(* updated_at, a column threat_indicators does not have, so the database   *)
(* rejects it: no indicator, no incident, no sync.  The window is reset    *)
(* nevertheless.                                                           *)
Evaluate(x, fast) ==
  /\ unjudged[x] > 0
  /\ unjudged' = [unjudged EXCEPT ![x] = @ - 1]
  /\ IF Suspicious(windows[x]) \/ (fast /\ MayBeFast(windows[x]))
       THEN /\ windows' = [windows EXCEPT ![x] = <<>>]
            /\ violations' = [violations EXCEPT ![x[2]] = @ + 1]
       ELSE UNCHANGED <<windows, violations>>
  /\ UNCHANGED <<tracked, ingest, indicators, received, raced>>

(* The process ends, for instance by the panic of AccountTakeover, and is  *)
(* started again: the windows, the entries being served and the            *)
(* evaluations yet to run are lost.                                        *)
ProcessEnds ==
  /\ tracked' = [c \in Client |-> Nothing]
  /\ windows' = [x \in Window |-> <<>>]
  /\ unjudged' = [x \in Window |-> 0]
  /\ pc' = [g \in Ingest |-> "idle"]
  /\ entry' = [g \in Ingest |-> Nothing]
  /\ window' = [g \in Ingest |-> Nothing]
  /\ raced' = {}
  /\ UNCHANGED <<indicators, received, violations>>

-----------------------------------------------------------------------------
Continue(g) == StoreWindow(g) \/ AppendRequest(g)
Judge(x) == \E fast \in BOOLEAN : Evaluate(x, fast)

Next ==
  \/ \E g \in Ingest :
       \/ \E c \in Client, r \in Request : Receive(g, c, r)
       \/ Continue(g)
  \/ \E x \in Window : Judge(x)
  \/ ProcessEnds

Spec == Init /\ [][Next]_vars

-----------------------------------------------------------------------------
(* The places of a client's windows that hold a request. *)
Held(c) == {place \in Ingest \X (1..WindowSize) :
              place[2] \in DOMAIN windows[<<place[1], c>>]}

(* Ingests and evaluations interleave freely, yet no request counts for    *)
(* two violations: each violation of a client used up at least MinLength   *)
(* of its requests (window.Requests = nil, sequence_engine.go 130-175).    *)
ViolationsAreEarned ==
  \A c \in Client :
    MinLength * violations[c] + Cardinality(Held(c)) <= received[c]

(* Every append is followed by an evaluation of what the window then       *)
(* holds: a window with no evaluation outstanding shows no suspicious      *)
(* sequence.  It does not say that each suspicious sequence is reported:   *)
(* an evaluation runs after the append that started it, and requests that  *)
(* come in between may hide the sequence (/checkout is no longer last) or  *)
(* slide it out of the window, unjudged.                                   *)
SettledWindowsAreClean ==
  \A x \in Window : unjudged[x] = 0 => ~Suspicious(windows[x])

(* "Keep sliding window of last 15 requests" (sequence_engine.go 273): all *)
(* requests of a client are in the window the map has for it, unless two   *)
(* of its first requests overlapped and each stored a window.              *)
OneWindowPerClient ==
  \A g \in Ingest, c \in Client \ raced :
    windows[<<g, c>>] # <<>> => tracked[c] = <<g, c>>

(* "Trigger sync so Envoy immediately bans the IP" (sequence_engine.go     *)
(* 251): a client with a violation is among the indicators.                *)
ViolatorIsIndicated == \A c \in Client : violations[c] > 0 => c \in indicators
=============================================================================
