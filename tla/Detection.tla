------------------------------ MODULE Detection ------------------------------
(***************************************************************************)
(* The path from a request to a worked incident: request windows, session  *)
(* windows, correlation and response.                                      *)
(*                                                                         *)
(* In the code the four parts hand work to one another only by values that *)
(* the receiving part takes as they come (an address, an incident id): no  *)
(* part reads or writes the state of another.  A step of one part leaves   *)
(* the properties of the others alone, and so it is enough to run each of  *)
(* them against all behaviours of its own: focus says which one moves.     *)
(* The end of the process, which a panic of one part brings about, is a    *)
(* step of every part.                                                     *)
(***************************************************************************)
EXTENDS Naturals, FiniteSets

CONSTANTS
  Goroutine,  \* serve requests in every part
  Address,    \* of clients
  Nothing, MaxFaults,
  Client, Request, WindowSize, MinLength, Limit, IdorLimit, ScrapeLimit,
  MaxRequests,
  Token, Short, MaxFlags,
  Number, MaxEvents,
  Incident, MaxTransitions

VARIABLES
  focus,
  clientWindow, requests, unjudged, ingestAt, ingestEntry, ingestWindow,
  indicators, received, violations, racedClients,
  tokenWindow, ips, evalAt, evalUse, evalWindow, flags, users, racedTokens,
  incidents, workerAt, event, found, events, lost, reopened, failures,
  status, resolvedAt, log, blocked, handlerAt, target, from, to, was,
  unrecorded, spared, overlapped, faults

Windows ==
  INSTANCE SequenceEngine WITH
    Ingest <- Goroutine, tracked <- clientWindow, windows <- requests, pc <- ingestAt,
    entry <- ingestEntry, window <- ingestWindow, raced <- racedClients

Sessions ==
  INSTANCE AccountTakeover WITH
    Eval <- Goroutine, tracked <- tokenWindow, pc <- evalAt, use <- evalUse,
    window <- evalWindow, raced <- racedTokens

Correlation ==
  INSTANCE IncidentCorrelation WITH
    Worker <- Goroutine, Source <- Address, pc <- workerAt, faults <- failures

Response ==
  INSTANCE IncidentResponse WITH Handler <- Goroutine, pc <- handlerAt

ASSUME WindowAssumption == Windows!SizeAssumption
ASSUME SessionAssumption == Sessions!BoundAssumption
ASSUME CorrelationAssumption == Correlation!BoundAssumption
ASSUME ResponseAssumption == Response!BoundAssumption

windowVars == <<clientWindow, requests, unjudged, ingestAt, ingestEntry,
                ingestWindow, indicators, received, violations, racedClients>>
sessionVars == <<tokenWindow, ips, evalAt, evalUse, evalWindow, flags, users,
                 racedTokens>>
correlationVars == <<incidents, workerAt, event, found, events, lost, reopened,
                     failures>>
responseVars == <<status, resolvedAt, log, blocked, handlerAt, target, from, to,
                  was, unrecorded, spared, overlapped, faults>>
vars == <<focus, windowVars, sessionVars, correlationVars, responseVars>>

Init ==
  /\ focus \in {"windows", "sessions", "correlation", "response"}
  /\ Windows!Init /\ Sessions!Init /\ Correlation!Init /\ Response!Init

Next ==
  /\ UNCHANGED focus
  /\ \/ /\ focus = "windows"
        /\ Windows!Next
        /\ UNCHANGED <<sessionVars, correlationVars, responseVars>>
     \/ /\ focus = "sessions"
        /\ Sessions!Next
        /\ UNCHANGED <<windowVars, correlationVars, responseVars>>
     \/ /\ focus = "correlation"
        /\ Correlation!Next
        /\ UNCHANGED <<windowVars, sessionVars, responseVars>>
     \/ /\ focus = "response"
        /\ Response!Next
        /\ UNCHANGED <<windowVars, sessionVars, correlationVars>>

Spec == Init /\ [][Next]_vars

-----------------------------------------------------------------------------
(* The variables of all parts have their types. *)
TypeOK ==
  Windows!TypeOK /\ Sessions!TypeOK /\ Correlation!TypeOK /\ Response!TypeOK

(* No request counts for two violations (sequence_engine.go 130-175). *)
ViolationsAreEarned == Windows!ViolationsAreEarned

(* A window whose evaluations are over shows no suspicious sequence; one   *)
(* that later requests hid first is not reported (sequence_engine.go       *)
(* 46-176).                                                                *)
SettledWindowsAreClean == Windows!SettledWindowsAreClean

(* A client whose first requests did not overlap has one window            *)
(* (sequence_engine.go 34-44).                                             *)
OneWindowPerClient == Windows!OneWindowPerClient

(* A client with a violation is among the threat indicators                *)
(* (sequence_engine.go 251).                                               *)
ViolatorIsIndicated == Windows!ViolatorIsIndicated

(* A token is flagged only if it is used from two addresses, and then      *)
(* always, unless its first uses overlapped or, for a token of fewer than  *)
(* eight characters, the process ended (sequence_engine.go 179-228).       *)
SharedTokensAreFlagged == Sessions!FlaggedTokenIsShared /\ Sessions!SharedTokenIsFlagged

(* Each blocked event is counted once by an incident of its source, or its *)
(* statement failed or its number was taken, or the process ended first    *)
(* (main.go 3615-3647).                                                    *)
EventsAccounted == Correlation!EventsAccounted

(* A worker counts its event on an incident of its own source (main.go     *)
(* 3627).                                                                  *)
CountsOwnSource == Correlation!CountsOwnSource

(* Duplicate incidents of a source come only from overlapping events,      *)
(* failed queries and reopening (main.go 3619).                            *)
DuplicatesBounded == Correlation!DuplicatesBounded

(* The audit trail names only statuses the incident had, and its entries   *)
(* link up where transitions did not overlap (risk_posture_engine.go 461). *)
TrailIsSound == Response!TrailIsTrue /\ Response!TrailIsChain

(* RESOLVED has a time, CONTAINED a blocked attacker                       *)
(* (risk_posture_engine.go 445-475).                                       *)
StatusHasEffect == Response!StatusHasEffect
=============================================================================
