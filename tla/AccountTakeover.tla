-------------------------- MODULE AccountTakeover --------------------------
(***************************************************************************)
(* Session tokens used from several addresses: evaluateAccountTakeover     *)
(* (sequence_engine.go 179).                                               *)
(*                                                                         *)
(* A goroutine per request looks the token's window up in sessionTracker,  *)
(* makes and stores one if there is none, and then, under the window's     *)
(* mutex, adds the address and flags the token at the second one.  As in   *)
(* SequenceEngine, lookup and store are two steps, and the statement that  *)
(* should put the token into threat_indicators is rejected: the log line   *)
(* is the only trace of a flag.                                            *)
(*                                                                         *)
(* That line slices the first eight characters off the token.  A shorter   *)
(* token makes it panic, in a goroutine nobody recovers: the process ends, *)
(* and the next one starts with no window at all.                          *)
(***************************************************************************)
EXTENDS Naturals, FiniteSets

CONSTANTS
  Token,
  Short,     \* tokens of fewer than eight characters
  Address,
  Eval,      \* goroutines evaluating a request
  Nothing,   \* no window, no request
  MaxFlags   \* bound on flags of a token

BoundAssumption ==
  /\ MaxFlags \in Nat
  /\ Short \subseteq Token
  /\ Nothing \notin Eval \X Token

VARIABLES
  tracked,  \* sessionTracker
  ips,      \* IPs of every window; a goroutine makes at most one per token
  pc,       \* "idle", "store" or "add"
  use,      \* the token and the address of the request
  window,   \* the window the goroutine got
  flags,    \* flags logged for a token since the process started
  users,    \* history: addresses that were added for a token since then
  raced     \* history: tokens two of whose first uses since then overlapped

vars == <<tracked, ips, pc, use, window, flags, users, raced>>

Window == Eval \X Token
Use == [token : Token, ip : Address]

TypeOK ==
  /\ tracked \in [Token -> Window \cup {Nothing}]
  /\ ips \in [Window -> SUBSET Address]
  /\ \A x \in Window : Cardinality(ips[x]) <= 1
  /\ pc \in [Eval -> {"idle", "store", "add"}]
  /\ use \in [Eval -> Use \cup {Nothing}]
  /\ window \in [Eval -> Window \cup {Nothing}]
  /\ flags \in [Token -> 0..MaxFlags]
  /\ users \in [Token -> SUBSET Address]
  /\ raced \subseteq Token

Init ==
  /\ tracked = [t \in Token |-> Nothing]
  /\ ips = [x \in Window |-> {}]
  /\ pc = [g \in Eval |-> "idle"]
  /\ use = [g \in Eval |-> Nothing]
  /\ window = [g \in Eval |-> Nothing]
  /\ flags = [t \in Token |-> 0]
  /\ users = [t \in Token |-> {}]
  /\ raced = {}

-----------------------------------------------------------------------------
Busy(t) == {g \in Eval : pc[g] # "idle" /\ use[g].token = t}

Lookup(g, t, ip) ==
  /\ pc[g] = "idle"
  /\ flags[t] + Cardinality(Busy(t)) < MaxFlags
  /\ use' = [use EXCEPT ![g] = [token |-> t, ip |-> ip]]
  /\ window' = [window EXCEPT ![g] = tracked[t]]
  /\ pc' = [pc EXCEPT ![g] = IF tracked[t] = Nothing THEN "store" ELSE "add"]
  /\ raced' = IF tracked[t] = Nothing /\ Busy(t) # {} THEN raced \cup {t} ELSE raced
  /\ UNCHANGED <<tracked, ips, flags, users>>

StoreWindow(g) ==
  /\ pc[g] = "store"
  /\ pc' = [pc EXCEPT ![g] = "add"]
  /\ window' = [window EXCEPT ![g] = <<g, use[g].token>>]
  /\ tracked' = [tracked EXCEPT ![use[g].token] = window'[g]]
  /\ UNCHANGED <<ips, use, flags, users, raced>>

Seen(g) == ips[window[g]] \cup {use[g].ip}

Rest(g) ==
  /\ pc[g] = "add"
  /\ pc' = [pc EXCEPT ![g] = "idle"]
  /\ use' = [use EXCEPT ![g] = Nothing]
  /\ window' = [window EXCEPT ![g] = Nothing]

(* Fault: the second address is missed, the third one flags. *)
AddThreshold(g) ==
  /\ Rest(g)
  /\ users' = [users EXCEPT ![use[g].token] = @ \cup {use[g].ip}]
  /\ IF Cardinality(Seen(g)) >= 3
       THEN /\ ips' = [ips EXCEPT ![window[g]] = {}]
            /\ flags' = [flags EXCEPT ![use[g].token] = @ + 1]
       ELSE /\ ips' = [ips EXCEPT ![window[g]] = Seen(g)]
            /\ UNCHANGED flags
  /\ UNCHANGED <<tracked, raced>>

IsShared(g) == Cardinality(Seen(g)) >= 2

(* Under the window's mutex. *)
AddAddress(g) ==
  /\ Rest(g)
  /\ ~(IsShared(g) /\ use[g].token \in Short)
  /\ users' = [users EXCEPT ![use[g].token] = @ \cup {use[g].ip}]
  /\ IF IsShared(g)
       THEN /\ ips' = [ips EXCEPT ![window[g]] = {}]
            /\ flags' = [flags EXCEPT ![use[g].token] = @ + 1]
       ELSE /\ ips' = [ips EXCEPT ![window[g]] = Seen(g)]
            /\ UNCHANGED flags
  /\ UNCHANGED <<tracked, raced>>

(* token[:8] is out of range.  Everything is as it is at the start.        *)
Panic(g) ==
  /\ pc[g] = "add"
  /\ IsShared(g) /\ use[g].token \in Short
  /\ tracked' = [t \in Token |-> Nothing]
  /\ ips' = [x \in Window |-> {}]
  /\ pc' = [e \in Eval |-> "idle"]
  /\ use' = [e \in Eval |-> Nothing]
  /\ window' = [e \in Eval |-> Nothing]
  /\ flags' = [t \in Token |-> 0]
  /\ users' = [t \in Token |-> {}]
  /\ raced' = {}

Next ==
  \E g \in Eval :
    \/ \E t \in Token, ip \in Address : Lookup(g, t, ip)
    \/ StoreWindow(g)
    \/ AddAddress(g)
    \/ Panic(g)

Spec == Init /\ [][Next]_vars

-----------------------------------------------------------------------------
(* However goroutines interleave, only a token that two addresses used is  *)
(* flagged: windows of different tokens never mix.  A token of fewer than  *)
(* eight characters is not flagged at all.                                 *)
FlaggedTokenIsShared ==
  \A t \in Token :
    /\ flags[t] > 0 => Cardinality(users[t]) >= 2 /\ t \notin Short
    /\ \A g \in Eval : ips[<<g, t>>] \subseteq users[t]

(* "If 2 unique IPs hit this token within the timeframe ... block token"   *)
(* (sequence_engine.go 207): at rest a token that two addresses used since *)
(* the process started has been flagged, unless two of its first uses      *)
(* overlapped and each stored a window.  Of a short token no two addresses *)
(* are ever at rest: the second one ends the process.                      *)
SharedTokenIsFlagged ==
  \A t \in Token \ raced :
    Busy(t) = {} /\ Cardinality(users[t]) >= 2 => flags[t] > 0
=============================================================================
