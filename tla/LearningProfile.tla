-------------------------- MODULE LearningProfile --------------------------
(***************************************************************************)
(* Learning what an application's traffic looks like, and turning it into  *)
(* a policy (learning_positive_engine.go).                                 *)
(*                                                                         *)
(* An observation reads the profile, merges what it saw and writes the     *)
(* merged profile back; only the request counter is incremented by the     *)
(* database.  Generating a policy reads the profile, inserts a policy and  *)
(* sets the profile's status; approving updates the pending policies and   *)
(* then the profile.  No transaction spans the statements of a request,    *)
(* and most of their errors are dropped.                                   *)
(*                                                                         *)
(* Methods, content types, sensitive paths and parameters are sets, merged *)
(* the same way: the model calls each value a feature.  Of the sizes of    *)
(* bodies the largest is kept, and a policy allows twice that or Floor.    *)
(* Both are columns of type INT: a statement with a larger number fails.   *)
(* The controls of a policy are read off its sets and are left out.  The   *)
(* application is any but rms-core, whose profile is seeded.               *)
(***************************************************************************)
EXTENDS Naturals, FiniteSets

CONSTANTS
  Feature,      \* what an observation can show
  Size,         \* sizes of bodies, in bytes
  Floor,        \* the least limit a policy sets: 10240 in the code
  MaxInt,       \* the largest INT: 2^31 - 1
  Handler,      \* requests that can be in progress at once
  MaxRequests,  \* bound on observations and generated policies
  MaxFaults     \* bound on failed statements

BoundAssumption ==
  /\ {Floor, MaxInt, MaxRequests, MaxFaults} \subseteq Nat
  /\ Size \subseteq Nat
  /\ IsFiniteSet(Handler)

VARIABLES
  status,    \* of the profile; NONE: no such row
  seen,      \* features of the profile and max_body_bytes_seen
  total,     \* total_requests_seen
  policies,  \* suggested policies
  pc,        \* next statement: "idle", "merge", "insert", "ready", "enforce"
  known,     \* what a request has read of the profile
  shown,     \* the observation it brings
  observed,  \* history: the observations that were written, taken together
  begun,     \* observations and generations so far
  overlapped, \* history: two requests were in progress at once
  faults     \* how much of MaxFaults has happened

profile == <<status, seen, total>>
request == <<pc, known, shown>>
vars == <<profile, policies, request, observed, begun, overlapped, faults>>

Observation == [features : SUBSET Feature, size : Size]
Learnt == [features : SUBSET Feature, size : 0..MaxInt]
Blank == [features |-> {}, size |-> 0]

Policy == [id : 1..MaxRequests, features : SUBSET Feature, limit : 0..MaxInt,
           status : {"PENDING_REVIEW", "ENFORCED"}]

TypeOK ==
  /\ status \in {"NONE", "LEARNING", "READY_FOR_REVIEW", "ENFORCED"}
  /\ seen \in Learnt
  /\ total \in 0..MaxRequests
  /\ policies \subseteq Policy
  /\ pc \in [Handler -> {"idle", "merge", "insert", "ready", "enforce"}]
  /\ known \in [Handler -> Learnt]
  /\ shown \in [Handler -> Observation \cup {Blank}]
  /\ observed \in Learnt
  /\ begun \in 0..MaxRequests
  /\ overlapped \in BOOLEAN
  /\ faults \in 0..MaxFaults

Init ==
  /\ status = "NONE"
  /\ seen = Blank
  /\ total = 0
  /\ policies = {}
  /\ pc = [h \in Handler |-> "idle"]
  /\ known = [h \in Handler |-> Blank]
  /\ shown = [h \in Handler |-> Blank]
  /\ observed = Blank
  /\ begun = 0
  /\ overlapped = FALSE
  /\ faults = 0

-----------------------------------------------------------------------------
Join(a, b) == [features |-> a.features \cup b.features,
               size |-> IF a.size < b.size THEN b.size ELSE a.size]

Within(a, b) == a.features \subseteq b.features /\ a.size <= b.size

LimitFor(size) == IF 2 * size < Floor THEN Floor ELSE 2 * size

(* startLearningHandler: one upsert, which keeps what was learnt.          *)
StartLearning ==
  /\ status' = "LEARNING"
  /\ UNCHANGED <<seen, total, policies, request, observed, begun, overlapped, faults>>

Begin(h, stmt, observation) ==
  /\ pc[h] = "idle"
  /\ begun < MaxRequests
  /\ begun' = begun + 1
  /\ status # "NONE"
  /\ pc' = [pc EXCEPT ![h] = stmt]
  /\ known' = [known EXCEPT ![h] = seen]
  /\ shown' = [shown EXCEPT ![h] = observation]
  /\ overlapped' = (overlapped \/ \E g \in Handler : pc[g] # "idle")
  /\ UNCHANGED <<profile, policies, observed, faults>>

(* ingestObservationHandler reads the profile whatever its status.         *)
Observe(h, observation) == Begin(h, "merge", observation)

(* generateSuggestedPolicyHandler reads it, too. *)
Generate(h) == Begin(h, "insert", Blank)

Goto(h, stmt) ==
  /\ pc' = [pc EXCEPT ![h] = stmt]
  /\ known' = [known EXCEPT ![h] = IF stmt = "idle" THEN Blank ELSE @]
  /\ shown' = [shown EXCEPT ![h] = IF stmt = "idle" THEN Blank ELSE @]

Fault == faults < MaxFaults /\ faults' = faults + 1

MergedFits(h) == Join(known[h], shown[h]).size <= MaxInt

(* Fault: the observation replaces what was learnt. *)
MergeReplacing(h) ==
  /\ pc[h] = "merge"
  /\ MergedFits(h)
  /\ seen' = shown[h]
  /\ total' = total + 1
  /\ observed' = Join(observed, shown[h])
  /\ Goto(h, "idle")
  /\ UNCHANGED <<status, policies, begun, overlapped, faults>>

(* The profile is overwritten with what was read plus what was shown. *)
Merge(h) ==
  /\ pc[h] = "merge"
  /\ MergedFits(h)
  /\ seen' = Join(known[h], shown[h])
  /\ total' = total + 1
  /\ observed' = Join(observed, shown[h])
  /\ Goto(h, "idle")
  /\ UNCHANGED <<status, policies, begun, overlapped, faults>>

(* The error of the write is dropped and the request answered OBSERVED. *)
MergeFails(h) ==
  /\ pc[h] = "merge"
  /\ IF MergedFits(h) THEN Fault ELSE UNCHANGED faults
  /\ Goto(h, "idle")
  /\ UNCHANGED <<profile, policies, observed, begun, overlapped>>

NextId == Cardinality(policies) + 1
LimitFits(h) == LimitFor(known[h].size) <= MaxInt
Suggested(features, limit) ==
  [id |-> NextId, features |-> features, limit |-> limit, status |-> "PENDING_REVIEW"]

(* Fault: the policy allows every feature. *)
InsertEverything(h) ==
  /\ pc[h] = "insert"
  /\ LimitFits(h)
  /\ policies' = policies \cup {Suggested(Feature, LimitFor(known[h].size))}
  /\ Goto(h, "ready")
  /\ UNCHANGED <<profile, observed, begun, overlapped, faults>>

InsertPolicy(h) ==
  /\ pc[h] = "insert"
  /\ LimitFits(h)
  /\ policies' = policies \cup {Suggested(known[h].features, LimitFor(known[h].size))}
  /\ Goto(h, "ready")
  /\ UNCHANGED <<profile, observed, begun, overlapped, faults>>

(* The error is dropped; the policy is shown to the client nevertheless. *)
InsertFails(h) ==
  /\ pc[h] = "insert"
  /\ IF LimitFits(h) THEN Fault ELSE UNCHANGED faults
  /\ Goto(h, "ready")
  /\ UNCHANGED <<profile, policies, observed, begun, overlapped>>

SetReady(h) ==
  /\ pc[h] = "ready"
  /\ status' = "READY_FOR_REVIEW"
  /\ Goto(h, "idle")
  /\ UNCHANGED <<seen, total, policies, observed, begun, overlapped, faults>>

(* Fault: every policy is enforced as it is now learnt. *)
ApproveRelearnt(h) ==
  /\ pc[h] = "idle"
  /\ policies' = {[p EXCEPT !.status = "ENFORCED", !.features = seen.features] : p \in policies}
  /\ Goto(h, "enforce")
  /\ UNCHANGED <<profile, observed, begun, overlapped, faults>>

(* approveSuggestedPolicyHandler, first statement: every pending policy.   *)
(* It does not matter that there may be none.                              *)
Approve(h) ==
  /\ pc[h] = "idle"
  /\ policies' = {[p EXCEPT !.status = "ENFORCED"] : p \in policies}
  /\ Goto(h, "enforce")
  /\ UNCHANGED <<profile, observed, begun, overlapped, faults>>

SetEnforced(h) ==
  /\ pc[h] = "enforce"
  /\ status' = IF status = "NONE" THEN "NONE" ELSE "ENFORCED"
  /\ Goto(h, "idle")
  /\ UNCHANGED <<seen, total, policies, observed, begun, overlapped, faults>>

(* The error of either status update is dropped. *)
SetStatusFails(h) ==
  /\ pc[h] \in {"ready", "enforce"}
  /\ Fault
  /\ Goto(h, "idle")
  /\ UNCHANGED <<profile, policies, observed, begun, overlapped>>

Next ==
  \/ StartLearning
  \/ \E h \in Handler :
       \/ \E observation \in Observation : Observe(h, observation)
       \/ Generate(h) \/ Approve(h)
       \/ Merge(h) \/ InsertPolicy(h) \/ SetReady(h) \/ SetEnforced(h)
       \/ MergeFails(h) \/ InsertFails(h) \/ SetStatusFails(h)

Spec == Init /\ [][Next]_vars

-----------------------------------------------------------------------------
(* However observations overwrite one another, the profile holds only what *)
(* was really observed, and a policy made from it names only what was      *)
(* observed and sets a limit of Floor or of twice a body that was observed *)
(* at most.                                                                *)
OnlyObservedIsAllowed ==
  /\ Within(seen, observed)
  /\ \A h \in Handler : Within(known[h], observed)
  /\ \A p \in policies :
       p.features \subseteq observed.features /\ p.limit <= LimitFor(observed.size)

(* A policy is enforced as it was reviewed: what it allows never changes,  *)
(* and an enforced policy is not pending again.                            *)
PoliciesAreFixed ==
  [][\A p \in policies : \E q \in policies' :
       /\ q.id = p.id
       /\ q.features = p.features /\ q.limit = p.limit
       /\ p.status = "ENFORCED" => q.status = "ENFORCED"]_vars

(* "Traffic event successfully ingested into Learning Model"               *)
(* (learning_positive_engine.go 319): what was written stays in the        *)
(* profile, until requests overlap and one overwrites another.             *)
ObservationsAreKept == ~overlapped => Within(observed, seen)
=============================================================================
