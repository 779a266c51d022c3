--------------------------- MODULE ControlPlaneHA ---------------------------
(***************************************************************************)
(* Leader election of the management plane (control_plane_ha.go).          *)
(*                                                                         *)
(* Every process owns a row of control_plane_instances and runs a loop     *)
(* on a 4 second ticker: refresh its heartbeat, mark silent rows OFFLINE,  *)
(* look for a leader whose lease is valid, and claim or renew the lease.   *)
(* Each of these is a statement of its own, no transaction spans them, and *)
(* their errors are ignored.  An operator drains instances and makes the   *)
(* leader step down.  Two seeded rows stand for replicas that no process   *)
(* runs.                                                                   *)
(*                                                                         *)
(* Time is counted in ticker periods and kept as ages: how long a lease    *)
(* still runs and how long a row has been silent.                          *)
(***************************************************************************)
EXTENDS Naturals, FiniteSets

CONSTANTS
  Process,     \* instance ids of processes, one per start of the binary
  Replica,     \* seeded rows: nothing runs behind them
  Timely,      \* processes whose loop keeps up with the ticker
  NoInstance,  \* "" in the code
  LeaseTicks,  \* 12 seconds: 3 periods
  StaleTicks,  \* 20 seconds: 5 periods
  MaxUpsets    \* bound on crashes, failed statements and operator requests

ASSUME InstanceAssumption ==
  /\ Process \cap Replica = {}
  /\ Timely \subseteq Process
  /\ NoInstance \notin Process \cup Replica
ASSUME TimeAssumption ==
  LeaseTicks \in Nat \ {0} /\ StaleTicks \in Nat /\ MaxUpsets \in Nat

Instance == Process \cup Replica

VARIABLES
  known,      \* rows that exist
  isLeader,   \* column is_leader
  lease,      \* periods until lease_expires_at; 0 is expired or NULL
  status,     \* column status
  silence,    \* periods since last_heartbeat, counted up to StaleTicks + 1
  running,    \* processes that are up
  pc,         \* next statement of a process's loop
  due,        \* a tick waits in the process's ticker channel
  admin,      \* next statement of the step-down request: "none" if there is none
  former,     \* the leader the step-down request found
  upsets      \* how much of MaxUpsets has happened

rows == <<known, isLeader, lease, status, silence>>
loop == <<running, pc, due>>
request == <<admin, former>>
vars == <<rows, loop, request, upsets>>

TypeOK ==
  /\ known \subseteq Instance
  /\ isLeader \in [Instance -> BOOLEAN]
  /\ lease \in [Instance -> 0..LeaseTicks]
  /\ status \in [Instance -> {"ACTIVE", "DRAINING", "OFFLINE"}]
  /\ silence \in [Instance -> 0..StaleTicks + 1]
  /\ running \subseteq Process
  /\ pc \in [Process -> {"register", "wait", "stale", "elect", "claim", "renew"}]
  /\ due \in [Process -> BOOLEAN]
  /\ admin \in {"none", "clear", "promote"}
  /\ former \in Instance \cup {NoInstance}
  /\ upsets \in Nat

Init ==
  /\ known = {}
  /\ isLeader = [i \in Instance |-> FALSE]
  /\ lease = [i \in Instance |-> 0]
  /\ status = [i \in Instance |-> "OFFLINE"]
  /\ silence = [i \in Instance |-> 0]
  /\ running = {}
  /\ pc = [p \in Process |-> "wait"]
  /\ due = [p \in Process |-> FALSE]
  /\ admin = "none"
  /\ former = NoInstance
  /\ upsets = 0

-----------------------------------------------------------------------------
(* The row the election query accepts. *)
HoldsLease(i) ==
  i \in known /\ isLeader[i] /\ lease[i] > 0 /\ status[i] = "ACTIVE"

(* INSERT ... ON CONFLICT DO UPDATE: is_leader and the lease are kept. *)
Upsert(ids) ==
  /\ known' = known \cup ids
  /\ status' = [i \in Instance |-> IF i \in ids THEN "ACTIVE" ELSE status[i]]
  /\ silence' = [i \in Instance |-> IF i \in ids THEN 0 ELSE silence[i]]
  /\ UNCHANGED <<isLeader, lease>>

(* initControlPlaneHASchema refreshes the seeded rows and starts the loop. *)
Boot(p) ==
  /\ p \notin running
  /\ running' = running \cup {p}
  /\ Upsert(Replica)
  /\ pc' = [pc EXCEPT ![p] = "register"]
  /\ due' = [due EXCEPT ![p] = FALSE]
  /\ UNCHANGED <<request, upsets>>

At(p, stmt, then) ==
  /\ p \in running
  /\ pc[p] = stmt
  /\ pc' = [pc EXCEPT ![p] = then]
  /\ UNCHANGED <<running, request, upsets>>

Register(p) ==
  /\ At(p, "register", "wait")
  /\ Upsert({p})
  /\ UNCHANGED due

Heartbeat(p) ==
  /\ due[p]
  /\ At(p, "wait", "stale")
  /\ due' = [due EXCEPT ![p] = FALSE]
  /\ silence' = [silence EXCEPT ![p] =
       IF p \in known /\ status[p] # "DRAINING" THEN 0 ELSE @]
  /\ UNCHANGED <<known, isLeader, lease, status>>

Stale(i) ==
  i \in known /\ silence[i] > StaleTicks /\ status[i] = "ACTIVE"

MarkStale(p) ==
  /\ At(p, "stale", "elect")
  /\ status' = [i \in Instance |-> IF Stale(i) THEN "OFFLINE" ELSE status[i]]
  /\ isLeader' = [i \in Instance |-> isLeader[i] /\ ~Stale(i)]
  /\ UNCHANGED <<known, lease, silence, due>>

(* QueryRow returns any one of the rows that hold a lease. *)
Elect(p) ==
  /\ \/ /\ \A i \in Instance : ~HoldsLease(i)
        /\ At(p, "elect", "claim")
     \/ HoldsLease(p) /\ At(p, "elect", "renew")
     \/ /\ \E i \in Instance \ {p} : HoldsLease(i)
        /\ At(p, "elect", "wait")
  /\ UNCHANGED <<rows, due>>

(* Fault: the claim does not look at the status of the row. *)
ClaimAnyStatus(p) ==
  /\ At(p, "claim", "wait")
  /\ IF p \in known
       THEN /\ isLeader' = [isLeader EXCEPT ![p] = TRUE]
            /\ lease' = [lease EXCEPT ![p] = LeaseTicks]
       ELSE UNCHANGED <<isLeader, lease>>
  /\ UNCHANGED <<known, status, silence, due>>

(* Fault: the claim grants one period too many. *)
ClaimTooLong(p) ==
  /\ At(p, "claim", "wait")
  /\ IF p \in known /\ status[p] = "ACTIVE"
       THEN /\ isLeader' = [isLeader EXCEPT ![p] = TRUE]
            /\ lease' = [lease EXCEPT ![p] = LeaseTicks + 1]
       ELSE UNCHANGED <<isLeader, lease>>
  /\ UNCHANGED <<known, status, silence, due>>

(* Fault: the claim sets the flag and no lease. *)
ClaimWithoutLease(p) ==
  /\ At(p, "claim", "wait")
  /\ isLeader' = [isLeader EXCEPT ![p] = @ \/ (p \in known /\ status[p] = "ACTIVE")]
  /\ UNCHANGED <<known, lease, status, silence, due>>

Claim(p) ==
  /\ At(p, "claim", "wait")
  /\ IF p \in known /\ status[p] = "ACTIVE"
       THEN /\ isLeader' = [isLeader EXCEPT ![p] = TRUE]
            /\ lease' = [lease EXCEPT ![p] = LeaseTicks]
       ELSE UNCHANGED <<isLeader, lease>>
  /\ UNCHANGED <<known, status, silence, due>>

(* Fault: a leader that finds itself does not extend its lease but gives   *)
(* it back.                                                                *)
RenewReleases(p) ==
  /\ At(p, "renew", "wait")
  /\ isLeader' = [isLeader EXCEPT ![p] = FALSE]
  /\ lease' = [lease EXCEPT ![p] = 0]
  /\ UNCHANGED <<known, status, silence, due>>

Renew(p) ==
  /\ At(p, "renew", "wait")
  /\ lease' = [lease EXCEPT ![p] = IF isLeader[p] THEN LeaseTicks ELSE @]
  /\ UNCHANGED <<known, isLeader, status, silence, due>>

-----------------------------------------------------------------------------
Upset == upsets < MaxUpsets /\ upsets' = upsets + 1

(* The statement at pc fails; its error is ignored.  After a failed        *)
(* election query the loop neither claims nor renews.                      *)
StatementFails(p) ==
  /\ p \in running
  /\ Upset
  /\ pc[p] = "wait" => due[p]
  /\ due' = [due EXCEPT ![p] = @ /\ pc[p] # "wait"]
  /\ pc' = [pc EXCEPT ![p] = CASE pc[p] = "wait"  -> "stale"
                               [] pc[p] = "stale" -> "elect"
                               [] OTHER           -> "wait"]
  /\ UNCHANGED <<rows, running, request>>

(* A process dies.  Started again it has another instance id, unless it is *)
(* started in the same second modulo 10000: then Boot takes the same row.  *)
Crash(p) ==
  /\ p \in running
  /\ Upset
  /\ running' = running \ {p}
  /\ pc' = [pc EXCEPT ![p] = "wait"]
  /\ due' = [due EXCEPT ![p] = FALSE]
  /\ UNCHANGED <<rows, request>>

(* drainControlPlaneInstance *)
Drain(i) ==
  /\ i \in known
  /\ Upset
  /\ status' = [status EXCEPT ![i] = "DRAINING"]
  /\ isLeader' = [isLeader EXCEPT ![i] = FALSE]
  /\ UNCHANGED <<known, lease, silence, loop, request>>

(* stepDownLeader: three statements.  The first finds any row with         *)
(* is_leader; if there is none, or the query fails, the handler goes on    *)
(* with "".                                                                *)
FindLeader ==
  /\ admin = "none"
  /\ Upset
  /\ running # {}
  /\ admin' = "clear"
  /\ former' \in {i \in known : isLeader[i]} \cup {NoInstance}
  /\ UNCHANGED <<rows, loop>>

ClearLeader ==
  /\ admin = "clear"
  /\ admin' = "promote"
  /\ lease' = [i \in Instance |-> IF isLeader[i] THEN 0 ELSE lease[i]]
  /\ isLeader' = [i \in Instance |-> FALSE]
  /\ UNCHANGED <<known, status, silence, loop, former, upsets>>

(* Every ACTIVE row but the former leader's is promoted; the handler       *)
(* reads the first one returned.                                           *)
Promoted == {i \in known \ {former} : status[i] = "ACTIVE"}

Promote ==
  /\ admin = "promote"
  /\ admin' = "none"
  /\ former' = NoInstance
  /\ isLeader' = [i \in Instance |-> isLeader[i] \/ i \in Promoted]
  /\ lease' = [i \in Instance |-> IF i \in Promoted THEN LeaseTicks ELSE lease[i]]
  /\ UNCHANGED <<known, status, silence, loop, upsets>>

(* A failed second statement is answered 500 and nobody is promoted; the   *)
(* error of the third is dropped.                                          *)
StepDownFails ==
  /\ admin \in {"clear", "promote"}
  /\ Upset
  /\ admin' = "none"
  /\ former' = NoInstance
  /\ UNCHANGED <<rows, loop>>

StepDown == FindLeader \/ ClearLeader \/ Promote \/ StepDownFails

(* A period passes.  A timely process has finished its round by then; the  *)
(* ticker of another one that is still busy drops the tick.                *)
Tick ==
  /\ running # {}
  /\ \A p \in running \cap Timely : pc[p] = "wait" /\ ~due[p]
  /\ lease' = [i \in Instance |-> IF lease[i] > 0 THEN lease[i] - 1 ELSE 0]
  /\ silence' = [i \in Instance |->
       IF silence[i] > StaleTicks THEN silence[i] ELSE silence[i] + 1]
  /\ due' = [p \in Process |-> p \in running]
  /\ UNCHANGED <<known, isLeader, status, running, pc, request, upsets>>

-----------------------------------------------------------------------------
Round(p) ==
  Register(p) \/ Heartbeat(p) \/ MarkStale(p) \/ Elect(p) \/ Claim(p) \/ Renew(p)

Next ==
  \/ \E p \in Process : Boot(p) \/ Round(p) \/ StatementFails(p) \/ Crash(p)
  \/ \E i \in Instance : Drain(i)
  \/ StepDown
  \/ Tick

Spec == Init /\ [][Next]_vars

(* Time passes, the goroutine of every process is scheduled and a request  *)
(* that has begun runs to its end.                                         *)
Fairness ==
  /\ WF_vars(Tick)
  /\ \A p \in Process : WF_vars(Round(p))
  /\ WF_vars(ClearLeader \/ Promote)

FairSpec == Spec /\ Fairness

-----------------------------------------------------------------------------
(* Whatever statements of loops, drains and step-downs interleave, a row   *)
(* marked as leader is ACTIVE: no drained or silent instance leads.        *)
LeaderIsActive == \A i \in Instance : isLeader[i] => status[i] = "ACTIVE"

(* A lease lapses only with time, and only after LeaseTicks periods        *)
(* without a renewal; it is cut short only by the operator or by the       *)
(* leader's own silence.                                                   *)
LeaseIsHonoured ==
  [][\A i \in Instance :
       HoldsLease(i) /\ ~HoldsLease(i)' =>
         \/ lease[i] = 1 /\ lease'[i] = 0
         \/ status'[i] = "DRAINING"
         \/ admin = "clear" /\ admin' = "promote"
         \/ silence[i] > StaleTicks]_vars

(* Once upsets are over, a timely process that is ACTIVE is enough for     *)
(* some running process to lead again and again.                           *)
RunningLeader == \E p \in running : HoldsLease(p)
Electable == \E p \in running \cap Timely : status[p] = "ACTIVE"
LeadershipRecovers == <>[]Electable => []<>RunningLeader

(* "Leader Election: Try to acquire lease if no active leader or leader    *)
(* lease expired" (control_plane_ha.go 165) and "promote another active    *)
(* standby instance" (330): one leader at a time.                          *)
AtMostOneLeader == \A i, j \in Instance : HoldsLease(i) /\ HoldsLease(j) => i = j
=============================================================================
