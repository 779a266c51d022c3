------------------------ MODULE ControlPlaneHA_proofs ------------------------
(***************************************************************************)
(* Theorems about ControlPlaneHA, for any number of processes and seeded   *)
(* rows, any lease and any staleness limit.                                *)
(***************************************************************************)
EXTENDS ControlPlaneHA, TLAPS

IndInv == TypeOK /\ LeaderIsActive

LEMMA InitIndInv == Init => IndInv
BY TimeAssumption DEF Init, IndInv, TypeOK, LeaderIsActive, Instance

(* Boots and registrations make rows ACTIVE and promote none. *)
LEMMA UpsertKeeps ==
  ASSUME IndInv, NEW ids \in SUBSET Instance, Upsert(ids)
  PROVE  /\ known' \subseteq Instance
         /\ isLeader' \in [Instance -> BOOLEAN]
         /\ lease' \in [Instance -> 0..LeaseTicks]
         /\ status' \in [Instance -> {"ACTIVE", "DRAINING", "OFFLINE"}]
         /\ silence' \in [Instance -> 0..StaleTicks + 1]
         /\ LeaderIsActive'
BY TimeAssumption DEF IndInv, TypeOK, LeaderIsActive, Upsert

(* A step of a process's loop only moves its own pc. *)
LEMMA AtKeeps ==
  ASSUME IndInv, NEW p \in Process, NEW stmt,
         NEW then \in {"register", "wait", "stale", "elect", "claim", "renew"},
         At(p, stmt, then)
  PROVE  /\ running' \subseteq Process
         /\ pc' \in [Process -> {"register", "wait", "stale", "elect", "claim", "renew"}]
         /\ admin' \in {"none", "clear", "promote"}
         /\ former' \in Instance \cup {NoInstance}
         /\ upsets' \in Nat
BY DEF IndInv, TypeOK, At, request

LEMMA IndInvStep == IndInv /\ [Next]_vars => IndInv'
<1> SUFFICES ASSUME IndInv, [Next]_vars PROVE IndInv'
  OBVIOUS
<1> USE DEF IndInv, rows, loop, request
<1>1. ASSUME NEW p \in Process, Boot(p) PROVE IndInv'
  <2>1. Upsert(Replica) /\ Replica \in SUBSET Instance
    BY <1>1 DEF Boot, Instance
  <2> QED
    BY <1>1, <2>1, UpsertKeeps DEF Boot, TypeOK
<1>2. ASSUME NEW p \in Process, Register(p) PROVE IndInv'
  <2>1. Upsert({p}) /\ {p} \in SUBSET Instance
    BY <1>2 DEF Register, Instance
  <2>2. At(p, "register", "wait") /\ UNCHANGED due
    BY <1>2 DEF Register
  <2> QED
    BY <2>1, <2>2, UpsertKeeps, AtKeeps DEF TypeOK
<1>3. ASSUME NEW p \in Process, Heartbeat(p) PROVE IndInv'
  <2>1. At(p, "wait", "stale")
    BY <1>3 DEF Heartbeat
  <2>2. /\ due' \in [Process -> BOOLEAN]
        /\ silence' \in [Instance -> 0..StaleTicks + 1]
        /\ UNCHANGED <<known, isLeader, lease, status>>
    BY <1>3, TimeAssumption DEF Heartbeat, TypeOK, Instance
  <2> QED
    BY <2>1, <2>2, AtKeeps DEF TypeOK, LeaderIsActive
<1>4. ASSUME NEW p \in Process, MarkStale(p) PROVE IndInv'
  <2>1. At(p, "stale", "elect")
    BY <1>4 DEF MarkStale
  <2>2. /\ status' \in [Instance -> {"ACTIVE", "DRAINING", "OFFLINE"}]
        /\ isLeader' \in [Instance -> BOOLEAN]
        /\ UNCHANGED <<known, lease, silence, due>>
    BY <1>4 DEF MarkStale, TypeOK
  <2>3. LeaderIsActive'
    BY <1>4 DEF MarkStale, TypeOK, LeaderIsActive
  <2> QED
    BY <2>1, <2>2, <2>3, AtKeeps DEF TypeOK
<1>5. ASSUME NEW p \in Process, Elect(p) PROVE IndInv'
  <2>1. PICK then \in {"claim", "renew", "wait"} : At(p, "elect", then)
    BY <1>5 DEF Elect
  <2>2. UNCHANGED <<known, isLeader, lease, status, silence, due>>
    BY <1>5 DEF Elect
  <2> QED
    BY <2>1, <2>2, AtKeeps DEF TypeOK, LeaderIsActive
<1>6. ASSUME NEW p \in Process, Claim(p) PROVE IndInv'
  <2>1. At(p, "claim", "wait") /\ UNCHANGED <<known, status, silence, due>>
    BY <1>6 DEF Claim
  <2>2. /\ isLeader' \in [Instance -> BOOLEAN]
        /\ lease' \in [Instance -> 0..LeaseTicks]
        /\ LeaderIsActive'
    <3>1. CASE p \in known /\ status[p] = "ACTIVE"
      <4>1. /\ isLeader' = [isLeader EXCEPT ![p] = TRUE]
            /\ lease' = [lease EXCEPT ![p] = LeaseTicks]
            /\ UNCHANGED status
        BY <1>6, <3>1 DEF Claim
      <4>2. isLeader' \in [Instance -> BOOLEAN]
        BY <4>1 DEF TypeOK
      <4>3. lease' \in [Instance -> 0..LeaseTicks]
        BY <4>1, TimeAssumption DEF TypeOK, Instance
      <4>4. LeaderIsActive'
        <5> SUFFICES ASSUME NEW i \in Instance, isLeader'[i]
                     PROVE  status[i] = "ACTIVE"
          BY <4>1 DEF LeaderIsActive
        <5>1. CASE i = p
          BY <3>1, <5>1
        <5>2. CASE i # p
          <6>1. isLeader'[i] = isLeader[i]
            BY <4>1, <5>2 DEF TypeOK
          <6> QED
            BY <6>1 DEF LeaderIsActive
        <5> QED
          BY <5>1, <5>2
      <4> QED
        BY <4>2, <4>3, <4>4
    <3>2. CASE ~(p \in known /\ status[p] = "ACTIVE")
      BY <1>6, <3>2 DEF Claim, TypeOK, LeaderIsActive
    <3> QED
      BY <3>1, <3>2
  <2> QED
    BY <2>1, <2>2, AtKeeps DEF TypeOK
<1>7. ASSUME NEW p \in Process, Renew(p) PROVE IndInv'
  <2>1. /\ At(p, "renew", "wait")
        /\ UNCHANGED <<known, isLeader, status, silence, due>>
    BY <1>7 DEF Renew
  <2>2. lease' \in [Instance -> 0..LeaseTicks]
    <3>1. CASE isLeader[p]
      BY <1>7, <3>1, TimeAssumption DEF Renew, TypeOK, Instance
    <3>2. CASE ~isLeader[p]
      BY <1>7, <3>2 DEF Renew, TypeOK
    <3> QED
      BY <3>1, <3>2
  <2> QED
    BY <2>1, <2>2, AtKeeps DEF TypeOK, LeaderIsActive
<1>8. ASSUME NEW p \in Process, StatementFails(p) PROVE IndInv'
  <2>1. pc' \in [Process -> {"register", "wait", "stale", "elect", "claim", "renew"}]
    BY <1>8 DEF StatementFails, TypeOK
  <2>2. due' \in [Process -> BOOLEAN]
    BY <1>8 DEF StatementFails, TypeOK
  <2> QED
    BY <1>8, <2>1, <2>2 DEF StatementFails, Upset, TypeOK, LeaderIsActive
<1>9. ASSUME NEW p \in Process, Crash(p) PROVE IndInv'
  BY <1>9 DEF Crash, Upset, TypeOK, LeaderIsActive
<1>10. ASSUME NEW i \in Instance, Drain(i) PROVE IndInv'
  BY <1>10 DEF Drain, Upset, TypeOK, LeaderIsActive
<1>11. CASE FindLeader
  BY <1>11 DEF FindLeader, Upset, TypeOK, LeaderIsActive
<1>12. CASE ClearLeader
  BY <1>12, TimeAssumption DEF ClearLeader, TypeOK, LeaderIsActive
<1>13. CASE Promote
  <2>1. /\ isLeader' \in [Instance -> BOOLEAN]
        /\ lease' \in [Instance -> 0..LeaseTicks]
        /\ LeaderIsActive'
    BY <1>13, TimeAssumption DEF Promote, Promoted, TypeOK, LeaderIsActive
  <2> QED
    BY <1>13, <2>1 DEF Promote, TypeOK
<1>14. CASE Tick
  <2>1. lease' \in [Instance -> 0..LeaseTicks]
    BY <1>14, TimeAssumption DEF Tick, TypeOK
  <2>2. silence' \in [Instance -> 0..StaleTicks + 1]
    BY <1>14, TimeAssumption DEF Tick, TypeOK
  <2> QED
    BY <1>14, <2>1, <2>2 DEF Tick, TypeOK, LeaderIsActive
<1>15. CASE StepDownFails
  BY <1>15 DEF StepDownFails, Upset, TypeOK, LeaderIsActive
<1>16. CASE UNCHANGED vars
  BY <1>16 DEF vars, TypeOK, LeaderIsActive
<1> QED
  BY <1>1, <1>2, <1>3, <1>4, <1>5, <1>6, <1>7, <1>8, <1>9, <1>10, <1>11,
     <1>12, <1>13, <1>14, <1>15, <1>16 DEF Next, Round, StepDown

(* Every variable keeps its type. *)
THEOREM TypeCorrect == Spec => []TypeOK
BY InitIndInv, IndInvStep, PTL DEF Spec, IndInv

(* No drained and no silent instance is ever marked as leader, in a        *)
(* cluster of any size.                                                    *)
THEOREM LeaderIsActiveHolds == Spec => []LeaderIsActive
BY InitIndInv, IndInvStep, PTL DEF Spec, IndInv

(* What may end the lease of an instance. *)
Ended(i) ==
  \/ lease[i] = 1 /\ lease'[i] = 0
  \/ status'[i] = "DRAINING"
  \/ admin = "clear" /\ admin' = "promote"
  \/ silence[i] > StaleTicks

(* A statement that takes nothing from a row cannot end its lease. *)
LEMMA KeptLease ==
  ASSUME NEW i \in Instance, HoldsLease(i),
         i \in known', isLeader'[i], lease'[i] > 0, status'[i] = status[i]
  PROVE  HoldsLease(i)'
BY DEF HoldsLease

LEMMA LeaseStep ==
  ASSUME IndInv, [Next]_vars, NEW i \in Instance, HoldsLease(i), ~HoldsLease(i)'
  PROVE  Ended(i)
<1> USE DEF IndInv, TypeOK, rows, loop, request
<1>0. /\ i \in known /\ isLeader[i] /\ status[i] = "ACTIVE"
      /\ lease[i] \in Nat /\ lease[i] > 0
  BY TimeAssumption DEF HoldsLease
<1>1. ASSUME NEW ids \in SUBSET Instance, Upsert(ids) PROVE FALSE
  BY <1>0, <1>1, KeptLease DEF Upsert
<1>2. ASSUME NEW p \in Process, MarkStale(p) PROVE Ended(i)
  <2>1. CASE Stale(i)
    BY <2>1 DEF Stale, Ended
  <2>2. CASE ~Stale(i)
    BY <1>0, <1>2, <2>2, KeptLease DEF MarkStale
  <2> QED
    BY <2>1, <2>2
<1>3. ASSUME NEW p \in Process, Claim(p) \/ Renew(p) PROVE FALSE
  <2>1. /\ \A j \in Instance : isLeader[j] => isLeader'[j]
        /\ lease'[i] = lease[i] \/ lease'[i] = LeaseTicks
        /\ UNCHANGED <<known, status>>
    BY <1>3 DEF Claim, Renew
  <2> QED
    BY <1>0, <2>1, KeptLease, TimeAssumption
<1>4. ASSUME NEW j \in Instance, Drain(j) PROVE Ended(i)
  <2>1. CASE i = j
    BY <1>4, <2>1 DEF Drain, Ended
  <2>2. CASE i # j
    BY <1>0, <1>4, <2>2, KeptLease DEF Drain
  <2> QED
    BY <2>1, <2>2
<1>5. CASE ClearLeader
  BY <1>5 DEF ClearLeader, Ended
<1>6. CASE Promote
  <2>1. /\ isLeader'[i]
        /\ lease'[i] = lease[i] \/ lease'[i] = LeaseTicks
        /\ UNCHANGED <<known, status>>
    BY <1>0, <1>6 DEF Promote
  <2> QED
    BY <1>0, <2>1, KeptLease, TimeAssumption
<1>7. CASE Tick
  <2>1. lease'[i] = lease[i] - 1 /\ UNCHANGED <<known, isLeader, status>>
    BY <1>0, <1>7 DEF Tick
  <2>2. CASE lease[i] = 1
    BY <2>1, <2>2 DEF Ended
  <2>3. CASE lease[i] # 1
    BY <1>0, <2>1, <2>3, KeptLease
  <2> QED
    BY <2>2, <2>3
<1>8. CASE UNCHANGED rows
  BY <1>0, <1>8, KeptLease
<1>9. ASSUME NEW p \in Process, Boot(p) \/ Register(p) PROVE FALSE
  <2>1. \E ids \in SUBSET Instance : Upsert(ids)
    BY <1>9 DEF Boot, Register, Instance
  <2> QED
    BY <1>1, <2>1
<1>10. ASSUME NEW p \in Process,
              Heartbeat(p) \/ Elect(p) \/ StatementFails(p) \/ Crash(p)
       PROVE FALSE
  <2>1. UNCHANGED <<known, isLeader, lease, status>>
    BY <1>10 DEF Heartbeat, Elect, StatementFails, Crash
  <2> QED
    BY <1>0, <2>1, KeptLease
<1>11. CASE FindLeader \/ StepDownFails
  BY <1>8, <1>11 DEF FindLeader, StepDownFails
<1>12. CASE UNCHANGED vars
  BY <1>8, <1>12 DEF vars
<1> QED
  BY <1>2, <1>3, <1>4, <1>5, <1>6, <1>7, <1>9, <1>10, <1>11, <1>12
  DEF Next, Round, StepDown

(* Only time, the operator or the leader's own silence ends a lease, for   *)
(* any cluster, lease and interleaving (control_plane_ha.go 149-193).      *)
THEOREM LeaseHonoured == Spec => LeaseIsHonoured
<1>1. IndInv /\ [Next]_vars =>
        [\A i \in Instance :
           HoldsLease(i) /\ ~HoldsLease(i)' =>
             \/ lease[i] = 1 /\ lease'[i] = 0
             \/ status'[i] = "DRAINING"
             \/ admin = "clear" /\ admin' = "promote"
             \/ silence[i] > StaleTicks]_vars
  BY LeaseStep DEF Ended
<1> QED
  BY <1>1, InitIndInv, IndInvStep, PTL DEF Spec, LeaseIsHonoured
=============================================================================
