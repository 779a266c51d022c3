----------------------- MODULE IncidentResponse_proofs -----------------------
(***************************************************************************)
(* The audit trail of an incident is true and its status has the effect it *)
(* names, for any incidents, any finite number of overlapping requests,    *)
(* and any number of failed statements and ends of the process.            *)
(***************************************************************************)
EXTENDS IncidentResponse, FiniteSetTheorems, TLAPS

(* The part of the types the proof needs: it bounds no counter.            *)
Shape ==
  /\ status \in [Incident -> Status]
  /\ resolvedAt \in [Incident -> BOOLEAN]
  /\ log \in [Incident -> Seq(Entry)]
  /\ blocked \subseteq Incident
  /\ pc \in [Handler -> {"idle", "update", "record", "block"}]
  /\ target \in [Handler -> Incident \cup {Nothing}]
  /\ from \in [Handler -> Status]
  /\ to \in [Handler -> Status]
  /\ was \in [Incident -> SUBSET Status]
  /\ unrecorded \in [Incident -> Nat]
  /\ spared \subseteq Incident
  /\ overlapped \subseteq Incident
  /\ \A h \in Handler : pc[h] # "idle" => target[h] \in Incident

(* A request has read a status the incident had, and from its update on    *)
(* the incident has had the status it was asked for.                       *)
RequestIsTrue ==
  \A h \in Handler : pc[h] # "idle" =>
    /\ from[h] \in was[target[h]]
    /\ pc[h] # "update" => to[h] \in was[target[h]]

TrailSound ==
  \A i \in Incident :
    /\ status[i] \in was[i]
    /\ \A n \in DOMAIN log[i] : {log[i][n].from, log[i][n].to} \subseteq was[i]

(* Whoever is RESOLVED has a time; whoever is CONTAINED is blocked, was    *)
(* spared, or a request that will block it is on its way.                  *)
EffectSound ==
  \A i \in Incident :
    /\ status[i] = "RESOLVED" => resolvedAt[i]
    /\ status[i] = "CONTAINED" =>
         \/ i \in blocked \cup spared
         \/ \E h \in Handler : /\ pc[h] \in {"record", "block"}
                               /\ target[h] = i
                               /\ to[h] = "CONTAINED"

IndInv == Shape /\ RequestIsTrue /\ TrailSound /\ EffectSound

LEMMA InitIndInv == Init => IndInv
BY DEF Init, IndInv, Shape, RequestIsTrue, TrailSound, EffectSound, Status

(* A request that moves on keeps its incident and its statuses, or forgets *)
(* them; no other request is touched.                                      *)
LEMMA GotoKeeps ==
  ASSUME Shape, NEW h \in Handler, pc[h] # "idle",
         NEW stmt \in {"idle", "update", "record", "block"}, Goto(h, stmt)
  PROVE  /\ pc' \in [Handler -> {"idle", "update", "record", "block"}]
         /\ target' \in [Handler -> Incident \cup {Nothing}]
         /\ from' \in [Handler -> Status]
         /\ to' \in [Handler -> Status]
         /\ \A g \in Handler : pc'[g] # "idle" => target'[g] \in Incident
         /\ pc'[h] = stmt
         /\ stmt # "idle" => /\ target'[h] = target[h]
                             /\ from'[h] = from[h]
                             /\ to'[h] = to[h]
         /\ \A g \in Handler \ {h} : /\ pc'[g] = pc[g]
                                     /\ target'[g] = target[g]
                                     /\ from'[g] = from[g]
                                     /\ to'[g] = to[g]
BY DEF Goto, Shape, Status

LEMMA AfterRecordType ==
  ASSUME NEW h \in Handler
  PROVE  /\ AfterRecord(h) \in {"idle", "block"}
         /\ to[h] = "CONTAINED" => AfterRecord(h) = "block"
BY DEF AfterRecord

(* Requests that go on stay true when the incidents' pasts only grow. *)
LEMMA RequestStep ==
  ASSUME IndInv, NEW h \in Handler, pc[h] # "idle",
         NEW stmt \in {"idle", "record", "block"}, Goto(h, stmt),
         was' \in [Incident -> SUBSET Status],
         \A i \in Incident : was[i] \subseteq was'[i],
         pc[h] = "update" /\ stmt # "idle" => to[h] \in was'[target[h]]
  PROVE  RequestIsTrue'
<1> SUFFICES ASSUME NEW g \in Handler, pc'[g] # "idle"
             PROVE  /\ from'[g] \in was'[target'[g]]
                    /\ pc'[g] # "update" => to'[g] \in was'[target'[g]]
  BY DEF RequestIsTrue
<1>0. /\ \A k \in Handler \ {h} : /\ pc'[k] = pc[k] /\ target'[k] = target[k]
                                  /\ from'[k] = from[k] /\ to'[k] = to[k]
      /\ pc'[h] = stmt
      /\ stmt # "idle" => target'[h] = target[h] /\ from'[h] = from[h] /\ to'[h] = to[h]
  BY GotoKeeps DEF IndInv
<1>1. \A k \in Handler : pc[k] # "idle" => target[k] \in Incident
  BY DEF IndInv, Shape
<1>2. CASE g = h
  BY <1>0, <1>1, <1>2 DEF IndInv, RequestIsTrue
<1>3. CASE g # h
  BY <1>0, <1>1, <1>3 DEF IndInv, RequestIsTrue
<1> QED
  BY <1>2, <1>3

(* A new request has read the status the incident has now. *)
LEMMA ReadKeeps ==
  ASSUME IndInv, NEW h \in Handler, NEW i \in Incident, NEW new \in Status,
         Read(h, i, new)
  PROVE  IndInv'
<1>1. /\ pc[h] = "idle"
      /\ pc' = [pc EXCEPT ![h] = "update"]
      /\ target' = [target EXCEPT ![h] = i]
      /\ from' = [from EXCEPT ![h] = status[i]]
      /\ to' = [to EXCEPT ![h] = new]
      /\ overlapped' \subseteq overlapped \cup {i}
      /\ UNCHANGED <<status, resolvedAt, log, blocked, was, unrecorded, spared>>
  BY DEF Read, Starts, incident
<1>2. Shape'
  BY <1>1 DEF IndInv, Shape
<1>3. RequestIsTrue'
  BY <1>1 DEF IndInv, Shape, RequestIsTrue, TrailSound
<1>4. TrailSound'
  BY <1>1 DEF IndInv, TrailSound
<1>5. EffectSound'
  <2>1. UNCHANGED <<status, resolvedAt, blocked, spared>>
    BY <1>1
  <2>2. ASSUME NEW g \in Handler, pc[g] \in {"record", "block"}
        PROVE  pc'[g] = pc[g] /\ target'[g] = target[g] /\ to'[g] = to[g]
    BY <1>1, <2>2 DEF IndInv, Shape
  <2> QED
    BY <2>1, <2>2 DEF IndInv, EffectSound
<1> QED
  BY <1>2, <1>3, <1>4, <1>5 DEF IndInv

LEMMA UpdateKeeps ==
  ASSUME IndInv, NEW h \in Handler, Update(h)
  PROVE  IndInv'
<1> DEFINE i == target[h]
<1>1. /\ pc[h] = "update"
      /\ status' = [status EXCEPT ![i] = to[h]]
      /\ resolvedAt' = [resolvedAt EXCEPT ![i] = @ \/ to[h] = "RESOLVED"]
      /\ was' = [was EXCEPT ![i] = @ \cup {to[h]}]
      /\ Goto(h, "record")
      /\ UNCHANGED <<log, blocked, unrecorded, spared, overlapped>>
  BY DEF Update
<1>2. i \in Incident /\ to[h] \in Status
  BY <1>1 DEF IndInv, Shape
<1>3. /\ was' \in [Incident -> SUBSET Status]
      /\ \A k \in Incident : was[k] \subseteq was'[k]
      /\ to[h] \in was'[i]
  BY <1>1, <1>2 DEF IndInv, Shape
<1>4. /\ pc'[h] = "record" /\ target'[h] = i /\ to'[h] = to[h]
      /\ \A g \in Handler \ {h} :
           pc'[g] = pc[g] /\ target'[g] = target[g] /\ to'[g] = to[g]
  BY <1>1, GotoKeeps DEF IndInv
<1> HIDE DEF i
<1>5. Shape'
  <2>1. status' \in [Incident -> Status] /\ resolvedAt' \in [Incident -> BOOLEAN]
    BY <1>1, <1>2 DEF IndInv, Shape
  <2> QED
    BY <1>1, <1>3, <2>1, GotoKeeps DEF IndInv, Shape
<1>6. RequestIsTrue'
  BY <1>1, <1>3, RequestStep DEF i
<1>7. TrailSound'
  <2> SUFFICES ASSUME NEW k \in Incident
               PROVE  /\ status'[k] \in was'[k]
                      /\ \A n \in DOMAIN log[k] : {log[k][n].from, log[k][n].to} \subseteq was'[k]
    BY <1>1 DEF TrailSound
  <2>1. status'[k] \in was'[k]
    BY <1>1, <1>2, <1>3 DEF IndInv, Shape, TrailSound
  <2> QED
    BY <1>3, <2>1 DEF IndInv, TrailSound
<1>8. EffectSound'
  <2> SUFFICES ASSUME NEW k \in Incident
               PROVE  /\ status'[k] = "RESOLVED" => resolvedAt'[k]
                      /\ status'[k] = "CONTAINED" =>
                           \/ k \in blocked \cup spared
                           \/ \E g \in Handler : /\ pc'[g] \in {"record", "block"}
                                                 /\ target'[g] = k
                                                 /\ to'[g] = "CONTAINED"
    BY <1>1 DEF EffectSound
  <2>1. CASE k = i
    <3>1. status'[k] = to[h] /\ (to[h] = "RESOLVED" => resolvedAt'[k])
      BY <1>1, <1>2, <2>1 DEF IndInv, Shape
    <3> QED
      BY <1>4, <2>1, <3>1
  <2>2. CASE k # i
    <3>1. status'[k] = status[k] /\ resolvedAt'[k] = resolvedAt[k]
      BY <1>1, <1>2, <2>2 DEF IndInv, Shape
    <3> QED
      BY <1>1, <1>4, <2>2, <3>1 DEF IndInv, EffectSound
  <2> QED
    BY <2>1, <2>2
<1> QED
  BY <1>5, <1>6, <1>7, <1>8 DEF IndInv

(* The statements after the update, and failures, leave statuses alone.   *)
LEMMA LaterKeeps ==
  ASSUME IndInv, NEW h \in Handler, pc[h] # "idle",
         NEW stmt \in {"idle", "block"}, Goto(h, stmt),
         pc[h] = "update" => stmt = "idle",
         UNCHANGED <<status, resolvedAt, was>>,
         log' \in [Incident -> Seq(Entry)],
         TrailSound',
         blocked' \subseteq Incident, spared' \subseteq Incident,
         unrecorded' \in [Incident -> Nat], overlapped' = overlapped,
         blocked \cup spared \subseteq blocked' \cup spared',
         pc[h] \in {"record", "block"} /\ to[h] = "CONTAINED" =>
           stmt = "block" \/ target[h] \in blocked' \cup spared'
  PROVE  IndInv'
<1>0. /\ \A k \in Handler \ {h} : /\ pc'[k] = pc[k] /\ target'[k] = target[k]
                                  /\ to'[k] = to[k]
      /\ pc'[h] = stmt
      /\ stmt # "idle" => target'[h] = target[h] /\ to'[h] = to[h]
  BY GotoKeeps DEF IndInv
<1>1. Shape'
  BY GotoKeeps DEF IndInv, Shape
<1>2. RequestIsTrue'
  BY RequestStep DEF IndInv, Shape
<1>3. EffectSound'
  <2> SUFFICES ASSUME NEW k \in Incident, status[k] = "CONTAINED",
                      k \notin blocked' \cup spared'
               PROVE  \E g \in Handler : /\ pc'[g] \in {"record", "block"}
                                         /\ target'[g] = k
                                         /\ to'[g] = "CONTAINED"
    BY DEF IndInv, EffectSound
  <2>1. PICK g \in Handler : /\ pc[g] \in {"record", "block"}
                             /\ target[g] = k
                             /\ to[g] = "CONTAINED"
    BY DEF IndInv, EffectSound
  <2>2. CASE g = h
    BY <1>0, <2>1, <2>2
  <2>3. CASE g # h
    BY <1>0, <2>1, <2>3
  <2> QED
    BY <2>2, <2>3
<1> QED
  BY <1>1, <1>2, <1>3 DEF IndInv

(* The entry names statuses the incident has had. *)
LEMMA RecordKeeps ==
  ASSUME IndInv, NEW h \in Handler, Record(h)
  PROVE  IndInv'
<1> DEFINE i == target[h]
           e == [from |-> from[h], to |-> to[h]]
<1>1. /\ pc[h] = "record"
      /\ log' = [log EXCEPT ![i] = Append(@, e)]
      /\ Goto(h, AfterRecord(h))
      /\ UNCHANGED <<status, resolvedAt, blocked, was, unrecorded, spared, overlapped>>
  BY DEF Record, history
<1>2. i \in Incident /\ e \in Entry /\ {e.from, e.to} \subseteq was[i]
  BY <1>1 DEF IndInv, Shape, RequestIsTrue, Entry
<1> HIDE DEF i, e
<1>3. log' \in [Incident -> Seq(Entry)] /\ log'[i] = Append(log[i], e)
  BY <1>1, <1>2 DEF IndInv, Shape
<1>4. TrailSound'
  <2> SUFFICES ASSUME NEW k \in Incident, NEW n \in DOMAIN log'[k]
               PROVE  {log'[k][n].from, log'[k][n].to} \subseteq was[k]
    BY <1>1 DEF IndInv, TrailSound
  <2>1. CASE k = i
    <3>1. log[i] \in Seq(Entry)
      BY <1>2 DEF IndInv, Shape
    <3>2. log'[i][n] = e \/ (n \in DOMAIN log[i] /\ log'[i][n] = log[i][n])
      BY <1>2, <1>3, <2>1, <3>1
    <3> QED
      BY <1>2, <2>1, <3>2 DEF IndInv, TrailSound
  <2>2. CASE k # i
    <3>1. log'[k] = log[k]
      BY <1>1, <2>2 DEF IndInv, Shape
    <3> QED
      BY <3>1 DEF IndInv, TrailSound
  <2> QED
    BY <2>1, <2>2
<1>5. /\ blocked \subseteq Incident /\ spared \subseteq Incident
      /\ unrecorded' \in [Incident -> Nat]
  BY <1>1 DEF IndInv, Shape
<1> QED
  BY <1>1, <1>3, <1>4, <1>5, AfterRecordType, LaterKeeps

LEMMA BlockKeeps ==
  ASSUME IndInv, NEW h \in Handler, Block(h)
  PROVE  IndInv'
<1>1. /\ pc[h] = "block"
      /\ blocked' = blocked \cup {target[h]}
      /\ Goto(h, "idle")
      /\ UNCHANGED <<status, resolvedAt, log, was, unrecorded, spared, overlapped>>
  BY DEF Block, history
<1>2. /\ target[h] \in Incident /\ blocked \subseteq Incident /\ spared \subseteq Incident
      /\ unrecorded' \in [Incident -> Nat]
  BY <1>1 DEF IndInv, Shape
<1>3. TrailSound' /\ log' \in [Incident -> Seq(Entry)]
  BY <1>1 DEF IndInv, Shape, TrailSound
<1> QED
  BY <1>1, <1>2, <1>3, LaterKeeps

LEMMA FailureKeeps ==
  ASSUME IndInv, NEW h \in Handler, StatementFails(h)
  PROVE  IndInv'
<1> DEFINE stmt == IF pc[h] = "record" THEN AfterRecord(h) ELSE "idle"
<1>1. /\ pc[h] # "idle"
      /\ Goto(h, stmt)
      /\ spared' = IF pc[h] = "block" THEN spared \cup {target[h]} ELSE spared
      /\ unrecorded' = [unrecorded EXCEPT ![target[h]] =
                           @ + (IF pc[h] = "record" THEN 1 ELSE 0)]
      /\ UNCHANGED <<status, resolvedAt, log, blocked, was, overlapped>>
  BY DEF StatementFails, incident
<1>2. /\ stmt \in {"idle", "block"}
      /\ pc[h] = "update" => stmt = "idle"
      /\ pc[h] = "record" /\ to[h] = "CONTAINED" => stmt = "block"
  BY AfterRecordType
<1> HIDE DEF stmt
<1>3. /\ target[h] \in Incident /\ blocked \subseteq Incident /\ spared \subseteq Incident
      /\ unrecorded' \in [Incident -> Nat]
  BY <1>1 DEF IndInv, Shape
<1>4. TrailSound' /\ log' \in [Incident -> Seq(Entry)]
  BY <1>1 DEF IndInv, Shape, TrailSound
<1>5. spared' \subseteq Incident /\ spared \subseteq spared'
  BY <1>1, <1>3
<1>6. pc[h] \in {"record", "block"} /\ to[h] = "CONTAINED" =>
        stmt = "block" \/ target[h] \in blocked' \cup spared'
  BY <1>1, <1>2
<1> QED
  BY <1>1, <1>2, <1>3, <1>4, <1>5, <1>6, LaterKeeps

(* Blocking and unblocking beside the requests. *)
LEMMA AsideKeeps ==
  ASSUME IndInv, NEW i \in Incident, ContainCampaign(i) \/ Unblock(i)
  PROVE  IndInv'
<1>1. /\ UNCHANGED <<status, resolvedAt, log, pc, target, from, to, was, unrecorded, overlapped>>
      /\ blocked' \subseteq blocked \cup {i}
      /\ spared' \subseteq spared \cup {i}
      /\ blocked \cup spared \subseteq blocked' \cup spared'
  BY DEF ContainCampaign, Unblock, request, history
<1>2. Shape'
  BY <1>1 DEF IndInv, Shape
<1>3. RequestIsTrue' /\ TrailSound'
  BY <1>1 DEF IndInv, RequestIsTrue, TrailSound
<1>4. EffectSound'
  BY <1>1 DEF IndInv, EffectSound
<1> QED
  BY <1>2, <1>3, <1>4 DEF IndInv

(* The end of the process: nobody is at work; who would have blocked an    *)
(* attacker has spared it.                                                 *)
LEMMA InterruptedFinite ==
  ASSUME BoundAssumption, NEW i
  PROVE  LET S == {h \in Busy(i) : pc[h] = "record"}
         IN /\ IsFiniteSet(S) /\ Cardinality(S) \in Nat
            /\ Cardinality(S) = 0 => S = {}
<1>1. PICK S : S = {h \in Busy(i) : pc[h] = "record"}
  OBVIOUS
<1>2. IsFiniteSet(Handler) /\ S \in SUBSET Handler
  BY <1>1 DEF BoundAssumption, Busy
<1>3. IsFiniteSet(S)
  BY <1>2, FS_Subset
<1> QED
  BY <1>1, <1>3, FS_CardinalityType, FS_EmptySet

LEMMA EndKeeps ==
  ASSUME BoundAssumption, IndInv, ProcessEnds
  PROVE  IndInv'
<1>1. /\ pc' = [h \in Handler |-> "idle"]
      /\ target' = [h \in Handler |-> Nothing]
      /\ from' = [h \in Handler |-> "DETECTED"] /\ to' = [h \in Handler |-> "DETECTED"]
      /\ spared' = spared \cup
           {i \in Incident : \E h \in Busy(i) : pc[h] # "update" /\ to[h] = "CONTAINED"}
      /\ UNCHANGED <<status, resolvedAt, log, blocked, was, overlapped>>
  BY DEF ProcessEnds, Forgotten, incident
<1>2. unrecorded' \in [Incident -> Nat]
  <2>1. ASSUME NEW i \in Incident
        PROVE  unrecorded[i] + Cardinality({h \in Busy(i) : pc[h] = "record"}) \in Nat
    <3>1. PICK n : n = Cardinality({h \in Busy(i) : pc[h] = "record"})
      OBVIOUS
    <3>2. n \in Nat
      BY <3>1, InterruptedFinite
    <3>3. unrecorded[i] \in Nat
      BY DEF IndInv, Shape
    <3> QED
      BY <3>1, <3>2, <3>3
  <2> QED
    BY <2>1 DEF ProcessEnds
<1>3. Shape'
  BY <1>1, <1>2 DEF IndInv, Shape, Status
<1>4. RequestIsTrue' /\ TrailSound'
  BY <1>1 DEF IndInv, RequestIsTrue, TrailSound
<1>5. EffectSound'
  <2> SUFFICES ASSUME NEW i \in Incident, status[i] = "CONTAINED", i \notin blocked \cup spared
               PROVE  i \in spared'
    BY <1>1 DEF IndInv, EffectSound
  <2>1. PICK h \in Handler : pc[h] \in {"record", "block"} /\ target[h] = i /\ to[h] = "CONTAINED"
    BY DEF IndInv, EffectSound
  <2>2. h \in Busy(i)
    BY <2>1 DEF Busy
  <2> QED
    BY <1>1, <2>1, <2>2
<1> QED
  BY <1>3, <1>4, <1>5 DEF IndInv

LEMMA IndInvStep ==
  ASSUME BoundAssumption PROVE IndInv /\ [Next]_vars => IndInv'
<1>1. CASE UNCHANGED vars
  BY <1>1 DEF vars, incident, request, history, IndInv, Shape, RequestIsTrue,
              TrailSound, EffectSound
<1> QED
  BY <1>1, ReadKeeps, UpdateKeeps, RecordKeeps, BlockKeeps, FailureKeeps, AsideKeeps, EndKeeps
  DEF Next

-----------------------------------------------------------------------------
(* The trail of an incident no two transitions of which overlapped and no  *)
(* entry of which failed: at most one request works it; the last entry     *)
(* names the status, or, between the update and the entry, the status the  *)
(* request has read.                                                       *)
LastIs(trail, s) == trail # <<>> => trail[Len(trail)].to = s

Chain(i) ==
  /\ \A g, h \in Busy(i) : g = h
  /\ unrecorded[i] = 0 =>
       /\ Linked(log[i])
       /\ \A h \in Busy(i) : pc[h] = "update" => from[h] = status[i]
       /\ \A h \in Busy(i) : pc[h] = "record" =>
            to[h] = status[i] /\ LastIs(log[i], from[h])
       /\ (\A h \in Busy(i) : pc[h] # "record") => LastIs(log[i], status[i])

ChainSound == \A i \in Incident \ overlapped : Chain(i)

LEMMA ChainInit == Init => ChainSound
BY DEF Init, ChainSound, Chain, Busy, Linked, LastIs

(* A step of a request leaves the chains of other incidents alone. *)
LEMMA ChainAside ==
  ASSUME NEW h \in Handler, NEW k \in Incident, Chain(k),
         pc[h] # "idle" => target[h] # k,
         pc'[h] # "idle" => target'[h] # k,
         \A g \in Handler \ {h} : /\ pc'[g] = pc[g] /\ target'[g] = target[g]
                                  /\ from'[g] = from[g] /\ to'[g] = to[g],
         log'[k] = log[k], status'[k] = status[k], unrecorded'[k] = unrecorded[k]
  PROVE  Chain(k)'
<1>1. Busy(k)' = Busy(k) /\ h \notin Busy(k) /\ Busy(k) \subseteq Handler
  BY DEF Busy
<1>2. \A g \in Busy(k) : pc'[g] = pc[g] /\ from'[g] = from[g] /\ to'[g] = to[g]
  BY <1>1
<1> QED
  BY <1>1, <1>2 DEF Chain

(* A request is the only one that works its incident.                      *)
LEMMA ChainAlone ==
  ASSUME NEW h \in Handler, NEW k, Chain(k), pc[h] # "idle", target[h] = k,
         \A g \in Handler \ {h} : pc'[g] = pc[g] /\ target'[g] = target[g],
         pc'[h] # "idle" => target'[h] = k
  PROVE  /\ Busy(k) = {h}
         /\ pc'[h] # "idle" => Busy(k)' = {h}
         /\ pc'[h] = "idle" => Busy(k)' = {}
<1>1. Busy(k) = {h}
  BY DEF Busy, Chain
<1>2. \A g \in Handler \ {h} : ~(pc[g] # "idle" /\ target[g] = k)
  BY <1>1 DEF Busy
<1> QED
  BY <1>1, <1>2 DEF Busy

LEMMA ChainRead ==
  ASSUME IndInv, ChainSound, NEW h \in Handler, NEW i \in Incident, NEW new \in Status,
         Read(h, i, new)
  PROVE  ChainSound'
<1>1. /\ pc[h] = "idle"
      /\ pc' = [pc EXCEPT ![h] = "update"]
      /\ target' = [target EXCEPT ![h] = i]
      /\ from' = [from EXCEPT ![h] = status[i]]
      /\ to' = [to EXCEPT ![h] = new]
      /\ overlapped' = IF Busy(i) # {} THEN overlapped \cup {i} ELSE overlapped
      /\ UNCHANGED <<status, log, unrecorded>>
  BY DEF Read, Starts, incident
<1>2. /\ pc'[h] = "update" /\ target'[h] = i /\ from'[h] = status[i]
      /\ \A g \in Handler \ {h} : /\ pc'[g] = pc[g] /\ target'[g] = target[g]
                                  /\ from'[g] = from[g] /\ to'[g] = to[g]
  BY <1>1 DEF IndInv, Shape
<1> SUFFICES ASSUME NEW k \in Incident \ overlapped'
             PROVE  Chain(k)'
  BY DEF ChainSound
<1>3. Chain(k)
  BY <1>1 DEF ChainSound
<1>4. CASE k # i
  BY <1>1, <1>2, <1>3, <1>4, ChainAside
<1>5. CASE k = i
  <2>1. Busy(k) = {}
    BY <1>1, <1>5
  <2>2. Busy(k)' = {h}
    BY <1>2, <1>5, <2>1 DEF Busy
  <2> QED
    BY <1>1, <1>2, <1>3, <1>5, <2>1, <2>2 DEF Chain
<1> QED
  BY <1>4, <1>5

LEMMA ChainUpdate ==
  ASSUME IndInv, ChainSound, NEW h \in Handler, Update(h)
  PROVE  ChainSound'
<1>0. PICK i : i = target[h]
  OBVIOUS
<1>1. /\ pc[h] = "update"
      /\ status' = [status EXCEPT ![i] = to[h]]
      /\ Goto(h, "record")
      /\ UNCHANGED <<log, unrecorded, overlapped>>
  BY <1>0 DEF Update
<1>2. /\ pc'[h] = "record" /\ target'[h] = i /\ from'[h] = from[h] /\ to'[h] = to[h]
      /\ \A g \in Handler \ {h} : /\ pc'[g] = pc[g] /\ target'[g] = target[g]
                                  /\ from'[g] = from[g] /\ to'[g] = to[g]
  BY <1>0, <1>1, GotoKeeps DEF IndInv
<1>3. i \in Incident /\ status'[i] = to[h] /\ \A k \in Incident \ {i} : status'[k] = status[k]
  BY <1>0, <1>1 DEF IndInv, Shape
<1> SUFFICES ASSUME NEW k \in Incident \ overlapped
             PROVE  Chain(k)'
  BY <1>1 DEF ChainSound
<1>4. Chain(k)
  BY DEF ChainSound
<1>5. CASE k # i
  BY <1>0, <1>1, <1>2, <1>3, <1>4, <1>5, ChainAside
<1>6. CASE k = i
  <2>1. Busy(k) = {h} /\ Busy(k)' = {h}
    BY <1>0, <1>1, <1>2, <1>4, <1>6, ChainAlone
  <2>2. unrecorded[k] = 0 => from[h] = status[k] /\ LastIs(log[k], status[k]) /\ Linked(log[k])
    BY <1>1, <1>4, <2>1 DEF Chain
  <2> QED
    BY <1>1, <1>2, <1>3, <1>6, <2>1, <2>2 DEF Chain
<1> QED
  BY <1>5, <1>6

(* An entry that begins where the trail ends.                              *)
LEMMA LinkedAppend ==
  ASSUME NEW trail \in Seq(Entry), Linked(trail), NEW e \in Entry, LastIs(trail, e.from)
  PROVE  Linked(Append(trail, e)) /\ LastIs(Append(trail, e), e.to)
<1>1. PICK long : long = Append(trail, e)
  OBVIOUS
<1>2. /\ Len(long) = Len(trail) + 1 /\ Len(trail) \in Nat
      /\ long[Len(trail) + 1] = e
      /\ \A n \in 1..Len(trail) : long[n] = trail[n]
  BY <1>1
<1>3. LastIs(long, e.to)
  BY <1>2 DEF LastIs
<1>4. ASSUME NEW n \in 1..Len(long) - 1
      PROVE  long[n + 1].from = long[n].to
  <2>1. CASE n = Len(trail)
    <3>1. trail # <<>> /\ trail[n].to = e.from
      BY <1>2, <1>4, <2>1 DEF LastIs
    <3> QED
      BY <1>2, <1>4, <2>1, <3>1
  <2>2. CASE n # Len(trail)
    <3>1. n \in 1..Len(trail) - 1 /\ n + 1 \in 1..Len(trail) /\ n \in 1..Len(trail)
      BY <1>2, <1>4, <2>2
    <3> QED
      BY <1>2, <3>1 DEF Linked
  <2> QED
    BY <2>1, <2>2
<1> QED
  BY <1>1, <1>3, <1>4 DEF Linked

LEMMA ChainRecord ==
  ASSUME IndInv, ChainSound, NEW h \in Handler, Record(h)
  PROVE  ChainSound'
<1>0. PICK i, e : i = target[h] /\ e = [from |-> from[h], to |-> to[h]]
  OBVIOUS
<1>1. /\ pc[h] = "record"
      /\ log' = [log EXCEPT ![i] = Append(@, e)]
      /\ Goto(h, AfterRecord(h))
      /\ UNCHANGED <<status, unrecorded, overlapped>>
  BY <1>0 DEF Record, history
<1>2. /\ pc'[h] \in {"idle", "block"} /\ (pc'[h] # "idle" => target'[h] = i)
      /\ \A g \in Handler \ {h} : /\ pc'[g] = pc[g] /\ target'[g] = target[g]
                                  /\ from'[g] = from[g] /\ to'[g] = to[g]
  BY <1>0, <1>1, GotoKeeps, AfterRecordType DEF IndInv
<1>3. /\ i \in Incident /\ log[i] \in Seq(Entry) /\ log'[i] = Append(log[i], e)
      /\ \A k \in Incident \ {i} : log'[k] = log[k]
      /\ e \in Entry /\ e.from = from[h] /\ e.to = to[h]
  BY <1>0, <1>1 DEF IndInv, Shape, Entry
<1> SUFFICES ASSUME NEW k \in Incident \ overlapped
             PROVE  Chain(k)'
  BY <1>1 DEF ChainSound
<1>4. Chain(k)
  BY DEF ChainSound
<1>5. CASE k # i
  BY <1>0, <1>1, <1>2, <1>3, <1>4, <1>5, ChainAside
<1>6. CASE k = i
  <2>1. Busy(k) = {h} /\ Busy(k)' \subseteq {h}
    BY <1>0, <1>1, <1>2, <1>4, <1>6, ChainAlone
  <2>2. unrecorded[k] = 0 =>
          Linked(log[k]) /\ LastIs(log[k], e.from) /\ e.to = status[k]
    BY <1>1, <1>3, <1>4, <2>1 DEF Chain
  <2>3. unrecorded[k] = 0 => Linked(log'[k]) /\ LastIs(log'[k], status[k])
    BY <1>3, <1>6, <2>2, LinkedAppend
  <2> QED
    BY <1>1, <1>2, <2>1, <2>3 DEF Chain
<1> QED
  BY <1>5, <1>6

(* Blocking and failing leave trail and status alone. *)
LEMMA ChainRest ==
  ASSUME IndInv, ChainSound, NEW h \in Handler, Block(h) \/ StatementFails(h)
  PROVE  ChainSound'
<1>0. PICK i : i = target[h]
  OBVIOUS
<1>1. PICK stmt \in {"idle", "block"} :
        /\ Goto(h, stmt)
        /\ stmt # "idle" => pc[h] = "record"
        /\ pc[h] = "record" => unrecorded' = [unrecorded EXCEPT ![i] = @ + 1]
        /\ pc[h] # "record" => \A k \in Incident : unrecorded'[k] = unrecorded[k]
  <2>1. CASE Block(h)
    BY <2>1 DEF Block, history
  <2>2. CASE StatementFails(h)
    <3>1. unrecorded' = [unrecorded EXCEPT ![i] = @ + (IF pc[h] = "record" THEN 1 ELSE 0)]
      BY <1>0, <2>2 DEF StatementFails
    <3>2. pc[h] # "record" => \A k \in Incident : unrecorded'[k] = unrecorded[k]
      BY <3>1 DEF IndInv, Shape
    <3>3. Goto(h, IF pc[h] = "record" THEN AfterRecord(h) ELSE "idle")
      BY <2>2 DEF StatementFails
    <3> QED
      BY <3>1, <3>2, <3>3, AfterRecordType
  <2> QED
    BY <2>1, <2>2
<1>2. /\ pc[h] # "idle"
      /\ UNCHANGED <<status, log, overlapped>>
  BY DEF Block, StatementFails, history, incident
<1>3. /\ pc'[h] = stmt /\ (pc'[h] # "idle" => target'[h] = i)
      /\ \A g \in Handler \ {h} : /\ pc'[g] = pc[g] /\ target'[g] = target[g]
                                  /\ from'[g] = from[g] /\ to'[g] = to[g]
  BY <1>0, <1>1, <1>2, GotoKeeps DEF IndInv
<1>4. /\ i \in Incident /\ unrecorded[i] \in Nat
      /\ pc[h] = "record" => unrecorded'[i] = unrecorded[i] + 1
      /\ \A k \in Incident \ {i} : unrecorded'[k] = unrecorded[k]
  BY <1>0, <1>1, <1>2 DEF IndInv, Shape
<1> SUFFICES ASSUME NEW k \in Incident \ overlapped
             PROVE  Chain(k)'
  BY <1>2 DEF ChainSound
<1>5. Chain(k)
  BY DEF ChainSound
<1>6. CASE k # i
  BY <1>0, <1>2, <1>3, <1>4, <1>5, <1>6, ChainAside
<1>7. CASE k = i
  <2>1. Busy(k) = {h} /\ Busy(k)' \subseteq {h}
    BY <1>0, <1>2, <1>3, <1>5, <1>7, ChainAlone
  <2>2. CASE pc[h] = "record"
    <3>1. unrecorded'[k] # 0
      BY <1>4, <1>7, <2>2
    <3> QED
      BY <2>1, <3>1 DEF Chain
  <2>3. CASE pc[h] # "record"
    <3>1. Busy(k)' = {} /\ unrecorded'[k] = unrecorded[k]
      BY <1>0, <1>1, <1>2, <1>3, <1>5, <1>7, <2>3, ChainAlone
    <3>2. unrecorded[k] = 0 => Linked(log[k]) /\ LastIs(log[k], status[k])
      BY <1>5, <2>1, <2>3 DEF Chain
    <3> QED
      BY <1>2, <3>1, <3>2 DEF Chain
  <2> QED
    BY <2>2, <2>3
<1> QED
  BY <1>6, <1>7

(* The end of the process: an entry that is not written is missed, and     *)
(* where none was to be written the last one names the status.             *)
LEMMA ChainEnds ==
  ASSUME BoundAssumption, IndInv, ChainSound, ProcessEnds
  PROVE  ChainSound'
<1>1. /\ pc' = [h \in Handler |-> "idle"]
      /\ unrecorded' = [i \in Incident |->
           unrecorded[i] + Cardinality({h \in Busy(i) : pc[h] = "record"})]
      /\ UNCHANGED <<status, log, overlapped>>
  BY DEF ProcessEnds, incident
<1> SUFFICES ASSUME NEW i \in Incident \ overlapped
             PROVE  Chain(i)'
  BY <1>1 DEF ChainSound
<1>2. PICK S : S = {h \in Busy(i) : pc[h] = "record"}
  OBVIOUS
<1>3. /\ unrecorded[i] \in Nat /\ Cardinality(S) \in Nat
      /\ Cardinality(S) = 0 => S = {}
      /\ unrecorded'[i] = unrecorded[i] + Cardinality(S)
  BY <1>1, <1>2, InterruptedFinite DEF IndInv, Shape
<1>4. Busy(i)' = {}
  BY <1>1 DEF Busy
<1>5. ASSUME unrecorded'[i] = 0
      PROVE  Linked(log[i]) /\ LastIs(log[i], status[i])
  <2>1. unrecorded[i] = 0 /\ S = {}
    BY <1>3, <1>5
  <2>2. \A h \in Busy(i) : pc[h] # "record"
    BY <1>2, <2>1
  <2> QED
    BY <2>1, <2>2 DEF ChainSound, Chain
<1> QED
  BY <1>1, <1>4, <1>5 DEF Chain

LEMMA ChainStep ==
  ASSUME BoundAssumption PROVE IndInv /\ ChainSound /\ [Next]_vars => ChainSound'
<1> SUFFICES ASSUME IndInv, ChainSound, [Next]_vars PROVE ChainSound'
  OBVIOUS
<1>1. ASSUME UNCHANGED <<status, log, pc, target, from, to, unrecorded, overlapped>>
      PROVE  ChainSound'
  BY <1>1 DEF ChainSound, Chain, Busy
<1>2. CASE UNCHANGED vars
  BY <1>1, <1>2 DEF vars, incident, request, history
<1>3. ASSUME NEW i \in Incident, ContainCampaign(i) \/ Unblock(i)
      PROVE  ChainSound'
  BY <1>1, <1>3 DEF ContainCampaign, Unblock, request, history
<1> QED
  BY <1>2, <1>3, ChainRead, ChainUpdate, ChainRecord, ChainRest, ChainEnds DEF Next

-----------------------------------------------------------------------------
(* The number of failed statements keeps to its bound.                     *)
FaultsBounded == faults \in 0..MaxFaults

LEMMA FaultsKept ==
  ASSUME BoundAssumption PROVE FaultsBounded /\ [Next]_vars => FaultsBounded'
<1> SUFFICES ASSUME FaultsBounded, [Next]_vars PROVE FaultsBounded'
  OBVIOUS
<1>1. faults' = faults \/ (faults < MaxFaults /\ faults' = faults + 1)
  BY DEF Next, Read, Starts, Update, Record, Block, StatementFails, ContainCampaign, Unblock,
         ProcessEnds, vars
<1> QED
  BY <1>1 DEF FaultsBounded, BoundAssumption

(* The variables have their types (risk_posture_engine.go 412-475). *)
THEOREM TypeCorrect == ASSUME BoundAssumption PROVE Spec => []TypeOK
<1>1. Init => FaultsBounded
  BY DEF Init, FaultsBounded, BoundAssumption
<1>2. IndInv /\ FaultsBounded => TypeOK
  BY DEF IndInv, Shape, FaultsBounded, TypeOK
<1>3. FaultsBounded /\ [Next]_vars => FaultsBounded'
  BY FaultsKept
<1> QED
  BY <1>1, <1>2, <1>3, InitIndInv, IndInvStep, PTL DEF Spec

(* At rest the entries link up and the last one names the current status,  *)
(* until two transitions of the incident overlap or an entry is not        *)
(* written (risk_posture_engine.go 461).                                           *)
THEOREM ChainCorrect == ASSUME BoundAssumption PROVE Spec => []TrailIsChain
<1>1. ChainSound => TrailIsChain
  BY DEF ChainSound, Chain, LastIs, TrailIsChain
<1> QED
  BY <1>1, InitIndInv, IndInvStep, ChainInit, ChainStep, PTL DEF Spec

(* However transitions overlap and fail, an audit entry names statuses the *)
(* incident has had (risk_posture_engine.go 448-466).                      *)
THEOREM TrailCorrect == ASSUME BoundAssumption PROVE Spec => []TrailIsTrue
<1>1. IndInv => TrailIsTrue
  BY DEF IndInv, RequestIsTrue, TrailSound, TrailIsTrue, Busy
<1> QED
  BY <1>1, InitIndInv, IndInvStep, PTL DEF Spec

(* At rest RESOLVED has a time, and CONTAINED a blocked attacker, unless   *)
(* the block failed, was lifted, or the process ended before it            *)
(* (risk_posture_engine.go 448-475).                                       *)
THEOREM EffectCorrect == ASSUME BoundAssumption PROVE Spec => []StatusHasEffect
<1>1. IndInv => StatusHasEffect
  BY DEF IndInv, EffectSound, StatusHasEffect, Busy
<1> QED
  BY <1>1, InitIndInv, IndInvStep, PTL DEF Spec
=============================================================================
