-------------------------- MODULE ConfigSync_proofs --------------------------
(***************************************************************************)
(* Theorems about ConfigSync, for any set of rows, any number of tables    *)
(* and any set of handlers.                                                *)
(***************************************************************************)
EXTENDS ConfigSync, TLAPS

LEMMA RequiredSections == Base \in Section /\ BlockedIPs \in Section
BY SectionAssumption DEF Base, BlockedIPs, Section

LEMMA NothingReadType == NothingRead \in Content
BY DEF NothingRead, Content

LEMMA BaseOnlyType ==
  ASSUME NEW rules \in SUBSET Rule PROVE BaseOnly(rules) \in Content
BY NothingReadType, RequiredSections DEF BaseOnly, Content

LEMMA WitnessType ==
  ASSUME TypeOK, NEW store \in Content
  PROVE  Witness(store) \in [Handler -> [Section -> SUBSET SUBSET Rule]]
BY DEF TypeOK, Witness, Content

(* The initial states of both specifications satisfy the invariant. *)
LEMMA InitIndInv == Init \/ InitServing => IndInv
<1> SUFFICES ASSUME Init \/ InitServing PROVE IndInv
  OBVIOUS
<1>1. NoRequest
  BY DEF Init, InitServing
<1>2. /\ db \in Content
      /\ live \in Content \cup {NoSnapshot}
      /\ version \in Nat
      /\ stage \in {"starting", "cache", "serving"}
      /\ snapshots \subseteq Content
  BY BaseOnlyType, DefaultAssumption DEF Init, InitServing
<1>3. TypeOK
  BY <1>1, <1>2, NothingReadType, SectionAssumption
     DEF TypeOK, NoRequest, NothingRead
<1>4. RequestShape
  BY <1>1 DEF RequestShape, NoRequest, Init, InitServing
<1>5. AssembledWasStored
  BY <1>1 DEF AssembledWasStored, NoRequest
<1> QED
  BY <1>3, <1>4, <1>5 DEF IndInv

-----------------------------------------------------------------------------
(* The helpers of the actions, as facts about the types they keep. *)
LEMMA BeginType ==
  ASSUME TypeOK, NEW h \in Handler, NEW kind \in {"sync", "config", "rollback"},
         NEW stop \in {"idle", "query", "push"}, NEW content \in Content,
         NEW store \in Content, Begin(h, kind, stop, content, store)
  PROVE  /\ pc' \in [Handler -> {"idle", "query", "push"}]
         /\ job' \in [Handler -> {"sync", "config", "rollback"}]
         /\ next' \in [Handler -> 1..NumSections + 1]
         /\ acc' \in [Handler -> Content]
         /\ held' \in [Handler -> [Section -> SUBSET SUBSET Rule]]
         /\ dropped' \in [Handler -> SUBSET Section]
<1>1. Witness(store) \in [Handler -> [Section -> SUBSET SUBSET Rule]]
  BY WitnessType
<1>2. [s \in Section |-> {store[s]}] \in [Section -> SUBSET SUBSET Rule]
  BY DEF Content
<1>3. held' \in [Handler -> [Section -> SUBSET SUBSET Rule]]
  BY <1>1, <1>2 DEF Begin
<1> QED
  BY <1>3, SectionAssumption DEF Begin, TypeOK

LEMMA FinishType ==
  ASSUME TypeOK, NEW h \in Handler, Finish(h)
  PROVE  /\ pc' \in [Handler -> {"idle", "query", "push"}]
         /\ job' \in [Handler -> {"sync", "config", "rollback"}]
         /\ next' \in [Handler -> 1..NumSections + 1]
         /\ acc' \in [Handler -> Content]
         /\ held' \in [Handler -> [Section -> SUBSET SUBSET Rule]]
         /\ dropped' \in [Handler -> SUBSET Section]
<1>1. NothingRead \in [Section -> SUBSET SUBSET Rule]
  BY DEF NothingRead
<1> QED
  BY <1>1, NothingReadType, SectionAssumption DEF Finish, TypeOK

LEMMA AdvanceType ==
  ASSUME TypeOK, NEW h \in Handler, next[h] \in Section,
         NEW rows \in SUBSET Rule, NEW lost \in SUBSET Section,
         Advance(h, rows, lost)
  PROVE  TypeOK'
<1>1. acc[h] \in [Section -> SUBSET Rule]
  BY DEF TypeOK, Content
<1>2. acc' \in [Handler -> Content]
  BY <1>1 DEF Advance, TypeOK, Content
<1>3. next' \in [Handler -> 1..NumSections + 1]
  BY SectionAssumption DEF Advance, TypeOK, Section
<1>4. UNCHANGED <<db, live, version, stage, snapshots, job, held>>
  BY DEF Advance, process
<1> QED
  BY <1>2, <1>3, <1>4 DEF Advance, TypeOK

(* Every step keeps the types. *)
LEMMA TypeStep ==
  ASSUME TypeOK, RequestShape, [Next]_vars
  PROVE  TypeOK'
<1> USE DEF process
<1>1. ASSUME NEW h \in Handler, NEW s \in Section, NEW rows \in SUBSET Rule,
             Submit(h, s, rows)
      PROVE  TypeOK'
  <2>1. db' \in Content
    BY <1>1 DEF Submit, TypeOK, Content
  <2>2. UNCHANGED <<live, version, stage, snapshots>>
    BY <1>1 DEF Submit
  <2> QED
    BY <1>1, <2>1, <2>2, BeginType, NothingReadType DEF Submit, TypeOK
<1>2. ASSUME NEW h \in Handler, NEW rules \in SUBSET Rule, UpdateConfig(h, rules)
      PROVE  TypeOK'
  <2>1. db' \in Content
    BY <1>2, RequiredSections DEF UpdateConfig, TypeOK, Content
  <2>2. UNCHANGED <<live, version, stage, snapshots>>
    BY <1>2 DEF UpdateConfig
  <2> QED
    BY <1>2, <2>1, <2>2, BeginType, BaseOnlyType DEF UpdateConfig, TypeOK
<1>3. ASSUME NEW h \in Handler, NEW content \in snapshots, Rollback(h, content)
      PROVE  TypeOK'
  <2>1. content \in Content /\ db \in Content
    BY DEF TypeOK
  <2>2. UNCHANGED <<db, live, version, stage, snapshots>>
    BY <1>3 DEF Rollback
  <2> QED
    BY <1>3, <2>1, <2>2, BeginType DEF Rollback, TypeOK
<1>4. ASSUME NEW h \in Handler, QuerySection(h) PROVE TypeOK'
  <2>1. next[h] \in Section
    BY <1>4 DEF QuerySection, RequestShape
  <2>2. db[next[h]] \in SUBSET Rule
    BY <2>1 DEF TypeOK, Content
  <2> QED
    BY <1>4, <2>1, <2>2, AdvanceType DEF QuerySection
<1>5. ASSUME NEW h \in Handler, LoseRows(h) PROVE TypeOK'
  <2>1. next[h] \in Section
    BY <1>5 DEF LoseRows, RequestShape
  <2>2. db[next[h]] \in SUBSET Rule
    BY <2>1 DEF TypeOK, Content
  <2>3. PICK rows \in SUBSET db[next[h]] : Advance(h, rows, {next[h]})
    BY <1>5 DEF LoseRows
  <2> QED
    BY <2>1, <2>2, <2>3, AdvanceType
<1>6. ASSUME NEW h \in Handler, AbortSync(h) PROVE TypeOK'
  BY <1>6, FinishType DEF AbortSync, TypeOK
<1>7. ASSUME NEW h \in Handler, Push(h) PROVE TypeOK'
  <2>1. acc[h] \in Content
    BY DEF TypeOK
  <2>2. Finish(h)
    BY <1>7 DEF Push
  <2>3. snapshots' \subseteq Content
    BY <1>7, <2>1 DEF Push, TypeOK
  <2>4. /\ live' \in Content \cup {NoSnapshot}
        /\ version' \in Nat
        /\ UNCHANGED <<db, stage>>
    BY <1>7, <2>1 DEF Push, TypeOK
  <2> QED
    BY <2>2, <2>3, <2>4, FinishType DEF TypeOK
<1>8. ASSUME NEW r \in Rule, BlockWithoutSync(r) PROVE TypeOK'
  <2>1. db' \in Content
    BY <1>8, RequiredSections DEF BlockWithoutSync, TypeOK, Content
  <2> QED
    BY <1>8, <2>1, WitnessType DEF BlockWithoutSync, TypeOK
<1>9. ASSUME NEW s \in Section, NEW r \in Rule, Expire(s, r) PROVE TypeOK'
  <2>1. db' \in Content
    BY <1>9 DEF Expire, TypeOK, Content
  <2> QED
    BY <1>9, <2>1, WitnessType DEF Expire, TypeOK
<1>10. ASSUME MakeCache PROVE TypeOK'
  BY <1>10 DEF MakeCache, TypeOK, request
<1>11. ASSUME PushDefault PROVE TypeOK'
  BY <1>11, BaseOnlyType, DefaultAssumption DEF PushDefault, TypeOK, request
<1>12. ASSUME Restart PROVE TypeOK'
  BY <1>12, NothingReadType, SectionAssumption
     DEF Restart, TypeOK, NothingRead
<1>13. ASSUME UNCHANGED vars PROVE TypeOK'
  BY <1>13 DEF vars, request, TypeOK
<1>14. \A s \in Section, r \in Rule :
         db[s] \cup {r} \in SUBSET Rule /\ db[s] \ {r} \in SUBSET Rule
  BY DEF TypeOK, Content
<1> QED
  BY <1>1, <1>2, <1>3, <1>4, <1>5, <1>6, <1>7, <1>8, <1>9, <1>10, <1>11,
     <1>12, <1>13, <1>14 DEF Next, Edit, Sync

-----------------------------------------------------------------------------
(* A request only moves as far as its pc says.                             *)
LEMMA ShapeStep ==
  ASSUME IndInv, [Next]_vars
  PROVE  RequestShape'
<1> USE DEF process, RequestShape
<1>0. TypeOK /\ RequestShape
  BY DEF IndInv
<1>1. ASSUME NEW h \in Handler, NEW kind, NEW stop, NEW content, NEW store,
             Begin(h, kind, stop, content, store),
             stop = "query" \/ (stop = "push" /\ kind # "sync"),
             UNCHANGED <<live, stage>>
      PROVE  RequestShape'
  BY <1>0, <1>1, SectionAssumption DEF Begin, TypeOK, Section
<1>2. ASSUME NEW h \in Handler, Finish(h),
             stage' = "starting" => live' = NoSnapshot
      PROVE  RequestShape'
  BY <1>0, <1>2 DEF Finish, TypeOK
<1>3. ASSUME NEW h \in Handler, NEW rows, NEW lost, next[h] \in Section,
             Advance(h, rows, lost)
      PROVE  RequestShape'
  BY <1>0, <1>3, SectionAssumption DEF Advance, TypeOK, Section
<1>4. ASSUME UNCHANGED <<pc, job, next>>,
             stage' = "starting" => live' = NoSnapshot
      PROVE  RequestShape'
  BY <1>0, <1>4
<1>5. ASSUME NEW h \in Handler, NEW s \in Section, NEW rows, Submit(h, s, rows)
      PROVE  RequestShape'
  BY <1>1, <1>5 DEF Submit
<1>6. ASSUME NEW h \in Handler, NEW rules, UpdateConfig(h, rules)
      PROVE  RequestShape'
  BY <1>1, <1>6 DEF UpdateConfig
<1>7. ASSUME NEW h \in Handler, NEW content, Rollback(h, content)
      PROVE  RequestShape'
  BY <1>1, <1>7 DEF Rollback
<1>8. ASSUME NEW h \in Handler, QuerySection(h) PROVE RequestShape'
  BY <1>0, <1>3, <1>8 DEF QuerySection
<1>9. ASSUME NEW h \in Handler, LoseRows(h) PROVE RequestShape'
  BY <1>0, <1>3, <1>9 DEF LoseRows
<1>10. ASSUME NEW h \in Handler, AbortSync(h) PROVE RequestShape'
  BY <1>0, <1>2, <1>10 DEF AbortSync
<1>11. ASSUME NEW h \in Handler, Push(h) PROVE RequestShape'
  BY <1>0, <1>2, <1>11 DEF Push
<1>12. ASSUME NEW r \in Rule, BlockWithoutSync(r) PROVE RequestShape'
  BY <1>0, <1>4, <1>12 DEF BlockWithoutSync
<1>13. ASSUME NEW s \in Section, NEW r \in Rule, Expire(s, r)
       PROVE  RequestShape'
  BY <1>0, <1>4, <1>13 DEF Expire
<1>14. ASSUME MakeCache \/ PushDefault \/ UNCHANGED vars PROVE RequestShape'
  BY <1>0, <1>4, <1>14 DEF MakeCache, PushDefault, vars, request
<1>15. ASSUME Restart PROVE RequestShape'
  BY <1>0, <1>15, SectionAssumption DEF Restart, Section
<1> QED
  BY <1>5, <1>6, <1>7, <1>8, <1>9, <1>10, <1>11, <1>12, <1>13, <1>14, <1>15
     DEF Next, Edit, Sync

(* One request's part of AssembledWasStored. *)
Traced(h) ==
  pc[h] # "idle" /\ job[h] = "sync" =>
    \A s \in Section :
      /\ db[s] \in held[h][s]
      /\ s < next[h] =>
           \/ acc[h][s] \in held[h][s]
           \/ /\ s \in dropped[h]
              /\ \E rows \in held[h][s] : acc[h][s] \subseteq rows

(* A request that this step does not move stays traced, because every      *)
(* change of the store is witnessed.                                       *)
LEMMA TracedOther ==
  ASSUME TypeOK, NEW g \in Handler, Traced(g),
         pc'[g] = pc[g], job'[g] = job[g], next'[g] = next[g],
         acc'[g] = acc[g], dropped'[g] = dropped[g],
         \/ UNCHANGED db /\ held'[g] = held[g]
         \/ pc[g] # "idle" => held'[g] = Witness(db')[g]
  PROVE  Traced(g)'
<1> SUFFICES ASSUME pc[g] # "idle", job[g] = "sync", NEW s \in Section
             PROVE  /\ db'[s] \in held'[g][s]
                    /\ s < next[g] =>
                         \/ acc[g][s] \in held'[g][s]
                         \/ /\ s \in dropped[g]
                            /\ \E rows \in held'[g][s] : acc[g][s] \subseteq rows
  BY DEF Traced
<1>1. \/ UNCHANGED db /\ held'[g][s] = held[g][s]
      \/ held'[g][s] = held[g][s] \cup {db'[s]}
  BY DEF Witness
<1> QED
  BY <1>1 DEF Traced

LEMMA TracedStep ==
  ASSUME IndInv, [Next]_vars, NEW g \in Handler
  PROVE  Traced(g)'
<1> USE DEF process
<1>0. TypeOK /\ RequestShape /\ Traced(g)
  BY DEF IndInv, AssembledWasStored, Traced
<1>1. ASSUME NEW h \in Handler, NEW kind, NEW stop, NEW content,
             Begin(h, kind, stop, content, db')
      PROVE  Traced(g)'
  <2>1. CASE g = h
    <3>1. next'[g] = 1 /\ held'[g] = [s \in Section |-> {db'[s]}]
      BY <1>0, <1>1, <2>1 DEF Begin, TypeOK, Witness
    <3> QED
      BY <3>1 DEF Traced, Section
  <2>2. CASE g # h
    <3>1. held'[g] = Witness(db')[g]
      BY <1>1, <2>2 DEF Begin, Witness
    <3>2. /\ pc'[g] = pc[g] /\ job'[g] = job[g] /\ next'[g] = next[g]
          /\ acc'[g] = acc[g] /\ dropped'[g] = dropped[g]
      BY <1>0, <1>1, <2>2 DEF Begin, TypeOK
    <3> QED
      BY <1>0, <3>1, <3>2, TracedOther
  <2> QED
    BY <2>1, <2>2
<1>2. ASSUME NEW h \in Handler, Finish(h), UNCHANGED db
      PROVE  Traced(g)'
  <2>1. CASE g = h
    BY <1>0, <1>2, <2>1 DEF Finish, TypeOK, Traced
  <2>2. CASE g # h
    BY <1>0, <1>2, <2>2, TracedOther DEF Finish, TypeOK
  <2> QED
    BY <2>1, <2>2
<1>3. ASSUME NEW h \in Handler, pc[h] = "query",
             NEW rows \in SUBSET db[next[h]], NEW lost,
             Advance(h, rows, lost),
             rows = db[next[h]] \/ next[h] \in lost
      PROVE  Traced(g)'
  <2>1. CASE g = h
    <3>1. next[g] \in Section /\ next[g] \in Nat
      BY <1>0, <1>3, <2>1, SectionAssumption DEF RequestShape, Section
    <3>2. /\ acc'[g] = [acc[g] EXCEPT ![next[g]] = rows]
          /\ next'[g] = next[g] + 1
          /\ dropped'[g] = dropped[g] \cup lost
          /\ pc'[g] # "idle"
          /\ UNCHANGED <<db, job, held>>
      BY <1>0, <1>3, <2>1 DEF Advance, TypeOK
    <3> SUFFICES ASSUME job[g] = "sync", NEW s \in Section
                 PROVE  /\ db[s] \in held[g][s]
                        /\ s < next[g] + 1 =>
                             \/ acc'[g][s] \in held[g][s]
                             \/ /\ s \in dropped'[g]
                                /\ \E all \in held[g][s] : acc'[g][s] \subseteq all
      BY <3>2 DEF Traced
    <3>3. db[s] \in held[g][s]
      BY <1>0, <1>3, <2>1 DEF Traced
    <3>4. acc[g] \in [Section -> SUBSET Rule]
      BY <1>0 DEF TypeOK, Content
    <3>5. CASE s = next[g]
      <4>1. acc'[g][s] = rows
        BY <3>1, <3>2, <3>4, <3>5
      <4> QED
        BY <1>3, <2>1, <3>2, <3>3, <3>5, <4>1
    <3>6. CASE s # next[g]
      <4>1. acc'[g][s] = acc[g][s]
        BY <3>2, <3>4, <3>6
      <4>2. s < next[g] + 1 => s < next[g]
        BY <3>1, <3>6, SectionAssumption DEF Section
      <4> QED
        BY <1>0, <1>3, <2>1, <3>2, <3>3, <4>1, <4>2 DEF Traced
    <3> QED
      BY <3>5, <3>6
  <2>2. CASE g # h
    BY <1>0, <1>3, <2>2, TracedOther DEF Advance, TypeOK
  <2> QED
    BY <2>1, <2>2
<1>4. ASSUME UNCHANGED <<pc, job, next, acc, dropped>>,
             held' = Witness(db') \/ UNCHANGED <<db, held>>
      PROVE  Traced(g)'
  BY <1>0, <1>4, TracedOther
<1>5. ASSUME NEW h \in Handler, NEW s \in Section, NEW rows, Submit(h, s, rows)
      PROVE  Traced(g)'
  BY <1>1, <1>5 DEF Submit
<1>6. ASSUME NEW h \in Handler, NEW rules, UpdateConfig(h, rules)
      PROVE  Traced(g)'
  BY <1>1, <1>6 DEF UpdateConfig
<1>7. ASSUME NEW h \in Handler, NEW content, Rollback(h, content)
      PROVE  Traced(g)'
  BY <1>1, <1>7 DEF Rollback
<1>8. ASSUME NEW h \in Handler, QuerySection(h) PROVE Traced(g)'
  BY <1>3, <1>8 DEF QuerySection
<1>9. ASSUME NEW h \in Handler, LoseRows(h) PROVE Traced(g)'
  BY <1>3, <1>9 DEF LoseRows
<1>10. ASSUME NEW h \in Handler, AbortSync(h) \/ Push(h) PROVE Traced(g)'
  BY <1>2, <1>10 DEF AbortSync, Push
<1>11. ASSUME NEW r \in Rule, BlockWithoutSync(r) PROVE Traced(g)'
  BY <1>4, <1>11 DEF BlockWithoutSync
<1>12. ASSUME NEW s \in Section, NEW r \in Rule, Expire(s, r) PROVE Traced(g)'
  BY <1>4, <1>12 DEF Expire
<1>13. ASSUME MakeCache \/ PushDefault \/ UNCHANGED vars PROVE Traced(g)'
  BY <1>4, <1>13 DEF MakeCache, PushDefault, vars, request
<1>14. ASSUME Restart PROVE Traced(g)'
  BY <1>14 DEF Restart, Traced
<1> QED
  BY <1>5, <1>6, <1>7, <1>8, <1>9, <1>10, <1>11, <1>12, <1>13, <1>14
     DEF Next, Edit, Sync

LEMMA IndInvStep == IndInv /\ [Next]_vars => IndInv'
<1> SUFFICES ASSUME IndInv, [Next]_vars PROVE IndInv'
  OBVIOUS
<1>1. TypeOK'
  BY TypeStep DEF IndInv
<1>2. RequestShape'
  BY ShapeStep
<1>3. AssembledWasStored'
  BY TracedStep DEF AssembledWasStored, Traced
<1> QED
  BY <1>1, <1>2, <1>3 DEF IndInv

-----------------------------------------------------------------------------
(* Only the Push of h itself looks like a push by h. *)
LEMMA PushesIsPush ==
  ASSUME TypeOK, RequestShape, [Next]_vars, NEW h \in Handler, Pushes(h)
  PROVE  Push(h)
<1> USE DEF process, Pushes, TypeOK
<1>1. ASSUME NEW g \in Handler, NEW s \in Section, NEW rows, Submit(g, s, rows)
      PROVE  FALSE
  BY <1>1 DEF Submit
<1>2. ASSUME NEW g \in Handler, NEW rules, UpdateConfig(g, rules) PROVE FALSE
  BY <1>2 DEF UpdateConfig
<1>3. ASSUME NEW g \in Handler, NEW content, Rollback(g, content) PROVE FALSE
  BY <1>3 DEF Rollback
<1>4. ASSUME NEW g \in Handler, QuerySection(g) \/ LoseRows(g) \/ AbortSync(g)
      PROVE  FALSE
  BY <1>4 DEF QuerySection, LoseRows, AbortSync, Advance
<1>5. ASSUME NEW g \in Handler, Push(g) PROVE g = h
  BY <1>5 DEF Push, Finish
<1>6. ASSUME NEW r \in Rule, BlockWithoutSync(r) PROVE FALSE
  BY <1>6 DEF BlockWithoutSync
<1>7. ASSUME NEW s \in Section, NEW r \in Rule, Expire(s, r) PROVE FALSE
  BY <1>7 DEF Expire
<1>8. ASSUME MakeCache \/ PushDefault \/ Restart \/ UNCHANGED vars PROVE FALSE
  BY <1>8 DEF MakeCache, PushDefault, Restart, vars, request
<1> QED
  BY <1>1, <1>2, <1>3, <1>4, <1>5, <1>6, <1>7, <1>8 DEF Next, Edit, Sync

(* A push of an undisturbed sync publishes what is stored. *)
LEMMA UndisturbedStep ==
  ASSUME IndInv, [Next]_vars, NEW h \in Handler, Pushes(h), job[h] = "sync",
         stage # "starting", dropped[h] = {},
         \A s \in Section : held[h][s] = {db[s]}
  PROVE  live' = db'
<1>0. TypeOK /\ RequestShape /\ AssembledWasStored
  BY DEF IndInv
<1>1. Push(h)
  BY <1>0, PushesIsPush
<1>2. pc[h] = "push" /\ live' = acc[h] /\ db' = db
  BY <1>1 DEF Push
<1>3. next[h] = NumSections + 1
  BY <1>0, <1>2 DEF RequestShape
<1>4. ASSUME NEW s \in Section PROVE acc[h][s] = db[s]
  <2>1. s < next[h]
    BY <1>3, SectionAssumption DEF Section
  <2>2. acc[h][s] \in held[h][s]
    BY <1>0, <1>2, <2>1 DEF AssembledWasStored
  <2> QED
    BY <2>2
<1>5. acc[h] \in [Section -> SUBSET Rule] /\ db \in [Section -> SUBSET Rule]
  BY <1>0 DEF TypeOK, Content
<1>6. acc[h] = db
  BY <1>4, <1>5
<1> QED
  BY <1>2, <1>6

(* Every step is a step of LiveConfig or changes nothing it can see. *)
LEMMA PublicationStep ==
  ASSUME IndInv, [Next]_vars
  PROVE  [Publication!Next]_<<live, version>>
<1> USE DEF process
<1>0. TypeOK /\ RequestShape
  BY DEF IndInv
<1>1. ASSUME UNCHANGED <<live, version>>
      PROVE  [Publication!Next]_<<live, version>>
  BY <1>1
<1>2. ASSUME NEW h \in Handler, Push(h) PROVE Publication!Next
  <2>1. acc[h] \in Content
    BY <1>0 DEF TypeOK
  <2>2. CASE stage = "starting"
    BY <1>0, <1>2, <2>2
       DEF Push, RequestShape, Publication!Next, Publication!PushWithoutCache
  <2>3. CASE stage # "starting"
    BY <1>2, <2>1, <2>3 DEF Push, Publication!Next, Publication!Publish
  <2> QED
    BY <2>2, <2>3
<1>3. ASSUME PushDefault PROVE Publication!Next
  BY <1>3, BaseOnlyType, DefaultAssumption
     DEF PushDefault, Publication!Next, Publication!Publish
<1>4. ASSUME Restart PROVE Publication!Next
  BY <1>4 DEF Restart, Publication!Next, Publication!Restart
<1> QED
  BY <1>1, <1>2, <1>3, <1>4
     DEF Next, Edit, Sync, Submit, UpdateConfig, Rollback, QuerySection,
         LoseRows, AbortSync, Advance, BlockWithoutSync, Expire, MakeCache, vars

-----------------------------------------------------------------------------
(* The invariant of the whole specification, boot and restarts included. *)
THEOREM Invariance == Spec => []IndInv
BY InitIndInv, IndInvStep, PTL DEF Spec

(* Whatever requests, query failures, expiries and restarts interleave,    *)
(* every variable keeps its type.                                          *)
THEOREM TypeCorrect == Spec => []TypeOK
BY Invariance, PTL DEF IndInv

(* What a sync has assembled was stored, table by table. *)
THEOREM AssembledCorrect == Spec => []AssembledWasStored
BY Invariance, PTL DEF IndInv

(* A sync that nothing disturbs publishes exactly what is stored. *)
THEOREM UndisturbedCorrect == Spec => UndisturbedSyncPublishesStore
<1>1. IndInv /\ [Next]_vars =>
        [\A h \in Handler :
           /\ Pushes(h)
           /\ job[h] = "sync"
           /\ stage # "starting"
           /\ dropped[h] = {}
           /\ \A s \in Section : held[h][s] = {db[s]}
           => live' = db']_vars
  BY UndisturbedStep
<1> QED
  BY <1>1, Invariance, PTL DEF Spec, UndisturbedSyncPublishesStore

(* The management plane implements the abstract publication. *)
THEOREM Refinement == Spec => PublishesAtomically
<1>1. Init => Publication!Init
  BY DEF Init, Publication!Init
<1>2. IndInv /\ [Next]_vars => [Publication!Next]_<<live, version>>
  BY PublicationStep
<1> QED
  BY <1>1, <1>2, Invariance, PTL
     DEF Spec, PublishesAtomically, Publication!Spec

-----------------------------------------------------------------------------
(* Requests that do not overlap: at any time at most one is in progress,   *)
(* and what it has read is still what is stored.                           *)
SerialInv ==
  /\ IndInv
  /\ stage = "serving"
  /\ \A h \in Handler : pc[h] # "idle" =>
       /\ job[h] = "sync"
       /\ \A s \in Section : s < next[h] => acc[h][s] = db[s]
  /\ QuiescentAgreement

LEMMA SerialStep ==
  ASSUME \A g, h \in Handler : g = h,
         SerialInv, [SyncNext]_vars
  PROVE  SerialInv'
<1> USE DEF process
<1>0. /\ TypeOK /\ RequestShape /\ stage = "serving" /\ QuiescentAgreement
      /\ \A h \in Handler : pc[h] # "idle" =>
           /\ job[h] = "sync"
           /\ \A s \in Section : s < next[h] => acc[h][s] = db[s]
  BY DEF SerialInv, IndInv
<1>1. IndInv'
  <2>1. [Next]_vars
    BY DEF SyncNext, Next
  <2> QED
    BY <2>1, IndInvStep DEF SerialInv
<1> SUFFICES /\ stage' = "serving"
             /\ \A h \in Handler : pc'[h] # "idle" =>
                  /\ job'[h] = "sync"
                  /\ \A s \in Section : s < next'[h] => acc'[h][s] = db'[s]
             /\ QuiescentAgreement'
  BY <1>1 DEF SerialInv
<1>2. ASSUME NEW h \in Handler, NEW s \in Section, NEW rows, Submit(h, s, rows)
      PROVE  /\ stage' = "serving"
             /\ pc'[h] # "idle" /\ job'[h] = "sync" /\ next'[h] = 1
  BY <1>0, <1>2 DEF Submit, Begin, TypeOK
<1>3. ASSUME NEW h \in Handler, QuerySection(h)
      PROVE  /\ stage' = "serving" /\ UNCHANGED <<db, job>>
             /\ pc[h] # "idle" /\ pc'[h] # "idle"
             /\ \A s \in Section : s < next'[h] => acc'[h][s] = db'[s]
  <2>1. next[h] \in Section /\ acc[h] \in [Section -> SUBSET Rule]
    BY <1>0, <1>3 DEF QuerySection, RequestShape, TypeOK, Content
  <2>2. /\ acc'[h] = [acc[h] EXCEPT ![next[h]] = db[next[h]]]
        /\ next'[h] = next[h] + 1
        /\ pc[h] = "query" /\ pc'[h] # "idle"
        /\ UNCHANGED <<db, stage, job>>
    BY <1>0, <1>3 DEF QuerySection, Advance, TypeOK
  <2>3. \A s \in Section : s < next'[h] => s = next[h] \/ s < next[h]
    BY <2>1, <2>2, SectionAssumption DEF Section
  <2> QED
    BY <1>0, <2>1, <2>2, <2>3
<1>4. ASSUME NEW h \in Handler, Push(h)
      PROVE  /\ stage' = "serving" /\ pc'[h] = "idle" /\ live' = db'
  <2>1. /\ pc[h] = "push" /\ live' = acc[h] /\ pc'[h] = "idle"
        /\ UNCHANGED <<db, stage>>
    BY <1>0, <1>4 DEF Push, Finish, TypeOK
  <2>2. next[h] = NumSections + 1
    BY <1>0, <2>1 DEF RequestShape
  <2>3. \A s \in Section : acc[h][s] = db[s]
    BY <1>0, <2>1, <2>2, SectionAssumption DEF Section
  <2>4. acc[h] \in [Section -> SUBSET Rule] /\ db \in [Section -> SUBSET Rule]
    BY <1>0 DEF TypeOK, Content
  <2>5. acc[h] = db
    BY <2>3, <2>4
  <2> QED
    BY <1>0, <2>1, <2>5
<1>5. CASE UNCHANGED vars
  BY <1>0, <1>5 DEF vars, request, QuiescentAgreement
<1>6. CASE SyncNext
  <2>1. PICK h \in Handler : Edit(h) \/ Sync(h)
    BY <1>6 DEF SyncNext
  <2>2. \A g \in Handler : g = h
    OBVIOUS
  <2>3. CASE Edit(h)
    <3>1. /\ stage' = "serving"
          /\ pc'[h] # "idle" /\ job'[h] = "sync" /\ next'[h] = 1
      BY <2>3, <1>2 DEF Edit
    <3> QED
      BY <2>2, <3>1 DEF QuiescentAgreement, Section
  <2>4. CASE QuerySection(h)
    BY <1>0, <1>3, <2>2, <2>4 DEF QuiescentAgreement
  <2>5. CASE Push(h)
    BY <1>4, <2>2, <2>5 DEF QuiescentAgreement
  <2> QED
    BY <2>1, <2>3, <2>4, <2>5 DEF Sync
<1> QED
  BY <1>5, <1>6

(* While requests follow one another, with any number of tables and rows,  *)
(* Envoy serves what is stored whenever the management plane is at rest.   *)
THEOREM SerialAgreement ==
  ASSUME \A g, h \in Handler : g = h
  PROVE  SyncSpec => []QuiescentAgreement
<1>1. InitServing => SerialInv
  BY InitIndInv DEF InitServing, NoRequest, SerialInv, QuiescentAgreement
<1>2. SerialInv /\ [SyncNext]_vars => SerialInv'
  BY SerialStep
<1>3. SerialInv => QuiescentAgreement
  BY DEF SerialInv
<1> QED
  BY <1>1, <1>2, <1>3, PTL DEF SyncSpec
=============================================================================
