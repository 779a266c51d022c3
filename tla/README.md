# WAF-PRO: a TLA+ verification project

This directory models the control logic of WAF-PRO in TLA+. TLC checks the
models on small instances, and TLAPS proves the theorems about them.

- Part 1 is an inventory of the system and part 2 maps the modules to the code.
- Part 3 covers the model-checking runs and part 4 the proofs.
- Part 5 lists where the program disagrees with what its own text says of it.
- Part 6 says what is left out and why. Part 7 says what could come next.

Paths are relative to the repository. A bare `.go` name is in
`management-plane/`, and a bare `.tsx` name or a page's name is in
`dashboard-ui/src/app/`. `PROJECT.json` maps every definition that models code to
the lines it models.

## 1. The system

WAF-PRO is a web application firewall in two planes. Envoy with Coraza is the
data plane: it serves traffic and asks its control plane for a configuration
over xDS. The management plane is one Go binary (`management-plane/`). It has an
HTTP API of about 250 handlers, keeps all durable state in PostgreSQL, turns
that state into one SecLang text, and serves the text to Envoy. A Next.js
dashboard of 37 pages (`dashboard-ui/`) is how people work with it. An AI batch
job, a Kubernetes operator and telemetry shippers surround both.

    dashboard, scripts --HTTP--> handlers --SQL--> PostgreSQL
                                   |  \                ^
                         sync text |   \ goroutines    | loops (HA 4 s, alerts, DDoS)
                                   v    v              |
              UpdateWAFConfig -> xDS cache      sequenceTracker, sessionTracker
                                   |                   ^
                                   v                   | access log, audit events
                                 Envoy / Coraza --> Vector

Every request runs on a goroutine of its own (net/http). The handlers use the
connection pool directly. Apart from the restore they use no transactions, and
apart from the xDS push and the request windows they use no locks. A handler
that writes twice can therefore be interleaved with any other handler between
the two writes, and it can die between them. Most errors of a second statement
are logged or dropped. That is where this program is hard to test, and it is
what the models of the management plane are about.

A page of the dashboard is a React component. It copies some tables into its
state with `fetch`, renders controls for the rows of the copy, and sends a request
for every control somebody uses. Its handlers run without interruption up to an
`await` and from the answer on; in between, other handlers of the page run. No
page aborts a request, numbers its requests, or looks at what an answer is an
answer to. What keeps two requests apart is a flag (`actionLoading`,
`isSubmitting`, `togglingId`) that disables controls until the answer is there,
where a page has one. That is what the models of the dashboard are about.

### Components, their state and what makes them correct

| component | state | operations | hard behaviour | correct when |
|---|---|---|---|---|
| Configuration sync (`main.go` 1677-2218, `xds.go`) | rule tables, xDS snapshot, version counter | edit + `syncDynamicWAFRules`, `updateConfigHandler`, boot push | ten reads without a transaction, overlapping syncs, failed queries, restart | what is served was stored; at rest, served = stored |
| Text assembly (`main.go` 1912-2191) | the text | number, render, join, add rule 1000 | counters of six sections, order of ten parts | ids distinct, precedence kept, nothing forgotten |
| Snapshot history (`main.go` 2199-2217, 4144-4162) | `waf_config_snapshots` | save (3 statements), prune, rollback | unordered savers, crash between statements | only what was served is kept; the newest survives |
| Control plane HA (`control_plane_ha.go`) | `control_plane_instances` | heartbeat, mark stale, elect, claim, renew, drain, step down | processes between two statements, time, crashes | leaders are ACTIVE, leases honoured, leadership recovers |
| Sequence engine (`sequence_engine.go`) | sliding window per client, in memory | append, evaluate, violate | two-step lookup, evaluations after the fact | no request counts twice, no suspicious window is left unjudged |
| Account takeover (`sequence_engine.go` 179-227) | addresses per session token | look up, add, panic | the same; a short token ends the process | only shared tokens are flagged, and those are |
| Incident correlation (`main.go` 1705-1822, 3615-3647, 3798-3835) | `incidents` | find-or-insert, count, set status | concurrent find-or-insert, colliding numbers | each event counted once, for its own source |
| Incident response (`risk_posture_engine.go`, `attack_intelligence.go`) | incident status, `incident_transitions`, `blocked_ips` | transition (4 statements), contain, unblock | overlapping transitions, dropped errors | the trail is true; CONTAINED means blocked |
| Rule lifecycle (`rule_lifecycle.go`) | `rule_lifecycles`, `rule_audit_history` | draft, validate, test, monitor, approve, enforce, retire | any order is accepted, dropped errors | statuses earned and audited |
| Learning (`learning_positive_engine.go`) | learning profile, suggested policies | observe, generate, approve | read-merge-write of a whole profile, INT columns | no feature allowed that was not observed, no body above twice the largest or 10240 |
| Backup and restore (`main.go` 5728-6161) | bundle, all tables | export, damage, reinstall, restore | rejected rows, rows updated in part, old ids beside new sequences | every row inserted or updated in its columns, or none; no duplicates |
| Event ingestion (`main.go` 1705-1822) | `waf_events`, inventory, counters | insert, correlate, forward | fan-out to three parts | covered as far as correlation |
| Dashboard pages that change something (32 `page.tsx` files) | a copy of some tables, flags, forms | click, submit, fetch, poll, leave | answers late, lost or out of order, overlapping handlers, patches of an old copy | one guarded request at a time, a form taken once, a rested page is current, flags come down |
| Dashboard tools that ask (19, on 12 pages) | a question, an answer, a flag | edit, ask, choose, close, go on | answers to overtaken questions, refusals | locked tools answer in order, the latest is shown |

The other components are not modelled; part 6 says why: alert rules, the
management plane's side of cluster nodes and applications, policy versions and
canary, the policy chain, governance, edge routing, API abuse and emergency mode,
simulator and retention, SIEM forwarding, Kubernetes synchronisation, the labs, the
AI engine, two pages and the frame of the dashboard, and static configuration.
The DDoS engine's only effect on modelled state, a call of `correlateIncident`, is
one more event of IncidentCorrelation.

How the modelled components meet:

- Rule handlers write a table and call the sync. The sync assembles a text, pushes
  it, and starts a saver of the history.
- Access log entries feed the sequence engine and the takeover detection. Both end
  in a statement on `threat_indicators`.
- Blocked events feed the correlation, and incidents feed the response. The
  response writes `blocked_ips`, a table the sync reads. `ConfigSync` has that
  write as `BlockWithoutSync`.
- Backup and restore reads and writes the tables of all of them.
- The dashboard's requests are the requests of all of these handlers. To a page, a
  handler is what it makes of a row: it inserts, upserts, sets, flips or removes.
  `Elsewhere` in Page is every other writer of the same rows: another operator, a
  loop, the sync.

`PROJECT.json` lists under "hazards" what a test of this code would hardly reach,
at the line where it bites and with the properties that watch it.

## 2. Modules and how they correspond to the code

One module per component holds VARIABLES, Init, one action per operation or
statement, Next and Spec. The grain is one SQL statement, or one section under a
mutex, per step: the code is atomic at exactly that grain. Where a handler
ignores an error, the failing statement is an action beside the succeeding one
and goes on where the handler goes on. Counters that exist only to bound the
state space (`MaxVersion`, `MaxFaults`, ...) appear in guards of actions that
start something, and never stop a request half way. The definitions that
`PROJECT.json` names as the `as` of a mutant are mutated forms of the definition
that follows or precedes them. They show that each property can fail, and no
specification uses them.

- **LiveConfig** is the abstract promise of `UpdateWAFConfig`: the node's snapshot
  is replaced as a whole and each replacement takes the next version.
- **ConfigSync** models a request. It writes a table (`Submit`), then queries the
  tables one after the other (`QuerySection`). A query may lose rows (`LoseRows`:
  the query fails, or `rows.Err` is never looked at) or abort the sync
  (`AbortSync`: only `custom_rules` and `blocked_ips` do). Then it pushes (`Push`,
  under the mutex of `xds.go`). `UpdateConfig` and `Rollback` push other texts.
  `BlockWithoutSync` stands for the three handlers that block an address and never
  sync. `MakeCache`, `PushDefault` and `Restart` are the process's life. A SecLang
  text is the function from table to the rows rendered from it. The history
  variables `held` (values each table had during the request) and `dropped` (tables
  whose rows were lost) are never read by an action. `PublishesAtomically` is
  LiveConfig, under the identity mapping of `live` and `version`.
- **RuleAssembly** is the text in detail: numbers, rows that yield no directive, the
  ten parts, each put before what is joined already, rule 1000. `Ordered` is the order
  in which a query's loop goes through its rows. Its tables rest during a sync;
  ConfigSync is where they do not. It starts from the schema's seed, `DefaultRuleSet`
  alone.
- **SnapshotHistory** is `saveConfigSnapshot`, a goroutine of three statements
  (`ReadMax`, `Insert`, `Prune`). Each can fail, a crash ends it between two of
  them, and rollback pushes and saves again.
- **ControlPlaneHA** is one loop per process, one statement per step (`Heartbeat`,
  `MarkStale`, `Elect`, `Claim`, `Renew`), with drain and the three-statement
  step-down. Time is counted in ticker periods (4 s): a lease of 12 s is 3, staleness
  of 20 s is 5. A ticker holds at most one tick (`due`). `Timely` processes finish a
  round within a period and others may be arbitrarily late. A step-down whose first
  query fails goes on with an empty id, and a failed second or third statement ends it
  (`StepDownFails`). The rows `initControlPlaneHASchema` seeds are replicas that
  nothing runs.
- **SequenceEngine** is lookup, store, append and evaluate of the windows. The
  evaluation is a goroutine of its own. Of a request the model keeps the path and
  the trailing number. The two score thresholds that depend on time are a
  nondeterministic `fast`. `triggerSequenceViolation` stores nothing, because its
  statement assigns a column the table does not have (part 5). `ProcessEnds` forgets
  the windows, which are memory.
- **AccountTakeover** is the same two-step lookup for session tokens. The threshold is
  two addresses, as in the code. The log line of a flag slices `token[:8]`: for a
  `Short` token it panics before the flag (`Panic`), and the process ends. What the
  module counts, it counts since the process started.
- **IncidentCorrelation** is find-or-insert in two statements, with the conflict
  clause and numbers that collide, beside `updateIncidentStatus`, the one-hour
  window and the end of the process.
- **IncidentResponse** is the four statements of a transition, containment and
  unblocking, and the end of the process between two statements. A transition takes
  any text but the empty one for a status (`risk_posture_engine.go` 425; the table has
  no CHECK): `"OTHER"` stands for every text that the code does not know.
- **RuleLifecycle** is what each request checks (`Accepts`), the status it writes
  (`To`) and the predecessor its audit entry claims (`From`). It starts with the seeded
  rules, ENFORCED or, in `Watched`, MONITORING.
- **LearningProfile** is observe, generate and approve, statement by statement. The
  lists that are merged (methods, content types, sensitive paths, parameters) are one
  set of features; of the sizes of bodies the largest is kept. A policy names the
  features as they were learnt, and its body limit is twice the largest size, or 10240
  if that is more (`LimitFor`): of bodies it allows more than was observed. Both are
  INT columns, and a statement with a larger number fails with its error dropped.
- **BackupRestore** is an export that reads table by table, damage in storage, a
  reinstallation on an empty database, and the restore transaction, which
  PostgreSQL aborts at the first rejected row although the loop goes on.
  `ByKey`/`ById` are the two kinds of conflict target. Of a row that is found, ON
  CONFLICT updates some columns (`value`) and leaves the others (`key`, `fixed`) as they
  were: of a custom rule (`main.go` 6016) the description, application, version and
  action, of an identity policy (6128) everything but action and is_enabled. The eleven
  tables that are exported and never restored are left out.

Composition:

- **Detection** composes SequenceEngine, AccountTakeover, IncidentCorrelation
  and IncidentResponse, and **Configuration** composes RuleLifecycle,
  LearningProfile, RuleAssembly, SnapshotHistory and BackupRestore.
- **MCConfigSync**, **MCControlPlaneHA**, **MCDetection** and **MCConfiguration**
  are small instances of the two core modules and of the two composed ones.

In the composed ones the parts share no variable, as in the code they share no row:
what passes between them is a value (an address, a text, an id) that the receiver
takes as it comes. No step of one part can change what a property of another part
says. The composed specification therefore has a variable `focus` that says which
part moves in a behaviour, so that TLC explores the sum and not the product of
their state spaces. Each part runs through all behaviours of its own. Couplings
that do exist are inside a module: `BlockWithoutSync` in ConfigSync,
ContainCampaign in IncidentResponse, Rollback in ConfigSync and SnapshotHistory.
Constants of these parts are assumed instance by instance
(`ASSUME Windows!SizeAssumption`). Since the composed modules leave all constants
open, the theorems of part 4 are about them, and not about the instances.

The dashboard:

- **Page** is what the pages have in common, parameterised by `Made`: what each
  page is made of. Its state is the database's rows (`store`), the copy on display
  (`shown`), the flags with the rows they disable (`busy`), the forms that are
  filled in (`ready`) and the requests in flight (`calls`). A handler is two
  actions. `Click` is the code up to its `await fetch`: the flag is raised and the
  request goes out. `AnswerChange` is the code behind it: the form is cleared or
  its dialog closed, the copy patched or fetched again, and the flag lowered, all
  by the branch for `res.ok`, for a refusal or for `catch`. Between the two, `Take`
  is the management plane, which takes requests in any order. A page's fetch reads
  its tables one by one (`Read`), since most pages issue several requests, and ends
  in `AnswerFetch`. `Leave` unmounts the page: it forgets its state, and what it
  has sent still takes effect. `sent`, `twice` and `excused` are history variables
  that no action's guard reads, but for the bound on Elsewhere.
- **PageParts** is the vocabulary in which a page is described: a handler is
  `Handler` except for what it does, a control is a button, a button of some rows,
  an inline form or a dialog.
- **ShieldPages**, **AdminPages**, **PolicyPages** and **OperationsPages** describe
  32 pages. Each has one definition per handler, one per table or dialog (which rows
  have a control, which flags its `disabled=` names), and one for the component
  with its fetch. `Protects`, `Learns`, `OtherMode` and their like keep what a page
  computes from the row it shows and sends back.
- **Query** is what the tools have in common that ask one question and show one
  answer, and **QueryPages** describes 19 of them: whether the button is locked while
  it asks, whether choosing a row or a filter asks, what a refusal leaves on display,
  and what somebody can go on with (publish a rule, make an exception).
- **MCDashboard** gives Page all 32 pages. **MCQueries** composes Query with ten
  pages that show every way to raise and lower a flag, by `focus`, for the liveness
  of both.

## 3. What the runs check

Twelve runs, one for each distinct question. All state counts are of complete
searches.

| run | instance | shows |
|---|---|---|
| sync_overlap | 2 requests, 3 tables, 1 row, 3 pushes per life; 882,441 states | AssembledWasStored, UndisturbedSyncPublishesStore, PublishesAtomically (refinement of LiveConfig) |
| sync_serial | 1 request at a time, 3 tables, 4 pushes; 128 states | QuiescentAgreement, EditsReachEnvoy (liveness) |
| sync_stale | 2 requests that only edit and sync | violation: QuiescentAgreement |
| ha_upsets | 2 processes, one slow, 1 seeded row, lease 2, staleness 3, 2 upsets; 727,099 states | LeaderIsActive, LeaseIsHonoured, LeadershipRecovers (liveness) |
| ha_stepdown | 1 process, 2 seeded rows | violation: AtMostOneLeader |
| detection | 2 goroutines, window of 3, 4 requests, 2 tokens, one of them short, 2 addresses, 3 incident numbers, 4 events, 3 transitions, 1 fault; 332,434 states | the nine safety properties of the four parts |
| detection_indicator | 1 goroutine | violation: ViolatorIsIndicated |
| configuration | 2 requests, 1 rule, 2 features, sizes whose double stays below the floor, exceeds it and exceeds INT, 3 observations; up to 4 rows in six tables, ranges of two numbers; 2 savers, limit 2, 4 rows; 2 keys, and 2 values in the table without a natural key, where a row keeps its key when it is restored; 1 fault; 967,956 states | RuleLifecycle, LearningProfile, RuleAssembly, SnapshotHistory, BackupRestore |
| configuration_shortcut | 1 request, 1 rule | violation: EnforcedWasApproved |
| dashboard | 32 pages, 1 row (2 where a flag names a row), 2 requests in flight; 549,891 states | OneChangeAtATime, FormIsTakenOnce, RestedPageIsCurrent |
| queries | 19 tools, 3 questions, 3 in flight; 10 pages, 2 requests in flight; 245,573 states | LockedToolsAnswerInOrder, LatestIsShown, AskingEnds and FlagsAreReleased (liveness) |
| queries_deploy | the simulator, 2 rules | violation: DeployedWasSimulated |

Several invariants of a part are one named invariant of its composed run, where they
answer one question: `TextIsWellFormed`, `HistoryIsSound`, `SharedTokensAreFlagged`
and `TrailIsSound` are conjunctions of the named invariants of their modules.

Most properties name the one thing that may make them fail, as a history variable:
overlapping requests (`raced`, `overlapped`), a failed statement (`faults`, `missed`,
`unrecorded`, `lost`), an operator (`reopened`, `spared`), the end of the process
(`lost`, `unrecorded`, `spared`). What a property names so, it does not catch: two
first requests that race, overlapping observations, transitions or savers, a failed
audit entry or block, a claim made after another one, patches that cross and overtaken
answers go wrong in the models as they do in the code, and no property forbids it. The
hazards in `PROJECT.json` say of each property what it excuses. The positive content
of these properties is that nothing else goes wrong. `TrailIsChain`, for instance,
says that no sequence of failures in the *update*, of blocks, of containments or of
requests that do not overlap breaks the audit chain. Without its `\ overlapped` it
fails, and the plain form is a promise the program makes and breaks (part 5).

Of the dashboard, `excused` names what may leave an outdated copy on display: a
change from elsewhere, a lost or refused answer, a fetch that was overtaken, a
patch whose source had changed, or a request that a page had sent before it was
left. `RestedPageIsCurrent` says that nothing else does: whatever a page's own
handlers change, alone or overlapping, some fetch that is issued after it shows it.
`OneChangeAtATime` is about flags that disable every control that raises them
(`Guarded`). Pages with a flag that leaves one of its controls enabled are in the
run, and there nothing is claimed: part 5 lists them.

**Why the bounds are enough.** Every hazard listed needs at most two actors between
two statements of one another, so two handlers, savers, workers, goroutines or
processes are in every run whose question is interleaving. Rows matter only as present
or absent, so one or two do. Three tables give a required first, a required second and
an optional one, which are all the kinds there are. A window of 3 with thresholds
scaled down exercises sliding, reset and refill. The limit of the history (2) is
exceeded by two savers and a failed prune. The ranges of two numbers in RuleAssembly
can be outgrown by the four rows of the run, which `NumbersAreDistinct` (in
`TextIsWellFormed`) excludes and the hazard list names. One fault at any statement
covers "one step of several failing"; the HA run has two, so that a second one can hit
the recovery from the first. A page needs two requests in flight for any crossing of
two handlers, a handler and a fetch, or two fetches, and one row in each table, since
handlers touch one row at a time; two rows where a flag names the row it disables. The
two pages with the most handlers, the policy studio and the protocol shield, are taken
twice, each time with a row in one of their two tables: no handler of theirs touches
both. A tool needs three questions for an answer to be overtaken by one and to
overtake another. The proofs of part 4 remove the bounds for what they prove.

**Symmetry** is used for interchangeable requests and values in safety runs only
(`sync_overlap`, `detection`, `configuration`); none of the
liveness runs has it.

**Fairness.** `FairSyncSpec` assumes WF of each request's own steps: a goroutine
of net/http is scheduled, its statements return, and no handler waits for
another. It does not assume that requests are made. `FairSpec` of ControlPlaneHA
assumes WF of time (`Tick`), of each process's loop (`Round`) and of a step-down
request that has begun, for the same reason. Nothing makes a process boot, stay
up or stay ACTIVE: `LeadershipRecovers` has "from some point on a timely process
is running and ACTIVE" as its hypothesis, because the code does not give it.
A process once marked OFFLINE heartbeats for ever without becoming ACTIVE again.

`MCSpec` of MCQueries assumes WF of the answer to the oldest request: `fetch`
settles some day, if only because the connection breaks, and the browser runs what
waits for it. It does not assume that the management plane takes requests, nor
that anybody clicks, leaves or asks again. `FlagsAreReleased` excepts behaviours
in which somebody leaves the page again and again before its first fetch is
answered.

**Deadlock** is off where the system may rest: bounded requests run out
(`sync_serial`, `sync_stale`, the runs of MCDetection and MCConfiguration). It is on
everywhere else; in a page or a tool some operation is always possible.

## 4. What is proved

Every safety property of every passing run, invariants and action properties alike,
is a theorem, as is the refinement of `LiveConfig`. TLAPS checks the theorems for
every value of the constants that satisfies the named assumptions. The bounds are
constants too, so the theorems hold for any bound, any number of goroutines,
requests, rows, pages and tools. There are seven modules of proofs.

An assumption says what the program or its schema fixes: ranges of ids that do not
meet, at least the two required tables, positive limits. Three say more.

- *Finite sets.* Goroutines, handlers, workers and savers are finite sets, and so is
  what a table may hold: the proofs that count them need it.
- *MadeAssumption* of Page: what a page may be made of. Each handler has its control,
  the controls of one form share one flag, and a row belongs to a table of its page.
- *CopyAssumption* of Page: a handler fetches after it was accepted, or writes into
  the row it was called for the one value it asked for, or asks for no change.

TLC evaluates both of Page's on all 32 pages.

Most properties are not inductive as they stand. The following sections name the
invariant of each module and say why it is needed. In each of them `Init` implies
the invariant, a lemma per action shows that the action keeps it, and the theorems
follow from it.

**ConfigSync_proofs.** The inductive invariant is `IndInv == TypeOK /\
RequestShape /\ AssembledWasStored`. The step of `AssembledWasStored` needs to know
that a request at "query" is at a table that exists, that a sync at "push" has passed
the last one, and that nothing is live before the cache exists. That is
`RequestShape`. The proof has a lemma for the witnesses (`TracedOther`: another
request's table write adds to `held` and keeps what was there).

- `Invariance`, `TypeCorrect`, `AssembledCorrect`: Spec => []IndInv and its parts.
- `UndisturbedCorrect`: an undisturbed sync publishes the store. `PushesIsPush`
  shows that only `Push` is such a step; then every table's singleton `held` makes
  the assembled text the store.
- `Refinement`: Spec => PublishesAtomically. Initial states map to initial states,
  `Push` and `PushDefault` to Publish or PushWithoutCache, Restart to Restart,
  and everything else stutters.
- `SerialAgreement`: if there is at most one handler, SyncSpec =>
  []QuiescentAgreement, for any number of tables and rows. `sync_stale` shows that
  the hypothesis is needed.

**ControlPlaneHA_proofs.** `IndInv == TypeOK /\ LeaderIsActive` is inductive: every
statement that sets is_leader requires ACTIVE in the same statement, and every
statement that takes ACTIVE away clears the flag in the same statement.
`TypeCorrect` and `LeaderIsActiveHolds` follow. `LeaseHonoured` is the action
property: under the same invariant a case per action shows that only `MarkStale`,
`Drain`, `ClearLeader` and `Tick` can end a lease, and each only for its named reason.

**Detection_proofs** has an invariant for each part, and a lemma, `PartsStep`, by
which a step of the whole is a step of each part or leaves it alone.

- The end of the process is an action of three parts. Windows, sessions and requests are
  as at the start, and the invariants hold for that reason; a correlated event goes
  from "in flight" to `lost`, an entry not written to `unrecorded` and a block not made
  to `spared`, so that the sums still come out.
- `WindowInv` (request windows): a goroutine that is about to append has a window of
  its own client (`WindowsFit`); of a client whose first requests did not overlap,
  whoever is about to store is alone, and whoever has a window has the one in the
  map (`WindowsAgree`). Without the second, a window stored over another one refutes
  `OneWindowPerClient`. `ViolationsAreEarned` compares sizes of sets of requests,
  hence the lemmas about what an append adds and a reset takes away.
- `SessionInv` is the same for tokens. In addition, until a token is flagged its
  window holds every address that has used it (`SessionsAgree`): this is why a second
  address is bound to be seen, and `SharedTokensAreFlagged` follows.
- `CorrelationInv`: `DuplicatesBounded` bounds the rows that are open. It is not
  inductive, since a worker that has found a row will count on it although it has been
  resolved, and one that found none will insert. `OpenBounded` adds both: rows open or
  awaited, and workers about to insert. `EventsAccounted` is about the sum of what the
  rows count; the proof maps each count to a set of pairs, and sums to sizes of unions.
- `TrailCorrect` and `EffectCorrect` of **IncidentResponse_proofs** give the response:
  a request has read a status that its incident had, and from its update on the
  incident has had the new one (`RequestIsTrue`). A CONTAINED incident is blocked,
  spared, or has a request on its way that will block it.

**Configuration_proofs** has five invariants.

- `RuleInv`: a request that is about to write VALIDATED or TESTING has checked a text
  that nobody can change any more (`WritesWhatItChecked`), and a status has its audit
  entry, or a request that will write it, or the entry failed (`StatusIsAccounted`):
  `StatusIsAudited` at every moment and not only at rest.
- `LearningInv`: what a request has read is part of what was observed, so a write is a
  union of such parts; without overlap the request that is about to write has read the
  profile as it is (`ReadIsCurrent`). `PoliciesCorrect` is an action property from it.
- `HistoryInv`: ids are never used twice and no version overtakes the id of its row;
  each row above the limit has a saver that will prune, or a failed prune; without
  overlap and failure versions are ids (`VersionsAreIds`). `NewestCorrect` needs no
  invariant: a prune spares every row that no `Limit` rows are newer than.
- `BackupInv`: the tables, what an export has read, the bundle, what a restore was sent
  and its draft are each free of clashes. `UpsertDistinct` is its heart: an update
  keeps a row's id and natural key, and an inserted row that is not rejected clashes
  with no old one. `RestoreCorrect` needs `DraftIsComplete` besides: while the
  transaction is intact, the draft of a table still to be done is the table, and that of
  any other has each row of the bundle, inserted or in its columns (`Restored`), and
  each old row with its id, its key and its other columns (`Retained`).
- `AssemblyInv`: a text that is still current has one directive for all that each
  section asks for, and its sections in their places (`JoinedFrom`). The heart is
  `JoinBefore`: a part may be put before a text all of whose sections come later. It is
  applied from the base, which comes before the patterns, up to the learner, as the code
  joins. `Ordered` chooses an ascending list, so `ListExists` shows that there is one
  for every finite set of numbers, by the smallest set that has none. `NumbersGrow`
  gives each numbered row an id within its range, above those of the rules before it.

**Page_proofs**, for any pages that satisfy the two assumptions, any rows and any bound
on requests, has three invariants.

- `IInv == TypeOK /\ OneChangeAtATime /\ FlagsAreUp`: the flag of a guarded request in
  flight is up for every row, so that no control that raises it is enabled, and no
  other answer lowers it. Actions that take a request out of the middle of `calls`, or
  mark some and add one, go by the lemma `Carried`.
- `FormInv` adds `FormIsTakenOnce` and what it needs: a request has the flag of its
  handler (`FlagsAreKept`), one of a form whose contents were taken is taken itself
  (`SentIsTaken`), and as long as such a form is still on display its request is under
  way (`SentIsUnderWay`), and so every control of the form is disabled.
- `ShownInv` says what a page will show. Unless it is excused, a request is under way
  that will make it fetch, or its last fetch will bring every row as it is stored, or,
  without a fetch, the copy on display has every row; a row may differ for the sake of
  a patch whose answer is under way (`Follows`). It needs to know that a patch writes
  the one value it asked for (`Writes`) and is applied by then (`Applied`).
  `RestedPage` is the case in which nothing is under way.

**Query_proofs**, for any tools and questions: `LockedToolsAnswerInOrder` needs that
a tool that locks has at most one question in flight, with its flag up
(`OneQuestion`), and types need that a tool whose question is open has one
(`InputIsThere`). `LatestIsShown` needs that the last question is either the last in
flight or answered by what is on display (`LastIsAnswered`).

TLC checked the strengthened invariants of Page and of RuleAssembly on small instances
before they were proved.

**Only model-checked** are the four liveness properties (`EditsReachEnvoy`,
`LeadershipRecovers`, `AskingEnds`, `FlagsAreReleased`), for the prover has no
rules for fairness and ENABLED. `MCQueries` itself, which only puts Query and Page side
by side, has no proof of its own: its properties are those of the two modules.

## 5. Where the program differs from what it says

Runs that TLC finds violated, each quoted in `PROJECT.json`:

1. `sync_stale`: of two overlapping syncs the one that read first may push last.
   A stored and answered exception is then not served ("Sync to Envoy
   immediately", `main.go` 2538).
2. `ha_stepdown`: "promote another active standby instance"
   (`control_plane_ha.go` 330) promotes all of them.
3. `detection_indicator`: "Trigger sync so Envoy immediately bans the IP"
   (`sequence_engine.go` 251) is never reached. The upsert assigns `updated_at`,
   which `threat_indicators` does not have.
4. `configuration_shortcut`: a rule is enforced without "formal dual-control
   approval" (`rule_lifecycle.go` 469).
5. `queries_deploy`: a rule "tested and deployed via WAF Policy Simulator"
   (`simulator/page.tsx` 77) need not have been tested. The report and its button
   stay while the rule is edited, and the button sends the editor's text.

Deviations the models contain and the conditional properties exclude by name.
Dropping the condition makes TLC show the trace:

- Two savers give one version to two rows (`VersionsFollowIds` without
  `~overlapped`).
- Two first requests of a client or a token make two windows, one of which is lost
  (`OneWindowPerClient`, `SharedTokenIsFlagged` without `\ raced`).
- Overlapping transitions leave an audit trail that does not link up
  (`TrailIsChain`). Overlapping observations overwrite each other
  (`ObservationsAreKept`).
- Concurrent events open several incidents, and a taken incident number drops one
  (`DuplicatesBounded`, the `lost` of `EventsAccounted`).
- Two processes that both found no leader both claim (`AtMostOneLeader` fails
  without any step-down as well).
- The test for rule 1000 is a substring test, which the first blocked address's
  rule 10001 satisfies (`ContainsLearner` in RuleAssembly).
- Enforcing does not change a rule's action, so a MONITOR rule is "enforced".
  Approving without a pending policy makes the profile ENFORCED all the same.
- A suspicious sequence that later requests hide (/checkout is no longer last) or slide
  out of the window before its evaluation has run is never reported.
- The double of a large body does not fit the column of a policy's limit: the policy is
  answered, not stored, and the profile is READY_FOR_REVIEW all the same.
- "Cluster configuration restored successfully!" (`audit-trail/page.tsx` 106) follows a
  restore that has left columns of a row as they were, because ON CONFLICT does not name
  them (`main.go` 6016, 6128). An identity policy whose id another one holds by then is
  not brought back: the other one takes its action. `RestoreIsAtomic` claims no more.
- A blocked address of a contained campaign, "permanently blocked across all
  clusters" (`attack_intelligence.go` 449), is a row in a table until somebody
  syncs (`BlockWithoutSync`).
- The restore never compares the checksum of a bundle (`main.go` 5983), which the
  README's line 64 calls a "cryptographic SHA-256 integrity check".

In the dashboard, seen while it was modelled:

- A switch that the management plane flips (`SET x = NOT x`) and that nothing
  disables undoes itself on a double click: custom rules, DLP, alert rules, SIEM,
  mTLS, surge and protocol policies. These controls are in the models, with the
  flags they have, which is none.
- A handler that patches the copy it closed over loses or brings back rows that
  another handler has changed meanwhile (`identity-jwt`, `asset-discovery`,
  `schema-enforcement`). `excused` covers exactly these crossings.
- `applications` sends the whole row it shows when it toggles the mode (138-159),
  and so reverts a status that was changed elsewhere.
- Handlers that do not look at `res.ok` report success for a refusal
  (`access-control`, `alerts`, `siem`, `threat-intel`). These pages and
  `config-history` call paths without `/api/v1`, under which the router mounts
  everything (`main.go` 95-204), unless `NEXT_PUBLIC_API_URL` ends in it.
- A form whose second request fails stays filled in although the first has been
  taken (`onboarding`); submitting it again creates a duplicate.
- `investigation-tools` makes up an explanation when an event cannot be explained,
  and offers an exception for it (`madeUp` in Query).
- Unlocked tools show answers in the order in which they arrive: the incident
  drawer shows one incident's timeline under another's heading, and an event's
  details may be replaced while an exception is made of it.
- `canary-gitops` applies a specification that was never validated.

## 6. What is not modelled

- **Wording**: directives, JSON of the Coraza configuration, regular expressions,
  log lines. Their structure (id, section, order) is in RuleAssembly.
- **Reads**: about half of the handlers only query and answer. A read that writes
  (the node list that marks DEGRADED) is in the plan.
- **Partial loss in ConfigSync** is all-or-nothing in the run, because a table has
  one possible row there. The proofs cover any rows.
- **PostgreSQL** is one statement at a time, and a transaction for the restore.
  A restore's locks order writers before or after it.
- **Memory growth** of the trackers: no window is ever forgotten while a process runs.
- **The end of the process** is modelled where it loses memory or stands between two
  statements: Restart in ConfigSync, Crash in SnapshotHistory and ControlPlaneHA,
  ProcessEnds and Panic in the parts of Detection. In RuleLifecycle and LearningProfile
  it leaves what a failed later statement leaves. Since a composed behaviour follows one
  part, the process ends in each part on its own.
- **Dashboard**: notices, toasts and their timers; sorting, copying, downloading and
  search in the copy; several rows per table beyond those of part 3. A page's
  tables are applied together at the end of its fetch, although a few pages apply
  each as it arrives. The management plane is what a request makes of a row: its
  validation is a refusal that may always happen. The one-second timer of
  `config-history` before it fetches is a fetch that is not yet read. Of
  `applications` the fields that no handler sends back are left out.
- **`rules` and `modern-protocols`** edit one value in place, which a late fetch
  overwrites; Page has rows, not contents that are being typed. The sidebar, the
  top bar and the layout navigate.
- **Alert rules** are evaluated by one goroutine per process (`main.go` 2219-2305);
  only two processes would race for a cooldown. **Cluster nodes** and
  **applications** change by one statement per request, which Page has as what the
  pages send. **SIEM forwarding** drops its errors and changes no row.
- **Policy versions, governance, edge routing, API abuse, emergency mode, virtual
  patches, retention, Kubernetes synchronisation**: inserts, reports and
  single-statement updates without a second actor that reads what they wrote. The
  exception is `simulateFailoverPool` (`edge_routing.go` 417-458), three statements
  whose errors are dropped, on rows that nothing else acts on.
- **Policy chain**: a first match over an ordered list, without state. Its one write
  to a modelled table is part of `BlockWithoutSync`.
- **Self healing, chaos and performance labs** insert simulated records and change
  nothing else. The **AI engine** computes statistics in a batch. Envoy, Coraza,
  Vector and the origin mock are configuration or third-party programs.

## 7. What could come next

Done: ConfigSync with LiveConfig, ControlPlaneHA, the detection path, the policies
and the configuration, the dashboard's pages and tools, and the proofs of part 4.
In order of what they would add:

1. `rules` and `modern-protocols`: a page with a value that is edited in place, and
   a fetch that must not overwrite it.
2. The alert evaluator of two control-plane instances, composed with ControlPlaneHA,
   and the failover of an edge pool.
3. Abstract specifications and their refinements: SnapshotHistory implementing an
   append-and-forget log, BackupRestore a restore in one step, and a page a register
   that is read and written.
4. Conditions under which what part 5 excludes holds after all, as `SerialAgreement`
   does for overlapping syncs: one loop and `AtMostOneLeader`, one worker and a single
   open incident per source.
