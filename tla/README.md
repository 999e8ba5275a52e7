# Verification of works-execution

TLA+ specifications of the WORKS execution control plane, model-checked with TLC on
small instances and, for most components, proved with TLAPS for every instance.

## 1. The system

One API process (`cmd/works-api`) owns a SQLite database whose writer pool has one
connection. Write transactions are serialized, but a handler that issues several
statements outside one transaction interleaves with every other handler. Handlers use
the request's context, so a client that goes away cancels what is left of its handler.
Workers (`cmd/works-worker`) are separate processes that talk to the API over HTTP. A
lease reaper and publish goroutines run inside the API process. Around this core stand
packages with state of their own: linked devices, the brain, verified state, evidence,
workspaces, promotion, release rings, golden missions, economics, computer providers.

| Component | What is hard | What makes it correct |
|---|---|---|
| Lease core | completion goes on after its commit; the reaper lists first and revokes later | one ACTIVE lease per node; what settled stays settled; a pause ends by a resume; verdicts are backed by results |
| Worker | stale offers, lost answers, crashes, a kill that races the start | a recorded success is real; dependencies come first; a lost lease kills the command's shell; queued Work ends |
| Missions: suspend and resume | a resume is a chain of single statements | a pause is ended by one approval at most |
| Work creation, webhooks | retries across races and deployments | one Work per key; a retry is recognized and repaired |
| Registry, scheduler, placement | facts change between the checks of one grant; float ties | a lease went to a runner that passed every check; selection does not depend on order |
| Shutdown | handlers outlive the drain | the artifact directory closes after its last user; the process ends |
| Dispatch seal | whole-record saves of stale copies; lost answers | a replay reads back the winner; verification is independent |
| Event journal | append outside the transition | no row is skipped; every event arrives |
| Link | the revocation cascade races with the missions | the answer to the request that revoked a device comes after its missions have stopped |
| Brain, admission | racing revisions | an answered write stands; admitted content is clean |
| Verified state | propagation over cyclic graphs | the impact of a change is exactly the reachable part |
| Evidence | one bundle from reads at several moments | what is said is backed; damage is detected |
| Promotion, release rings | lost and late answers of GitHub; reverts | a repetition opens no pull request; stable was soaked in beta |
| Workspaces | failure between credential and registration | a failed Create cleans up |
| Enrollment | the beat loop also runs nodes; restarts with a new key | a runner that beats is heard again |
| Node execution | every command may fail, the context may end at any step | the host is left clean; no wait outlasts its context |
| Golden missions, cache, budget, publication, audit, computers, settlement, sources, artifacts | crash recovery, races of writers, order of inputs | see the `platform` run |

`PROJECT.json` lists the source files of every component, modelled or not, the lines
each definition stands for, and the hazards at their lines.

## 2. Modules

A transaction, or one HTTP exchange with a service that is not ours, is one action;
what the code does in several statements is several actions, and a request record
holds the program counter between them. Variables called ghost or history are read by
properties only.

| Module | Models | Notes |
|---|---|---|
| `WorkGraph`, `WorkLifecycle` | the transition tables; what a Work's life promises | the second is the abstract specification |
| `LeaseStore` | the lease core | `fin[l]` is the completion handler after its commit; `overdue` stands for the clock |
| `WorkerFleet` | workers, composed with `LeaseStore` | an HTTP call may be lost either way |
| `MissionCheckpoint` | suspend and governed resume of one mission | one action per statement of a resume |
| `WorkIntake` | creation and webhook ingest | a timeout stands for the intent of a Work |
| `Scheduler`, `Placement` | selection; registration, checks and grant | scores in thousandths, rounding as a bounded noise; `pSeen` is history of the facts seen during a request |
| `ApiShutdown` | the shutdown sequence | handlers and publishes may hang |
| `DispatchSeal` | acceptances, contexts, subjects | load-modify-save operations are two steps or three |
| `EventJournal`, `LinkDevices` | journal, stream, pages; devices and mounts | |
| `Brain`, `BrainAdmission` | revisions and mounts; admission of content | the admission walk is recursive |
| `VerifiedState` | candidates, verification, reconciliation step by step | one action per element taken from the queue |
| `EvidenceBundle`, `EvidenceRecords` | bundles, verdicts, quittances; pre-action snapshots | digests and signatures are injective constructors |
| `ReleaseRings`, `SourcePromotion` | rings and soak; staging branches and pull requests | GitHub is external, may answer late or never, and pull requests are closed and branches deleted there |
| `Workspaces`, `RunnerEnrollment`, `NodeExecution` | the estate a Work runs on | GitHub, Cloudflare, git and docker are external; git and the shell may leave a process behind that holds their output |
| `GoldenMission`, `NodeCache`, `BudgetLedger`, `Publication`, `AuditTrail`, `Computers`, `Settlement`, `EconomicSources`, `ArtifactStore` | one component each | no shared state between them; the float sums of the budget are rounded either way, by a unit per charge |
| `MC*` | the same modules for TLC | a scene chosen in the initial state makes independent parts add instead of multiply |
| `*_proofs` | the theorems | section 4 |

A definition whose comment calls it a faulty variant is the mutant of some property: a
plausible bug that the property has to notice. No specification uses one.

## 3. Runs

| Run | Bounds | What it shows |
|---|---|---|
| `lease_core` | 1 mission, 2 nodes, 2 attempts per node, 3 leases, reaper batch 1 | one ACTIVE lease, settled leases and results are never changed, the freeze law, the refinement of `WorkLifecycle` |
| `fleet_safety` | 2 workers, chain of 2 nodes, 2 attempts, 2 leases, one fault of eight kinds | successes are real, dependencies come first, the shell of a command without a lease is killed |
| `fleet_ends` | 2 workers, chain of 2, 3 attempts, 4 leases, one of four faults | queued Work ends |
| `intake` | 2 clients or 2 receivers, 2 Works, 1 key, 2 deployments, timeouts 0..2; pools of up to 3; 1 runner, 2 works, 2 requests | creation, ingest, selection, placement |
| `records` | 2 Works, 3 callers, 1 reader, pages of 2, 1 break; 1 device, a mission and a plain Work, 2 requests, 2 mounts; 2 connections | journal, link, shutdown |
| `ledgers` | 2 requests, 2 keys, 3 payloads, 2 pauses; 2 callers, 1 dispatch key, 2 causes, 2 contexts, 2 subjects, epochs 0 and 1, ceiling 1 | resumes and dispatches |
| `governance` | 3 writers, 2 contents, 3 revisions; 3 subjects on 3 graphs; 2 GETs, 3 verdicts; 3 proposals; soak 2 | brain, admission, verified state, evidence, promotion, rings |
| `estate` | 2 requests and 1 fault; 2 workers, token life 3, 1 restart, 1 lost registration; 1 job, 2 commits, 2 failing commands | workspaces, enrollment, node execution |
| `platform` | 2 runners and 3 calls; 2 workers and 3 executions; 5 charges; 2 heads and 2 attempts; 4 rows; 5 provider calls; 3 receipts, legs or observations; 3 advances; 2 attempts and 1 damage | the nine components of the last table line |
| `fleet_wedged_by_crash`, `fleet_panic`, `checkpoint_race` | as small as shows it | the code does not do what its comment says; see `findings` |

Why the bounds are enough to be interesting: two actors give every pairwise race; three
leases on two nodes let a node be leased again after a failure while the other runs; a
batch of one makes the reaper leave work behind; two deployments let a retry meet other
rules; a pool of three is the smallest where an intransitive comparison shows; three
subjects make a cycle with a branch; a page of two or three is smaller than what there
is to list. Link requests may find one mount made earlier, which stands for a third
request. What needs three concurrent actors or two independent faults is mostly not
covered by TLC; the theorems cover any number.

Symmetry is used in `lease_core` (nodes), `intake` (clients, receivers), `ledgers` and
`platform` (runners, trust keys): sets whose members no definition tells apart, in runs
that check no liveness. Deadlock is not checked, because every instance really stops:
bounds are used up, or the processes end.

### Fairness

* `HeartbeatSpec` (`fleet_safety`): weak fairness of heartbeat and kill, two goroutines
  of the worker. The command may run for ever: with the fairness below, its deadline
  would end it and hide a broken kill path.
* `LiveSpec` (`fleet_ends`): workers go on, commands end because `runCommand` has a
  deadline, panicked workers are restarted, handlers and the reaper run on. A lease that
  is held does not expire, since it is renewed every 10 of its 25 seconds.
* `records`: a connected reader polls (its ticker) and a client reconnects; the shutdown
  sequence goes on, because both of its waits have deadlines. Nothing is assumed of
  handlers and publishes.
* `estate`: a worker's loop goes on, and its beat is taken infinitely often if it is
  possible infinitely often (strong, because nodes run in the same loop and end); a host
  carries out the commands it was given.

## 4. Proofs

Every theorem holds for every value of the constants under the assumptions named in the
module that declares them: mark values are not data, bounds are numbers, missions are
Works. An invariant of a run is seldom inductive. The strengthenings are:

| Module | Theorems (property) | Inductive invariant, and why it is needed |
|---|---|---|
| `Leases_proofs` | `LeaseExclusion`, `SettledIsFinal`, `FreezeLaw`, `Refinement` of `WorkLifecycle`; `HeadsAreReported`, `ConclusionsAreFinal`, `TrailsAreLawful`, `PostedSuccessIsEarned` | `IInv` adds that lease and attempt rows exist together, that only granted leases are listed, and that what a completion handler concluded is still true when it writes the verdict several steps later (`HandlersSure`, because results are never taken back). `ReconcilerInv` relates what was emitted to what GitHub shows. |
| `Workers_proofs` | `RecordedSuccessIsReal`, `DependenciesComeFirst`, `FleetRunsOnLeaseCore`, `FleetKeepsLifecycle` | every worker step is a lease-core step or leaves it alone, so `IInv` carries over. `FleetInv` adds that no two workers execute one attempt, and that an offer's dependencies, once succeeded, stay so: this is why stale offers do no harm. |
| `Intake_proofs` | `KeyBindsOneWork`, `AnswersAreStored`, `RetriesAreRecognized`, `AcceptedAreQueued`, `WorksAreNotMovedBack`, `DeliveriesKeepTheirWork`; `PullsAreDecided`, `RepetitionsOpenNothing` | each request in flight agrees with the row it saw, under the rules of the deployment that stored it. For promotion: what GitHub holds, or may still receive late, is decided content, and an answered content keeps its pull request and, until somebody deletes it, its branch. |
| `Missions_proofs` | `RepetitionsAreReadBack`, `VerdictsAreIndependent`, `ContextsGoWithAcceptances`, `KeysAreBoundForGood`; `CompletionsAreBacked`, `EffectsAreDecided`, `ResumesApplyNothing` | a caller's stale copy differs from the stored record only where a transition may write (`HoldsCopy`). For golden missions: the journal and every runner's memory are backed by what ran. |
| `Nodes_proofs` | `LeasesAreEarned`; `HostsAreLeftClean`, `CommandsRunWhereLeased`, `KeptCommitsAreFound`; `DecodedSnapshotsAreBound` | at each stage of a claim, the checks it has passed were true at some moment of the request (`Earned`). For the host: what each step still has to remove is all there is. |
| `Resources_proofs` | `ArtifactsOutliveHandlers`; `SuspendKeepsHandoff`, `ApprovalExclusion`, `ApprovalGrounded`; `BudgetIsMetered`, `SettlementIsBounded`; `KeysNameOneComputer`, `TeardownIsFinal`, `AdapterStaysWithinGrant`; `StoreHoldsWholeContents`, `AttachedStaysStored`, `ReadsReturnAttached` | `ShutdownInv` says which handlers can still run at each stage; the checkpoint `IInv` that ended pauses are past ones and a bound request approves a recorded checkpoint; `ArtifactInv` what the bytes a request holds are worth at each step. The budget's invariant bounds the accumulated rounding by the number of charges. |
| `Revisions_proofs` | `AnsweredWritesStand`, `LawIsHuman`, `PackageKeepsTheLaw`, `RevisionsAreAppended`; `GenerationsAreSingle`, `RacingRotationsAreLawful` (from `HistoryStaysChained`, `RotationsAreAuthorizedOnce`, `RevokedRootsStayRevoked`) | what a writer read is a prefix of what is stored, and its conditional write succeeds only if it still is the whole. |
| `Assurance_proofs` | `ReconciliationIsExact`, `VerificationIsKept`; `EvidenceStaysBacked`, `AnsweredRecordsStand`; `ReplaysAgree`, `OnlyAcceptedIsCached`; `StableComesFromSoakedBeta`, `RingMovesAreLawful` | `WorklistInv`: every edge out of a marked subject is satisfied unless the subject is still queued, and nothing is marked that is not reachable. An empty queue then gives equality with the closure, on cyclic graphs too. `BundleInv`: what each GET has read so far still stands. |

The classic argument is the same each time: `Init` implies the invariant, every action
preserves it, and it implies the property; one step per action, and the frame of an
action is a lemma where several actions share it.

Only model-checked:

* liveness (`LostLeaseKillsShell`, `QueuedWorkEnds`, `EveryEventArrives`,
  `SignalEndsProcess`, `BeatingIsHeard`, `CancelledEnds`): fairness and ENABLED are
  beyond the prover;
* what loops and folds compute over data (`VerdictsAreEarned`, `ReportIsExact`,
  `SelectIgnoresOrder`, `NoRowIsSkipped`): induction over sequences is beyond it;
* `AdmissionIsClean`: the walk is a RECURSIVE operator;
* `RevokingAnswerStopsMissions` and `FailedCreateCleansUp`: not attempted.

## 5. Where code and words differ

Three divergences have a run and a finding. The others below were met while modelling.
They have no run of their own: they are readings of the code, in the terms of the
models, and each names the words it is about.

**Leases and workers.** `leases.go:24` says a grant validates that
the node is in a non-terminal state; the check is about the Work's state, so a node that
succeeded can be leased again. The reaper ends leases with
RevokeLease, so they become REVOKED where RunLeaseReaper's comment says EXPIRED.
Cancelling a Work leaves its lease ACTIVE and its command running (RFC-0001-slice-2:37
says the subprocess is cancelled). docs/agents/worker.md says a lost lease marks the
attempt cancelled, a failing subprocess marks it failed, and SIGTERM releases the lease:
a killed attempt can be recorded as failed, a failed container start is released as
cancelled, and after SIGTERM the lease lasts until it expires. Killing the shell does not
end the command: `cmd.Run` has no WaitDelay and goes on waiting for any descendant that
holds the output, so `LostLeaseKillsShell` is about the shell and the reports, and not
about what the shell started. A lease lost during the checkout does not end the checkout,
since the kill channel is read only once the command runs.

**Missions and dispatch.** The receipt of a resume is written last, so a resume can be
without one. A stale whole-record save undoes Acceptor.Revoke ("Revoked
executions cannot apply effects or verify afterwards"); no production handler calls
these transitions today. The comment "LATENT ... Accept applies the stale-epoch gate
BEFORE it resolves an already-committed idempotency key" in `dispatch_handler.go` is out
of date: `Accept` resolves the key first, and `ReplayIsReadBack` holds.

**Intake and placement.** A webhook redelivered during its first delivery creates a
second Work ("A duplicate delivery returns 200 with no new work created"). Works
without a pool are not checked against the scheduler's rules at the grant
(`scheduler.go:232`). An empty trust floor passes the scheduler and is denied by the
policy. A drain is overwritten by the next heartbeat; a registration that races another
loses the SpiffeID ("Re-registering the same runner_id is a no-op upsert"). An empty
lifecycle is accepted where `scheduler.go:181` says rejected. A reservation does not pass the
behaviour gate that a claim passes. A busy worker does not beat (`worker.go:451` says
"re-asserted every HeartbeatEvery").

**Journal and link.** Rows of one Work need not be in the order of its mutations,
and need not name the state the row before led to. The
detail page counts the sequences of every Work in its window. A failed snapshot shows
every Work as deleted in the live page. A revocation cascade is cut short when the
request is cancelled. A repeated revocation finds the device revoked and is answered with
200 without a cascade of its own (`link.go:634`, `link_handler.go:239`), also while the
first cascade is running or after one that failed: `RevokingAnswerStopsMissions` is about
the request that did revoke. The map of offers is not synchronised, so a code may be claimed
twice, and an offer made before a revocation may be claimed after it ("A revoked device
is permanently refused"). A second pairing within one second keeps the old token.

**Brain, evidence, promotion.** In the service a promotion does not look for the
tombstone (`brain.go:85`: "dead, not law"), racing creations both find a path free, and a
creation may name another class; `PackageKeepsTheLaw` is about the package. A promotion
reads content and appends to the latest revision, which may be another one. ListBrainMounts lists expired mounts. A racing
identical verdict fails on its INSERT (`outcome_verdict.go:46`: "A byte-identical retry
is idempotent"). An execution context may be added to a Work that ended, so a
verified answer can be followed by a gap. Every GET of evidence makes a bundle with a new id, so one outcome has
several quittances (`quittance.go`: "duplicate quittance ... same quittance"). Two
contents that race under one promotion key both create branches; and once the branch of
an answered promotion is deleted its key is free, so that a repetition may post the branch
again (it then finds the old pull request) and another content may take the key. The seal
of a pre-action snapshot binds node, attempt, type and result, and not the details
(`evidence_hash.go`): details and digest rewritten together are decoded, which is all that
`DecodedIsBound` leaves open. Admit, MatchMount,
IssueQuittance, snapshots and tool receipts are called only from tests.

**Workspaces and hosts.** The rollback of a Create deletes what a racing retry found. A
sweep acts on a list that may be old. A revocation at Cloudflare whose answer was lost
cannot be finished. A Destroy whose delete was retried skips the
stored credential. Nothing outside tests constructs the providers, reaper or registry.
The Cloudflare import is not proved to contain the commit (`importRepo`). A container is
removed with the context that just ended (docker.go: "The container is removed before
Run returns"); a killed `docker create` leaves an unnamed one. The executions wait for any
descendant that holds the output of the shell or of git, whatever becomes of the context
(`KilledEnds`); `CancelledEnds` excepts exactly these. Prepare leaks the attempt directory when the
temporary directory cannot be made. A killed worker leaves directories and containers
that nothing sweeps. An explicit working directory is not ensured to be empty.

**Cache, golden missions, budget.** Unknown `key_inputs` names are ignored (`cache.go:21`:
"anything not captured changes the key"), and no key contains the worker id (`cache.go:83`). A
node without `key_inputs` and with an empty environment has the key of one that left its
environment out of `key_inputs`, and is answered with its run. The budget is a float: ten
charges of 0.1 do not reach a ceiling of 1.0, so `MeteredWithinRounding` is exact up to the
roundings made so far. With no journal,
a resumed golden mission may apply its effect again (lines 269-271: "a crash retry never
applies an effect twice"). A settlement made while the clock was paused is not the last.

**Publication, audit, computers, settlement, artifacts.** A cancelled Work is never published,
because only completeLease calls the hook. Two Works on one commit race and the last
POST wins. ReconcileStatus has no caller outside tests. Audit times are compared as
text, so rows within one second are not in order and a window misses rows at its edges; a
limit above the maximum becomes the default, also for the DORA page that asks for 2000.
The MTTR sample is always empty, because FAILED is terminal. The reference computer
provider does not check its handshake ("A provider used without a successful handshake
has NO authority"), and a replay after teardown returns a dead handle. Exec looks its
computer up under the lock and runs the command without it, so a command may begin after
the Teardown of its computer returned; `TornDownStaysDown` excludes it only for calls that
looked after the teardown. The Pulse adapter
makes some calls without a grant reference. The correlation and recovery of a settlement
take their inputs in order: of several negative findings the last is the state, and which
legs are matched in an uncertain transaction depends on which receipt came first.
`VerdictsAreEarned` says what each verdict presupposes, and no more. A damaged content-addressed file refuses
every new upload of that content; temporary files of a crash stay.

## 6. Simplifications

* Models start from an empty database, except link requests (one earlier mount) and
  creations of Works with a legacy key.
* The operator's revoke of a lease is in `LeaseStore` and not in `WorkerFleet`.
* Authentication, certificates and request validation are preconditions.
* In `DispatchSeal` the ids a dispatch carries are one cause: a retry that changes one of
  them alone is not told apart from one that changes all.
* Hashes, digests and signatures are injective; clocks are small counters.
* Refused calls without effect are left out where nothing depends on the refusal.
* The publish WaitGroup may be added to after an unclean drain; the model has that step
  and the properties are about clean drains.
* The admission scan skips unexported struct fields (`governance.go:263-265`); the
  contents of the model have none, and JSON cannot carry them.
* `EvidenceBundle` leaves out BLOCKED as a terminal state (`bundle.go:204`): the
  transition table allows it and no code moves a Work there.
* Cloudflare is taken to answer with a well-formed repository and expiry, so a Create does
  not fail in the validation of the finished handle or in the parsing of the expiry; what
  it undoes then is what it undoes after a failed store. The repository of a failed Create is deleted on a best-effort basis; `FailedCreateCleansUp`
  is about the credential and the stored secret.
* `NoRowIsSkipped` is about rows that were appended. A transition whose append failed, or
  was cut off by a crash, has no row, and nothing restores it.
* `HeadIsReported` takes event times to grow with the attempts, and the acceptance of an
  event and its POST to be one step: the caller the code does not have yet has to see to it.
* `ReportIsExact` is exact up to whole seconds: within one, texts and times differ.
* `QueuedWorkEnds` and `BeatingIsHeard` rest on commands that end with their deadline or
  their kill, that is, on commands that leave no process behind which holds the output.
* The docker client is taken to have no children of its own. `HostIsClean` excepts the
  container whose removal failed with its context.

Not modelled: capability tokens, secrets and shell policy (pure evaluation); provenance,
receipts and law records (encodings of records written once); the failure classifier (a
table of patterns); runner identity records; metrics; the operator console (pages over
reads `EventJournal` has); command-line tools. Partly modelled components and what they
leave out are in `PROJECT.json`.
