# sixb: TLA+ models of its queues, workers and run dispatch

This directory holds TLA+ modules that model the durable execution core of sixb, TLC
configurations that check them on small instances, and TLAPS proofs of their main
theorems.  Paths below are relative to the repository.  `PROJECT.json` maps every
definition to the lines it models and lists runs, mutants, hazards, findings and theorems.

## 1. Inventory

sixb is a TypeScript framework for operational applications over an ontology.  A project's
definitions (syncs, pipelines, projections, actions, workflows, agents, schedules) become
*runs*: records in storage that worker processes execute because a job for them is in a
queue.  Facts that runs produce are committed to the ontology storage together with an
outbox of events; a dispatcher publishes them to a broker; an orchestrator consumes the
broker and dispatches further runs.

| Component | State it keeps | Operations | Interacts with | What makes it hard | What makes it correct |
| --- | --- | --- | --- | --- | --- |
| Queue provider, in process (`packages/core/src/queues/in-memory.ts`) | per lane: records by job id, a ready and a waiting heap, callbacks of sleeping claims | `enqueue`, `claim`, `complete`, `retry`, `fail`, `renewLease` | queue workers, dispatchers, timers, the wall clock | leases expire while other calls run; two heaps must follow every field change; sleeping claims must wake in time; the clock may be set back | no job falls out of the heaps; claims serve in order; no claim oversleeps; it implements the lease contract |
| Queue delivery and worker (`packages/core/src/workers/queue-delivery.ts`, `queue-worker.ts`) | claimed job, last confirmed expiry, state active/lost/settled, renewal loop | start, renew, confirm, complete/retry/fail, close, abort | queue provider, the executing handler | renewal and execution are concurrent coroutines; answers are late or lost; crash between execution and settlement | what it believes about its lease and reports of its settlement is what the queue did; it always ends |
| Run dispatch for syncs (`packages/core/src/syncs/run-dispatch.ts`, `storage/sync-runs`) | run records (queued, running, ended), joined triggers | `dispatch`, `persistSyncRun`, `findQueuedSyncRun`, `reuseSyncRun`, `publishSyncRun` | storage transactions, the queue, the orchestrator, manual callers | storage and queue are two systems without a common transaction; triggers are redelivered; runs are joined | no acknowledged trigger is lost; a waiting run has a job; a run executes once |
| Sync worker (`packages/sync-worker/src`) | nothing of its own | read, start, execute, finish, retry, `failUnstartedRun` | run records, queue delivery, datasets | a job may be delivered several times, a run may have several jobs | only the worker that started a run ends it |
| Ontology outbox and dispatcher (`packages/core/src/events/outbox-dispatcher.ts`, `storage/ontology/in-memory/outbox.ts`) | rows with availability, attempts, lease, publication | claim a batch, publish, bisect a failing batch, mark, reschedule, stop | ontology storage, the broker | two systems again; batch leases that expire under a slow publish; stopping in the middle | at least once; nothing is marked that the broker did not take; stopping releases what it holds |
| Broker (`packages/core/src/broker`, `broker/redis`, `broker/nats`) | event log, cursors of subscriptions | append, read batches, acknowledge, retain | outbox dispatcher, orchestrator | retention overtakes a slow cursor; redelivery | every subscriber sees every retained event in order, at least once |
| Orchestrator, projection dispatch reconciler (`packages/orchestrator/src`, `packages/core/src/projections/run-dispatch.ts`) | batch in hand; cursor of the change feed and the projections still unverified | route events to dispatches, retry a batch; read the feed, look up, republish runs left queued | broker, lake, run dispatchers | events are lost, a batch is retried after some of its dispatches succeeded, a commit races the lookups | no version is forgotten behind the cursor; projections catch up; deterministic run ids make retries harmless |
| Projection worker and materializer (`packages/projection-worker`, `packages/core/src/materializer`) | run records with execution tokens, staged candidates, the active source and its commits | claim, supersede, prepare, stage, activate, finish | run records, ontology storage, outbox, lake | runs of several versions race to replace one source; a commit whose end is not recorded; a delivery taken over | records, candidates and commits agree; a version is never replaced by an older one |
| Action, workflow and agent runs (`packages/core/src/actions/run`, `packages/workflow-worker`, `packages/agent-worker`, `packages/core/src/agents`) | phases, node progress, approvals, execution tokens | prepare, commit, write back, wait, resume, approve | queue, storage, models, connectors | an irreversible external effect before the record of it; resumption on another worker; fencing | no effect twice; a decided approval always resumes |
| Connector connections (`packages/core/src/connectors/connections`, `storage/connector-connections`) | authorization record with credentials, revision and leased mutation; the slots connected through it | refresh, reauthorize, revoke, stage, recover, connect, disconnect | external identity providers, storage | refresh tokens can be used once; a crash or an ended lease during the exchange; late answers | no second exchange under a token of unknown state; a staged result is kept; a revocation is final |
| Scheduler (`packages/core/src/scheduler`) | last tick | emit due schedules | broker or runtime | ticks missed or doubled across processes | a due tick is emitted, and its event id makes doubles harmless |
| Storage adapters, lake, blobs, auth, server, app, UI, CLI, connectors to services | SQL, HTTP, files | translation of interfaces | – | little protocol of their own | – |

`PROJECT.json` "components" lists all of them with their sources and status; "hazards" lists
what is hard to test in them, each at its line.

## 2. Modules

| Module | What it is |
| --- | --- |
| `LeaseQueue` | Abstract specification: what interface `Queue` (`packages/core/src/queues/types.ts`) promises about one lane.  A job is leased to one worker at a time, a lease is renewed or used only while it runs, a lease that ended is given out again. |
| `InMemoryQueue` | The in-process provider: records, two heaps, sleeping claims, timers, backward clock.  Implements `LeaseQueue`. |
| `QueueDelivery` | A worker's side of `LeaseQueue`, which it instantiates: renewal loop, confirmation, settlement, crash. |
| `SyncRunDispatch` | Dispatchers, run records, queue and sync workers of one Sync. |
| `EventFeed` | Abstract specification: an at-least-once feed. |
| `OntologyOutbox` | The outbox and the dispatchers of several processes.  Implements `EventFeed`. |
| `ConnectorCredentials` | One connector authorization: refresh, reauthorization and revocation as leased, staged mutations; the provider's calls; the slots connected through the grant. |
| `ProjectionRuns` | The runs of one replacement projection: records, jobs, workers and the part of the materializer that replaces the source. |
| `ProjectionDispatch` | Extends `ProjectionRuns` with the live path, the dispatcher and the reconciler that admit its runs, and implements what `ProjectionRuns` assumes of them. |
| `InMemoryQueueProofs`, `QueueDeliveryProofs`, `SyncRunDispatchProofs`, `OntologyOutboxProofs`, `ConnectorCredentialsProofs`, `ProjectionRunsProofs`, `ProjectionDispatchProofs` | Theorems and proofs about the module of that name. |
| `OntologyOutboxCalmProofs` | What `OntologyOutbox` promises as long as nothing fails: a clean stop, and the calls it takes to isolate a refused event. |
| `MCInMemoryQueue`, `MCQueueDelivery`, `MCSyncRunDispatch`, `MCConnectorCredentials`, `MCProjectionRuns`, `MCProjectionDispatch` | Instances for TLC, with the symmetry of their safety runs.  Runs that check liveness, `ontology_outbox` among them, use none. |

The order follows the dependencies: every run of every kind rests on the queue contract, every
worker on the delivery; syncs are the smallest complete dispatch protocol and the other kinds
repeat it; the outbox is the other half of what a run does to the world; projections are the first
runs that have a reconciler, compete with each other for what they write, and are fenced; and
credentials are the one place where an external effect can be made only once.

Composition: `QueueDelivery` is written over an instance of `LeaseQueue`, and `InMemoryQueue` is
shown to implement `LeaseQueue`, so what holds of deliveries holds over the in-process provider
as far as its actions are those of the contract.  `SyncRunDispatch` and `ProjectionRuns` have the
same queue without its clock (a lease may end at any time), which allows more behaviours than
either.  `ProjectionRuns` says of the dispatchers only that they admit runs and publish jobs of
queued runs, in any order (`Dispatched`); `ProjectionDispatch` is shown to implement it, so that
what is checked or proved of the runs alone holds in the composition.

What may come next: pipelines as a variant of the sync protocol whose steps commit before the run
ends, the broker's retention against slow cursors.

## 3. How modules correspond to the code

Everywhere an action is the code between two awaits: JavaScript runs it to completion, and
every await is a place where another coroutine, process or failure may come in.  A serializable
transaction is one action.  Operators whose comment begins with "Mutant:" are deliberate errors
used to test the properties; no specification refers to them.

**InMemoryQueue** (`packages/core/src/queues/in-memory.ts`).  `rec[j]` is a `QueueRecord`;
`ready` and `waiting` are the members of the lane's two heaps, whose order is `Before`
(`compareQueueRecords`) and the instant of `EligibleAt`; `claims[c]` is one `claim` call and its
timer.  `Enqueue`, `Complete`, `Fail`, `Retry`, `RenewLease` are the methods; `claim` is cut at
its await into `CallClaim`, `ClaimTakes`, `ClaimWaits`, `TimerFires`, `Abort`.  `Tick` lets time
pass, `StepBack` sets the wall clock back.  The claim's move of due records from
waiting to ready happens inside `ClaimTakes` and `ClaimWaits`, as in the code, never by itself.

**QueueDelivery** (`workers/queue-delivery.ts`, `handle` of `workers/queue-worker.ts`).  One slot
is one `createQueueDelivery`.  It has two coroutines with their own program counters, `handler`
and `loop`, which share `state`, `expiry` and one outstanding `call`.  A call is sent, served by
the queue (`ServeRenewal`, `ServeSettlement`), and answered (`LoopResolves`, `ConfirmResolves`,
`SettleResolves`); between them its answer may be delayed, or lost (`CallFails`); given up before
being served it goes to `late` and may still take effect (`ServeLate`).  `applied` and `verdicts`
are history variables: what the queue did, and what the deliveries reported.
`StampOnReply` distinguishes the in-process provider, which dates a renewal when it serves it,
from the BullMQ provider, which dates it when the answer is in.

**SyncRunDispatch** (`syncs/run-dispatch.ts`, `storage/sync-runs/*`, `sync-worker/src/*`).
`runs[r]` is the status of a run; a failed publication (`queue.enqueue_failed`) is the status
`enqueueFailed`.  A dispatching process goes `look` → `create` or `requeue` → `publish` →
(`markFailed`), a worker `read` → `start` → `work` → `decide`/`recheck`/`failRun` → `settle`; each
arrow is an await.  `Create` is the serializable transaction with its join of a waiting run.
`promised` and `covered` are history variables: the runs a request was answered with, and the
triggers that had arrived when some run was started, that is, when storage moved it to `running`; a
start whose answer is lost counts, although no worker then goes on to read the source.  Triggers are redelivered until
their dispatch returns, as the orchestrator does with its batches.

**OntologyOutbox** (`events/outbox-dispatcher.ts`, `storage/ontology/in-memory/outbox.ts`).
`rows[e]` is a row of the outbox; `disp[p]` is one `OntologyOutboxDispatcher` with the claimed
batch it works on (`ClaimedBatch`).  `pass` says which await the drain pass is in: `claim`,
`publish`, `mark`, `reschedule`, `release` or the `yield` between two full batches.  What the code
does from one await to the next is an operator on that record, named for the piece of code:
`NextGroup` is the top of the publication loop, `Refused` the bisection, `SettleHead`
`ClaimedBatch.take`, `Finally` the finally clause, `EndPass` the end of a pass with the coalesced
drain.  `Stop`, `GraceEnds` and `Stopped` are `stopOnce`.  Time is abstracted: a lease that nobody
works under and a back-off end at any moment; a lease that ends under a working dispatcher counts
as a fault.

**ConnectorCredentials** (`connectors/connections/credential-mutations.ts`, `tokens.ts`,
`authorizations.ts`, `storage/connector-connections`).  `status`, `revision`, `cred` and `mutation`
are the authorization record; `op[p]` is what the one operation of process `p` is doing and what it
read last; `call[i]` is the provider call of mutation `i`.  A credential is named by the mutation that
obtained it, since storage encrypts it and only its identity matters.  `ReadRecord`, `Recover`,
`Demote`, `Settle` are the branches of `prepareAuthorizationForMutation`, each a storage call; the
`Resume` operators are what the three kinds of operations do with the record it returns; `Claim`,
`Execute`, `Return`/`Abort`, `Catch`, `Release`/`FailClosed` are the body of
`executeCredentialMutation` under its heartbeat and deadline.  A call is an actor of its own because
it outlives the operation that aborted it: the provider may still act (`ProviderActs`) and the write
that stages its result may still land (`StageResult`).  `LeaseEnds` stands for heartbeats that come too late.  A crash of a process
takes its operation and nothing else.

**ProjectionRuns** (`projection-worker/src/run-projection-job.ts`, `incremental-replacement.ts`,
`storage/projection-runs`, `core/src/materializer/projections`).  `runs[v]` is the run of dataset
version `v`, `holder[v]` the claim whose execution token it has, `staged[v]` its candidate and the
base it was staged against, `active` and `commits` the source and the ontology commits.  A worker goes
`read` → `start` → `check` (→ `supersede`) → `base` → `prepare` → `commit` → `finish` → `settle`, or
by way of `caught` and `fail` to `decide`, which reads the run and chooses the settlement.  `Staged` is
what a delivery does with the candidate an earlier one left: adopt it when its base is the same, stage anew
otherwise; `StagesPartly` is an attempt interrupted in the middle of that.  `CanEnd`
and `CanSucceed` are the guards of `finishProjectionRunTransaction`; `Conflict` is what the
commit transaction checks.  Each fault is either without effect or leaves the effect and loses the
answer.

**ProjectionDispatch** (`core/src/projections/run-dispatch.ts`, `orchestrator/src/worker.ts`,
`orchestrator/src/projection-dispatch-reconciler.ts`).  `disp[d]` is a dispatch in flight for the live
path or the reconciler, `rec` the pass of the reconciler, with `cursor` and `unverified` its memory
between passes; `aged` are the runs old enough to count as stuck.  A pass is `ReadFeed` →
(dispatch of the feed) → `LookUp` → (dispatch of the looked-up version) → `ListStuck` →
`Republish` of each → `EndPass`.  `CommitVersion` may lose its event.  An enqueue that fails leaves the run
queued and is told to the caller.  The storage's `failEnqueue` has no caller, so the status it would
write, and the dispatcher's branch that queues such a run again, are not in the model.

## 4. Runs

All bounds are constants of the configurations.  Distinct states and seconds are those of one run
on four workers.

| Run | States | Shows |
| --- | --- | --- |
| `in_memory_queue` | 304 209 (13 s) | two jobs, two claim loops, two attempts, one backward clock step: heaps exact, order of service, timers armed, contract implemented |
| `in_memory_queue_live` | 105 209 (14 s) | a visible job is served while claims go on |
| `queue_delivery` | 264 177 (38 s) | one job, two deliveries, clock to 4: ownership, verdicts, one settlement, every delivery ends |
| `sync_dispatch` | 314 789 (66 s) | two automatic triggers, two dispatchers, two workers, one fault: every answered run has its job, no trigger is lost, each is served in the end |
| `sync_dispatch_manual` | 1 296 705 (32 s) | a trigger and a manual request made twice, two faults: no two workers execute a run |
| `sync_dispatch_join_manual`, `sync_dispatch_fail_unstarted` | violation | see findings |
| `ontology_outbox` | 370 546 (49 s) | two processes, two events of which one is refused, two faults, one stop |
| `connector_credentials` | 2 992 867 (103 s) | two processes, two slots, two mutations: no exchange of unknown outcome is repeated, a staged result is never lost, revocation is final |
| `projection_runs` | 1 523 717 (33 s) | three versions of which the second may fail for good, two workers, two faults: records, candidates and commits agree, and changes are applied to the version they were computed from |
| `projection_runs_fence` | violation | see findings |
| `projection_dispatch` | 699 608 (141 s) | two versions, one worker, one fault, the live path and the reconciler: nothing is forgotten, the projection catches up, the runs are those of `ProjectionRuns` |

Why these bounds are enough.

- *Queue.*  Two jobs make order, eviction from a heap and a second waiting job possible; two claim
  loops make a lost wake-up and a double claim possible; two attempts are one redelivery;
  leases, delays and timers of 1 or 2 against a clock to 2 or 3 give every order of enqueue time,
  due time, lease end and now.  `MaxTimerDelay` is larger than every delay here; the proofs hold
  for the clipped timer too.
- *Delivery.*  One job is enough, since deliveries meet only over a job.  Two slots are the holder
  of an old lease and of the next.  A clock to 4 with leases of 2 holds two consecutive leases and
  a renewal of each.
- *Dispatch of syncs.*  Two of every actor give each race its two sides: two joining triggers, a
  trigger and the manual dispatch it joins, two jobs of one run in two workers.  One fault is a crash
  between the two systems, or an answer lost; two (`sync_dispatch_manual`) are a lost answer
  followed by a crash, or a failed enqueue followed by a failed retry.
- *Outbox.*  A batch of two with one refused event is split; the later, healthy half takes the
  second call of the budget, and the refused half is given up without a call, at the budget's
  limit.  Two processes give each row an old and a new holder; five lease ids are more than can be
  in use.  With two events no split goes deeper than one level, and no group to be rescheduled has
  rows with different attempt counts; three events with a batch of three and a budget of 3 or 5 were
  checked once with one fault and no stop, with the same result, but are too slow to keep.  The
  proofs cover every number of events, batch size and budget for the properties they state.
- *Credentials.*  Two mutations are the least for a token presented twice and for a revocation
  that overtakes an exchange, and two processes are its holder and whoever finds it expired; two
  slots let the connections of a grant change without ending it.  Faults are not bounded: leases end,
  answers are lost and processes stop at any step.
- *Projections.*  Three versions give a run a newer and an older rival at once, and the one in
  the middle may fail for good between them, or commit and move the base of the others; two workers are the two sides of each
  race, or the holder of an old token and of the next; two faults are a commit whose end is not
  recorded followed by a crash.  The composition has two versions and one worker, because the races of
  two workers are those of `projection_runs`, of which it is shown to be an instance; its one fault is
  a lost dispatch, publication or lookup, a restarted feed, or a crash of the orchestrator.

`CHECK_DEADLOCK FALSE` is set where clocks, attempts, requests or mutations are bounded, or where a
projection has no more versions to come: there the models really stop.
`projection_dispatch` checks deadlock: the reconciler never stops.

**Fairness.**  Safety is checked without any.  Liveness assumes weak fairness of:
coroutines whose await has been answered (the event loop runs them); timers and time; a queue
call by a settlement, which answers or fails; the claim loops and the orchestrator, which loop for
as long as their process lives; leases and back-offs, which end by the clock; the maintenance
interval that drains the outbox (`maintenance/ontology-maintenance.ts`), the reconciler's interval,
and the supervisor that starts a stopped process again.  `ProjectionDispatch` also assumes strong
fairness of the claim of each job: two jobs share a slot, and a job that is retried backs off, so that
the other one is visible first and is taken in the order of the queue (`ClaimServesInOrder`).  A
renewal may stay unanswered for ever, and `DeliveryEnds` holds
all the same because the delivery has a timer of its own.  Faults are never fair, and are finitely
many.  `HealthyIsPublished` needs that the broker does not refuse a healthy event for ever, and
`CatchesUp` that dispatches do not fail for ever, which is what finitely many faults mean.

## 5. Proofs

The proofs need only the named assumptions on the constants (`InMemoryQueueAssumption`,
`QueueDeliveryAssumption`, `OntologyOutboxAssumption`, `SyncRunDispatchAssumption`,
`ProjectionRunsAssumption`, `MaxMutationsAssumption`), which say that bounds are natural numbers, that
there is a job, that batches, leases and budgets are at least 1 and a dataset has a version, that the
null lease is no lease and the null slot no slot, and that triggers and manual requests have different
run ids.  Six theorems have a hypothesis of their own, each of which some deployment or Sync
meets and without which the property can be false:

| Theorems | Hypothesis | Why |
| --- | --- | --- |
| `OwnersAreReal`, `OneOwner` | `~StampOnReply` | a provider that dates a renewal by its answer lets a delivery believe in a lease that has ended (section 6) |
| `AnswersAreBacked`, `TriggersCovered` | `Manual = {}` | a trigger that joins a manual run can be lost with it (finding 1) |
| `PoisonCostsItself`, `IsolationCost` | `Isolates(Depth, reach)`: at most one event is refused, a batch is at most `2^Depth` rows and the budget at least `2 * Depth + 1` calls | two refused events, or a smaller budget, can use up the calls before the healthy rows are separated from them |

**InMemoryQueueProofs.**

- `TypeCorrect`: `TypeOK` is inductive.  Its delicate conjunct is that no timer is negative: a claim
  goes to sleep only after it has moved every due record out of `waiting`.
- `HeapsExact`: `HeapsHoldEveryLiveJob` is inductive with `TypeOK`: every action ends in `Schedule`
  for the records it changed, or moves a record from one heap to the other.
- `WakesInTime`: while the clock has not been set back every sleeping claim is armed for the next
  due job.  This is not inductive by itself: the proof adds `ReadyIsDue`, that `ready` holds only
  eligible jobs, so that a claim that goes to sleep leaves every job in `waiting`, where its timer
  looks.  The condition cannot be dropped (section 6).
- `ContractImplemented`: every step of the lane is a step of `LeaseQueue` or a stutter, also when
  the clock is set back.
- `ServedInOrder`: `ClaimServesInOrder`, an action property.  A claim takes the first records of
  `ready`, and by `HeapsExact` every deliverable job is there once the due ones were moved.  That the
  first records exist and are the first of all needs `Numbered`: the enqueued jobs are finitely many and
  have different sequence numbers, so that `Before` orders them totally.

**QueueDeliveryProofs.**  `LeaseInv` says how leases are numbered (the running lease of a job is its
latest, and a delivery's is one that was handed out), who may still settle (a lease under which a
settlement was applied or is on its way belongs to no delivery that is undecided), and what the
histories record.  `SettledOnce` alone is not inductive: a settlement that comes late must be known
to be the only one under its lease before the queue serves it, and to be refused when the lease has
ended.

- `DeliveryTypeCorrect`, `SettlesOnce`, `ReportsAreTrue`: for providers of both kinds.  The last one also
  speaks of a lease that ends between its confirmation and the settlement call: a call that the queue has
  not served, or has refused, leaves no settlement behind (`NothingAsked`).
- `OwnersAreReal`: `OwnershipIsReal`, from a second invariant, `DeadlinesAreBacked`: until the deadline
  a delivery has, and the one an answer under way will give it, the queue honours its lease.  It rests
  on renewals being dated when the queue applies them.
- `OneOwner`: so two deliveries never both believe in a lease of the same job.

**OntologyOutboxProofs.**  One inductive invariant `OutboxInv` carries all four theorems.  Besides
types it says
(1) only pending rows are leased;
(2) two batches never share a lease (`createLeaseId` draws a fresh one);
(3) at each await the dispatcher's record is `Sound`: a pass with a batch has a lease; its groups
are rows that were written; all groups but one being published for the first time have failed
before, so the budget of calls applies to them; what is being marked was taken by the broker; a
drain that was accepted is answered by this pass or the next.
Clause (3) is needed because the pass carries a batch over several awaits, and a property like
"nothing is marked that the broker did not take" depends on what it put into the record earlier.
The parts of the pass are operators, so each has a lemma (`NextGroupSound`, `RefusedSound`,
`FinallySound`, …: from a working record to a sound one) and each action's step is short.

- `TypeCorrect`; it includes that no batch costs more than `maxIsolationAttempts` broker calls.
- `FeedImplemented`: every step is a step of `EventFeed` or a stutter.  A row is marked only after the
  broker took its event, and a marked row is never reopened or marked twice; the broker may still be given
  the event again, by a process whose lease on the row had ended.
- `Fenced`: `OnlyTheHolderSettles`, an action property, from (1) and (2) and from the fact that a
  dispatcher that settles rows always changes its own record.
- `NoDrainIsLost`: `DrainsAreAnswered`.

**OntologyOutboxCalmProofs.**  These theorems speak of executions without faults, so their invariants
follow every row of a batch to its settlement.  `CalmInv` says that the groups of a batch and the rows
being settled are disjoint, that each of these rows is leased under the batch's lease, and that each
leased row is one of them: nothing is dropped between a bisection, a settlement, a stop and the
finally clause.

- `StopLeavesNothing`: `StoppedHoldsNothing`.
- `PoisonCostsItself`: `OnlyPoisonIsBlamed`, for every batch size, and `IsolationCost`: the number of
  calls.  The code says "Isolating one poison row from a 1,000-row batch needs up to 21 broker calls"
  (`events/outbox-dispatcher.ts:17`), which is `2 * Depth + 1` for `Depth = 10`; its default budget is 32.
  The invariant (`AllAfford`) bounds the calls made so far and the halvings still to come of the group
  that holds the refused event: each bisection costs one refused and at most one successful call.
  Halving is counted by `reach`, a function with `reach[d + 1] = 2 * reach[d]`, so no induction over
  data is needed.  The run has a budget one call smaller than the theorem asks for, so that the limit
  is exercised; there the property holds because the refused event is the oldest.

**SyncRunDispatchProofs.**  `DispatchInv` strengthens `TypeOK` and `OneExecution` by what dispatches
and deliveries rely on after they have read a run and before they act on it: a dispatch that is about
to publish holds the job of a persisted run (`CallersOK`), and a worker executes a run that is
`running` or ended, even when somebody else ended it (`WorkersOK`).  Both survive every change of the
run records because these only go forward (`Forward`): no run goes back to absent, and none that
started goes back to `queued`.  `RunStep` says so of each write, so every action's proof has two
parts: its write of `runs` is a `RunStep`, and its own record stays sound.

- `TypeCorrect`; it includes that a job in the queue, or in an enqueue call not answered, names a
  persisted run.
- `ExecutionIsExclusive`: `OneExecution`.  A worker begins to execute a run that is `queued`, and by
  `WorkersOK` nobody executes such a run.
- `NeverAgain`: `RunsOnce`, an action property, from `RunStep`: a run that ended stays ended and one that
  started is never queued again.  Nearly a restatement of the transition table, so no run is spent on it.
- `AnswersAreBacked` (`AnsweredRunHasJob`) and `TriggersCovered` (`TriggersAreCovered`), for a Sync
  without manual requests.  `TriggersInv` adds that no run is marked `enqueueFailed` (only a manual
  dispatch does that), that a run some request was answered with and that still waits has a job, that
  a job ends only when its run has started or failed, and that a run that was started covers its own
  trigger, those about to be answered with it and those that were.  Each action is shown to be a
  `TriggersFlow`, which says how runs, jobs, dispatches and workers may move, and every such move
  preserves the invariant.

**ConnectorCredentialsProofs.**  The invariant has two parts.  `RecordInv` relates the record to the
provider's calls: the stored credential of a grant that is or may come into use was presented by no
call but the current one and those known to have changed nothing (`PresentedOnce`), and is
rotated away only by the current one (`SpentByCurrent`).  `NoUnknownEffectReplayed` alone is not
inductive, because it does not say that a token about to be presented is a fresh one; and
`ActiveCredentialIsLive` alone says nothing while an exchange is executing, the one time it can be lost.
`OpsInv` says what an operation may rely on after others have moved the record (`Sound`): who is
about to execute holds a claim that still waits, or one that is gone; an error that vouches for the
provider is recorded in the call; two operations never hold the same claim.  Each write of the record
is shown to preserve `RecordInv` and to be a `Forward` move, which never brings a mutation back;
an operation is sound across every forward move (`SoundStays`), so the steps of one operation say
nothing of the others.

- `CredentialsTypeCorrect`, `NothingReplayed`, `LiveWhileActive`, `UsersMatch`,
  `ReauthorizationBound`: the invariants of the run.
- `RevocationFinal`, `StagedKept`: its action properties, which are part of each write's lemma.
- `RejectedReplaced`: `RejectedTokenIsReplaced`, from a second invariant, `FreshInv`.  The code compares
  revisions, never tokens; the invariant says why that is enough.  A token a caller has rejected was
  stored at a revision, and an active grant stores it at no other (`Remembered`); the record a request
  may be handed is not older than that token (`Offered`); and a request that has made an exchange of its
  own, or waited for somebody's, ends with a revision later than the one it set out to replace.  What
  other processes do is summed up by `Follows`: a status or a credential comes with a new revision, a
  grant becomes active with a new credential, a staged result stays until then.

**ProjectionRunsProofs.**  `RunsInv` adds to `RecordsTellTheSource` that a run's commit releases its
candidate for good, and of a worker that is about to commit that the source it prepared for is not
newer than its own version.  Without the last clause the watermark is not inductive: the commit of a
complete read is compared only with the revision it expects.  Every action has one lemma; the proof
of `RecordsTellTheSource` itself is in those of `Commit`, `Finish` and the ends without success.

- `TypeCorrect` (of `RunsTypeOK`) and `RecordsAreTrue`.
- `ChangesFit`: `ChangesFitTheSource`, from a further invariant, `FitInv`: the candidate of a run
  whose worker is about to commit, still holds the token and finds no commit was staged, by it or by an
  earlier delivery, against the base this worker knows.  A candidate is staged again only under the token,
  and a base that has moved is noticed in the transaction that commits; both are needed.

**ProjectionDispatchProofs.**  `DInv` adds to `RunsInv` the clauses of the dispatchers and of a pass: a
dispatch that is about to publish knows of a recorded run; a position of the feed is *covered* when the
version there or a later one has a run; a trusted cursor is covered, and so is the position that a
pass has read once its dispatch has succeeded, although the cursor moves to it only two steps
later.

- `DispatchTypeCorrect`, `NeverForgotten`.
- `RunsImplemented`: every step is a step of `ProjectionRuns` or a stutter; `RecordsStayTrue` takes
  `RecordsAreTrue` over to the composition.

**Model-checked only.**  Every invariant and action property of a passing run is now a theorem.  What
stays with TLC is liveness (the prover handles neither fairness nor ENABLED): `VisibleJobIsServed`,
`DeliveryEnds`, `TriggerIsServed`, `HealthyIsPublished` and `CatchesUp`.  What recursive definitions
compute would need induction over data, which the prover cannot do; the modules have none.

## 6. Findings

Three runs end in a violation of something the repository says of itself.

1. `sync_dispatch_join_manual`: a trigger joins a manual run whose publication then fails and is
   marked failed; the acknowledged trigger is covered by no run (`syncs/run-dispatch.ts:279`).
2. `sync_dispatch_fail_unstarted`: `failUnstartedRun` finishes a run as failed that the worker of
   another job has started since it was read (`sync-worker/src/worker.ts:176`).
3. `projection_runs_fence`: a complete read is committed under the source revision it was prepared for.
   When the run of an *older* version, which passed its supersession check before the newer one
   was admitted, commits in between, the newer run ends as failed with `projection-fence`, as if it
   were stale (`projection-worker/src/run-projection-job.ts:505`).

More was seen while modelling and is kept without a run.

- In the in-process queue, `waitForWork` arms its timer for the head of the waiting heap only.  After
  the wall clock is set back a job already moved to the ready heap lies in the future again, and a
  claim oversleeps it (`queues/in-memory.ts:187`, comment at `:184`).  `ArmedForNextDue` holds up to
  the first step back.
- The lease can run out between the confirmation and the settlement call; `settle` then throws although
  its doc says settlement never throws for a lost lease (`workers/queue-delivery.ts:159` and
  `:8`).  `VerdictsAreTrue` says what such a throw is worth: when it is the queue's refusal, nothing was
  applied and nothing will be.
- With `StampOnReply = TRUE`, as the BullMQ provider dates its renewals
  (`queues/bullmq/src/bullmq-queue.ts:224`), a delivery believes in a lease that has ended:
  `OwnershipIsReal` fails within five ticks.
- A manual dispatch that dies between persisting and publishing is answered, when retried with its
  run id, with a queued run for which no job exists (`syncs/run-dispatch.ts:104`).
- As many refused outbox rows as a batch is long can keep younger rows waiting, because claims take
  the oldest due rows (`storage/ontology/in-memory/outbox.ts:57`).
- A projection run whose commit exists, but whose end was not recorded before a newer run came, is
  refused its supersession on every delivery; it stays running and its job is retried for ever
  (`projection-worker/src/run-projection-job.ts:105` to `:121`).
- A token request whose refresh lost a race returns the token of the record it read after
  `prepareAuthorizationForMutation` without looking at the record's status (`tokens.ts:124`, `:130`), so that it can be
  the token of a grant whose revocation is pending.  `RejectedTokenIsReplaced` is stated for active ones.
- A holder whose lease on a prepared mutation ended before it could mark it executing fails closed,
  although no call was made (`storage/connector-connections/types.ts:516`): safe, but the grant then asks for
  reauthorization.

## 7. What is not modelled

Payloads, provenance, failure records and their wording are abstracted away.  The in-process queue
is one lane: lanes of different projects and kinds share nothing but the store's sequence
counter.  Reading the source and writing the dataset of a sync are one step.  So are the chunks in which
a projection stages its candidate, although an interruption may leave it partly staged, and those in
which it plans its changes.  The values of
back-offs and attempt counts of outbox rows are abstracted to "not due yet" and to any grouping of
the rows by attempts.  The model of projections has one replacement projection and one orchestrator;
telemetry projections, cancellation, schema versions, waits for objects that do not exist yet and
repeated rounds of planning are left out.  The model of credentials starts with a stored grant: the
OAuth state of its first authorization, the selection of an account and the encryption of secrets are
left out.

The rest is not modelled, for these reasons: pipelines dispatch their runs as syncs do, line for line, and
what differs in their worker lies in the lake; action, workflow and agent runs are large protocols of
their own over models, connectors and approvals, and nothing checked here depends on them; SQL, Redis and
NATS providers do their transitions inside other systems; the broker is taken as the log that
`EventFeed` writes; the indexed heap is a pure data structure that `InMemoryQueue` abstracts to a set
with an order; the scheduler emits events whose ids make doubles harmless; everything that presents or
adapts (server, client, UI, CLI, connectors to services) has no protocol of its own.  `PROJECT.json`
"components" lists each with its sources; hazards they carry are listed there without properties.
