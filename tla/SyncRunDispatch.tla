-------------------------- MODULE SyncRunDispatch ---------------------------
(***************************************************************************)
(* How one Sync gets its runs: the dispatch of automatic triggers and      *)
(* manual requests (packages/core/src/syncs/run-dispatch.ts), the run      *)
(* records they share (packages/core/src/storage/sync-runs), and the sync  *)
(* workers that start and end the runs (packages/sync-worker/src).         *)
(*                                                                         *)
(* A run is persisted before its queue job is published.  A trigger that   *)
(* finds a run waiting joins it and publishes one more job for it.  Reads  *)
(* and writes of the storage, queue calls and the worker's steps are       *)
(* separate actions; callers and workers fail and stop between any two.    *)
(*                                                                         *)
(* The queue is that of LeaseQueue without its clock: a lease may end at   *)
(* any time, and a worker that lost it goes on until its next queue call.  *)
(***************************************************************************)
EXTENDS Integers, FiniteSets

CONSTANTS Trigger,           \* automatic triggers, named by the run id they derive
          Manual,            \* run ids of manual requests
          Caller,            \* processes that dispatch
          Worker,            \* job slots of the sync workers
          NoRun,             \* no run id
          UnstartedAttempts, \* UNSTARTED_RUN_ATTEMPTS
          MaxRequests,       \* bound: manual requests, retries included
          MaxFaults          \* bound: failures of any kind

ASSUME SyncRunDispatchAssumption ==
  /\ Trigger \cap Manual = {}
  /\ NoRun \notin Trigger \cup Manual
  /\ UnstartedAttempts \in Nat \ {0}
  /\ MaxRequests \in Nat
  /\ MaxFaults \in Nat

VARIABLES runs,      \* runs[r]: the status of the run with id r
          jobs,      \* jobs[<<r, x>>]: the job published for run r under request x
          inFlight,  \* enqueue calls that may still reach the queue
          caller,    \* caller[c]: where the dispatch of process c stands
          worker,    \* worker[w]: where the delivery in slot w stands
          pending,   \* triggers of batches not acknowledged yet
          promised,  \* history: promised[q], the runs request q was answered with
          covered,   \* history: triggers that had arrived when some run started
          requests,  \* manual requests so far
          faults     \* failures so far

dispatchVars == <<caller, pending, promised, requests>>
vars == <<runs, jobs, inFlight, caller, worker, pending, promised, covered, requests, faults>>

Run == Trigger \cup Manual

\* <<r, r>> is the run's own job id; <<r, t>> is joinJobId(r, t).
JobId == Run \X Run

\* "enqueueFailed" is failed with the code queue.enqueue_failed.
Ended == {"succeeded", "failed", "cancelled"}

AbsentJob == [state |-> "absent", attempt |-> 0, lease |-> 0]

IdleCaller == [pc |-> "idle", request |-> NoRun, job |-> <<NoRun, NoRun>>]
IdleWorker == [pc |-> "idle", job |-> <<NoRun, NoRun>>, lease |-> 0, op |-> "complete"]

Fault == faults < MaxFaults /\ faults' = faults + 1

-----------------------------------------------------------------------------
(* The run records *)

Queue(r) == runs' = [runs EXCEPT ![r] = "queued"]

\* canFinishSyncRun: a run that never started can only fail.
CanFinish(r, status) ==
  CASE status \in {"succeeded", "cancelled"} -> runs[r] = "running"
    [] status = "enqueueFailed"             -> runs[r] = "queued"
    [] status = "failed"                    -> runs[r] \in {"queued", "running"}

Finish(r, status) == /\ CanFinish(r, status)
                     /\ runs' = [runs EXCEPT ![r] = status]

\* Mutant: a run starts from any status.
StartAny(r) == /\ runs' = [runs EXCEPT ![r] = "running"]
               /\ covered' = covered \cup pending \cup {t \in Trigger : promised[t] # {}}

\* start moves the run from queued to running.  Its source is read from here on,
\* so it covers every trigger that has arrived; a run counts as started also when
\* the answer to this call is lost and no worker goes on to read (StartFails).
Start(r) == /\ runs[r] = "queued"
            /\ runs' = [runs EXCEPT ![r] = "running"]
            /\ covered' = covered \cup pending \cup {t \in Trigger : promised[t] # {}}

-----------------------------------------------------------------------------
(* The queue *)

\* Repeating a job id changes nothing, also when that job has been settled.
Enqueued(J) == [j \in JobId |-> IF j \in J /\ jobs[j].state = "absent"
                                THEN [AbsentJob EXCEPT !.state = "queued"]
                                ELSE jobs[j]]

Live(j) == jobs[j].state = "queued"

Holds(w) == worker[w].pc # "idle" /\ Live(worker[w].job)
            /\ jobs[worker[w].job].lease = worker[w].lease

-----------------------------------------------------------------------------
Init == /\ runs = [r \in Run |-> "absent"]
        /\ jobs = [j \in JobId |-> AbsentJob]
        /\ inFlight = {}
        /\ caller = [c \in Caller |-> IdleCaller]
        /\ worker = [w \in Worker |-> IdleWorker]
        /\ pending = {} /\ covered = {}
        /\ promised = [q \in Run |-> {}]
        /\ requests = 0 /\ faults = 0

\* The broker hands the orchestrator a trigger in a batch it keeps until the
\* trigger's dispatch returns.
Arrive(t) == /\ t \notin pending /\ promised[t] = {}
             /\ pending' = pending \cup {t}
             /\ UNCHANGED <<runs, jobs, inFlight, caller, worker, promised, covered, requests, faults>>

Goto(c, pc, job) == caller' = [caller EXCEPT ![c].pc = pc, ![c].job = job]

\* The dispatch of c returns run r to whoever asked.
Return(c, r) == /\ caller' = [caller EXCEPT ![c] = IdleCaller]
                /\ pending' = pending \ {caller[c].request}
                /\ promised' = [promised EXCEPT ![caller[c].request] = @ \cup {r}]
                /\ UNCHANGED requests

Calling == UNCHANGED <<pending, promised, requests>>
WorkersUnchanged == UNCHANGED <<worker, covered>>

\* dispatch of a pending trigger, by any process that has its batch, or of a
\* manual request, first or retried.
Dispatch(c, r) ==
  /\ caller[c].pc = "idle"
  /\ \/ r \in pending /\ UNCHANGED requests
     \/ r \in Manual /\ requests < MaxRequests /\ requests' = requests + 1
  /\ caller' = [caller EXCEPT ![c].pc = "look", ![c].request = r]
  /\ UNCHANGED <<runs, jobs, inFlight, pending, promised, faults>> /\ WorkersUnchanged

\* Mutant: a redelivered trigger takes its waiting run for published.
LookTrustsQueued(c) ==
  LET r == caller[c].request IN
  /\ caller[c].pc = "look"
  /\ \/ runs[r] = "absent" /\ Goto(c, "create", caller[c].job) /\ Calling
     \/ runs[r] = "enqueueFailed" /\ Goto(c, "requeue", caller[c].job) /\ Calling
     \/ runs[r] \in {"queued", "running"} \cup Ended /\ Return(c, r)
  /\ UNCHANGED <<runs, jobs, inFlight, faults>> /\ WorkersUnchanged

\* persistSyncRun reads the run with its own id; reuseSyncRun decides.
Look(c) ==
  LET r == caller[c].request IN
  /\ caller[c].pc = "look"
  /\ \/ runs[r] = "absent" /\ Goto(c, "create", caller[c].job) /\ Calling
     \/ runs[r] = "enqueueFailed" /\ Goto(c, "requeue", caller[c].job) /\ Calling
     \/ runs[r] = "queued" /\ r \in Trigger /\ Goto(c, "publish", <<r, r>>) /\ Calling
     \/ /\ runs[r] \in {"running"} \cup Ended \/ (runs[r] = "queued" /\ r \in Manual)
        /\ Return(c, r)
  /\ UNCHANGED <<runs, jobs, inFlight, faults>> /\ WorkersUnchanged

\* Mutant: a run that has started is joined too.
JoinableStarted == {r \in Run : runs[r] \in {"queued", "running"}}

\* findQueuedSyncRun: the oldest run that waits.  Clocks of several processes
\* dated the runs, so it may be any.
Joinable == {r \in Run : runs[r] = "queued"}

\* Mutant: the job is published for a run that is not persisted.
CreateUnpersisted(c) ==
  LET r == caller[c].request IN
  /\ caller[c].pc = "create"
  /\ \/ /\ runs[r] # "absent"
        /\ IF r \in Trigger /\ runs[r] = "queued"
           THEN Goto(c, "publish", <<r, r>>) /\ Calling
           ELSE Return(c, r)
        /\ UNCHANGED runs
     \/ /\ runs[r] = "absent" /\ r \in Trigger
        /\ \E waiting \in Joinable : Goto(c, "publish", <<waiting, r>>)
        /\ UNCHANGED runs /\ Calling
     \/ /\ runs[r] = "absent" /\ (r \in Manual \/ Joinable = {})
        /\ UNCHANGED runs /\ Goto(c, "publish", <<r, r>>) /\ Calling
  /\ UNCHANGED <<jobs, inFlight, faults>> /\ WorkersUnchanged

\* The serializable transaction: reuse a run that appeared, join one that waits
\* (automatic triggers only), or create the run.
Create(c) ==
  LET r == caller[c].request IN
  /\ caller[c].pc = "create"
  /\ \/ /\ runs[r] # "absent"
        /\ IF r \in Trigger /\ runs[r] = "queued"
           THEN Goto(c, "publish", <<r, r>>) /\ Calling
           ELSE Return(c, r)
        /\ UNCHANGED runs
     \/ /\ runs[r] = "absent" /\ r \in Trigger
        /\ \E waiting \in Joinable : Goto(c, "publish", <<waiting, r>>)
        /\ UNCHANGED runs /\ Calling
     \/ /\ runs[r] = "absent" /\ (r \in Manual \/ Joinable = {})
        /\ Queue(r) /\ Goto(c, "publish", <<r, r>>) /\ Calling
  /\ UNCHANGED <<jobs, inFlight, faults>> /\ WorkersUnchanged

\* reuseSyncRun queues a run whose publication failed again; storage refuses
\* when it no longer is such a run.
Requeue(c) ==
  LET r == caller[c].request IN
  /\ caller[c].pc = "requeue"
  /\ IF runs[r] = "enqueueFailed"
     THEN Queue(r) /\ Goto(c, "publish", <<r, r>>)
     ELSE UNCHANGED runs /\ caller' = [caller EXCEPT ![c] = IdleCaller]
  /\ Calling
  /\ UNCHANGED <<jobs, inFlight, faults>> /\ WorkersUnchanged

\* publishSyncRun: the queue acknowledges the job.
Publish(c) ==
  /\ caller[c].pc = "publish"
  /\ jobs' = Enqueued({caller[c].job})
  /\ Return(c, caller[c].job[1])
  /\ UNCHANGED <<runs, inFlight, faults>> /\ WorkersUnchanged

\* The enqueue call fails, and the job may reach the queue all the same.  An
\* automatic dispatch rethrows and leaves the run queued.
PublishFails(c) ==
  /\ caller[c].pc = "publish" /\ Fault
  /\ inFlight' \in {inFlight, inFlight \cup {caller[c].job}}
  /\ caller' = [caller EXCEPT ![c] = IF @.request \in Trigger
                                     THEN IdleCaller ELSE [@ EXCEPT !.pc = "markFailed"]]
  /\ Calling
  /\ UNCHANGED <<runs, jobs>> /\ WorkersUnchanged

\* A manual dispatch records the failed publication, if the run still waits.
MarkFailed(c) ==
  LET r == caller[c].request IN
  /\ caller[c].pc = "markFailed"
  /\ \/ Finish(r, "enqueueFailed")
     \/ ~CanFinish(r, "enqueueFailed") /\ UNCHANGED runs
  /\ caller' = [caller EXCEPT ![c] = IdleCaller]
  /\ Calling
  /\ UNCHANGED <<jobs, inFlight, faults>> /\ WorkersUnchanged

EnqueueLands == /\ \E j \in inFlight : /\ inFlight' = inFlight \ {j}
                                       /\ jobs' = Enqueued({j})
                /\ UNCHANGED <<runs, faults>>
                /\ UNCHANGED dispatchVars /\ WorkersUnchanged

\* A storage call of the dispatch fails, or its process dies.
CallerStops(c) ==
  /\ caller[c].pc # "idle" /\ Fault
  /\ caller' = [caller EXCEPT ![c] = IdleCaller]
  /\ Calling
  /\ UNCHANGED <<runs, jobs, inFlight>> /\ WorkersUnchanged

-----------------------------------------------------------------------------
(* The sync workers *)

WorkerGoes(w, pc) == worker' = [worker EXCEPT ![w].pc = pc]

Settling(w, op) == worker' = [worker EXCEPT ![w].pc = "settle", ![w].op = op]

TheRun(w) == worker[w].job[1]

QueueAndCallers == UNCHANGED <<jobs, inFlight>> /\ UNCHANGED dispatchVars

Claim(w, j) ==
  /\ worker[w].pc = "idle"
  /\ Live(j) /\ jobs[j].lease = 0
  /\ jobs' = [jobs EXCEPT ![j].attempt = @ + 1, ![j].lease = jobs[j].attempt + 1]
  /\ worker' = [worker EXCEPT ![w] = [IdleWorker EXCEPT !.pc = "read", !.job = j,
                                                        !.lease = jobs[j].attempt + 1]]
  /\ UNCHANGED <<runs, inFlight, covered, faults>> /\ UNCHANGED dispatchVars

\* execute: a run that another job has started leaves nothing to do.
ReadRun(w) ==
  /\ worker[w].pc = "read"
  /\ IF runs[TheRun(w)] = "queued" THEN WorkerGoes(w, "start") ELSE Settling(w, "complete")
  /\ UNCHANGED <<runs, covered, faults>> /\ QueueAndCallers

StartRun(w) ==
  /\ worker[w].pc = "start"
  /\ \/ Start(TheRun(w)) /\ WorkerGoes(w, "work")
     \/ runs[TheRun(w)] # "queued" /\ UNCHANGED <<runs, covered>> /\ WorkerGoes(w, "recheck")
  /\ UNCHANGED faults /\ QueueAndCallers

\* The start call fails; it may have been applied.
StartFails(w) ==
  /\ worker[w].pc = "start" /\ Fault
  /\ Start(TheRun(w)) \/ UNCHANGED <<runs, covered>>
  /\ WorkerGoes(w, "recheck")
  /\ QueueAndCallers

\* A run that no longer waits counts as started by another job.
Recheck(w) ==
  /\ worker[w].pc = "recheck"
  /\ IF runs[TheRun(w)] = "queued" THEN WorkerGoes(w, "decide") ELSE Settling(w, "complete")
  /\ UNCHANGED <<runs, covered, faults>> /\ QueueAndCallers

\* The dataset is written and the run ends as succeeded, or it ends as failed;
\* when storage refuses because the run is not running, the error goes on.
EndRun(w) ==
  /\ worker[w].pc = "work"
  /\ \/ Finish(TheRun(w), "succeeded") /\ Settling(w, "complete")
     \/ Finish(TheRun(w), "failed") /\ WorkerGoes(w, "decide")
     \/ /\ ~CanFinish(TheRun(w), "succeeded") /\ UNCHANGED runs
        /\ WorkerGoes(w, "decide")
  /\ UNCHANGED <<covered, faults>> /\ QueueAndCallers

\* The worker shuts down: a run it has started ends as cancelled, and the job
\* is released (onAbortError).
Shutdown(w) ==
  /\ worker[w].pc \in {"start", "work"} /\ Fault
  /\ \/ worker[w].pc = "work" /\ Finish(TheRun(w), "cancelled")
     \/ /\ worker[w].pc = "start" \/ ~CanFinish(TheRun(w), "cancelled")
        /\ UNCHANGED runs
  /\ Settling(w, "retry")
  /\ UNCHANGED covered /\ QueueAndCallers

\* Any other storage error: execute throws before the run has started or when
\* its end could not be recorded.
ExecuteFails(w) ==
  /\ worker[w].pc \in {"read", "recheck", "work"} /\ Fault
  /\ WorkerGoes(w, "decide")
  /\ UNCHANGED <<runs, covered>> /\ QueueAndCallers

\* Mutant: the last attempt fails the job and leaves the run queued.
DecideLeavesRun(w) ==
  /\ worker[w].pc = "decide"
  /\ IF runs[TheRun(w)] = "queued" /\ worker[w].lease < UnstartedAttempts
     THEN Settling(w, "retry") ELSE Settling(w, "fail")
  /\ UNCHANGED <<runs, covered, faults>> /\ QueueAndCallers

\* onExecutionError reads the run: a run that waits is retried, or failed once
\* the job's attempts are spent.
Decide(w) ==
  /\ worker[w].pc = "decide"
  /\ IF runs[TheRun(w)] # "queued" THEN Settling(w, "fail")
     ELSE IF worker[w].lease < UnstartedAttempts THEN Settling(w, "retry")
     ELSE WorkerGoes(w, "failRun")
  /\ UNCHANGED <<runs, covered, faults>> /\ QueueAndCallers

\* failUnstartedRun; when storage refuses, the job is left to its lease.
FailRun(w) ==
  /\ worker[w].pc = "failRun"
  /\ \/ Finish(TheRun(w), "failed") /\ Settling(w, "fail")
     \/ /\ ~CanFinish(TheRun(w), "failed") /\ UNCHANGED runs
        /\ worker' = [worker EXCEPT ![w] = IdleWorker]
  /\ UNCHANGED <<covered, faults>> /\ QueueAndCallers

\* The settlement, under the lease if it still runs.
Settled(j, op) ==
  CASE op = "complete" -> [jobs[j] EXCEPT !.state = "completed", !.lease = 0]
    [] op = "fail"     -> [jobs[j] EXCEPT !.state = "failed", !.lease = 0]
    [] op = "retry"    -> [jobs[j] EXCEPT !.lease = 0]

Settle(w) ==
  /\ worker[w].pc = "settle"
  /\ jobs' = IF Holds(w)
             THEN [jobs EXCEPT ![worker[w].job] = Settled(worker[w].job, worker[w].op)]
             ELSE jobs
  /\ worker' = [worker EXCEPT ![w] = IdleWorker]
  /\ UNCHANGED <<runs, inFlight, covered, faults>> /\ UNCHANGED dispatchVars

\* The worker process dies, or its decision or settlement fails.
WorkerStops(w) ==
  /\ worker[w].pc # "idle" /\ Fault
  /\ worker' = [worker EXCEPT ![w] = IdleWorker]
  /\ UNCHANGED <<runs, covered>> /\ QueueAndCallers

\* A lease that nobody renews ends; a lease can also be lost under its worker.
LeaseEnds(j) ==
  /\ Live(j) /\ jobs[j].lease # 0
  /\ IF \E w \in Worker : worker[w].job = j /\ Holds(w) THEN Fault ELSE UNCHANGED faults
  /\ jobs' = [jobs EXCEPT ![j].lease = 0]
  /\ UNCHANGED <<runs, inFlight, worker, covered>> /\ UNCHANGED dispatchVars

-----------------------------------------------------------------------------
CallerSteps(c) == Look(c) \/ Create(c) \/ Requeue(c) \/ Publish(c) \/ MarkFailed(c)

WorkerSteps(w) == \/ ReadRun(w) \/ StartRun(w) \/ Recheck(w) \/ EndRun(w)
                  \/ Decide(w) \/ FailRun(w) \/ Settle(w)

Next ==
  \/ \E t \in Trigger : Arrive(t)
  \/ \E c \in Caller : \/ \E r \in Run : Dispatch(c, r)
                       \/ CallerSteps(c) \/ PublishFails(c) \/ CallerStops(c)
  \/ \E w \in Worker : \/ \E j \in JobId : Claim(w, j)
                       \/ WorkerSteps(w) \/ StartFails(w) \/ Shutdown(w)
                       \/ ExecuteFails(w) \/ WorkerStops(w)
  \/ \E j \in JobId : LeaseEnds(j)
  \/ EnqueueLands

Spec == Init /\ [][Next]_vars

\* The orchestrator dispatches the batches it keeps, processes take their steps,
\* workers claim, and an abandoned lease ends.
Fairness ==
  /\ \A c \in Caller : /\ WF_vars(CallerSteps(c))
                       /\ WF_vars(\E r \in Trigger : Dispatch(c, r))
  /\ \A w \in Worker : WF_vars(WorkerSteps(w))
  /\ \A j \in JobId : /\ WF_vars(\E w \in Worker : Claim(w, j))
                      /\ WF_vars(LeaseEnds(j) /\ UNCHANGED faults)

FairSpec == Spec /\ Fairness

-----------------------------------------------------------------------------
(* Properties *)

CallerRecord == [pc: {"idle", "look", "create", "requeue", "publish", "markFailed"},
                 request: Run \cup {NoRun}, job: (Run \cup {NoRun}) \X (Run \cup {NoRun})]

WorkerRecord == [pc: {"idle", "read", "start", "recheck", "work", "decide", "failRun", "settle"},
                 job: (Run \cup {NoRun}) \X (Run \cup {NoRun}), lease: Nat,
                 op: {"complete", "retry", "fail"}]

\* The variables have the shapes of the code's records, and a job names a run
\* that is persisted (run-dispatch.ts, dispatchSyncRun: "Persist a Sync execution
\* and queued run before publishing its queue job").
TypeOK ==
  /\ runs \in [Run -> {"absent", "queued", "running", "enqueueFailed"} \cup Ended]
  /\ jobs \in [JobId -> [state: {"absent", "queued", "completed", "failed"},
                         attempt: Nat, lease: Nat]]
  /\ \A j \in JobId : j \in inFlight \/ jobs[j].state # "absent" => runs[j[1]] # "absent"
  /\ inFlight \subseteq JobId
  /\ caller \in [Caller -> CallerRecord]
  /\ worker \in [Worker -> WorkerRecord]
  /\ pending \subseteq Trigger /\ covered \subseteq Trigger
  /\ promised \in [Run -> SUBSET Run]
  /\ requests \in 0..MaxRequests /\ faults \in 0..MaxFaults

HasJob(r) == \E x \in Run : Live(<<r, x>>)

\* A request that was answered with a run that still waits can rely on it: the
\* queue holds a job that will start the run, or some dispatch is about to publish
\* one (sync-worker/src/worker.ts, failUnstartedRun: "a run whose job ends before
\* starting it must not stay queued: every later trigger would wait on it forever").
AnsweredRunHasJob ==
  \A q \in Run : \A r \in promised[q] : runs[r] = "queued" =>
    \/ HasJob(r)
    \/ \E c \in Caller : caller[c].pc \in {"publish", "markFailed"} /\ caller[c].job[1] = r

\* An acknowledged trigger is not lost: a run started after it arrived, or the
\* run it was told of still waits with a job of its own, or ended as failed by a
\* worker that could not start it (run-dispatch.ts, findQueuedSyncRun: a waiting
\* run "already covers a trigger that arrives now").
TriggersAreCovered ==
  \A t \in Trigger : promised[t] # {} =>
    \/ t \in covered
    \/ \E r \in promised[t] : runs[r] = "failed" \/ (runs[r] = "queued" /\ HasJob(r))

\* A run executes at most once, and a run that ended stays ended, whatever is
\* requeued, redelivered or answered twice.
RunsOnce == [][\A r \in Run :
                 /\ runs[r] \in Ended => runs'[r] = runs[r]
                 /\ runs[r] = "running" => runs'[r] \in {"running"} \cup Ended]_vars

\* Two workers never execute the same run.
OneExecution ==
  \A v, w \in Worker : worker[v].pc = "work" /\ worker[w].pc = "work" /\ v # w
                       => TheRun(v) # TheRun(w)

\* Only the worker that started a run ends it: "a run finishes from running; one
\* that never started can only fail" (storage/sync-runs/transitions.ts).
WorkerEndsItsRun ==
  \A w \in Worker : worker[w].pc = "work" => runs[TheRun(w)] = "running"

\* Every trigger is served in the end: a run starts after it arrived, or the
\* run it was told of failed.
TriggerIsServed ==
  \A t \in Trigger :
    t \in pending ~> t \in covered \/ \E r \in promised[t] : runs[r] = "failed"
=============================================================================
