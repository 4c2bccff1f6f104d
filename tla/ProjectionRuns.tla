--------------------------- MODULE ProjectionRuns ---------------------------
(***************************************************************************)
(* The runs of one replacement projection: the run records                 *)
(* (packages/core/src/storage/projection-runs), the workers that execute   *)
(* their jobs (packages/projection-worker/src) and the part of the         *)
(* materializer that replaces the projection's source                      *)
(* (packages/core/src/materializer/projections).                           *)
(*                                                                         *)
(* The run of a dataset version is named by that version; versions are     *)
(* ordered by their creation.  Every storage call and every transaction of *)
(* a worker is an action; leases end, calls fail with or without effect,   *)
(* and workers stop between any two of them.  How runs are admitted is in  *)
(* ProjectionDispatch, which extends this module.                          *)
(***************************************************************************)
EXTENDS Integers, FiniteSets

CONSTANTS MaxVersion,  \* bound: versions the dataset ever has
          Bad,         \* versions an attempt may fail with for good
          Worker,      \* job slots of the projection workers
          NoWorker,    \* no job slot
          MaxFaults    \* bound: failures of any kind

ASSUME ProjectionRunsAssumption == /\ MaxVersion \in Nat \ {0}
                                   /\ Bad \subseteq 1..MaxVersion
                                   /\ NoWorker \notin Worker
                                   /\ MaxFaults \in Nat

VARIABLES runs,    \* runs[v]: the status of the run of version v
          holder,  \* holder[v]: the slot that was given the run's execution token last
          jobs,    \* jobs[v]: the run's job, "absent" before and "gone" after the queue held it
          lease,   \* lease[v]: the slot that has leased the job
          staged,  \* staged[v]: the base the run's candidate was staged against
          commits, \* versions whose ontology commit exists
          active,  \* the version the projection's source holds, 0 before the first
          worker,  \* worker[w]: where the delivery in slot w stands
          faults   \* failures so far

recordVars == <<runs, holder>>
queueVars  == <<jobs, lease>>
sourceVars == <<staged, commits, active>>
runVars    == <<runs, holder, jobs, lease, staged, commits, active, worker, faults>>

Version == 1..MaxVersion

\* "fenced" is failed with the conflict projection-fence.
Settled == {"succeeded", "superseded"}
Ended   == Settled \cup {"failed", "fenced"}

FullRead    == 0   \* base of a candidate that was read completely
NoCandidate == -1

\* A slot at pc with no base read yet.
Fresh(pc, v, op) == [pc |-> pc, run |-> v, base |-> FullRead, expected |-> 0, op |-> op]

IdleWorker == Fresh("idle", 0, "complete")

Fault == faults < MaxFaults /\ faults' = faults + 1

RunsInit == /\ runs = [v \in Version |-> "absent"]
            /\ holder = [v \in Version |-> NoWorker]
            /\ jobs = [v \in Version |-> "absent"]
            /\ lease = [v \in Version |-> NoWorker]
            /\ staged = [v \in Version |-> NoCandidate]
            /\ commits = {} /\ active = 0
            /\ worker = [w \in Worker |-> IdleWorker]
            /\ faults = 0

-----------------------------------------------------------------------------
(* The steps of a delivery *)

Goto(w, pc) == worker' = [worker EXCEPT ![w].pc = pc]

Settling(w, op) == worker' = [worker EXCEPT ![w] = Fresh("settle", worker[w].run, op)]

\* An error of the attempt reaches the catch block of runProjectionJob: "retry"
\* for a transient one, the status the run is to end with for a permanent one.
Throw(w, op) == worker' = [worker EXCEPT ![w] = Fresh("caught", worker[w].run, op)]

\* assertProjectionRunAttempt: the run is running under the token of this claim.
HoldsToken(w, v) == runs[v] = "running" /\ holder[v] = w

\* findSupersedingRun: runs of later versions that stand to replace the source.
Superseding(v) == {n \in Version : n > v /\ runs[n] \in {"queued", "running", "succeeded"}}

Claim(w, v) ==
  /\ worker[w].pc = "idle" /\ jobs[v] = "queued" /\ lease[v] = NoWorker
  /\ lease' = [lease EXCEPT ![v] = w]
  /\ worker' = [worker EXCEPT ![w] = Fresh("read", v, "complete")]
  /\ UNCHANGED <<runs, holder, jobs, staged, commits, active, faults>>

\* findMatchingTerminalRun: a run that failed makes the delivery throw.
Read(w) ==
  LET v == worker[w].run IN
  /\ worker[w].pc = "read"
  /\ \/ runs[v] \in Settled /\ Settling(w, "complete")
     \/ runs[v] \in Ended \ Settled /\ Goto(w, "decide")
     \/ runs[v] \notin Ended /\ Goto(w, "start")
  /\ UNCHANGED <<runs, holder, jobs, lease, staged, commits, active, faults>>

\* startOrReclaim gives this claim a fresh token, which fences every earlier one.
StartTx(w) ==
  LET v == worker[w].run IN
  /\ runs[v] \in {"queued", "running"}
  /\ runs' = [runs EXCEPT ![v] = "running"]
  /\ holder' = [holder EXCEPT ![v] = w]

Start(w) ==
  LET v == worker[w].run IN
  /\ worker[w].pc = "start"
  /\ \/ StartTx(w) /\ Goto(w, "check")
     \/ runs[v] \in Settled /\ UNCHANGED recordVars /\ Settling(w, "complete")
     \/ runs[v] \in Ended \ Settled /\ UNCHANGED recordVars /\ Goto(w, "decide")
  /\ UNCHANGED <<jobs, lease, staged, commits, active, faults>>

\* supersedeStaleRun looks for a newer run on every delivery.
Check(w) ==
  /\ worker[w].pc = "check"
  /\ Goto(w, IF Superseding(worker[w].run) # {} THEN "supersede" ELSE "base")
  /\ UNCHANGED <<runs, holder, jobs, lease, staged, commits, active, faults>>

\* Mutant: a run is ended without success although its commit exists.
CanEndAfterCommit(w, status) ==
  LET v == worker[w].run IN
  /\ HoldsToken(w, v)
  /\ status = "superseded" => Superseding(v) # {}

\* finishProjectionRunTransaction refuses an end without success once the
\* ontology commit exists, and a supersession no newer run stands behind.
CanEnd(w, status) ==
  LET v == worker[w].run IN
  /\ HoldsToken(w, v)
  /\ v \notin commits
  /\ status = "superseded" => Superseding(v) # {}

\* An end without success releases the candidate in the same transaction.
End(w, status) ==
  LET v == worker[w].run IN
  /\ CanEnd(w, status)
  /\ runs' = [runs EXCEPT ![v] = status]
  /\ staged' = [staged EXCEPT ![v] = NoCandidate]

\* supersedeStaleRun: a supersession that fails is left to the next delivery.
Supersede(w) ==
  /\ worker[w].pc = "supersede"
  /\ \/ End(w, "superseded") /\ Settling(w, "complete")
     \/ ~CanEnd(w, "superseded") /\ UNCHANGED <<runs, staged>> /\ Goto(w, "decide")
  /\ UNCHANGED <<holder, jobs, lease, commits, active, faults>>

-----------------------------------------------------------------------------
(* The materializer *)

\* prepareIncrementalReplacement: the changes since the active version, or a
\* complete read when they cannot be had.
ChooseBase(w) ==
  /\ worker[w].pc = "base"
  /\ \E base \in {FullRead, active} :
       worker' = [worker EXCEPT ![w].pc = "prepare", ![w].base = base]
  /\ UNCHANGED <<runs, holder, jobs, lease, staged, commits, active, faults>>

\* validateProjectionWatermark: the source already holds a later version.
Stale(v) == active > v

\* assertDeltaBase: the changes no longer apply to what the source holds.
BaseMoved(w) == worker[w].base # FullRead /\ worker[w].base # active

\* The source has room for the run's candidate: admitProjectionExecution lets this
\* attempt in, no commit exists, and neither the watermark nor the base is past.
CanStage(w) == /\ HoldsToken(w, worker[w].run)
               /\ worker[w].run \notin commits
               /\ ~Stale(worker[w].run) /\ ~BaseMoved(w)

\* Mutant: a redelivery adopts the candidate of its run whatever its base.
StagedOnAnyBase(v, base) ==
  [staged EXCEPT ![v] = IF @ = NoCandidate THEN base ELSE @]

\* prepareProjectionCandidate: the candidate an earlier delivery left is adopted
\* if it has this base; otherwise it is abandoned and the run is staged anew.
Staged(v, base) == [staged EXCEPT ![v] = base]

\* replaceProjection up to its commit: replay of a commit that exists, the
\* watermark and the base, and staging, which may fail for good.
Prepare(w) ==
  LET v == worker[w].run
      base == worker[w].base IN
  /\ worker[w].pc = "prepare"
  /\ \/ ~HoldsToken(w, v) /\ Throw(w, "retry") /\ UNCHANGED staged
     \/ HoldsToken(w, v) /\ v \in commits /\ Goto(w, "finish") /\ UNCHANGED staged
     \/ /\ HoldsToken(w, v) /\ v \notin commits
        /\ \/ Stale(v) /\ Throw(w, "fenced") /\ UNCHANGED staged
           \/ ~Stale(v) /\ BaseMoved(w) /\ Throw(w, "retry") /\ UNCHANGED staged
     \/ /\ CanStage(w)
        /\ staged' = Staged(v, base)
        /\ \/ v \in Bad /\ Throw(w, "failed")
           \/ worker' = [worker EXCEPT ![w].pc = "commit", ![w].expected = active]
  /\ UNCHANGED <<runs, holder, jobs, lease, commits, active, faults>>

\* finalize activates the candidate in the transaction that makes the commit.
Activate(v) == /\ active' = v
               /\ commits' = commits \cup {v}
               /\ staged' = [staged EXCEPT ![v] = NoCandidate]

\* The conflict executeProjectionTransaction fails with: changes are checked
\* against their base, a complete read against the source it was prepared for.
Conflict(w) ==
  LET v == worker[w].run IN
  CASE worker[w].base # FullRead /\ Stale(v)                     -> "fenced"
    [] worker[w].base # FullRead /\ ~Stale(v) /\ BaseMoved(w)    -> "retry"
    [] worker[w].base = FullRead /\ active # worker[w].expected  -> "fenced"
    [] OTHER                                                     -> "none"

CanCommit(w) == /\ HoldsToken(w, worker[w].run)
                /\ worker[w].run \notin commits
                /\ Conflict(w) = "none"

Commit(w) ==
  LET v == worker[w].run IN
  /\ worker[w].pc = "commit"
  /\ \/ ~HoldsToken(w, v) /\ Throw(w, "retry") /\ UNCHANGED sourceVars
     \/ HoldsToken(w, v) /\ v \in commits /\ Goto(w, "finish") /\ UNCHANGED sourceVars
     \/ CanCommit(w) /\ Activate(v) /\ Goto(w, "finish")
     \/ /\ HoldsToken(w, v) /\ v \notin commits /\ ~CanCommit(w)
        /\ Throw(w, Conflict(w)) /\ UNCHANGED sourceVars
  /\ UNCHANGED <<runs, holder, jobs, lease, faults>>

\* A success needs the commit.
CanSucceed(w) == HoldsToken(w, worker[w].run) /\ worker[w].run \in commits

Succeed(w) == CanSucceed(w) /\ runs' = [runs EXCEPT ![worker[w].run] = "succeeded"]

Finish(w) ==
  /\ worker[w].pc = "finish"
  /\ \/ Succeed(w) /\ Settling(w, "complete")
     \/ ~CanSucceed(w) /\ UNCHANGED runs /\ Throw(w, "retry")
  /\ UNCHANGED <<holder, jobs, lease, staged, commits, active, faults>>

-----------------------------------------------------------------------------
(* Errors and settlement *)

\* The catch block: another delivery may have settled the run meanwhile; a
\* transient error leaves it running.
Caught(w) ==
  LET v == worker[w].run IN
  /\ worker[w].pc = "caught"
  /\ \/ runs[v] \in Settled /\ Settling(w, "complete")
     \/ runs[v] \notin Settled /\ Goto(w, IF worker[w].op = "retry" THEN "decide" ELSE "fail")
  /\ UNCHANGED <<runs, holder, jobs, lease, staged, commits, active, faults>>

Fail(w) ==
  LET status == worker[w].op IN
  /\ worker[w].pc = "fail"
  /\ End(w, status) \/ (~CanEnd(w, status) /\ UNCHANGED <<runs, staged>>)
  /\ Goto(w, "decide")
  /\ UNCHANGED <<holder, jobs, lease, commits, active, faults>>

\* failureDecision reads the run: one that has not ended is delivered again.
Decide(w) ==
  /\ worker[w].pc = "decide"
  /\ Settling(w, IF runs[worker[w].run] \in Ended THEN "fail" ELSE "retry")
  /\ UNCHANGED <<runs, holder, jobs, lease, staged, commits, active, faults>>

\* The queue accepts a settlement under the current lease only.
Settle(w) ==
  LET v == worker[w].run IN
  /\ worker[w].pc = "settle"
  /\ IF lease[v] = w
     THEN /\ lease' = [lease EXCEPT ![v] = NoWorker]
          /\ jobs' = IF worker[w].op = "retry" THEN jobs ELSE [jobs EXCEPT ![v] = "gone"]
     ELSE UNCHANGED queueVars
  /\ worker' = [worker EXCEPT ![w] = IdleWorker]
  /\ UNCHANGED <<runs, holder, staged, commits, active, faults>>

-----------------------------------------------------------------------------
(* Faults *)

\* A lease ends when its worker is gone, or because renewals did not get through.
LeaseEnds(v) ==
  /\ lease[v] # NoWorker
  /\ IF worker[lease[v]].run = v THEN Fault ELSE UNCHANGED faults
  /\ lease' = [lease EXCEPT ![v] = NoWorker]
  /\ UNCHANGED <<runs, holder, jobs, staged, commits, active, worker>>

\* A call before the try block fails; startOrReclaim may have been applied.
CallFails(w) ==
  /\ worker[w].pc \in {"read", "start", "check", "supersede"} /\ Fault
  /\ \/ UNCHANGED <<runs, holder, staged>>
     \/ worker[w].pc = "start" /\ StartTx(w) /\ UNCHANGED staged
     \/ worker[w].pc = "supersede" /\ End(w, "superseded") /\ UNCHANGED holder
  /\ Goto(w, "decide")
  /\ UNCHANGED <<jobs, lease, commits, active>>

\* Staging is interrupted: the candidate with another base is abandoned already,
\* or some rows of the new one are staged, which the run keeps.
StagesPartly(w) ==
  LET v == worker[w].run
      base == worker[w].base IN
  /\ CanStage(w) /\ staged[v] # base
  /\ staged' \in {Staged(v, NoCandidate), Staged(v, base)}

\* A call inside it fails: reading the dataset, staging, or a transaction,
\* whose effect may be there all the same.
AttemptFails(w) ==
  /\ worker[w].pc \in {"base", "prepare", "commit", "finish"} /\ Fault
  /\ \/ UNCHANGED <<runs, staged, commits, active>>
     \/ worker[w].pc = "prepare" /\ StagesPartly(w) /\ UNCHANGED <<runs, commits, active>>
     \/ worker[w].pc = "commit" /\ CanCommit(w) /\ Activate(worker[w].run) /\ UNCHANGED runs
     \/ worker[w].pc = "finish" /\ Succeed(w) /\ UNCHANGED <<staged, commits, active>>
  /\ Throw(w, "retry")
  /\ UNCHANGED <<holder, jobs, lease>>

\* The worker dies, is shut down, or gives up because its lease is lost.
WorkerStops(w) ==
  /\ worker[w].pc # "idle"
  /\ IF lease[worker[w].run] = w THEN Fault ELSE UNCHANGED faults
  /\ worker' = [worker EXCEPT ![w] = IdleWorker]
  /\ UNCHANGED <<runs, holder, jobs, lease, staged, commits, active>>

-----------------------------------------------------------------------------
WorkerStep(w) == \/ Read(w) \/ Start(w) \/ Check(w) \/ Supersede(w)
                 \/ ChooseBase(w) \/ Prepare(w) \/ Commit(w) \/ Finish(w)
                 \/ Caught(w) \/ Fail(w) \/ Decide(w) \/ Settle(w)

WorkersNext == \/ \E w \in Worker, v \in Version : Claim(w, v)
               \/ \E w \in Worker : WorkerStep(w) \/ CallFails(w) \/ AttemptFails(w) \/ WorkerStops(w)
               \/ \E v \in Version : LeaseEnds(v)

\* A dispatch admits a run, in a transaction that reads it first.
QueueRun(v) == runs[v] = "absent" /\ runs' = [runs EXCEPT ![v] = "queued"]

\* The queue takes the job of a run once: later ones have an id it knows.
Enqueue(v) == jobs' = IF jobs[v] = "absent" THEN [jobs EXCEPT ![v] = "queued"] ELSE jobs

\* What the workers see of the dispatchers: runs are admitted in any order, and a
\* job is published for a run that is queued.
Dispatched == /\ \/ UNCHANGED <<runs, jobs>>
                 \/ \E v \in Version : QueueRun(v) /\ UNCHANGED jobs
                 \/ \E v \in Version : runs[v] = "queued" /\ Enqueue(v) /\ UNCHANGED runs
              /\ Fault \/ UNCHANGED faults
              /\ UNCHANGED <<holder, lease, sourceVars, worker>>

RunsNext == WorkersNext \/ Dispatched

RunsSpec == RunsInit /\ [][RunsNext]_runVars

-----------------------------------------------------------------------------
\* The variables have the shapes of the code's records.
RunsTypeOK ==
  /\ runs \in [Version -> {"absent", "queued", "running"} \cup Ended]
  /\ holder \in [Version -> Worker \cup {NoWorker}]
  /\ jobs \in [Version -> {"absent", "queued", "gone"}]
  /\ lease \in [Version -> Worker \cup {NoWorker}]
  /\ staged \in [Version -> NoCandidate..MaxVersion]
  /\ commits \subseteq Version /\ active \in 0..MaxVersion
  /\ worker \in [Worker -> [pc : {"idle", "read", "start", "check", "supersede", "base", "prepare",
                                  "commit", "finish", "caught", "fail", "decide", "settle"},
                            run : 0..MaxVersion, base : 0..MaxVersion, expected : 0..MaxVersion,
                            op : {"complete", "fail", "retry", "failed", "fenced"}]]
  /\ faults \in 0..MaxFaults

\* The run records and the ontology agree: a run that succeeded has its commit,
\* one that ended otherwise has none, whichever worker was late; a candidate
\* belongs to a run that is running; and a version that was committed is never
\* replaced by an older one (finishProjectionRunTransaction: "once the run ends,
\* nothing may adopt or activate it"; validateProjectionWatermark).
RecordsTellTheSource ==
  \A v \in Version : /\ runs[v] = "succeeded" => v \in commits
                     /\ v \in commits => runs[v] \in {"running", "succeeded"} /\ active >= v
                     /\ staged[v] # NoCandidate => runs[v] = "running"

\* Changes are applied to the version they were computed from.  The source takes a
\* candidate only if that is a complete read or was staged against what the source
\* holds, also when one delivery staged it, other runs committed meanwhile, and
\* another delivery of the run adopts and commits it (replace.ts,
\* prepareProjectionCandidate: "Staged against another delta base ... its roots
\* answer a different question, so it cannot be completed").
ChangesFitTheSource ==
  [][\A v \in Version : active # v /\ active' = v => staged[v] \in {FullRead, active}]_runVars

\* A replacement run is fenced off only by a newer version: the message of
\* validateProjectionWatermark, and the test of run-projection-job that throws it.
FencedOnlyByNewer == \A v \in Version : runs[v] = "fenced" => active > v
=============================================================================
