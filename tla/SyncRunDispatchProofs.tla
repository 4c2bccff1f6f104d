----------------------- MODULE SyncRunDispatchProofs ------------------------
(***************************************************************************)
(* Proofs about SyncRunDispatch for any triggers, manual requests,         *)
(* processes, workers and faults: jobs name persisted runs, a run executes *)
(* once, a run that ended stays ended; and, when no request is manual, an  *)
(* answer names a run that has a job, and no acknowledged trigger is lost. *)
(***************************************************************************)
EXTENDS SyncRunDispatch, TLAPS

USE SyncRunDispatchAssumption

-----------------------------------------------------------------------------
(* The inductive invariant *)

\* A dispatch under way has a request, and publishes jobs of persisted runs.
CallersOK ==
  \A c \in Caller :
    /\ caller[c].pc # "idle" => caller[c].request \in Run
    /\ caller[c].pc \in {"publish", "markFailed"} =>
         caller[c].job \in JobId /\ runs[caller[c].job[1]] # "absent"

\* A delivery under way has a job; the run it executes has started and is not
\* queued again.
WorkersOK ==
  \A w \in Worker :
    /\ worker[w].pc # "idle" => worker[w].job \in JobId
    /\ worker[w].pc = "work" => runs[TheRun(w)] \in {"running"} \cup Ended

DispatchInv == TypeOK /\ CallersOK /\ WorkersOK /\ OneExecution

-----------------------------------------------------------------------------
(* What a step may do to the parts of the state *)

Status == {"absent", "queued", "running", "enqueueFailed"} \cup Ended

JobRecord == [state: {"absent", "queued", "completed", "failed"}, attempt: Nat, lease: Nat]

RunsOK == runs \in [Run -> Status]

\* Jobs that are or may be in the queue name persisted runs.
JobsOK == /\ jobs \in [JobId -> JobRecord]
          /\ inFlight \subseteq JobId
          /\ \A j \in JobId : j \in inFlight \/ jobs[j].state # "absent" => runs[j[1]] # "absent"

CallerTypes == /\ caller \in [Caller -> CallerRecord]
               /\ pending \subseteq Trigger /\ promised \in [Run -> SUBSET Run]
               /\ requests \in 0..MaxRequests

WorkerTypes == worker \in [Worker -> WorkerRecord] /\ covered \subseteq Trigger

LEMMA InvParts ==
  DispatchInv <=> /\ RunsOK /\ JobsOK /\ CallerTypes /\ CallersOK /\ WorkerTypes /\ WorkersOK
                  /\ OneExecution /\ faults \in 0..MaxFaults
  BY DEF DispatchInv, TypeOK, RunsOK, JobsOK, CallerTypes, WorkerTypes, Status, JobRecord

LEMMA InvPartsAfter ==
  ASSUME RunsOK', JobsOK', CallerTypes', CallersOK', WorkerTypes', WorkersOK',
         OneExecution', faults' \in 0..MaxFaults
  PROVE  DispatchInv'
  BY DEF DispatchInv, TypeOK, RunsOK, JobsOK, CallerTypes, WorkerTypes, Status, JobRecord

\* No step takes a run back to absent, or a run that started back to queued.
Forward == \A r \in Run :
             /\ runs[r] # "absent" => runs'[r] # "absent"
             /\ runs[r] \in {"running"} \cup Ended => runs'[r] \in {"running"} \cup Ended

\* What the properties say of the runs holds of every single change of a run.
RunStep == /\ RunsOK' /\ Forward
           /\ \A r \in Run :
                /\ runs[r] \in Ended => runs'[r] = runs[r]
                /\ runs[r] = "running" => runs'[r] \in {"running"} \cup Ended

LEMMA RunsKept ==
  ASSUME RunsOK, UNCHANGED runs
  PROVE  RunStep
  BY DEF RunsOK, RunStep, Forward

LEMMA FinishForward ==
  ASSUME RunsOK, NEW r \in Run, NEW status \in Ended \cup {"enqueueFailed"}, Finish(r, status)
  PROVE  RunStep
<1>1. runs[r] \in {"queued", "running"}
  BY DEF Finish, CanFinish, Ended
<1>2. status = "enqueueFailed" => runs[r] = "queued"
  BY DEF Finish, CanFinish, Ended
<1> QED
  BY <1>1, <1>2 DEF Finish, RunsOK, RunStep, Forward, Status, Ended

LEMMA StartForward ==
  ASSUME RunsOK, NEW r \in Run, Start(r)
  PROVE  RunStep
  BY DEF Start, RunsOK, RunStep, Forward, Status, Ended

LEMMA QueueForward ==
  ASSUME RunsOK, NEW r \in Run, runs[r] \in {"absent", "enqueueFailed"}, Queue(r)
  PROVE  RunStep
  BY DEF Queue, RunsOK, RunStep, Forward, Status, Ended

LEMMA JobsKept ==
  ASSUME JobsOK, Forward, UNCHANGED <<jobs, inFlight>>
  PROVE  JobsOK'
  BY DEF JobsOK, Forward, JobId

LEMMA JobsEnqueued ==
  ASSUME JobsOK, NEW j \in JobId, runs[j[1]] # "absent", UNCHANGED runs,
         jobs' = Enqueued({j}), inFlight' \subseteq inFlight
  PROVE  JobsOK'
<1>1. [AbsentJob EXCEPT !.state = "queued"] \in JobRecord
  BY DEF AbsentJob, JobRecord
<1>2. \A k \in JobId : /\ jobs'[k] \in JobRecord
                       /\ jobs'[k].state # "absent" => k = j \/ jobs[k].state # "absent"
  BY <1>1 DEF Enqueued, JobsOK
<1>3. jobs' \in [JobId -> JobRecord]
  BY <1>2 DEF Enqueued
<1> QED
  BY <1>2, <1>3 DEF JobsOK

\* The dispatch of one process goes on.
LEMMA OneCaller ==
  ASSUME CallersOK, CallerTypes, Forward, NEW c \in Caller, NEW s \in CallerRecord,
         caller' = [caller EXCEPT ![c] = s],
         s.pc # "idle" => s.request \in Run,
         s.pc \in {"publish", "markFailed"} => s.job \in JobId /\ runs'[s.job[1]] # "absent"
  PROVE  CallersOK' /\ caller' \in [Caller -> CallerRecord]
<1>1. caller' \in [Caller -> CallerRecord]
  BY DEF CallerTypes
<1>2. \A d \in Caller \ {c} : caller'[d] = caller[d]
  BY DEF CallerTypes
<1>3. caller'[c] = s
  BY DEF CallerTypes
<1> QED
  BY <1>1, <1>2, <1>3 DEF CallersOK, Forward, JobId

LEMMA CallersKept ==
  ASSUME CallersOK, CallerTypes, Forward, UNCHANGED dispatchVars
  PROVE  CallersOK' /\ CallerTypes'
  BY DEF CallersOK, CallerTypes, Forward, dispatchVars, JobId

\* One delivery goes on; it begins to work only on a run nobody works on.
LEMMA OneWorker ==
  ASSUME WorkersOK, WorkerTypes, OneExecution, Forward, NEW w \in Worker,
         NEW s \in WorkerRecord, worker' = [worker EXCEPT ![w] = s],
         s.pc # "idle" => s.job \in JobId,
         s.pc = "work" => /\ runs'[s.job[1]] \in {"running"} \cup Ended
                          /\ \A v \in Worker \ {w} : worker[v].pc = "work" => TheRun(v) # s.job[1]
  PROVE  WorkersOK' /\ OneExecution' /\ worker' \in [Worker -> WorkerRecord]
<1>1. worker' \in [Worker -> WorkerRecord] /\ worker'[w] = s
  BY DEF WorkerTypes
<1>2. \A v \in Worker \ {w} : worker'[v] = worker[v]
  BY DEF WorkerTypes
<1>3. WorkersOK'
  BY <1>1, <1>2 DEF WorkersOK, Forward, JobId, TheRun
<1>4. OneExecution'
  BY <1>1, <1>2 DEF OneExecution, TheRun
<1> QED
  BY <1>1, <1>3, <1>4

LEMMA WorkersKept ==
  ASSUME WorkersOK, WorkerTypes, OneExecution, Forward, UNCHANGED <<worker, covered>>
  PROVE  WorkersOK' /\ WorkerTypes' /\ OneExecution'
  BY DEF WorkersOK, WorkerTypes, OneExecution, Forward, JobId, TheRun

-----------------------------------------------------------------------------
(* The dispatch *)

\* A dispatch that leaves runs and queue alone, or changes a run.
LEMMA CallerMoves ==
  ASSUME DispatchInv, RunStep, UNCHANGED <<jobs, inFlight, faults>>, WorkersUnchanged,
         NEW c \in Caller, NEW s \in CallerRecord, caller' = [caller EXCEPT ![c] = s],
         s.pc # "idle" => s.request \in Run,
         s.pc \in {"publish", "markFailed"} => s.job \in JobId /\ runs'[s.job[1]] # "absent",
         pending' \subseteq Trigger, promised' \in [Run -> SUBSET Run],
         requests' \in 0..MaxRequests
  PROVE  DispatchInv'
<1>1. RunsOK' /\ Forward
  BY DEF RunStep
<1>2. JobsOK' /\ WorkersOK' /\ WorkerTypes' /\ OneExecution'
  BY <1>1, InvParts, JobsKept, WorkersKept DEF WorkersUnchanged
<1>3. CallersOK' /\ caller' \in [Caller -> CallerRecord]
  BY <1>1, InvParts, OneCaller
<1> QED
  BY <1>1, <1>2, <1>3, InvParts, InvPartsAfter DEF CallerTypes

LEMMA IdleCallerType == IdleCaller \in CallerRecord /\ IdleCaller.pc = "idle"
  BY DEF IdleCaller, CallerRecord

LEMMA DispatchPreserves ==
  ASSUME DispatchInv, NEW c \in Caller, NEW r \in Run, Dispatch(c, r)
  PROVE  DispatchInv'
<1> DEFINE s == [caller[c] EXCEPT !.pc = "look", !.request = r]
<1>1. caller' = [caller EXCEPT ![c] = s]
  BY InvParts DEF Dispatch, CallerTypes
<1>2. s \in CallerRecord /\ s.pc = "look" /\ s.request = r
  <2>1. caller[c] \in CallerRecord
    BY InvParts DEF CallerTypes
  <2> QED
    BY <2>1 DEF CallerRecord
<1>3. RunStep
  BY InvParts, RunsKept DEF Dispatch
<1>4. requests' \in 0..MaxRequests
  BY InvParts DEF Dispatch, CallerTypes
<1>5. UNCHANGED <<jobs, inFlight, pending, promised, faults>> /\ WorkersUnchanged
  BY DEF Dispatch
<1> HIDE DEF s
<1> QED
  BY <1>1, <1>2, <1>3, <1>4, <1>5, CallerMoves, InvParts DEF CallerTypes

\* The parts of the dispatch that leave the queue alone: what each writes.
LEMMA CallerGoes ==
  ASSUME DispatchInv, RunStep, UNCHANGED <<jobs, inFlight, faults>>, WorkersUnchanged,
         NEW c \in Caller, caller[c].pc # "idle",
         \/ /\ Calling
            /\ \/ caller' = [caller EXCEPT ![c] = IdleCaller]
               \/ Goto(c, "create", caller[c].job)
               \/ Goto(c, "requeue", caller[c].job)
               \/ \E j \in JobId : Goto(c, "publish", j) /\ runs'[j[1]] # "absent"
         \/ \E r \in Run : Return(c, r)
  PROVE  DispatchInv'
<1>1. /\ CallerTypes /\ caller[c] \in CallerRecord /\ caller[c].request \in Run
      /\ CallersOK /\ promised[caller[c].request] \in SUBSET Run
  BY InvParts DEF CallerTypes, CallersOK
<1>2. ASSUME Calling
      PROVE  /\ pending' \subseteq Trigger /\ promised' \in [Run -> SUBSET Run]
             /\ requests' \in 0..MaxRequests
  BY <1>1, <1>2 DEF Calling, CallerTypes
<1>3. CASE Calling /\ caller' = [caller EXCEPT ![c] = IdleCaller]
  BY <1>2, <1>3, IdleCallerType, CallerMoves
<1>4. ASSUME NEW pc \in {"create", "requeue"}, Calling, Goto(c, pc, caller[c].job)
      PROVE  DispatchInv'
  <2> DEFINE s == [caller[c] EXCEPT !.pc = pc]
  <2>1. caller' = [caller EXCEPT ![c] = s]
    BY <1>1, <1>4 DEF Goto, CallerTypes, CallerRecord
  <2>2. s \in CallerRecord /\ s.pc = pc /\ s.request \in Run
    BY <1>1 DEF CallerRecord
  <2> HIDE DEF s
  <2> QED
    BY <1>2, <1>4, <2>1, <2>2, CallerMoves
<1>5. ASSUME NEW j \in JobId, Calling, Goto(c, "publish", j), runs'[j[1]] # "absent"
      PROVE  DispatchInv'
  <2> DEFINE s == [caller[c] EXCEPT !.pc = "publish", !.job = j]
  <2>1. caller' = [caller EXCEPT ![c] = s]
    BY <1>1, <1>5 DEF Goto, CallerTypes, CallerRecord
  <2>2. s \in CallerRecord /\ s.pc = "publish" /\ s.request \in Run /\ s.job = j
    BY <1>1 DEF CallerRecord, JobId
  <2> HIDE DEF s
  <2> QED
    BY <1>2, <1>5, <2>1, <2>2, CallerMoves
<1>6. ASSUME NEW r \in Run, Return(c, r) PROVE DispatchInv'
  <2>1. caller' = [caller EXCEPT ![c] = IdleCaller]
    BY <1>6 DEF Return
  <2>2. /\ pending' \subseteq Trigger /\ promised' \in [Run -> SUBSET Run]
        /\ requests' \in 0..MaxRequests
    BY <1>1, <1>6 DEF Return, CallerTypes
  <2> QED
    BY <2>1, <2>2, IdleCallerType, CallerMoves
<1> QED
  BY <1>3, <1>4, <1>5, <1>6

LEMMA LookPreserves ==
  ASSUME DispatchInv, NEW c \in Caller, Look(c)
  PROVE  DispatchInv' /\ RunStep
<1> DEFINE r == caller[c].request
<1>1. r \in Run /\ caller[c].pc # "idle" /\ RunStep /\ <<r, r>> \in JobId
  BY InvParts, RunsKept DEF Look, CallersOK, JobId
<1>2. UNCHANGED <<jobs, inFlight, faults>> /\ WorkersUnchanged /\ UNCHANGED runs
  BY DEF Look
<1>3. \/ /\ Calling
         /\ \/ Goto(c, "create", caller[c].job)
            \/ Goto(c, "requeue", caller[c].job)
            \/ Goto(c, "publish", <<r, r>>) /\ runs'[r] # "absent"
      \/ Return(c, r)
  BY <1>2 DEF Look
<1> HIDE DEF r
<1>4. Goto(c, "publish", <<r, r>>) /\ runs'[r] # "absent"
        => \E j \in JobId : Goto(c, "publish", j) /\ runs'[j[1]] # "absent"
  BY <1>1
<1>5. DispatchInv'
  BY <1>1, <1>2, <1>3, <1>4, CallerGoes
<1> QED
  BY <1>1, <1>5

LEMMA CreatePreserves ==
  ASSUME DispatchInv, NEW c \in Caller, Create(c)
  PROVE  DispatchInv' /\ RunStep
<1> DEFINE r == caller[c].request
<1>1. r \in Run /\ caller[c].pc # "idle" /\ <<r, r>> \in JobId /\ RunsOK
  BY InvParts DEF Create, CallersOK, JobId
<1>2. UNCHANGED <<jobs, inFlight, faults>> /\ WorkersUnchanged
  BY DEF Create
<1>3. RunStep
  BY <1>1, RunsKept, QueueForward DEF Create
<1>4. CASE runs[r] # "absent" /\ UNCHANGED runs /\ Return(c, r)
  BY <1>1, <1>2, <1>3, <1>4, CallerGoes
<1>5. ASSUME NEW j \in JobId, Calling, Goto(c, "publish", j), runs'[j[1]] # "absent"
      PROVE  DispatchInv'
  BY <1>1, <1>2, <1>3, <1>5, CallerGoes
<1>6. CASE runs[r] # "absent" /\ UNCHANGED runs /\ Goto(c, "publish", <<r, r>>) /\ Calling
  BY <1>1, <1>3, <1>5, <1>6
<1>7. CASE /\ \E waiting \in Joinable : Goto(c, "publish", <<waiting, r>>)
           /\ UNCHANGED runs /\ Calling
  BY <1>1, <1>3, <1>5, <1>7 DEF Joinable, JobId
<1>8. CASE Queue(r) /\ Goto(c, "publish", <<r, r>>) /\ Calling
  <2>1. runs'[r] # "absent"
    BY <1>1, <1>8 DEF Queue, RunsOK
  <2> QED
    BY <1>1, <1>3, <1>5, <1>8, <2>1
<1>9. DispatchInv'
  BY <1>4, <1>6, <1>7, <1>8 DEF Create
<1> QED
  BY <1>3, <1>9

LEMMA RequeuePreserves ==
  ASSUME DispatchInv, NEW c \in Caller, Requeue(c)
  PROVE  DispatchInv' /\ RunStep
<1> DEFINE r == caller[c].request
<1>1. r \in Run /\ caller[c].pc # "idle" /\ <<r, r>> \in JobId /\ RunsOK
  BY InvParts DEF Requeue, CallersOK, JobId
<1>2. UNCHANGED <<jobs, inFlight, faults>> /\ WorkersUnchanged /\ Calling
  BY DEF Requeue
<1>3. RunStep
  BY <1>1, RunsKept, QueueForward DEF Requeue
<1>4. CASE Queue(r) /\ Goto(c, "publish", <<r, r>>)
  <2>1. runs'[r] # "absent"
    BY <1>1, <1>4 DEF Queue, RunsOK
  <2>2. \E j \in JobId : Goto(c, "publish", j) /\ runs'[j[1]] # "absent"
    BY <1>1, <1>4, <2>1
  <2> QED
    BY <1>1, <1>2, <1>3, <2>2, CallerGoes
<1>5. CASE caller' = [caller EXCEPT ![c] = IdleCaller]
  BY <1>1, <1>2, <1>3, <1>5, CallerGoes
<1>6. DispatchInv'
  BY <1>4, <1>5 DEF Requeue
<1> QED
  BY <1>3, <1>6

LEMMA MarkFailedPreserves ==
  ASSUME DispatchInv, NEW c \in Caller, MarkFailed(c)
  PROVE  DispatchInv' /\ RunStep
<1>1. caller[c].request \in Run /\ caller[c].pc # "idle" /\ RunsOK
  BY InvParts DEF MarkFailed, CallersOK
<1>2. RunStep
  BY <1>1, RunsKept, FinishForward DEF MarkFailed
<1>3. DispatchInv'
  BY <1>1, <1>2, CallerGoes DEF MarkFailed
<1> QED
  BY <1>2, <1>3

LEMMA PublishPreserves ==
  ASSUME DispatchInv, NEW c \in Caller, Publish(c) \/ PublishFails(c)
  PROVE  DispatchInv' /\ RunStep
<1> DEFINE j == caller[c].job
<1>1. /\ RunsOK /\ JobsOK /\ CallerTypes /\ CallersOK /\ caller[c] \in CallerRecord
      /\ j \in JobId /\ runs[j[1]] # "absent" /\ caller[c].request \in Run
  BY InvParts DEF Publish, PublishFails, CallersOK, CallerTypes
<1>2. UNCHANGED runs /\ WorkersUnchanged /\ RunStep
  BY <1>1, RunsKept DEF Publish, PublishFails
<1>3. RunsOK' /\ Forward /\ WorkersOK' /\ WorkerTypes' /\ OneExecution'
  BY <1>2, InvParts, WorkersKept DEF RunStep, WorkersUnchanged
<1>4. SUFFICES JobsOK' /\ CallerTypes' /\ CallersOK' /\ faults' \in 0..MaxFaults
  BY <1>2, <1>3, InvPartsAfter
<1>5. CASE Publish(c)
  <2>1. JobsOK'
    BY <1>1, <1>2, <1>5, JobsEnqueued DEF Publish
  <2>2. caller' = [caller EXCEPT ![c] = IdleCaller] /\ faults' = faults
    BY <1>5 DEF Publish, Return
  <2>3. /\ pending' \subseteq Trigger /\ promised' \in [Run -> SUBSET Run]
        /\ requests' \in 0..MaxRequests
    BY <1>1, <1>5 DEF Publish, Return, CallerTypes, JobId
  <2>4. CallersOK' /\ caller' \in [Caller -> CallerRecord]
    BY <1>1, <1>3, <2>2, IdleCallerType, OneCaller
  <2> QED
    BY <2>1, <2>2, <2>3, <2>4, InvParts DEF CallerTypes
<1>6. CASE PublishFails(c)
  <2>1. JobsOK'
    BY <1>1, <1>2, <1>6 DEF PublishFails, JobsOK
  <2>2. Calling /\ faults' \in 0..MaxFaults
    BY <1>6, InvParts DEF PublishFails, Fault
  <2> DEFINE s == IF caller[c].request \in Trigger THEN IdleCaller
                  ELSE [caller[c] EXCEPT !.pc = "markFailed"]
  <2>3. caller' = [caller EXCEPT ![c] = s]
    BY <1>1, <1>6 DEF PublishFails, CallerTypes
  <2>4. /\ s \in CallerRecord /\ s.pc \in {"idle", "markFailed"}
        /\ s.pc # "idle" => s.request \in Run /\ s.job = j
    BY <1>1, IdleCallerType DEF CallerRecord
  <2> HIDE DEF s
  <2>5. CallersOK' /\ caller' \in [Caller -> CallerRecord]
    BY <1>1, <1>2, <1>3, <2>3, <2>4, OneCaller
  <2> QED
    BY <1>1, <2>1, <2>2, <2>5 DEF CallerTypes, Calling
<1> QED
  BY <1>5, <1>6

LEMMA CallerStopsPreserves ==
  ASSUME DispatchInv, NEW c \in Caller, CallerStops(c)
  PROVE  DispatchInv' /\ RunStep
<1>1. /\ RunsOK /\ CallerTypes /\ CallersOK /\ RunStep
      /\ faults' \in 0..MaxFaults /\ UNCHANGED <<jobs, inFlight>>
      /\ caller' = [caller EXCEPT ![c] = IdleCaller] /\ Calling /\ WorkersUnchanged
  BY InvParts, RunsKept DEF CallerStops, Fault
<1>2. RunsOK' /\ Forward
  BY <1>1 DEF RunStep
<1>3. JobsOK' /\ WorkersOK' /\ WorkerTypes' /\ OneExecution'
  BY <1>1, <1>2, InvParts, JobsKept, WorkersKept DEF WorkersUnchanged
<1>4. CallersOK' /\ caller' \in [Caller -> CallerRecord]
  BY <1>1, <1>2, IdleCallerType, OneCaller
<1> QED
  BY <1>1, <1>2, <1>3, <1>4, InvPartsAfter DEF CallerTypes, Calling

\* A trigger arrives, or an unanswered enqueue takes effect.
LEMMA OutsidePreserves ==
  ASSUME DispatchInv, EnqueueLands \/ \E t \in Trigger : Arrive(t)
  PROVE  DispatchInv' /\ RunStep
<1>1. /\ RunsOK /\ JobsOK /\ CallerTypes /\ CallersOK /\ RunStep /\ UNCHANGED runs
      /\ faults' = faults /\ WorkersUnchanged
  BY InvParts, RunsKept DEF EnqueueLands, Arrive, WorkersUnchanged
<1>2. RunsOK' /\ Forward
  BY <1>1 DEF RunStep
<1>3. WorkersOK' /\ WorkerTypes' /\ OneExecution'
  BY <1>1, <1>2, InvParts, WorkersKept DEF WorkersUnchanged
<1>4. CASE EnqueueLands
  <2>1. PICK j \in inFlight : inFlight' = inFlight \ {j} /\ jobs' = Enqueued({j})
    BY <1>4 DEF EnqueueLands
  <2>2. j \in JobId /\ runs[j[1]] # "absent"
    BY <1>1 DEF JobsOK
  <2>3. JobsOK'
    BY <1>1, <2>1, <2>2, JobsEnqueued
  <2>4. CallersOK' /\ CallerTypes'
    BY <1>1, <1>2, <1>4, CallersKept DEF EnqueueLands
  <2> QED
    BY <1>1, <1>2, <1>3, <2>3, <2>4, InvParts, InvPartsAfter
<1>5. ASSUME NEW t \in Trigger, Arrive(t) PROVE DispatchInv'
  <2>1. JobsOK'
    BY <1>2, <1>5, InvParts, JobsKept DEF Arrive
  <2>2. CallersOK' /\ CallerTypes'
    BY <1>1, <1>5 DEF Arrive, CallersOK, CallerTypes
  <2> QED
    BY <1>1, <1>2, <1>3, <2>1, <2>2, InvParts, InvPartsAfter
<1> QED
  BY <1>1, <1>4, <1>5

-----------------------------------------------------------------------------
(* The workers *)

\* A step of a worker that leaves queue and dispatch alone.
LEMMA WorkerMoves ==
  ASSUME DispatchInv, RunStep, QueueAndCallers, faults' \in 0..MaxFaults,
         covered' \subseteq Trigger,
         NEW w \in Worker, NEW s \in WorkerRecord, worker' = [worker EXCEPT ![w] = s],
         s.pc # "idle" => s.job \in JobId,
         s.pc = "work" => /\ runs'[s.job[1]] \in {"running"} \cup Ended
                          /\ \A v \in Worker \ {w} : worker[v].pc = "work" => TheRun(v) # s.job[1]
  PROVE  DispatchInv'
<1>1. RunsOK' /\ Forward
  BY DEF RunStep
<1>2. JobsOK' /\ CallersOK' /\ CallerTypes'
  BY <1>1, InvParts, JobsKept, CallersKept DEF QueueAndCallers
<1>3. WorkersOK' /\ OneExecution' /\ worker' \in [Worker -> WorkerRecord]
  BY <1>1, InvParts, OneWorker
<1> QED
  BY <1>1, <1>2, <1>3, InvPartsAfter DEF WorkerTypes

\* A worker goes on to anything but executing a run.
LEMMA WorkerGoesOn ==
  ASSUME DispatchInv, RunStep, QueueAndCallers, faults' \in 0..MaxFaults,
         covered' \subseteq Trigger, NEW w \in Worker, worker[w].pc # "idle",
         \/ worker' = [worker EXCEPT ![w] = IdleWorker]
         \/ \E pc \in {"start", "recheck", "decide", "failRun"} : WorkerGoes(w, pc)
         \/ \E op \in {"complete", "retry", "fail"} : Settling(w, op)
  PROVE  DispatchInv'
<1>1. /\ WorkerTypes /\ worker[w] \in WorkerRecord /\ worker[w].job \in JobId
  BY InvParts DEF WorkerTypes, WorkersOK
<1>2. CASE worker' = [worker EXCEPT ![w] = IdleWorker]
  <2>1. IdleWorker \in WorkerRecord /\ IdleWorker.pc = "idle"
    BY DEF IdleWorker, WorkerRecord
  <2> QED
    BY <1>2, <2>1, WorkerMoves
<1>3. ASSUME NEW pc \in {"start", "recheck", "decide", "failRun"}, WorkerGoes(w, pc)
      PROVE  DispatchInv'
  <2> DEFINE s == [worker[w] EXCEPT !.pc = pc]
  <2>1. worker' = [worker EXCEPT ![w] = s]
    BY <1>1, <1>3 DEF WorkerGoes, WorkerTypes
  <2>2. s \in WorkerRecord /\ s.pc = pc /\ s.job \in JobId
    BY <1>1 DEF WorkerRecord
  <2> HIDE DEF s
  <2> QED
    BY <2>1, <2>2, WorkerMoves
<1>4. ASSUME NEW op \in {"complete", "retry", "fail"}, Settling(w, op)
      PROVE  DispatchInv'
  <2> DEFINE s == [worker[w] EXCEPT !.pc = "settle", !.op = op]
  <2>1. worker' = [worker EXCEPT ![w] = s]
    BY <1>1, <1>4 DEF Settling, WorkerTypes
  <2>2. s \in WorkerRecord /\ s.pc = "settle" /\ s.job \in JobId
    BY <1>1 DEF WorkerRecord
  <2> HIDE DEF s
  <2> QED
    BY <2>1, <2>2, WorkerMoves
<1> QED
  BY <1>2, <1>3, <1>4

\* Steps of a delivery that change its run, or none, and go on.
LEMMA WorkerStepPreserves ==
  ASSUME DispatchInv, NEW w \in Worker,
         \/ ReadRun(w) \/ Recheck(w) \/ EndRun(w) \/ Decide(w) \/ FailRun(w)
         \/ Shutdown(w) \/ ExecuteFails(w) \/ WorkerStops(w)
  PROVE  DispatchInv' /\ RunStep
<1>1. /\ RunsOK /\ covered \subseteq Trigger /\ faults \in 0..MaxFaults
      /\ worker[w].pc # "idle" => TheRun(w) \in Run
  BY InvParts DEF WorkersOK, WorkerTypes, TheRun, JobId
<1>2. CASE ReadRun(w)
  BY <1>1, <1>2, RunsKept, WorkerGoesOn DEF ReadRun
<1>3. CASE Recheck(w)
  BY <1>1, <1>3, RunsKept, WorkerGoesOn DEF Recheck
<1>4. CASE EndRun(w)
  <2>1. RunStep
    BY <1>1, <1>4, RunsKept, FinishForward DEF EndRun, Ended
  <2> QED
    BY <1>1, <1>4, <2>1, WorkerGoesOn DEF EndRun
<1>5. CASE Decide(w)
  BY <1>1, <1>5, RunsKept, WorkerGoesOn DEF Decide
<1>6. CASE FailRun(w)
  <2>1. RunStep
    BY <1>1, <1>6, RunsKept, FinishForward DEF FailRun, Ended
  <2> QED
    BY <1>1, <1>6, <2>1, WorkerGoesOn DEF FailRun
<1>7. CASE Shutdown(w)
  <2>1. RunStep
    BY <1>1, <1>7, RunsKept, FinishForward DEF Shutdown, Ended
  <2>2. faults' \in 0..MaxFaults
    BY <1>1, <1>7 DEF Shutdown, Fault
  <2> QED
    BY <1>1, <1>7, <2>1, <2>2, WorkerGoesOn DEF Shutdown
<1>8. CASE ExecuteFails(w)
  <2>1. faults' \in 0..MaxFaults
    BY <1>1, <1>8 DEF ExecuteFails, Fault
  <2> QED
    BY <1>1, <1>8, <2>1, RunsKept, WorkerGoesOn DEF ExecuteFails
<1>9. CASE WorkerStops(w)
  <2>1. faults' \in 0..MaxFaults
    BY <1>1, <1>9 DEF WorkerStops, Fault
  <2> QED
    BY <1>1, <1>9, <2>1, RunsKept, WorkerGoesOn DEF WorkerStops
<1> QED
  BY <1>2, <1>3, <1>4, <1>5, <1>6, <1>7, <1>8, <1>9

LEMMA StartCovers ==
  ASSUME CallerTypes, WorkerTypes, NEW r \in Run, Start(r)
  PROVE  covered' \subseteq Trigger
  BY DEF Start, CallerTypes, WorkerTypes

\* The run was queued, and whoever works on a run works on one that has started.
LEMMA StartRunPreserves ==
  ASSUME DispatchInv, NEW w \in Worker, StartRun(w) \/ StartFails(w)
  PROVE  DispatchInv' /\ RunStep
<1>1. /\ RunsOK /\ CallerTypes /\ WorkerTypes /\ WorkersOK /\ faults \in 0..MaxFaults
      /\ worker[w] \in WorkerRecord /\ worker[w].pc # "idle"
      /\ worker[w].job \in JobId /\ TheRun(w) \in Run
  BY InvParts DEF WorkersOK, WorkerTypes, TheRun, JobId, StartRun, StartFails
<1>2. RunStep /\ covered' \subseteq Trigger
  BY <1>1, RunsKept, StartForward, StartCovers DEF StartRun, StartFails, WorkerTypes
<1>3. QueueAndCallers /\ faults' \in 0..MaxFaults
  BY <1>1 DEF StartRun, StartFails, Fault
<1>4. CASE WorkerGoes(w, "recheck")
  BY <1>1, <1>2, <1>3, <1>4, WorkerGoesOn
<1>5. CASE Start(TheRun(w)) /\ WorkerGoes(w, "work")
  <2> DEFINE s == [worker[w] EXCEPT !.pc = "work"]
  <2>1. worker' = [worker EXCEPT ![w] = s]
    BY <1>1, <1>5 DEF WorkerGoes, WorkerTypes
  <2>2. s \in WorkerRecord /\ s.pc = "work" /\ s.job \in JobId /\ s.job[1] = TheRun(w)
    BY <1>1 DEF WorkerRecord, TheRun
  <2>3. runs'[TheRun(w)] = "running"
    BY <1>1, <1>5 DEF Start, RunsOK
  <2>4. \A v \in Worker : worker[v].pc = "work" => TheRun(v) # TheRun(w)
    BY <1>1, <1>5 DEF WorkersOK, Start, Ended
  <2> HIDE DEF s
  <2> QED
    BY <1>2, <1>3, <2>1, <2>2, <2>3, <2>4, WorkerMoves
<1> QED
  BY <1>2, <1>4, <1>5 DEF StartRun, StartFails

\* Steps on the queue's jobs: a claim, a settlement, the end of a lease.
LEMMA JobsChanged ==
  ASSUME JobsOK, UNCHANGED <<runs, inFlight>>, NEW j \in JobId, NEW s \in JobRecord,
         jobs' = [jobs EXCEPT ![j] = s],
         s.state # "absent" => jobs[j].state # "absent"
  PROVE  JobsOK'
<1>1. \A k \in JobId : jobs'[k] = IF k = j THEN s ELSE jobs[k]
  BY DEF JobsOK
<1> QED
  BY <1>1 DEF JobsOK

LEMMA ClaimPreserves ==
  ASSUME DispatchInv, NEW w \in Worker, NEW j \in JobId, Claim(w, j)
  PROVE  DispatchInv' /\ RunStep
<1>1. /\ RunsOK /\ JobsOK /\ CallerTypes /\ CallersOK /\ WorkerTypes /\ WorkersOK
      /\ OneExecution /\ faults \in 0..MaxFaults /\ RunStep
  BY InvParts, RunsKept DEF Claim
<1>2. RunsOK' /\ Forward
  BY <1>1 DEF RunStep
<1> DEFINE n == jobs[j].attempt + 1
           k == [jobs[j] EXCEPT !.attempt = n, !.lease = n]
           s == [IdleWorker EXCEPT !.pc = "read", !.job = j, !.lease = n]
<1>3. jobs[j] \in JobRecord /\ n \in Nat /\ jobs[j].state = "queued"
  BY <1>1 DEF JobsOK, JobRecord, Claim, Live
<1>4. jobs' = [jobs EXCEPT ![j] = k]
  BY <1>1, <1>3 DEF Claim, JobsOK, JobRecord
<1>5. k \in JobRecord
  BY <1>3 DEF JobRecord
<1>6. worker' = [worker EXCEPT ![w] = s]
  BY DEF Claim
<1>7. s \in WorkerRecord /\ s.pc = "read" /\ s.job = j
  BY <1>3 DEF IdleWorker, WorkerRecord, JobId
<1>8. UNCHANGED <<runs, inFlight, covered, faults>> /\ UNCHANGED dispatchVars
  BY DEF Claim
<1> HIDE DEF n, k, s
<1>9. JobsOK'
  BY <1>1, <1>3, <1>4, <1>5, <1>8, JobsChanged
<1>10. WorkersOK' /\ OneExecution' /\ worker' \in [Worker -> WorkerRecord]
  BY <1>1, <1>2, <1>6, <1>7, OneWorker
<1>11. CallersOK' /\ CallerTypes'
  BY <1>1, <1>2, <1>8, CallersKept
<1> QED
  BY <1>1, <1>2, <1>8, <1>9, <1>10, <1>11, InvPartsAfter DEF WorkerTypes

LEMMA SettlePreserves ==
  ASSUME DispatchInv, NEW w \in Worker, Settle(w)
  PROVE  DispatchInv' /\ RunStep
<1>1. /\ RunsOK /\ JobsOK /\ CallerTypes /\ CallersOK /\ WorkerTypes /\ WorkersOK
      /\ OneExecution /\ faults \in 0..MaxFaults /\ RunStep
  BY InvParts, RunsKept DEF Settle
<1>2. RunsOK' /\ Forward
  BY <1>1 DEF RunStep
<1>3. UNCHANGED <<runs, inFlight, covered, faults>> /\ UNCHANGED dispatchVars
  BY DEF Settle
<1> DEFINE j == worker[w].job
           s == Settled(j, worker[w].op)
<1>4. j \in JobId /\ jobs[j] \in JobRecord /\ worker[w].op \in {"complete", "retry", "fail"}
  BY <1>1 DEF Settle, WorkersOK, WorkerTypes, WorkerRecord, JobsOK
<1>5. s \in JobRecord
  BY <1>4 DEF Settled, JobRecord
<1>6. ASSUME Holds(w) PROVE JobsOK'
  <2>1. jobs' = [jobs EXCEPT ![j] = s] /\ jobs[j].state # "absent"
    BY <1>6 DEF Settle, Holds, Live
  <2> HIDE DEF j, s
  <2> QED
    BY <1>1, <1>3, <1>4, <1>5, <2>1, JobsChanged
<1>7. ASSUME ~Holds(w) PROVE JobsOK'
  BY <1>1, <1>2, <1>3, <1>7, JobsKept DEF Settle
<1>8. IdleWorker \in WorkerRecord /\ IdleWorker.pc = "idle"
  BY DEF IdleWorker, WorkerRecord
<1>9. WorkersOK' /\ OneExecution' /\ worker' \in [Worker -> WorkerRecord]
  BY <1>1, <1>2, <1>8, OneWorker DEF Settle
<1>10. CallersOK' /\ CallerTypes'
  BY <1>1, <1>2, <1>3, CallersKept
<1> QED
  BY <1>1, <1>2, <1>3, <1>6, <1>7, <1>9, <1>10, InvPartsAfter DEF WorkerTypes

LEMMA LeaseEndsPreserves ==
  ASSUME DispatchInv, NEW j \in JobId, LeaseEnds(j)
  PROVE  DispatchInv' /\ RunStep
<1>1. /\ RunsOK /\ JobsOK /\ CallerTypes /\ CallersOK /\ WorkerTypes /\ WorkersOK
      /\ OneExecution /\ faults \in 0..MaxFaults /\ RunStep
  BY InvParts, RunsKept DEF LeaseEnds
<1>2. RunsOK' /\ Forward
  BY <1>1 DEF RunStep
<1>3. UNCHANGED <<runs, inFlight, worker, covered>> /\ UNCHANGED dispatchVars
  BY DEF LeaseEnds
<1>4. faults' \in 0..MaxFaults
  BY <1>1 DEF LeaseEnds, Fault
<1> DEFINE s == [jobs[j] EXCEPT !.lease = 0]
<1>5. jobs[j] \in JobRecord /\ jobs[j].state = "queued"
  BY <1>1 DEF JobsOK, LeaseEnds, Live
<1>6. s \in JobRecord
  BY <1>5 DEF JobRecord
<1>7. jobs' = [jobs EXCEPT ![j] = s]
  BY <1>1 DEF LeaseEnds, JobsOK, JobRecord
<1> HIDE DEF s
<1>8. JobsOK'
  BY <1>1, <1>3, <1>5, <1>6, <1>7, JobsChanged
<1>9. /\ WorkersOK' /\ WorkerTypes' /\ OneExecution'
      /\ CallersOK' /\ CallerTypes'
  BY <1>1, <1>2, <1>3, CallersKept, WorkersKept
<1> QED
  BY <1>1, <1>2, <1>4, <1>8, <1>9, InvPartsAfter

-----------------------------------------------------------------------------
(* Every step, and the theorems *)

LEMMA InitEstablishes ==
  ASSUME Init
  PROVE  DispatchInv
<1>1. RunsOK
  BY DEF Init, RunsOK, Status
<1>2. JobsOK
  <2>1. AbsentJob \in JobRecord /\ AbsentJob.state = "absent"
    BY DEF AbsentJob, JobRecord
  <2> QED
    BY <2>1 DEF Init, JobsOK
<1>3. CallerTypes /\ CallersOK
  BY IdleCallerType DEF Init, CallerTypes, CallersOK
<1>4. WorkerTypes /\ WorkersOK /\ OneExecution
  <2>1. IdleWorker \in WorkerRecord /\ IdleWorker.pc = "idle"
    BY DEF IdleWorker, WorkerRecord
  <2> QED
    BY <2>1 DEF Init, WorkerTypes, WorkersOK, OneExecution
<1>5. faults \in 0..MaxFaults
  BY DEF Init
<1> QED
  BY <1>1, <1>2, <1>3, <1>4, <1>5, InvParts

LEMMA StepPreserves ==
  ASSUME DispatchInv, [Next]_vars
  PROVE  DispatchInv' /\ RunStep
<1>1. CASE UNCHANGED vars
  <2>1. /\ RunsOK /\ JobsOK /\ CallerTypes /\ CallersOK /\ WorkerTypes /\ WorkersOK
        /\ OneExecution /\ faults \in 0..MaxFaults /\ RunStep
    BY <1>1, InvParts, RunsKept DEF vars
  <2>2. RunsOK' /\ Forward
    BY <2>1 DEF RunStep
  <2>3. /\ JobsOK' /\ CallersOK' /\ CallerTypes' /\ WorkersOK' /\ WorkerTypes'
        /\ OneExecution'
    BY <1>1, <2>1, <2>2, JobsKept, CallersKept, WorkersKept DEF vars, dispatchVars
  <2> QED
    BY <1>1, <2>1, <2>2, <2>3, InvPartsAfter DEF vars
<1>2. CASE EnqueueLands \/ \E t \in Trigger : Arrive(t)
  BY <1>2, OutsidePreserves
<1>3. ASSUME NEW c \in Caller, NEW r \in Run, Dispatch(c, r)
      PROVE  DispatchInv' /\ RunStep
  BY <1>3, DispatchPreserves, InvParts, RunsKept DEF Dispatch
<1>4. ASSUME NEW c \in Caller, CallerSteps(c) \/ PublishFails(c) \/ CallerStops(c)
      PROVE  DispatchInv' /\ RunStep
  BY <1>4, LookPreserves, CreatePreserves, RequeuePreserves, PublishPreserves,
     MarkFailedPreserves, CallerStopsPreserves DEF CallerSteps
<1>5. ASSUME NEW w \in Worker,
             \/ \E j \in JobId : Claim(w, j)
             \/ WorkerSteps(w) \/ StartFails(w) \/ Shutdown(w) \/ ExecuteFails(w)
             \/ WorkerStops(w)
      PROVE  DispatchInv' /\ RunStep
  BY <1>5, ClaimPreserves, WorkerStepPreserves, StartRunPreserves, SettlePreserves
     DEF WorkerSteps
<1>6. CASE \E j \in JobId : LeaseEnds(j)
  BY <1>6, LeaseEndsPreserves
<1> QED
  BY <1>1, <1>2, <1>3, <1>4, <1>5, <1>6 DEF Next

LEMMA Invariant == Spec => []DispatchInv
<1>1. Init => DispatchInv
  BY InitEstablishes
<1>2. DispatchInv /\ [Next]_vars => DispatchInv'
  BY StepPreserves
<1> QED
  BY <1>1, <1>2, PTL DEF Spec

\* The variables keep their shapes, and every job that is or may be in the queue
\* names a persisted run, whatever calls of the dispatch fail
\* (run-dispatch.ts, dispatchSyncRun: the run is persisted before its job).
THEOREM TypeCorrect == Spec => []TypeOK
<1>1. DispatchInv => TypeOK
  BY DEF DispatchInv
<1> QED
  BY <1>1, Invariant, PTL

\* Two workers never execute the same run, though jobs are delivered again and
\* several jobs name one run: start moves the run out of queued, and no later
\* requeue takes a started run back (sync-worker/src/worker.ts, execute).
THEOREM ExecutionIsExclusive == Spec => []OneExecution
<1>1. DispatchInv => OneExecution
  BY DEF DispatchInv
<1> QED
  BY <1>1, Invariant, PTL

\* A run that ended stays ended and a run that started never waits again, for any
\* order of retried requests, late failure records and redelivered jobs
\* (storage/sync-runs/transitions.ts, canFinishSyncRun).
THEOREM NeverAgain == Spec => RunsOnce
<1>1. DispatchInv /\ [Next]_vars =>
        [\A r \in Run :
           /\ runs[r] \in Ended => runs'[r] = runs[r]
           /\ runs[r] = "running" => runs'[r] \in {"running"} \cup Ended]_vars
  BY StepPreserves DEF RunStep
<1> QED
  BY <1>1, Invariant, PTL DEF Spec, RunsOnce

-----------------------------------------------------------------------------
(* Automatic triggers: what an answer is worth when nobody asks by hand.  A  *)
(* manual dispatch may record a published run as unpublished and queue it    *)
(* again, so what follows supposes there are none.                           *)

\* The trigger t is known to the dispatch: its batch is kept, or it was answered.
Arrived == pending \cup {t \in Trigger : promised[t] # {}}

\* A run with one of these statuses was started; one that failed may not have been.
SurelyStarted == {"running", "succeeded", "cancelled"}

Started == {"running"} \cup Ended

\* No automatic run is ever recorded as unpublished.
RunsPublished == /\ \A r \in Run : runs[r] # "enqueueFailed"
                 /\ \A c \in Caller : caller[c].pc # "markFailed"

\* The queue gives up a job only when its run has started or failed, and so does
\* a worker that is about to settle one.
JobsLast ==
  /\ \A j \in JobId : jobs[j].state \in {"completed", "failed"} => runs[j[1]] \in Started
  /\ \A w \in Worker :
       /\ worker[w].pc # "idle" => runs[TheRun(w)] # "absent"
       /\ worker[w].pc = "settle" /\ worker[w].op # "retry" => runs[TheRun(w)] \in Started

\* An answer names a persisted run, and one that waits has a job in the queue.
AnswersHaveJobs ==
  \A q \in Run : \A r \in promised[q] : /\ runs[r] # "absent"
                                        /\ runs[r] = "queued" => HasJob(r)

\* Whatever is dispatched, persisted or answered belongs to a trigger that arrived.
OnlyArrived ==
  /\ \A r \in Run : runs[r] # "absent" => r \in Arrived
  /\ \A c \in Caller : caller[c].pc # "idle" => caller[c].request \in Arrived

\* A run that was started covers its own trigger, those about to be answered
\* with it and those answered with it.
StartsCover ==
  /\ \A r \in Run : runs[r] \in SurelyStarted => r \in covered
  /\ \A c \in Caller : caller[c].pc = "publish" /\ runs[caller[c].job[1]] \in SurelyStarted
                         => caller[c].request \in covered
  /\ \A q \in Run : \A r \in promised[q] : runs[r] \in SurelyStarted => q \in covered

TriggersInv == RunsPublished /\ JobsLast /\ AnswersHaveJobs /\ OnlyArrived /\ StartsCover

\* A run moves forward, and one that starts covers what has arrived.
RunFlows(r) ==
  \/ runs'[r] = runs[r]
  \/ runs[r] = "absent" /\ runs'[r] = "queued" /\ r \in Arrived
  \/ runs[r] = "queued" /\ runs'[r] = "running" /\ Arrived \subseteq covered'
  \/ runs[r] \in {"queued", "running"} /\ runs'[r] = "failed"
  \/ runs[r] = "running" /\ runs'[r] \in {"succeeded", "cancelled"}

\* A job ends only when its run has started or failed.
JobFlows(j) ==
  \/ jobs'[j].state = jobs[j].state
  \/ jobs[j].state = "absent" /\ jobs'[j].state = "queued"
  \/ jobs[j].state = "queued" /\ jobs'[j].state \in {"completed", "failed"} /\ runs[j[1]] \in Started

WorkerFlows(w) ==
  \/ worker'[w] = worker[w]
  \/ /\ worker'[w].pc # "idle" => runs[worker'[w].job[1]] # "absent" /\ worker'[w].job \in JobId
     /\ worker'[w].pc = "settle" /\ worker'[w].op # "retry"
          => runs'[worker'[w].job[1]] \in Started

CallerFlows(c) ==
  \/ caller'[c] = caller[c]
  \/ /\ caller'[c].pc # "markFailed"
     /\ caller'[c].pc # "idle" => caller'[c].request = caller[c].request \/ caller'[c].request \in pending
     /\ caller'[c].pc # "idle" /\ caller[c].pc = "idle" => caller'[c].request \in pending
     /\ caller'[c].pc = "publish" => runs'[caller'[c].job[1]] \notin SurelyStarted

\* A new answer is good when it is given.
AnswerFlows(q) ==
  /\ promised[q] \subseteq promised'[q]
  /\ \A r \in promised'[q] \ promised[q] : /\ r \in Run /\ runs'[r] # "absent"
                                           /\ runs'[r] = "queued" => HasJob(r)'
                                           /\ runs'[r] \in SurelyStarted => q \in covered'

TriggersFlow ==
  /\ \A r \in Run : RunFlows(r)
  /\ \A j \in JobId : JobFlows(j)
  /\ \A w \in Worker : WorkerFlows(w)
  /\ \A c \in Caller : CallerFlows(c)
  /\ \A q \in Run : AnswerFlows(q)
  /\ covered \subseteq covered' /\ Arrived \subseteq Arrived'

LEMMA TriggersKeep ==
  ASSUME Manual = {}, DispatchInv, TriggersInv, TriggersFlow
  PROVE  TriggersInv'
<1>0. /\ RunsOK /\ JobsOK /\ CallerTypes /\ CallersOK /\ WorkerTypes /\ WorkersOK
  BY InvParts
<1> USE DEF TriggersInv, TriggersFlow
<1>1. RunsPublished'
  BY DEF RunsPublished, RunFlows, CallerFlows
<1>2. ASSUME NEW r \in Run
      PROVE  /\ runs[r] # "absent" => runs'[r] # "absent"
             /\ runs[r] \in Started => runs'[r] \in Started
             /\ runs'[r] # "absent" => r \in Arrived
             /\ runs'[r] \in SurelyStarted => runs[r] \in SurelyStarted \/ Arrived \subseteq covered'
             /\ runs'[r] = "queued" => runs[r] \in {"absent", "queued"}
  BY DEF RunFlows, OnlyArrived, Started, SurelyStarted, Ended
<1>3. \A j \in JobId : j[1] \in Run
  BY DEF JobId
<1>4. JobsLast'
  <2>1. \A j \in JobId : jobs'[j].state \in {"completed", "failed"} => runs'[j[1]] \in Started
    BY <1>2, <1>3 DEF JobsLast, JobFlows
  <2>2. ASSUME NEW w \in Worker, worker'[w].pc # "idle"
        PROVE  /\ runs'[worker'[w].job[1]] # "absent"
               /\ worker'[w].pc = "settle" /\ worker'[w].op # "retry"
                    => runs'[worker'[w].job[1]] \in Started
    <3>1. CASE worker'[w] = worker[w]
      <4>1. worker[w].job \in JobId
        BY <1>0, <2>2, <3>1 DEF WorkersOK
      <4> QED
        BY <1>2, <1>3, <2>2, <3>1, <4>1 DEF JobsLast, TheRun
    <3>2. CASE worker'[w] # worker[w]
      BY <1>2, <1>3, <2>2, <3>2 DEF WorkerFlows
    <3> QED
      BY <3>1, <3>2
  <2> QED
    BY <2>1, <2>2 DEF JobsLast, TheRun
<1>5. AnswersHaveJobs'
  <2> SUFFICES ASSUME NEW q \in Run, NEW r \in promised'[q]
               PROVE  runs'[r] # "absent" /\ (runs'[r] = "queued" => HasJob(r)')
    BY DEF AnswersHaveJobs
  <2>1. CASE r \in promised[q]
    <3>1. r \in Run
      BY <1>0, <2>1 DEF CallerTypes
    <3>2. runs'[r] = "queued" => HasJob(r)
      BY <1>2, <2>1, <3>1 DEF AnswersHaveJobs
    <3>3. ASSUME runs'[r] = "queued", HasJob(r) PROVE HasJob(r)'
      <4>1. PICK x \in Run : Live(<<r, x>>)
        BY <3>3 DEF HasJob
      <4>2. <<r, x>> \in JobId /\ runs[r] \notin Started
        BY <1>2, <3>1, <3>3 DEF JobId, Started, Ended
      <4>3. JobFlows(<<r, x>>)
        BY <4>2
      <4>4. jobs'[<<r, x>>].state = "queued"
        BY <4>1, <4>2, <4>3 DEF JobFlows, Live
      <4> QED
        BY <4>4 DEF HasJob, Live
    <3> QED
      BY <1>2, <2>1, <3>1, <3>2, <3>3 DEF AnswersHaveJobs
  <2>2. CASE r \notin promised[q]
    BY <2>2 DEF AnswerFlows
  <2> QED
    BY <2>1, <2>2
<1>6. OnlyArrived'
  <2>1. \A r \in Run : runs'[r] # "absent" => r \in Arrived'
    BY <1>2
  <2>2. \A c \in Caller : caller'[c].pc # "idle" => caller'[c].request \in Arrived
    BY DEF OnlyArrived, CallerFlows, Arrived
  <2> QED
    BY <2>1, <2>2 DEF OnlyArrived
<1>7. StartsCover'
  <2>1. \A r \in Run : runs'[r] \in SurelyStarted => r \in covered'
    <3> SUFFICES ASSUME NEW r \in Run, runs'[r] \in SurelyStarted PROVE r \in covered'
      OBVIOUS
    <3>1. runs'[r] # "absent"
      BY DEF SurelyStarted
    <3> QED
      BY <1>2, <3>1 DEF StartsCover
  <2>2. ASSUME NEW c \in Caller, caller'[c].pc = "publish", runs'[caller'[c].job[1]] \in SurelyStarted
        PROVE  caller'[c].request \in covered'
    <3>1. caller'[c] = caller[c]
      BY <2>2 DEF CallerFlows
    <3>2. caller[c].request \in Arrived /\ caller[c].job[1] \in Run
      BY <1>0, <1>3, <2>2, <3>1 DEF OnlyArrived, CallersOK
    <3> QED
      BY <1>2, <2>2, <3>1, <3>2 DEF StartsCover
  <2>3. ASSUME NEW q \in Run, NEW r \in promised'[q], runs'[r] \in SurelyStarted
        PROVE  q \in covered'
    <3>1. CASE r \in promised[q]
      <4>1. r \in Run /\ q \in Trigger /\ q \in Arrived
        BY <1>0, <3>1 DEF CallerTypes, Run, Arrived
      <4> QED
        BY <1>2, <2>3, <3>1, <4>1 DEF StartsCover
    <3>2. CASE r \notin promised[q]
      BY <2>3, <3>2 DEF AnswerFlows
    <3> QED
      BY <3>1, <3>2
  <2> QED
    BY <2>1, <2>2, <2>3 DEF StartsCover
<1> QED
  BY <1>1, <1>4, <1>5, <1>6, <1>7

\* Steps of a dispatch: workers, covered triggers and settled jobs stay.
LEMMA DispatchFlows ==
  ASSUME Manual = {}, DispatchInv, TriggersInv, NEW c \in Caller, NEW r \in Run, Dispatch(c, r)
  PROVE  TriggersFlow
<1>1. CallerTypes
  BY InvParts
<1>2. r \in pending /\ UNCHANGED <<runs, jobs, pending, promised, worker, covered>>
  BY DEF Dispatch, WorkersUnchanged
<1>3. \A d \in Caller : CallerFlows(d)
  BY <1>1, <1>2 DEF Dispatch, CallerFlows, CallerTypes, CallerRecord
<1> QED
  BY <1>2, <1>3 DEF TriggersFlow, RunFlows, JobFlows, WorkerFlows, AnswerFlows, Arrived

\* What a dispatch does when it goes on, returns or gives up, once its step on
\* the runs and jobs is known.
LEMMA CallerGoesFlows ==
  ASSUME Manual = {}, DispatchInv, TriggersInv, NEW c \in Caller, caller[c].pc # "idle",
         UNCHANGED <<worker, covered>>,
         \A r \in Run : RunFlows(r), \A j \in JobId : JobFlows(j),
         \/ /\ Calling
            /\ \/ caller' = [caller EXCEPT ![c] = IdleCaller]
               \/ Goto(c, "create", caller[c].job)
               \/ Goto(c, "requeue", caller[c].job)
               \/ \E j \in JobId : Goto(c, "publish", j) /\ runs'[j[1]] \notin SurelyStarted
         \/ \E r \in Run : /\ Return(c, r)
                           /\ runs'[r] # "absent"
                           /\ runs'[r] = "queued" => HasJob(r)'
                           /\ runs'[r] \in SurelyStarted => caller[c].request \in covered
  PROVE  TriggersFlow
<1>1. CallerTypes /\ CallersOK /\ caller[c] \in CallerRecord /\ caller[c].request \in Run
  BY InvParts DEF CallerTypes, CallersOK
<1>2. caller[c].request \in Arrived
  BY DEF TriggersInv, OnlyArrived
<1>3. CASE Calling
  <2>1. UNCHANGED <<pending, promised>>
    BY <1>3 DEF Calling
  <2>2. Arrived' = Arrived /\ \A q \in Run : AnswerFlows(q)
    BY <2>1 DEF Arrived, AnswerFlows
  <2>3. \A d \in Caller : CallerFlows(d)
    <3>1. CASE caller' = [caller EXCEPT ![c] = IdleCaller]
      BY <1>1, <3>1 DEF CallerFlows, CallerTypes, IdleCaller
    <3>2. ASSUME NEW pc \in {"create", "requeue"}, Goto(c, pc, caller[c].job)
          PROVE  \A d \in Caller : CallerFlows(d)
      BY <1>1, <3>2 DEF CallerFlows, CallerTypes, CallerRecord, Goto
    <3>3. ASSUME NEW j \in JobId, Goto(c, "publish", j), runs'[j[1]] \notin SurelyStarted
          PROVE  \A d \in Caller : CallerFlows(d)
      BY <1>1, <3>3 DEF CallerFlows, CallerTypes, CallerRecord, Goto
    <3>4. CASE \E r \in Run : Return(c, r)
      BY <1>1, <3>4 DEF CallerFlows, CallerTypes, IdleCaller, Return
    <3> QED
      BY <3>1, <3>2, <3>3, <3>4
  <2> QED
    BY <2>2, <2>3 DEF TriggersFlow, WorkerFlows
<1>4. ASSUME NEW r \in Run, Return(c, r), runs'[r] # "absent",
             runs'[r] = "queued" => HasJob(r)',
             runs'[r] \in SurelyStarted => caller[c].request \in covered
      PROVE  TriggersFlow
  <2>1. \A d \in Caller : CallerFlows(d)
    BY <1>1, <1>4 DEF CallerFlows, CallerTypes, IdleCaller, Return
  <2>2. \A q \in Run : promised'[q] = IF q = caller[c].request THEN promised[q] \cup {r} ELSE promised[q]
    BY <1>1, <1>4 DEF Return, CallerTypes
  <2>3. ASSUME NEW q \in Run PROVE AnswerFlows(q)
    <3>1. promised'[q] \in {promised[q], promised[q] \cup {r}} /\ (q # caller[c].request => promised'[q] = promised[q])
      BY <2>2
    <3> QED
      BY <1>4, <3>1 DEF AnswerFlows
  <2>4. Arrived \subseteq Arrived'
    <3>1. pending' = pending \ {caller[c].request} /\ pending \subseteq Trigger
      BY <1>1, <1>4 DEF Return, CallerTypes
    <3>2. caller[c].request \in Trigger
      BY <1>1 DEF Run
    <3>3. promised'[caller[c].request] # {}
      BY <2>2, <3>2 DEF Run
    <3>4. \A q \in Trigger : promised[q] # {} => promised'[q] # {}
      BY <2>2 DEF Run
    <3> QED
      BY <3>1, <3>2, <3>3, <3>4 DEF Arrived
  <2> QED
    BY <2>1, <2>3, <2>4 DEF TriggersFlow, WorkerFlows
<1> QED
  BY <1>3, <1>4

LEMMA LookFlows ==
  ASSUME Manual = {}, DispatchInv, TriggersInv, NEW c \in Caller, Look(c)
  PROVE  TriggersFlow
<1> DEFINE r == caller[c].request
<1>1. /\ r \in Run /\ caller[c].pc # "idle" /\ <<r, r>> \in JobId
      /\ UNCHANGED <<runs, jobs, worker, covered>>
  BY InvParts DEF Look, CallersOK, JobId, WorkersUnchanged
<1>2. (\A k \in Run : RunFlows(k)) /\ (\A j \in JobId : JobFlows(j))
  BY <1>1 DEF RunFlows, JobFlows
<1>3. \/ /\ Calling
         /\ \/ Goto(c, "create", caller[c].job)
            \/ Goto(c, "requeue", caller[c].job)
            \/ Goto(c, "publish", <<r, r>>) /\ runs'[r] \notin SurelyStarted
      \/ Return(c, r) /\ runs'[r] \in {"running"} \cup Ended
  BY <1>1 DEF Look, SurelyStarted, Ended
<1>4. runs[r] \in SurelyStarted => r \in covered
  BY <1>1 DEF TriggersInv, StartsCover
<1> HIDE DEF r
<1>5. CASE Return(c, r) /\ runs'[r] \in {"running"} \cup Ended
  BY <1>1, <1>2, <1>4, <1>5, CallerGoesFlows DEF Ended, r
<1>6. Goto(c, "publish", <<r, r>>) /\ runs'[r] \notin SurelyStarted
        => \E j \in JobId : Goto(c, "publish", j) /\ runs'[j[1]] \notin SurelyStarted
  BY <1>1
<1> QED
  BY <1>1, <1>2, <1>3, <1>5, <1>6, CallerGoesFlows

LEMMA CreateFlows ==
  ASSUME Manual = {}, DispatchInv, TriggersInv, NEW c \in Caller, Create(c)
  PROVE  TriggersFlow
<1> DEFINE r == caller[c].request
<1>1. /\ r \in Run /\ r \in Trigger /\ caller[c].pc # "idle" /\ <<r, r>> \in JobId /\ RunsOK
      /\ UNCHANGED <<jobs, worker, covered>> /\ r \in Arrived
  BY InvParts DEF Create, CallersOK, JobId, WorkersUnchanged, Run, TriggersInv, OnlyArrived
<1>2. \A k \in Run : RunFlows(k)
  BY <1>1 DEF Create, RunFlows, Queue, RunsOK
<1>3. \A j \in JobId : JobFlows(j)
  BY <1>1 DEF JobFlows
<1>4. runs[r] \in SurelyStarted => r \in covered
  BY <1>1 DEF TriggersInv, StartsCover
<1>5. ASSUME NEW j \in JobId, Calling, Goto(c, "publish", j), runs'[j[1]] = "queued"
      PROVE  TriggersFlow
  <2>1. runs'[j[1]] \notin SurelyStarted
    BY <1>5 DEF SurelyStarted
  <2> QED
    BY <1>1, <1>2, <1>3, <1>5, <2>1, CallerGoesFlows
<1>6. CASE runs[r] # "absent" /\ UNCHANGED runs
  <2>1. \/ Goto(c, "publish", <<r, r>>) /\ Calling /\ runs[r] = "queued"
        \/ Return(c, r) /\ runs[r] # "queued"
    BY <1>1, <1>6 DEF Create
  <2>2. CASE Return(c, r) /\ runs[r] # "queued"
    BY <1>1, <1>2, <1>3, <1>4, <1>6, <2>2, CallerGoesFlows
  <2> QED
    BY <1>1, <1>5, <1>6, <2>1, <2>2
<1>7. CASE /\ \E waiting \in Joinable : Goto(c, "publish", <<waiting, r>>)
           /\ UNCHANGED runs /\ Calling
  BY <1>1, <1>5, <1>7 DEF Joinable, JobId
<1>8. CASE Queue(r) /\ Goto(c, "publish", <<r, r>>) /\ Calling
  <2>1. runs'[r] = "queued"
    BY <1>1, <1>8 DEF Queue, RunsOK
  <2> QED
    BY <1>1, <1>5, <1>8, <2>1
<1> QED
  BY <1>6, <1>7, <1>8 DEF Create

LEMMA RequeueFlows ==
  ASSUME Manual = {}, DispatchInv, TriggersInv, NEW c \in Caller, Requeue(c) \/ MarkFailed(c)
  PROVE  TriggersFlow
<1>1. /\ caller[c].request \in Run /\ caller[c].pc # "idle" /\ caller[c].pc # "markFailed"
      /\ runs[caller[c].request] # "enqueueFailed"
  BY InvParts DEF Requeue, MarkFailed, CallersOK, TriggersInv, RunsPublished
<1>2. /\ UNCHANGED <<runs, jobs, worker, covered>> /\ Calling
      /\ caller' = [caller EXCEPT ![c] = IdleCaller]
  BY <1>1 DEF Requeue, MarkFailed, WorkersUnchanged
<1>3. (\A k \in Run : RunFlows(k)) /\ (\A j \in JobId : JobFlows(j))
  BY <1>2 DEF RunFlows, JobFlows
<1> QED
  BY <1>1, <1>2, <1>3, CallerGoesFlows

LEMMA EnqueuedFlows ==
  ASSUME JobsOK, NEW j \in JobId, jobs' = Enqueued({j})
  PROVE  /\ \A k \in JobId : JobFlows(k)
         /\ jobs'[j].state # "absent"
  BY DEF JobsOK, Enqueued, AbsentJob, JobFlows

LEMMA PublishFlows ==
  ASSUME Manual = {}, DispatchInv, TriggersInv, NEW c \in Caller, Publish(c)
  PROVE  TriggersFlow
<1>1. /\ JobsOK /\ caller[c].job \in JobId /\ runs[caller[c].job[1]] # "absent"
      /\ UNCHANGED <<runs, worker, covered>>
      /\ jobs' = Enqueued({caller[c].job}) /\ Return(c, caller[c].job[1])
      /\ caller[c].pc = "publish" /\ caller[c].pc # "idle"
  BY InvParts DEF Publish, CallersOK, WorkersUnchanged
<1>2. PICK j \in JobId : caller[c].job = j
  BY <1>1
<1>3. PICK r \in Run : \E x \in Run : j = <<r, x>>
  BY DEF JobId
<1>4. PICK x \in Run : j = <<r, x>>
  BY <1>3
<1>5. j[1] = r /\ runs[r] # "absent" /\ Return(c, r) /\ jobs' = Enqueued({j})
  BY <1>1, <1>2, <1>4
<1>6. \A k \in Run : RunFlows(k)
  BY <1>1 DEF RunFlows
<1>7. (\A k \in JobId : JobFlows(k)) /\ jobs'[j].state # "absent"
  BY <1>1, <1>5, EnqueuedFlows
<1>8. runs[r] \in SurelyStarted => caller[c].request \in covered
  BY <1>1, <1>2, <1>5 DEF TriggersInv, StartsCover
<1>9. ASSUME runs'[r] = "queued" PROVE HasJob(r)'
  <2>1. runs[r] = "queued" /\ JobFlows(j)
    BY <1>1, <1>7, <1>9
  <2>2. jobs[j].state \notin {"completed", "failed"}
    BY <1>5, <2>1 DEF TriggersInv, JobsLast, Started, Ended
  <2>3. jobs[j].state \in {"absent", "queued", "completed", "failed"}
    BY <1>1 DEF JobsOK, JobRecord
  <2>4. jobs'[j].state = "queued"
    BY <1>5, <1>7, <2>1, <2>2, <2>3 DEF JobFlows, Started, Ended
  <2> QED
    BY <1>4, <2>4 DEF HasJob, Live
<1> QED
  BY <1>1, <1>5, <1>6, <1>7, <1>8, <1>9, CallerGoesFlows

LEMMA CallerGivesUpFlows ==
  ASSUME Manual = {}, DispatchInv, TriggersInv, NEW c \in Caller, PublishFails(c) \/ CallerStops(c)
  PROVE  TriggersFlow
<1>1. /\ caller[c].pc # "idle" /\ caller[c].request \in Trigger
      /\ UNCHANGED <<runs, jobs, worker, covered>> /\ Calling
  BY InvParts DEF PublishFails, CallerStops, WorkersUnchanged, CallersOK, Run
<1>2. caller' = [caller EXCEPT ![c] = IdleCaller]
  BY <1>1, InvParts DEF PublishFails, CallerStops, CallerTypes
<1>3. (\A k \in Run : RunFlows(k)) /\ (\A j \in JobId : JobFlows(j))
  BY <1>1 DEF RunFlows, JobFlows
<1> QED
  BY <1>1, <1>2, <1>3, CallerGoesFlows

LEMMA ArriveFlows ==
  ASSUME NEW t \in Trigger, Arrive(t)
  PROVE  TriggersFlow
<1>1. UNCHANGED <<runs, jobs, caller, worker, promised, covered>> /\ pending \subseteq pending'
  BY DEF Arrive
<1> QED
  BY <1>1 DEF TriggersFlow, RunFlows, JobFlows, WorkerFlows, CallerFlows, AnswerFlows, Arrived

LEMMA EnqueueLandsFlows ==
  ASSUME DispatchInv, EnqueueLands
  PROVE  TriggersFlow
<1>1. /\ JobsOK /\ UNCHANGED <<runs, worker, covered>>
      /\ UNCHANGED <<caller, pending, promised>>
  BY InvParts DEF EnqueueLands, dispatchVars, WorkersUnchanged
<1>2. PICK j \in JobId : jobs' = Enqueued({j})
  BY <1>1 DEF EnqueueLands, JobsOK
<1>3. \A k \in JobId : JobFlows(k)
  BY <1>1, <1>2, EnqueuedFlows
<1> QED
  BY <1>1, <1>3 DEF TriggersFlow, RunFlows, WorkerFlows, CallerFlows, AnswerFlows, Arrived

LEMMA LeaseEndsFlows ==
  ASSUME DispatchInv, NEW j \in JobId, LeaseEnds(j)
  PROVE  TriggersFlow
<1>1. /\ JobsOK /\ UNCHANGED <<runs, worker, covered>>
      /\ UNCHANGED <<caller, pending, promised>>
  BY InvParts DEF LeaseEnds, dispatchVars
<1>2. \A k \in JobId : JobFlows(k)
  BY <1>1 DEF LeaseEnds, JobsOK, JobRecord, JobFlows
<1> QED
  BY <1>1, <1>2 DEF TriggersFlow, RunFlows, WorkerFlows, CallerFlows, AnswerFlows, Arrived

LEMMA ClaimFlows ==
  ASSUME DispatchInv, NEW w \in Worker, NEW j \in JobId, Claim(w, j)
  PROVE  TriggersFlow
<1>1. /\ JobsOK /\ WorkerTypes /\ UNCHANGED <<runs, covered>>
      /\ UNCHANGED <<caller, pending, promised>>
  BY InvParts DEF Claim, dispatchVars
<1>2. \A k \in JobId : JobFlows(k)
  BY <1>1 DEF Claim, JobsOK, JobRecord, JobFlows
<1>3. runs[j[1]] # "absent"
  BY <1>1 DEF Claim, Live, JobsOK
<1>4. \A v \in Worker : WorkerFlows(v)
  BY <1>1, <1>3 DEF Claim, WorkerTypes, WorkerFlows, IdleWorker
<1> QED
  BY <1>1, <1>2, <1>4 DEF TriggersFlow, RunFlows, CallerFlows, AnswerFlows, Arrived

\* A delivery goes on, or ends, once its step on the run and the job is known.
LEMMA WorkerGoesFlows ==
  ASSUME DispatchInv, TriggersInv, NEW w \in Worker, worker[w].pc # "idle",
         UNCHANGED dispatchVars, covered \subseteq covered',
         \A r \in Run : RunFlows(r), \A j \in JobId : JobFlows(j),
         \/ worker' = [worker EXCEPT ![w] = IdleWorker]
         \/ \E pc \in {"start", "recheck", "work", "decide", "failRun"} : WorkerGoes(w, pc)
         \/ Settling(w, "retry")
         \/ /\ \E op \in {"complete", "fail"} : Settling(w, op)
            /\ runs'[TheRun(w)] \in Started
  PROVE  TriggersFlow
<1>1. /\ WorkerTypes /\ worker[w] \in WorkerRecord /\ worker[w].job \in JobId
      /\ runs[TheRun(w)] # "absent" /\ UNCHANGED <<caller, pending, promised>>
  BY InvParts DEF WorkerTypes, WorkersOK, TriggersInv, JobsLast, dispatchVars
<1>2. \A v \in Worker : WorkerFlows(v)
  <2>1. CASE worker' = [worker EXCEPT ![w] = IdleWorker]
    BY <1>1, <2>1 DEF WorkerTypes, WorkerFlows, IdleWorker
  <2>2. ASSUME NEW pc \in {"start", "recheck", "work", "decide", "failRun"}, WorkerGoes(w, pc)
        PROVE  \A v \in Worker : WorkerFlows(v)
    BY <1>1, <2>2 DEF WorkerTypes, WorkerFlows, WorkerGoes, WorkerRecord, TheRun
  <2>3. CASE Settling(w, "retry")
    BY <1>1, <2>3 DEF WorkerTypes, WorkerFlows, Settling, WorkerRecord, TheRun
  <2>4. ASSUME NEW op \in {"complete", "fail"}, Settling(w, op), runs'[TheRun(w)] \in Started
        PROVE  \A v \in Worker : WorkerFlows(v)
    BY <1>1, <2>4 DEF WorkerTypes, WorkerFlows, Settling, WorkerRecord, TheRun
  <2> QED
    BY <2>1, <2>2, <2>3, <2>4
<1> QED
  BY <1>1, <1>2 DEF TriggersFlow, CallerFlows, AnswerFlows, Arrived

LEMMA FinishFlows ==
  ASSUME RunsOK, NEW r \in Run, NEW status \in Ended, Finish(r, status)
  PROVE  (\A k \in Run : RunFlows(k)) /\ runs'[r] = status
<1>1. /\ status \in {"succeeded", "cancelled"} => runs[r] = "running"
      /\ status = "failed" => runs[r] \in {"queued", "running"}
  BY DEF Finish, CanFinish, Ended
<1> QED
  BY <1>1 DEF Finish, RunsOK, RunFlows, Ended

LEMMA StartFlows ==
  ASSUME RunsOK, NEW r \in Run, Start(r)
  PROVE  (\A k \in Run : RunFlows(k)) /\ covered \subseteq covered'
  BY DEF Start, RunsOK, RunFlows, Arrived

\* A run with a delivery that no longer waits has started: it is persisted, and
\* was published.
LEMMA NotQueuedStarted ==
  ASSUME DispatchInv, TriggersInv, NEW w \in Worker, worker[w].pc # "idle",
         runs[TheRun(w)] # "queued"
  PROVE  runs[TheRun(w)] \in Started
<1>1. TheRun(w) \in Run /\ RunsOK
  BY InvParts DEF WorkersOK, JobId, TheRun
<1> QED
  BY <1>1 DEF TriggersInv, RunsPublished, JobsLast, RunsOK, Status, Started

LEMMA WorkerStepsFlow ==
  ASSUME DispatchInv, TriggersInv, NEW w \in Worker,
         \/ WorkerSteps(w) \/ StartFails(w) \/ Shutdown(w) \/ ExecuteFails(w) \/ WorkerStops(w)
  PROVE  TriggersFlow
<1>1. /\ RunsOK /\ JobsOK /\ worker[w].pc # "idle" /\ UNCHANGED dispatchVars
      /\ TheRun(w) \in Run /\ worker[w].job \in JobId
  <2>1. worker[w].pc # "idle" /\ UNCHANGED dispatchVars
    BY DEF WorkerSteps, ReadRun, StartRun, Recheck, EndRun, Decide, FailRun, Settle, StartFails,
           Shutdown, ExecuteFails, WorkerStops, QueueAndCallers
  <2> QED
    BY <2>1, InvParts DEF WorkersOK, JobId, TheRun
<1>2. UNCHANGED runs => \A r \in Run : RunFlows(r)
  BY DEF RunFlows
<1>3. UNCHANGED jobs => \A j \in JobId : JobFlows(j)
  BY DEF JobFlows
<1>4. CASE ReadRun(w) \/ Recheck(w)
  <2>1. /\ UNCHANGED <<runs, jobs, covered>>
        /\ \/ WorkerGoes(w, "start") \/ WorkerGoes(w, "decide")
           \/ Settling(w, "complete") /\ runs[TheRun(w)] # "queued"
    BY <1>4 DEF ReadRun, Recheck, QueueAndCallers
  <2> QED
    BY <1>1, <1>2, <1>3, <2>1, WorkerGoesFlows, NotQueuedStarted
<1>5. CASE StartRun(w) \/ StartFails(w)
  <2>1. /\ UNCHANGED jobs
        /\ Start(TheRun(w)) \/ UNCHANGED <<runs, covered>>
        /\ WorkerGoes(w, "work") \/ WorkerGoes(w, "recheck")
    BY <1>5 DEF StartRun, StartFails, QueueAndCallers
  <2>2. (\A r \in Run : RunFlows(r)) /\ covered \subseteq covered'
    BY <1>1, <1>2, <2>1, StartFlows
  <2> QED
    BY <1>1, <1>3, <2>1, <2>2, WorkerGoesFlows
<1>6. CASE EndRun(w)
  <2>1. UNCHANGED <<jobs, covered>>
    BY <1>6 DEF EndRun, QueueAndCallers
  <2>2. CASE Finish(TheRun(w), "succeeded") /\ Settling(w, "complete")
    <3>1. (\A r \in Run : RunFlows(r)) /\ runs'[TheRun(w)] = "succeeded"
      BY <1>1, <2>2, FinishFlows DEF Ended
    <3> QED
      BY <1>1, <1>3, <2>1, <2>2, <3>1, WorkerGoesFlows DEF Started, Ended
  <2>3. CASE Finish(TheRun(w), "failed") /\ WorkerGoes(w, "decide")
    <3>1. \A r \in Run : RunFlows(r)
      BY <1>1, <2>3, FinishFlows DEF Ended
    <3> QED
      BY <1>1, <1>3, <2>1, <2>3, <3>1, WorkerGoesFlows
  <2>4. CASE UNCHANGED runs /\ WorkerGoes(w, "decide")
    BY <1>1, <1>2, <1>3, <2>1, <2>4, WorkerGoesFlows
  <2> QED
    BY <1>6, <2>2, <2>3, <2>4 DEF EndRun
<1>7. CASE Shutdown(w)
  <2>1. /\ UNCHANGED <<jobs, covered>> /\ Settling(w, "retry")
        /\ Finish(TheRun(w), "cancelled") \/ UNCHANGED runs
    BY <1>7 DEF Shutdown, QueueAndCallers
  <2>2. \A r \in Run : RunFlows(r)
    BY <1>1, <1>2, <2>1, FinishFlows DEF Ended
  <2> QED
    BY <1>1, <1>3, <2>1, <2>2, WorkerGoesFlows
<1>8. CASE ExecuteFails(w)
  BY <1>1, <1>2, <1>3, <1>8, WorkerGoesFlows DEF ExecuteFails, QueueAndCallers
<1>9. CASE Decide(w)
  <2>1. /\ UNCHANGED <<runs, jobs, covered>>
        /\ \/ WorkerGoes(w, "failRun") \/ Settling(w, "retry")
           \/ Settling(w, "fail") /\ runs[TheRun(w)] # "queued"
    BY <1>9 DEF Decide, QueueAndCallers
  <2> QED
    BY <1>1, <1>2, <1>3, <2>1, WorkerGoesFlows, NotQueuedStarted
<1>10. CASE FailRun(w)
  <2>1. UNCHANGED <<jobs, covered>>
    BY <1>10 DEF FailRun, QueueAndCallers
  <2>2. CASE Finish(TheRun(w), "failed") /\ Settling(w, "fail")
    <3>1. (\A r \in Run : RunFlows(r)) /\ runs'[TheRun(w)] = "failed"
      BY <1>1, <2>2, FinishFlows DEF Ended
    <3> QED
      BY <1>1, <1>3, <2>1, <2>2, <3>1, WorkerGoesFlows DEF Started, Ended
  <2>3. CASE UNCHANGED runs /\ worker' = [worker EXCEPT ![w] = IdleWorker]
    BY <1>1, <1>2, <1>3, <2>1, <2>3, WorkerGoesFlows
  <2> QED
    BY <1>10, <2>2, <2>3 DEF FailRun
<1>11. CASE Settle(w)
  <2>1. UNCHANGED <<runs, covered>> /\ worker' = [worker EXCEPT ![w] = IdleWorker]
    BY <1>11 DEF Settle
  <2>2. CASE UNCHANGED jobs
    BY <1>1, <1>2, <1>3, <2>1, <2>2, WorkerGoesFlows
  <2>3. CASE /\ Holds(w)
             /\ jobs' = [jobs EXCEPT ![worker[w].job] = Settled(worker[w].job, worker[w].op)]
    <3>1. /\ jobs[worker[w].job] \in JobRecord /\ jobs[worker[w].job].state = "queued"
          /\ worker[w].op \in {"complete", "retry", "fail"}
      BY <1>1, <2>3, InvParts DEF JobsOK, Holds, Live, WorkerTypes, WorkerRecord
    <3>2. worker[w].op # "retry" => runs[TheRun(w)] \in Started
      BY <1>11 DEF Settle, TriggersInv, JobsLast
    <3>3. JobFlows(worker[w].job)
      BY <1>1, <2>3, <3>1, <3>2 DEF JobsOK, JobFlows, Settled, JobRecord, TheRun
    <3>4. \A j \in JobId : JobFlows(j)
      BY <1>1, <2>3, <3>3 DEF JobsOK, JobFlows
    <3> QED
      BY <1>1, <1>2, <2>1, <3>4, WorkerGoesFlows
  <2> QED
    BY <1>11, <2>2, <2>3 DEF Settle
<1>12. CASE WorkerStops(w)
  BY <1>1, <1>2, <1>3, <1>12, WorkerGoesFlows DEF WorkerStops, QueueAndCallers
<1> QED
  BY <1>4, <1>5, <1>6, <1>7, <1>8, <1>9, <1>10, <1>11, <1>12 DEF WorkerSteps

LEMMA NextFlows ==
  ASSUME Manual = {}, DispatchInv, TriggersInv, [Next]_vars
  PROVE  TriggersFlow
<1>1. ASSUME NEW t \in Trigger, Arrive(t) PROVE TriggersFlow
  BY <1>1, ArriveFlows
<1>2. ASSUME NEW c \in Caller,
             \/ \E r \in Run : Dispatch(c, r)
             \/ CallerSteps(c) \/ PublishFails(c) \/ CallerStops(c)
      PROVE  TriggersFlow
  BY <1>2, DispatchFlows, LookFlows, CreateFlows, RequeueFlows, PublishFlows, CallerGivesUpFlows
     DEF CallerSteps
<1>3. ASSUME NEW w \in Worker,
             \/ \E j \in JobId : Claim(w, j)
             \/ WorkerSteps(w) \/ StartFails(w) \/ Shutdown(w) \/ ExecuteFails(w) \/ WorkerStops(w)
      PROVE  TriggersFlow
  BY <1>3, ClaimFlows, WorkerStepsFlow
<1>4. ASSUME NEW j \in JobId, LeaseEnds(j) PROVE TriggersFlow
  BY <1>4, LeaseEndsFlows
<1>5. CASE UNCHANGED vars
  BY <1>5 DEF vars, TriggersFlow, RunFlows, JobFlows, WorkerFlows, CallerFlows, AnswerFlows, Arrived
<1> QED
  BY <1>1, <1>2, <1>3, <1>4, <1>5, EnqueueLandsFlows DEF Next

LEMMA TriggersInit ==
  ASSUME Init
  PROVE  TriggersInv
<1>1. /\ \A r \in Run : runs[r] = "absent" /\ promised[r] = {}
      /\ \A j \in JobId : jobs[j].state = "absent"
      /\ \A c \in Caller : caller[c].pc = "idle"
      /\ \A w \in Worker : worker[w].pc = "idle"
  BY DEF Init, AbsentJob, IdleCaller, IdleWorker
<1> QED
  BY <1>1 DEF TriggersInv, RunsPublished, JobsLast, AnswersHaveJobs, OnlyArrived, StartsCover, SurelyStarted

LEMMA TriggersInvariant ==
  ASSUME Manual = {}
  PROVE  Spec => []TriggersInv
<1>1. Init => TriggersInv
  BY TriggersInit
<1>2. DispatchInv /\ TriggersInv /\ [Next]_vars => TriggersInv'
  BY NextFlows, TriggersKeep
<1> QED
  BY <1>1, <1>2, Invariant, PTL DEF Spec

\* When every run belongs to an automatic trigger, a request answered with a run
\* that waits can rely on a job in the queue, whatever calls failed, processes
\* died, leases ended and triggers were redelivered between the two systems
\* (run-dispatch.ts persists before it publishes and publishes again for a queued
\* run; worker.ts, failUnstartedRun, ends no job of a run that waits).
THEOREM AnswersAreBacked ==
  ASSUME Manual = {}
  PROVE  Spec => []AnsweredRunHasJob
<1>1. TriggersInv => AnsweredRunHasJob
  BY DEF TriggersInv, AnswersHaveJobs, AnsweredRunHasJob
<1> QED
  BY <1>1, TriggersInvariant, PTL

\* When every run belongs to an automatic trigger, no acknowledged trigger is
\* lost: a run started after it arrived, waits with a job, or failed before it
\* could start (run-dispatch.ts, findQueuedSyncRun: a waiting run "already covers
\* a trigger that arrives now").
THEOREM TriggersCovered ==
  ASSUME Manual = {}
  PROVE  Spec => []TriggersAreCovered
<1>1. DispatchInv /\ TriggersInv => TriggersAreCovered
  <2> SUFFICES ASSUME DispatchInv, TriggersInv, NEW t \in Trigger, promised[t] # {}
               PROVE  \/ t \in covered
                      \/ \E r \in promised[t] : runs[r] = "failed" \/ (runs[r] = "queued" /\ HasJob(r))
    BY DEF TriggersAreCovered
  <2>1. t \in Run /\ promised[t] \subseteq Run
    BY InvParts DEF Run, CallerTypes
  <2>2. PICK r \in Run : r \in promised[t]
    BY <2>1
  <2>3. runs[r] \in SurelyStarted \/ runs[r] \in {"queued", "failed"}
    BY <2>1, <2>2, InvParts
       DEF TriggersInv, RunsPublished, AnswersHaveJobs, RunsOK, Status, Ended, SurelyStarted
  <2>4. runs[r] \in SurelyStarted => t \in covered
    BY <2>1, <2>2 DEF TriggersInv, StartsCover
  <2>5. runs[r] = "queued" => HasJob(r)
    BY <2>1, <2>2 DEF TriggersInv, AnswersHaveJobs
  <2> QED
    BY <2>2, <2>3, <2>4, <2>5
<1> QED
  BY <1>1, Invariant, TriggersInvariant, PTL
=============================================================================
