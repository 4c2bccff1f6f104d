------------------------ MODULE ProjectionRunsProofs ------------------------
(***************************************************************************)
(* Proofs about ProjectionRuns for any versions, refused versions, job     *)
(* slots and faults: types, that run records, candidates and ontology      *)
(* commits agree, and that changes are applied to the version they were    *)
(* computed from.                                                          *)
(***************************************************************************)
EXTENDS ProjectionRuns, TLAPS

USE ProjectionRunsAssumption

-----------------------------------------------------------------------------
(* The inductive invariant *)

Pc == {"idle", "read", "start", "check", "supersede", "base", "prepare",
       "commit", "finish", "caught", "fail", "decide", "settle"}

WorkerRecord == [pc : Pc, run : 0..MaxVersion, base : 0..MaxVersion, expected : 0..MaxVersion,
                 op : {"complete", "fail", "retry", "failed", "fenced"}]

\* A delivery under way has a run, one that is about to commit was prepared for a
\* source that is not newer, and an error ends a run only without success.
Sound(s) == /\ s \in WorkerRecord
            /\ s.pc # "idle" => s.run \in Version
            /\ s.pc = "commit" => s.expected <= s.run
            /\ s.pc = "caught" => s.op \in {"retry", "failed", "fenced"}
            /\ s.pc = "fail" => s.op \in {"failed", "fenced"}

WorkersOK == worker \in [Worker -> {s \in WorkerRecord : Sound(s)}]

RunStatus == {"absent", "queued", "running"} \cup Ended

RecordsOK == /\ runs \in [Version -> RunStatus]
             /\ holder \in [Version -> Worker \cup {NoWorker}]

QueueOK == /\ jobs \in [Version -> {"absent", "queued", "gone"}]
           /\ lease \in [Version -> Worker \cup {NoWorker}]

SourceOK == /\ staged \in [Version -> NoCandidate..MaxVersion]
            /\ commits \subseteq Version /\ active \in 0..MaxVersion

\* The commit of a run releases its candidate for good.
Released == \A v \in commits : staged[v] = NoCandidate

RunsInv == /\ RecordsOK /\ QueueOK /\ SourceOK /\ WorkersOK /\ faults \in 0..MaxFaults
           /\ RecordsTellTheSource /\ Released

LEMMA InvType == RunsInv => RunsTypeOK
<1>1. WorkersOK => worker \in [Worker -> WorkerRecord]
  BY DEF WorkersOK
<1> QED  BY <1>1 DEF RunsInv, RunsTypeOK, RecordsOK, QueueOK, SourceOK, WorkerRecord, Pc, RunStatus

-----------------------------------------------------------------------------
(* The steps of a delivery *)

LEMMA WorkerStays ==
  ASSUME WorkersOK, NEW w \in Worker
  PROVE  Sound(worker[w]) /\ worker[w] \in WorkerRecord
  BY DEF WorkersOK

LEMMA WorkerBecomes ==
  ASSUME WorkersOK, NEW w \in Worker, NEW s, Sound(s), worker' = [worker EXCEPT ![w] = s]
  PROVE  WorkersOK'
  BY DEF WorkersOK, Sound

LEMMA GotoStays ==
  ASSUME WorkersOK, NEW w \in Worker, NEW pc \in Pc \ {"commit", "caught", "fail"},
         worker[w].pc # "idle", Goto(w, pc)
  PROVE  WorkersOK'
<1> DEFINE s == [worker[w] EXCEPT !.pc = pc]
<1>1. Sound(worker[w]) /\ worker[w] \in WorkerRecord
  BY WorkerStays
<1>2. s \in WorkerRecord /\ s.pc = pc /\ s.run = worker[w].run
  BY <1>1 DEF WorkerRecord
<1>3. Sound(s)
  BY <1>1, <1>2 DEF Sound
<1>4. worker' = [worker EXCEPT ![w] = s]
  BY DEF Goto
<1> QED  BY <1>3, <1>4, WorkerBecomes

LEMMA SettlingStays ==
  ASSUME WorkersOK, NEW w \in Worker, NEW op \in {"complete", "fail", "retry"},
         worker[w].pc # "idle", Settling(w, op)
  PROVE  WorkersOK'
<1> DEFINE s == Fresh("settle", worker[w].run, op)
<1>1. worker[w].run \in Version /\ worker[w].run \in 0..MaxVersion
  BY WorkerStays DEF Sound, Version
<1>2. s = [pc |-> "settle", run |-> worker[w].run, base |-> 0, expected |-> 0, op |-> op]
  BY DEF Fresh, FullRead
<1>3. s \in WorkerRecord
  BY <1>1, <1>2 DEF WorkerRecord, Pc
<1>4. Sound(s)
  BY <1>1, <1>2, <1>3 DEF Sound
<1>5. worker' = [worker EXCEPT ![w] = s]
  BY DEF Settling
<1> QED  BY <1>4, <1>5, WorkerBecomes

LEMMA ThrowStays ==
  ASSUME WorkersOK, NEW w \in Worker, NEW op \in {"retry", "failed", "fenced"},
         worker[w].pc # "idle", Throw(w, op)
  PROVE  WorkersOK'
<1> DEFINE s == Fresh("caught", worker[w].run, op)
<1>1. worker[w].run \in Version /\ worker[w].run \in 0..MaxVersion
  BY WorkerStays DEF Sound, Version
<1>2. s = [pc |-> "caught", run |-> worker[w].run, base |-> 0, expected |-> 0, op |-> op]
  BY DEF Fresh, FullRead
<1>3. s \in WorkerRecord
  BY <1>1, <1>2 DEF WorkerRecord, Pc
<1>4. Sound(s)
  BY <1>1, <1>2, <1>3 DEF Sound
<1>5. worker' = [worker EXCEPT ![w] = s]
  BY DEF Throw
<1> QED  BY <1>4, <1>5, WorkerBecomes

LEMMA IdleStays ==
  ASSUME WorkersOK, NEW w \in Worker, worker' = [worker EXCEPT ![w] = IdleWorker]
  PROVE  WorkersOK'
<1>1. Sound(IdleWorker)
  BY DEF Sound, WorkerRecord, Pc, IdleWorker, Fresh, FullRead
<1> QED  BY <1>1, WorkerBecomes

-----------------------------------------------------------------------------
(* What a step may do to the parts of the state *)

\* A step that leaves records and source alone keeps what relates them.
LEMMA Unmoved ==
  ASSUME RunsInv, UNCHANGED <<runs, holder, staged, commits, active>>,
         QueueOK', WorkersOK', faults' \in 0..MaxFaults
  PROVE  RunsInv'
  BY DEF RunsInv, RecordsOK, QueueOK, SourceOK, RecordsTellTheSource, Released

LEMMA FaultStays ==
  ASSUME RunsInv, Fault \/ UNCHANGED faults
  PROVE  faults' \in 0..MaxFaults
  BY DEF RunsInv, Fault

LEMMA QueueKept ==
  ASSUME RunsInv, UNCHANGED queueVars
  PROVE  QueueOK'
  BY DEF RunsInv, QueueOK, queueVars

\* Starting a run, ending it, committing and succeeding keep the agreement.
LEMMA StartKeeps ==
  ASSUME RunsInv, NEW w \in Worker, worker[w].run \in Version, StartTx(w),
         UNCHANGED <<staged, commits, active>>, QueueOK', WorkersOK', faults' \in 0..MaxFaults
  PROVE  RunsInv'
<1>1. RecordsOK'
  BY DEF RunsInv, RecordsOK, StartTx, RunStatus
<1>2. RecordsTellTheSource' /\ Released'
  BY DEF RunsInv, RecordsOK, SourceOK, RecordsTellTheSource, Released, StartTx
<1> QED  BY <1>1, <1>2 DEF RunsInv, SourceOK

LEMMA EndKeeps ==
  ASSUME RunsInv, NEW w \in Worker, worker[w].run \in Version,
         NEW status \in Ended \ {"succeeded"}, End(w, status),
         UNCHANGED <<holder, commits, active>>, QueueOK', WorkersOK', faults' \in 0..MaxFaults
  PROVE  RunsInv'
<1>1. RecordsOK'
  BY DEF RunsInv, RecordsOK, End, RunStatus
<1>2. SourceOK'
  BY DEF RunsInv, SourceOK, End, NoCandidate
<1>3. RecordsTellTheSource' /\ Released'
  BY DEF RunsInv, RecordsOK, SourceOK, RecordsTellTheSource, Released, End, CanEnd
<1> QED  BY <1>1, <1>2, <1>3 DEF RunsInv

LEMMA SucceedKeeps ==
  ASSUME RunsInv, NEW w \in Worker, worker[w].run \in Version, Succeed(w),
         UNCHANGED <<holder, staged, commits, active>>,
         QueueOK', WorkersOK', faults' \in 0..MaxFaults
  PROVE  RunsInv'
<1>1. RecordsOK'
  BY DEF RunsInv, RecordsOK, Succeed, RunStatus, Ended, Settled
<1>2. RecordsTellTheSource' /\ Released'
  BY DEF RunsInv, RecordsOK, SourceOK, RecordsTellTheSource, Released, Succeed, CanSucceed
<1> QED  BY <1>1, <1>2 DEF RunsInv, SourceOK

\* A commit that meets no conflict replaces a version that is not newer.
LEMMA CommitIsNewest ==
  ASSUME RunsInv, NEW w \in Worker, worker[w].pc = "commit", CanCommit(w)
  PROVE  active <= worker[w].run
<1>1. worker[w].run \in Version /\ worker[w].expected <= worker[w].run
  BY WorkerStays DEF RunsInv, Sound
<1>2. active \in Int /\ worker[w].run \in Int
  BY <1>1 DEF RunsInv, SourceOK, Version
<1>3. CASE worker[w].base = FullRead
  <2>1. active = worker[w].expected
    BY <1>3 DEF CanCommit, Conflict
  <2> QED  BY <1>1, <2>1
<1>4. CASE worker[w].base # FullRead
  <2>1. ~Stale(worker[w].run)
    BY <1>4 DEF CanCommit, Conflict
  <2> QED  BY <1>2, <2>1 DEF Stale
<1> QED  BY <1>3, <1>4

LEMMA ActivateKeeps ==
  ASSUME RunsInv, NEW w \in Worker, worker[w].pc = "commit", CanCommit(w),
         Activate(worker[w].run), UNCHANGED <<runs, holder>>,
         QueueOK', WorkersOK', faults' \in 0..MaxFaults
  PROVE  RunsInv'
<1> DEFINE v == worker[w].run
<1>1. v \in Version /\ active <= v
  BY CommitIsNewest, WorkerStays DEF RunsInv, Sound
<1>2. runs[v] = "running"
  BY DEF CanCommit, HoldsToken
<1>3. /\ active' = v /\ commits' = commits \cup {v}
      /\ staged' = [staged EXCEPT ![v] = NoCandidate]
  BY DEF Activate
<1> HIDE DEF v
<1>4. SourceOK'
  BY <1>1, <1>3 DEF RunsInv, SourceOK, NoCandidate, Version
<1>5. \A u \in commits' : active' >= u
  BY <1>1, <1>3 DEF RunsInv, SourceOK, RecordsTellTheSource, Version
<1>6. RecordsTellTheSource'
  BY <1>1, <1>2, <1>3, <1>5 DEF RunsInv, SourceOK, RecordsOK, RecordsTellTheSource
<1>7. Released'
  BY <1>1, <1>3 DEF RunsInv, SourceOK, Released
<1> QED  BY <1>4, <1>6, <1>7 DEF RunsInv, RecordsOK

-----------------------------------------------------------------------------
(* One lemma per action *)

LEMMA ClaimPreserves ==
  ASSUME RunsInv, NEW w \in Worker, NEW v \in Version, Claim(w, v)
  PROVE  RunsInv'
<1> DEFINE s == Fresh("read", v, "complete")
<1>1. s = [pc |-> "read", run |-> v, base |-> 0, expected |-> 0, op |-> "complete"]
  BY DEF Fresh, FullRead
<1>2. Sound(s)
  BY <1>1 DEF Sound, WorkerRecord, Pc, Version
<1>3. worker' = [worker EXCEPT ![w] = s]
  BY DEF Claim
<1>4. WorkersOK'
  BY <1>2, <1>3, WorkerBecomes DEF RunsInv
<1>5. QueueOK'
  BY DEF RunsInv, QueueOK, Claim
<1> QED  BY <1>4, <1>5, Unmoved DEF Claim, RunsInv

LEMMA ReadPreserves ==
  ASSUME RunsInv, NEW w \in Worker, Read(w)
  PROVE  RunsInv'
<1>1. worker[w].pc # "idle" /\ UNCHANGED <<runs, holder, jobs, lease, staged, commits, active, faults>>
  BY DEF Read
<1>2. WorkersOK'
  BY <1>1, GotoStays, SettlingStays DEF Read, RunsInv, Pc
<1> QED  BY <1>1, <1>2, Unmoved, QueueKept DEF RunsInv, queueVars

LEMMA StartPreserves ==
  ASSUME RunsInv, NEW w \in Worker, Start(w)
  PROVE  RunsInv'
<1>1. worker[w].pc # "idle" /\ UNCHANGED <<jobs, lease, staged, commits, active, faults>>
  BY DEF Start
<1>2. worker[w].run \in Version
  BY <1>1, WorkerStays DEF RunsInv, Sound
<1>3. WorkersOK'
  BY <1>1, GotoStays, SettlingStays DEF Start, RunsInv, Pc
<1>4. QueueOK' /\ faults' \in 0..MaxFaults
  BY <1>1, QueueKept DEF RunsInv, queueVars
<1>5. CASE StartTx(w)
  BY <1>1, <1>2, <1>3, <1>4, <1>5, StartKeeps
<1>6. CASE UNCHANGED recordVars
  BY <1>1, <1>3, <1>4, <1>6, Unmoved DEF recordVars
<1> QED  BY <1>5, <1>6 DEF Start

LEMMA CheckPreserves ==
  ASSUME RunsInv, NEW w \in Worker, Check(w)
  PROVE  RunsInv'
<1>1. worker[w].pc # "idle" /\ UNCHANGED <<runs, holder, jobs, lease, staged, commits, active, faults>>
  BY DEF Check
<1>2. WorkersOK'
  BY <1>1, GotoStays DEF Check, RunsInv, Pc
<1> QED  BY <1>1, <1>2, Unmoved, QueueKept DEF RunsInv, queueVars

LEMMA SupersedePreserves ==
  ASSUME RunsInv, NEW w \in Worker, Supersede(w)
  PROVE  RunsInv'
<1>1. worker[w].pc # "idle" /\ UNCHANGED <<holder, jobs, lease, commits, active, faults>>
  BY DEF Supersede
<1>2. worker[w].run \in Version
  BY <1>1, WorkerStays DEF RunsInv, Sound
<1>3. WorkersOK'
  BY <1>1, GotoStays, SettlingStays DEF Supersede, RunsInv, Pc
<1>4. QueueOK' /\ faults' \in 0..MaxFaults
  BY <1>1, QueueKept DEF RunsInv, queueVars
<1>5. CASE End(w, "superseded")
  BY <1>1, <1>2, <1>3, <1>4, <1>5, EndKeeps DEF Ended, Settled
<1>6. CASE UNCHANGED <<runs, staged>>
  BY <1>1, <1>3, <1>4, <1>6, Unmoved
<1> QED  BY <1>5, <1>6 DEF Supersede

LEMMA ChooseBasePreserves ==
  ASSUME RunsInv, NEW w \in Worker, ChooseBase(w)
  PROVE  RunsInv'
<1>1. worker[w].pc # "idle" /\ UNCHANGED <<runs, holder, jobs, lease, staged, commits, active, faults>>
  BY DEF ChooseBase
<1>2. PICK base \in {FullRead, active} :
        worker' = [worker EXCEPT ![w].pc = "prepare", ![w].base = base]
  BY DEF ChooseBase
<1> DEFINE s == [[worker[w] EXCEPT !.pc = "prepare"] EXCEPT !.base = base]
<1>3. base \in 0..MaxVersion
  BY <1>2 DEF FullRead, RunsInv, SourceOK
<1>4. Sound(worker[w]) /\ worker[w] \in WorkerRecord
  BY WorkerStays DEF RunsInv
<1>5. s \in WorkerRecord /\ s.pc = "prepare" /\ s.run = worker[w].run
  BY <1>3, <1>4 DEF WorkerRecord, Pc
<1>6. Sound(s)
  BY <1>1, <1>4, <1>5 DEF Sound
<1>7. worker' = [worker EXCEPT ![w] = s]
  BY <1>2, <1>4 DEF RunsInv, WorkersOK, WorkerRecord
<1>8. WorkersOK'
  BY <1>6, <1>7, WorkerBecomes DEF RunsInv
<1> QED  BY <1>1, <1>8, Unmoved, QueueKept DEF RunsInv, queueVars

\* A candidate is staged, or abandoned, for a run that is running.
LEMMA StagedKeeps ==
  ASSUME RunsInv, NEW w \in Worker, worker[w].run \in Version, CanStage(w),
         NEW base \in NoCandidate..MaxVersion, staged' = Staged(worker[w].run, base),
         UNCHANGED <<runs, holder, commits, active>>,
         QueueOK', WorkersOK', faults' \in 0..MaxFaults
  PROVE  RunsInv'
<1> DEFINE v == worker[w].run
<1>1. runs[v] = "running" /\ v \notin commits
  BY DEF CanStage, HoldsToken
<1>2. staged' = [staged EXCEPT ![v] = base]
  BY DEF Staged
<1> HIDE DEF v
<1>3. SourceOK'
  BY <1>2 DEF RunsInv, SourceOK
<1>4. RecordsTellTheSource' /\ Released'
  BY <1>1, <1>2 DEF RunsInv, SourceOK, RecordsTellTheSource, Released
<1> QED  BY <1>3, <1>4 DEF RunsInv, RecordsOK

\* Preparing stages a candidate of a running run, for a source that is not newer.
LEMMA PreparePreserves ==
  ASSUME RunsInv, NEW w \in Worker, Prepare(w)
  PROVE  RunsInv'
<1> DEFINE v == worker[w].run
<1>1. worker[w].pc # "idle" /\ UNCHANGED <<runs, holder, jobs, lease, commits, active, faults>>
  BY DEF Prepare
<1>2. Sound(worker[w]) /\ worker[w] \in WorkerRecord /\ v \in Version
  BY <1>1, WorkerStays DEF RunsInv, Sound
<1>3. QueueOK' /\ faults' \in 0..MaxFaults
  BY <1>1, QueueKept DEF RunsInv, queueVars
<1>4. CASE UNCHANGED staged /\ (Throw(w, "retry") \/ Throw(w, "fenced") \/ Goto(w, "finish"))
  <2>1. WorkersOK'
    BY <1>1, <1>4, ThrowStays, GotoStays DEF RunsInv, Pc
  <2> QED  BY <1>1, <1>3, <1>4, <2>1, Unmoved
<1>5. CASE /\ CanStage(w) /\ staged' = Staged(v, worker[w].base)
           /\ \/ Throw(w, "failed")
              \/ worker' = [worker EXCEPT ![w].pc = "commit", ![w].expected = active]
  <2>1. WorkersOK'
    <3>1. CASE Throw(w, "failed")
      BY <1>1, <3>1, ThrowStays DEF RunsInv
    <3>2. CASE worker' = [worker EXCEPT ![w].pc = "commit", ![w].expected = active]
      <4> DEFINE s == [[worker[w] EXCEPT !.pc = "commit"] EXCEPT !.expected = active]
      <4>1. active \in 0..MaxVersion /\ active <= v
        BY <1>2, <1>5 DEF RunsInv, SourceOK, CanStage, Stale, Version
      <4>2. s \in WorkerRecord /\ s.pc = "commit" /\ s.run = v /\ s.expected = active
        BY <1>2, <4>1 DEF WorkerRecord, Pc
      <4>3. Sound(s)
        BY <1>2, <4>1, <4>2 DEF Sound
      <4>4. worker' = [worker EXCEPT ![w] = s]
        BY <1>2, <3>2 DEF RunsInv, WorkersOK, WorkerRecord
      <4> QED  BY <4>3, <4>4, WorkerBecomes DEF RunsInv
    <3> QED  BY <1>5, <3>1, <3>2
  <2>2. worker[w].base \in NoCandidate..MaxVersion
    BY <1>2 DEF WorkerRecord, NoCandidate
  <2> QED  BY <1>1, <1>2, <1>3, <1>5, <2>1, <2>2, StagedKeeps
<1> QED  BY <1>4, <1>5 DEF Prepare

LEMMA CommitPreserves ==
  ASSUME RunsInv, NEW w \in Worker, Commit(w)
  PROVE  RunsInv'
<1>1. worker[w].pc = "commit" /\ UNCHANGED <<runs, holder, jobs, lease, faults>>
  BY DEF Commit
<1>2. QueueOK' /\ faults' \in 0..MaxFaults
  BY <1>1, QueueKept DEF RunsInv, queueVars
<1>3. ~CanCommit(w) /\ HoldsToken(w, worker[w].run) /\ worker[w].run \notin commits
      => Conflict(w) \in {"retry", "fenced"}
  BY DEF CanCommit, Conflict
<1>4. WorkersOK'
  BY <1>1, <1>3, ThrowStays, GotoStays DEF Commit, RunsInv, Pc
<1>5. CASE CanCommit(w) /\ Activate(worker[w].run)
  BY <1>1, <1>2, <1>4, <1>5, ActivateKeeps
<1>6. CASE UNCHANGED sourceVars
  BY <1>1, <1>2, <1>4, <1>6, Unmoved DEF sourceVars
<1> QED  BY <1>5, <1>6 DEF Commit

LEMMA FinishPreserves ==
  ASSUME RunsInv, NEW w \in Worker, Finish(w)
  PROVE  RunsInv'
<1>1. worker[w].pc # "idle" /\ UNCHANGED <<holder, jobs, lease, staged, commits, active, faults>>
  BY DEF Finish
<1>2. worker[w].run \in Version
  BY <1>1, WorkerStays DEF RunsInv, Sound
<1>3. WorkersOK'
  BY <1>1, ThrowStays, SettlingStays DEF Finish, RunsInv
<1>4. QueueOK' /\ faults' \in 0..MaxFaults
  BY <1>1, QueueKept DEF RunsInv, queueVars
<1>5. CASE Succeed(w)
  BY <1>1, <1>2, <1>3, <1>4, <1>5, SucceedKeeps
<1>6. CASE UNCHANGED runs
  BY <1>1, <1>3, <1>4, <1>6, Unmoved
<1> QED  BY <1>5, <1>6 DEF Finish

LEMMA CaughtPreserves ==
  ASSUME RunsInv, NEW w \in Worker, Caught(w)
  PROVE  RunsInv'
<1>1. worker[w].pc = "caught" /\ UNCHANGED <<runs, holder, jobs, lease, staged, commits, active, faults>>
  BY DEF Caught
<1>2. Sound(worker[w]) /\ worker[w] \in WorkerRecord
  BY WorkerStays DEF RunsInv
<1>3. WorkersOK'
  <2>1. CASE Settling(w, "complete")
    BY <1>1, <2>1, SettlingStays DEF RunsInv
  <2>2. CASE worker[w].op = "retry" /\ Goto(w, "decide")
    BY <1>1, <2>2, GotoStays DEF RunsInv, Pc
  <2>3. CASE worker[w].op # "retry" /\ Goto(w, "fail")
    <3> DEFINE s == [worker[w] EXCEPT !.pc = "fail"]
    <3>1. s \in WorkerRecord /\ s.pc = "fail" /\ s.run = worker[w].run /\ s.op = worker[w].op
      BY <1>2 DEF WorkerRecord, Pc
    <3>2. Sound(s)
      BY <1>1, <1>2, <2>3, <3>1 DEF Sound
    <3>3. worker' = [worker EXCEPT ![w] = s]
      BY <2>3 DEF Goto
    <3> QED  BY <3>2, <3>3, WorkerBecomes DEF RunsInv
  <2> QED  BY <2>1, <2>2, <2>3 DEF Caught
<1> QED  BY <1>1, <1>3, Unmoved, QueueKept DEF RunsInv, queueVars

LEMMA FailPreserves ==
  ASSUME RunsInv, NEW w \in Worker, Fail(w)
  PROVE  RunsInv'
<1>1. worker[w].pc = "fail" /\ UNCHANGED <<holder, jobs, lease, commits, active, faults>>
  BY DEF Fail
<1>2. worker[w].run \in Version /\ worker[w].op \in {"failed", "fenced"}
  BY <1>1, WorkerStays DEF RunsInv, Sound
<1>3. WorkersOK'
  BY <1>1, GotoStays DEF Fail, RunsInv, Pc
<1>4. QueueOK' /\ faults' \in 0..MaxFaults
  BY <1>1, QueueKept DEF RunsInv, queueVars
<1>5. CASE End(w, worker[w].op)
  BY <1>1, <1>2, <1>3, <1>4, <1>5, EndKeeps DEF Ended, Settled
<1>6. CASE UNCHANGED <<runs, staged>>
  BY <1>1, <1>3, <1>4, <1>6, Unmoved
<1> QED  BY <1>5, <1>6 DEF Fail

LEMMA DecidePreserves ==
  ASSUME RunsInv, NEW w \in Worker, Decide(w)
  PROVE  RunsInv'
<1>1. worker[w].pc # "idle" /\ UNCHANGED <<runs, holder, jobs, lease, staged, commits, active, faults>>
  BY DEF Decide
<1>2. WorkersOK'
  BY <1>1, SettlingStays DEF Decide, RunsInv
<1> QED  BY <1>1, <1>2, Unmoved, QueueKept DEF RunsInv, queueVars

LEMMA SettlePreserves ==
  ASSUME RunsInv, NEW w \in Worker, Settle(w)
  PROVE  RunsInv'
<1>1. UNCHANGED <<runs, holder, staged, commits, active, faults>>
  BY DEF Settle
<1>2. WorkersOK'
  BY IdleStays DEF Settle, RunsInv
<1>3. QueueOK'
  BY DEF Settle, RunsInv, QueueOK, queueVars
<1> QED  BY <1>1, <1>2, <1>3, Unmoved DEF RunsInv

LEMMA LeaseEndsPreserves ==
  ASSUME RunsInv, NEW v \in Version, LeaseEnds(v)
  PROVE  RunsInv'
<1>1. UNCHANGED <<runs, holder, jobs, staged, commits, active, worker>>
  BY DEF LeaseEnds
<1>2. faults' \in 0..MaxFaults
  BY FaultStays DEF LeaseEnds
<1>3. QueueOK' /\ WorkersOK'
  BY <1>1 DEF LeaseEnds, RunsInv, QueueOK, WorkersOK
<1> QED  BY <1>1, <1>2, <1>3, Unmoved

LEMMA CallFailsPreserves ==
  ASSUME RunsInv, NEW w \in Worker, CallFails(w)
  PROVE  RunsInv'
<1>1. worker[w].pc # "idle" /\ UNCHANGED <<jobs, lease, commits, active>>
  BY DEF CallFails
<1>2. worker[w].run \in Version
  BY <1>1, WorkerStays DEF RunsInv, Sound
<1>3. WorkersOK'
  BY <1>1, GotoStays DEF CallFails, RunsInv, Pc
<1>4. QueueOK' /\ faults' \in 0..MaxFaults
  BY <1>1, QueueKept, FaultStays DEF CallFails, queueVars
<1>5. CASE UNCHANGED <<runs, holder, staged>>
  BY <1>1, <1>3, <1>4, <1>5, Unmoved
<1>6. CASE StartTx(w) /\ UNCHANGED staged
  BY <1>1, <1>2, <1>3, <1>4, <1>6, StartKeeps
<1>7. CASE End(w, "superseded") /\ UNCHANGED holder
  BY <1>1, <1>2, <1>3, <1>4, <1>7, EndKeeps DEF Ended, Settled
<1> QED  BY <1>5, <1>6, <1>7 DEF CallFails

LEMMA AttemptFailsPreserves ==
  ASSUME RunsInv, NEW w \in Worker, AttemptFails(w)
  PROVE  RunsInv'
<1>1. worker[w].pc # "idle" /\ UNCHANGED <<holder, jobs, lease>>
  BY DEF AttemptFails
<1>2. worker[w].run \in Version
  BY <1>1, WorkerStays DEF RunsInv, Sound
<1>3. WorkersOK'
  BY <1>1, ThrowStays DEF AttemptFails, RunsInv
<1>4. QueueOK' /\ faults' \in 0..MaxFaults
  BY <1>1, QueueKept, FaultStays DEF AttemptFails, queueVars
<1>5. CASE UNCHANGED <<runs, staged, commits, active>>
  BY <1>1, <1>3, <1>4, <1>5, Unmoved
<1>6. CASE worker[w].pc = "commit" /\ CanCommit(w) /\ Activate(worker[w].run) /\ UNCHANGED runs
  BY <1>1, <1>3, <1>4, <1>6, ActivateKeeps
<1>7. CASE Succeed(w) /\ UNCHANGED <<staged, commits, active>>
  BY <1>1, <1>2, <1>3, <1>4, <1>7, SucceedKeeps
<1>8. CASE StagesPartly(w) /\ UNCHANGED <<runs, commits, active>>
  <2>1. worker[w].base \in NoCandidate..MaxVersion /\ NoCandidate \in NoCandidate..MaxVersion
    BY WorkerStays DEF RunsInv, WorkerRecord, NoCandidate
  <2> QED  BY <1>1, <1>2, <1>3, <1>4, <1>8, <2>1, StagedKeeps DEF StagesPartly
<1> QED  BY <1>5, <1>6, <1>7, <1>8 DEF AttemptFails

LEMMA WorkerStopsPreserves ==
  ASSUME RunsInv, NEW w \in Worker, WorkerStops(w)
  PROVE  RunsInv'
<1>1. UNCHANGED <<runs, holder, jobs, lease, staged, commits, active>>
  BY DEF WorkerStops
<1>2. faults' \in 0..MaxFaults
  BY FaultStays DEF WorkerStops
<1>3. WorkersOK'
  BY IdleStays DEF WorkerStops, RunsInv
<1> QED  BY <1>1, <1>2, <1>3, Unmoved, QueueKept DEF queueVars

LEMMA DispatchedPreserves ==
  ASSUME RunsInv, Dispatched
  PROVE  RunsInv'
<1>1. UNCHANGED <<holder, lease, staged, commits, active, worker>>
  BY DEF Dispatched, sourceVars
<1>2. faults' \in 0..MaxFaults
  BY FaultStays DEF Dispatched
<1>3. WorkersOK'
  BY <1>1 DEF RunsInv, WorkersOK
<1>4. CASE UNCHANGED <<runs, jobs>>
  BY <1>1, <1>2, <1>3, <1>4, Unmoved, QueueKept DEF queueVars
<1>5. CASE \E v \in Version : QueueRun(v) /\ UNCHANGED jobs
  <2>1. PICK v \in Version : QueueRun(v) /\ UNCHANGED jobs
    BY <1>5
  <2>2. RecordsOK' /\ QueueOK'
    BY <1>1, <2>1 DEF RunsInv, RecordsOK, QueueOK, QueueRun, RunStatus
  <2>3. RecordsTellTheSource' /\ Released'
    BY <1>1, <2>1 DEF RunsInv, RecordsOK, SourceOK, QueueRun, RecordsTellTheSource, Released
  <2> QED  BY <1>1, <1>2, <1>3, <2>2, <2>3 DEF RunsInv, SourceOK
<1>6. CASE \E v \in Version : Enqueue(v) /\ UNCHANGED runs
  <2>1. QueueOK'
    BY <1>1, <1>6 DEF RunsInv, QueueOK, Enqueue
  <2> QED  BY <1>1, <1>2, <1>3, <1>6, <2>1, Unmoved
<1> QED  BY <1>4, <1>5, <1>6 DEF Dispatched

-----------------------------------------------------------------------------
(* The theorems *)

LEMMA InitEstablishes == RunsInit => RunsInv
<1> SUFFICES ASSUME RunsInit PROVE RunsInv
  OBVIOUS
<1>1. Sound(IdleWorker)
  BY DEF Sound, WorkerRecord, Pc, IdleWorker, Fresh, FullRead
<1>2. WorkersOK
  BY <1>1 DEF RunsInit, WorkersOK, Sound
<1> QED
  BY <1>2 DEF RunsInit, RunsInv, RecordsOK, QueueOK, SourceOK, RunStatus, NoCandidate,
              RecordsTellTheSource, Released

LEMMA StepPreserves == RunsInv /\ [RunsNext]_runVars => RunsInv'
<1> SUFFICES ASSUME RunsInv, [RunsNext]_runVars PROVE RunsInv'
  OBVIOUS
<1>1. CASE UNCHANGED runVars
  BY <1>1 DEF runVars, RunsInv, RecordsOK, QueueOK, SourceOK, WorkersOK, RecordsTellTheSource, Released
<1>2. ASSUME NEW w \in Worker, NEW v \in Version, Claim(w, v) PROVE RunsInv'
  BY <1>2, ClaimPreserves
<1>3. ASSUME NEW w \in Worker, WorkerStep(w) PROVE RunsInv'
  BY <1>3, ReadPreserves, StartPreserves, CheckPreserves, SupersedePreserves, ChooseBasePreserves,
     PreparePreserves, CommitPreserves, FinishPreserves, CaughtPreserves, FailPreserves,
     DecidePreserves, SettlePreserves DEF WorkerStep
<1>4. ASSUME NEW w \in Worker, CallFails(w) \/ AttemptFails(w) \/ WorkerStops(w) PROVE RunsInv'
  BY <1>4, CallFailsPreserves, AttemptFailsPreserves, WorkerStopsPreserves
<1>5. ASSUME NEW v \in Version, LeaseEnds(v) PROVE RunsInv'
  BY <1>5, LeaseEndsPreserves
<1>6. CASE Dispatched
  BY <1>6, DispatchedPreserves
<1> QED  BY <1>1, <1>2, <1>3, <1>4, <1>5, <1>6 DEF RunsNext, WorkersNext

LEMMA Invariant == RunsSpec => []RunsInv
<1> QED  BY InitEstablishes, StepPreserves, PTL DEF RunsSpec

\* The run records, the queue, the source and the workers keep their types.
THEOREM TypeCorrect == RunsSpec => []RunsTypeOK
<1> QED  BY Invariant, InvType, PTL

\* Whatever is redelivered, reclaimed, late or lost, a run record says of its
\* commit what is so, candidates end with their run, and no version of the
\* dataset is replaced by an older one.
THEOREM RecordsAreTrue == RunsSpec => []RecordsTellTheSource
<1>1. RunsInv => RecordsTellTheSource
  BY DEF RunsInv
<1> QED  BY <1>1, Invariant, PTL

-----------------------------------------------------------------------------
(* Runs and their jobs *)

\* A job is published for a run that was recorded, and no run starts and no
\* delivery is under way before the run's job was published.
JobsInv == /\ \A v \in Version : /\ jobs[v] # "absent" => runs[v] # "absent"
                                 /\ jobs[v] = "absent" => runs[v] \in {"absent", "queued"}
           /\ \A w \in Worker : worker[w].pc # "idle" => jobs[worker[w].run] # "absent"

\* What a step of slot w may do to the run of version r, and to the slots.
RunMoves(r) == /\ runs \in [Version -> RunStatus] /\ runs' \in [Version -> RunStatus]
               /\ \A v \in Version \ {r} : runs'[v] = runs[v]
               /\ \/ runs'[r] = runs[r]
                  \/ runs[r] \in {"queued", "running"} /\ runs'[r] \notin {"absent", "queued"}

JobMoves(r) == \A v \in Version : jobs'[v] = jobs[v] \/ (v = r /\ jobs'[v] = "gone")

SlotMoves(w) == /\ \A x \in Worker \ {w} : worker'[x] = worker[x]
                /\ worker'[w].run = worker[w].run \/ worker'[w].pc = "idle"

LEMMA GotoMoves ==
  ASSUME WorkersOK, NEW w \in Worker, NEW pc, Goto(w, pc)
  PROVE  SlotMoves(w)
  BY WorkerStays DEF WorkersOK, WorkerRecord, Goto, SlotMoves

LEMMA FreshMoves ==
  ASSUME WorkersOK, NEW w \in Worker, NEW op, Settling(w, op) \/ Throw(w, op)
  PROVE  SlotMoves(w)
  BY DEF WorkersOK, Settling, Throw, Fresh, SlotMoves

LEMMA IdleMoves ==
  ASSUME WorkersOK, NEW w \in Worker, worker' = [worker EXCEPT ![w] = IdleWorker]
  PROVE  SlotMoves(w)
  BY DEF WorkersOK, IdleWorker, Fresh, SlotMoves

LEMMA RunStays ==
  ASSUME RunsInv, UNCHANGED runs, NEW r
  PROVE  RunMoves(r)
  BY DEF RunsInv, RecordsOK, RunMoves

LEMMA StartTxMoves ==
  ASSUME RunsInv, NEW w \in Worker, worker[w].run \in Version, StartTx(w)
  PROVE  RunMoves(worker[w].run)
  BY DEF RunsInv, RecordsOK, StartTx, RunMoves, RunStatus

LEMMA EndMoves ==
  ASSUME RunsInv, NEW w \in Worker, worker[w].run \in Version, NEW status \in Ended, End(w, status)
  PROVE  RunMoves(worker[w].run)
  BY DEF RunsInv, RecordsOK, End, CanEnd, HoldsToken, RunMoves, RunStatus, Ended, Settled

LEMMA SucceedMoves ==
  ASSUME RunsInv, NEW w \in Worker, worker[w].run \in Version, Succeed(w)
  PROVE  RunMoves(worker[w].run)
  BY DEF RunsInv, RecordsOK, Succeed, CanSucceed, HoldsToken, RunMoves, RunStatus, Ended, Settled

SlotStep(w) == WorkerStep(w) \/ CallFails(w) \/ AttemptFails(w) \/ WorkerStops(w)

LEMMA SlotStepMoves ==
  ASSUME RunsInv, NEW w \in Worker, SlotStep(w)
  PROVE  /\ worker[w].pc # "idle" /\ worker[w].run \in Version
         /\ RunMoves(worker[w].run) /\ JobMoves(worker[w].run) /\ SlotMoves(w)
<1> DEFINE r == worker[w].run
           Moves == RunMoves(r) /\ JobMoves(r) /\ SlotMoves(w)
<1> USE DEF RunsInv
<1>1. worker[w].pc # "idle"
  BY DEF SlotStep, WorkerStep, Read, Start, Check, Supersede, ChooseBase, Prepare, Commit, Finish,
         Caught, Fail, Decide, Settle, CallFails, AttemptFails, WorkerStops
<1>2. r \in Version
  BY <1>1, WorkerStays DEF Sound
<1> SUFFICES Moves
  BY <1>1, <1>2
<1>3. /\ UNCHANGED jobs => JobMoves(r)
      /\ UNCHANGED runs => RunMoves(r)
  BY RunStays DEF JobMoves
<1>4. CASE Read(w)
  BY <1>3, <1>4, GotoMoves, FreshMoves DEF Read
<1>5. CASE Start(w)
  BY <1>2, <1>3, <1>5, GotoMoves, FreshMoves, StartTxMoves DEF Start, recordVars
<1>6. CASE Check(w)
  BY <1>3, <1>6, GotoMoves DEF Check
<1>7. CASE Supersede(w)
  BY <1>2, <1>3, <1>7, GotoMoves, FreshMoves, EndMoves DEF Supersede, Ended, Settled
<1>8. CASE ChooseBase(w)
  <2>1. PICK base : worker' = [worker EXCEPT ![w].pc = "prepare", ![w].base = base]
    BY <1>8 DEF ChooseBase
  <2>2. SlotMoves(w)
    BY <2>1, WorkerStays DEF WorkersOK, WorkerRecord, SlotMoves
  <2> QED  BY <1>3, <1>8, <2>2 DEF ChooseBase
<1>9. CASE Prepare(w)
  <2>1. CASE worker' = [worker EXCEPT ![w].pc = "commit", ![w].expected = active]
    <3>1. SlotMoves(w)
      BY <2>1, WorkerStays DEF WorkersOK, WorkerRecord, SlotMoves
    <3> QED  BY <1>3, <1>9, <3>1 DEF Prepare
  <2>2. CASE Throw(w, "retry") \/ Throw(w, "fenced") \/ Throw(w, "failed") \/ Goto(w, "finish")
    <3>1. SlotMoves(w)
      BY <2>2, GotoMoves, FreshMoves
    <3> QED  BY <1>3, <1>9, <3>1 DEF Prepare
  <2> QED  BY <1>9, <2>1, <2>2 DEF Prepare
<1>10. CASE Commit(w)
  BY <1>3, <1>10, GotoMoves, FreshMoves DEF Commit
<1>11. CASE Finish(w)
  BY <1>2, <1>3, <1>11, FreshMoves, SucceedMoves DEF Finish
<1>12. CASE Caught(w)
  BY <1>3, <1>12, GotoMoves, FreshMoves DEF Caught
<1>13. CASE Fail(w)
  <2>1. worker[w].op \in Ended
    BY <1>13, WorkerStays DEF Fail, Sound, Ended
  <2> QED  BY <1>2, <1>3, <1>13, <2>1, GotoMoves, EndMoves DEF Fail
<1>14. CASE Decide(w)
  BY <1>3, <1>14, FreshMoves DEF Decide
<1>15. CASE Settle(w)
  <2>1. JobMoves(r)
    BY <1>2, <1>15 DEF Settle, JobMoves, QueueOK, queueVars
  <2> QED  BY <1>3, <1>15, <2>1, IdleMoves DEF Settle
<1>16. CASE CallFails(w)
  BY <1>2, <1>3, <1>16, GotoMoves, StartTxMoves, EndMoves DEF CallFails, Ended, Settled
<1>17. CASE AttemptFails(w)
  BY <1>2, <1>3, <1>17, FreshMoves, SucceedMoves DEF AttemptFails
<1>18. CASE WorkerStops(w)
  BY <1>3, <1>18, IdleMoves DEF WorkerStops
<1> QED
  BY <1>1, <1>2, <1>4, <1>5, <1>6, <1>7, <1>8, <1>9, <1>10, <1>11, <1>12, <1>13, <1>14, <1>15,
     <1>16, <1>17, <1>18 DEF SlotStep, WorkerStep

\* A worker neither makes a run nor forgets one.
LEMMA WorkersKeepRuns ==
  ASSUME RunsInv, WorkersNext, NEW v \in Version
  PROVE  (runs'[v] = "absent") <=> (runs[v] = "absent")
<1>1. CASE UNCHANGED runs
  BY <1>1
<1>2. ASSUME NEW w \in Worker, SlotStep(w) PROVE (runs'[v] = "absent") <=> (runs[v] = "absent")
  BY <1>2, SlotStepMoves DEF RunMoves
<1> QED  BY <1>1, <1>2 DEF WorkersNext, SlotStep, Claim, LeaseEnds

LEMMA JobsPreserved ==
  ASSUME RunsInv, JobsInv, [RunsNext]_runVars
  PROVE  JobsInv'
<1>1. CASE UNCHANGED <<runs, jobs, worker>>
  BY <1>1 DEF JobsInv
<1>2. ASSUME NEW w \in Worker, NEW v \in Version, Claim(w, v) PROVE JobsInv'
  <2>1. worker' = [worker EXCEPT ![w] = Fresh("read", v, "complete")] /\ UNCHANGED <<runs, jobs>>
    BY <1>2 DEF Claim
  <2>2. worker'[w].run = v /\ jobs[v] # "absent"
    BY <1>2, <2>1 DEF Claim, Fresh, RunsInv, WorkersOK
  <2>3. \A x \in Worker \ {w} : worker'[x] = worker[x]
    BY <2>1 DEF RunsInv, WorkersOK
  <2> QED  BY <2>1, <2>2, <2>3 DEF JobsInv
<1>3. ASSUME NEW w \in Worker, SlotStep(w) PROVE JobsInv'
  <2> DEFINE r == worker[w].run
  <2>1. /\ worker[w].pc # "idle" /\ r \in Version
        /\ RunMoves(r) /\ JobMoves(r) /\ SlotMoves(w)
    BY <1>3, SlotStepMoves
  <2>2. jobs[r] # "absent" /\ runs[r] # "absent"
    BY <2>1 DEF JobsInv
  <2>3. ASSUME NEW v \in Version
        PROVE /\ jobs'[v] # "absent" => runs'[v] # "absent"
              /\ jobs'[v] = "absent" => runs'[v] \in {"absent", "queued"}
    BY <2>1, <2>2, <2>3 DEF JobsInv, RunMoves, JobMoves
  <2>4. ASSUME NEW x \in Worker, worker'[x].pc # "idle" PROVE jobs'[worker'[x].run] # "absent"
    <3>1. worker'[x].run = worker[x].run /\ worker[x].pc # "idle"
      BY <2>1, <2>4 DEF SlotMoves
    <3>2. worker[x].run \in Version
      BY <3>1, WorkerStays DEF RunsInv, Sound
    <3> QED  BY <2>1, <3>1, <3>2 DEF JobsInv, JobMoves
  <2> QED  BY <2>3, <2>4 DEF JobsInv
<1>4. CASE Dispatched
  <2>1. UNCHANGED worker
    BY <1>4 DEF Dispatched
  <2>2. \A w \in Worker : worker[w].pc # "idle" => worker[w].run \in Version
    BY WorkerStays DEF RunsInv, Sound
  <2>3. CASE \E v \in Version : QueueRun(v) /\ UNCHANGED jobs
    BY <2>1, <2>3 DEF JobsInv, QueueRun, RunsInv, RecordsOK
  <2>4. CASE \E v \in Version : runs[v] = "queued" /\ Enqueue(v) /\ UNCHANGED runs
    <3>1. PICK v \in Version : runs[v] = "queued" /\ Enqueue(v)
      BY <2>4
    <3>2. \A u \in Version : jobs'[u] = jobs[u] \/ (u = v /\ jobs'[u] = "queued")
      BY <3>1 DEF Enqueue, RunsInv, QueueOK
    <3> QED  BY <2>1, <2>2, <2>4, <3>1, <3>2 DEF JobsInv
  <2> QED  BY <1>1, <1>4, <2>1, <2>3, <2>4 DEF Dispatched
<1> QED  BY <1>1, <1>2, <1>3, <1>4 DEF RunsNext, WorkersNext, SlotStep, LeaseEnds, runVars

LEMMA JobsInit == RunsInit => JobsInv
  BY DEF RunsInit, JobsInv, IdleWorker, Fresh

-----------------------------------------------------------------------------
(* Candidates and the source *)

\* A worker about to commit, whose token is still the run's, left the run's
\* candidate with the base it has itself.
FitInv ==
  \A w \in Worker :
    /\ worker[w].pc = "commit"
    /\ HoldsToken(w, worker[w].run) /\ worker[w].run \notin commits
    => staged[worker[w].run] = worker[w].base

\* What a step of slot w may do to tokens, commits and candidates: nobody else
\* gains a token, no commit goes, and a candidate moves only under its token or
\* with its run's commit.
TokenMoves(w) ==
  /\ \A x \in Worker \ {w}, v \in Version : HoldsToken(x, v)' => HoldsToken(x, v)
  /\ commits \subseteq commits'
  /\ \A v \in Version : staged'[v] = staged[v] \/ HoldsToken(w, v) \/ v \in commits'

\* A slot goes to its commit only by preparing, which stages the candidate.
CommitIsStaged(w) ==
  worker'[w].pc = "commit" => staged'[worker'[w].run] = worker'[w].base

LEMMA SameTokens ==
  ASSUME UNCHANGED <<runs, holder, commits>>, NEW w \in Worker,
         \A v \in Version : staged'[v] = staged[v] \/ HoldsToken(w, v)
  PROVE  TokenMoves(w)
  BY DEF TokenMoves, HoldsToken

LEMMA StartTxTokens ==
  ASSUME RunsInv, NEW w \in Worker, worker[w].run \in Version, StartTx(w),
         UNCHANGED <<staged, commits>>
  PROVE  TokenMoves(w)
  BY DEF RunsInv, RecordsOK, StartTx, TokenMoves, HoldsToken

LEMMA EndTokens ==
  ASSUME RunsInv, NEW w \in Worker, worker[w].run \in Version, NEW status, status # "running",
         End(w, status), UNCHANGED <<holder, commits>>
  PROVE  TokenMoves(w)
  BY DEF RunsInv, RecordsOK, SourceOK, End, CanEnd, TokenMoves, HoldsToken

LEMMA SucceedTokens ==
  ASSUME RunsInv, NEW w \in Worker, worker[w].run \in Version, Succeed(w),
         UNCHANGED <<holder, staged, commits>>
  PROVE  TokenMoves(w)
  BY DEF RunsInv, RecordsOK, Succeed, TokenMoves, HoldsToken

LEMMA ActivateTokens ==
  ASSUME RunsInv, NEW w \in Worker, worker[w].run \in Version, Activate(worker[w].run),
         UNCHANGED <<runs, holder>>
  PROVE  TokenMoves(w)
  BY DEF RunsInv, SourceOK, Activate, TokenMoves, HoldsToken

LEMMA StagedTokens ==
  ASSUME RunsInv, NEW w \in Worker, worker[w].run \in Version, CanStage(w),
         NEW base, staged' = Staged(worker[w].run, base), UNCHANGED <<runs, holder, commits>>
  PROVE  TokenMoves(w)
<1>1. \A v \in Version : staged'[v] = staged[v] \/ HoldsToken(w, v)
  BY DEF RunsInv, SourceOK, Staged, CanStage
<1> QED  BY <1>1, SameTokens

LEMMA GotoElsewhere ==
  ASSUME WorkersOK, NEW w \in Worker, NEW pc, pc # "commit", Goto(w, pc)
  PROVE  CommitIsStaged(w)
<1>1. worker'[w].pc = pc
  BY WorkerStays DEF WorkersOK, WorkerRecord, Goto
<1> QED  BY <1>1 DEF CommitIsStaged

LEMMA FreshElsewhere ==
  ASSUME WorkersOK, NEW w \in Worker, NEW op, Settling(w, op) \/ Throw(w, op)
  PROVE  CommitIsStaged(w)
<1>1. worker'[w].pc \in {"settle", "caught"}
  BY DEF WorkersOK, Settling, Throw, Fresh
<1> QED  BY <1>1 DEF CommitIsStaged

LEMMA IdleElsewhere ==
  ASSUME WorkersOK, NEW w \in Worker, worker' = [worker EXCEPT ![w] = IdleWorker]
  PROVE  CommitIsStaged(w)
<1>1. worker'[w].pc = "idle"
  BY DEF WorkersOK, IdleWorker, Fresh
<1> QED  BY <1>1 DEF CommitIsStaged

LEMMA SlotStepFits ==
  ASSUME RunsInv, NEW w \in Worker, SlotStep(w)
  PROVE  TokenMoves(w) /\ CommitIsStaged(w)
<1> DEFINE r == worker[w].run
           Fits == TokenMoves(w) /\ CommitIsStaged(w)
<1>1. r \in Version
  BY SlotStepMoves
<1>2. WorkersOK
  BY DEF RunsInv
<1>3. UNCHANGED <<runs, holder, staged, commits>> => TokenMoves(w)
  BY SameTokens
<1> SUFFICES Fits
  OBVIOUS
<1>4. CASE Read(w)
  BY <1>2, <1>3, <1>4, GotoElsewhere, FreshElsewhere DEF Read
<1>5. CASE Start(w)
  BY <1>1, <1>2, <1>3, <1>5, GotoElsewhere, FreshElsewhere, StartTxTokens DEF Start, recordVars
<1>6. CASE Check(w)
  BY <1>2, <1>3, <1>6, GotoElsewhere DEF Check
<1>7. CASE Supersede(w)
  BY <1>1, <1>2, <1>3, <1>7, GotoElsewhere, FreshElsewhere, EndTokens DEF Supersede
<1>8. CASE ChooseBase(w)
  <2>1. PICK base : worker' = [worker EXCEPT ![w].pc = "prepare", ![w].base = base]
    BY <1>8 DEF ChooseBase
  <2>2. worker'[w].pc = "prepare"
    BY <1>2, <2>1, WorkerStays DEF WorkersOK, WorkerRecord
  <2> QED  BY <1>3, <1>8, <2>2 DEF ChooseBase, CommitIsStaged
<1>9. CASE Prepare(w)
  <2>1. UNCHANGED <<runs, holder, commits>>
    BY <1>9 DEF Prepare
  <2>2. CASE UNCHANGED staged /\ (Throw(w, "retry") \/ Throw(w, "fenced") \/ Goto(w, "finish"))
    BY <1>2, <1>3, <2>1, <2>2, GotoElsewhere, FreshElsewhere
  <2>3. CASE CanStage(w) /\ staged' = Staged(r, worker[w].base) /\ Throw(w, "failed")
    BY <1>1, <1>2, <2>1, <2>3, StagedTokens, FreshElsewhere
  <2>4. CASE /\ CanStage(w) /\ staged' = Staged(r, worker[w].base)
             /\ worker' = [worker EXCEPT ![w].pc = "commit", ![w].expected = active]
    <3>1. worker'[w].run = r /\ worker'[w].base = worker[w].base
      BY <1>2, <2>4, WorkerStays DEF WorkersOK, WorkerRecord
    <3>2. staged'[r] = worker[w].base
      BY <1>1, <2>4 DEF Staged, RunsInv, SourceOK
    <3> QED  BY <1>1, <2>1, <2>4, <3>1, <3>2, StagedTokens DEF CommitIsStaged
  <2> QED  BY <1>9, <2>2, <2>3, <2>4 DEF Prepare
<1>10. CASE Commit(w)
  BY <1>1, <1>2, <1>3, <1>10, GotoElsewhere, FreshElsewhere, ActivateTokens DEF Commit, sourceVars
<1>11. CASE Finish(w)
  BY <1>1, <1>2, <1>3, <1>11, FreshElsewhere, SucceedTokens DEF Finish
<1>12. CASE Caught(w)
  BY <1>2, <1>3, <1>12, GotoElsewhere, FreshElsewhere DEF Caught
<1>13. CASE Fail(w)
  <2>1. worker[w].op # "running"
    BY <1>2, <1>13, WorkerStays DEF Fail, Sound
  <2> QED  BY <1>1, <1>2, <1>3, <1>13, <2>1, GotoElsewhere, EndTokens DEF Fail
<1>14. CASE Decide(w)
  BY <1>2, <1>3, <1>14, FreshElsewhere DEF Decide
<1>15. CASE Settle(w)
  BY <1>2, <1>3, <1>15, IdleElsewhere DEF Settle
<1>16. CASE CallFails(w)
  BY <1>1, <1>2, <1>3, <1>16, GotoElsewhere, StartTxTokens, EndTokens DEF CallFails
<1>17. CASE AttemptFails(w)
  <2>1. UNCHANGED holder /\ CommitIsStaged(w)
    BY <1>2, <1>17, FreshElsewhere DEF AttemptFails
  <2>2. TokenMoves(w)
    BY <1>1, <1>3, <1>17, <2>1, StagedTokens, ActivateTokens, SucceedTokens
       DEF AttemptFails, StagesPartly
  <2> QED  BY <2>1, <2>2
<1>18. CASE WorkerStops(w)
  BY <1>2, <1>3, <1>18, IdleElsewhere DEF WorkerStops
<1> QED
  BY <1>4, <1>5, <1>6, <1>7, <1>8, <1>9, <1>10, <1>11, <1>12, <1>13, <1>14, <1>15,
     <1>16, <1>17, <1>18 DEF SlotStep, WorkerStep

LEMMA FitPreserved ==
  ASSUME RunsInv, FitInv, [RunsNext]_runVars
  PROVE  FitInv'
<1> SUFFICES ASSUME NEW x \in Worker, worker'[x].pc = "commit",
                    HoldsToken(x, worker[x].run)', worker'[x].run \notin commits'
             PROVE  staged'[worker'[x].run] = worker'[x].base
  BY DEF FitInv
<1>1. CASE UNCHANGED <<runs, holder, staged, commits, worker>>
  BY <1>1 DEF FitInv, HoldsToken
<1>2. ASSUME NEW w \in Worker, SlotStep(w)
      PROVE  staged'[worker'[x].run] = worker'[x].base
  <2>1. TokenMoves(w) /\ CommitIsStaged(w) /\ SlotMoves(w)
    BY <1>2, SlotStepFits, SlotStepMoves
  <2>2. CASE x = w
    BY <2>1, <2>2 DEF CommitIsStaged
  <2>3. CASE x # w
    <3> DEFINE v == worker[x].run
    <3>1. worker'[x] = worker[x]
      BY <2>1, <2>3 DEF SlotMoves
    <3>2. v \in Version
      BY <3>1, WorkerStays DEF RunsInv, Sound
    <3>3. HoldsToken(x, v) /\ v \notin commits
      BY <2>1, <2>3, <3>1, <3>2 DEF TokenMoves
    <3>4. staged[v] = worker[x].base
      BY <3>1, <3>3 DEF FitInv
    <3>5. ~HoldsToken(w, v)
      BY <2>3, <3>3 DEF HoldsToken
    <3> QED  BY <2>1, <3>1, <3>2, <3>4, <3>5 DEF TokenMoves
  <2> QED  BY <2>2, <2>3
<1>3. ASSUME NEW w \in Worker, NEW v \in Version, Claim(w, v)
      PROVE  staged'[worker'[x].run] = worker'[x].base
  <2>1. worker' = [worker EXCEPT ![w] = Fresh("read", v, "complete")]
        /\ UNCHANGED <<runs, holder, staged, commits>>
    BY <1>3 DEF Claim
  <2>2. worker'[w].pc = "read" /\ (x # w => worker'[x] = worker[x])
    BY <2>1 DEF RunsInv, WorkersOK, Fresh
  <2> QED  BY <2>1, <2>2 DEF FitInv, HoldsToken
<1>4. CASE Dispatched
  <2>1. UNCHANGED <<holder, staged, commits, worker>>
    BY <1>4 DEF Dispatched, sourceVars
  <2>2. \A v \in Version : runs'[v] = runs[v] \/ runs'[v] = "queued"
    BY <1>4 DEF Dispatched, QueueRun, RunsInv, RecordsOK
  <2>3. worker[x].run \in Version
    BY <2>1, WorkerStays DEF RunsInv, Sound
  <2> QED  BY <2>1, <2>2, <2>3 DEF FitInv, HoldsToken
<1> QED
  BY <1>1, <1>2, <1>3, <1>4 DEF RunsNext, WorkersNext, SlotStep, LeaseEnds, runVars

\* A candidate that may be committed fits what the source holds.
LEMMA CommitFits ==
  ASSUME RunsInv, FitInv, NEW w \in Worker, worker[w].pc = "commit", CanCommit(w)
  PROVE  staged[worker[w].run] \in {FullRead, active}
<1>1. staged[worker[w].run] = worker[w].base
  BY DEF FitInv, CanCommit
<1>2. worker[w].base # FullRead => worker[w].base = active
  BY DEF CanCommit, Conflict, BaseMoved
<1> QED  BY <1>1, <1>2

LEMMA StepFits ==
  ASSUME RunsInv, FitInv, [RunsNext]_runVars, NEW v \in Version, active # v, active' = v
  PROVE  staged[v] \in {FullRead, active}
<1>1. PICK w \in Worker : worker[w].pc = "commit" /\ CanCommit(w) /\ Activate(worker[w].run)
  BY DEF RunsNext, WorkersNext, WorkerStep, Claim, Read, Start, Check, Supersede, ChooseBase, Prepare,
         Commit, Finish, Caught, Fail, Decide, Settle, CallFails, AttemptFails, WorkerStops,
         LeaseEnds, Dispatched, sourceVars, runVars
<1>2. worker[w].run = v
  BY <1>1 DEF Activate
<1> QED  BY <1>1, <1>2, CommitFits

LEMMA FitInit == RunsInit => FitInv
  BY DEF RunsInit, FitInv, IdleWorker, Fresh

\* The source never takes changes that were computed from another version than
\* the one it holds, whoever staged them and whoever commits them.
THEOREM ChangesFit == RunsSpec => ChangesFitTheSource
<1>1. RunsInv /\ FitInv /\ [RunsNext]_runVars =>
        [\A v \in Version : active # v /\ active' = v => staged[v] \in {FullRead, active}]_runVars
  BY StepFits
<1>2. RunsSpec => []FitInv
  <2>1. RunsInv /\ FitInv /\ [RunsNext]_runVars => FitInv'
    BY FitPreserved
  <2> QED  BY <2>1, FitInit, Invariant, PTL DEF RunsSpec
<1> QED  BY <1>1, <1>2, Invariant, PTL DEF RunsSpec, ChangesFitTheSource
=============================================================================
