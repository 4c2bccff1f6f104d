----------------------- MODULE ProjectionDispatchProofs -----------------------
(***************************************************************************)
(* Proofs about ProjectionDispatch for any versions, job slots and faults: *)
(* types, that dispatchers and workers together implement ProjectionRuns,  *)
(* and that no version is forgotten behind the reconciler's cursor.        *)
(***************************************************************************)
EXTENDS ProjectionDispatch, ProjectionRunsProofs

USE ProjectionRunsAssumption

-----------------------------------------------------------------------------
(* The inductive invariant *)

DispatchRecord == [pc : {"idle", "look", "admit", "publish"}, version : 0..MaxVersion]

PassRecord == [pc : {"wait", "feedDispatch", "lookup", "lookupDispatch", "list", "stuck"},
               next : 0..MaxVersion, stuck : SUBSET Version, blind : BOOLEAN]

Recorded == {v \in Version : runs[v] # "absent"}

\* A position of the feed is covered by a run of the version there or a later one.
Covered(c) == c > 0 => \E v \in Recorded : v >= c

LakeOK == /\ committed \in 0..MaxVersion /\ live \subseteq 1..committed
          /\ Recorded \subseteq 1..committed

DispatchesOK ==
  /\ disp \in [Dispatcher -> DispatchRecord]
  /\ \A d \in Dispatcher : /\ disp[d].pc # "idle" => disp[d].version \in 1..committed
                           /\ disp[d].pc = "publish" => disp[d].version \in Recorded

\* What a pass awaits, and what it knows when it comes to move the cursor.
PassOK ==
  /\ rec \in PassRecord /\ rec.next <= committed /\ rec.stuck \subseteq Recorded
  /\ rec.pc \in {"wait", "lookup", "list"} => disp["reconciler"].pc = "idle"
  /\ rec.pc = "feedDispatch" => /\ disp["reconciler"].pc # "idle"
                                /\ disp["reconciler"].version = rec.next
  /\ rec.pc = "lookupDispatch" => /\ disp["reconciler"].pc # "idle"
                                  /\ disp["reconciler"].version >= rec.next
                                  /\ unverified \/ rec.blind

FeedOK == /\ cursor \in NoCursor..committed /\ unverified \in BOOLEAN
          /\ ~unverified => cursor # NoCursor /\ Covered(cursor)
          /\ rec.pc = "lookup" /\ ~rec.blind /\ ~unverified => Covered(rec.next)

DispatchInv == LakeOK /\ DispatchesOK /\ PassOK /\ FeedOK

DInv == RunsInv /\ JobsInv /\ DispatchInv

LEMMA DInvType == DInv => TypeOK
<1> SUFFICES ASSUME DInv PROVE TypeOK
  OBVIOUS
<1>1. \A v \in Version : runs[v] # "absent" => v <= committed
  BY DEF DInv, DispatchInv, LakeOK, Recorded, Version
<1> QED  BY <1>1, InvType DEF DInv, TypeOK, JobsInv, DispatchInv, LakeOK, FeedOK

LEMMA DInvCovers == DInv => NothingIsForgotten
<1> SUFFICES ASSUME DInv, cursor > 0, ~unverified
             PROVE  \E v \in cursor..committed : runs[v] # "absent"
  BY DEF NothingIsForgotten
<1>1. PICK v \in Recorded : v >= cursor
  BY DEF DInv, DispatchInv, FeedOK, Covered
<1>2. v \in 1..committed /\ cursor \in Int /\ committed \in Int
  BY DEF DInv, DispatchInv, LakeOK, FeedOK, NoCursor
<1> QED  BY <1>1, <1>2 DEF Recorded

-----------------------------------------------------------------------------
(* The workers see of the dispatchers what ProjectionRuns assumes *)

\* A run whose job was never published is still queued when it is published.
LEMMA PublishIsDispatched ==
  ASSUME DInv, NEW v \in Recorded, Enqueue(v), UNCHANGED runs
  PROVE  \/ UNCHANGED <<runs, jobs>>
         \/ \E u \in Version : runs[u] = "queued" /\ Enqueue(u) /\ UNCHANGED runs
<1>1. v \in Version /\ runs[v] # "absent"
  BY DEF Recorded
<1>2. CASE jobs[v] = "absent"
  BY <1>1, <1>2 DEF DInv, JobsInv
<1>3. CASE jobs[v] # "absent"
  BY <1>3 DEF Enqueue
<1> QED  BY <1>2, <1>3

LEMMA StepRefines ==
  ASSUME DInv, [Next]_vars
  PROVE  [RunsNext]_runVars
<1>1. CASE UNCHANGED runVars
  BY <1>1
<1>2. CASE WorkersNext
  BY <1>2 DEF RunsNext
<1>3. CASE Fault /\ UNCHANGED <<recordVars, queueVars, sourceVars, worker>>
  BY <1>3 DEF recordVars, queueVars, RunsNext, Dispatched
<1>4. ASSUME NEW d \in Dispatcher, Admit(d) PROVE Dispatched
  <2>1. disp[d].version \in Version
    BY <1>4 DEF Admit, DInv, DispatchInv, DispatchesOK, LakeOK, Version
  <2>2. UNCHANGED <<holder, queueVars, sourceVars, worker, faults>>
    BY <1>4 DEF Admit
  <2>3. QueueRun(disp[d].version) \/ UNCHANGED runs
    BY <1>4 DEF Admit
  <2> QED  BY <2>1, <2>2, <2>3 DEF Dispatched, queueVars
<1>5. ASSUME NEW d \in Dispatcher, Publish(d) PROVE Dispatched
  <2>1. disp[d].version \in Recorded
    BY <1>5 DEF Publish, DInv, DispatchInv, DispatchesOK
  <2>2. Enqueue(disp[d].version) /\ UNCHANGED <<recordVars, lease, sourceVars, worker, faults>>
    BY <1>5 DEF Publish
  <2> QED  BY <2>1, <2>2, PublishIsDispatched DEF Dispatched, recordVars
<1>6. ASSUME NEW d \in Dispatcher, DispatchFails(d) PROVE Dispatched
  <2>1. disp[d].version \in Version /\ (disp[d].pc = "publish" => disp[d].version \in Recorded)
    BY <1>6 DEF DispatchFails, DInv, DispatchInv, DispatchesOK, LakeOK, Version
  <2>2. Fault /\ UNCHANGED <<holder, lease, sourceVars, worker>>
    BY <1>6 DEF DispatchFails
  <2>3. \/ UNCHANGED <<runs, jobs>>
        \/ QueueRun(disp[d].version) /\ UNCHANGED jobs
        \/ disp[d].pc = "publish" /\ Enqueue(disp[d].version) /\ UNCHANGED runs
    BY <1>6 DEF DispatchFails
  <2>4. CASE disp[d].pc = "publish" /\ Enqueue(disp[d].version) /\ UNCHANGED runs
    BY <2>1, <2>2, <2>4, PublishIsDispatched DEF Dispatched
  <2> QED  BY <2>1, <2>2, <2>3, <2>4 DEF Dispatched
<1>7. ASSUME NEW d \in Dispatcher, DispatchStep(d) \/ DispatchFails(d) PROVE [RunsNext]_runVars
  BY <1>1, <1>4, <1>5, <1>6, <1>7 DEF DispatchStep, Look, RunsNext
<1>8. ASSUME NEW v \in Version, LiveDispatch(v) PROVE UNCHANGED runVars
  BY <1>8 DEF LiveDispatch
<1>9. CASE PassStep
  BY <1>1, <1>9 DEF PassStep, ReadFeed, LookUp, ListStuck, EndPass, Republish
<1>10. CASE FeedRestarts \/ FeedFails \/ LookUpFails \/ ListFails \/ OrchestratorCrash
  BY <1>3, <1>10 DEF FeedRestarts, FeedFails, LookUpFails, ListFails, OrchestratorCrash
<1>11. CASE CommitVersion
  BY <1>1, <1>11 DEF CommitVersion
<1> QED  BY <1>1, <1>2, <1>7, <1>8, <1>9, <1>10, <1>11 DEF Next, vars

-----------------------------------------------------------------------------
(* What the steps of a dispatch do to the rest *)

\* Runs are recorded for good, and only for versions the lake has.
Keeps == Recorded \subseteq Recorded' /\ Recorded' \subseteq 1..committed

LEMMA CoveredStays ==
  ASSUME Recorded \subseteq Recorded', NEW c, Covered(c)
  PROVE  c > 0 => \E v \in Recorded' : v >= c
  BY DEF Covered

LEMMA SameRuns ==
  ASSUME DInv, UNCHANGED runs
  PROVE  Recorded' = Recorded /\ Keeps
  BY DEF Recorded, Keeps, DInv, DispatchInv, LakeOK

\* The invariant where only runs were recorded.
LEMMA RecordingStays ==
  ASSUME DInv, Keeps, UNCHANGED dispatchVars
  PROVE  DispatchInv'
<1>1. UNCHANGED <<committed, live, disp, rec, cursor, unverified>>
  BY DEF dispatchVars
<1>2. LakeOK' /\ DispatchesOK' /\ PassOK'
  BY <1>1 DEF DInv, DispatchInv, LakeOK, DispatchesOK, PassOK, Keeps
<1>3. FeedOK'
  BY <1>1 DEF DInv, DispatchInv, FeedOK, Covered, Keeps
<1> QED  BY <1>2, <1>3 DEF DispatchInv

LEMMA AtStays ==
  ASSUME DInv, NEW d \in Dispatcher, NEW pc \in {"admit", "publish"}, disp[d].pc # "idle", At(d, pc),
         Keeps, UNCHANGED committed, pc = "publish" => disp[d].version \in Recorded'
  PROVE  DispatchInv'
<1>1. UNCHANGED <<live, rec, cursor, unverified>> /\ disp' = [disp EXCEPT ![d].pc = pc]
  BY DEF At, passVars
<1>2. disp[d] \in DispatchRecord /\ disp[d].version \in 1..committed
  BY DEF DInv, DispatchInv, DispatchesOK
<1>3. disp' \in [Dispatcher -> DispatchRecord]
  BY <1>1, <1>2 DEF DInv, DispatchInv, DispatchesOK, DispatchRecord
<1>4. /\ disp'[d].pc = pc /\ disp'[d].version = disp[d].version
      /\ \A e \in Dispatcher \ {d} : disp'[e] = disp[e]
  BY <1>1, <1>2 DEF DInv, DispatchInv, DispatchesOK, DispatchRecord
<1>5. LakeOK' /\ DispatchesOK'
  BY <1>1, <1>2, <1>3, <1>4 DEF DInv, DispatchInv, LakeOK, DispatchesOK, Keeps
<1>6. /\ disp'["reconciler"].version = disp["reconciler"].version
      /\ disp'["reconciler"].pc = "idle" <=> disp["reconciler"].pc = "idle"
  BY <1>4 DEF Dispatcher
<1>7. PassOK'
  BY <1>1, <1>6 DEF DInv, DispatchInv, PassOK, Keeps
<1>8. FeedOK'
  BY <1>1 DEF DInv, DispatchInv, FeedOK, Covered, Keeps
<1> QED  BY <1>5, <1>7, <1>8 DEF DispatchInv

\* A dispatch that succeeded leaves a run, so that the cursor moves past nothing.
LEMMA EndsStays ==
  ASSUME DInv, NEW d \in Dispatcher, NEW ok \in BOOLEAN, disp[d].pc # "idle", Ends(d, ok),
         Keeps, UNCHANGED committed, ok => disp[d].version \in Recorded'
  PROVE  DispatchInv'
<1>1. disp' = [disp EXCEPT ![d] = NoDispatch] /\ Continue(d, ok)
  BY DEF Ends
<1>2. /\ disp' \in [Dispatcher -> DispatchRecord] /\ disp'[d].pc = "idle"
      /\ \A e \in Dispatcher \ {d} : disp'[e] = disp[e]
  BY <1>1 DEF DInv, DispatchInv, DispatchesOK, DispatchRecord, NoDispatch
<1>3. live' \subseteq live
  BY <1>1 DEF Continue
<1>4. LakeOK' /\ DispatchesOK'
  BY <1>2, <1>3 DEF DInv, DispatchInv, LakeOK, DispatchesOK, Keeps
<1>5. CASE d = "live"
  <2>1. UNCHANGED <<rec, cursor, unverified>> /\ disp'["reconciler"] = disp["reconciler"]
    BY <1>1, <1>2, <1>5 DEF Continue, passVars, Dispatcher
  <2>2. PassOK'
    BY <2>1 DEF DInv, DispatchInv, PassOK, Keeps
  <2>3. FeedOK'
    BY <2>1 DEF DInv, DispatchInv, FeedOK, Covered, Keeps
  <2> QED  BY <1>4, <2>2, <2>3 DEF DispatchInv
<1>6. CASE d = "reconciler"
  <2>1. disp'["reconciler"].pc = "idle"
    BY <1>2, <1>6
  <2>2. disp[d].version \in 1..committed /\ rec \in PassRecord /\ rec.next \in 0..committed
    BY DEF DInv, DispatchInv, DispatchesOK, PassOK, PassRecord, LakeOK
  <2>3. CASE rec.pc = "feedDispatch" /\ RecAt("lookup") /\ unverified' = Unverified(ok) /\ UNCHANGED cursor
    <3>1. /\ rec' = [rec EXCEPT !.pc = "lookup"] /\ rec' \in PassRecord
          /\ rec'.pc = "lookup" /\ rec'.next = rec.next /\ rec'.stuck = rec.stuck /\ rec'.blind = rec.blind
      BY <2>2, <2>3 DEF RecAt, PassRecord
    <3>2. PassOK'
      BY <2>1, <3>1 DEF DInv, DispatchInv, PassOK, Keeps
    <3>3. unverified' \in BOOLEAN /\ (~unverified' => ~unverified /\ ok)
      BY <2>3 DEF Unverified, DInv, DispatchInv, FeedOK
    <3>4. ~unverified' => rec.next \in Recorded'
      BY <1>6, <2>3, <3>3 DEF DInv, DispatchInv, PassOK
    <3>5. FeedOK'
      BY <2>2, <2>3, <3>1, <3>3, <3>4 DEF DInv, DispatchInv, FeedOK, Covered, Keeps
    <3> QED  BY <1>4, <3>2, <3>5 DEF DispatchInv
  <2>4. CASE rec.pc = "lookupDispatch" /\ TriggersReconciled(ok)
    <3>1. /\ rec' = [rec EXCEPT !.pc = "list"] /\ rec' \in PassRecord
          /\ rec'.pc = "list" /\ rec'.next = rec.next /\ rec'.stuck = rec.stuck
      BY <2>2, <2>4 DEF TriggersReconciled, RecAt, PassRecord
    <3>2. PassOK'
      BY <2>1, <3>1 DEF DInv, DispatchInv, PassOK, Keeps
    <3>3. ASSUME rec.blind PROVE FeedOK'
      BY <2>4, <3>1, <3>3 DEF TriggersReconciled, DInv, DispatchInv, FeedOK, Covered, Keeps
    <3>4. ASSUME ~rec.blind PROVE FeedOK'
      <4>1. cursor' = rec.next /\ unverified' = (unverified /\ ~ok)
        BY <2>4, <3>4 DEF TriggersReconciled
      <4>2. unverified = TRUE /\ disp[d].version >= rec.next
        BY <1>6, <2>4, <3>4 DEF DInv, DispatchInv, PassOK, FeedOK
      <4>3. unverified' \in BOOLEAN /\ (~unverified' => ok)
        BY <4>1, <4>2
      <4>4. cursor' \in NoCursor..committed /\ cursor' # NoCursor
        BY <2>2, <4>1 DEF NoCursor, DInv, DispatchInv, LakeOK
      <4>5. ~unverified' => \E v \in Recorded' : v >= cursor'
        BY <4>1, <4>2, <4>3
      <4> QED  BY <3>1, <4>3, <4>4, <4>5 DEF FeedOK, Covered
    <3>5. FeedOK'
      BY <3>3, <3>4
    <3> QED  BY <1>4, <3>2, <3>5 DEF DispatchInv
  <2>5. CASE rec.pc = "stuck" /\ UNCHANGED passVars
    <3>1. UNCHANGED <<rec, cursor, unverified>>
      BY <2>5 DEF passVars
    <3>2. PassOK'
      BY <2>1, <2>5, <3>1 DEF DInv, DispatchInv, PassOK, Keeps
    <3>3. FeedOK'
      BY <3>1 DEF DInv, DispatchInv, FeedOK, Covered, Keeps
    <3> QED  BY <1>4, <3>2, <3>3 DEF DispatchInv
  <2> QED  BY <1>1, <1>6, <2>3, <2>4, <2>5 DEF Continue
<1> QED  BY <1>5, <1>6 DEF Dispatcher

-----------------------------------------------------------------------------
(* One lemma per action *)

\* A step whose run, if it makes one, is of a version that was dispatched.
LEMMA KeepsRuns ==
  ASSUME DInv, NEW v \in 1..committed, QueueRun(v) \/ UNCHANGED runs
  PROVE  Keeps /\ (QueueRun(v) => v \in Recorded')
<1>1. v \in Version
  BY DEF DInv, DispatchInv, LakeOK, Version
<1>2. CASE UNCHANGED runs
  <2>1. ~QueueRun(v)
    BY <1>1, <1>2 DEF QueueRun, DInv, RunsInv, RecordsOK
  <2> QED  BY <1>2, <2>1, SameRuns
<1>3. CASE QueueRun(v)
  <2>1. /\ \A u \in Version : runs'[u] = IF u = v THEN "queued" ELSE runs[u]
    BY <1>1, <1>3 DEF QueueRun, DInv, RunsInv, RecordsOK
  <2> QED  BY <1>1, <2>1 DEF Keeps, Recorded, DInv, DispatchInv, LakeOK
<1> QED  BY <1>2, <1>3

LEMMA Dispatching ==
  ASSUME DInv, NEW d \in Dispatcher, disp[d].pc # "idle"
  PROVE  disp[d].version \in 1..committed /\ disp[d].version \in Version
  BY DEF DInv, DispatchInv, DispatchesOK, LakeOK, Version

LEMMA LookPreserves ==
  ASSUME DInv, NEW d \in Dispatcher, Look(d)
  PROVE  DispatchInv'
<1>1. disp[d].pc # "idle" /\ UNCHANGED <<runVars, committed, aged>> /\ UNCHANGED runs
  BY DEF Look, runVars
<1>2. disp[d].version \in Version /\ Keeps /\ Recorded' = Recorded
  BY <1>1, Dispatching, SameRuns
<1>3. CASE At(d, "admit") \/ (runs[disp[d].version] = "queued" /\ At(d, "publish"))
  BY <1>1, <1>2, <1>3, AtStays DEF Recorded
<1>4. CASE runs[disp[d].version] # "absent" /\ Ends(d, TRUE)
  BY <1>1, <1>2, <1>4, EndsStays DEF Recorded
<1> QED  BY <1>3, <1>4 DEF Look

LEMMA AdmitPreserves ==
  ASSUME DInv, NEW d \in Dispatcher, Admit(d)
  PROVE  DispatchInv'
<1>1. disp[d].pc # "idle" /\ UNCHANGED committed /\ disp[d].version \in 1..committed
      /\ disp[d].version \in Version
  BY Dispatching DEF Admit
<1>2. Keeps /\ (QueueRun(disp[d].version) => disp[d].version \in Recorded')
  BY <1>1, KeepsRuns DEF Admit
<1>3. CASE QueueRun(disp[d].version) /\ At(d, "publish")
  BY <1>1, <1>2, <1>3, AtStays
<1>4. CASE runs[disp[d].version] = "queued" /\ UNCHANGED runs /\ At(d, "publish")
  BY <1>1, <1>2, <1>4, AtStays DEF Recorded
<1>5. CASE runs[disp[d].version] # "absent" /\ UNCHANGED runs /\ Ends(d, TRUE)
  BY <1>1, <1>2, <1>5, EndsStays DEF Recorded
<1> QED  BY <1>3, <1>4, <1>5 DEF Admit

LEMMA PublishPreserves ==
  ASSUME DInv, NEW d \in Dispatcher, Publish(d)
  PROVE  DispatchInv'
<1>1. disp[d].pc = "publish" /\ UNCHANGED committed /\ UNCHANGED runs /\ Ends(d, TRUE)
  BY DEF Publish, recordVars
<1>2. disp[d].version \in Recorded
  BY <1>1 DEF DInv, DispatchInv, DispatchesOK
<1> QED  BY <1>1, <1>2, SameRuns, EndsStays

LEMMA DispatchFailsPreserves ==
  ASSUME DInv, NEW d \in Dispatcher, DispatchFails(d)
  PROVE  DispatchInv'
<1>1. disp[d].pc # "idle" /\ UNCHANGED committed /\ Ends(d, FALSE) /\ disp[d].version \in 1..committed
  BY Dispatching DEF DispatchFails
<1>2. Keeps
  BY <1>1, KeepsRuns DEF DispatchFails
<1> QED  BY <1>1, <1>2, EndsStays

LEMMA CommitVersionPreserves ==
  ASSUME DInv, CommitVersion
  PROVE  DispatchInv'
<1>1. /\ UNCHANGED <<disp, rec, cursor, unverified>> /\ Recorded' = Recorded
      /\ committed' = committed + 1 /\ committed' \in 0..MaxVersion
  BY SameRuns DEF CommitVersion, runVars, DInv, DispatchInv, LakeOK
<1>2. committed \in Nat /\ live' \subseteq live \cup {committed + 1}
  BY DEF CommitVersion, DInv, DispatchInv, LakeOK
<1>3. LakeOK'
  BY <1>1, <1>2 DEF DInv, DispatchInv, LakeOK
<1>4. DispatchesOK'
  BY <1>1, <1>2 DEF DInv, DispatchInv, DispatchesOK
<1>5. PassOK'
  BY <1>1, <1>2 DEF DInv, DispatchInv, PassOK, PassRecord
<1>6. FeedOK'
  BY <1>1, <1>2 DEF DInv, DispatchInv, FeedOK, Covered, NoCursor
<1> QED  BY <1>3, <1>4, <1>5, <1>6 DEF DispatchInv

\* A dispatch that begins.
LEMMA DispatchBegins ==
  ASSUME DInv, NEW d \in Dispatcher, NEW v \in 1..committed, Dispatch(d, v), UNCHANGED <<runs, lakeVars>>
  PROVE  /\ LakeOK' /\ DispatchesOK'
         /\ disp'[d].pc = "look" /\ disp'[d].version = v
         /\ \A e \in Dispatcher \ {d} : disp'[e] = disp[e]
<1>1. Recorded' = Recorded /\ UNCHANGED <<committed, live>>
  BY SameRuns DEF lakeVars
<1>2. v \in 0..MaxVersion
  BY DEF DInv, DispatchInv, LakeOK
<1>3. /\ disp' \in [Dispatcher -> DispatchRecord]
      /\ disp'[d].pc = "look" /\ disp'[d].version = v
      /\ \A e \in Dispatcher \ {d} : disp'[e] = disp[e]
  BY <1>2 DEF DInv, DispatchInv, DispatchesOK, DispatchRecord, Dispatch
<1>4. LakeOK' /\ DispatchesOK'
  BY <1>1, <1>3 DEF DInv, DispatchInv, LakeOK, DispatchesOK
<1> QED  BY <1>3, <1>4

LEMMA LiveDispatchPreserves ==
  ASSUME DInv, NEW v \in Version, LiveDispatch(v)
  PROVE  DispatchInv'
<1>1. /\ v \in 1..committed /\ Dispatch("live", v) /\ "live" \in Dispatcher
      /\ UNCHANGED <<runs, lakeVars>> /\ UNCHANGED <<committed, rec, cursor, unverified>>
  BY DEF LiveDispatch, DInv, DispatchInv, LakeOK, Dispatcher, runVars, passVars, lakeVars
<1>2. /\ LakeOK' /\ DispatchesOK' /\ Recorded' = Recorded
      /\ disp'["reconciler"] = disp["reconciler"]
  BY <1>1, DispatchBegins, SameRuns DEF Dispatcher
<1>3. PassOK' /\ FeedOK'
  BY <1>1, <1>2 DEF DInv, DispatchInv, PassOK, FeedOK, Covered
<1> QED  BY <1>2, <1>3 DEF DispatchInv

\* The pass goes on to a step at which it awaits no dispatch.
LEMMA PassMoves ==
  ASSUME DInv, UNCHANGED <<runs, lakeVars, disp, cursor, unverified>>,
         rec' \in PassRecord, rec'.pc \in {"wait", "lookup", "list", "stuck"},
         rec'.next <= committed, rec'.stuck \subseteq Recorded, disp["reconciler"].pc = "idle",
         rec'.pc = "lookup" /\ ~rec'.blind /\ ~unverified => Covered(rec'.next)
  PROVE  DispatchInv'
<1>1. Recorded' = Recorded /\ UNCHANGED <<committed, live, disp, cursor, unverified>>
  BY SameRuns DEF lakeVars
<1>2. LakeOK' /\ DispatchesOK'
  BY <1>1 DEF DInv, DispatchInv, LakeOK, DispatchesOK
<1>3. PassOK' /\ FeedOK'
  BY <1>1 DEF DInv, DispatchInv, PassOK, FeedOK, Covered
<1> QED  BY <1>2, <1>3 DEF DispatchInv

LEMMA ReadFeedPreserves ==
  ASSUME DInv, ReadFeed
  PROVE  DispatchInv'
<1>1. rec.pc = "wait" /\ UNCHANGED <<runs, lakeVars, cursor, unverified>> /\ disp["reconciler"].pc = "idle"
      /\ committed \in 0..MaxVersion /\ cursor \in NoCursor..committed
  BY DEF ReadFeed, runVars, lakeVars, DInv, DispatchInv, PassOK, LakeOK, FeedOK
<1>2. PICK next \in 0..committed :
        /\ IF cursor = NoCursor THEN next = committed
           ELSE next >= cursor /\ (cursor < committed => next > cursor)
        /\ IF cursor # NoCursor /\ next > cursor /\ ~unverified
           THEN /\ rec' = [NoPass EXCEPT !.pc = "feedDispatch", !.next = next]
                /\ Dispatch("reconciler", next)
           ELSE /\ rec' = [NoPass EXCEPT !.pc = "lookup", !.next = next]
                /\ UNCHANGED disp
  BY DEF ReadFeed
<1>3. next \in 0..MaxVersion /\ next <= committed
  BY <1>1
<1>4. CASE /\ cursor # NoCursor /\ next > cursor /\ ~unverified
           /\ rec' = [NoPass EXCEPT !.pc = "feedDispatch", !.next = next]
           /\ Dispatch("reconciler", next)
  <2>1. next \in 1..committed
    BY <1>1, <1>4 DEF NoCursor
  <2>2. /\ LakeOK' /\ DispatchesOK' /\ Recorded' = Recorded /\ UNCHANGED committed
        /\ disp'["reconciler"].pc = "look" /\ disp'["reconciler"].version = next
    BY <1>1, <1>4, <2>1, DispatchBegins, SameRuns DEF Dispatcher, lakeVars
  <2>3. /\ rec' \in PassRecord /\ rec'.pc = "feedDispatch" /\ rec'.next = next /\ rec'.stuck = {}
    BY <1>3, <1>4 DEF NoPass, PassRecord
  <2>4. PassOK' /\ FeedOK'
    BY <1>1, <1>3, <2>2, <2>3 DEF DInv, DispatchInv, PassOK, FeedOK, Covered
  <2> QED  BY <2>2, <2>4 DEF DispatchInv
<1>5. CASE /\ ~(cursor # NoCursor /\ next > cursor /\ ~unverified)
           /\ rec' = [NoPass EXCEPT !.pc = "lookup", !.next = next] /\ UNCHANGED disp
  <2>1. /\ rec' \in PassRecord /\ rec'.pc = "lookup" /\ rec'.next = next /\ rec'.stuck = {}
    BY <1>3, <1>5 DEF NoPass, PassRecord
  <2>2. ~unverified => next = cursor /\ Covered(cursor)
    BY <1>1, <1>2, <1>5 DEF DInv, DispatchInv, FeedOK, NoCursor
  <2> QED  BY <1>1, <1>3, <1>5, <2>1, <2>2, PassMoves
<1> QED  BY <1>2, <1>4, <1>5

\* The end of reconcileTriggers where nothing had to be dispatched.
LEMMA TriggersReconciledStays ==
  ASSUME DInv, rec.pc = "lookup", UNCHANGED <<runs, lakeVars, disp>>,
         NEW verified \in BOOLEAN, TriggersReconciled(verified),
         ~rec.blind /\ unverified /\ verified => committed = 0
  PROVE  DispatchInv'
<1>1. /\ Recorded' = Recorded /\ UNCHANGED <<committed, live, disp>>
      /\ disp["reconciler"].pc = "idle" /\ rec \in PassRecord /\ rec.next \in 0..committed
      /\ committed \in 0..MaxVersion
  BY SameRuns DEF lakeVars, DInv, DispatchInv, PassOK, PassRecord, LakeOK
<1>2. LakeOK' /\ DispatchesOK'
  BY <1>1 DEF DInv, DispatchInv, LakeOK, DispatchesOK
<1>3. /\ rec' \in PassRecord /\ rec'.pc = "list" /\ rec'.next = rec.next /\ rec'.stuck = rec.stuck
  BY <1>1 DEF TriggersReconciled, RecAt, PassRecord
<1>4. PassOK'
  BY <1>1, <1>3 DEF DInv, DispatchInv, PassOK
<1>5. ASSUME rec.blind PROVE FeedOK'
  BY <1>1, <1>3, <1>5 DEF TriggersReconciled, DInv, DispatchInv, FeedOK, Covered
<1>6. ASSUME ~rec.blind PROVE FeedOK'
  <2>1. cursor' = rec.next /\ unverified' = (unverified /\ ~verified)
    BY <1>6 DEF TriggersReconciled
  <2>2. unverified \in BOOLEAN /\ unverified' \in BOOLEAN
    BY <2>1 DEF DInv, DispatchInv, FeedOK
  <2>3. ~unverified' => Covered(rec.next)
    <3>1. CASE ~unverified
      BY <1>6, <3>1 DEF DInv, DispatchInv, FeedOK
    <3>2. CASE unverified
      <4>1. ~unverified' => committed = 0
        BY <1>6, <2>1, <3>2
      <4>2. committed = 0 => rec.next = 0
        BY <1>1
      <4> QED  BY <4>1, <4>2 DEF Covered
    <3> QED  BY <3>1, <3>2
  <2>4. cursor' \in NoCursor..committed /\ cursor' # NoCursor
    BY <1>1, <2>1 DEF NoCursor
  <2> QED  BY <1>1, <1>3, <2>1, <2>2, <2>3, <2>4 DEF FeedOK, Covered
<1> QED  BY <1>2, <1>4, <1>5, <1>6 DEF DispatchInv

LEMMA LookUpPreserves ==
  ASSUME DInv, LookUp
  PROVE  DispatchInv'
<1>1. rec.pc = "lookup" /\ UNCHANGED <<runs, lakeVars>> /\ UNCHANGED committed
      /\ rec \in PassRecord /\ rec.next \in 0..committed
  BY DEF LookUp, runVars, lakeVars, DInv, DispatchInv, PassOK, PassRecord, LakeOK
<1>2. CASE /\ (unverified \/ rec.blind) /\ committed > 0
           /\ Dispatch("reconciler", committed) /\ RecAt("lookupDispatch")
           /\ UNCHANGED <<cursor, unverified>>
  <2>1. committed \in 1..committed
    BY <1>2 DEF DInv, DispatchInv, LakeOK
  <2>2. /\ LakeOK' /\ DispatchesOK' /\ Recorded' = Recorded
        /\ disp'["reconciler"].pc = "look" /\ disp'["reconciler"].version = committed
    BY <1>1, <1>2, <2>1, DispatchBegins, SameRuns DEF Dispatcher
  <2>3. /\ rec' \in PassRecord /\ rec'.pc = "lookupDispatch" /\ rec'.next = rec.next
        /\ rec'.stuck = rec.stuck /\ rec'.blind = rec.blind
    BY <1>1, <1>2 DEF RecAt, PassRecord
  <2>4. PassOK' /\ FeedOK'
    BY <1>1, <1>2, <2>2, <2>3 DEF DInv, DispatchInv, PassOK, FeedOK, Covered
  <2> QED  BY <2>2, <2>4 DEF DispatchInv
<1>3. CASE /\ ~(unverified \/ rec.blind) \/ committed = 0
           /\ TriggersReconciled(unverified) /\ UNCHANGED disp
  <2>1. unverified \in BOOLEAN
    BY DEF DInv, DispatchInv, FeedOK
  <2> QED  BY <1>1, <1>3, <2>1, TriggersReconciledStays
<1> QED  BY <1>2, <1>3 DEF LookUp

LEMMA LookUpFailsPreserves ==
  ASSUME DInv, LookUpFails
  PROVE  DispatchInv'
<1>1. rec.pc = "lookup" /\ UNCHANGED <<runs, lakeVars, disp>> /\ TriggersReconciled(FALSE)
  BY DEF LookUpFails, recordVars, lakeVars
<1> QED  BY <1>1, TriggersReconciledStays

\* The cursor is given up, or distrusted for this pass.
LEMMA FeedLost ==
  ASSUME DInv, FeedRestarts \/ FeedFails
  PROVE  DispatchInv'
<1>1. /\ rec.pc = "wait" /\ disp["reconciler"].pc = "idle" /\ committed \in 0..MaxVersion
      /\ UNCHANGED <<committed, live, disp, cursor>> /\ Recorded' = Recorded
  BY SameRuns DEF FeedRestarts, FeedFails, recordVars, lakeVars, DInv, DispatchInv, PassOK, LakeOK
<1>2. LakeOK' /\ DispatchesOK'
  BY <1>1 DEF DInv, DispatchInv, LakeOK, DispatchesOK
<1>3. /\ rec' \in PassRecord /\ rec'.pc = "lookup" /\ rec'.next <= committed /\ rec'.stuck = {}
      /\ FeedFails => rec'.blind
  <2>1. CASE FeedRestarts
    <3>1. rec' = [pc |-> "lookup", next |-> committed, stuck |-> {}, blind |-> FALSE]
      BY <2>1 DEF FeedRestarts, NoPass
    <3>2. ~FeedFails
      <4>1. FeedFails => rec'.blind = TRUE
        BY DEF FeedFails, NoPass
      <4> QED  BY <3>1, <4>1
    <3> QED  BY <1>1, <3>1, <3>2 DEF PassRecord
  <2>2. CASE FeedFails
    <3>1. rec' = [pc |-> "lookup", next |-> 0, stuck |-> {}, blind |-> TRUE]
      BY <2>2 DEF FeedFails, NoPass
    <3> QED  BY <1>1, <3>1 DEF PassRecord
  <2> QED  BY <2>1, <2>2
<1>4. PassOK'
  BY <1>1, <1>3 DEF PassOK
<1>5. FeedOK'
  <2>1. CASE FeedRestarts
    <3>1. unverified' = TRUE
      BY <2>1 DEF FeedRestarts
    <3> QED  BY <1>1, <3>1 DEF DInv, DispatchInv, FeedOK
  <2>2. CASE FeedFails
    <3>1. UNCHANGED unverified /\ rec'.blind
      BY <1>3, <2>2 DEF FeedFails
    <3> QED  BY <1>1, <1>3, <3>1 DEF DInv, DispatchInv, FeedOK, Covered
  <2> QED  BY <2>1, <2>2
<1> QED  BY <1>2, <1>4, <1>5 DEF DispatchInv

LEMMA ListPreserves ==
  ASSUME DInv, ListStuck \/ ListFails
  PROVE  DispatchInv'
<1>1. /\ rec.pc = "list" /\ disp["reconciler"].pc = "idle" /\ rec \in PassRecord /\ rec.next <= committed
      /\ rec.stuck \subseteq Recorded
      /\ UNCHANGED <<runs, lakeVars, disp, cursor, unverified>>
  BY DEF ListStuck, ListFails, runVars, recordVars, DInv, DispatchInv, PassOK
<1>2. Queued \subseteq Recorded /\ Queued \subseteq Version
  BY DEF Queued, Recorded
<1>3. /\ rec' \in PassRecord /\ rec'.pc = "stuck" /\ rec'.next = rec.next /\ rec'.stuck \subseteq Recorded
  <2>1. CASE ListStuck
    BY <1>1, <1>2, <2>1 DEF ListStuck, PassRecord
  <2>2. CASE ListFails
    BY <1>1, <2>2 DEF ListFails, RecAt, PassRecord
  <2> QED  BY <2>1, <2>2
<1> QED  BY <1>1, <1>3, PassMoves

LEMMA RepublishPreserves ==
  ASSUME DInv, NEW v \in Version, Republish(v)
  PROVE  DispatchInv'
<1>1. /\ rec.pc = "stuck" /\ rec \in PassRecord /\ rec.next <= committed /\ rec.stuck \subseteq Recorded
      /\ UNCHANGED <<runs, lakeVars, cursor, unverified>> /\ UNCHANGED committed
  BY DEF Republish, runVars, lakeVars, DInv, DispatchInv, PassOK
<1>2. v \in 1..committed
  BY <1>1 DEF Republish, DInv, DispatchInv, LakeOK
<1>3. /\ LakeOK' /\ DispatchesOK' /\ Recorded' = Recorded
  BY <1>1, <1>2, DispatchBegins, SameRuns DEF Republish, Dispatcher
<1>4. rec' = [rec EXCEPT !.stuck = rec.stuck \ {v}]
  BY DEF Republish
<1>5. rec' \in PassRecord /\ rec'.pc = "stuck" /\ rec'.next = rec.next /\ rec'.stuck \subseteq rec.stuck
  BY <1>1, <1>4 DEF PassRecord
<1>6. PassOK' /\ FeedOK'
  BY <1>1, <1>3, <1>5 DEF DInv, DispatchInv, PassOK, FeedOK, Covered
<1> QED  BY <1>3, <1>6 DEF DispatchInv

LEMMA EndPassPreserves ==
  ASSUME DInv, EndPass
  PROVE  DispatchInv'
<1>1. /\ disp["reconciler"].pc = "idle" /\ rec' = NoPass /\ committed \in 0..MaxVersion
      /\ UNCHANGED <<runs, lakeVars, disp, cursor, unverified>>
  BY DEF EndPass, runVars, DInv, DispatchInv, LakeOK
<1>2. rec' \in PassRecord /\ rec'.pc = "wait" /\ rec'.next = 0 /\ rec'.stuck = {}
  BY <1>1 DEF NoPass, PassRecord
<1> QED  BY <1>1, <1>2, PassMoves

LEMMA CrashPreserves ==
  ASSUME DInv, OrchestratorCrash
  PROVE  DispatchInv'
<1>1. /\ live' = {} /\ rec' = NoPass /\ cursor' = NoCursor /\ unverified' = TRUE
      /\ UNCHANGED committed /\ Recorded' = Recorded /\ committed \in 0..MaxVersion
  BY SameRuns DEF OrchestratorCrash, recordVars, DInv, DispatchInv, LakeOK
<1>2. disp' \in [Dispatcher -> DispatchRecord] /\ \A d \in Dispatcher : disp'[d].pc = "idle"
  BY DEF OrchestratorCrash, NoDispatch, DispatchRecord
<1>3. rec' \in PassRecord /\ rec'.pc = "wait" /\ rec'.next = 0 /\ rec'.stuck = {}
  BY <1>1 DEF NoPass, PassRecord
<1>4. LakeOK' /\ DispatchesOK'
  BY <1>1, <1>2 DEF DInv, DispatchInv, LakeOK, DispatchesOK
<1>5. PassOK' /\ FeedOK'
  BY <1>1, <1>2, <1>3 DEF PassOK, FeedOK, NoCursor, Dispatcher
<1> QED  BY <1>4, <1>5 DEF DispatchInv

-----------------------------------------------------------------------------
(* The theorems *)

LEMMA DispatchInit == Init => DInv
<1> SUFFICES ASSUME Init PROVE DInv
  OBVIOUS
<1>1. RunsInv /\ JobsInv
  BY InitEstablishes, JobsInit DEF Init
<1>2. Recorded = {}
  BY DEF Init, RunsInit, Recorded
<1>3. disp \in [Dispatcher -> DispatchRecord] /\ \A d \in Dispatcher : disp[d].pc = "idle"
  BY DEF Init, NoDispatch, DispatchRecord
<1>4. rec \in PassRecord /\ rec.pc = "wait" /\ rec.next = 0 /\ rec.stuck = {}
  BY DEF Init, NoPass, PassRecord
<1>5. LakeOK /\ DispatchesOK
  BY <1>2, <1>3 DEF Init, LakeOK, DispatchesOK
<1>6. PassOK /\ FeedOK
  BY <1>3, <1>4 DEF Init, PassOK, FeedOK, NoCursor, Dispatcher
<1> QED  BY <1>1, <1>5, <1>6 DEF DInv, DispatchInv

LEMMA DispatchPreserved ==
  ASSUME DInv, [Next]_vars
  PROVE  DispatchInv'
<1>1. CASE UNCHANGED vars
  BY <1>1, SameRuns, RecordingStays DEF vars, runVars
<1>2. CASE WorkersNext /\ UNCHANGED dispatchVars
  <2>1. Recorded' = Recorded
    BY <1>2, WorkersKeepRuns DEF DInv, Recorded
  <2> QED  BY <1>2, <2>1, RecordingStays DEF Keeps, DInv, DispatchInv, LakeOK
<1>3. ASSUME NEW d \in Dispatcher, DispatchStep(d) \/ DispatchFails(d) PROVE DispatchInv'
  BY <1>3, LookPreserves, AdmitPreserves, PublishPreserves, DispatchFailsPreserves DEF DispatchStep
<1>4. ASSUME NEW v \in Version, LiveDispatch(v) \/ Republish(v) PROVE DispatchInv'
  BY <1>4, LiveDispatchPreserves, RepublishPreserves
<1>5. CASE CommitVersion \/ ReadFeed \/ LookUp \/ ListStuck \/ EndPass
  BY <1>5, CommitVersionPreserves, ReadFeedPreserves, LookUpPreserves, ListPreserves, EndPassPreserves
<1>6. CASE FeedRestarts \/ FeedFails \/ LookUpFails \/ ListFails \/ OrchestratorCrash
  BY <1>6, FeedLost, LookUpFailsPreserves, ListPreserves, CrashPreserves
<1> QED  BY <1>1, <1>2, <1>3, <1>4, <1>5, <1>6 DEF Next, PassStep

LEMMA DInvPreserved == DInv /\ [Next]_vars => DInv'
<1> SUFFICES ASSUME DInv, [Next]_vars PROVE DInv'
  OBVIOUS
<1>1. [RunsNext]_runVars
  BY StepRefines
<1>2. RunsInv' /\ JobsInv'
  BY <1>1, StepPreserves, JobsPreserved DEF DInv
<1> QED  BY <1>2, DispatchPreserved DEF DInv

LEMMA DispatchInvariant == Spec => []DInv
<1> QED  BY DispatchInit, DInvPreserved, PTL DEF Spec

\* Dispatchers, records and workers keep their types; a job in the queue names a
\* recorded run, and a run a version of the lake.
THEOREM DispatchTypeCorrect == Spec => []TypeOK
<1> QED  BY DispatchInvariant, DInvType, PTL

\* Whatever is dispatched twice, fails, is republished or lost in a crash, the
\* workers see only what ProjectionRuns assumes of its dispatchers, and so
\* everything proved of the runs holds in the composition.
THEOREM RunsImplemented == Spec => ImplementsRuns
<1>1. Init => RunsInit
  BY DEF Init
<1>2. DInv /\ [Next]_vars => [RunsNext]_runVars
  BY StepRefines
<1> QED  BY <1>1, <1>2, DispatchInvariant, PTL DEF Spec, RunsSpec, ImplementsRuns

\* No version is forgotten behind a cursor the reconciler trusts, whichever live
\* events are lost and whichever dispatches and reads fail.
THEOREM NeverForgotten == Spec => []NothingIsForgotten
<1> QED  BY DispatchInvariant, DInvCovers, PTL

\* What the run records say of their commits is so in the composition, too.
THEOREM RecordsStayTrue == Spec => []RecordsTellTheSource
<1>1. RunsSpec => []RecordsTellTheSource
  BY RecordsAreTrue
<1>2. ImplementsRuns <=> RunsSpec
  BY DEF ImplementsRuns
<1> QED  BY <1>1, <1>2, RunsImplemented, PTL
=============================================================================
