------------------------- MODULE ProjectionDispatch -------------------------
(***************************************************************************)
(* How the versions of a dataset come to be projected: the dispatcher that *)
(* admits a run and publishes its job                                      *)
(* (packages/core/src/projections/run-dispatch.ts), the live path that     *)
(* calls it for every dataset.version.committed event                      *)
(* (packages/orchestrator/src/worker.ts) and the reconciler that recovers  *)
(* what the live path loses                                                *)
(* (packages/orchestrator/src/projection-dispatch-reconciler.ts), composed *)
(* with the runs and the workers of ProjectionRuns.                        *)
(*                                                                         *)
(* One projection and one orchestrator; the live path and the reconciler   *)
(* dispatch concurrently.                                                  *)
(***************************************************************************)
EXTENDS ProjectionRuns

VARIABLES committed,  \* the newest version in the lake, 0 before the first
          live,       \* versions whose event the live path still has to dispatch
          disp,       \* disp[d]: where the dispatch in flight for d stands
          rec,        \* where the pass of the reconciler stands
          aged,       \* runs that were queued when the current interval began
          cursor,     \* the reconciler's position in the change feed
          unverified  \* the projection must be looked up rather than taken from the feed

lakeVars     == <<committed, live>>
dispatchVars == <<committed, live, disp, rec, aged, cursor, unverified>>
vars         == <<runVars, dispatchVars>>

Dispatcher == {"live", "reconciler"}
NoCursor   == -1

NoDispatch == [pc |-> "idle", version |-> 0]
NoPass     == [pc |-> "wait", next |-> 0, stuck |-> {}, blind |-> FALSE]

Queued == {v \in Version : runs[v] = "queued"}

Init == /\ RunsInit
        /\ committed = 0 /\ live = {}
        /\ disp = [d \in Dispatcher |-> NoDispatch]
        /\ rec = NoPass /\ aged = {}
        /\ cursor = NoCursor /\ unverified = TRUE

-----------------------------------------------------------------------------
(* The lake, and one dispatch *)

\* The event of a commit may be lost on its way to the orchestrator.
CommitVersion ==
  /\ committed < MaxVersion
  /\ committed' = committed + 1
  /\ live' \in {live, live \cup {committed + 1}}
  /\ UNCHANGED <<runVars, disp, rec, aged, cursor, unverified>>

Dispatch(d, v) == disp' = [disp EXCEPT ![d] = [pc |-> "look", version |-> v]]

passVars == <<rec, cursor, unverified>>

RecAt(pc) == rec' = [rec EXCEPT !.pc = pc]

\* The end of reconcileTriggers: only a pass that read the feed moves the cursor.
TriggersReconciled(verified) ==
  /\ RecAt("list")
  /\ IF rec.blind THEN UNCHANGED <<cursor, unverified>>
     ELSE cursor' = rec.next /\ unverified' = (unverified /\ ~verified)

\* Mutant: a failed dispatch of the feed is not remembered.
StillVerified(ok) == unverified

\* A version of the feed whose dispatch failed makes the projection unverified.
Unverified(ok) == unverified \/ ~ok

\* retryBatch dispatches the events of a failed batch again; a run that could
\* not be republished is left to the next pass.
Continue(d, ok) ==
  IF d = "live"
  THEN /\ live' = IF ok THEN live \ {disp[d].version} ELSE live
       /\ UNCHANGED passVars
  ELSE /\ UNCHANGED live
       /\ \/ rec.pc = "feedDispatch" /\ RecAt("lookup") /\ unverified' = Unverified(ok)
             /\ UNCHANGED cursor
          \/ rec.pc = "lookupDispatch" /\ TriggersReconciled(ok)
          \/ rec.pc = "stuck" /\ UNCHANGED passVars

At(d, pc) == /\ disp' = [disp EXCEPT ![d].pc = pc]
             /\ UNCHANGED <<live, passVars>>

\* The dispatch of d returns or throws, and whoever awaited it goes on.
Ends(d, ok) == /\ disp' = [disp EXCEPT ![d] = NoDispatch]
               /\ Continue(d, ok)

\* dispatch: an existing run is published again while it is queued.
Look(d) ==
  LET v == disp[d].version IN
  /\ disp[d].pc = "look"
  /\ \/ runs[v] = "absent" /\ At(d, "admit")
     \/ runs[v] = "queued" /\ At(d, "publish")
     \/ runs[v] \notin {"absent", "queued"} /\ Ends(d, TRUE)
  /\ UNCHANGED <<runVars, committed, aged>>

\* Mutant: the job is published before the run is recorded.
AdmitUnpersisted(d) ==
  /\ disp[d].pc = "admit"
  /\ At(d, "publish")
  /\ UNCHANGED <<runVars, committed, aged>>

\* persistProjectionRun: one transaction reads the run again and queues it.
Admit(d) ==
  LET v == disp[d].version IN
  /\ disp[d].pc = "admit"
  /\ \/ QueueRun(v) /\ At(d, "publish")
     \/ runs[v] = "queued" /\ UNCHANGED runs /\ At(d, "publish")
     \/ runs[v] \notin {"absent", "queued"} /\ UNCHANGED runs /\ Ends(d, TRUE)
  /\ UNCHANGED <<holder, queueVars, sourceVars, worker, faults, committed, aged>>

Publish(d) ==
  /\ disp[d].pc = "publish"
  /\ Enqueue(disp[d].version)
  /\ Ends(d, TRUE)
  /\ UNCHANGED <<recordVars, lease, sourceVars, worker, faults, committed, aged>>

\* A call of the dispatch fails, with or without its effect: the run stays as
\* it is and the caller is told.
DispatchFails(d) ==
  LET v == disp[d].version IN
  /\ disp[d].pc \in {"look", "admit", "publish"} /\ Fault
  /\ \/ UNCHANGED <<runs, jobs>>
     \/ disp[d].pc = "admit" /\ QueueRun(v) /\ UNCHANGED jobs
     \/ disp[d].pc = "publish" /\ Enqueue(v) /\ UNCHANGED runs
  /\ Ends(d, FALSE)
  /\ UNCHANGED <<holder, lease, sourceVars, worker, committed, aged>>

DispatchStep(d) == Look(d) \/ Admit(d) \/ Publish(d)

\* The live path takes the next event.
LiveDispatch(v) ==
  /\ disp["live"].pc = "idle" /\ v \in live
  /\ Dispatch("live", v)
  /\ UNCHANGED <<runVars, lakeVars, passVars, aged>>

-----------------------------------------------------------------------------
(* A pass of the reconciler *)

\* readChangeFeed, when the timer of the interval fires: a first read reports no
\* version; later ones report the newest up to the position they return, which
\* may stop short of the lake's.
ReadFeed ==
  /\ rec.pc = "wait"
  /\ \E next \in 0..committed :
       /\ IF cursor = NoCursor THEN next = committed
          ELSE next >= cursor /\ (cursor < committed => next > cursor)
       /\ IF cursor # NoCursor /\ next > cursor /\ ~unverified
          THEN /\ rec' = [NoPass EXCEPT !.pc = "feedDispatch", !.next = next]
               /\ Dispatch("reconciler", next)
          ELSE /\ rec' = [NoPass EXCEPT !.pc = "lookup", !.next = next]
               /\ UNCHANGED disp
  /\ UNCHANGED <<runVars, lakeVars, aged, cursor, unverified>>

\* The cursor is no longer a position of the lake: everything is looked up.
FeedRestarts ==
  /\ rec.pc = "wait" /\ cursor # NoCursor /\ Fault
  /\ rec' = [NoPass EXCEPT !.pc = "lookup", !.next = committed]
  /\ unverified' = TRUE
  /\ UNCHANGED <<recordVars, queueVars, sourceVars, worker, lakeVars, disp, aged, cursor>>

\* Without the feed everything is looked up, and nothing counts as verified.
FeedFails ==
  /\ rec.pc = "wait" /\ Fault
  /\ rec' = [NoPass EXCEPT !.pc = "lookup", !.blind = TRUE]
  /\ UNCHANGED <<recordVars, queueVars, sourceVars, worker, lakeVars, disp, aged, cursor, unverified>>

\* reconcileLatest: read after the feed, so a commit racing it is in the next read.
LookUp ==
  /\ rec.pc = "lookup"
  /\ \/ /\ (unverified \/ rec.blind) /\ committed > 0
        /\ Dispatch("reconciler", committed) /\ RecAt("lookupDispatch")
        /\ UNCHANGED <<cursor, unverified>>
     \/ /\ ~(unverified \/ rec.blind) \/ committed = 0
        /\ TriggersReconciled(unverified) /\ UNCHANGED disp
  /\ UNCHANGED <<runVars, lakeVars, aged>>

LookUpFails ==
  /\ rec.pc = "lookup" /\ (unverified \/ rec.blind) /\ Fault
  /\ TriggersReconciled(FALSE)
  /\ UNCHANGED <<recordVars, queueVars, sourceVars, worker, lakeVars, disp, aged>>

\* Mutant: the pass ends without republishing.
ListNothing ==
  /\ rec.pc = "list"
  /\ RecAt("stuck")
  /\ UNCHANGED <<runVars, lakeVars, disp, aged, cursor, unverified>>

\* republishStuckRuns lists the runs that have been queued for an interval:
\* younger ones may still be in their first publication.
ListStuck ==
  /\ rec.pc = "list"
  /\ rec' = [rec EXCEPT !.pc = "stuck", !.stuck = aged \cap Queued]
  /\ UNCHANGED <<runVars, lakeVars, disp, aged, cursor, unverified>>

ListFails ==
  /\ rec.pc = "list" /\ Fault
  /\ RecAt("stuck")
  /\ UNCHANGED <<recordVars, queueVars, sourceVars, worker, lakeVars, disp, aged, cursor, unverified>>

Republish(v) ==
  /\ rec.pc = "stuck" /\ v \in rec.stuck /\ disp["reconciler"].pc = "idle"
  /\ rec' = [rec EXCEPT !.stuck = @ \ {v}]
  /\ Dispatch("reconciler", v)
  /\ UNCHANGED <<runVars, lakeVars, aged, cursor, unverified>>

EndPass ==
  /\ rec.pc = "stuck" /\ rec.stuck = {} /\ disp["reconciler"].pc = "idle"
  /\ rec' = NoPass /\ aged' = Queued
  /\ UNCHANGED <<runVars, lakeVars, disp, cursor, unverified>>

PassStep == \/ ReadFeed \/ LookUp \/ ListStuck \/ EndPass
            \/ \E v \in Version : Republish(v)

\* The orchestrator dies: events in flight, the cursor and the dispatches are gone.
OrchestratorCrash ==
  /\ Fault
  /\ live' = {}
  /\ disp' = [d \in Dispatcher |-> NoDispatch]
  /\ rec' = NoPass /\ aged' \in SUBSET Queued
  /\ cursor' = NoCursor /\ unverified' = TRUE
  /\ UNCHANGED <<recordVars, queueVars, sourceVars, worker, committed>>

-----------------------------------------------------------------------------
Next == \/ WorkersNext /\ UNCHANGED dispatchVars
        \/ CommitVersion
        \/ \E d \in Dispatcher : DispatchStep(d) \/ DispatchFails(d)
        \/ \E v \in Version : LiveDispatch(v)
        \/ PassStep \/ FeedRestarts \/ FeedFails \/ LookUpFails \/ ListFails
        \/ OrchestratorCrash

Spec == Init /\ [][Next]_vars

\* Workers go on, claims are fair to every job since a retried one backs off, a
\* lease nobody renews ends, calls are answered, and the reconciler's timer fires.
Fairness == /\ \A w \in Worker : WF_vars(WorkerStep(w) /\ UNCHANGED dispatchVars)
            /\ \A v \in Version : SF_vars((\E w \in Worker : Claim(w, v)) /\ UNCHANGED dispatchVars)
            /\ \A v \in Version : WF_vars(LeaseEnds(v) /\ UNCHANGED <<faults, dispatchVars>>)
            /\ \A d \in Dispatcher : WF_vars(DispatchStep(d))
            /\ WF_vars(\E v \in Version : LiveDispatch(v))
            /\ WF_vars(PassStep)

FairSpec == Spec /\ Fairness

-----------------------------------------------------------------------------
\* Type correctness, with what the identity of a run and of its job imply: a job
\* is published for a run that was recorded, and a run for a version that exists.
TypeOK ==
  /\ RunsTypeOK
  /\ committed \in 0..MaxVersion /\ live \subseteq 1..committed
  /\ cursor \in NoCursor..committed /\ unverified \in BOOLEAN
  /\ \A v \in Version : /\ jobs[v] # "absent" => runs[v] # "absent"
                        /\ runs[v] # "absent" => v <= committed

\* The workers see of the dispatchers what ProjectionRuns assumes, so that what
\* it shows of the runs holds here.
ImplementsRuns == RunsSpec

\* When the reconciler trusts its position in the change feed, the newest version
\* up to there, or a later one, has a run: no commit falls between the lost live
\* event, a failed dispatch and the cursor (reconcileTriggers).
NothingIsForgotten ==
  cursor > 0 /\ ~unverified => \E v \in cursor..committed : runs[v] # "absent"

\* The projection catches up again and again: no admitted run waits for a job and
\* the newest version is projected, or its run has ended without.  Lost events,
\* lost publications, failed lookups and crashes only delay it.
CatchesUp == []<>(/\ Queued = {}
                  /\ committed > 0 => runs[committed] \in Ended)
=============================================================================
