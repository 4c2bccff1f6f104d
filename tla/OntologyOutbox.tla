--------------------------- MODULE OntologyOutbox ---------------------------
(***************************************************************************)
(* The ontology outbox (packages/core/src/storage/ontology/in-memory/      *)
(* outbox.ts) and the dispatchers of several API processes that empty it   *)
(* into the broker (packages/core/src/events/outbox-dispatcher.ts).        *)
(*                                                                         *)
(* A drain pass leases a batch of due rows, publishes it as one broker     *)
(* call, splits a batch the broker refuses into halves to isolate the      *)
(* envelope it refuses, and marks or reschedules the rows under its lease. *)
(* Drains that come during a pass are coalesced into one more pass;        *)
(* stopping waits for a last pass and gives back what is not settled.      *)
(*                                                                         *)
(* An action is the code between two awaits.  Time is left out: a lease    *)
(* may end and a back-off may be over at any moment.                       *)
(***************************************************************************)
EXTENDS Integers, Sequences, FiniteSets

CONSTANTS Process,      \* API processes, each with one dispatcher
          MaxEvent,     \* bound: events are numbered in the order of their rows
          Poison,       \* events the broker refuses always
          LeaseId,      \* ids createLeaseId draws from
          NoLease,      \* the null lease
          BatchSize,    \* batchSize
          MaxIsolation, \* maxIsolationAttempts
          MaxClaims,    \* maxClaimsPerDrain
          MaxFaults,    \* bound: failures, crashes and lost leases
          MaxStops      \* bound: processes stopped

ASSUME OntologyOutboxAssumption ==
  /\ MaxEvent \in Nat
  /\ Poison \subseteq 1..MaxEvent
  /\ NoLease \notin LeaseId
  /\ BatchSize \in Nat \ {0}
  /\ MaxIsolation \in Nat \ {0}
  /\ MaxClaims \in Nat \ {0}
  /\ MaxFaults \in Nat /\ MaxStops \in Nat

VARIABLES rows,       \* rows[e]: the outbox row of event e
          disp,       \* disp[p]: the dispatcher of process p
          delivered,  \* events the broker has taken
          faults,     \* failures so far
          stops       \* stops so far

vars == <<rows, disp, delivered, faults, stops>>

Event == 1..MaxEvent

AbsentRow == [state |-> "absent", due |-> FALSE, lease |-> NoLease, expired |-> FALSE]

\* life:      "up", then "closing" while stop waits for its last pass, "forced"
\*            when the grace period is over, "stopped" when stop has returned.
\* pass:      what the running drain pass waits for.
\* again:     pendingDrain: one more pass follows this one.
\* asked:     history: a drain was accepted and no claim has been served since.
\* pending:   groups still to publish, the one being published first.
\* unsettled: claimed rows no settlement was begun for (ClaimedBatch.unsettled).
\* settling:  rows of the storage call under way, and of those that follow it.
Fresh == [life |-> "up", pass |-> "none", again |-> FALSE, asked |-> FALSE,
          claims |-> 0, full |-> FALSE, progress |-> FALSE, lease |-> NoLease,
          pending |-> <<>>, unsettled |-> {}, settling |-> {}, calls |-> 0]

StopRequested(r) == r.life \in {"forced", "stopped"}

Fault == faults < MaxFaults /\ faults' = faults + 1

Group(S, failed) == [rows |-> S, failed |-> failed]

-----------------------------------------------------------------------------
(* The rows *)

Unleased(r) == [r EXCEPT !.lease = NoLease, !.expired = FALSE]

\* Mutant: a row is claimed only while nobody holds a lease on it.
ClaimableUnleased(e) == /\ rows[e].state = "pending" /\ rows[e].due
                        /\ rows[e].lease = NoLease

Claimable(e) == /\ rows[e].state = "pending" /\ rows[e].due
                /\ rows[e].lease = NoLease \/ rows[e].expired

\* The oldest claimable rows, a batch of them at most.
Batch == {e \in Event : /\ Claimable(e)
                        /\ Cardinality({f \in Event : Claimable(f) /\ f < e}) < BatchSize}

Leased(S, lease) ==
  [e \in Event |-> IF e \in S THEN [rows[e] EXCEPT !.lease = lease, !.expired = FALSE]
                   ELSE rows[e]]

MarkedPublished(S) ==
  [e \in Event |-> IF e \in S THEN [Unleased(rows[e]) EXCEPT !.state = "published"]
                   ELSE rows[e]]

\* Rows are due again after a delay, or at once.
Rescheduled(S, due) ==
  [e \in Event |-> IF e \in S THEN [Unleased(rows[e]) EXCEPT !.due = due] ELSE rows[e]]

\* Mutant: the lease id is not looked at.
AnyLeaseMatches(p, S) == \A e \in S : rows[e].state = "pending"

\* validateLeaseBatch: every row still carries this dispatcher's lease.  The
\* lease need not run any more.
LeaseMatches(p, S) == \A e \in S : rows[e].lease = disp[p].lease

-----------------------------------------------------------------------------
(* The drain pass *)

StartPass(r) == [r EXCEPT !.pass = "claim", !.claims = 1]

\* The pass is over, with or without an error; a coalesced drain follows.
EndPass(r) ==
  LET ended == [Fresh EXCEPT !.life = r.life, !.asked = r.asked]
  IN  IF r.again /\ ~StopRequested(r) THEN StartPass(ended) ELSE ended

\* Mutant: a drain during a pass relies on that pass.
DrainJoinsPass(r) ==
  IF r.pass = "none" THEN [StartPass(r) EXCEPT !.asked = TRUE] ELSE [r EXCEPT !.asked = TRUE]

\* drain: start a pass, or have one follow the running pass.
Drain(r) ==
  IF r.pass = "none" THEN [StartPass(r) EXCEPT !.asked = TRUE]
  ELSE [r EXCEPT !.again = TRUE, !.asked = TRUE]

\* After a claimed batch: go on unless nothing was published or no more is due.
AfterBatch(r) ==
  IF StopRequested(r) \/ ~r.progress \/ ~r.full THEN EndPass(r)
  ELSE [Fresh EXCEPT !.life = r.life, !.again = r.again, !.asked = r.asked,
                     !.claims = r.claims, !.pass = "yield"]

\* Mutant: what is not settled is left to the lease when stopping.
FinallyKeeps(r, thrown) == IF thrown THEN EndPass(r) ELSE AfterBatch(r)

\* publishClaim's finally: when stopping, give back what is not settled.
Finally(r, thrown) ==
  IF StopRequested(r) /\ r.unsettled # {}
  THEN [r EXCEPT !.pass = "release", !.settling = r.unsettled, !.unsettled = {},
                 !.pending = <<>>]
  ELSE IF thrown THEN EndPass(r) ELSE AfterBatch(r)

\* Begin to settle the first group, as published or as failed.
SettleHead(r, pass) ==
  LET S == Head(r.pending).rows
  IN  [r EXCEPT !.pass = pass, !.settling = S, !.unsettled = @ \ S, !.pending = Tail(@)]

\* Mutant: a group that failed is published without asking for the budget.
NextGroupUncapped(r) ==
  IF r.pending = <<>> \/ StopRequested(r) THEN Finally(r, FALSE)
  ELSE [r EXCEPT !.pass = "publish", !.calls = @ + 1]

\* The top of publishClaim's loop.
NextGroup(r) ==
  IF r.pending = <<>> \/ StopRequested(r) THEN Finally(r, FALSE)
  ELSE IF r.calls >= MaxIsolation /\ Head(r.pending).failed
       THEN SettleHead(r, "reschedule")
  ELSE [r EXCEPT !.pass = "publish", !.calls = @ + 1]

FirstHalf(S) ==
  {e \in S : Cardinality({f \in S : f < e}) < (Cardinality(S) + 1) \div 2}

\* Mutant: a pair is not split.
RefusedPairs(r) ==
  LET S == Head(r.pending).rows
  IN  IF Cardinality(S) > 2 /\ r.calls < MaxIsolation
      THEN NextGroup([r EXCEPT !.pending =
                        <<Group(S \ FirstHalf(S), TRUE), Group(FirstHalf(S), TRUE)>> \o Tail(@)])
      ELSE SettleHead(r, "reschedule")

\* A refused group is split, the later half to be published first, or given up.
Refused(r) ==
  LET S == Head(r.pending).rows
  IN  IF Cardinality(S) > 1 /\ r.calls < MaxIsolation
      THEN NextGroup([r EXCEPT !.pending =
                        <<Group(S \ FirstHalf(S), TRUE), Group(FirstHalf(S), TRUE)>> \o Tail(@)])
      ELSE SettleHead(r, "reschedule")

Publishing(p) == Head(disp[p].pending).rows

-----------------------------------------------------------------------------
Init == /\ rows = [e \in Event |-> AbsentRow]
        /\ disp = [p \in Process |-> Fresh]
        /\ delivered = {} /\ faults = 0 /\ stops = 0

\* A mutation commits with its event's row; then the process is notified.
Commit(p, e) ==
  /\ disp[p].life \in {"up", "closing"}
  /\ rows[e].state = "absent" /\ \A f \in 1..(e - 1) : rows[f].state # "absent"
  /\ rows' = [rows EXCEPT ![e] = [AbsentRow EXCEPT !.state = "pending", !.due = TRUE]]
  /\ disp' = [disp EXCEPT ![p] = IF @.life = "up" THEN Drain(@) ELSE @]
  /\ UNCHANGED <<delivered, faults, stops>>

\* The maintenance interval is over, or the process starts.
Maintain(p) ==
  /\ disp[p].life = "up"
  /\ disp' = [disp EXCEPT ![p] = Drain(@)]
  /\ UNCHANGED <<rows, delivered, faults, stops>>

\* createLeaseId: an id no row carries and no batch was claimed under.
FreeLeases == LeaseId \ ({rows[e].lease : e \in Event} \cup {disp[p].lease : p \in Process})

NewLease == CHOOSE l \in FreeLeases : TRUE

\* The storage serves a claim; new rows are published, if the pass may go on.
Claim(p) ==
  /\ disp[p].pass = "claim"
  /\ IF Batch = {}
     THEN /\ disp' = [disp EXCEPT ![p] = EndPass([@ EXCEPT !.asked = FALSE])]
          /\ UNCHANGED rows
     ELSE /\ FreeLeases # {}
          /\ rows' = Leased(Batch, NewLease)
          /\ disp' = [disp EXCEPT ![p] = NextGroup(
                        [@ EXCEPT !.asked = FALSE, !.lease = NewLease, !.unsettled = Batch,
                                  !.full = (Cardinality(Batch) = BatchSize),
                                  !.pending = <<Group(Batch, FALSE)>>])]
  /\ UNCHANGED <<delivered, faults, stops>>

\* The broker takes the group.
PublishSucceeds(p) ==
  /\ disp[p].pass = "publish" /\ disp[p].life # "forced"
  /\ Publishing(p) \cap Poison = {}
  /\ delivered' = delivered \cup Publishing(p)
  /\ disp' = [disp EXCEPT ![p] = SettleHead(@, "mark")]
  /\ UNCHANGED <<rows, faults, stops>>

\* The broker refuses the group, or its answer is lost; it may have taken some.
PublishFails(p) ==
  /\ disp[p].pass = "publish" /\ disp[p].life # "forced"
  /\ IF Publishing(p) \cap Poison = {} THEN Fault ELSE UNCHANGED faults
  /\ \E S \in {{}, Publishing(p) \ Poison} : delivered' = delivered \cup S
  /\ disp' = [disp EXCEPT ![p] = Refused(@)]
  /\ UNCHANGED <<rows, stops>>

\* Mutant: an abandoned publication counts as made.
PublishAbandonedMarks(p) ==
  /\ disp[p].pass = "publish" /\ disp[p].life = "forced"
  /\ \E S \in {{}, Publishing(p) \ Poison} : delivered' = delivered \cup S
  /\ disp' = [disp EXCEPT ![p] = SettleHead(@, "mark")]
  /\ UNCHANGED <<rows, faults, stops>>

\* The grace period ends: the publication is abandoned and may land all the same.
PublishAbandoned(p) ==
  /\ disp[p].pass = "publish" /\ disp[p].life = "forced"
  /\ \E S \in {{}, Publishing(p) \ Poison} : delivered' = delivered \cup S
  /\ disp' = [disp EXCEPT ![p] = Finally(@, FALSE)]
  /\ UNCHANGED <<rows, faults, stops>>

Unwind(p) == disp' = [disp EXCEPT ![p] = Finally([@ EXCEPT !.settling = {}], TRUE)]

\* markPublished under the lease, or an error for the whole group.
Mark(p) ==
  /\ disp[p].pass = "mark"
  /\ IF LeaseMatches(p, disp[p].settling)
     THEN /\ rows' = MarkedPublished(disp[p].settling)
          /\ disp' = [disp EXCEPT ![p] = NextGroup([@ EXCEPT !.settling = {}, !.progress = TRUE])]
     ELSE UNCHANGED rows /\ Unwind(p)
  /\ UNCHANGED <<delivered, faults, stops>>

\* rowsByAttempts: a call takes the first row and those with as many attempts,
\* which may be any of the others.
SameAttempts(S) == {T \in SUBSET S : \E e \in T : \A f \in S : e <= f}

\* Go on with the rows of other attempts, or with the next group.
AfterReschedule(r, S) ==
  LET rest == [r EXCEPT !.settling = @ \ S]
  IN  IF rest.settling = {} THEN NextGroup(rest) ELSE rest

\* reschedule with a back-off under the lease, one call for each number of attempts.
Reschedule(p) ==
  /\ disp[p].pass = "reschedule"
  /\ \E S \in SameAttempts(disp[p].settling) :
       IF LeaseMatches(p, S)
       THEN /\ rows' = Rescheduled(S, FALSE)
            /\ disp' = [disp EXCEPT ![p] = AfterReschedule(@, S)]
       ELSE UNCHANGED rows /\ Unwind(p)
  /\ UNCHANGED <<delivered, faults, stops>>

\* rescheduleClaimedForShutdown; its error is only reported.
Release(p) ==
  /\ disp[p].pass = "release"
  /\ rows' = IF LeaseMatches(p, disp[p].settling)
             THEN Rescheduled(disp[p].settling, TRUE) ELSE rows
  /\ disp' = [disp EXCEPT ![p] = EndPass(@)]
  /\ UNCHANGED <<delivered, faults, stops>>

\* A full batch was published: claim more, or rearm at the end of the slice.
AfterYield(r) ==
  IF StopRequested(r) THEN EndPass(r)
  ELSE IF r.claims < MaxClaims THEN [r EXCEPT !.pass = "claim", !.claims = @ + 1]
  ELSE EndPass(IF r.life = "up" THEN Drain(r) ELSE r)

YieldEnds(p) == /\ disp[p].pass = "yield"
                /\ disp' = [disp EXCEPT ![p] = AfterYield(@)]
                /\ UNCHANGED <<rows, delivered, faults, stops>>

-----------------------------------------------------------------------------
(* Stopping and failures *)

\* stop: ask for a last pass, then refuse drains.
Stop(p) ==
  /\ disp[p].life = "up"
  /\ stops < MaxStops /\ stops' = stops + 1
  /\ disp' = [disp EXCEPT ![p] = [Drain(@) EXCEPT !.life = "closing"]]
  /\ UNCHANGED <<rows, delivered, faults>>

\* The last pass takes longer than shutdownTimeoutMs: it is given up.
GraceEnds(p) ==
  /\ disp[p].life = "closing" /\ disp[p].pass # "none"
  /\ disp' = [disp EXCEPT ![p].life = "forced", ![p].asked = FALSE]
  /\ UNCHANGED <<rows, delivered, faults, stops>>

\* stop returns once no pass runs.
Stopped(p) ==
  /\ disp[p].life \in {"closing", "forced"} /\ disp[p].pass = "none"
  /\ disp' = [disp EXCEPT ![p].life = "stopped"]
  /\ UNCHANGED <<rows, delivered, faults, stops>>

Restart(p) ==
  /\ disp[p].life = "stopped"
  /\ disp' = [disp EXCEPT ![p] = Fresh]
  /\ UNCHANGED <<rows, delivered, faults, stops>>

\* A storage call fails; it may have been applied.
StorageFails(p) ==
  /\ Fault
  /\ \/ /\ disp[p].pass = "claim" /\ FreeLeases # {}
        /\ rows' \in {rows, Leased(Batch, NewLease)}
        /\ disp' = [disp EXCEPT ![p] = EndPass([@ EXCEPT !.asked = disp[p].asked /\ disp[p].again])]
     \/ /\ disp[p].pass = "mark"
        /\ \/ UNCHANGED rows
           \/ LeaseMatches(p, disp[p].settling) /\ rows' = MarkedPublished(disp[p].settling)
        /\ Unwind(p)
     \/ /\ disp[p].pass = "reschedule"
        /\ \/ UNCHANGED rows
           \/ \E S \in SameAttempts(disp[p].settling) :
                LeaseMatches(p, S) /\ rows' = Rescheduled(S, FALSE)
        /\ Unwind(p)
     \/ /\ disp[p].pass = "release"
        /\ \/ UNCHANGED rows
           \/ /\ LeaseMatches(p, disp[p].settling)
              /\ rows' = Rescheduled(disp[p].settling, TRUE)
        /\ disp' = [disp EXCEPT ![p] = EndPass(@)]
  /\ UNCHANGED <<delivered, stops>>

\* The process dies and starts anew; a publication under way may land.
Crash(p) ==
  /\ disp[p] # Fresh /\ Fault
  /\ disp' = [disp EXCEPT ![p] = Fresh]
  /\ \/ UNCHANGED delivered
     \/ disp[p].pass = "publish" /\ delivered' = delivered \cup (Publishing(p) \ Poison)
  /\ UNCHANGED <<rows, stops>>

BackoffEnds(e) ==
  /\ rows[e].state = "pending" /\ ~rows[e].due
  /\ rows' = [rows EXCEPT ![e].due = TRUE]
  /\ UNCHANGED <<disp, delivered, faults, stops>>

\* Dispatcher p still has to settle row e of its batch.
Holds(p, e) == /\ e \in disp[p].unsettled \cup disp[p].settling
               /\ rows[e].lease = disp[p].lease

Lease(l) == {e \in Event : rows[e].lease = l /\ ~rows[e].expired}

LeaseIsOver(l) ==
  /\ Lease(l) # {}
  /\ rows' = [e \in Event |-> IF e \in Lease(l) THEN [rows[e] EXCEPT !.expired = TRUE]
                              ELSE rows[e]]
  /\ UNCHANGED <<disp, delivered, stops>>

\* A lease ends that nobody works under.
LeaseEnds(l) ==
  /\ ~\E p \in Process, e \in Lease(l) : Holds(p, e)
  /\ LeaseIsOver(l) /\ UNCHANGED faults

\* A lease ends under a dispatcher slower than leaseDurationMs.
LeaseOutlived(l) ==
  /\ \E p \in Process, e \in Lease(l) : Holds(p, e)
  /\ LeaseIsOver(l) /\ Fault

\* Maintenance deletes published rows after their retention.
Purge(S) ==
  /\ S # {} /\ \A e \in S : rows[e].state = "published"
  /\ rows' = [e \in Event |-> IF e \in S THEN [AbsentRow EXCEPT !.state = "purged"] ELSE rows[e]]
  /\ UNCHANGED <<disp, delivered, faults, stops>>

-----------------------------------------------------------------------------
\* The steps a pass and its stop take by themselves.
Steps(p) == \/ Claim(p) \/ PublishSucceeds(p) \/ PublishFails(p) \/ PublishAbandoned(p)
            \/ Mark(p) \/ Reschedule(p) \/ Release(p) \/ YieldEnds(p) \/ Stopped(p)

Next ==
  \/ \E p \in Process : \/ \E e \in Event : Commit(p, e)
                        \/ Maintain(p) \/ Steps(p) \/ Stop(p) \/ GraceEnds(p)
                        \/ Restart(p) \/ StorageFails(p) \/ Crash(p)
  \/ \E e \in Event : BackoffEnds(e)
  \/ \E S \in SUBSET Event : Purge(S)
  \/ \E l \in LeaseId : LeaseEnds(l) \/ LeaseOutlived(l)

Spec == Init /\ [][Next]_vars

\* Calls return, the maintenance loop drains again and again, a stopped process
\* is started again, and leases and back-offs end.
Fairness ==
  /\ \A p \in Process : WF_vars(Steps(p)) /\ WF_vars(Maintain(p)) /\ WF_vars(Restart(p))
  /\ \A e \in Event : WF_vars(BackoffEnds(e))
  /\ \A l \in LeaseId : WF_vars(LeaseEnds(l))

FairSpec == Spec /\ Fairness

-----------------------------------------------------------------------------
(* Properties *)

Feed == INSTANCE EventFeed WITH outbox <- [e \in Event |-> rows[e].state]

RowRecord == [state: Feed!RowState, due: BOOLEAN, lease: LeaseId \cup {NoLease}, expired: BOOLEAN]

Dispatcher == [life: {"up", "closing", "forced", "stopped"},
               pass: {"none", "claim", "publish", "mark", "reschedule", "release", "yield"},
               again: BOOLEAN, asked: BOOLEAN, claims: 0..MaxClaims, full: BOOLEAN,
               progress: BOOLEAN, lease: LeaseId \cup {NoLease},
               pending: Seq([rows: SUBSET Event, failed: BOOLEAN]),
               unsettled: SUBSET Event, settling: SUBSET Event,
               calls: 0..MaxIsolation]

\* The variables have the shapes of the code's fields, and no claimed batch costs
\* more broker calls than maxIsolationAttempts.
TypeOK == /\ rows \in [Event -> RowRecord]
          /\ disp \in [Process -> Dispatcher]
          /\ delivered \subseteq Event
          /\ faults \in 0..MaxFaults /\ stops \in 0..MaxStops

\* The leased, split and retried batches are an at-least-once feed: no row is
\* marked before the broker took its event, whatever answer is lost and whoever
\* is stopped, and a marked row is never reopened or marked twice.  The broker may
\* be given its event again, by whoever claimed the row before it was marked.
ImplementsFeed == Feed!FeedSpec

\* While a dispatcher works under a running lease nobody else touches its rows: a
\* late settlement of an earlier lease changes nothing.
OnlyTheHolderSettles ==
  [][\A p \in Process, e \in Event :
       Holds(p, e) /\ ~rows[e].expired /\ disp'[p] = disp[p] =>
         rows'[e].state = rows[e].state /\ rows'[e].lease = rows[e].lease]_vars

\* stop leaves no lease behind, as long as nothing has failed: rows it
\* has not settled can be claimed by the next process at once (outbox-dispatcher.ts,
\* ClaimedBatch: "unsettled rows remain recoverable during shutdown").
StoppedHoldsNothing ==
  faults = 0 => \A p \in Process : disp[p].life = "stopped" =>
    \A e \in Event : rows[e].lease = NoLease \/ \E q \in Process : Holds(q, e)

\* No drain is lost: a drain that was accepted is followed by a claim, by the
\* running pass or by one more, also when stop comes in between (outbox-
\* dispatcher.ts, drain: "This gives every post-commit notification a chance to
\* observe its own rows").
DrainsAreAnswered ==
  \A p \in Process : disp[p].asked =>
    /\ disp[p].pass = "claim" \/ disp[p].again
    /\ disp[p].life \in {"up", "closing"}

\* One poison event costs the others nothing: as long as nothing else fails, only
\* refused events are rescheduled as failed (outbox-dispatcher.ts: "Isolating one
\* poison row from a 1,000-row batch needs up to 21 broker calls").
OnlyPoisonIsBlamed ==
  faults = 0 => \A p \in Process : disp[p].pass = "reschedule" => disp[p].settling \subseteq Poison

\* Every event the broker accepts is in the end marked as published, although
\* leases are lost, processes stop and crash, and other events are refused.
HealthyIsPublished ==
  \A e \in Event \ Poison :
    rows[e].state = "pending" ~> rows[e].state \in {"published", "purged"}
=============================================================================
