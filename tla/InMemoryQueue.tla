--------------------------- MODULE InMemoryQueue ----------------------------
(***************************************************************************)
(* One lane of the in-process queue provider                               *)
(* (packages/core/src/queues/in-memory.ts).  Every record that can still   *)
(* be delivered sits in one of two heaps: ready, ordered by priority, and  *)
(* waiting, ordered by the instant it becomes eligible.  A claim that      *)
(* finds nothing sleeps on a timer armed for the head of the waiting heap  *)
(* and is woken by any change of the lane.                                 *)
(*                                                                         *)
(* JavaScript runs each method body to completion between two awaits, so   *)
(* an action is the code between two awaits.  The heaps are sets; their    *)
(* order is the comparison function of the code.                           *)
(***************************************************************************)
EXTENDS Integers, FiniteSets

CONSTANTS Job,            \* caller-supplied job ids of the lane
          Claimer,        \* concurrent claim loops (worker processes' run loops)
          LeaseMs,        \* the leaseMs every worker passes
          ClaimLimit,     \* largest limit a claim passes
          MaxTimerDelay,  \* largest delay setTimeout accepts
          MaxTime,        \* bound: the last clock reading
          MaxDelay,       \* bound: how far ahead a job is made available
          MaxAttempt,     \* bound: a job claimed this often is not retried again
          MaxStepBack     \* bound: backward adjustments of the wall clock

ASSUME InMemoryQueueAssumption ==
  /\ LeaseMs \in Nat \ {0}
  /\ ClaimLimit \in Nat \ {0}
  /\ MaxTimerDelay \in Nat \ {0}
  /\ MaxTime \in Nat
  /\ MaxDelay \in Nat
  /\ MaxAttempt \in Nat
  /\ MaxStepBack \in Nat

VARIABLES now,        \* Date.now()
          rec,        \* rec[j]: the QueueRecord of job j
          nextSeq,    \* InMemoryQueueStore.nextSequence
          ready,      \* jobs in lane.ready
          waiting,    \* jobs in lane.waiting
          claims,     \* claims[c]: where claim loop c stands, and its timer
          stepsBack   \* backward adjustments of the clock so far

vars == <<now, rec, nextSeq, ready, waiting, claims, stepsBack>>

AbsentRecord == [state |-> "absent", availableAt |-> 0, createdAt |-> 0, seq |-> 0,
                 attempt |-> 0, lease |-> 0, expiry |-> 0]

\* store.add: the record of a job enqueued now.
NewRecord(at) == [state |-> "queued", availableAt |-> at, createdAt |-> now,
                  seq |-> nextSeq, attempt |-> 0, lease |-> 0, expiry |-> 0]

IsQueued(r) == r.state = "queued"

EligibleAt(r) == IF r.lease # 0 /\ r.expiry > r.availableAt
                 THEN r.expiry ELSE r.availableAt

ClearLease(r) == [r EXCEPT !.lease = 0, !.expiry = 0]

\* compareQueueRecords: availability, then creation, then sequence.
Before(j, k) ==
  \/ rec[j].availableAt < rec[k].availableAt
  \/ /\ rec[j].availableAt = rec[k].availableAt
     /\ \/ rec[j].createdAt < rec[k].createdAt
        \/ /\ rec[j].createdAt = rec[k].createdAt
           /\ rec[j].seq < rec[k].seq

\* requireActiveLease: the caller's lease id is the record's and still runs.
ActiveLease(j, l) == /\ IsQueued(rec[j])
                     /\ l # 0 /\ rec[j].lease = l
                     /\ rec[j].expiry > now

\* store.schedule for the records S, after their fields changed in this step:
\* put each into the heap it belongs to, or none, and wake every waiting claim.
Schedule(S) ==
  /\ ready'   = (ready \ S) \cup
                {j \in S : IsQueued(rec'[j]) /\ EligibleAt(rec'[j]) <= now}
  /\ waiting' = (waiting \ S) \cup
                {j \in S : IsQueued(rec'[j]) /\ EligibleAt(rec'[j]) > now}

Idle    == [status |-> "idle", timer |-> 0]
Looking == [status |-> "looking", timer |-> 0]
Stopped == [status |-> "stopped", timer |-> 0]

Woken(cl) == IF cl.status = "waiting" THEN Looking ELSE cl

\* Mutant: a change of the lane is not announced.
WakeNobody == claims' = claims

WakeWaiters == claims' = [c \in Claimer |-> Woken(claims[c])]

-----------------------------------------------------------------------------
Init ==
  /\ now = 0
  /\ rec = [j \in Job |-> AbsentRecord]
  /\ nextSeq = 1
  /\ ready = {} /\ waiting = {}
  /\ claims = [c \in Claimer |-> Idle]
  /\ stepsBack = 0

\* An id the store knows, in any state, returns the existing job.
Enqueue(j, at) ==
  /\ rec[j].state = "absent"
  /\ rec' = [rec EXCEPT ![j] = NewRecord(at)]
  /\ nextSeq' = nextSeq + 1
  /\ Schedule({j}) /\ WakeWaiters
  /\ UNCHANGED <<now, stepsBack>>

\* A worker calls claim with its abort signal.
CallClaim(c) ==
  /\ claims[c].status = "idle"
  /\ claims' = [claims EXCEPT ![c] = Looking]
  /\ UNCHANGED <<now, rec, nextSeq, ready, waiting, stepsBack>>

\* takeReady: expired waits move to ready, then ready is popped in order while
\* its head is available; a popped job whose lease runs again goes back.
\* NoneDue, DeliverableUnchecked and TakenByEligibility are mutants: expired waits
\* stay, the lease is not looked at again, a lease's end decides the priority.
NoneDue == {}

Due == {j \in waiting : EligibleAt(rec[j]) <= now}

Available == {j \in ready \cup Due : rec[j].availableAt <= now}

DeliverableUnchecked == Available

Deliverable == {j \in Available : EligibleAt(rec[j]) <= now}

TakenByEligibility(limit) ==
  {j \in Deliverable :
     Cardinality({k \in Deliverable : \/ EligibleAt(rec[k]) < EligibleAt(rec[j])
                                      \/ /\ EligibleAt(rec[k]) = EligibleAt(rec[j])
                                         /\ rec[k].seq < rec[j].seq}) < limit}

Taken(limit) == {j \in Deliverable :
                   Cardinality({k \in Deliverable : Before(k, j)}) < limit}

Popped(limit) == IF Cardinality(Taken(limit)) < limit
                 THEN Available
                 ELSE {j \in Available : \E k \in Taken(limit) : ~Before(k, j)}

\* The claim finds jobs: each gets an attempt, a lease, and its place in waiting.
ClaimTakes(c, limit) ==
  /\ claims[c].status = "looking"
  /\ Taken(limit) # {}
  /\ rec' = [j \in Job |->
               IF j \in Taken(limit)
               THEN [rec[j] EXCEPT !.attempt = @ + 1,
                                   !.lease   = rec[j].attempt + 1,
                                   !.expiry  = now + LeaseMs]
               ELSE rec[j]]
  /\ ready' = (ready \cup Due) \ Popped(limit)
  /\ waiting' = (waiting \ Due) \cup Popped(limit)
  /\ claims' = [[d \in Claimer |-> Woken(claims[d])] EXCEPT ![c] = Idle]
  /\ UNCHANGED <<now, nextSeq, stepsBack>>

\* waitForWork: the timer is armed for the head of the waiting heap alone.
NextDue(W) == CHOOSE j \in W : \A k \in W : EligibleAt(rec[j]) <= EligibleAt(rec[k])

TimerFor(W) ==
  IF W # {} /\ EligibleAt(rec[NextDue(W)]) - now < MaxTimerDelay
  THEN EligibleAt(rec[NextDue(W)]) - now
  ELSE MaxTimerDelay

\* Mutant: a popped job whose lease runs again is dropped.
ClaimWaitsDropping(c) ==
  /\ claims[c].status = "looking"
  /\ Deliverable = {}
  /\ ready' = (ready \cup Due) \ Available
  /\ waiting' = waiting \ Due
  /\ claims' = [claims EXCEPT ![c] = [status |-> "waiting", timer |-> TimerFor(waiting')]]
  /\ UNCHANGED <<now, rec, nextSeq, stepsBack>>

\* The claim finds nothing and goes to sleep.
ClaimWaits(c) ==
  /\ claims[c].status = "looking"
  /\ Deliverable = {}
  /\ ready' = (ready \cup Due) \ Available
  /\ waiting' = (waiting \ Due) \cup Available
  /\ claims' = [claims EXCEPT ![c] = [status |-> "waiting", timer |-> TimerFor(waiting')]]
  /\ UNCHANGED <<now, rec, nextSeq, stepsBack>>

TimerFires(c) ==
  /\ claims[c].status = "waiting" /\ claims[c].timer = 0
  /\ claims' = [claims EXCEPT ![c] = Looking]
  /\ UNCHANGED <<now, rec, nextSeq, ready, waiting, stepsBack>>

\* The worker's signal aborts: a claim in progress returns no job.
Abort(c) ==
  /\ claims[c].status # "stopped"
  /\ claims' = [claims EXCEPT ![c] = Stopped]
  /\ UNCHANGED <<now, rec, nextSeq, ready, waiting, stepsBack>>

\* What the settlement and renewal calls leave alone.
Settled(j) == /\ Schedule({j}) /\ WakeWaiters
              /\ UNCHANGED <<now, nextSeq, stepsBack>>

Complete(j, l) ==
  /\ ActiveLease(j, l)
  /\ rec' = [rec EXCEPT ![j] = ClearLease([@ EXCEPT !.state = "completed"])]
  /\ Settled(j)

Fail(j, l) ==
  /\ ActiveLease(j, l)
  /\ rec' = [rec EXCEPT ![j] = ClearLease([@ EXCEPT !.state = "failed"])]
  /\ Settled(j)

Retry(j, l, at) ==
  /\ ActiveLease(j, l)
  /\ rec' = [rec EXCEPT ![j] = ClearLease([@ EXCEPT !.availableAt = at])]
  /\ Settled(j)

RenewLease(j, l) ==
  /\ ActiveLease(j, l)
  /\ rec' = [rec EXCEPT ![j].expiry = now + LeaseMs]
  /\ Settled(j)

\* Time passes: the wall clock and the armed timers advance together.
Tick ==
  /\ now < MaxTime
  /\ now' = now + 1
  /\ claims' = [c \in Claimer |->
                  IF claims[c].timer > 0
                  THEN [claims[c] EXCEPT !.timer = @ - 1] ELSE claims[c]]
  /\ UNCHANGED <<rec, nextSeq, ready, waiting, stepsBack>>

\* The wall clock is set back; timers are monotonic and do not notice.
StepBack(t) ==
  /\ stepsBack < MaxStepBack
  /\ t < now
  /\ now' = t
  /\ stepsBack' = stepsBack + 1
  /\ UNCHANGED <<rec, nextSeq, ready, waiting, claims>>

Next ==
  \/ \E j \in Job, d \in 0..MaxDelay : Enqueue(j, now + d)
  \/ \E c \in Claimer : \/ CallClaim(c) \/ ClaimWaits(c)
                        \/ TimerFires(c) \/ Abort(c)
                        \/ \E limit \in 1..ClaimLimit : ClaimTakes(c, limit)
  \/ \E j \in Job : \E l \in 1..rec[j].attempt :   \* any lease ever granted
       \/ Complete(j, l) \/ Fail(j, l) \/ RenewLease(j, l)
       \/ /\ rec[j].attempt < MaxAttempt
          /\ \E d \in 0..MaxDelay : Retry(j, l, now + d)
  \/ Tick
  \/ \E t \in 0..MaxTime : StepBack(t)

\* A run loop calls claim again and again, the event loop runs a woken claim
\* and an expired timer, and time passes.  Nothing makes a caller settle.
Fairness ==
  /\ WF_vars(Tick)
  /\ \A c \in Claimer :
       /\ WF_vars(CallClaim(c)) /\ WF_vars(ClaimWaits(c)) /\ WF_vars(TimerFires(c))
       /\ WF_vars(\E limit \in 1..ClaimLimit : ClaimTakes(c, limit))

Spec == Init /\ [][Next]_vars
FairSpec == Spec /\ Fairness

-----------------------------------------------------------------------------
(* Properties *)

QueueRecord == [state: {"absent", "queued", "completed", "failed"},
                availableAt: Nat, createdAt: Nat, seq: Nat,
                attempt: Nat, lease: Nat, expiry: Nat]

\* The variables have the shapes of the code's fields.
TypeOK ==
  /\ now \in 0..MaxTime
  /\ rec \in [Job -> QueueRecord]
  /\ nextSeq \in Nat \ {0}
  /\ ready \in SUBSET Job /\ waiting \in SUBSET Job
  /\ claims \in [Claimer -> [status: {"idle", "looking", "waiting", "stopped"},
                             timer: Nat]]
  /\ stepsBack \in 0..MaxStepBack

\* No job is lost between the heaps: every record that can still be delivered
\* is in exactly one of them, and a settled record is in neither, whatever
\* order claims, settlements, renewals and clock adjustments come in.
HeapsHoldEveryLiveJob ==
  /\ ready \cap waiting = {}
  /\ ready \cup waiting = {j \in Job : IsQueued(rec[j])}

VisibleJob(j) == IsQueued(rec[j]) /\ EligibleAt(rec[j]) <= now

\* A claim serves the lane in order: what it takes comes before every visible
\* job it leaves, and it goes to sleep only when no job is visible
\* (in-memory.ts: "order all ready jobs by the original contract.  A lease
\* expiry controls eligibility, not the priority of a redelivered job").
ServesInOrder ==
  \A c \in Claimer : claims[c].status = "looking" =>
    /\ claims'[c].status = "idle" =>
         \A j, k \in Job :
           /\ rec'[j].attempt > rec[j].attempt
           /\ VisibleJob(k) /\ rec'[k].attempt = rec[k].attempt
           => Before(j, k)
    /\ claims'[c].status = "waiting" => \A j \in Job : ~VisibleJob(j)

ClaimServesInOrder == [][ServesInOrder]_vars

\* A sleeping claim wakes no later than the next instant at which a job of the
\* lane can be delivered (in-memory.ts, waitForWork: "Resolves when the lane
\* changes, its next delayed job or lease comes due, or signal aborts").
ArmedForEveryJob ==
  \A c \in Claimer, j \in Job :
    claims[c].status = "waiting" /\ IsQueued(rec[j]) =>
      \/ claims[c].timer = 0
      \/ claims[c].timer <= EligibleAt(rec[j]) - now

\* As long as the wall clock has not been set back, no claim sleeps past the
\* instant a job becomes due, whatever settlements, renewals and other claims
\* happen while it sleeps.
ArmedForNextDue == stepsBack = 0 => ArmedForEveryJob

\* While some claim loop runs, a visible job does not stay visible for ever:
\* a claim delivers it, however leases expire and jobs are put back.
VisibleJobIsServed ==
  \A j \in Job :
    VisibleJob(j) ~> (~VisibleJob(j) \/ \A c \in Claimer : claims[c].status = "stopped")

\* The heaps, timers and wake-ups implement the queue contract.
ContractView(r) == [state |-> r.state, availableAt |-> r.availableAt,
                    attempt |-> r.attempt, lease |-> r.lease, expiry |-> r.expiry]

Contract == INSTANCE LeaseQueue
              WITH jobs <- [j \in Job |-> ContractView(rec[j])],
                   Times <- 0..(MaxTime + MaxDelay)

ImplementsContract == Contract!QueueSpec
=============================================================================
