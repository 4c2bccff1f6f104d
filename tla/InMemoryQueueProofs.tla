------------------------ MODULE InMemoryQueueProofs -------------------------
(***************************************************************************)
(* Proofs about InMemoryQueue for every set of jobs and claim loops and    *)
(* every bound.  Types and the two heaps are one inductive invariant; the  *)
(* wake-up invariant adds that, while the clock is never set back, a ready *)
(* job really is visible.                                                  *)
(***************************************************************************)
EXTENDS InMemoryQueue, TLAPS, WellFoundedInduction, FiniteSetTheorems

USE InMemoryQueueAssumption

-----------------------------------------------------------------------------
(* Lemmas about records and timers *)

\* A nonempty set of natural numbers has a least element.
LEMMA LeastNat ==
  ASSUME NEW T, T \subseteq Nat, T # {}
  PROVE  \E m \in T : \A n \in T : m <= n
<1>1. \E m \in T : \A n \in T : ~ (<<n, m>> \in OpToRel(<, Nat))
  BY NatLessThanWellFounded, WFMin, Zenon
<1>2. \A m, n \in Nat : ~ (<<n, m>> \in OpToRel(<, Nat)) => m <= n
  BY DEF OpToRel
<1> QED
  BY <1>1, <1>2

\* The instant a record becomes eligible is a clock reading.
LEMMA EligibleAtType ==
  ASSUME NEW r \in QueueRecord
  PROVE  EligibleAt(r) \in Nat
  BY DEF QueueRecord, EligibleAt

\* The head of a nonempty waiting heap is its next due job.
LEMMA NextDueIsLeast ==
  ASSUME TypeOK, NEW W \in SUBSET Job, W # {}
  PROVE  /\ NextDue(W) \in W
         /\ \A k \in W : EligibleAt(rec[NextDue(W)]) <= EligibleAt(rec[k])
<1> DEFINE T == {EligibleAt(rec[j]) : j \in W}
<1>1. T \subseteq Nat /\ T # {}
  BY EligibleAtType DEF TypeOK
<1>2. PICK m \in T : \A n \in T : m <= n
  BY <1>1, LeastNat
<1>3. \E j \in W : \A k \in W : EligibleAt(rec[j]) <= EligibleAt(rec[k])
  BY <1>2
<1> QED
  BY <1>3 DEF NextDue

\* A sleeping claim's timer is a delay, and no longer than any job of the
\* waiting heap still needs.
LEMMA TimerFacts ==
  ASSUME TypeOK, NEW W \in SUBSET Job, \A j \in W : EligibleAt(rec[j]) > now
  PROVE  /\ TimerFor(W) \in Nat
         /\ \A j \in W : TimerFor(W) <= EligibleAt(rec[j]) - now
<1>1. \A j \in W : EligibleAt(rec[j]) \in Nat
  BY EligibleAtType DEF TypeOK
<1>2. CASE W = {}
  BY <1>2 DEF TimerFor
<1>3. CASE W # {}
  BY <1>1, <1>3, NextDueIsLeast DEF TimerFor, TypeOK
<1> QED
  BY <1>2, <1>3

-----------------------------------------------------------------------------
(* Type correctness *)

\* A record that is settled keeps its shape.
LEMMA ClearedRecord ==
  ASSUME NEW r \in QueueRecord, NEW s \in {"completed", "failed"}
  PROVE  ClearLease([r EXCEPT !.state = s]) \in QueueRecord
BY DEF ClearLease, QueueRecord

\* Every field and variable keeps its shape: no timer is negative, no record
\* loses a field, no counter leaves its range.
THEOREM TypeCorrect == Spec => []TypeOK
<1>1. Init => TypeOK
  BY DEF Init, TypeOK, AbsentRecord, QueueRecord, Idle
<1>2. TypeOK /\ [Next]_vars => TypeOK'
  <2> SUFFICES ASSUME TypeOK, [Next]_vars PROVE TypeOK'
    OBVIOUS
  <2> USE DEF TypeOK, Idle, Looking, Stopped, Woken, WakeWaiters
  <2>1. ASSUME NEW j \in Job, NEW d \in 0..MaxDelay, Enqueue(j, now + d)
        PROVE  TypeOK'
    <3>1. NewRecord(now + d) \in QueueRecord
      BY DEF NewRecord, QueueRecord
    <3> QED
      BY <2>1, <3>1 DEF Enqueue, Schedule
  <2>2. ASSUME NEW c \in Claimer, CallClaim(c) PROVE TypeOK'
    BY <2>2 DEF CallClaim
  <2>3. ASSUME NEW c \in Claimer, ClaimWaits(c) PROVE TypeOK'
    <3>1. waiting' \in SUBSET Job /\ ready' \in SUBSET Job
      BY <2>3 DEF ClaimWaits, Available, Due
    <3>2. \A j \in waiting' : EligibleAt(rec[j]) > now
      BY <2>3, EligibleAtType DEF ClaimWaits, Available, Due, Deliverable
    <3>3. TimerFor(waiting') \in Nat
      BY <3>1, <3>2, TimerFacts
    <3> QED
      BY <2>3, <3>1, <3>3 DEF ClaimWaits
  <2>4. ASSUME NEW c \in Claimer, TimerFires(c) PROVE TypeOK'
    BY <2>4 DEF TimerFires
  <2>5. ASSUME NEW c \in Claimer, Abort(c) PROVE TypeOK'
    BY <2>5 DEF Abort
  <2>6. ASSUME NEW c \in Claimer, NEW limit \in 1..ClaimLimit, ClaimTakes(c, limit)
        PROVE  TypeOK'
    <3>1. rec' \in [Job -> QueueRecord]
      <4> SUFFICES ASSUME NEW j \in Job PROVE rec'[j] \in QueueRecord
        BY <2>6 DEF ClaimTakes
      <4>1. now + LeaseMs \in Nat /\ rec[j].attempt + 1 \in Nat
        BY DEF QueueRecord
      <4>2. rec'[j] = rec[j] \/ rec'[j] = [rec[j] EXCEPT !.attempt = rec[j].attempt + 1,
                                                        !.lease = rec[j].attempt + 1,
                                                        !.expiry = now + LeaseMs]
        BY <2>6 DEF ClaimTakes
      <4> QED
        BY <4>1, <4>2 DEF QueueRecord
    <3>2. ready' \in SUBSET Job /\ waiting' \in SUBSET Job
      BY <2>6 DEF ClaimTakes, Due, Popped, Available
    <3> QED
      BY <2>6, <3>1, <3>2 DEF ClaimTakes
  <2>7. ASSUME NEW j \in Job, NEW l, Complete(j, l) PROVE TypeOK'
    <3>1. rec' \in [Job -> QueueRecord]
      <4>1. ClearLease([rec[j] EXCEPT !.state = "completed"]) \in QueueRecord
        BY ClearedRecord
      <4> QED
        BY <2>7, <4>1 DEF Complete
    <3> QED
      BY <2>7, <3>1 DEF Complete, Settled, Schedule
  <2>8. ASSUME NEW j \in Job, NEW l, Fail(j, l) PROVE TypeOK'
    <3>1. rec' \in [Job -> QueueRecord]
      <4>1. ClearLease([rec[j] EXCEPT !.state = "failed"]) \in QueueRecord
        BY ClearedRecord
      <4> QED
        BY <2>8, <4>1 DEF Fail
    <3> QED
      BY <2>8, <3>1 DEF Fail, Settled, Schedule
  <2>9. ASSUME NEW j \in Job, NEW l, NEW d \in 0..MaxDelay, Retry(j, l, now + d)
        PROVE  TypeOK'
    <3>1. now + d \in Nat
      OBVIOUS
    <3>2. rec'[j] \in QueueRecord /\ rec' = [rec EXCEPT ![j] = rec'[j]]
      BY <2>9, <3>1 DEF Retry, ClearLease, QueueRecord
    <3> QED
      BY <2>9, <3>2 DEF Retry, Settled, Schedule
  <2>10. ASSUME NEW j \in Job, NEW l, RenewLease(j, l) PROVE TypeOK'
    BY <2>10 DEF RenewLease, Settled, Schedule, QueueRecord
  <2>11. ASSUME Tick PROVE TypeOK'
    BY <2>11 DEF Tick
  <2>12. ASSUME NEW t \in 0..MaxTime, StepBack(t) PROVE TypeOK'
    BY <2>12 DEF StepBack
  <2>13. CASE UNCHANGED vars
    BY <2>13 DEF vars
  <2> QED
    BY <2>1, <2>2, <2>3, <2>4, <2>5, <2>6, <2>7, <2>8, <2>9, <2>10, <2>11, <2>12, <2>13
       DEF Next
<1> QED
  BY <1>1, <1>2, PTL DEF Spec
-----------------------------------------------------------------------------
(* The heaps *)

\* Rescheduling one record keeps both heaps exact.
LEMMA ScheduleKeepsHeaps ==
  ASSUME TypeOK, TypeOK', HeapsHoldEveryLiveJob, NEW j \in Job, Schedule({j}),
         \A k \in Job \ {j} : rec'[k] = rec[k]
  PROVE  HeapsHoldEveryLiveJob'
<1>1. EligibleAt(rec'[j]) \in Nat /\ now \in Nat
  BY EligibleAtType DEF TypeOK
<1>2. EligibleAt(rec'[j]) <= now <=> ~(EligibleAt(rec'[j]) > now)
  BY <1>1
<1> QED
  BY <1>2 DEF HeapsHoldEveryLiveJob, Schedule, IsQueued

\* Every job that can still be delivered is in exactly one heap, for any number
\* of jobs and claim loops and any order of calls and clock adjustments.
THEOREM HeapsExact == Spec => []HeapsHoldEveryLiveJob
<1>1. Init => HeapsHoldEveryLiveJob
  BY DEF Init, HeapsHoldEveryLiveJob, AbsentRecord, IsQueued
<1>2. TypeOK /\ TypeOK' /\ HeapsHoldEveryLiveJob /\ [Next]_vars => HeapsHoldEveryLiveJob'
  <2> SUFFICES ASSUME TypeOK, TypeOK', HeapsHoldEveryLiveJob, [Next]_vars
               PROVE  HeapsHoldEveryLiveJob'
    OBVIOUS
  <2>1. ASSUME NEW j \in Job, NEW d \in 0..MaxDelay, Enqueue(j, now + d)
        PROVE  HeapsHoldEveryLiveJob'
    BY <2>1, ScheduleKeepsHeaps DEF Enqueue, TypeOK
  <2>2. ASSUME NEW c \in Claimer, ClaimWaits(c) PROVE HeapsHoldEveryLiveJob'
    BY <2>2 DEF ClaimWaits, HeapsHoldEveryLiveJob, Available, Due
  <2>3. ASSUME NEW c \in Claimer, NEW limit \in 1..ClaimLimit, ClaimTakes(c, limit)
        PROVE  HeapsHoldEveryLiveJob'
    <3>1. \A j \in Job : rec'[j].state = rec[j].state
      <4> SUFFICES ASSUME NEW j \in Job PROVE rec'[j].state = rec[j].state
        OBVIOUS
      <4>1. rec[j] \in QueueRecord
        BY DEF TypeOK
      <4> QED
        BY <2>3, <4>1 DEF ClaimTakes, QueueRecord
    <3>2. Popped(limit) \subseteq ready \cup Due /\ Due \subseteq waiting
      BY DEF Popped, Available, Due
    <3> QED
      BY <2>3, <3>1, <3>2 DEF ClaimTakes, HeapsHoldEveryLiveJob, IsQueued
  <2>4. ASSUME NEW j \in Job, NEW l, Complete(j, l) PROVE HeapsHoldEveryLiveJob'
    BY <2>4, ScheduleKeepsHeaps DEF Complete, Settled, TypeOK
  <2>5. ASSUME NEW j \in Job, NEW l, Fail(j, l) PROVE HeapsHoldEveryLiveJob'
    BY <2>5, ScheduleKeepsHeaps DEF Fail, Settled, TypeOK
  <2>6. ASSUME NEW j \in Job, NEW l, NEW d \in 0..MaxDelay, Retry(j, l, now + d)
        PROVE  HeapsHoldEveryLiveJob'
    BY <2>6, ScheduleKeepsHeaps DEF Retry, Settled, TypeOK
  <2>7. ASSUME NEW j \in Job, NEW l, RenewLease(j, l) PROVE HeapsHoldEveryLiveJob'
    BY <2>7, ScheduleKeepsHeaps DEF RenewLease, Settled, TypeOK
  <2>8. CASE \/ \E c \in Claimer : CallClaim(c) \/ TimerFires(c) \/ Abort(c)
             \/ Tick
             \/ \E t \in 0..MaxTime : StepBack(t)
             \/ UNCHANGED vars
    BY <2>8 DEF CallClaim, TimerFires, Abort, Tick, StepBack, vars,
                HeapsHoldEveryLiveJob
  <2> QED
    BY <2>1, <2>2, <2>3, <2>4, <2>5, <2>6, <2>7, <2>8 DEF Next
<1> QED
  BY <1>1, <1>2, TypeCorrect, PTL DEF Spec
-----------------------------------------------------------------------------
(* Waiting claims *)

\* While the clock is never set back, every job of the ready heap is visible.
ReadyIsDue == \A j \in ready : EligibleAt(rec[j]) <= now

NobodySleeps == \A c \in Claimer : claims[c].status # "waiting"

\* After a record was rescheduled, every claim is awake and the ready heap
\* still holds due jobs only.
LEMMA ScheduleWakes ==
  ASSUME TypeOK, ReadyIsDue, NEW j \in Job, Schedule({j}), WakeWaiters, now' = now,
         \A k \in Job \ {j} : rec'[k] = rec[k]
  PROVE  ReadyIsDue' /\ NobodySleeps'
<1>1. ReadyIsDue'
  BY DEF ReadyIsDue, Schedule, TypeOK
<1>2. NobodySleeps'
  BY DEF NobodySleeps, WakeWaiters, Woken, Looking, TypeOK
<1> QED
  BY <1>1, <1>2

\* The records a claim leases are among those it pops.
LEMMA TakenArePopped ==
  ASSUME TypeOK, NEW limit
  PROVE  Taken(limit) \subseteq Popped(limit)
<1>1. \A j \in Job : ~Before(j, j)
  BY DEF Before, TypeOK, QueueRecord
<1>2. Taken(limit) \subseteq Available /\ Available \subseteq Job
  BY DEF Taken, Deliverable, Available, Due, TypeOK
<1> QED
  BY <1>1, <1>2 DEF Popped

\* The count of backward adjustments never goes down.
LEMMA NotSetBackBefore ==
  ASSUME TypeOK, [Next]_vars, stepsBack' = 0
  PROVE  stepsBack = 0
<1>1. ASSUME NEW t \in 0..MaxTime, StepBack(t) PROVE FALSE
  BY <1>1 DEF StepBack, TypeOK
<1> QED
  BY <1>1 DEF Next, vars, Enqueue, CallClaim, ClaimWaits, TimerFires, Abort, ClaimTakes,
              Complete, Fail, RenewLease, Retry, Settled, Tick

\* Until the wall clock is first set back, a sleeping claim wakes in time for
\* the next job that can be delivered (in-memory.ts, waitForWork).
THEOREM WakesInTime == Spec => []ArmedForNextDue
<1> DEFINE Armed == ReadyIsDue /\ ArmedForEveryJob
           Inv == stepsBack = 0 => Armed
<1>1. Init => Inv
  BY DEF Init, ReadyIsDue, ArmedForEveryJob, Idle
<1>2. /\ TypeOK /\ TypeOK'
      /\ HeapsHoldEveryLiveJob /\ HeapsHoldEveryLiveJob'
      /\ Inv /\ [Next]_vars
      => Inv'
  <2> SUFFICES ASSUME TypeOK, TypeOK', HeapsHoldEveryLiveJob, HeapsHoldEveryLiveJob',
                      Inv, [Next]_vars, stepsBack' = 0
               PROVE  Armed'
    OBVIOUS
  <2> Armed
    BY NotSetBackBefore
  <2> HIDE DEF Inv
  <2>0. NobodySleeps' => ArmedForEveryJob'
    BY DEF NobodySleeps, ArmedForEveryJob
  <2>1. ASSUME NEW j \in Job, NEW d \in 0..MaxDelay, Enqueue(j, now + d) PROVE Armed'
    BY <2>0, <2>1, ScheduleWakes DEF Enqueue, TypeOK
  <2>2. ASSUME NEW j \in Job, NEW l, Complete(j, l) PROVE Armed'
    BY <2>0, <2>2, ScheduleWakes DEF Complete, Settled, TypeOK
  <2>3. ASSUME NEW j \in Job, NEW l, Fail(j, l) PROVE Armed'
    BY <2>0, <2>3, ScheduleWakes DEF Fail, Settled, TypeOK
  <2>4. ASSUME NEW j \in Job, NEW l, NEW d \in 0..MaxDelay, Retry(j, l, now + d)
        PROVE  Armed'
    BY <2>0, <2>4, ScheduleWakes DEF Retry, Settled, TypeOK
  <2>5. ASSUME NEW j \in Job, NEW l, RenewLease(j, l) PROVE Armed'
    BY <2>0, <2>5, ScheduleWakes DEF RenewLease, Settled, TypeOK
  <2>6. ASSUME NEW c \in Claimer, NEW limit \in 1..ClaimLimit, ClaimTakes(c, limit)
        PROVE  Armed'
    <3>1. NobodySleeps'
      BY <2>6 DEF ClaimTakes, NobodySleeps, Woken, Looking, Idle, TypeOK
    <3>2. \A j \in ready' : j \in Job /\ rec'[j] = rec[j] /\ EligibleAt(rec[j]) <= now
      BY <2>6, TakenArePopped DEF ClaimTakes, Due, ReadyIsDue, TypeOK
    <3> QED
      BY <2>0, <2>6, <3>1, <3>2 DEF ClaimTakes, ReadyIsDue
  <2>7. ASSUME NEW c \in Claimer, ClaimWaits(c) PROVE Armed'
    <3>1. \A j \in ready \cup Due : j \in Deliverable
      BY EligibleAtType DEF Deliverable, Available, Due, ReadyIsDue, EligibleAt,
                            TypeOK, QueueRecord
    <3>2. ready' = {}
      BY <2>7, <3>1 DEF ClaimWaits
    <3>3. waiting' \in SUBSET Job /\ \A j \in waiting' : EligibleAt(rec[j]) > now
      BY <2>7, EligibleAtType DEF ClaimWaits, Available, Due, Deliverable, TypeOK
    <3>4. \A j \in Job : IsQueued(rec[j]) => j \in waiting'
      BY <2>7, <3>2 DEF HeapsHoldEveryLiveJob, ClaimWaits
    <3>5. ArmedForEveryJob'
      BY <2>7, <3>3, <3>4, TimerFacts DEF ClaimWaits, ArmedForEveryJob, TypeOK
    <3> QED
      BY <3>2, <3>5 DEF ReadyIsDue
  <2>8. CASE Tick
    <3>1. ReadyIsDue'
      BY <2>8, EligibleAtType DEF Tick, ReadyIsDue, TypeOK
    <3>2. ASSUME NEW c \in Claimer, NEW j \in Job,
                 claims'[c].status = "waiting", IsQueued(rec'[j])
          PROVE  \/ claims'[c].timer = 0
                 \/ claims'[c].timer <= EligibleAt(rec'[j]) - now'
      BY <2>8, <3>2, EligibleAtType DEF Tick, ArmedForEveryJob, TypeOK
    <3> QED
      BY <3>1, <3>2 DEF ArmedForEveryJob
  <2>9. CASE \E c \in Claimer : CallClaim(c) \/ TimerFires(c) \/ Abort(c)
    BY <2>9 DEF CallClaim, TimerFires, Abort, Looking, Stopped, ReadyIsDue,
                ArmedForEveryJob, TypeOK
  <2>10. ASSUME NEW t \in 0..MaxTime, StepBack(t) PROVE FALSE
    BY <2>10, NotSetBackBefore DEF StepBack
  <2>11. CASE UNCHANGED vars
    BY <2>11 DEF vars, ReadyIsDue, ArmedForEveryJob
  <2> QED
    BY <2>1, <2>2, <2>3, <2>4, <2>5, <2>6, <2>7, <2>8, <2>9, <2>10, <2>11 DEF Next
<1>3. Inv => ArmedForNextDue
  BY DEF ArmedForNextDue
<1> QED
  BY <1>1, <1>2, <1>3, TypeCorrect, HeapsExact, PTL DEF Spec
-----------------------------------------------------------------------------
(* The queue contract *)

\* The lane as the contract sees it.
contractJobs == [j \in Job |-> ContractView(rec[j])]

\* Changing one record changes the contract's view of that job alone.
LEMMA ViewOfUpdate ==
  ASSUME TypeOK, NEW j \in Job, NEW r, rec' = [rec EXCEPT ![j] = r]
  PROVE  contractJobs' = [contractJobs EXCEPT ![j] = ContractView(r)]
  BY DEF contractJobs, TypeOK

\* A record whose lease runs holds it in the contract's view as well.
LEMMA ActiveLeaseView ==
  ASSUME TypeOK, NEW j \in Job, NEW l, ActiveLease(j, l)
  PROVE  /\ l = contractJobs[j].lease
         /\ Contract!ActiveLease(j, contractJobs[j].lease)
  BY DEF ActiveLease, Contract!ActiveLease, Contract!NoLease, contractJobs, ContractView,
         IsQueued, TypeOK, QueueRecord

\* Heaps, timers and wake-ups implement the queue contract: every step of the
\* lane is a step the contract allows, or leaves jobs and clock alone.
THEOREM ContractImplemented == Spec => ImplementsContract
<1>1. Init => Contract!QueueInit
  BY DEF Init, Contract!QueueInit, Contract!AbsentJob, Contract!NoLease, AbsentRecord,
         ContractView
<1>2. TypeOK /\ HeapsHoldEveryLiveJob /\ [Next]_vars => [Contract!QueueNext]_(Contract!queueVars)
  <2> SUFFICES ASSUME TypeOK, HeapsHoldEveryLiveJob, [Next]_vars
               PROVE  Contract!QueueNext \/ UNCHANGED Contract!queueVars
    OBVIOUS
  <2> DEFINE Times == 0..(MaxTime + MaxDelay)
  <2>0. /\ contractJobs = [j \in Job |-> ContractView(rec[j])]
        /\ \A j \in Job : contractJobs[j] = ContractView(rec[j])
        /\ \A d \in 0..MaxDelay : now + d \in Times
        /\ \A t \in 0..MaxTime : t \in Times
    BY DEF contractJobs, TypeOK
  <2>1. ASSUME NEW j \in Job, NEW d \in 0..MaxDelay, Enqueue(j, now + d)
        PROVE  Contract!Enqueue(j, now + d)
    <3>1. contractJobs[j].state = "absent"
      BY <2>0, <2>1 DEF Enqueue, ContractView
    <3>2. ContractView(NewRecord(now + d)) = Contract!NewJob(now + d)
      BY DEF Contract!NewJob, Contract!NoLease, ContractView, NewRecord
    <3>3. contractJobs' = [contractJobs EXCEPT ![j] = ContractView(NewRecord(now + d))]
      BY <2>1, ViewOfUpdate DEF Enqueue
    <3> QED
      BY <2>1, <3>1, <3>2, <3>3 DEF Enqueue, Contract!Enqueue, contractJobs
  <2>2. ASSUME NEW c \in Claimer, NEW limit \in 1..ClaimLimit, ClaimTakes(c, limit)
        PROVE  Contract!Claim(Taken(limit)) /\ Taken(limit) \in SUBSET Job
    <3>1. Taken(limit) \in SUBSET Job /\ \A j \in Taken(limit) : IsQueued(rec[j])
      BY DEF Taken, Deliverable, Available, Due, HeapsHoldEveryLiveJob
    <3>2. \A j \in Taken(limit) : rec[j].availableAt <= now /\ EligibleAt(rec[j]) <= now
      BY DEF Taken, Deliverable, Available
    <3>3. \A j \in Taken(limit) : Contract!Visible(j)
      BY <3>1, <3>2 DEF Contract!Visible, Contract!NoLease, contractJobs, ContractView,
                        IsQueued, EligibleAt, TypeOK, QueueRecord
    <3>4. \A j \in Job : ContractView(rec'[j]) =
            IF j \in Taken(limit)
            THEN [contractJobs[j] EXCEPT !.attempt = @ + 1,
                                         !.lease   = contractJobs[j].attempt + 1,
                                         !.expiry  = now + LeaseMs]
            ELSE contractJobs[j]
      <4> SUFFICES ASSUME NEW j \in Job
                   PROVE  ContractView(rec'[j]) =
                            IF j \in Taken(limit)
                            THEN [contractJobs[j] EXCEPT !.attempt = @ + 1,
                                                         !.lease   = contractJobs[j].attempt + 1,
                                                         !.expiry  = now + LeaseMs]
                            ELSE contractJobs[j]
        OBVIOUS
      <4>1. rec[j] \in QueueRecord
        BY DEF TypeOK
      <4> QED
        BY <2>0, <2>2, <4>1 DEF ClaimTakes, ContractView, QueueRecord
    <3> QED
      BY <2>0, <2>2, <3>1, <3>3, <3>4 DEF ClaimTakes, Contract!Claim
  <2>3. ASSUME NEW j \in Job, NEW l, Complete(j, l)
        PROVE  Contract!Complete(j, contractJobs[j].lease)
    <3>1. PICK r \in QueueRecord : r = rec[j]
      BY DEF TypeOK
    <3>2. PICK v \in Contract!JobRecord : v = contractJobs[j] /\ v = ContractView(r)
      BY <2>0, <3>1 DEF ContractView, Contract!JobRecord, QueueRecord
    <3> DEFINE new == ClearLease([r EXCEPT !.state = "completed"])
    <3>3. ContractView(new) = Contract!Released(v, "completed", v.availableAt)
      <4>1. ContractView(new) = [state |-> "completed", availableAt |-> r.availableAt, attempt |-> r.attempt,
              lease |-> 0, expiry |-> 0]
        BY DEF ContractView, ClearLease, QueueRecord
      <4>2. Contract!Released(v, "completed", v.availableAt) = [state |-> "completed", availableAt |-> v.availableAt, attempt |-> v.attempt,
              lease |-> 0, expiry |-> 0]
        BY DEF Contract!Released, Contract!NoLease, Contract!JobRecord
      <4>3. v.availableAt = r.availableAt /\ v.attempt = r.attempt
        BY <3>2 DEF ContractView
      <4> QED
        BY <4>1, <4>2, <4>3
    <3>4. ActiveLease(j, l) /\ rec' = [rec EXCEPT ![j] = new] /\ now' = now
      BY <2>3, <3>1 DEF Complete, Settled
    <3>5. contractJobs' = [contractJobs EXCEPT ![j] = ContractView(new)]
      BY <3>4, ViewOfUpdate
    <3>6. Contract!ActiveLease(j, contractJobs[j].lease)
      BY <3>4, ActiveLeaseView
    <3> QED
      BY <3>2, <3>3, <3>4, <3>5, <3>6 DEF Contract!Complete, contractJobs
  <2>4. ASSUME NEW j \in Job, NEW l, Fail(j, l)
        PROVE  Contract!Fail(j, contractJobs[j].lease)
    <3>1. PICK r \in QueueRecord : r = rec[j]
      BY DEF TypeOK
    <3>2. PICK v \in Contract!JobRecord : v = contractJobs[j] /\ v = ContractView(r)
      BY <2>0, <3>1 DEF ContractView, Contract!JobRecord, QueueRecord
    <3> DEFINE new == ClearLease([r EXCEPT !.state = "failed"])
    <3>3. ContractView(new) = Contract!Released(v, "failed", v.availableAt)
      <4>1. ContractView(new) = [state |-> "failed", availableAt |-> r.availableAt, attempt |-> r.attempt,
              lease |-> 0, expiry |-> 0]
        BY DEF ContractView, ClearLease, QueueRecord
      <4>2. Contract!Released(v, "failed", v.availableAt) = [state |-> "failed", availableAt |-> v.availableAt, attempt |-> v.attempt,
              lease |-> 0, expiry |-> 0]
        BY DEF Contract!Released, Contract!NoLease, Contract!JobRecord
      <4>3. v.availableAt = r.availableAt /\ v.attempt = r.attempt
        BY <3>2 DEF ContractView
      <4> QED
        BY <4>1, <4>2, <4>3
    <3>4. ActiveLease(j, l) /\ rec' = [rec EXCEPT ![j] = new] /\ now' = now
      BY <2>4, <3>1 DEF Fail, Settled
    <3>5. contractJobs' = [contractJobs EXCEPT ![j] = ContractView(new)]
      BY <3>4, ViewOfUpdate
    <3>6. Contract!ActiveLease(j, contractJobs[j].lease)
      BY <3>4, ActiveLeaseView
    <3> QED
      BY <3>2, <3>3, <3>4, <3>5, <3>6 DEF Contract!Fail, contractJobs
  <2>5. ASSUME NEW j \in Job, NEW l, NEW d \in 0..MaxDelay, Retry(j, l, now + d)
        PROVE  Contract!Retry(j, contractJobs[j].lease, now + d)
    <3>1. PICK r \in QueueRecord : r = rec[j]
      BY DEF TypeOK
    <3>2. PICK v \in Contract!JobRecord : v = contractJobs[j] /\ v = ContractView(r)
      BY <2>0, <3>1 DEF ContractView, Contract!JobRecord, QueueRecord
    <3> DEFINE new == ClearLease([r EXCEPT !.availableAt = now + d])
    <3>3. ContractView(new) = Contract!Released(v, "queued", now + d)
      <4>1. ContractView(new) = [state |-> "queued", availableAt |-> now + d, attempt |-> r.attempt,
              lease |-> 0, expiry |-> 0]
        BY <2>5, <3>1 DEF ContractView, ClearLease, QueueRecord, Retry, ActiveLease, IsQueued
      <4>2. Contract!Released(v, "queued", now + d) = [state |-> "queued", availableAt |-> now + d, attempt |-> v.attempt,
              lease |-> 0, expiry |-> 0]
        BY DEF Contract!Released, Contract!NoLease, Contract!JobRecord
      <4>3. v.attempt = r.attempt
        BY <3>2 DEF ContractView
      <4> QED
        BY <4>1, <4>2, <4>3
    <3>4. ActiveLease(j, l) /\ rec' = [rec EXCEPT ![j] = new] /\ now' = now
      BY <2>5, <3>1 DEF Retry, Settled
    <3>5. contractJobs' = [contractJobs EXCEPT ![j] = ContractView(new)]
      BY <3>4, ViewOfUpdate
    <3>6. Contract!ActiveLease(j, contractJobs[j].lease)
      BY <3>4, ActiveLeaseView
    <3> QED
      BY <3>2, <3>3, <3>4, <3>5, <3>6 DEF Contract!Retry, contractJobs
  <2>6. ASSUME NEW j \in Job, NEW l, RenewLease(j, l)
        PROVE  Contract!Renew(j, contractJobs[j].lease)
    <3>1. PICK r \in QueueRecord : r = rec[j]
      BY DEF TypeOK
    <3>2. PICK v \in Contract!JobRecord : v = contractJobs[j] /\ v = ContractView(r)
      BY <2>0, <3>1 DEF ContractView, Contract!JobRecord, QueueRecord
    <3> DEFINE new == [r EXCEPT !.expiry = now + LeaseMs]
    <3>3. ContractView(new) = [v EXCEPT !.expiry = now + LeaseMs]
      <4>1. ContractView(new) = [state |-> r.state, availableAt |-> r.availableAt, attempt |-> r.attempt,
              lease |-> r.lease, expiry |-> now + LeaseMs]
        BY DEF ContractView, ClearLease, QueueRecord
      <4>2. [v EXCEPT !.expiry = now + LeaseMs] = [state |-> v.state, availableAt |-> v.availableAt, attempt |-> v.attempt,
              lease |-> v.lease, expiry |-> now + LeaseMs]
        BY DEF Contract!Released, Contract!NoLease, Contract!JobRecord
      <4>3. v.state = r.state /\ v.availableAt = r.availableAt /\ v.attempt = r.attempt /\ v.lease = r.lease
        BY <3>2 DEF ContractView
      <4> QED
        BY <4>1, <4>2, <4>3
    <3>4. ActiveLease(j, l) /\ rec' = [rec EXCEPT ![j] = new] /\ now' = now
      BY <2>6, <3>1 DEF RenewLease, Settled
    <3>5. contractJobs' = [contractJobs EXCEPT ![j] = ContractView(new)]
      BY <3>4, ViewOfUpdate
    <3>6. Contract!ActiveLease(j, contractJobs[j].lease)
      BY <3>4, ActiveLeaseView
    <3> QED
      BY <3>2, <3>3, <3>4, <3>5, <3>6 DEF Contract!Renew, contractJobs
  <2>7. CASE Tick \/ \E t \in 0..MaxTime : StepBack(t)
    <3>1. now' \in 0..MaxTime /\ rec' = rec
      BY <2>7 DEF Tick, StepBack, TypeOK
    <3>2. Contract!Clock(now')
      BY <3>1 DEF Contract!Clock
    <3> QED
      BY <2>0, <3>1, <3>2 DEF Contract!QueueNext
  <2>8. CASE \/ \E c \in Claimer : \/ CallClaim(c) \/ ClaimWaits(c)
                                   \/ TimerFires(c) \/ Abort(c)
             \/ UNCHANGED vars
    BY <2>8 DEF CallClaim, ClaimWaits, TimerFires, Abort, vars, Contract!queueVars
  <2> QED
    BY <2>0, <2>1, <2>2, <2>3, <2>4, <2>5, <2>6, <2>7, <2>8
       DEF Next, Contract!QueueNext, contractJobs
<1> QED
  BY <1>1, <1>2, TypeCorrect, HeapsExact, PTL
     DEF Spec, ImplementsContract, Contract!QueueSpec

-----------------------------------------------------------------------------
(* The order in which claims serve *)

Enqueued == {j \in Job : rec[j].state # "absent"}

\* store.add numbers the records it takes.
Numbered ==
  /\ IsFiniteSet(Enqueued)
  /\ \A j \in Enqueued : rec[j].seq < nextSeq
  /\ \A j, k \in Enqueued : rec[j].seq = rec[k].seq => j = k

LEMMA NumberedInvariant == Spec => []Numbered
<1>1. Init => Numbered
  <2> SUFFICES ASSUME Init PROVE Numbered
    OBVIOUS
  <2>1. Enqueued = {}
    BY DEF Init, AbsentRecord, Enqueued
  <2> QED
    BY <2>1, FS_EmptySet DEF Numbered
<1>2. TypeOK /\ Numbered /\ [Next]_vars => Numbered'
  <2> SUFFICES ASSUME TypeOK, Numbered, [Next]_vars PROVE Numbered'
    OBVIOUS
  <2>1. ASSUME nextSeq' = nextSeq,
               \A j \in Job : /\ rec'[j].seq = rec[j].seq
                              /\ rec'[j].state = "absent" <=> rec[j].state = "absent"
        PROVE  Numbered'
    <3>1. Enqueued' = Enqueued
      BY <2>1 DEF Enqueued
    <3>2. \A j \in Enqueued : rec'[j].seq = rec[j].seq
      BY <2>1 DEF Enqueued
    <3> QED
      BY <2>1, <3>1, <3>2 DEF Numbered
  <2>2. ASSUME NEW j \in Job, NEW d \in 0..MaxDelay, Enqueue(j, now + d) PROVE Numbered'
    <3>1. /\ rec'[j].state = "queued" /\ rec'[j].seq = nextSeq /\ nextSeq' = nextSeq + 1
          /\ \A k \in Job \ {j} : rec'[k] = rec[k]
          /\ rec[j].state = "absent" /\ nextSeq \in Nat
      BY <2>2 DEF Enqueue, NewRecord, TypeOK
    <3>2. Enqueued' = Enqueued \cup {j} /\ j \notin Enqueued
      BY <3>1 DEF Enqueued
    <3>3. IsFiniteSet(Enqueued')
      BY <3>2, FS_AddElement DEF Numbered
    <3>4. \A k \in Enqueued : rec'[k].seq = rec[k].seq /\ rec[k].seq \in Nat /\ rec[k].seq < nextSeq
      BY <3>1, <3>2 DEF Enqueued, TypeOK, QueueRecord, Numbered
    <3>5. \A k \in Enqueued' : rec'[k].seq < nextSeq'
      BY <3>1, <3>2, <3>4
    <3>6. \A k, m \in Enqueued' : rec'[k].seq = rec'[m].seq => k = m
      BY <3>1, <3>2, <3>4 DEF Numbered
    <3> QED
      BY <3>3, <3>5, <3>6 DEF Numbered
  <2>3. ASSUME NEW c \in Claimer, NEW limit \in 1..ClaimLimit, ClaimTakes(c, limit)
        PROVE  Numbered'
    <3>1. \A j \in Job : /\ rec'[j].seq = rec[j].seq
                         /\ rec'[j].state = "absent" <=> rec[j].state = "absent"
      <4> SUFFICES ASSUME NEW j \in Job
                   PROVE  /\ rec'[j].seq = rec[j].seq
                          /\ rec'[j].state = "absent" <=> rec[j].state = "absent"
        OBVIOUS
      <4>1. rec[j] \in QueueRecord
        BY DEF TypeOK
      <4> QED
        BY <2>3, <4>1 DEF ClaimTakes, QueueRecord
    <3> QED
      BY <2>1, <2>3, <3>1 DEF ClaimTakes
  <2>4. ASSUME NEW j \in Job, NEW l, ActiveLease(j, l), nextSeq' = nextSeq,
               \A k \in Job \ {j} : rec'[k] = rec[k],
               rec'[j].seq = rec[j].seq, rec'[j].state # "absent"
        PROVE  Numbered'
    <3>1. rec[j].state # "absent"
      BY <2>4 DEF ActiveLease, IsQueued
    <3> QED
      BY <2>1, <2>4, <3>1
  <2>5. ASSUME NEW j \in Job, NEW l, Complete(j, l) \/ Fail(j, l) PROVE Numbered'
    <3>1. /\ rec'[j].seq = rec[j].seq /\ rec'[j].state # "absent"
          /\ \A k \in Job \ {j} : rec'[k] = rec[k]
      <4>1. rec \in [Job -> QueueRecord]
        BY DEF TypeOK
      <4>2. CASE Complete(j, l)
        BY <4>1, <4>2 DEF Complete, ClearLease, QueueRecord
      <4>3. CASE Fail(j, l)
        BY <4>1, <4>3 DEF Fail, ClearLease, QueueRecord
      <4> QED
        BY <2>5, <4>2, <4>3
    <3>2. ActiveLease(j, l) /\ nextSeq' = nextSeq
      BY <2>5 DEF Complete, Fail, Settled
    <3> QED
      BY <2>4, <3>1, <3>2
  <2>6. ASSUME NEW j \in Job, NEW l, RenewLease(j, l) \/ \E d \in 0..MaxDelay : Retry(j, l, now + d)
        PROVE  Numbered'
    <3>1. ActiveLease(j, l) /\ nextSeq' = nextSeq
      BY <2>6 DEF RenewLease, Retry, Settled
    <3>2. /\ rec'[j].seq = rec[j].seq /\ rec'[j].state # "absent"
          /\ \A k \in Job \ {j} : rec'[k] = rec[k]
      <4>1. rec \in [Job -> QueueRecord] /\ rec[j].state = "queued"
        BY <3>1 DEF TypeOK, ActiveLease, IsQueued
      <4>2. CASE RenewLease(j, l)
        BY <4>1, <4>2 DEF RenewLease, QueueRecord
      <4>3. CASE \E d \in 0..MaxDelay : Retry(j, l, now + d)
        BY <4>1, <4>3 DEF Retry, ClearLease, QueueRecord
      <4> QED
        BY <2>6, <4>2, <4>3
    <3> QED
      BY <2>4, <3>1, <3>2
  <2>7. CASE \/ \E c \in Claimer : CallClaim(c) \/ ClaimWaits(c) \/ TimerFires(c) \/ Abort(c)
             \/ Tick
             \/ \E t \in 0..MaxTime : StepBack(t)
             \/ UNCHANGED vars
    <3>1. rec' = rec /\ nextSeq' = nextSeq
      BY <2>7 DEF CallClaim, ClaimWaits, TimerFires, Abort, Tick, StepBack, vars
    <3> QED
      BY <2>1, <3>1
  <2> QED
    BY <2>2, <2>3, <2>5, <2>6, <2>7 DEF Next
<1> QED
  BY <1>1, <1>2, TypeCorrect, PTL DEF Spec

\* compareQueueRecords orders the records of the lane, none of them tied.
LEMMA LaneOrder ==
  ASSUME TypeOK, Numbered
  PROVE  /\ \A j, k \in Enqueued : j # k => Before(j, k) \/ Before(k, j)
         /\ \A i, j, k \in Enqueued : Before(i, j) /\ Before(j, k) => Before(i, k)
<1>1. \A j \in Enqueued : /\ rec[j].availableAt \in Nat /\ rec[j].createdAt \in Nat
                          /\ rec[j].seq \in Nat
  BY DEF Enqueued, TypeOK, QueueRecord
<1>2. ASSUME NEW j \in Enqueued, NEW k \in Enqueued, j # k PROVE Before(j, k) \/ Before(k, j)
  <2>1. rec[j].seq # rec[k].seq
    BY <1>2 DEF Numbered
  <2> QED
    BY <1>1, <2>1 DEF Before
<1>3. ASSUME NEW i \in Enqueued, NEW j \in Enqueued, NEW k \in Enqueued,
             Before(i, j), Before(j, k)
      PROVE  Before(i, k)
  BY <1>1, <1>3 DEF Before
<1> QED
  BY <1>2, <1>3

\* Whatever is visible could be delivered by a claim that looks now.
LEMMA VisibleAreDeliverable ==
  ASSUME TypeOK, HeapsHoldEveryLiveJob
  PROVE  /\ \A j \in Job : VisibleJob(j) => j \in Deliverable
         /\ Deliverable \subseteq Enqueued
<1>1. ASSUME NEW j \in Job, VisibleJob(j) PROVE j \in Deliverable
  <2>1. j \in ready \cup Due
    BY <1>1 DEF VisibleJob, HeapsHoldEveryLiveJob, Due
  <2>2. rec[j].availableAt <= now
    BY <1>1 DEF VisibleJob, EligibleAt, TypeOK, QueueRecord
  <2> QED
    BY <1>1, <2>1, <2>2 DEF Deliverable, Available, VisibleJob
<1>2. Deliverable \subseteq Enqueued
  BY DEF Deliverable, Available, Due, HeapsHoldEveryLiveJob, Enqueued, IsQueued
<1> QED
  BY <1>1, <1>2

\* A claim takes a job before every deliverable job it leaves.
LEMMA TakesTheFirst ==
  ASSUME TypeOK, HeapsHoldEveryLiveJob, Numbered, NEW limit \in Nat,
         NEW j \in Taken(limit), NEW k \in Deliverable \ Taken(limit)
  PROVE  Before(j, k)
<1> DEFINE Ahead(m) == {x \in Deliverable : Before(x, m)}
<1>1. j \in Enqueued /\ k \in Enqueued /\ j # k /\ Deliverable \subseteq Enqueued
  BY VisibleAreDeliverable DEF Taken
<1>2. Cardinality(Ahead(j)) < limit /\ ~(Cardinality(Ahead(k)) < limit)
  BY DEF Taken
<1>3. IsFiniteSet(Ahead(j))
  <2>1. Ahead(j) \in SUBSET Enqueued
    BY <1>1
  <2> HIDE DEF Ahead
  <2> QED
    BY <2>1, FS_Subset DEF Numbered
<1> SUFFICES ASSUME Before(k, j) PROVE FALSE
  BY <1>1, LaneOrder
<1>4. Ahead(k) \in SUBSET Ahead(j)
  BY <1>1, LaneOrder
<1> HIDE DEF Ahead
<1>5. /\ Cardinality(Ahead(k)) <= Cardinality(Ahead(j))
      /\ Cardinality(Ahead(k)) \in Nat /\ Cardinality(Ahead(j)) \in Nat
  BY <1>3, <1>4, FS_Subset, FS_CardinalityType
<1> QED
  BY <1>2, <1>5

\* A claim serves the lane in the order of compareQueueRecords, also when leases
\* end and the clock is set back, and sleeps only when nothing is visible.
THEOREM ServedInOrder == Spec => ClaimServesInOrder
<1>1. TypeOK /\ HeapsHoldEveryLiveJob /\ Numbered /\ [Next]_vars => ServesInOrder
  <2> SUFFICES ASSUME TypeOK, HeapsHoldEveryLiveJob, Numbered, [Next]_vars,
                      NEW c \in Claimer, claims[c].status = "looking"
               PROVE  /\ claims'[c].status = "idle" =>
                           \A j, k \in Job :
                             /\ rec'[j].attempt > rec[j].attempt
                             /\ VisibleJob(k) /\ rec'[k].attempt = rec[k].attempt
                             => Before(j, k)
                      /\ claims'[c].status = "waiting" => \A j \in Job : ~VisibleJob(j)
    BY DEF ServesInOrder
  <2>1. \/ claims'[c].status \in {"looking", "stopped"}
        \/ \E limit \in 1..ClaimLimit : ClaimTakes(c, limit)
        \/ ClaimWaits(c)
    <3>1. claims \in [Claimer -> [status: {"idle", "looking", "waiting", "stopped"}, timer: Nat]]
      BY DEF TypeOK
    <3>2. ASSUME WakeWaiters PROVE claims'[c].status = "looking"
      BY <3>2 DEF WakeWaiters, Woken
    <3>3. ASSUME NEW d \in Claimer,
                 \/ CallClaim(d) \/ ClaimWaits(d) \/ TimerFires(d)
                 \/ \E limit \in 1..ClaimLimit : ClaimTakes(d, limit)
          PROVE  \/ claims'[c].status \in {"looking", "stopped"}
                 \/ \E limit \in 1..ClaimLimit : ClaimTakes(c, limit)
                 \/ ClaimWaits(c)
      <4>1. CASE d = c
        BY <3>1, <3>3, <4>1 DEF CallClaim, TimerFires, Looking
      <4>2. CASE d # c
        BY <3>1, <3>3, <4>2 DEF CallClaim, ClaimWaits, TimerFires, ClaimTakes, Woken, Looking
      <4> QED
        BY <4>1, <4>2
    <3>4. ASSUME NEW d \in Claimer, Abort(d) PROVE claims'[c].status \in {"looking", "stopped"}
      BY <3>1, <3>4 DEF Abort, Stopped
    <3>5. CASE Tick \/ \E t \in 0..MaxTime : StepBack(t)
      BY <3>1, <3>5 DEF Tick, StepBack
    <3> QED
      BY <3>2, <3>3, <3>4, <3>5
         DEF Next, vars, Enqueue, Complete, Fail, RenewLease, Retry, Settled
  <2>2. ASSUME NEW limit \in 1..ClaimLimit, ClaimTakes(c, limit),
               NEW j \in Job, NEW k \in Job, rec'[j].attempt > rec[j].attempt,
               VisibleJob(k), rec'[k].attempt = rec[k].attempt
        PROVE  Before(j, k)
    <3>1. rec[j] \in QueueRecord /\ rec[k] \in QueueRecord
      BY DEF TypeOK
    <3>2. \A m \in {j, k} : rec'[m].attempt = IF m \in Taken(limit) THEN rec[m].attempt + 1
                                              ELSE rec[m].attempt
      <4> SUFFICES ASSUME NEW m \in {j, k}
                   PROVE  rec'[m].attempt = IF m \in Taken(limit) THEN rec[m].attempt + 1
                                            ELSE rec[m].attempt
        OBVIOUS
      <4>1. CASE m \in Taken(limit)
        <5>1. rec'[m] = [rec[m] EXCEPT !.attempt = rec[m].attempt + 1,
                                       !.lease = rec[m].attempt + 1, !.expiry = now + LeaseMs]
          BY <2>2, <4>1 DEF ClaimTakes
        <5> QED
          BY <3>1, <4>1, <5>1 DEF QueueRecord
      <4>2. CASE m \notin Taken(limit)
        BY <2>2, <4>2 DEF ClaimTakes
      <4> QED
        BY <4>1, <4>2
    <3>3. rec[j].attempt \in Nat /\ rec[k].attempt \in Nat
      BY <3>1 DEF QueueRecord
    <3>4. j \in Taken(limit) /\ k \notin Taken(limit)
      BY <2>2, <3>2, <3>3
    <3> QED
      BY <2>2, <3>4, TakesTheFirst, VisibleAreDeliverable
  <2>3. ASSUME ClaimWaits(c), NEW j \in Job PROVE ~VisibleJob(j)
    BY <2>3, VisibleAreDeliverable DEF ClaimWaits
  <2>4. ASSUME NEW limit \in 1..ClaimLimit, ClaimTakes(c, limit) PROVE claims'[c].status = "idle"
    BY <2>4 DEF ClaimTakes, Idle
  <2>5. ASSUME ClaimWaits(c) PROVE claims'[c].status = "waiting"
    BY <2>5 DEF ClaimWaits, TypeOK
  <2> QED
    BY <2>1, <2>2, <2>3, <2>4, <2>5
<1> QED
  BY <1>1, TypeCorrect, HeapsExact, NumberedInvariant, PTL DEF Spec, ClaimServesInOrder
=============================================================================
