----------------------------- MODULE LeaseQueue -----------------------------
(***************************************************************************)
(* What a queue lane promises its callers (packages/core/src/queues/       *)
(* types.ts, interface Queue): jobs are added once per id, visible jobs    *)
(* are leased to a caller, and only the caller that holds the running      *)
(* lease settles or extends it.  How a provider finds the visible jobs and *)
(* wakes the callers that wait for them is left to the provider:           *)
(* InMemoryQueue is shown to implement this module, and QueueDelivery is   *)
(* the worker's side of it.                                                *)
(***************************************************************************)
EXTENDS Integers

CONSTANTS Job,      \* the job ids of one lane of one project
          Times,    \* the clock readings: milliseconds since the epoch, in Nat
          LeaseMs   \* the visibility timeout every worker claims with, above 0

VARIABLES now,   \* the clock the leases are measured by
          jobs   \* jobs[j]: the job with id j, absent until it is enqueued

queueVars == <<now, jobs>>

(***************************************************************************)
(* A lease id is fresh for every claim.  The model numbers the leases of   *)
(* a job by its attempt counter, which every claim increments; 0 is the    *)
(* null lease.  A leased job stays "queued" until it is settled.           *)
(***************************************************************************)
NoLease == 0

JobRecord == [state: {"absent", "queued", "completed", "failed"},
              availableAt: Nat, attempt: Nat, lease: Nat, expiry: Nat]

AbsentJob == [state |-> "absent", availableAt |-> 0, attempt |-> 0,
              lease |-> NoLease, expiry |-> 0]

NewJob(at) == [state |-> "queued", availableAt |-> at, attempt |-> 0,
               lease |-> NoLease, expiry |-> 0]

\* A job can be delivered: it is due, and no running lease hides it.
Visible(j) == /\ jobs[j].state = "queued"
              /\ jobs[j].availableAt <= now
              /\ jobs[j].lease = NoLease \/ jobs[j].expiry <= now

\* Lease l of job j is the one the queue honours at this moment.
ActiveLease(j, l) == /\ jobs[j].state = "queued"
                     /\ l # NoLease
                     /\ jobs[j].lease = l
                     /\ jobs[j].expiry > now

\* The job without its lease, in state st and due at at.
Released(r, st, at) == [state |-> st, availableAt |-> at, attempt |-> r.attempt,
                        lease |-> NoLease, expiry |-> 0]

-----------------------------------------------------------------------------
QueueInit == /\ now \in Times
             /\ jobs = [j \in Job |-> AbsentJob]

\* Repeating an id changes nothing while the provider still knows the job.
Enqueue(j, at) ==
  /\ jobs' = IF jobs[j].state = "absent"
             THEN [jobs EXCEPT ![j] = NewJob(at)]
             ELSE jobs
  /\ UNCHANGED now

\* One claim leases some visible jobs to one caller, until one instant.
Claim(S) ==
  /\ S # {}
  /\ \A j \in S : Visible(j)
  /\ jobs' = [j \in Job |->
                IF j \in S
                THEN [jobs[j] EXCEPT !.attempt = @ + 1,
                                     !.lease   = jobs[j].attempt + 1,
                                     !.expiry  = now + LeaseMs]
                ELSE jobs[j]]
  /\ UNCHANGED now

\* Mutant: the lease id is not looked at.
CompleteAnyLease(j, l) ==
  /\ jobs' = [jobs EXCEPT ![j] = Released(@, "completed", @.availableAt)]
  /\ UNCHANGED now

Complete(j, l) ==
  /\ ActiveLease(j, l)
  /\ jobs' = [jobs EXCEPT ![j] = Released(@, "completed", @.availableAt)]
  /\ UNCHANGED now

Fail(j, l) ==
  /\ ActiveLease(j, l)
  /\ jobs' = [jobs EXCEPT ![j] = Released(@, "failed", @.availableAt)]
  /\ UNCHANGED now

Retry(j, l, at) ==
  /\ ActiveLease(j, l)
  /\ jobs' = [jobs EXCEPT ![j] = Released(@, "queued", at)]
  /\ UNCHANGED now

Renew(j, l) ==
  /\ ActiveLease(j, l)
  /\ jobs' = [jobs EXCEPT ![j].expiry = now + LeaseMs]
  /\ UNCHANGED now

\* The wall clock moves, in either direction.
Clock(t) == now' = t /\ UNCHANGED jobs

QueueNext ==
  \/ \E j \in Job, at \in Times : Enqueue(j, at)
  \/ \E S \in SUBSET Job : Claim(S)
  \/ \E j \in Job :
       \/ Complete(j, jobs[j].lease)
       \/ Fail(j, jobs[j].lease)
       \/ Renew(j, jobs[j].lease)
       \/ \E at \in Times : Retry(j, jobs[j].lease, at)
  \/ \E t \in Times : Clock(t)

QueueSpec == QueueInit /\ [][QueueNext]_queueVars
=============================================================================
