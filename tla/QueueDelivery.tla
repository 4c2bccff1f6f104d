--------------------------- MODULE QueueDelivery ----------------------------
(***************************************************************************)
(* A worker's side of the queue contract                                   *)
(* (packages/core/src/workers/queue-delivery.ts and the handle method of   *)
(* queue-worker.ts): one claimed job is executed while a second coroutine  *)
(* renews its lease; when execution ends the renewal loop is stopped, the  *)
(* lease is confirmed once more, and the job is completed, retried or      *)
(* failed.  Queue calls travel: a call may take effect late, its answer    *)
(* may be late or lost, and a worker process may crash between any two     *)
(* steps.                                                                  *)
(*                                                                         *)
(* A slot is the place of one delivery in some worker process; a closed    *)
(* delivery frees its slot.                                                *)
(***************************************************************************)
EXTENDS Integers

CONSTANTS Job,           \* jobs of the lane
          Slot,          \* places for deliveries, over all worker processes
          LeaseMs,       \* the worker's leaseMs
          RenewalMs,     \* renewalIntervalMs: a third of leaseMs, at least 1
          StampOnReply,  \* TRUE for a provider that dates a renewal by its answer
          MaxTime,       \* bound: the last clock reading; no lease outlives it
          MaxAttempt     \* bound: claims of one job

ASSUME QueueDeliveryAssumption ==
  /\ Job # {}
  /\ LeaseMs \in Nat \ {0}
  /\ RenewalMs \in Nat \ {0}
  /\ StampOnReply \in BOOLEAN
  /\ MaxTime \in Nat
  /\ MaxAttempt \in Nat

VARIABLES now, jobs,   \* the queue and its clock, see LeaseQueue
          del,         \* del[d]: the delivery in slot d
          late,        \* calls nobody waits for any more that may still take effect
          applied,     \* history: the settlements the queue has applied
          verdicts     \* history: what the deliveries reported to their workers

Queue == INSTANCE LeaseQueue WITH Times <- 0..MaxTime

vars == <<now, jobs, del, late, applied, verdicts>>

Operation == {"complete", "retry", "fail"}

\* handler: the coroutine that executes and settles the job.
\* loop:    the renewal loop.
\* state:   the delivery's QueueDeliveryState.
\* call:    the queue call whose answer the loop or the handler waits for.
FreeSlot == [handler |-> "free", loop |-> "done", state |-> "active",
             job |-> CHOOSE j \in Job : TRUE, lease |-> 0, expiry |-> 0,
             wakeAt |-> 0, call |-> "none", grant |-> 0, op |-> "complete"]

Lease(d) == <<del[d].job, del[d].lease>>

\* stopController is aborted when settling or closing begins.
StopRequested(r) == r.handler # "execute"

Expired(r) == now >= r.expiry

\* Nothing is read of a lease that is gone or no longer renewed.
LoopEnds(r) == [r EXCEPT !.loop = "done", !.call = "none", !.wakeAt = 0, !.grant = 0]

Lost(r) == [LoopEnds(r) EXCEPT !.state = "lost"]

Smaller(m, n) == IF m < n THEN m ELSE n

\* The top of the renewal loop: leave it, notice the expiry, or sleep.
LoopTop(r) ==
  IF r.state # "active" \/ StopRequested(r) THEN LoopEnds(r)
  ELSE IF Expired(r) THEN Lost(r)
  ELSE [r EXCEPT !.loop = "sleep", !.call = "none", !.grant = 0,
                 !.wakeAt = now + Smaller(RenewalMs, r.expiry - now)]

\* A call that is given up before the queue served it may be served later.
Orphan(d, kind) == late' = IF del[d].call = "sent"
                           THEN late \cup {<<kind, del[d].job, del[d].lease>>}
                           ELSE late

QueueUnchanged == UNCHANGED <<now, jobs, applied>>

Report(d, verdict) == verdicts' = verdicts \cup {<<del[d].job, del[d].lease, verdict>>}

-----------------------------------------------------------------------------
Init == /\ now = 0
        /\ jobs = [j \in Job |-> Queue!AbsentJob]
        /\ del = [d \in Slot |-> FreeSlot]
        /\ late = {} /\ applied = {} /\ verdicts = {}

Enqueue(j) == /\ jobs[j].state = "absent"
              /\ Queue!Enqueue(j, now)
              /\ UNCHANGED <<del, late, applied, verdicts>>

\* The queue leases job j to a worker's claim; the answer is under way.
Claim(d, j) ==
  /\ del[d].handler = "free"
  /\ now + LeaseMs <= MaxTime
  /\ jobs[j].attempt < MaxAttempt
  /\ Queue!Claim({j})
  /\ del' = [del EXCEPT ![d] = [FreeSlot EXCEPT !.handler = "claimed", !.job = j,
                                                !.lease = jobs'[j].lease,
                                                !.expiry = jobs'[j].expiry]]
  /\ UNCHANGED <<late, applied, verdicts>>

\* The answer to the claim never arrives: the job waits for its lease to end.
ClaimAnswerLost(d) ==
  /\ del[d].handler = "claimed"
  /\ del' = [del EXCEPT ![d] = FreeSlot]
  /\ QueueUnchanged /\ UNCHANGED <<late, verdicts>>

\* createQueueDelivery and the start of execute; the constructor enters the loop.
Start(d) ==
  /\ del[d].handler = "claimed"
  /\ del' = [del EXCEPT ![d] = LoopTop([@ EXCEPT !.handler = "execute"])]
  /\ QueueUnchanged /\ UNCHANGED <<late, verdicts>>

\* The loop's sleep ends, by its timer or because stopping was requested.
LoopWakes(d) ==
  /\ del[d].loop = "sleep"
  /\ now >= del[d].wakeAt \/ StopRequested(del[d])
  /\ del' = [del EXCEPT ![d] =
               IF StopRequested(@) THEN LoopEnds(@)
               ELSE IF Expired(@) THEN Lost(@)
               ELSE [@ EXCEPT !.loop = "call", !.call = "sent"]]
  /\ QueueUnchanged /\ UNCHANGED <<late, verdicts>>

-----------------------------------------------------------------------------
(* The queue serves calls *)

RenewalPending(d) == del[d].loop = "call" \/ del[d].handler = "confirm"

\* Renewal: extended until leaseMs from now, or null when the lease is gone.
ServeRenewal(d) ==
  /\ RenewalPending(d) /\ del[d].call = "sent"
  /\ \/ /\ now + LeaseMs <= MaxTime
        /\ Queue!Renew(del[d].job, del[d].lease)
        /\ del' = [del EXCEPT ![d].call = "granted", ![d].grant = now + LeaseMs]
     \/ /\ ~Queue!ActiveLease(del[d].job, del[d].lease)
        /\ del' = [del EXCEPT ![d].call = "null"]
        /\ UNCHANGED <<now, jobs>>
  /\ UNCHANGED <<late, applied, verdicts>>

Settle(op, j, l) ==
  /\ \/ op = "complete" /\ Queue!Complete(j, l)
     \/ op = "fail" /\ Queue!Fail(j, l)
     \/ op = "retry" /\ Queue!Retry(j, l, now)
  /\ applied' = applied \cup {<<j, l, op>>}

\* Settlement: applied under the running lease, or rejected with an error.
ServeSettlement(d) ==
  /\ del[d].handler = "operate" /\ del[d].call = "sent"
  /\ \/ /\ Settle(del[d].op, del[d].job, del[d].lease)
        /\ del' = [del EXCEPT ![d].call = "done"]
     \/ /\ ~Queue!ActiveLease(del[d].job, del[d].lease)
        /\ del' = [del EXCEPT ![d].call = "rejected"]
        /\ QueueUnchanged
  /\ UNCHANGED <<late, verdicts>>

\* A call nobody waits for takes effect after all.
ServeLate ==
  /\ \E m \in late :
       /\ late' = late \ {m}
       /\ \/ /\ m[1] = "renew"
             /\ now + LeaseMs <= MaxTime
             /\ Queue!Renew(m[2], m[3])
             /\ UNCHANGED applied
          \/ m[1] # "renew" /\ Settle(m[1], m[2], m[3])
  /\ UNCHANGED <<del, verdicts>>

\* The connection fails: the caller sees an error, whatever the queue did.
CallFails(d) ==
  /\ del[d].call \in {"sent", "granted", "null", "done", "rejected"}
  /\ Orphan(d, IF RenewalPending(d) THEN "renew" ELSE del[d].op)
  /\ del' = [del EXCEPT ![d].call = "failed", ![d].grant = 0]
  /\ QueueUnchanged /\ UNCHANGED verdicts

-----------------------------------------------------------------------------
(* The answers *)

\* Mutant: a renewal without a timer of its own.
RenewalOutcomeUntimed(d, outcome) ==
  outcome = del[d].call /\ outcome \in {"granted", "null", "failed"}

\* attemptRenewal settles with the answer, or with "expired" by its own timer.
RenewalOutcome(d, outcome) ==
  \/ outcome = "expired" /\ Expired(del[d])
  \/ outcome = del[d].call /\ outcome \in {"granted", "null", "failed"}

\* Mutant: a renewal dated by its answer.
RenewedFromAnswer(r) == now + LeaseMs

\* leaseExpiresAt of a granted renewal.
RenewedUntil(r) == IF StampOnReply THEN now + LeaseMs ELSE r.grant

LoopResolves(d, outcome) ==
  /\ del[d].loop = "call"
  /\ RenewalOutcome(d, outcome)
  /\ Orphan(d, "renew")
  /\ del' = [del EXCEPT ![d] =
               CASE outcome \in {"expired", "null"} -> Lost(@)
                 [] outcome = "failed"  -> LoopTop(@)
                 [] outcome = "granted" -> LoopTop([@ EXCEPT !.expiry = RenewedUntil(del[d])])]
  /\ QueueUnchanged /\ UNCHANGED verdicts

\* Execution ends.  A lost delivery is left for redelivery, or is found lost by
\* settle when that happens while onExecutionError or onAbortError decides;
\* otherwise the outcome or their decision says what to do with the job, or they
\* throw and leave it to its lease.
EndExecute(d) ==
  /\ del[d].handler = "execute"
  /\ \/ /\ del[d].state = "lost"
        /\ del' = [del EXCEPT ![d].handler = "close"]
        /\ UNCHANGED verdicts \/ Report(d, "lost")
     \/ /\ del[d].state = "active"
        /\ \/ \E op \in Operation :
                del' = [del EXCEPT ![d].handler = "stop", ![d].op = op]
           \/ del' = [del EXCEPT ![d].handler = "close"]
        /\ UNCHANGED verdicts
  /\ QueueUnchanged /\ UNCHANGED late

\* Mutant: settle does not wait for the renewal loop to end.
ConfirmStartsEarly(d) ==
  /\ del[d].handler = "stop"
  /\ IF del[d].state = "lost" \/ Expired(del[d])
     THEN /\ del' = [del EXCEPT ![d] = [Lost(@) EXCEPT !.handler = "close"]]
          /\ Report(d, "lost")
     ELSE /\ del' = [del EXCEPT ![d].handler = "confirm", ![d].call = "sent"]
          /\ UNCHANGED verdicts
  /\ QueueUnchanged /\ UNCHANGED late

\* settle: the loop has ended; confirmSettlementLease renews once more.
ConfirmStarts(d) ==
  /\ del[d].handler = "stop" /\ del[d].loop = "done"
  /\ IF del[d].state = "lost" \/ Expired(del[d])
     THEN /\ del' = [del EXCEPT ![d] = [Lost(@) EXCEPT !.handler = "close"]]
          /\ Report(d, "lost")
     ELSE /\ del' = [del EXCEPT ![d].handler = "confirm", ![d].call = "sent"]
          /\ UNCHANGED verdicts
  /\ QueueUnchanged /\ UNCHANGED late

\* A failed confirmation is good enough while the last known lease still runs.
ConfirmResolves(d, outcome) ==
  /\ del[d].handler = "confirm"
  /\ RenewalOutcome(d, outcome)
  /\ Orphan(d, "renew")
  /\ IF outcome = "granted" \/ (outcome = "failed" /\ ~Expired(del[d]))
     THEN /\ del' = [del EXCEPT ![d].handler = "operate", ![d].call = "sent",
                       ![d].grant = 0,
                       ![d].expiry = IF outcome = "granted" THEN RenewedUntil(del[d]) ELSE @]
          /\ UNCHANGED verdicts
     ELSE /\ del' = [del EXCEPT ![d] = [Lost(@) EXCEPT !.handler = "close"]]
          /\ Report(d, "lost")
  /\ QueueUnchanged

\* Mutant: an error of the settlement call is taken for a lost lease.
SettleErrorMeansLost(d) ==
  /\ del[d].handler = "operate" /\ del[d].call \in {"done", "rejected", "failed"}
  /\ del' = [del EXCEPT ![d].handler = "close", ![d].call = "none"]
  /\ Report(d, IF del[d].call = "done" THEN "settled" ELSE "lost")
  /\ QueueUnchanged /\ UNCHANGED late

\* The settlement call answers, or throws: then its outcome is unknown.
SettleResolves(d) ==
  /\ del[d].handler = "operate"
  /\ \/ /\ del[d].call = "done"
        /\ del' = [del EXCEPT ![d].handler = "close", ![d].state = "settled", ![d].call = "none"]
        /\ Report(d, "settled")
     \/ /\ del[d].call = "rejected"
        /\ del' = [del EXCEPT ![d].handler = "close", ![d].call = "none"]
        /\ Report(d, "rejected")
     \/ /\ del[d].call = "failed"
        /\ del' = [del EXCEPT ![d].handler = "close", ![d].call = "none"]
        /\ Report(d, "unknown")
  /\ QueueUnchanged /\ UNCHANGED late

\* handle's finally: close waits for the renewal loop.
Close(d) ==
  /\ del[d].handler = "close" /\ del[d].loop = "done"
  /\ del' = [del EXCEPT ![d] = FreeSlot]
  /\ QueueUnchanged /\ UNCHANGED <<late, verdicts>>

\* The worker process dies.
Crash(d) ==
  /\ del[d].handler \notin {"free", "claimed"}
  /\ Orphan(d, IF RenewalPending(d) THEN "renew" ELSE del[d].op)
  /\ del' = [del EXCEPT ![d] = FreeSlot]
  /\ QueueUnchanged /\ UNCHANGED verdicts

Tick == /\ now < MaxTime
        /\ Queue!Clock(now + 1)
        /\ UNCHANGED <<del, late, applied, verdicts>>

Outcome == {"expired", "granted", "null", "failed"}

\* The steps of the delivery's own coroutines.
Coroutines(d) ==
  \/ Start(d) \/ LoopWakes(d) \/ EndExecute(d) \/ ConfirmStarts(d) \/ Close(d)
  \/ SettleResolves(d)
  \/ \E outcome \in Outcome : LoopResolves(d, outcome) \/ ConfirmResolves(d, outcome)

Next ==
  \/ \E j \in Job : Enqueue(j)
  \/ \E d \in Slot :
       \/ \E j \in Job : Claim(d, j)
       \/ ClaimAnswerLost(d) \/ ServeRenewal(d) \/ ServeSettlement(d) \/ CallFails(d)
       \/ Coroutines(d) \/ Crash(d)
  \/ ServeLate
  \/ Tick

Spec == Init /\ [][Next]_vars

\* Coroutines run, executions end (their signal is aborted when the lease is
\* lost), a settlement call answers or fails, and time passes.  A renewal may
\* stay unanswered for ever.
Fairness ==
  /\ WF_vars(Tick)
  /\ \A d \in Slot : /\ WF_vars(Coroutines(d))
                     /\ WF_vars(del[d].handler = "operate" /\ (ServeSettlement(d) \/ CallFails(d)))

FairSpec == Spec /\ Fairness

-----------------------------------------------------------------------------
(* Properties *)

Delivery == [handler: {"free", "claimed", "execute", "stop", "confirm", "operate", "close"},
             loop: {"sleep", "call", "done"}, state: {"active", "lost", "settled"},
             job: Job, lease: Nat, expiry: Nat, wakeAt: Nat,
             call: {"none", "sent", "granted", "null", "done", "rejected", "failed"},
             grant: Nat, op: Operation]

\* The variables have the shapes of the code's fields, and a delivery has one
\* queue call under way at a time: the handler makes none before its renewal
\* loop has ended (queue-delivery.ts, settle awaits stopRenewal).
TypeOK ==
  /\ now \in 0..MaxTime
  /\ jobs \in [Job -> Queue!JobRecord]
  /\ del \in [Slot -> Delivery]
  /\ \A d \in Slot : del[d].handler \in {"free", "claimed", "confirm", "operate"}
                      => del[d].loop = "done"
  /\ late \subseteq (Operation \cup {"renew"}) \X Job \X Nat
  /\ applied \subseteq Job \X Nat \X Operation
  /\ verdicts \subseteq Job \X Nat \X {"settled", "lost", "rejected", "unknown"}

\* The delivery believes it owns its job: it has not settled it, has not been
\* told otherwise, and the last lease it was confirmed has not run out.
Owns(d) == /\ del[d].handler \in {"execute", "stop", "confirm"}
           /\ del[d].state = "active"
           /\ ~Expired(del[d])

\* What a delivery believes, the queue honours: while it owns its job, its lease
\* is the running one, so the job is given to no other worker
\* (queue-delivery.ts: leaseExpiresAt is the "Expiration from the latest
\* queue-confirmed claim or renewal").  In particular two deliveries never own
\* the same job, however answers are delayed or lost.
OwnershipIsReal == \A d \in Slot : Owns(d) => Queue!ActiveLease(del[d].job, del[d].lease)

\* What a settlement reports is what happened: "settled" only if the queue
\* applied it under this lease, and "lost" only if the queue applied nothing
\* and never will (queue-delivery.ts, QueueSettlementResult: "the queue job was
\* not acknowledged because ownership was already gone").  A lease that ends
\* between its confirmation and the settlement call makes settle throw the queue's
\* refusal ("rejected"): then nothing was applied either, and the job will be
\* redelivered.  Only an error of the connection leaves the outcome open.
VerdictsAreTrue ==
  \A v \in verdicts :
    /\ v[3] = "settled" => \E op \in Operation : <<v[1], v[2], op>> \in applied
    /\ v[3] \in {"lost", "rejected"} => \A op \in Operation : <<v[1], v[2], op>> \notin applied

\* A lease settles its job at most once, and a job ends at most once, although
\* calls whose answer was lost may take effect when their worker has gone on.
SettledOnce ==
  \A x, y \in applied :
    /\ x[1] = y[1] /\ x[2] = y[2] => x = y
    /\ x[1] = y[1] /\ x[3] # "retry" /\ y[3] # "retry" => x = y

\* Every delivery ends, even if no renewal is ever answered: its own timer ends
\* the renewal call that stopping waits for (queue-delivery.ts, attemptRenewal).
DeliveryEnds == \A d \in Slot : del[d].handler # "free" ~> del[d].handler = "free"
=============================================================================
