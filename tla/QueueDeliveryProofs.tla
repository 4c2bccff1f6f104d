------------------------- MODULE QueueDeliveryProofs -------------------------
(***************************************************************************)
(* Proofs about QueueDelivery for every set of jobs and slots, every lease *)
(* length and every bound.  One inductive invariant says how leases are    *)
(* numbered, who may still settle under a lease and what the histories     *)
(* record; it holds for providers of both kinds.  A second one adds that a *)
(* delivery's own deadline never outlives the queue's, for a provider that *)
(* dates a renewal by its call and not by its answer.                      *)
(***************************************************************************)
EXTENDS QueueDelivery, TLAPS

USE QueueDeliveryAssumption

-----------------------------------------------------------------------------
(* The inductive invariant *)

\* The delivery has not asked the queue for a settlement yet.
Undecided == {"claimed", "execute", "stop", "confirm"}

\* It has not asked, or the queue has not served its call yet, or has refused it.
NothingAsked(r) == \/ r.handler \in Undecided
                   \/ r.handler = "operate" /\ r.call \in {"sent", "rejected"}

\* Lease l of job j has been handed out.
HandedOut(j, l) == l \in 1..jobs[j].attempt

\* Some settlement under lease l of job j was applied or may still be.
SettlementOut(j, l) == \E op \in Operation : <<j, l, op>> \in applied \/ <<op, j, l>> \in late

\* The running lease of a job is its latest one; an absent job never had one.
LatestLeaseRuns ==
  \A j \in Job : /\ jobs[j].lease \in {0, jobs[j].attempt}
                 /\ jobs[j].state = "absent" => jobs[j].attempt = 0

\* Every lease anybody remembers was handed out, and to one delivery only.
LeasesAreFresh ==
  /\ \A d \in Slot : del[d].handler # "free" => HandedOut(del[d].job, del[d].lease)
  /\ \A m \in late : HandedOut(m[2], m[3])
  /\ \A x \in applied : HandedOut(x[1], x[2])
  /\ \A v \in verdicts : HandedOut(v[1], v[2])
  /\ \A d, e \in Slot : d # e /\ del[d].handler # "free" /\ del[e].handler # "free"
                         => Lease(d) # Lease(e)

\* A settled lease never runs again, and a finished job stays finished.
SettledIsOver ==
  \A x \in applied : /\ jobs[x[1]].lease # x[2]
                     /\ x[3] # "retry" => jobs[x[1]].state \in {"completed", "failed"}

\* Who waits for which call.
CallsInPlace ==
  \A d \in Slot :
    /\ del[d].call # "none" => RenewalPending(d) \/ del[d].handler = "operate"
    /\ del[d].call = "done" => <<del[d].job, del[d].lease, del[d].op>> \in applied
    /\ NothingAsked(del[d]) => ~SettlementOut(del[d].job, del[d].lease)

\* A lease reported lost, or whose settlement was refused, has no settlement, and
\* nobody is left to ask for one.
LostIsFinal ==
  \A v \in verdicts : v[3] \in {"lost", "rejected"} =>
    /\ ~SettlementOut(v[1], v[2])
    /\ \A d \in Slot : del[d].handler # "free" /\ Lease(d) = <<v[1], v[2]>>
                        => del[d].handler = "close"

\* A settlement reported as applied was applied.
SettledIsTrue ==
  \A v \in verdicts : v[3] = "settled" => \E op \in Operation : <<v[1], v[2], op>> \in applied

LeaseInv ==
  /\ TypeOK /\ LatestLeaseRuns /\ LeasesAreFresh /\ SettledIsOver
  /\ CallsInPlace /\ LostIsFinal /\ SettledIsTrue /\ SettledOnce

\* The queue honours the lease of d until the instant until, unless it is past.
Backed(d, until) == \/ now >= until
                    \/ /\ jobs[del[d].job].state = "queued"
                       /\ jobs[del[d].job].lease = del[d].lease
                       /\ jobs[del[d].job].expiry >= until

\* The deadline a delivery has, and the one it is about to learn of, are backed
\* by the queue, whose own deadlines are at most a lease away.
DeadlinesAreBacked ==
  /\ \A j \in Job : jobs[j].expiry <= now + LeaseMs
  /\ \A d \in Slot : del[d].handler \in Undecided =>
       /\ del[d].state = "active" => Backed(d, del[d].expiry)
       /\ del[d].call = "granted" => Backed(d, del[d].grant)

-----------------------------------------------------------------------------
(* The parts of a step *)

\* What a delivery looks like when its renewal loop moved it from r to s: the
\* handler goes nowhere, and no call of the loop is left.
LoopLeft(r, s) ==
  /\ s \in Delivery
  /\ s.handler = r.handler /\ s.job = r.job /\ s.lease = r.lease /\ s.op = r.op
  /\ s.expiry = r.expiry /\ s.call = "none" /\ s.grant = 0
  /\ s.state \in {r.state, "lost"}
  /\ s.loop \in {"sleep", "done"} /\ (s.loop = "sleep" => r.handler = "execute")

\* Leaving the loop changes nothing but the loop's own fields.
LEMMA LoopEndsLeaves ==
  ASSUME NEW r \in Delivery
  PROVE  LoopLeft(r, LoopEnds(r)) /\ LoopEnds(r).loop = "done" /\ LoopEnds(r).state = r.state
  BY DEF LoopEnds, LoopLeft, Delivery

\* So does finding the lease lost, which is remembered.
LEMMA LostLeaves ==
  ASSUME NEW r \in Delivery
  PROVE  LoopLeft(r, Lost(r)) /\ Lost(r).loop = "done" /\ Lost(r).state = "lost"
<1> DEFINE s == LoopEnds(r)
<1>1. LoopLeft(r, s) /\ s.loop = "done" /\ s \in Delivery
  BY LoopEndsLeaves DEF LoopLeft
<1> HIDE DEF s
<1>2. LoopLeft(r, [s EXCEPT !.state = "lost"]) /\ [s EXCEPT !.state = "lost"].loop = "done"
      /\ [s EXCEPT !.state = "lost"].state = "lost"
  BY <1>1 DEF LoopLeft, Delivery
<1> QED
  BY <1>2 DEF Lost, s

\* And so does the top of the loop, where the loop may also go to sleep.
LEMMA LoopTopLeaves ==
  ASSUME NEW r \in Delivery, now \in Nat
  PROVE  LoopLeft(r, LoopTop(r))
<1>1. CASE r.state # "active" \/ StopRequested(r)
  BY <1>1, LoopEndsLeaves DEF LoopTop
<1>2. CASE ~(r.state # "active" \/ StopRequested(r)) /\ Expired(r)
  BY <1>2, LostLeaves DEF LoopTop
<1>3. CASE ~(r.state # "active" \/ StopRequested(r)) /\ ~Expired(r)
  <2> DEFINE w == now + Smaller(RenewalMs, r.expiry - now)
             s == [r EXCEPT !.loop = "sleep", !.call = "none", !.grant = 0, !.wakeAt = w]
  <2>1. w \in Nat
    BY <1>3 DEF Expired, Smaller, Delivery
  <2>2. LoopTop(r) = s
    BY <1>3 DEF LoopTop
  <2> HIDE DEF w
  <2>3. LoopLeft(r, s)
    BY <1>3, <2>1 DEF LoopLeft, Delivery, StopRequested
  <2> QED
    BY <2>2, <2>3
<1> QED
  BY <1>1, <1>2, <1>3

\* A free slot has the type of a delivery.
LEMMA FreeSlotType ==
  FreeSlot \in Delivery /\ FreeSlot.handler = "free" /\ FreeSlot.loop = "done"
  /\ FreeSlot.call = "none" /\ FreeSlot.state = "active"
<1>1. (CHOOSE j \in Job : TRUE) \in Job
  OBVIOUS
<1> QED
  BY <1>1 DEF FreeSlot, Delivery, Operation

\* The type of one delivery: TypeOK says it of all of them.
DeliveryTyped(r) == /\ r \in Delivery
                    /\ r.handler \in {"free", "claimed", "confirm", "operate"} => r.loop = "done"

\* A step that touches one delivery, and leaves the queue alone.  The handler
\* does not go back; its deadline moves only by a granted renewal; the only call
\* it may leave to its fate besides a renewal is the settlement it asked for, and
\* then it no longer knows what became of it.
Walks(d) ==
  /\ UNCHANGED <<now, jobs, applied>>
  /\ \A e \in Slot \ {d} : del'[e] = del[e]
  /\ DeliveryTyped(del'[d]) /\ del' = [e \in Slot |-> del'[e]]
  /\ \A m \in late' : \/ m \in late
                      \/ m = <<"renew", del[d].job, del[d].lease>>
                      \/ /\ del[d].handler = "operate" /\ del[d].call = "sent" /\ ~NothingAsked(del'[d])
                         /\ m = <<del[d].op, del[d].job, del[d].lease>>
  /\ \A v \in verdicts' :
       \/ v \in verdicts
       \/ \E w \in {"settled", "lost", "rejected", "unknown"} :
            /\ v = <<del[d].job, del[d].lease, w>>
            /\ w = "lost" => del[d].handler \in Undecided
            /\ w = "rejected" => del[d].handler = "operate" /\ del[d].call = "rejected"
            /\ w \in {"lost", "rejected"} => del'[d].handler = "close"
            /\ w = "settled" => del[d].call = "done"
  /\ del[d].handler # "free"
  /\ \/ del'[d].handler = "free" /\ del'[d].call = "none"
     \/ /\ del'[d].handler # "free"
        /\ del'[d].job = del[d].job /\ del'[d].lease = del[d].lease
        /\ del'[d].handler \in Undecided => del[d].handler \in Undecided
        /\ NothingAsked(del'[d]) => NothingAsked(del[d])
        /\ del[d].handler = "close" => del'[d].handler = "close"
        /\ del'[d].call # "none" => \/ del'[d].loop = "call"
                                    \/ del'[d].handler \in {"confirm", "operate"}
        /\ del'[d].call # "done"
        /\ del'[d].handler \in Undecided /\ del'[d].state = "active"
             => /\ del[d].state = "active"
                /\ \/ del'[d].expiry = del[d].expiry
                   \/ del[d].call = "granted" /\ del'[d].expiry = RenewedUntil(del[d])
        /\ del'[d].handler \in Undecided /\ del'[d].call = "granted"
             => del[d].call = "granted" /\ del'[d].grant = del[d].grant

LEMMA WalkKeepsType ==
  ASSUME TypeOK, NEW d \in Slot, Walks(d)
  PROVE  TypeOK'
<1>1. del[d] \in Delivery
  BY DEF TypeOK
<1>2. del[d].job \in Job /\ del[d].lease \in Nat /\ del[d].op \in Operation
  BY <1>1 DEF Delivery
<1>3. late' \subseteq (Operation \cup {"renew"}) \X Job \X Nat
  BY <1>2 DEF TypeOK, Walks
<1>4. verdicts' \subseteq Job \X Nat \X {"settled", "lost", "rejected", "unknown"}
  BY <1>2 DEF TypeOK, Walks
<1>5. ASSUME NEW e \in Slot PROVE DeliveryTyped(del'[e])
  BY DEF TypeOK, Walks, DeliveryTyped
<1>6. del' \in [Slot -> Delivery]
  BY <1>5 DEF Walks, DeliveryTyped
<1> QED
  BY <1>3, <1>4, <1>5, <1>6 DEF TypeOK, Walks, DeliveryTyped

\* What one lease still may have done to its job changes with the calls left
\* behind, and those of a delivery that decides nothing are renewals.
LEMMA WalkSettlements ==
  ASSUME TypeOK, NEW d \in Slot, Walks(d), NEW j, NEW l, SettlementOut(j, l)'
  PROVE  \/ SettlementOut(j, l)
         \/ /\ j = del[d].job /\ l = del[d].lease
            /\ del[d].handler = "operate" /\ del[d].call = "sent" /\ ~NothingAsked(del'[d])
<1>1. PICK op \in Operation : <<j, l, op>> \in applied' \/ <<op, j, l>> \in late'
  BY DEF SettlementOut
<1>2. CASE <<j, l, op>> \in applied'
  BY <1>2 DEF SettlementOut, Walks
<1>3. CASE <<op, j, l>> \in late'
  <2>1. op # "renew"
    BY DEF Operation
  <2> QED
    BY <1>3, <2>1 DEF SettlementOut, Walks
<1> QED
  BY <1>1, <1>2, <1>3

LEMMA WalkKeepsLeases ==
  ASSUME LeaseInv, NEW d \in Slot, Walks(d)
  PROVE  LeaseInv'
<1> USE DEF LeaseInv
<1>1. TypeOK'
  BY WalkKeepsType
<1>2. LatestLeaseRuns' /\ SettledIsOver' /\ SettledOnce'
  BY DEF Walks, LatestLeaseRuns, SettledIsOver, SettledOnce
<1>3. LeasesAreFresh'
  <2>1. ASSUME NEW e \in Slot, del'[e].handler # "free"
        PROVE  del[e].handler # "free" /\ del'[e].job = del[e].job /\ del'[e].lease = del[e].lease
    BY <2>1 DEF Walks
  <2>2. \A m \in late' : HandedOut(m[2], m[3])'
    BY DEF Walks, LeasesAreFresh, HandedOut
  <2>3. \A v \in verdicts' : HandedOut(v[1], v[2])'
    BY DEF Walks, LeasesAreFresh, HandedOut
  <2>4. \A x \in applied' : HandedOut(x[1], x[2])'
    BY DEF Walks, LeasesAreFresh, HandedOut
  <2>5. \A e \in Slot : del'[e].handler # "free" => HandedOut(del[e].job, del[e].lease)'
    BY <2>1 DEF Walks, LeasesAreFresh, HandedOut
  <2> QED
    BY <2>1, <2>2, <2>3, <2>4, <2>5 DEF LeasesAreFresh, Lease
<1>4. CallsInPlace'
  <2> SUFFICES ASSUME NEW e \in Slot
               PROVE  /\ del'[e].call # "none" => RenewalPending(e)' \/ del'[e].handler = "operate"
                      /\ del'[e].call = "done"
                           => <<del'[e].job, del'[e].lease, del'[e].op>> \in applied'
                      /\ NothingAsked(del'[e]) => ~SettlementOut(del[e].job, del[e].lease)'
    BY DEF CallsInPlace
  <2>1. CASE e = d
    <3>1. NothingAsked(del'[e]) => ~SettlementOut(del[e].job, del[e].lease)'
      <4> SUFFICES ASSUME NothingAsked(del'[e]), SettlementOut(del[e].job, del[e].lease)'
                   PROVE  FALSE
        OBVIOUS
      <4>0. del'[d].handler # "free"
        BY <2>1 DEF NothingAsked, Undecided
      <4>1. NothingAsked(del[d]) /\ del'[d].job = del[d].job /\ del'[d].lease = del[d].lease
        BY <2>1, <4>0 DEF Walks
      <4>2. SettlementOut(del[d].job, del[d].lease)
        BY <4>1, <2>1, WalkSettlements
      <4> QED
        BY <4>1, <4>2 DEF CallsInPlace
    <3> QED
      BY <2>1, <3>1 DEF Walks, RenewalPending
  <2>2. CASE e # d
    <3>1. del'[e] = del[e]
      BY <2>2 DEF Walks
    <3>2. NothingAsked(del[e]) => ~SettlementOut(del[e].job, del[e].lease)'
      <4> SUFFICES ASSUME NothingAsked(del[e]), SettlementOut(del[e].job, del[e].lease)'
                   PROVE  FALSE
        OBVIOUS
      <4>1. del[e].job = del[d].job /\ del[e].lease = del[d].lease
        BY <3>1, WalkSettlements DEF CallsInPlace
      <4>2. del[e].handler # "free"
        BY DEF NothingAsked, Undecided
      <4> QED
        BY <4>1, <4>2, <2>2 DEF Walks, LeasesAreFresh, Lease
    <3> QED
      BY <3>1, <3>2 DEF CallsInPlace, Walks, RenewalPending
  <2> QED
    BY <2>1, <2>2
<1>5. SettledIsTrue'
  <2> SUFFICES ASSUME NEW v \in verdicts', v[3] = "settled"
               PROVE  \E op \in Operation : <<v[1], v[2], op>> \in applied
    BY DEF SettledIsTrue, Walks
  <2>1. CASE v \in verdicts
    BY <2>1 DEF SettledIsTrue
  <2>2. CASE v \notin verdicts
    <3>1. v[1] = del[d].job /\ v[2] = del[d].lease /\ del[d].call = "done"
      BY <2>2 DEF Walks
    <3>2. del[d].op \in Operation
      BY DEF TypeOK, Delivery
    <3> QED
      BY <3>1, <3>2 DEF CallsInPlace
  <2> QED
    BY <2>1, <2>2
<1>6. LostIsFinal'
  <2> SUFFICES ASSUME NEW v \in verdicts', v[3] \in {"lost", "rejected"}
               PROVE  /\ ~SettlementOut(v[1], v[2])'
                      /\ \A e \in Slot : del'[e].handler # "free" /\ del'[e].job = v[1] /\ del'[e].lease = v[2]
                                          => del'[e].handler = "close"
    BY DEF LostIsFinal, Lease
  <2>1. CASE v \in verdicts
    <3>1. /\ ~SettlementOut(v[1], v[2])
          /\ \A e \in Slot : del[e].handler # "free" /\ del[e].job = v[1] /\ del[e].lease = v[2]
                              => del[e].handler = "close"
      BY <2>1 DEF LostIsFinal, Lease
    <3>2. ~SettlementOut(v[1], v[2])'
      <4> SUFFICES ASSUME SettlementOut(v[1], v[2])' PROVE FALSE
        OBVIOUS
      <4>1. v[1] = del[d].job /\ v[2] = del[d].lease /\ del[d].handler = "operate"
        BY <3>1, WalkSettlements
      <4> QED
        BY <3>1, <4>1
    <3> QED
      BY <3>1, <3>2 DEF Walks
  <2>2. CASE v \notin verdicts
    <3>1. /\ v[1] = del[d].job /\ v[2] = del[d].lease /\ del'[d].handler = "close"
          /\ \/ del[d].handler \in Undecided
             \/ del[d].handler = "operate" /\ del[d].call = "rejected"
      BY <2>2 DEF Walks
    <3>2. ~SettlementOut(v[1], v[2])'
      <4>1. ~SettlementOut(v[1], v[2])
        BY <3>1 DEF CallsInPlace, NothingAsked
      <4> QED
        BY <3>1, <4>1, WalkSettlements DEF Undecided
    <3>3. \A e \in Slot \ {d} : del[e].handler # "free" => ~(del[e].job = v[1] /\ del[e].lease = v[2])
      BY <3>1 DEF LeasesAreFresh, Lease, Undecided
    <3> QED
      BY <3>1, <3>2, <3>3 DEF Walks
  <2> QED
    BY <2>1, <2>2
<1> QED
  BY <1>1, <1>2, <1>3, <1>4, <1>5, <1>6

LEMMA WalkKeepsDeadlines ==
  ASSUME ~StampOnReply, LeaseInv, DeadlinesAreBacked, NEW d \in Slot, Walks(d)
  PROVE  DeadlinesAreBacked'
<1>1. \A j \in Job : jobs'[j].expiry <= now' + LeaseMs
  BY DEF Walks, DeadlinesAreBacked
<1>2. ASSUME NEW e \in Slot, del'[e].handler \in Undecided
      PROVE  /\ del'[e].state = "active" => Backed(e, del[e].expiry)'
             /\ del'[e].call = "granted" => Backed(e, del[e].grant)'
  BY <1>2 DEF Walks, DeadlinesAreBacked, Backed, RenewedUntil, Undecided
<1> QED
  BY <1>1, <1>2 DEF DeadlinesAreBacked

-----------------------------------------------------------------------------
(* The steps of deliveries walk *)

\* The delivery in a slot, and the step that gives it the value s.
LEMMA SlotFacts ==
  ASSUME LeaseInv, NEW d \in Slot
  PROVE  /\ DeliveryTyped(del[d]) /\ now \in Nat
         /\ \A s : del' = [del EXCEPT ![d] = s] /\ DeliveryTyped(s)
              => /\ del'[d] = s /\ del' = [e \in Slot |-> del'[e]]
                 /\ \A e \in Slot \ {d} : del'[e] = del[e]
  BY DEF LeaseInv, TypeOK, DeliveryTyped

LEMMA ClaimAnswerLostWalks ==
  ASSUME LeaseInv, NEW d \in Slot, ClaimAnswerLost(d)
  PROVE  Walks(d)
<1>1. DeliveryTyped(FreeSlot)
  BY FreeSlotType DEF DeliveryTyped
<1> QED
  BY <1>1, SlotFacts, FreeSlotType DEF ClaimAnswerLost, Walks, QueueUnchanged

LEMMA CloseWalks ==
  ASSUME LeaseInv, NEW d \in Slot, Close(d)
  PROVE  Walks(d)
<1>1. DeliveryTyped(FreeSlot)
  BY FreeSlotType DEF DeliveryTyped
<1> QED
  BY <1>1, SlotFacts, FreeSlotType DEF Close, Walks, QueueUnchanged

LEMMA CrashWalks ==
  ASSUME LeaseInv, NEW d \in Slot, Crash(d)
  PROVE  Walks(d)
<1>1. DeliveryTyped(FreeSlot)
  BY FreeSlotType DEF DeliveryTyped
<1>2. \A m \in late' : \/ m \in late
                       \/ m = <<"renew", del[d].job, del[d].lease>>
                       \/ /\ del[d].handler = "operate" /\ del[d].call = "sent"
                          /\ m = <<del[d].op, del[d].job, del[d].lease>>
  BY DEF Crash, Orphan, LeaseInv, CallsInPlace
<1>3. ~NothingAsked(FreeSlot)
  BY FreeSlotType DEF NothingAsked, Undecided
<1> QED
  BY <1>1, <1>2, <1>3, SlotFacts, FreeSlotType DEF Crash, Walks, QueueUnchanged

LEMMA StartWalks ==
  ASSUME LeaseInv, NEW d \in Slot, Start(d)
  PROVE  Walks(d)
<1> DEFINE r == [del[d] EXCEPT !.handler = "execute"]
           s == LoopTop(r)
<1>1. r \in Delivery /\ r.handler = "execute" /\ r.job = del[d].job /\ r.lease = del[d].lease
      /\ r.expiry = del[d].expiry /\ r.state = del[d].state
  BY SlotFacts DEF DeliveryTyped, Delivery
<1> HIDE DEF r
<1>2. LoopLeft(r, s)
  BY <1>1, SlotFacts, LoopTopLeaves
<1>3. del' = [del EXCEPT ![d] = s]
  BY DEF Start, r
<1> HIDE DEF s
<1>4. DeliveryTyped(s)
  BY <1>1, <1>2 DEF LoopLeft, DeliveryTyped
<1>5. del[d].handler = "claimed" /\ UNCHANGED <<now, jobs, applied, late, verdicts>>
  BY DEF Start, QueueUnchanged
<1> QED
  BY <1>1, <1>2, <1>3, <1>4, <1>5, SlotFacts DEF LoopLeft, Walks, Undecided, NothingAsked

LEMMA LoopWakesWalks ==
  ASSUME LeaseInv, NEW d \in Slot, LoopWakes(d)
  PROVE  Walks(d)
<1>1. del[d] \in Delivery /\ DeliveryTyped(del[d]) /\ del[d].loop = "sleep"
  BY SlotFacts DEF DeliveryTyped, LoopWakes
<1> DEFINE c == [del[d] EXCEPT !.loop = "call", !.call = "sent"]
<1>2. c \in Delivery /\ c.loop = "call" /\ c.handler = del[d].handler /\ c.job = del[d].job
      /\ c.lease = del[d].lease /\ c.state = del[d].state /\ c.expiry = del[d].expiry /\ c.call = "sent"
  BY <1>1 DEF Delivery
<1> HIDE DEF c
<1>3. PICK s : /\ del' = [del EXCEPT ![d] = s]
               /\ s = c \/ s = LoopEnds(del[d]) \/ s = Lost(del[d])
  BY DEF LoopWakes, c
<1>4. s = c \/ LoopLeft(del[d], s)
  BY <1>1, <1>3, LoopEndsLeaves, LostLeaves
<1>5. DeliveryTyped(s)
  BY <1>1, <1>2, <1>4 DEF LoopLeft, DeliveryTyped
<1>6. del[d].handler \notin {"free", "operate"} /\ UNCHANGED <<now, jobs, applied, late, verdicts>>
  BY <1>1 DEF LoopWakes, QueueUnchanged, DeliveryTyped
<1>7. /\ s.handler = del[d].handler /\ s.job = del[d].job /\ s.lease = del[d].lease
      /\ s.expiry = del[d].expiry /\ s.state \in {del[d].state, "lost"}
      /\ s.call = "none" \/ (s.call = "sent" /\ s.loop = "call")
  BY <1>2, <1>4 DEF LoopLeft
<1>8. del'[d] = s /\ (NothingAsked(s) => NothingAsked(del[d]))
  BY <1>3, <1>5, <1>6, <1>7, SlotFacts DEF NothingAsked
<1> QED
  BY <1>3, <1>5, <1>6, <1>7, <1>8, SlotFacts DEF Walks, Undecided

LEMMA CallFailsWalks ==
  ASSUME LeaseInv, NEW d \in Slot, CallFails(d)
  PROVE  Walks(d)
<1>1. del[d] \in Delivery /\ DeliveryTyped(del[d])
  BY SlotFacts DEF DeliveryTyped
<1> DEFINE s == [del[d] EXCEPT !.call = "failed", !.grant = 0]
<1>2. s \in Delivery /\ s.loop = del[d].loop /\ s.handler = del[d].handler /\ s.job = del[d].job
      /\ s.lease = del[d].lease /\ s.state = del[d].state /\ s.expiry = del[d].expiry
      /\ s.call = "failed"
  BY <1>1 DEF Delivery
<1>3. del' = [del EXCEPT ![d] = s]
  BY DEF CallFails, LeaseInv, TypeOK
<1> HIDE DEF s
<1>4. DeliveryTyped(s)
  BY <1>1, <1>2 DEF DeliveryTyped
<1>5. RenewalPending(d) \/ del[d].handler = "operate"
  BY DEF CallFails, LeaseInv, CallsInPlace
<1>6. del[d].handler # "free" /\ UNCHANGED <<now, jobs, applied, verdicts>>
  BY <1>1, <1>5 DEF CallFails, QueueUnchanged, DeliveryTyped, RenewalPending
<1>7. \A m \in late' : \/ m \in late
                       \/ m = <<"renew", del[d].job, del[d].lease>>
                       \/ /\ del[d].handler = "operate" /\ del[d].call = "sent"
                          /\ m = <<del[d].op, del[d].job, del[d].lease>>
  BY <1>5 DEF CallFails, Orphan
<1>8. /\ NothingAsked(s) => NothingAsked(del[d])
      /\ del[d].handler = "operate" => ~NothingAsked(s)
  BY <1>2 DEF NothingAsked, Undecided
<1> QED
  BY <1>2, <1>3, <1>4, <1>5, <1>6, <1>7, <1>8, SlotFacts DEF Walks, Undecided, RenewalPending

LEMMA LoopResolvesWalks ==
  ASSUME LeaseInv, NEW d \in Slot, NEW outcome \in Outcome, LoopResolves(d, outcome)
  PROVE  Walks(d)
<1>1. del[d] \in Delivery /\ DeliveryTyped(del[d]) /\ del[d].loop = "call"
  BY SlotFacts DEF DeliveryTyped, LoopResolves
<1> DEFINE g == [del[d] EXCEPT !.expiry = RenewedUntil(del[d])]
<1>2. g \in Delivery /\ g.handler = del[d].handler /\ g.job = del[d].job
      /\ g.lease = del[d].lease /\ g.state = del[d].state /\ g.expiry = RenewedUntil(del[d])
  BY <1>1, SlotFacts DEF Delivery, RenewedUntil
<1> HIDE DEF g
<1>3. PICK r \in {del[d], g} :
        /\ r = del[d] \/ (r = g /\ del[d].call = "granted")
        /\ \/ del' = [del EXCEPT ![d] = LoopTop(r)]
           \/ del' = [del EXCEPT ![d] = Lost(r)]
  <2>1. CASE outcome \in {"expired", "null"}
    <3>1. del' = [del EXCEPT ![d] = Lost(del[d])]
      BY <2>1 DEF LoopResolves
    <3> QED
      BY <3>1
  <2>2. CASE outcome = "failed"
    <3>1. del' = [del EXCEPT ![d] = LoopTop(del[d])]
      BY <2>2 DEF LoopResolves
    <3> QED
      BY <3>1
  <2>3. CASE outcome = "granted"
    BY <2>3 DEF LoopResolves, g, RenewalOutcome
  <2> QED
    BY <2>1, <2>2, <2>3 DEF Outcome
<1>9. PICK s \in {LoopTop(r), Lost(r)} : del' = [del EXCEPT ![d] = s]
  BY <1>3
<1>4. r \in Delivery /\ LoopLeft(r, s)
  BY <1>1, <1>2, <1>3, SlotFacts, LoopTopLeaves, LostLeaves
<1>5. DeliveryTyped(s)
  BY <1>1, <1>2, <1>3, <1>4 DEF LoopLeft, DeliveryTyped
<1>6. del[d].handler # "free" /\ UNCHANGED <<now, jobs, applied, verdicts>>
  BY <1>1 DEF LoopResolves, QueueUnchanged, DeliveryTyped
<1>8. /\ s.handler = del[d].handler /\ s.job = del[d].job /\ s.lease = del[d].lease /\ s.call = "none"
      /\ s.state \in {del[d].state, "lost"}
      /\ s.expiry = del[d].expiry \/ (del[d].call = "granted" /\ s.expiry = RenewedUntil(del[d]))
  BY <1>2, <1>3, <1>4 DEF LoopLeft
<1>7. \A m \in late' : m \in late \/ m = <<"renew", del[d].job, del[d].lease>>
  BY DEF LoopResolves, Orphan
<1> QED
  BY <1>9, <1>5, <1>6, <1>7, <1>8, SlotFacts DEF Walks, Undecided, NothingAsked

LEMMA EndExecuteWalks ==
  ASSUME LeaseInv, NEW d \in Slot, EndExecute(d)
  PROVE  Walks(d)
<1>1. del[d] \in Delivery /\ DeliveryTyped(del[d]) /\ del[d].handler = "execute"
  BY SlotFacts DEF DeliveryTyped, EndExecute
<1>2. PICK h \in {"stop", "close"}, op \in Operation :
        /\ del' = [del EXCEPT ![d] = [del[d] EXCEPT !.handler = h, !.op = op]]
        /\ \/ verdicts' = verdicts
           \/ h = "close" /\ verdicts' = verdicts \cup {<<del[d].job, del[d].lease, "lost">>}
  <2>1. ASSUME NEW op \in Operation, del' = [del EXCEPT ![d].handler = "stop", ![d].op = op]
        PROVE  del' = [del EXCEPT ![d] = [del[d] EXCEPT !.handler = "stop", !.op = op]]
    BY <2>1 DEF LeaseInv, TypeOK
  <2>2. ASSUME del' = [del EXCEPT ![d].handler = "close"]
        PROVE  del' = [del EXCEPT ![d] = [del[d] EXCEPT !.handler = "close", !.op = del[d].op]]
    BY <2>2, <1>1 DEF LeaseInv, TypeOK, Delivery
  <2>3. del[d].op \in Operation
    BY <1>1 DEF Delivery
  <2> QED
    BY <2>1, <2>2, <2>3 DEF EndExecute, Report
<1> DEFINE s == [del[d] EXCEPT !.handler = h, !.op = op]
<1>3. s \in Delivery /\ s.handler = h /\ s.job = del[d].job /\ s.lease = del[d].lease
      /\ s.state = del[d].state /\ s.expiry = del[d].expiry /\ s.call = del[d].call
      /\ s.loop = del[d].loop /\ s.grant = del[d].grant
  BY <1>1 DEF Delivery
<1> HIDE DEF s
<1>4. DeliveryTyped(s)
  BY <1>3 DEF DeliveryTyped
<1>5. UNCHANGED <<now, jobs, applied, late>> /\ del' = [del EXCEPT ![d] = s]
  BY <1>2 DEF EndExecute, QueueUnchanged, s
<1>6. del[d].call # "none" => del[d].loop = "call"
  BY <1>1 DEF LeaseInv, CallsInPlace, RenewalPending
<1>7. del[d].call # "done"
  BY <1>1 DEF LeaseInv, CallsInPlace, SettlementOut, NothingAsked, Undecided, Delivery
<1>8. \A v \in verdicts' :
        \/ v \in verdicts
        \/ v = <<del[d].job, del[d].lease, "lost">> /\ h = "close"
  BY <1>2
<1> QED
  BY <1>1, <1>2, <1>3, <1>4, <1>5, <1>6, <1>7, <1>8, SlotFacts DEF Walks, Undecided, NothingAsked

LEMMA ConfirmStartsWalks ==
  ASSUME LeaseInv, NEW d \in Slot, ConfirmStarts(d)
  PROVE  Walks(d)
<1>1. del[d] \in Delivery /\ DeliveryTyped(del[d]) /\ del[d].handler = "stop" /\ del[d].loop = "done"
  BY SlotFacts DEF DeliveryTyped, ConfirmStarts
<1>2. UNCHANGED <<now, jobs, applied, late>>
  BY DEF ConfirmStarts, QueueUnchanged
<1>3. CASE del[d].state = "lost" \/ Expired(del[d])
  <2> DEFINE r == Lost(del[d])
             s == [r EXCEPT !.handler = "close"]
  <2>1. LoopLeft(del[d], r)
    BY <1>1, LostLeaves
  <2>2. del' = [del EXCEPT ![d] = s]
    BY <1>3 DEF ConfirmStarts
  <2> HIDE DEF r
  <2>3. s \in Delivery /\ s.handler = "close" /\ s.job = del[d].job /\ s.lease = del[d].lease
        /\ s.call = "none" /\ s.loop = r.loop
    BY <2>1 DEF LoopLeft, Delivery
  <2> HIDE DEF s
  <2>4. \A v \in verdicts' :
          v \in verdicts \/ v = <<del[d].job, del[d].lease, "lost">>
    BY <1>3 DEF ConfirmStarts, Report
  <2>5. DeliveryTyped(s)
    BY <2>3 DEF DeliveryTyped
  <2> QED
    BY <1>1, <1>2, <2>2, <2>3, <2>4, <2>5, SlotFacts DEF Walks, Undecided, NothingAsked
<1>4. CASE ~(del[d].state = "lost" \/ Expired(del[d]))
  <2> DEFINE s == [del[d] EXCEPT !.handler = "confirm", !.call = "sent"]
  <2>1. s \in Delivery /\ s.handler = "confirm" /\ s.job = del[d].job /\ s.lease = del[d].lease
        /\ s.call = "sent" /\ s.loop = del[d].loop /\ s.state = del[d].state /\ s.expiry = del[d].expiry
    BY <1>1 DEF Delivery
  <2>2. del' = [del EXCEPT ![d] = s] /\ verdicts' = verdicts
    BY <1>4 DEF ConfirmStarts, LeaseInv, TypeOK
  <2> HIDE DEF s
  <2>3. DeliveryTyped(s)
    BY <1>1, <2>1 DEF DeliveryTyped
  <2> QED
    BY <1>1, <1>2, <2>1, <2>2, <2>3, SlotFacts DEF Walks, Undecided, NothingAsked
<1> QED
  BY <1>3, <1>4

LEMMA ConfirmResolvesWalks ==
  ASSUME LeaseInv, NEW d \in Slot, NEW outcome \in Outcome, ConfirmResolves(d, outcome)
  PROVE  Walks(d)
<1>1. del[d] \in Delivery /\ DeliveryTyped(del[d]) /\ del[d].handler = "confirm" /\ del[d].loop = "done"
  BY SlotFacts DEF DeliveryTyped, ConfirmResolves
<1>2. UNCHANGED <<now, jobs, applied>>
  BY DEF ConfirmResolves, QueueUnchanged
<1>3. \A m \in late' : m \in late \/ m = <<"renew", del[d].job, del[d].lease>>
  BY DEF ConfirmResolves, Orphan
<1> DEFINE goesOn == outcome = "granted" \/ (outcome = "failed" /\ ~Expired(del[d]))
<1>4. CASE ~goesOn
  <2> DEFINE r == Lost(del[d])
             s == [r EXCEPT !.handler = "close"]
  <2>1. LoopLeft(del[d], r)
    BY <1>1, LostLeaves
  <2>2. del' = [del EXCEPT ![d] = s]
    BY <1>4 DEF ConfirmResolves
  <2> HIDE DEF r
  <2>3. s \in Delivery /\ s.handler = "close" /\ s.job = del[d].job /\ s.lease = del[d].lease
        /\ s.call = "none" /\ s.loop = r.loop
    BY <2>1 DEF LoopLeft, Delivery
  <2> HIDE DEF s
  <2>4. \A v \in verdicts' :
          v \in verdicts \/ v = <<del[d].job, del[d].lease, "lost">>
    BY <1>4 DEF ConfirmResolves, Report
  <2>5. DeliveryTyped(s)
    BY <2>3 DEF DeliveryTyped
  <2> QED
    BY <1>1, <1>2, <1>3, <2>2, <2>3, <2>4, <2>5, SlotFacts DEF Walks, Undecided, NothingAsked
<1>5. CASE goesOn
  <2> DEFINE until == IF outcome = "granted" THEN RenewedUntil(del[d]) ELSE del[d].expiry
             s == [del[d] EXCEPT !.handler = "operate", !.call = "sent", !.grant = 0, !.expiry = until]
  <2>1. until \in Nat
    BY <1>1, SlotFacts DEF RenewedUntil, Delivery
  <2>2. del' = [del EXCEPT ![d] = s] /\ verdicts' = verdicts
    BY <1>5, <1>1 DEF ConfirmResolves, LeaseInv, TypeOK, Delivery
  <2> HIDE DEF until
  <2>3. s \in Delivery /\ s.handler = "operate" /\ s.job = del[d].job /\ s.lease = del[d].lease
        /\ s.call = "sent" /\ s.loop = del[d].loop
    BY <1>1, <2>1 DEF Delivery
  <2> HIDE DEF s
  <2>4. DeliveryTyped(s)
    BY <1>1, <2>3 DEF DeliveryTyped
  <2> QED
    BY <1>1, <1>2, <1>3, <2>2, <2>3, <2>4, SlotFacts DEF Walks, Undecided, NothingAsked
<1> QED
  BY <1>4, <1>5

LEMMA SettleResolvesWalks ==
  ASSUME LeaseInv, NEW d \in Slot, SettleResolves(d)
  PROVE  Walks(d)
<1>1. del[d] \in Delivery /\ DeliveryTyped(del[d]) /\ del[d].handler = "operate" /\ del[d].loop = "done"
  BY SlotFacts DEF DeliveryTyped, SettleResolves
<1>2. PICK st \in {del[d].state, "settled"}, w \in {"settled", "rejected", "unknown"} :
        /\ del' = [del EXCEPT ![d] = [del[d] EXCEPT !.handler = "close", !.state = st, !.call = "none"]]
        /\ verdicts' = verdicts \cup {<<del[d].job, del[d].lease, w>>}
        /\ w = "settled" => del[d].call = "done"
        /\ w = "rejected" => del[d].call = "rejected"
  BY <1>1 DEF SettleResolves, Report, LeaseInv, TypeOK, Delivery
<1> DEFINE s == [del[d] EXCEPT !.handler = "close", !.state = st, !.call = "none"]
<1>3. s \in Delivery /\ s.handler = "close" /\ s.job = del[d].job /\ s.lease = del[d].lease
      /\ s.call = "none"
  BY <1>1 DEF Delivery
<1> HIDE DEF s
<1>4. DeliveryTyped(s)
  BY <1>3 DEF DeliveryTyped
<1>5. UNCHANGED <<now, jobs, applied, late>> /\ del' = [del EXCEPT ![d] = s]
  BY <1>2 DEF SettleResolves, QueueUnchanged, s
<1>6. \A v \in verdicts' : v \in verdicts \/ v = <<del[d].job, del[d].lease, w>>
  BY <1>2
<1> QED
  BY <1>1, <1>2, <1>3, <1>4, <1>5, <1>6, SlotFacts DEF Walks, Undecided, NothingAsked

-----------------------------------------------------------------------------
(* The queue's own steps *)

\* What the queue may do to a job that is not being settled: lease it anew,
\* extend its lease, or add it.  It takes back no lease number.
JobMoves(j) ==
  /\ jobs'[j] \in Queue!JobRecord
  /\ jobs[j].attempt <= jobs'[j].attempt
  /\ jobs'[j].state = "absent" => jobs'[j].attempt = 0
  /\ jobs[j].state \in {"completed", "failed"} => jobs'[j] = jobs[j]
  /\ \/ jobs'[j].lease = jobs[j].lease /\ jobs'[j].attempt = jobs[j].attempt
     \/ jobs'[j].lease = jobs'[j].attempt /\ jobs[j].attempt < jobs'[j].attempt

\* A call of delivery e is answered, or nothing happens to e.
Answered(e) ==
  \/ del'[e] = del[e]
  \/ /\ DeliveryTyped(del'[e])
     /\ del'[e].handler = del[e].handler /\ del'[e].loop = del[e].loop
     /\ del'[e].job = del[e].job /\ del'[e].lease = del[e].lease /\ del'[e].op = del[e].op
     /\ del[e].call = "sent"
     /\ del'[e].call # "done"

LEMMA JobMovesKeepsLeases ==
  ASSUME LeaseInv, now' \in 0..MaxTime, DOMAIN jobs' = Job, jobs' = [j \in Job |-> jobs'[j]],
         \A j \in Job : JobMoves(j),
         del' \in [Slot -> Delivery], \A e \in Slot : Answered(e),
         late' \subseteq late, applied' = applied, verdicts' = verdicts
  PROVE  LeaseInv'
<1> USE DEF LeaseInv
<1>1. \A e \in Slot : /\ del'[e].handler = del[e].handler /\ del'[e].loop = del[e].loop
                      /\ del'[e].job = del[e].job /\ del'[e].lease = del[e].lease
                      /\ del'[e].op = del[e].op
                      /\ del'[e].call # "none" => del[e].call # "none"
                      /\ del'[e].call = "done" => del[e].call = "done"
                      /\ NothingAsked(del'[e]) => NothingAsked(del[e])
  BY DEF Answered, NothingAsked
<1>2. TypeOK'
  <2>1. jobs' \in [Job -> Queue!JobRecord]
    BY DEF JobMoves
  <2> QED
    BY <1>1, <2>1 DEF TypeOK
<1>3. ASSUME NEW j \in Job, NEW l, HandedOut(j, l)
      PROVE  HandedOut(j, l)'
  <2>1. jobs[j].attempt \in Nat /\ jobs'[j].attempt \in Nat /\ jobs[j].attempt <= jobs'[j].attempt
    BY DEF JobMoves, TypeOK, Queue!JobRecord
  <2> QED
    BY <1>3, <2>1 DEF HandedOut
<1>4. LatestLeaseRuns'
  BY DEF LatestLeaseRuns, JobMoves
<1>5. ASSUME NEW j, NEW l, SettlementOut(j, l)'
      PROVE  SettlementOut(j, l)
  BY <1>5 DEF SettlementOut
<1>6. LeasesAreFresh'
  <2>1. \A e \in Slot : del[e].job \in Job
    BY DEF TypeOK, Delivery
  <2>2. (\A m \in late : m[2] \in Job) /\ (\A x \in applied : x[1] \in Job)
        /\ (\A v \in verdicts : v[1] \in Job)
    BY DEF TypeOK
  <2> QED
    BY <1>1, <1>3, <2>1, <2>2 DEF LeasesAreFresh, Lease
<1>7. SettledIsOver'
  <2> SUFFICES ASSUME NEW x \in applied
               PROVE  /\ jobs'[x[1]].lease # x[2]
                      /\ x[3] # "retry" => jobs'[x[1]].state \in {"completed", "failed"}
    BY DEF SettledIsOver
  <2>1. x[1] \in Job /\ x[2] \in Nat
    BY DEF TypeOK
  <2>2. x[2] <= jobs[x[1]].attempt /\ jobs[x[1]].lease # x[2]
        /\ (x[3] # "retry" => jobs[x[1]].state \in {"completed", "failed"})
    BY <2>1 DEF LeasesAreFresh, HandedOut, SettledIsOver, TypeOK, Queue!JobRecord
  <2>3. JobMoves(x[1])
    BY <2>1
  <2>4. jobs[x[1]].attempt \in Nat /\ jobs'[x[1]].attempt \in Nat
    BY <2>1, <2>3 DEF JobMoves, TypeOK, Queue!JobRecord
  <2> QED
    BY <2>1, <2>2, <2>3, <2>4 DEF JobMoves
<1>8. CallsInPlace'
  BY <1>1, <1>5 DEF CallsInPlace, RenewalPending
<1>9. LostIsFinal'
  BY <1>1, <1>5 DEF LostIsFinal, Lease
<1>10. SettledIsTrue' /\ SettledOnce'
  BY DEF SettledIsTrue, SettledOnce
<1> QED
  BY <1>2, <1>4, <1>6, <1>7, <1>8, <1>9, <1>10

\* A job the queue leaves alone moves nowhere.
LEMMA JobStays ==
  ASSUME LeaseInv, NEW j \in Job, jobs'[j] = jobs[j]
  PROVE  JobMoves(j)
<1>1. jobs[j] \in Queue!JobRecord /\ jobs[j].attempt \in Nat
  BY DEF LeaseInv, TypeOK, Queue!JobRecord
<1> QED
  BY <1>1 DEF JobMoves, LeaseInv, LatestLeaseRuns

LEMMA EnqueueKeeps ==
  ASSUME LeaseInv, NEW j \in Job, Enqueue(j)
  PROVE  LeaseInv' /\ (DeadlinesAreBacked => DeadlinesAreBacked')
<1>1. /\ jobs' = [jobs EXCEPT ![j] = Queue!NewJob(now)] /\ jobs[j].state = "absent"
      /\ UNCHANGED <<now, del, late, applied, verdicts>>
  BY DEF Enqueue, Queue!Enqueue
<1>2. /\ jobs \in [Job -> Queue!JobRecord] /\ now \in Nat /\ now \in 0..MaxTime
      /\ jobs[j].attempt = 0 /\ jobs[j].lease = 0
  BY <1>1 DEF LeaseInv, TypeOK, LatestLeaseRuns
<1>3. Queue!NewJob(now) \in Queue!JobRecord
  BY <1>2 DEF Queue!NewJob, Queue!JobRecord, Queue!NoLease
<1>4. ASSUME NEW k \in Job PROVE JobMoves(k)
  <2>1. CASE k = j
    BY <1>1, <1>2, <1>3, <2>1 DEF JobMoves, Queue!NewJob, Queue!NoLease
  <2>2. CASE k # j
    BY <1>1, <1>2, <2>2, JobStays
  <2> QED
    BY <2>1, <2>2
<1>5. LeaseInv'
  <2>1. jobs' = [k \in Job |-> jobs'[k]] /\ DOMAIN jobs' = Job
    BY <1>1, <1>2
  <2>2. del' \in [Slot -> Delivery]
    BY <1>1 DEF LeaseInv, TypeOK
  <2> QED
    BY <1>1, <1>2, <1>4, <2>1, <2>2, JobMovesKeepsLeases DEF Answered
<1>6. ASSUME DeadlinesAreBacked PROVE DeadlinesAreBacked'
  <2>1. \A k \in Job : jobs'[k].expiry <= now' + LeaseMs
    BY <1>1, <1>2, <1>6 DEF DeadlinesAreBacked, Queue!NewJob
  <2>2. ASSUME NEW e \in Slot, NEW until, Backed(e, until) PROVE Backed(e, until)'
    BY <1>1, <1>2, <2>2 DEF Backed
  <2> QED
    BY <1>1, <1>6, <2>1, <2>2 DEF DeadlinesAreBacked
<1> QED
  BY <1>5, <1>6

LEMMA TickKeeps ==
  ASSUME LeaseInv, Tick
  PROVE  LeaseInv' /\ (DeadlinesAreBacked => DeadlinesAreBacked')
<1>1. UNCHANGED <<jobs, del, late, applied, verdicts>> /\ now' = now + 1 /\ now' \in 0..MaxTime
  BY DEF Tick, Queue!Clock, LeaseInv, TypeOK
<1>2. jobs' = [k \in Job |-> jobs'[k]] /\ DOMAIN jobs' = Job /\ del' \in [Slot -> Delivery]
      /\ now \in Nat
  BY <1>1 DEF LeaseInv, TypeOK
<1>3. LeaseInv'
  BY <1>1, <1>2, JobStays, JobMovesKeepsLeases DEF Answered
<1>4. ASSUME DeadlinesAreBacked PROVE DeadlinesAreBacked'
  <2>1. \A k \in Job : jobs[k].expiry \in Nat
    BY DEF LeaseInv, TypeOK, Queue!JobRecord
  <2>2. \A k \in Job : jobs'[k].expiry <= now' + LeaseMs
    BY <1>1, <1>2, <1>4, <2>1 DEF DeadlinesAreBacked
  <2>3. ASSUME NEW e \in Slot, NEW until \in Nat, Backed(e, until) PROVE Backed(e, until)'
    BY <1>1, <1>2, <2>3 DEF Backed
  <2>4. \A e \in Slot : del[e].expiry \in Nat /\ del[e].grant \in Nat
    BY DEF LeaseInv, TypeOK, Delivery
  <2> QED
    BY <1>1, <1>4, <2>2, <2>3, <2>4 DEF DeadlinesAreBacked
<1> QED
  BY <1>3, <1>4

\* A renewal of lease l of job j: the running lease ends a lease length from now.
LEMMA RenewMoves ==
  ASSUME LeaseInv, NEW j \in Job, NEW l, Queue!Renew(j, l)
  PROVE  /\ \A k \in Job : JobMoves(k)
         /\ jobs' = [k \in Job |-> jobs'[k]] /\ DOMAIN jobs' = Job /\ now' = now /\ now \in 0..MaxTime
         /\ \A k \in Job \ {j} : jobs'[k] = jobs[k]
         /\ jobs[j].state = "queued" /\ jobs[j].lease = l
         /\ jobs'[j].state = "queued" /\ jobs'[j].lease = l /\ jobs'[j].expiry = now + LeaseMs
<1>1. jobs[j] \in Queue!JobRecord /\ now \in Nat /\ jobs \in [Job -> Queue!JobRecord] /\ now \in 0..MaxTime
  BY DEF LeaseInv, TypeOK
<1> DEFINE r == [jobs[j] EXCEPT !.expiry = now + LeaseMs]
<1>2. /\ r \in Queue!JobRecord /\ r.state = jobs[j].state /\ r.lease = jobs[j].lease
      /\ r.attempt = jobs[j].attempt /\ r.expiry = now + LeaseMs
  BY <1>1 DEF Queue!JobRecord
<1>3. jobs' = [jobs EXCEPT ![j] = r] /\ now' = now /\ jobs[j].state = "queued" /\ jobs[j].lease = l
  BY <1>1 DEF Queue!Renew, Queue!ActiveLease
<1> HIDE DEF r
<1>4. JobMoves(j)
  <2>1. jobs[j].attempt \in Nat
    BY <1>1 DEF Queue!JobRecord
  <2> QED
    BY <1>1, <1>2, <1>3, <2>1 DEF JobMoves
<1>5. \A k \in Job \ {j} : JobMoves(k)
  BY <1>1, <1>3, JobStays
<1> QED
  BY <1>1, <1>2, <1>3, <1>4, <1>5

\* A renewal takes no deadline back.
LEMMA RenewKeepsBacked ==
  ASSUME LeaseInv, DeadlinesAreBacked, NEW j \in Job, NEW l, Queue!Renew(j, l)
  PROVE  /\ \A k \in Job : jobs'[k].expiry <= now' + LeaseMs
         /\ \A e \in Slot, until \in Nat :
              Backed(e, until) /\ del'[e].job = del[e].job /\ del'[e].lease = del[e].lease
                => Backed(e, until)'
<1>1. /\ \A k \in Job \ {j} : jobs'[k] = jobs[k]
      /\ jobs[j].state = "queued" /\ jobs[j].lease = l /\ now' = now
      /\ jobs'[j].state = "queued" /\ jobs'[j].lease = l /\ jobs'[j].expiry = now + LeaseMs
  BY RenewMoves
<1>2. now \in Nat /\ \A k \in Job : jobs[k].expiry \in Nat /\ jobs[k].expiry <= now + LeaseMs
  BY DEF LeaseInv, TypeOK, DeadlinesAreBacked, Queue!JobRecord
<1>3. \A k \in Job : jobs'[k].expiry <= now' + LeaseMs
  BY <1>1, <1>2
<1>4. ASSUME NEW e \in Slot, NEW until \in Nat, Backed(e, until),
             del'[e].job = del[e].job, del'[e].lease = del[e].lease
      PROVE  Backed(e, until)'
  <2>1. CASE del[e].job = j
    BY <1>1, <1>2, <1>4, <2>1 DEF Backed
  <2>2. CASE del[e].job # j
    <3>1. del[e].job \in Job
      BY DEF LeaseInv, TypeOK, Delivery
    <3> QED
      BY <1>1, <1>4, <2>2, <3>1 DEF Backed
  <2> QED
    BY <2>1, <2>2
<1> QED
  BY <1>3, <1>4

LEMMA ServeRenewalKeeps ==
  ASSUME LeaseInv, NEW d \in Slot, ServeRenewal(d)
  PROVE  LeaseInv' /\ (DeadlinesAreBacked => DeadlinesAreBacked')
<1>1. /\ del[d] \in Delivery /\ DeliveryTyped(del[d]) /\ now \in Nat /\ now \in 0..MaxTime
      /\ del[d].call = "sent" /\ UNCHANGED <<late, applied, verdicts>>
      /\ del \in [Slot -> Delivery]
  BY SlotFacts DEF DeliveryTyped, ServeRenewal, LeaseInv, TypeOK
<1>2. CASE /\ Queue!Renew(del[d].job, del[d].lease)
           /\ del' = [del EXCEPT ![d].call = "granted", ![d].grant = now + LeaseMs]
  <2> DEFINE s == [del[d] EXCEPT !.call = "granted", !.grant = now + LeaseMs]
  <2>0. now + LeaseMs \in Nat
    BY <1>1
  <2>1. /\ s \in Delivery /\ s.handler = del[d].handler /\ s.loop = del[d].loop /\ s.job = del[d].job
        /\ s.lease = del[d].lease /\ s.op = del[d].op /\ s.call = "granted" /\ s.state = del[d].state
        /\ s.expiry = del[d].expiry /\ s.grant = now + LeaseMs
    BY <1>1, <2>0 DEF Delivery
  <2>2. del' = [del EXCEPT ![d] = s]
    BY <1>1, <1>2
  <2> HIDE DEF s
  <2>3. /\ \A e \in Slot \ {d} : del'[e] = del[e]
        /\ del'[d] = s /\ del' \in [Slot -> Delivery]
    BY <1>1, <2>1, <2>2
  <2>4. \A e \in Slot : Answered(e)
    BY <1>1, <2>1, <2>3 DEF Answered, DeliveryTyped
  <2>5. del[d].job \in Job /\ del[d].lease \in Nat
    BY <1>1 DEF Delivery
  <2>6. LeaseInv'
    BY <1>1, <1>2, <2>3, <2>4, <2>5, RenewMoves, JobMovesKeepsLeases
  <2>7. ASSUME DeadlinesAreBacked PROVE DeadlinesAreBacked'
    <3>1. /\ \A k \in Job : jobs'[k].expiry <= now' + LeaseMs
          /\ \A e \in Slot, until \in Nat :
               Backed(e, until) /\ del'[e].job = del[e].job /\ del'[e].lease = del[e].lease
                 => Backed(e, until)'
      BY <1>2, <2>5, <2>7, RenewKeepsBacked
    <3>2. \A e \in Slot : del[e].expiry \in Nat /\ del[e].grant \in Nat
      BY <1>1 DEF Delivery
    <3>3. ASSUME NEW e \in Slot \ {d}, del'[e].handler \in Undecided
          PROVE  /\ del'[e].state = "active" => Backed(e, del[e].expiry)'
                 /\ del'[e].call = "granted" => Backed(e, del[e].grant)'
      BY <2>3, <2>7, <3>1, <3>2, <3>3 DEF DeadlinesAreBacked
    <3>4. ASSUME del'[d].handler \in Undecided, del'[d].state = "active"
          PROVE  Backed(d, del[d].expiry)'
      BY <2>1, <2>3, <2>7, <3>1, <3>2, <3>4 DEF DeadlinesAreBacked
    <3>5. Backed(d, del[d].grant)'
      BY <1>1, <1>2, <2>1, <2>3, <2>5, RenewMoves DEF Backed
    <3> QED
      BY <3>1, <3>3, <3>4, <3>5 DEF DeadlinesAreBacked
  <2> QED
    BY <2>6, <2>7
<1>3. CASE del' = [del EXCEPT ![d].call = "null"] /\ UNCHANGED <<now, jobs>>
  <2> DEFINE s == [del[d] EXCEPT !.call = "null"]
  <2>1. /\ s \in Delivery /\ s.handler = del[d].handler /\ s.loop = del[d].loop /\ s.job = del[d].job
        /\ s.lease = del[d].lease /\ s.op = del[d].op /\ s.call = "null" /\ s.state = del[d].state
        /\ s.expiry = del[d].expiry
    BY <1>1 DEF Delivery
  <2>2. del' = [del EXCEPT ![d] = s]
    BY <1>1, <1>3
  <2> HIDE DEF s
  <2>3. /\ \A e \in Slot \ {d} : del'[e] = del[e]
        /\ del'[d] = s /\ del' \in [Slot -> Delivery]
    BY <1>1, <2>1, <2>2
  <2>4. \A e \in Slot : Answered(e)
    BY <1>1, <2>1, <2>3 DEF Answered, DeliveryTyped
  <2>5. jobs' = [k \in Job |-> jobs'[k]] /\ DOMAIN jobs' = Job
    BY <1>3 DEF LeaseInv, TypeOK
  <2>6. LeaseInv'
    BY <1>1, <1>3, <2>3, <2>4, <2>5, JobStays, JobMovesKeepsLeases
  <2>7. ASSUME DeadlinesAreBacked PROVE DeadlinesAreBacked'
    BY <1>3, <2>1, <2>3, <2>7 DEF DeadlinesAreBacked, Backed
  <2> QED
    BY <2>6, <2>7
<1> QED
  BY <1>2, <1>3 DEF ServeRenewal

LEMMA ClaimKeeps ==
  ASSUME LeaseInv, NEW d \in Slot, NEW j \in Job, Claim(d, j)
  PROVE  LeaseInv' /\ (DeadlinesAreBacked => DeadlinesAreBacked')
<1>1. /\ del \in [Slot -> Delivery] /\ jobs \in [Job -> Queue!JobRecord] /\ now \in Nat /\ now \in 0..MaxTime
      /\ del[d].handler = "free" /\ UNCHANGED <<now, late, applied, verdicts>>
  <2>1. del \in [Slot -> Delivery] /\ jobs \in [Job -> Queue!JobRecord] /\ now \in Nat /\ now \in 0..MaxTime
    BY DEF LeaseInv, TypeOK
  <2>2. del[d].handler = "free" /\ UNCHANGED <<now, late, applied, verdicts>>
    BY DEF Claim, Queue!Claim
  <2> QED
    BY <2>1, <2>2
<1>0. Queue!Visible(j)
  <2>1. \A k \in {j} : Queue!Visible(k)
    BY DEF Claim, Queue!Claim
  <2> QED
    BY <2>1
<1> DEFINE r == [jobs[j] EXCEPT !.attempt = @ + 1, !.lease = jobs[j].attempt + 1, !.expiry = now + LeaseMs]
           s == [FreeSlot EXCEPT !.handler = "claimed", !.job = j, !.lease = r.lease, !.expiry = r.expiry]
<1>21. jobs[j].attempt \in Nat /\ jobs[j].attempt + 1 \in Nat /\ now + LeaseMs \in Nat
  <2>1. jobs[j].attempt \in Nat
    BY <1>1 DEF Queue!JobRecord
  <2> QED
    BY <1>1, <2>1
<1>2. /\ r \in Queue!JobRecord /\ r.state = jobs[j].state /\ r.attempt = jobs[j].attempt + 1
      /\ r.lease = jobs[j].attempt + 1 /\ r.expiry = now + LeaseMs /\ jobs[j].attempt \in Nat
  BY <1>1, <1>21 DEF Queue!JobRecord
<1>3. jobs' = [k \in Job |-> IF k = j THEN r ELSE jobs[k]]
  BY DEF Claim, Queue!Claim
<1> HIDE DEF r
<1>4. /\ s \in Delivery /\ DeliveryTyped(s) /\ s.handler = "claimed" /\ s.job = j /\ s.lease = r.lease
      /\ s.expiry = r.expiry /\ s.call = "none" /\ s.loop = "done"
  <2>1. r.lease \in Nat /\ r.expiry \in Nat
    BY <1>2 DEF Queue!JobRecord
  <2> QED
    BY <2>1, FreeSlotType DEF Delivery, DeliveryTyped
<1>5. del' = [del EXCEPT ![d] = s]
  BY <1>3 DEF Claim
<1> HIDE DEF s
<1>6. del' \in [Slot -> Delivery] /\ del'[d] = s /\ \A e \in Slot \ {d} : del'[e] = del[e]
  BY <1>1, <1>4, <1>5
<1>7. \A k \in Job : JobMoves(k)
  <2>1. JobMoves(j)
    BY <1>0, <1>1, <1>2, <1>3 DEF JobMoves, Queue!Visible
  <2>2. \A k \in Job \ {j} : JobMoves(k)
    BY <1>3, JobStays
  <2> QED
    BY <2>1, <2>2
<1> USE DEF LeaseInv
<1>8. TypeOK'
  <2>1. jobs' \in [Job -> Queue!JobRecord]
    BY <1>1, <1>2, <1>3
  <2> QED
    BY <1>1, <1>4, <1>6, <2>1 DEF TypeOK, DeliveryTyped
<1>9. LatestLeaseRuns'
  BY <1>7, <1>3 DEF LatestLeaseRuns, JobMoves
<1>10. ASSUME NEW k \in Job, NEW l, HandedOut(k, l)
       PROVE  HandedOut(k, l)' /\ (k = j => l # r.lease)
  <2>1. jobs[k].attempt \in Nat /\ jobs'[k].attempt \in Nat /\ jobs[k].attempt <= jobs'[k].attempt
    BY <1>1, <1>7 DEF JobMoves, Queue!JobRecord
  <2> QED
    BY <1>2, <1>10, <2>1 DEF HandedOut
<1>11. r.lease \in 1..jobs'[j].attempt
  BY <1>2, <1>3
<1>12. (\A m \in late : m[2] \in Job) /\ (\A x \in applied : x[1] \in Job)
       /\ (\A v \in verdicts : v[1] \in Job) /\ (\A e \in Slot : del[e].job \in Job)
  BY DEF TypeOK, Delivery
<1>13. LeasesAreFresh'
  <2>1. /\ \A m \in late' : HandedOut(m[2], m[3])'
        /\ \A x \in applied' : HandedOut(x[1], x[2])'
        /\ \A v \in verdicts' : HandedOut(v[1], v[2])'
    BY <1>1, <1>10, <1>12 DEF LeasesAreFresh
  <2>2. ASSUME NEW e \in Slot \ {d}, del'[e].handler # "free"
        PROVE  HandedOut(del[e].job, del[e].lease)' /\ ~(del'[e].job = j /\ del'[e].lease = r.lease)
    BY <1>6, <1>10, <1>12, <2>2 DEF LeasesAreFresh
  <2>3. HandedOut(del[d].job, del[d].lease)'
    BY <1>4, <1>6, <1>11 DEF HandedOut
  <2> QED
    BY <1>4, <1>6, <2>1, <2>2, <2>3 DEF LeasesAreFresh, Lease
<1>14. SettledIsOver'
  <2> SUFFICES ASSUME NEW x \in applied
               PROVE  /\ jobs'[x[1]].lease # x[2]
                      /\ x[3] # "retry" => jobs'[x[1]].state \in {"completed", "failed"}
    BY <1>1 DEF SettledIsOver
  <2>1. HandedOut(x[1], x[2]) /\ x[1] \in Job /\ jobs[x[1]].lease # x[2]
        /\ (x[3] # "retry" => jobs[x[1]].state \in {"completed", "failed"})
    BY <1>12 DEF LeasesAreFresh, SettledIsOver
  <2>2. x[1] = j => x[2] # r.lease
    BY <1>10, <2>1
  <2> QED
    BY <1>2, <1>3, <2>1, <2>2
<1>15. \A a, l : SettlementOut(a, l)' => SettlementOut(a, l)
  BY <1>1 DEF SettlementOut
<1>16. ~SettlementOut(j, r.lease)
  <2> SUFFICES ASSUME SettlementOut(j, r.lease) PROVE FALSE
    OBVIOUS
  <2>1. PICK op \in Operation : <<j, r.lease, op>> \in applied \/ <<op, j, r.lease>> \in late
    BY DEF SettlementOut
  <2>2. HandedOut(j, r.lease)
    BY <2>1 DEF LeasesAreFresh
  <2> QED
    BY <2>2, <1>10
<1>17. CallsInPlace'
  BY <1>1, <1>4, <1>6, <1>15, <1>16 DEF CallsInPlace, RenewalPending, NothingAsked
<1>18. LostIsFinal'
  <2> SUFFICES ASSUME NEW v \in verdicts, v[3] \in {"lost", "rejected"}
               PROVE  /\ ~SettlementOut(v[1], v[2])'
                      /\ \A e \in Slot : del'[e].handler # "free" /\ del'[e].job = v[1] /\ del'[e].lease = v[2]
                                          => del'[e].handler = "close"
    BY <1>1 DEF LostIsFinal, Lease
  <2>1. ~SettlementOut(v[1], v[2])'
    BY <1>15 DEF LostIsFinal
  <2>2. ~(v[1] = j /\ v[2] = r.lease)
    BY <1>10, <1>12 DEF LeasesAreFresh
  <2> QED
    BY <1>4, <1>6, <2>1, <2>2 DEF LostIsFinal, Lease
<1>19. SettledIsTrue' /\ SettledOnce'
  BY <1>1 DEF SettledIsTrue, SettledOnce
<1>20. ASSUME DeadlinesAreBacked PROVE DeadlinesAreBacked'
  <2>1. \A k \in Job : jobs'[k].expiry <= now' + LeaseMs
    BY <1>1, <1>2, <1>3, <1>20 DEF DeadlinesAreBacked
  <2>2. ASSUME NEW e \in Slot \ {d}, NEW until \in Nat, Backed(e, until), del[e].handler # "free"
        PROVE  Backed(e, until)'
    <3>1. CASE del[e].job = j
      <4>1. del[e].lease # 0
        BY <1>12, <2>2 DEF LeasesAreFresh, HandedOut
      <4>2. jobs[j].lease = 0 \/ jobs[j].expiry <= now
        BY <1>0 DEF Queue!Visible, Queue!NoLease
      <4>3. jobs[j].expiry \in Nat
        BY <1>1 DEF Queue!JobRecord
      <4>4. now >= until
        BY <1>1, <2>2, <3>1, <4>1, <4>2, <4>3 DEF Backed
      <4> QED
        BY <1>1, <4>4 DEF Backed
    <3>2. CASE del[e].job # j
      BY <1>1, <1>3, <1>6, <1>12, <2>2, <3>2 DEF Backed
    <3> QED
      BY <3>1, <3>2
  <2>3. \A e \in Slot : del[e].expiry \in Nat /\ del[e].grant \in Nat
    BY <1>1 DEF Delivery
  <2>4. ASSUME NEW e \in Slot \ {d}, del'[e].handler \in Undecided
        PROVE  /\ del'[e].state = "active" => Backed(e, del[e].expiry)'
               /\ del'[e].call = "granted" => Backed(e, del[e].grant)'
    BY <1>6, <1>20, <2>2, <2>3, <2>4 DEF DeadlinesAreBacked, Undecided
  <2>5. Backed(d, del[d].expiry)' /\ del'[d].call # "granted"
    BY <1>0, <1>1, <1>2, <1>3, <1>4, <1>6 DEF Backed, Queue!Visible
  <2> QED
    BY <2>1, <2>4, <2>5 DEF DeadlinesAreBacked
<1> QED
  BY <1>8, <1>9, <1>13, <1>14, <1>17, <1>18, <1>19, <1>20

\* A settlement ends the running lease for good: nothing was settled under it
\* before, and the job is over unless it is to be retried.
LEMMA SettleMoves ==
  ASSUME LeaseInv, NEW op \in Operation, NEW j \in Job, NEW l, Settle(op, j, l)
  PROVE  /\ now' = now /\ applied' = applied \cup {<<j, l, op>>}
         /\ jobs' \in [Job -> Queue!JobRecord] /\ \A k \in Job \ {j} : jobs'[k] = jobs[k]
         /\ l # 0 /\ jobs[j].state = "queued" /\ jobs[j].lease = l
         /\ jobs'[j].lease = 0 /\ jobs'[j].expiry = 0 /\ jobs'[j].attempt = jobs[j].attempt
         /\ jobs'[j].state = (IF op = "retry" THEN "queued" ELSE IF op = "fail" THEN "failed" ELSE "completed")
<1>1. jobs \in [Job -> Queue!JobRecord] /\ jobs[j] \in Queue!JobRecord /\ now \in Nat
  BY DEF LeaseInv, TypeOK
<1>2. now' = now /\ applied' = applied \cup {<<j, l, op>>} /\ Queue!ActiveLease(j, l)
  BY DEF Settle, Queue!Complete, Queue!Fail, Queue!Retry
<1>3. PICK r \in Queue!JobRecord :
        /\ jobs' = [jobs EXCEPT ![j] = r]
        /\ r.lease = 0 /\ r.expiry = 0 /\ r.attempt = jobs[j].attempt
        /\ r.state = (IF op = "retry" THEN "queued" ELSE IF op = "fail" THEN "failed" ELSE "completed")
  <2>1. ASSUME NEW st \in {"queued", "failed", "completed"}, NEW at \in Nat
        PROVE  /\ Queue!Released(jobs[j], st, at) \in Queue!JobRecord
               /\ Queue!Released(jobs[j], st, at).lease = 0
               /\ Queue!Released(jobs[j], st, at).expiry = 0
               /\ Queue!Released(jobs[j], st, at).attempt = jobs[j].attempt
               /\ Queue!Released(jobs[j], st, at).state = st
    BY <1>1 DEF Queue!Released, Queue!NoLease, Queue!JobRecord
  <2>2. jobs[j].availableAt \in Nat
    BY <1>1 DEF Queue!JobRecord
  <2>3. CASE op = "complete"
    <3>1. jobs' = [jobs EXCEPT ![j] = Queue!Released(jobs[j], "completed", jobs[j].availableAt)]
      BY <2>3 DEF Settle, Queue!Complete
    <3> QED
      BY <2>1, <2>2, <2>3, <3>1
  <2>4. CASE op = "fail"
    <3>1. jobs' = [jobs EXCEPT ![j] = Queue!Released(jobs[j], "failed", jobs[j].availableAt)]
      BY <2>4 DEF Settle, Queue!Fail
    <3> QED
      BY <2>1, <2>2, <2>4, <3>1
  <2>5. CASE op = "retry"
    <3>1. jobs' = [jobs EXCEPT ![j] = Queue!Released(jobs[j], "queued", now)]
      BY <2>5 DEF Settle, Queue!Retry
    <3> QED
      BY <1>1, <2>1, <2>5, <3>1
  <2> QED
    BY <2>3, <2>4, <2>5 DEF Operation
<1> QED
  BY <1>1, <1>2, <1>3 DEF Queue!ActiveLease, Queue!NoLease

\* Who may still settle under the lease that is being settled: the delivery that
\* asked for it, or a call left behind; in neither case is it undecided.
Asked(op, j, l) ==
  \/ /\ del' = del /\ <<op, j, l>> \in late /\ late' \subseteq late
  \/ /\ late' = late
     /\ \E d \in Slot :
          /\ del[d].handler = "operate" /\ del[d].job = j /\ del[d].lease = l /\ del[d].op = op
          /\ DeliveryTyped(del'[d])
          /\ del'[d].handler = "operate" /\ del'[d].call = "done" /\ del'[d].loop = del[d].loop
          /\ del'[d].job = j /\ del'[d].lease = l /\ del'[d].op = op
          /\ \A e \in Slot \ {d} : del'[e] = del[e]

LEMMA SettleKeeps ==
  ASSUME LeaseInv, NEW op \in Operation, NEW j \in Job, NEW l, Settle(op, j, l),
         Asked(op, j, l), del' \in [Slot -> Delivery], verdicts' = verdicts
  PROVE  LeaseInv' /\ (DeadlinesAreBacked => DeadlinesAreBacked')
<1> DEFINE final == IF op = "retry" THEN "queued" ELSE IF op = "fail" THEN "failed" ELSE "completed"
<1>1. /\ now' = now /\ applied' = applied \cup {<<j, l, op>>}
      /\ jobs' \in [Job -> Queue!JobRecord] /\ \A k \in Job \ {j} : jobs'[k] = jobs[k]
      /\ l # 0 /\ jobs[j].state = "queued" /\ jobs[j].lease = l
      /\ jobs'[j].lease = 0 /\ jobs'[j].expiry = 0 /\ jobs'[j].attempt = jobs[j].attempt
      /\ jobs'[j].state = final
  BY SettleMoves
<1> HIDE DEF final
<1> USE DEF LeaseInv
<1>2. late' \subseteq late /\ \A e \in Slot : /\ del'[e].handler = del[e].handler
                                              /\ del'[e].loop = del[e].loop
                                              /\ del'[e].job = del[e].job
                                              /\ del'[e].lease = del[e].lease
                                              /\ del'[e].op = del[e].op
  BY DEF Asked
\* No delivery that has not decided yet has this lease.
<1>3. \A e \in Slot : del[e].handler # "free" /\ del[e].job = j /\ del[e].lease = l
                        => del[e].handler \notin Undecided
  <2>1. CASE <<op, j, l>> \in late
    <3>1. SettlementOut(j, l)
      BY <2>1 DEF SettlementOut
    <3> QED
      BY <3>1 DEF CallsInPlace, NothingAsked
  <2>2. CASE \E d \in Slot : del[d].handler = "operate" /\ del[d].job = j /\ del[d].lease = l
    BY <2>2 DEF LeasesAreFresh, Lease, Undecided
  <2> QED
    BY <2>1, <2>2 DEF Asked
\* Nor does one that still may ask for a settlement have it after this one.
<1>20. \A e \in Slot : NothingAsked(del'[e]) => /\ NothingAsked(del[e])
                                               /\ ~(del[e].job = j /\ del[e].lease = l)
  <2> SUFFICES ASSUME NEW e \in Slot, NothingAsked(del'[e])
               PROVE  NothingAsked(del[e]) /\ ~(del[e].job = j /\ del[e].lease = l)
    OBVIOUS
  <2>1. CASE <<op, j, l>> \in late /\ del' = del
    <3>1. SettlementOut(j, l)
      BY <2>1 DEF SettlementOut
    <3> QED
      BY <2>1, <3>1 DEF CallsInPlace
  <2>2. ASSUME NEW d \in Slot, del[d].handler = "operate", del[d].job = j, del[d].lease = l,
               del'[d].handler = "operate", del'[d].call = "done",
               \A f \in Slot \ {d} : del'[f] = del[f]
        PROVE  NothingAsked(del[e]) /\ ~(del[e].job = j /\ del[e].lease = l)
    <3>1. e # d /\ del'[e] = del[e]
      BY <2>2 DEF NothingAsked, Undecided
    <3>2. del[e].handler # "free"
      BY <3>1 DEF NothingAsked, Undecided
    <3> QED
      BY <2>2, <3>1, <3>2 DEF LeasesAreFresh, Lease
  <2> QED
    BY <2>1, <2>2 DEF Asked
\* Nor was it reported lost.
<1>4. \A v \in verdicts : v[3] \in {"lost", "rejected"} => ~(v[1] = j /\ v[2] = l)
  <2>1. CASE <<op, j, l>> \in late
    <3>1. SettlementOut(j, l)
      BY <2>1 DEF SettlementOut
    <3> QED
      BY <3>1 DEF LostIsFinal
  <2>2. CASE \E d \in Slot : del[d].handler = "operate" /\ del[d].job = j /\ del[d].lease = l
    BY <2>2 DEF LostIsFinal, Lease
  <2> QED
    BY <2>1, <2>2 DEF Asked
<1>5. \A a, b : SettlementOut(a, b)' => SettlementOut(a, b) \/ (a = j /\ b = l)
  BY <1>1, <1>2 DEF SettlementOut
<1>6. l \in 1..jobs[j].attempt /\ l \in Nat
  <2>1. jobs[j].lease \in Nat /\ jobs[j].attempt \in Nat
    BY DEF TypeOK, Queue!JobRecord
  <2> QED
    BY <1>1, <2>1 DEF LatestLeaseRuns
<1>7. \A x \in applied : x = <<x[1], x[2], x[3]>> /\ x[1] \in Job /\ x[2] \in Nat
  BY DEF TypeOK
<1>8. \A x \in applied : /\ ~(x[1] = j /\ x[2] = l)
                         /\ x[1] = j => x[3] = "retry"
  BY <1>1 DEF SettledIsOver
<1>9. \A x \in applied' : x \in applied \/ x = <<j, l, op>>
  BY <1>1
<1>10. TypeOK'
  <2>1. applied' \subseteq Job \X Nat \X Operation
    BY <1>1, <1>6 DEF TypeOK
  <2>2. \A e \in Slot : del'[e].handler \in {"free", "claimed", "confirm", "operate"}
                          => del'[e].loop = "done"
    BY <1>2 DEF TypeOK
  <2> QED
    BY <1>1, <1>2, <2>1, <2>2 DEF TypeOK
<1>11. LatestLeaseRuns'
  BY <1>1 DEF LatestLeaseRuns, final
<1>12. \A k \in Job : jobs'[k].attempt = jobs[k].attempt
  BY <1>1
<1>13. LeasesAreFresh'
  <2>1. (\A m \in late : m[2] \in Job) /\ (\A v \in verdicts : v[1] \in Job)
        /\ (\A e \in Slot : del[e].job \in Job)
    BY DEF TypeOK, Delivery
  <2>2. \A k \in Job : \A b : HandedOut(k, b)' <=> HandedOut(k, b)
    BY <1>12 DEF HandedOut
  <2>3. HandedOut(j, l)
    BY <1>6 DEF HandedOut
  <2>4. /\ \A m \in late' : HandedOut(m[2], m[3])'
        /\ \A v \in verdicts' : HandedOut(v[1], v[2])'
        /\ \A x \in applied' : HandedOut(x[1], x[2])'
    BY <1>2, <1>7, <1>9, <2>1, <2>2, <2>3 DEF LeasesAreFresh
  <2>5. \A e \in Slot : del'[e].handler # "free" => HandedOut(del[e].job, del[e].lease)'
    BY <1>2, <2>1, <2>2 DEF LeasesAreFresh
  <2> QED
    BY <1>2, <2>4, <2>5 DEF LeasesAreFresh, Lease
<1>14. SettledIsOver'
  <2> SUFFICES ASSUME NEW x \in applied'
               PROVE  /\ jobs'[x[1]].lease # x[2]
                      /\ x[3] # "retry" => jobs'[x[1]].state \in {"completed", "failed"}
    BY DEF SettledIsOver
  <2>1. CASE x = <<j, l, op>>
    BY <1>1, <2>1 DEF final
  <2>2. CASE x \in applied /\ x[1] = j
    <3>1. x[2] # 0
      BY <2>2, <1>7 DEF LeasesAreFresh, HandedOut
    <3> QED
      BY <1>1, <1>8, <2>2, <3>1
  <2>3. CASE x \in applied /\ x[1] # j
    BY <1>1, <1>7, <2>3 DEF SettledIsOver
  <2> QED
    BY <1>9, <2>1, <2>2, <2>3
<1>15. SettledOnce'
  BY <1>8, <1>9 DEF SettledOnce
<1>16. CallsInPlace'
  <2> SUFFICES ASSUME NEW e \in Slot
               PROVE  /\ del'[e].call # "none" => RenewalPending(e)' \/ del'[e].handler = "operate"
                      /\ del'[e].call = "done"
                           => <<del'[e].job, del'[e].lease, del'[e].op>> \in applied'
                      /\ NothingAsked(del'[e]) => ~SettlementOut(del[e].job, del[e].lease)'
    BY DEF CallsInPlace
  <2>1. del'[e] = del[e] \/ /\ del'[e].handler = "operate" /\ del'[e].job = j
                            /\ del'[e].lease = l /\ del'[e].op = op
    BY DEF Asked
  <2>2. NothingAsked(del'[e]) => ~SettlementOut(del[e].job, del[e].lease)'
    <3> SUFFICES ASSUME NothingAsked(del'[e]), SettlementOut(del[e].job, del[e].lease)'
                 PROVE  FALSE
      OBVIOUS
    <3>1. ~(del[e].job = j /\ del[e].lease = l) /\ ~SettlementOut(del[e].job, del[e].lease)
      BY <1>20 DEF CallsInPlace
    <3> QED
      BY <1>2, <1>5, <3>1
  <2> QED
    BY <1>1, <2>1, <2>2 DEF CallsInPlace, RenewalPending
<1>17. LostIsFinal'
  BY <1>2, <1>4, <1>5 DEF LostIsFinal, Lease
<1>18. SettledIsTrue'
  BY <1>1 DEF SettledIsTrue
<1>19. ASSUME DeadlinesAreBacked PROVE DeadlinesAreBacked'
  <2>1. now \in Nat
    BY DEF TypeOK
  <2>2. \A k \in Job : jobs'[k].expiry <= now' + LeaseMs
    BY <1>1, <1>19, <2>1 DEF DeadlinesAreBacked
  <2>3. ASSUME NEW e \in Slot, del'[e].handler \in Undecided
        PROVE  /\ del'[e].state = "active" => Backed(e, del[e].expiry)'
               /\ del'[e].call = "granted" => Backed(e, del[e].grant)'
    <3>1. del'[e] = del[e] /\ del[e].handler \in Undecided
      BY <2>3 DEF Asked, Undecided
    <3>2. ~(del[e].job = j /\ del[e].lease = l) /\ del[e].job \in Job
      BY <3>1, <1>3 DEF Undecided, TypeOK, Delivery
    <3>3. ASSUME NEW until, Backed(e, until) PROVE Backed(e, until)'
      BY <1>1, <3>1, <3>2, <3>3 DEF Backed
    <3> QED
      BY <1>19, <3>1, <3>3 DEF DeadlinesAreBacked
  <2> QED
    BY <2>2, <2>3 DEF DeadlinesAreBacked
<1> QED
  BY <1>10, <1>11, <1>13, <1>14, <1>15, <1>16, <1>17, <1>18, <1>19

LEMMA ServeSettlementKeeps ==
  ASSUME LeaseInv, NEW d \in Slot, ServeSettlement(d)
  PROVE  LeaseInv' /\ (DeadlinesAreBacked => DeadlinesAreBacked')
<1>1. /\ del[d] \in Delivery /\ DeliveryTyped(del[d]) /\ del \in [Slot -> Delivery]
      /\ del[d].handler = "operate" /\ del[d].call = "sent" /\ UNCHANGED <<late, verdicts>>
  BY SlotFacts DEF DeliveryTyped, ServeSettlement, LeaseInv, TypeOK
<1>2. PICK c \in {"done", "rejected"} :
        /\ del' = [del EXCEPT ![d].call = c]
        /\ IF c = "done" THEN Settle(del[d].op, del[d].job, del[d].lease) ELSE QueueUnchanged
  BY DEF ServeSettlement
<1> DEFINE s == [del[d] EXCEPT !.call = c]
<1>3. /\ s \in Delivery /\ s.handler = del[d].handler /\ s.loop = del[d].loop /\ s.job = del[d].job
      /\ s.lease = del[d].lease /\ s.op = del[d].op /\ s.call = c /\ s.state = del[d].state
  BY <1>1 DEF Delivery
<1>4. del' = [del EXCEPT ![d] = s]
  BY <1>1, <1>2
<1> HIDE DEF s
<1>5. /\ \A e \in Slot \ {d} : del'[e] = del[e]
      /\ del'[d] = s /\ del' \in [Slot -> Delivery]
  BY <1>1, <1>3, <1>4
<1>6. DeliveryTyped(s) /\ del[d].job \in Job /\ del[d].op \in Operation
  BY <1>1, <1>3 DEF DeliveryTyped, Delivery
<1>7. CASE c = "done"
  <2>1. Asked(del[d].op, del[d].job, del[d].lease)
    BY <1>1, <1>3, <1>5, <1>6, <1>7 DEF Asked
  <2> QED
    BY <1>1, <1>2, <1>5, <1>6, <1>7, <2>1, SettleKeeps
<1>8. CASE c = "rejected"
  <2>1. UNCHANGED <<now, jobs, applied>>
    BY <1>2, <1>8 DEF QueueUnchanged
  <2>2. \A e \in Slot : Answered(e)
    BY <1>1, <1>3, <1>5, <1>6, <1>8 DEF Answered
  <2>3. jobs' = [k \in Job |-> jobs'[k]] /\ DOMAIN jobs' = Job /\ now' \in 0..MaxTime
    BY <2>1 DEF LeaseInv, TypeOK
  <2>4. LeaseInv'
    BY <1>1, <1>5, <2>1, <2>2, <2>3, JobStays, JobMovesKeepsLeases
  <2>5. ASSUME DeadlinesAreBacked PROVE DeadlinesAreBacked'
    BY <1>1, <1>3, <1>5, <2>1, <2>5 DEF DeadlinesAreBacked, Backed, Undecided
  <2> QED
    BY <2>4, <2>5
<1> QED
  BY <1>7, <1>8

LEMMA ServeLateKeeps ==
  ASSUME LeaseInv, ServeLate
  PROVE  LeaseInv' /\ (DeadlinesAreBacked => DeadlinesAreBacked')
<1>1. PICK m \in late :
        /\ late' = late \ {m}
        /\ \/ m[1] = "renew" /\ Queue!Renew(m[2], m[3]) /\ UNCHANGED applied
           \/ m[1] # "renew" /\ Settle(m[1], m[2], m[3])
  BY DEF ServeLate
<1>2. UNCHANGED <<del, verdicts>> /\ del \in [Slot -> Delivery]
  BY DEF ServeLate, LeaseInv, TypeOK
<1>3. m[1] \in Operation \cup {"renew"} /\ m[2] \in Job /\ m[3] \in Nat /\ m = <<m[1], m[2], m[3]>>
  BY DEF LeaseInv, TypeOK
<1>4. CASE Queue!Renew(m[2], m[3]) /\ UNCHANGED applied
  <2>1. LeaseInv'
    BY <1>1, <1>2, <1>3, <1>4, RenewMoves, JobMovesKeepsLeases DEF Answered
  <2>2. ASSUME DeadlinesAreBacked PROVE DeadlinesAreBacked'
    <3>1. /\ \A k \in Job : jobs'[k].expiry <= now' + LeaseMs
          /\ \A e \in Slot, until \in Nat :
               Backed(e, until) /\ del'[e].job = del[e].job /\ del'[e].lease = del[e].lease
                 => Backed(e, until)'
      BY <1>3, <1>4, <2>2, RenewKeepsBacked
    <3>2. \A e \in Slot : del[e].expiry \in Nat /\ del[e].grant \in Nat
      BY <1>2 DEF Delivery
    <3> QED
      BY <1>2, <2>2, <3>1, <3>2 DEF DeadlinesAreBacked
  <2> QED
    BY <2>1, <2>2
<1>5. CASE m[1] # "renew" /\ Settle(m[1], m[2], m[3])
  <2>1. Asked(m[1], m[2], m[3]) /\ m[1] \in Operation
    BY <1>1, <1>2, <1>3, <1>5 DEF Asked
  <2> QED
    BY <1>2, <1>3, <1>5, <2>1, SettleKeeps
<1> QED
  BY <1>1, <1>4, <1>5

-----------------------------------------------------------------------------
(* The theorems *)

LEMMA LeaseInvInit == Init => LeaseInv /\ DeadlinesAreBacked
<1> SUFFICES ASSUME Init PROVE LeaseInv /\ DeadlinesAreBacked
  OBVIOUS
<1> USE DEF Init
<1>1. \A j \in Job : jobs[j] = Queue!AbsentJob
  OBVIOUS
<1>2. Queue!AbsentJob \in Queue!JobRecord /\ Queue!AbsentJob.lease = 0 /\ Queue!AbsentJob.attempt = 0
      /\ Queue!AbsentJob.expiry = 0
  BY DEF Queue!AbsentJob, Queue!JobRecord, Queue!NoLease
<1>3. \A d \in Slot : del[d] = FreeSlot
  OBVIOUS
<1>4. TypeOK
  BY <1>1, <1>2, <1>3, FreeSlotType DEF TypeOK
<1>5. LatestLeaseRuns /\ LeasesAreFresh /\ SettledIsOver /\ CallsInPlace /\ LostIsFinal
      /\ SettledIsTrue /\ SettledOnce
  BY <1>1, <1>2, <1>3, FreeSlotType
     DEF LatestLeaseRuns, LeasesAreFresh, SettledIsOver, CallsInPlace, LostIsFinal, SettledIsTrue,
         SettledOnce, Undecided, NothingAsked
<1>6. DeadlinesAreBacked
  BY <1>1, <1>2, <1>3, FreeSlotType DEF DeadlinesAreBacked, Undecided
<1> QED
  BY <1>4, <1>5, <1>6 DEF LeaseInv

\* Every step of a delivery's coroutines, of its connection and of its process walks.
LEMMA OwnStepsWalk ==
  ASSUME LeaseInv, NEW d \in Slot,
         ClaimAnswerLost(d) \/ CallFails(d) \/ Coroutines(d) \/ Crash(d)
  PROVE  Walks(d)
  BY ClaimAnswerLostWalks, CallFailsWalks, CrashWalks, StartWalks, LoopWakesWalks, EndExecuteWalks,
     ConfirmStartsWalks, CloseWalks, SettleResolvesWalks, LoopResolvesWalks, ConfirmResolvesWalks
     DEF Coroutines

LEMMA LeaseInvStep == LeaseInv /\ [Next]_vars => LeaseInv'
<1> SUFFICES ASSUME LeaseInv, [Next]_vars PROVE LeaseInv'
  OBVIOUS
<1>1. CASE UNCHANGED vars
  BY <1>1 DEF vars, LeaseInv, TypeOK, LatestLeaseRuns, LeasesAreFresh, SettledIsOver, CallsInPlace,
       LostIsFinal, SettledIsTrue, SettledOnce, SettlementOut, HandedOut, Lease, RenewalPending,
       NothingAsked
<1>2. ASSUME NEW d \in Slot, ClaimAnswerLost(d) \/ CallFails(d) \/ Coroutines(d) \/ Crash(d)
      PROVE  LeaseInv'
  BY <1>2, OwnStepsWalk, WalkKeepsLeases
<1> QED
  BY <1>1, <1>2, EnqueueKeeps, ClaimKeeps, ServeRenewalKeeps, ServeSettlementKeeps, ServeLateKeeps,
     TickKeeps DEF Next

LEMMA DeadlinesStep ==
  ASSUME ~StampOnReply
  PROVE  LeaseInv /\ DeadlinesAreBacked /\ [Next]_vars => DeadlinesAreBacked'
<1> SUFFICES ASSUME LeaseInv, DeadlinesAreBacked, [Next]_vars PROVE DeadlinesAreBacked'
  OBVIOUS
<1>1. CASE UNCHANGED vars
  BY <1>1 DEF vars, DeadlinesAreBacked, Backed
<1>2. ASSUME NEW d \in Slot, ClaimAnswerLost(d) \/ CallFails(d) \/ Coroutines(d) \/ Crash(d)
      PROVE  DeadlinesAreBacked'
  BY <1>2, OwnStepsWalk, WalkKeepsDeadlines
<1> QED
  BY <1>1, <1>2, EnqueueKeeps, ClaimKeeps, ServeRenewalKeeps, ServeSettlementKeeps, ServeLateKeeps,
     TickKeeps DEF Next

LEMMA LeaseInvariance == Spec => []LeaseInv
  BY LeaseInvInit, LeaseInvStep, PTL DEF Spec

\* Every variable keeps its shape, and a delivery never has two queue calls
\* under way: the handler starts none before its renewal loop has ended.
THEOREM DeliveryTypeCorrect == Spec => []TypeOK
<1>1. LeaseInv => TypeOK
  BY DEF LeaseInv
<1> QED
  BY <1>1, LeaseInvariance, PTL

\* A lease settles its job at most once and a job ends at most once, for every
\* number of workers and however calls and answers are delayed or lost.
THEOREM SettlesOnce == Spec => []SettledOnce
<1>1. LeaseInv => SettledOnce
  BY DEF LeaseInv
<1> QED
  BY <1>1, LeaseInvariance, PTL

\* "settled" is reported only of an applied settlement, and "lost" or a refusal
\* only of a lease under which nothing was and nothing will be applied, also when
\* the lease ends between its confirmation and the settlement call.
THEOREM ReportsAreTrue == Spec => []VerdictsAreTrue
<1>1. LeaseInv => VerdictsAreTrue
  BY DEF LeaseInv, VerdictsAreTrue, LostIsFinal, SettledIsTrue, SettlementOut
<1> QED
  BY <1>1, LeaseInvariance, PTL

LEMMA DeadlinesInvariance ==
  ASSUME ~StampOnReply
  PROVE  Spec => [](LeaseInv /\ DeadlinesAreBacked)
<1>1. Init => DeadlinesAreBacked
  BY LeaseInvInit
<1>2. LeaseInv /\ DeadlinesAreBacked /\ [Next]_vars => DeadlinesAreBacked'
  BY DeadlinesStep
<1> QED
  BY <1>1, <1>2, LeaseInvariance, PTL DEF Spec

\* What a delivery believes the queue honours, if the provider dates a renewal
\* by the instant it applied it (the in-memory provider does).
THEOREM OwnersAreReal ==
  ASSUME ~StampOnReply
  PROVE  Spec => []OwnershipIsReal
<1>1. LeaseInv /\ DeadlinesAreBacked => OwnershipIsReal
  <2> SUFFICES ASSUME LeaseInv, DeadlinesAreBacked, NEW d \in Slot, Owns(d)
               PROVE  Queue!ActiveLease(del[d].job, del[d].lease)
    BY DEF OwnershipIsReal
  <2>1. del[d].handler \in Undecided /\ del[d].state = "active" /\ ~(now >= del[d].expiry)
    BY DEF Owns, Expired, Undecided
  <2>2. Backed(d, del[d].expiry)
    BY <2>1 DEF DeadlinesAreBacked
  <2>3. del[d].lease \in 1..jobs[del[d].job].attempt /\ del[d].job \in Job
    BY <2>1 DEF LeaseInv, LeasesAreFresh, HandedOut, Undecided, TypeOK, Delivery
  <2>4. now \in Nat /\ del[d].expiry \in Nat /\ jobs[del[d].job].expiry \in Nat
        /\ jobs[del[d].job].attempt \in Nat
    BY <2>3 DEF LeaseInv, TypeOK, Delivery, Queue!JobRecord
  <2> QED
    BY <2>1, <2>2, <2>3, <2>4 DEF Backed, Queue!ActiveLease, Queue!NoLease
<1> QED
  BY <1>1, DeadlinesInvariance, PTL

\* So two workers never work on the same job at the same time with a lease that
\* either of them still believes to run.
THEOREM OneOwner ==
  ASSUME ~StampOnReply
  PROVE  Spec => [](\A d, e \in Slot : Owns(d) /\ Owns(e) /\ del[d].job = del[e].job => d = e)
<1>1. LeaseInv /\ OwnershipIsReal
        => \A d, e \in Slot : Owns(d) /\ Owns(e) /\ del[d].job = del[e].job => d = e
  BY DEF LeaseInv, LeasesAreFresh, OwnershipIsReal, Owns, Lease, Queue!ActiveLease
<1> QED
  BY <1>1, OwnersAreReal, LeaseInvariance, PTL
=============================================================================
