------------------------ MODULE OntologyOutboxProofs ------------------------
(***************************************************************************)
(* Proofs about OntologyOutbox for any processes, events, batch sizes and  *)
(* budgets.  One inductive invariant says what the work of a drain pass    *)
(* may hold at each of its awaits; type correctness, the refinement of     *)
(* EventFeed, the fencing by leases and the answer to every drain follow.  *)
(***************************************************************************)
EXTENDS OntologyOutbox, TLAPS, SequenceTheorems

USE OntologyOutboxAssumption

-----------------------------------------------------------------------------
(* The inductive invariant *)

\* Events whose row was written.
Known == {e \in Event : rows[e].state # "absent"}

\* Only pending rows are leased.
LeasedArePending == \A e \in Event : rows[e].lease # NoLease => rows[e].state = "pending"

\* A pass that works on a batch has a lease.
Leases(r) ==
  /\ r.pass \in {"publish", "mark", "reschedule", "release"} => r.lease # NoLease
  /\ r.unsettled \cup r.settling # {} => r.lease # NoLease

\* The groups still to publish are of known rows; all but the group being
\* published for the first time have failed before.  No broker call is counted
\* between two batches.
Groups(r, K) ==
  /\ \A i \in DOMAIN r.pending : r.pending[i].rows \subseteq K
  /\ \A i \in DOMAIN r.pending : r.pending[i].failed \/ (i = 1 /\ r.pass = "publish")
  /\ r.pass = "publish" => r.pending # <<>>
  /\ r.pass \in {"none", "claim", "yield"} => r.calls = 0

\* What is being marked was taken by the broker.
Marks(r, D) == r.pass = "mark" => r.settling \subseteq D

\* An accepted drain is answered by the next pass.
AskedAgain(r) == r.asked => r.again /\ r.life \in {"up", "closing"}

\* An accepted drain is answered by this pass or the next.
Answered(r) == /\ r.pass # "claim" => AskedAgain(r)
               /\ r.asked => r.life \in {"up", "closing"}
               /\ r.pass = "none" => ~r.again

\* A dispatcher between two steps, the rows of K written and D delivered.
Sound(r, K, D) == /\ r \in Dispatcher
                  /\ Leases(r) /\ Groups(r, K) /\ Marks(r, D) /\ Answered(r)

\* Two batches never share a lease.
OwnLeases == \A p, q \in Process :
               disp[p].lease = disp[q].lease /\ disp[p].lease # NoLease => p = q

OutboxInv == /\ TypeOK
             /\ LeasedArePending
             /\ OwnLeases
             /\ \A p \in Process : Sound(disp[p], Known, delivered)

\* A dispatcher inside publishClaim, with a lease on a batch.
Working(r, K) == /\ r \in Dispatcher /\ r.lease # NoLease /\ AskedAgain(r)
                 /\ \A i \in DOMAIN r.pending : r.pending[i].rows \subseteq K

\* What a step leaves of dispatcher r: sound, its lease kept or given up.
Follows(s, r, K, D) == Sound(s, K, D) /\ s.lease \in {r.lease, NoLease}

-----------------------------------------------------------------------------
(* What the parts of a drain pass make of a dispatcher *)

LEMMA FreshSound ==
  ASSUME NEW K, NEW D
  PROVE  Sound(Fresh, K, D)
<1>1. Fresh \in Dispatcher
  BY DEF Fresh, Dispatcher
<1> QED
  BY <1>1 DEF Fresh, Sound, Leases, Groups, Marks, Answered, AskedAgain

LEMMA SoundGrows ==
  ASSUME NEW K, NEW D, NEW K2, NEW D2, NEW r, K \subseteq K2, D \subseteq D2,
         Sound(r, K, D)
  PROVE  Sound(r, K2, D2)
<1>1. Groups(r, K2)
  BY DEF Sound, Groups
<1> QED
  BY <1>1 DEF Sound, Marks

LEMMA StartPassSound ==
  ASSUME NEW K, NEW D, NEW r, Sound(r, K, D), r.pass = "none"
  PROVE  Sound(StartPass(r), K, D) /\ StartPass(r).lease = r.lease
<1>1. 1 \in 0..MaxClaims /\ r \in Dispatcher
  BY DEF Sound
<1>2. StartPass(r) \in Dispatcher
  BY <1>1 DEF StartPass, Dispatcher
<1> QED
  BY <1>1, <1>2 DEF StartPass, Dispatcher, Sound, Leases, Groups, Marks, Answered, AskedAgain

LEMMA DrainSound ==
  ASSUME NEW K, NEW D, NEW r, Sound(r, K, D), r.life \in {"up", "closing"}
  PROVE  /\ Sound(Drain(r), K, D) /\ Drain(r).lease = r.lease
         /\ Drain(r).life = r.life /\ Drain(r).pass # "none"
<1>1. r \in Dispatcher
  BY DEF Sound
<1>2. CASE r.pass = "none"
  <2>1. StartPass(r) \in Dispatcher /\ Sound(StartPass(r), K, D) /\ StartPass(r).lease = r.lease
    BY <1>2, StartPassSound DEF Sound
  <2>2. StartPass(r).life = r.life /\ StartPass(r).pass = "claim"
    BY <1>1 DEF StartPass, Dispatcher
  <2>3. Drain(r) = [StartPass(r) EXCEPT !.asked = TRUE]
    BY <1>2 DEF Drain
  <2>4. Drain(r) \in Dispatcher
    BY <2>1, <2>3 DEF Dispatcher
  <2> QED
    BY <2>1, <2>2, <2>3, <2>4 DEF Dispatcher, Sound, Leases, Groups, Marks, Answered, AskedAgain
<1>3. CASE r.pass # "none"
  <2>1. Drain(r) = [r EXCEPT !.again = TRUE, !.asked = TRUE]
    BY <1>3 DEF Drain
  <2>2. Drain(r) \in Dispatcher
    BY <1>1, <2>1 DEF Dispatcher
  <2> QED
    BY <1>1, <1>3, <2>1, <2>2 DEF Dispatcher, Sound, Leases, Groups, Marks, Answered, AskedAgain
<1> QED
  BY <1>2, <1>3

LEMMA EndPassSound ==
  ASSUME NEW K, NEW D, NEW r \in Dispatcher, AskedAgain(r)
  PROVE  /\ Sound(EndPass(r), K, D) /\ EndPass(r).lease = NoLease
         /\ EndPass(r).pass \in {"none", "claim"}
<1> DEFINE ended == [Fresh EXCEPT !.life = r.life, !.asked = r.asked]
           quiet == [Fresh EXCEPT !.life = r.life]
<1>1. Fresh \in Dispatcher /\ Sound(Fresh, K, D)
  BY FreshSound DEF Sound
<1>2. ended \in Dispatcher /\ quiet \in Dispatcher
  BY <1>1 DEF Dispatcher
<1>3. CASE r.again /\ ~StopRequested(r)
  <2>1. EndPass(r) = StartPass(ended)
    BY <1>3 DEF EndPass
  <2>2. 1 \in 0..MaxClaims
    OBVIOUS
  <2>3. EndPass(r) \in Dispatcher
    BY <1>2, <2>1, <2>2 DEF StartPass, Dispatcher
  <2>4. r.life \in {"up", "closing"}
    BY <1>3 DEF StopRequested, Dispatcher
  <2> QED
    BY <2>1, <2>3, <2>4 DEF StartPass, Fresh, Sound, Leases, Groups, Marks, Answered, AskedAgain
<1>4. CASE ~(r.again /\ ~StopRequested(r))
  <2>1. EndPass(r) = ended
    BY <1>4 DEF EndPass
  <2>2. r.asked = FALSE
    BY <1>4 DEF AskedAgain, StopRequested, Dispatcher
  <2> QED
    BY <1>2, <2>1, <2>2 DEF Fresh, Sound, Leases, Groups, Marks, Answered, AskedAgain
<1> QED
  BY <1>3, <1>4

LEMMA AfterBatchSound ==
  ASSUME NEW K, NEW D, NEW r \in Dispatcher, AskedAgain(r)
  PROVE  /\ Sound(AfterBatch(r), K, D) /\ AfterBatch(r).lease = NoLease
         /\ AfterBatch(r).pass \in {"none", "claim", "yield"}
<1>1. CASE StopRequested(r) \/ ~r.progress \/ ~r.full
  BY <1>1, EndPassSound DEF AfterBatch
<1>2. CASE ~(StopRequested(r) \/ ~r.progress \/ ~r.full)
  <2>1. AfterBatch(r) = [Fresh EXCEPT !.life = r.life, !.again = r.again, !.asked = r.asked,
                                      !.claims = r.claims, !.pass = "yield"]
    BY <1>2 DEF AfterBatch
  <2>2. Fresh \in Dispatcher
    BY FreshSound DEF Sound
  <2>3. AfterBatch(r) \in Dispatcher
    BY <2>1, <2>2 DEF Dispatcher
  <2> QED
    BY <2>1, <2>3 DEF Fresh, Sound, Leases, Groups, Marks, Answered, AskedAgain
<1> QED
  BY <1>1, <1>2

LEMMA FinallySound ==
  ASSUME NEW K, NEW D, NEW r, Working(r, K), NEW thrown \in BOOLEAN
  PROVE  /\ Follows(Finally(r, thrown), r, K, D)
         /\ Finally(r, thrown).pass \in {"none", "claim", "yield", "release"}
<1>1. r \in Dispatcher /\ AskedAgain(r) /\ r.lease # NoLease
  BY DEF Working
<1>2. CASE StopRequested(r) /\ r.unsettled # {}
  <2>1. Finally(r, thrown) = [r EXCEPT !.pass = "release", !.settling = r.unsettled,
                                       !.unsettled = {}, !.pending = <<>>]
    BY <1>2 DEF Finally
  <2>2. <<>> \in Seq([rows: SUBSET Event, failed: BOOLEAN])
    OBVIOUS
  <2>3. Finally(r, thrown) \in Dispatcher
    BY <1>1, <2>1, <2>2 DEF Dispatcher
  <2> QED
    BY <1>1, <2>1, <2>3
    DEF Dispatcher, Follows, Sound, Leases, Groups, Marks, Answered, AskedAgain
<1>3. CASE ~(StopRequested(r) /\ r.unsettled # {})
  BY <1>1, <1>3, EndPassSound, AfterBatchSound DEF Finally, Follows
<1> QED
  BY <1>2, <1>3

-----------------------------------------------------------------------------
(* The groups of a batch *)

GroupRecord == [rows: SUBSET Event, failed: BOOLEAN]

LEMMA HeadAndTail ==
  ASSUME NEW T, NEW s \in Seq(T), s # <<>>
  PROVE  /\ 1 \in DOMAIN s /\ Head(s) = s[1] /\ s[1] \in T
         /\ Tail(s) \in Seq(T) /\ Len(Tail(s)) # Len(s)
         /\ \A i \in DOMAIN Tail(s) : /\ i + 1 \in DOMAIN s /\ i + 1 # 1
                                      /\ Tail(s)[i] = s[i + 1]
  OBVIOUS

LEMMA PairBefore ==
  ASSUME NEW T, NEW g \in T, NEW h \in T, NEW s \in Seq(T)
  PROVE  /\ <<g, h>> \o s \in Seq(T)
         /\ \A i \in DOMAIN (<<g, h>> \o s) :
              \/ (<<g, h>> \o s)[i] \in {g, h}
              \/ i - 2 \in DOMAIN s /\ (<<g, h>> \o s)[i] = s[i - 2]
<1> DEFINE pair == <<g, h>>
<1>1. pair \in Seq(T) /\ Len(pair) = 2 /\ pair[1] = g /\ pair[2] = h
  OBVIOUS
<1> HIDE DEF pair
<1>2. /\ pair \o s \in Seq(T) /\ Len(pair \o s) = 2 + Len(s)
      /\ \A i \in 1..(2 + Len(s)) :
           (pair \o s)[i] = IF i <= 2 THEN pair[i] ELSE s[i - 2]
  <2>1. /\ pair \o s \in Seq(T) /\ Len(pair \o s) = Len(pair) + Len(s)
        /\ \A i \in 1..Len(pair) + Len(s) :
             (pair \o s)[i] = IF i <= Len(pair) THEN pair[i] ELSE s[i - Len(pair)]
    BY <1>1, ConcatProperties, Zenon
  <2> QED
    BY <1>1, <2>1
<1>3. ASSUME NEW i \in DOMAIN (pair \o s)
      PROVE  (pair \o s)[i] \in {g, h} \/ (i - 2 \in DOMAIN s /\ (pair \o s)[i] = s[i - 2])
  <2>1. i \in 1..(2 + Len(s)) /\ Len(s) \in Nat /\ DOMAIN s = 1..Len(s)
    BY <1>2
  <2>2. CASE i <= 2
    <3>1. i = 1 \/ i = 2
      BY <2>1, <2>2
    <3> QED
      BY <1>1, <1>2, <2>1, <2>2, <3>1
  <2>3. CASE i > 2
    <3>1. i - 2 \in DOMAIN s
      BY <2>1, <2>3
    <3>2. ~(i <= 2)
      BY <2>1, <2>3
    <3> QED
      BY <1>2, <2>1, <3>1, <3>2, Zenon
  <2> QED
    BY <2>1, <2>2, <2>3
<1> QED
  BY <1>2, <1>3 DEF pair

LEMMA SettleHeadSound ==
  ASSUME NEW K, NEW D, NEW r, Working(r, K), r.pending # <<>>,
         \A i \in DOMAIN r.pending : i # 1 => r.pending[i].failed,
         NEW pass \in {"mark", "reschedule"},
         pass = "mark" => Head(r.pending).rows \subseteq D
  PROVE  /\ Follows(SettleHead(r, pass), r, K, D)
         /\ SettleHead(r, pass).pass = pass
         /\ SettleHead(r, pass).pending # r.pending
<1> DEFINE S == Head(r.pending).rows
           s == SettleHead(r, pass)
<1>1. r \in Dispatcher /\ AskedAgain(r) /\ r.lease # NoLease
  BY DEF Working
<1>2. r.pending \in Seq(GroupRecord)
  BY <1>1 DEF Dispatcher, GroupRecord
<1>3. S \subseteq Event /\ Tail(r.pending) \in Seq(GroupRecord)
  <2>1. Head(r.pending) \in GroupRecord /\ Tail(r.pending) \in Seq(GroupRecord)
    BY <1>2, HeadAndTail
  <2> QED
    BY <2>1 DEF GroupRecord
<1>4. Len(Tail(r.pending)) # Len(r.pending)
  BY <1>2, HeadAndTail
<1>5. s = [r EXCEPT !.pass = pass, !.settling = S, !.unsettled = r.unsettled \ S,
                    !.pending = Tail(r.pending)]
  BY DEF SettleHead
<1>6. s \in Dispatcher
  BY <1>1, <1>3, <1>5 DEF Dispatcher, GroupRecord
<1>7. \A i \in DOMAIN Tail(r.pending) : /\ Tail(r.pending)[i].rows \subseteq K
                                        /\ Tail(r.pending)[i].failed
  <2> SUFFICES ASSUME NEW i \in DOMAIN Tail(r.pending)
               PROVE  Tail(r.pending)[i].rows \subseteq K /\ Tail(r.pending)[i].failed
    OBVIOUS
  <2>1. i + 1 \in DOMAIN r.pending /\ i + 1 # 1 /\ Tail(r.pending)[i] = r.pending[i + 1]
    BY <1>2, HeadAndTail
  <2> QED
    BY <2>1 DEF Working
<1>8. s.pass = pass /\ s.pending = Tail(r.pending) /\ s.lease = r.lease /\ s.settling = S
  BY <1>1, <1>5 DEF Dispatcher
<1>9. Groups(s, K)
  BY <1>7, <1>8 DEF Groups
<1> QED
  BY <1>1, <1>4, <1>5, <1>6, <1>8, <1>9
  DEF Dispatcher, Follows, Sound, Leases, Marks, Answered, AskedAgain

\* The groups of publishClaim's loop: only one that has not failed may be
\* published without asking for the budget, and none was published before it.
LEMMA NextGroupSound ==
  ASSUME NEW K, NEW D, NEW r, Working(r, K),
         \A i \in DOMAIN r.pending : r.pending[i].failed \/ (i = 1 /\ r.calls = 0)
  PROVE  /\ Follows(NextGroup(r), r, K, D)
         /\ NextGroup(r).pass = "reschedule" => NextGroup(r).pending # r.pending
         /\ NextGroup(r).pass # "mark"
<1>1. r \in Dispatcher /\ AskedAgain(r) /\ r.lease # NoLease
  BY DEF Working
<1>2. CASE r.pending = <<>> \/ StopRequested(r)
  BY <1>2, FinallySound DEF NextGroup
<1>3. CASE ~(r.pending = <<>> \/ StopRequested(r))
  <2>1. 1 \in DOMAIN r.pending /\ Head(r.pending) = r.pending[1]
    BY <1>1, <1>3, HeadAndTail DEF Dispatcher
  <2>2. CASE r.calls >= MaxIsolation /\ Head(r.pending).failed
    <3>1. NextGroup(r) = SettleHead(r, "reschedule")
      BY <1>3, <2>2 DEF NextGroup
    <3>2. \A i \in DOMAIN r.pending : i # 1 => r.pending[i].failed
      OBVIOUS
    <3> QED
      BY <1>3, <3>1, <3>2, SettleHeadSound
  <2>3. CASE ~(r.calls >= MaxIsolation /\ Head(r.pending).failed)
    <3>1. r.calls + 1 \in 0..MaxIsolation
      BY <1>1, <2>1, <2>3 DEF Dispatcher
    <3>2. NextGroup(r) = [r EXCEPT !.pass = "publish", !.calls = r.calls + 1]
      BY <1>3, <2>3 DEF NextGroup
    <3>3. NextGroup(r) \in Dispatcher
      BY <1>1, <3>1, <3>2 DEF Dispatcher
    <3>4. /\ NextGroup(r).pass = "publish" /\ NextGroup(r).pending = r.pending
          /\ NextGroup(r).lease = r.lease
      BY <1>1, <3>2 DEF Dispatcher
    <3>5. Groups(NextGroup(r), K)
      BY <1>3, <3>4 DEF Groups, Working
    <3> QED
      BY <1>1, <3>2, <3>3, <3>4, <3>5
      DEF Dispatcher, Follows, Sound, Leases, Marks, Answered, AskedAgain
  <2> QED
    BY <2>2, <2>3
<1> QED
  BY <1>2, <1>3

LEMMA RefusedSound ==
  ASSUME NEW K, NEW D, NEW r, Sound(r, K, D), r.pass = "publish"
  PROVE  Follows(Refused(r), r, K, D)
<1> DEFINE S == Head(r.pending).rows
           later == Group(S \ FirstHalf(S), TRUE)
           first == Group(FirstHalf(S), TRUE)
           groups == <<later, first>> \o Tail(r.pending)
           split == [r EXCEPT !.pending = groups]
<1>1. r \in Dispatcher /\ AskedAgain(r) /\ r.lease # NoLease /\ r.pending # <<>>
  BY DEF Sound, Leases, Groups, Answered
<1>2. r.pending \in Seq(GroupRecord)
  BY <1>1 DEF Dispatcher, GroupRecord
<1>3. 1 \in DOMAIN r.pending /\ Head(r.pending) = r.pending[1] /\ r.pending[1] \in GroupRecord
  BY <1>1, <1>2, HeadAndTail
<1>4. S \subseteq Event /\ S \subseteq K /\ FirstHalf(S) \subseteq S
  <2>1. S = r.pending[1].rows
    BY <1>3
  <2>2. S \subseteq K
    BY <1>3, <2>1 DEF Sound, Groups
  <2> QED
    BY <1>3, <2>1, <2>2 DEF GroupRecord, FirstHalf
<1>5. Working(r, K)
  BY <1>1 DEF Working, Sound, Groups
<1>6. \A i \in DOMAIN r.pending : i # 1 => r.pending[i].failed
  BY DEF Sound, Groups
<1>7. CASE Cardinality(S) > 1 /\ r.calls < MaxIsolation
  <2>1. Refused(r) = NextGroup(split)
    BY <1>7 DEF Refused
  <2>2. \A g \in {later, first} : g \in GroupRecord /\ g.rows \subseteq K /\ g.failed
    <3>1. /\ later = [rows |-> S \ FirstHalf(S), failed |-> TRUE]
          /\ first = [rows |-> FirstHalf(S), failed |-> TRUE]
      BY DEF Group
    <3>2. S \ FirstHalf(S) \in SUBSET Event /\ S \ FirstHalf(S) \subseteq K
      BY <1>4
    <3>3. FirstHalf(S) \in SUBSET Event /\ FirstHalf(S) \subseteq K
      BY <1>4
    <3> HIDE DEF later, first
    <3>4. later \in GroupRecord /\ later.rows \subseteq K /\ later.failed
      BY <3>1, <3>2 DEF GroupRecord
    <3>5. first \in GroupRecord /\ first.rows \subseteq K /\ first.failed
      BY <3>1, <3>3 DEF GroupRecord
    <3> QED
      BY <3>4, <3>5
  <2>3. Tail(r.pending) \in Seq(GroupRecord)
    BY <1>1, <1>2, HeadAndTail
  <2> HIDE DEF later, first
  <2>4. groups \in Seq(GroupRecord)
    BY <2>2, <2>3, PairBefore
  <2>5. \A i \in DOMAIN groups : groups[i].rows \subseteq K /\ groups[i].failed
    <3> SUFFICES ASSUME NEW i \in DOMAIN groups
                 PROVE  groups[i].rows \subseteq K /\ groups[i].failed
      OBVIOUS
    <3>1. CASE groups[i] \in {later, first}
      BY <2>2, <3>1
    <3>2. CASE i - 2 \in DOMAIN Tail(r.pending) /\ groups[i] = Tail(r.pending)[i - 2]
      <4> DEFINE j == (i - 2) + 1
      <4>1. j \in DOMAIN r.pending /\ j # 1 /\ groups[i] = r.pending[j]
        BY <1>1, <1>2, <3>2, HeadAndTail
      <4> QED
        BY <1>5, <1>6, <4>1 DEF Working
    <3> QED
      BY <2>2, <2>3, <3>1, <3>2, PairBefore
  <2> HIDE DEF groups
  <2>6. split \in Dispatcher
    BY <1>1, <2>4 DEF Dispatcher, GroupRecord
  <2>7. split.pending = groups /\ split.lease = r.lease
    BY <1>1 DEF Dispatcher
  <2>8. Working(split, K)
    BY <1>1, <2>5, <2>6, <2>7 DEF Working, AskedAgain, Dispatcher
  <2> HIDE DEF split
  <2>9. Follows(NextGroup(split), split, K, D)
    BY <2>5, <2>7, <2>8, NextGroupSound
  <2> QED
    BY <2>1, <2>7, <2>9 DEF Follows
<1>8. CASE ~(Cardinality(S) > 1 /\ r.calls < MaxIsolation)
  <2>1. Refused(r) = SettleHead(r, "reschedule")
    BY <1>8 DEF Refused
  <2> QED
    BY <1>1, <1>5, <1>6, <2>1, SettleHeadSound
<1> QED
  BY <1>7, <1>8

-----------------------------------------------------------------------------
(* The rows, and one dispatcher among the others *)

RowsOK == rows \in [Event -> RowRecord] /\ LeasedArePending

LEMMA NewLeaseIsFree ==
  ASSUME FreeLeases # {}
  PROVE  /\ NewLease \in LeaseId /\ NewLease # NoLease
         /\ \A p \in Process : disp[p].lease # NewLease
<1>1. NewLease \in FreeLeases
  BY DEF NewLease
<1> QED
  BY <1>1 DEF FreeLeases, OntologyOutboxAssumption

LEMMA LeasedRows ==
  ASSUME RowsOK, FreeLeases # {}, rows' = Leased(Batch, NewLease)
  PROVE  RowsOK' /\ Known' = Known
<1>1. \A e \in Batch : e \in Event /\ rows[e].state = "pending"
  BY DEF Batch, Claimable
<1>2. NewLease \in LeaseId
  BY NewLeaseIsFree
<1> HIDE DEF Batch, NewLease
<1>3. \A e \in Event : /\ rows'[e] \in RowRecord /\ rows'[e].state = rows[e].state
                       /\ rows'[e].lease # NoLease => rows'[e].state = "pending"
  BY <1>1, <1>2 DEF Leased, RowsOK, RowRecord, LeasedArePending
<1>4. rows' \in [Event -> RowRecord]
  BY <1>3 DEF Leased
<1> QED
  BY <1>3, <1>4 DEF RowsOK, LeasedArePending, Known

LEMMA MarkedRows ==
  ASSUME RowsOK, NEW S, rows' = MarkedPublished(S)
  PROVE  RowsOK' /\ Known \subseteq Known'
<1>1. \A e \in Event : /\ rows'[e] \in RowRecord
                       /\ rows'[e].state \in {rows[e].state, "published"}
                       /\ rows'[e].lease # NoLease => rows'[e].state = "pending"
  BY DEF MarkedPublished, Unleased, RowsOK, RowRecord, LeasedArePending, Feed!RowState
<1>2. rows' \in [Event -> RowRecord]
  BY <1>1 DEF MarkedPublished
<1> QED
  BY <1>1, <1>2 DEF RowsOK, LeasedArePending, Known

LEMMA RescheduledRows ==
  ASSUME RowsOK, NEW S, NEW due \in BOOLEAN, rows' = Rescheduled(S, due)
  PROVE  /\ RowsOK' /\ Known' = Known
         /\ \A e \in Event : rows'[e].state = rows[e].state
<1>1. \A e \in Event : /\ rows'[e] \in RowRecord /\ rows'[e].state = rows[e].state
                       /\ rows'[e].lease # NoLease => rows'[e].state = "pending"
  BY DEF Rescheduled, Unleased, RowsOK, RowRecord, LeasedArePending
<1>2. rows' \in [Event -> RowRecord]
  BY <1>1 DEF Rescheduled
<1> QED
  BY <1>1, <1>2 DEF RowsOK, LeasedArePending, Known

LEMMA RowsKept ==
  ASSUME RowsOK, UNCHANGED rows
  PROVE  RowsOK' /\ Known' = Known
  BY DEF RowsOK, LeasedArePending, Known

DispOK == /\ disp \in [Process -> Dispatcher] /\ OwnLeases
          /\ \A p \in Process : Sound(disp[p], Known, delivered)

LEMMA OthersKept ==
  ASSUME DispOK, UNCHANGED disp, Known \subseteq Known', delivered \subseteq delivered'
  PROVE  DispOK'
<1>1. \A p \in Process : Sound(disp[p], Known', delivered')
  BY SoundGrows DEF DispOK
<1>2. \A p \in Process : Sound(disp'[p], Known', delivered')
  BY <1>1
<1> QED
  BY <1>2 DEF DispOK, OwnLeases

\* One dispatcher takes a step; its lease is kept, given up or a new one.
LEMMA OneStep ==
  ASSUME DispOK, NEW p \in Process, NEW s, disp' = [disp EXCEPT ![p] = s],
         Known \subseteq Known', delivered \subseteq delivered',
         Sound(s, Known', delivered'),
         \/ s.lease \in {disp[p].lease, NoLease}
         \/ \A q \in Process : disp[q].lease # s.lease
  PROVE  DispOK'
<1>1. \A q \in Process : Sound(disp'[q], Known', delivered')
  <2> SUFFICES ASSUME NEW q \in Process
               PROVE  Sound(disp'[q], Known', delivered')
    OBVIOUS
  <2>1. CASE q = p
    BY <2>1 DEF DispOK
  <2>2. CASE q # p
    BY <2>2, SoundGrows DEF DispOK
  <2> QED
    BY <2>1, <2>2
<1>2. s \in Dispatcher
  BY DEF Sound
<1>3. disp' \in [Process -> Dispatcher]
  BY <1>2 DEF DispOK
<1>4. OwnLeases'
  BY DEF DispOK, OwnLeases
<1> QED
  BY <1>1, <1>3, <1>4 DEF DispOK

LEMMA InvParts ==
  OutboxInv <=> /\ RowsOK /\ DispOK /\ delivered \subseteq Event
                /\ faults \in 0..MaxFaults /\ stops \in 0..MaxStops
  BY DEF OutboxInv, TypeOK, RowsOK, DispOK

LEMMA InvPartsAfter ==
  ASSUME RowsOK', DispOK', delivered' \subseteq Event,
         faults' \in 0..MaxFaults, stops' \in 0..MaxStops
  PROVE  OutboxInv'
  BY DEF OutboxInv, TypeOK, RowsOK, DispOK

\* What the invariant says of a dispatcher that works on a batch.
LEMMA BatchWorks ==
  ASSUME DispOK, NEW p \in Process, disp[p].pass \in {"publish", "mark", "reschedule", "release"}
  PROVE  Working(disp[p], Known) /\ disp[p] \in Dispatcher
  BY DEF DispOK, Sound, Leases, Groups, Answered, Working

-----------------------------------------------------------------------------
(* Type correctness and the inductive step *)

LEMMA UnwindSound ==
  ASSUME DispOK, NEW p \in Process, disp[p].pass \in {"mark", "reschedule"}, Unwind(p),
         Known \subseteq Known', delivered' = delivered
  PROVE  DispOK'
<1> DEFINE r == [disp[p] EXCEPT !.settling = {}]
<1>1. Working(disp[p], Known) /\ disp[p] \in Dispatcher
  BY BatchWorks
<1>2. r \in Dispatcher /\ r.lease = disp[p].lease /\ r.pending = disp[p].pending
  BY <1>1 DEF Dispatcher
<1>3. Working(r, Known')
  BY <1>1, <1>2 DEF Working, AskedAgain, Dispatcher
<1> HIDE DEF r
<1>4. Follows(Finally(r, TRUE), r, Known', delivered')
  BY <1>3, FinallySound
<1>5. disp' = [disp EXCEPT ![p] = Finally(r, TRUE)]
  BY DEF Unwind, r
<1> QED
  BY <1>2, <1>4, <1>5, OneStep DEF Follows

\* The loop of publishClaim goes on after a settlement.
LEMMA SettledSound ==
  ASSUME DispOK, NEW p \in Process, disp[p].pass \in {"mark", "reschedule"},
         NEW r \in Dispatcher, r.lease = disp[p].lease, r.pending = disp[p].pending,
         r.asked = disp[p].asked, r.again = disp[p].again, r.life = disp[p].life,
         disp' = [disp EXCEPT ![p] = NextGroup(r)],
         Known \subseteq Known', delivered' = delivered
  PROVE  DispOK'
<1>1. Working(disp[p], Known) /\ Groups(disp[p], Known)
  BY BatchWorks DEF DispOK, Sound
<1>2. Working(r, Known')
  BY <1>1 DEF Working, AskedAgain
<1>3. \A i \in DOMAIN r.pending : r.pending[i].failed
  BY <1>1 DEF Groups
<1>4. Follows(NextGroup(r), r, Known', delivered')
  BY <1>2, <1>3, NextGroupSound
<1> QED
  BY <1>4, OneStep DEF Follows

LEMMA ClaimSound ==
  ASSUME OutboxInv, NEW p \in Process, Claim(p)
  PROVE  OutboxInv'
<1>1. RowsOK /\ DispOK /\ disp[p] \in Dispatcher /\ Sound(disp[p], Known, delivered)
  BY InvParts DEF DispOK
<1>2. CASE Batch = {}
  <2> DEFINE r == [disp[p] EXCEPT !.asked = FALSE]
  <2>1. r \in Dispatcher /\ AskedAgain(r)
    BY <1>1 DEF Dispatcher, AskedAgain
  <2>2. disp' = [disp EXCEPT ![p] = EndPass(r)] /\ UNCHANGED <<rows, delivered, faults, stops>>
    BY <1>2 DEF Claim
  <2> HIDE DEF r
  <2>3. Sound(EndPass(r), Known', delivered') /\ EndPass(r).lease = NoLease
    BY <2>1, EndPassSound
  <2>4. RowsOK' /\ Known' = Known
    BY <1>1, <2>2, RowsKept
  <2>5. DispOK'
    BY <1>1, <2>2, <2>3, <2>4, OneStep
  <2> QED
    BY <2>2, <2>4, <2>5, InvParts, InvPartsAfter
<1>3. CASE Batch # {}
  <2> DEFINE first == Group(Batch, FALSE)
             full == Cardinality(Batch) = BatchSize
             r == [disp[p] EXCEPT !.asked = FALSE, !.lease = NewLease, !.unsettled = Batch,
                                  !.full = full, !.pending = <<first>>]
  <2>1. /\ FreeLeases # {} /\ rows' = Leased(Batch, NewLease)
        /\ disp' = [disp EXCEPT ![p] = NextGroup(r)]
        /\ UNCHANGED <<delivered, faults, stops>> /\ disp[p].pass = "claim"
    BY <1>3 DEF Claim
  <2>2. RowsOK' /\ Known' = Known
    BY <1>1, <2>1, LeasedRows
  <2>3. Batch \subseteq Known
    BY DEF Batch, Claimable, Known
  <2>4. NewLease \in LeaseId /\ NewLease # NoLease /\ \A q \in Process : disp[q].lease # NewLease
    BY <2>1, NewLeaseIsFree
  <2>5. first = [rows |-> Batch, failed |-> FALSE]
    BY DEF Group
  <2>6. Batch \subseteq Event /\ full \in BOOLEAN
    BY DEF Batch
  <2> HIDE DEF first, full
  <2>7. /\ <<first>> \in Seq([rows: SUBSET Event, failed: BOOLEAN])
        /\ \A i \in DOMAIN <<first>> : i = 1 /\ <<first>>[i].rows = Batch
    BY <2>5, <2>6
  <2>8. /\ r \in Dispatcher /\ r.lease = NewLease /\ r.pending = <<first>> /\ r.asked = FALSE
        /\ r.calls = disp[p].calls
    BY <1>1, <2>4, <2>6, <2>7 DEF Dispatcher
  <2>9. r.calls = 0
    BY <1>1, <2>1, <2>8 DEF Sound, Groups
  <2> HIDE DEF r
  <2>10. Working(r, Known')
    BY <2>2, <2>3, <2>4, <2>7, <2>8 DEF Working, AskedAgain
  <2>11. Follows(NextGroup(r), r, Known', delivered')
    BY <2>7, <2>8, <2>9, <2>10, NextGroupSound
  <2>12. DispOK'
    BY <1>1, <2>1, <2>2, <2>4, <2>8, <2>11, OneStep DEF Follows
  <2> QED
    BY <2>1, <2>2, <2>12, InvParts, InvPartsAfter
<1> QED
  BY <1>2, <1>3

LEMMA PublishSound ==
  ASSUME OutboxInv, NEW p \in Process,
         PublishSucceeds(p) \/ PublishFails(p) \/ PublishAbandoned(p)
  PROVE  OutboxInv'
<1> DEFINE r == disp[p]
<1>1. /\ RowsOK /\ DispOK /\ r.pass = "publish" /\ UNCHANGED <<rows, stops>>
      /\ Sound(r, Known, delivered) /\ Working(r, Known) /\ r \in Dispatcher
  BY InvParts, BatchWorks
  DEF PublishSucceeds, PublishFails, PublishAbandoned, DispOK
<1>2. RowsOK' /\ Known' = Known
  BY <1>1, RowsKept
<1>3. r.pending # <<>> /\ \A i \in DOMAIN r.pending : i # 1 => r.pending[i].failed
  BY <1>1 DEF Sound, Groups
<1>4. Publishing(p) \subseteq Event
  <2>1. Head(r.pending) \in GroupRecord
    <3>1. r.pending \in Seq(GroupRecord)
      BY <1>1 DEF Dispatcher, GroupRecord
    <3> QED
      BY <1>3, <3>1, HeadAndTail
  <2> QED
    BY <2>1 DEF Publishing, GroupRecord
<1>5. /\ delivered \subseteq delivered' /\ delivered' \subseteq Event
      /\ faults' \in 0..MaxFaults
  <2>1. \E S \in SUBSET Publishing(p) : delivered' = delivered \cup S
    BY DEF PublishSucceeds, PublishFails, PublishAbandoned
  <2>2. faults' \in {faults} \/ (faults < MaxFaults /\ faults' = faults + 1)
    BY DEF PublishSucceeds, PublishFails, PublishAbandoned, Fault
  <2> QED
    BY <1>4, <2>1, <2>2, InvParts
<1>6. Sound(r, Known', delivered')
  BY <1>1, <1>2, <1>5, SoundGrows
<1>7. CASE PublishSucceeds(p)
  <2>1. Head(r.pending).rows \subseteq delivered'
    BY <1>7 DEF PublishSucceeds, Publishing
  <2>2. Follows(SettleHead(r, "mark"), r, Known', delivered')
    BY <1>1, <1>2, <1>3, <2>1, SettleHeadSound
  <2>3. DispOK'
    BY <1>1, <1>2, <1>5, <1>7, <2>2, OneStep DEF PublishSucceeds, Follows
  <2> QED
    BY <1>1, <1>2, <1>5, <2>3, InvParts, InvPartsAfter
<1>8. CASE PublishFails(p)
  <2>1. Follows(Refused(r), r, Known', delivered')
    BY <1>1, <1>6, RefusedSound
  <2>2. DispOK'
    BY <1>1, <1>2, <1>5, <1>8, <2>1, OneStep DEF PublishFails, Follows
  <2> QED
    BY <1>1, <1>2, <1>5, <2>2, InvParts, InvPartsAfter
<1>9. CASE PublishAbandoned(p)
  <2>1. Follows(Finally(r, FALSE), r, Known', delivered')
    BY <1>1, <1>2, FinallySound
  <2>2. DispOK'
    BY <1>1, <1>2, <1>5, <1>9, <2>1, OneStep DEF PublishAbandoned, Follows
  <2> QED
    BY <1>1, <1>2, <1>5, <2>2, InvParts, InvPartsAfter
<1> QED
  BY <1>7, <1>8, <1>9

LEMMA MarkSound ==
  ASSUME OutboxInv, NEW p \in Process, Mark(p)
  PROVE  OutboxInv'
<1> DEFINE r == [disp[p] EXCEPT !.settling = {}, !.progress = TRUE]
<1>1. RowsOK /\ DispOK /\ disp[p] \in Dispatcher /\ disp[p].pass = "mark"
  BY InvParts DEF DispOK, Mark
<1>2. CASE LeaseMatches(p, disp[p].settling)
  <2>1. /\ rows' = MarkedPublished(disp[p].settling) /\ disp' = [disp EXCEPT ![p] = NextGroup(r)]
        /\ UNCHANGED <<delivered, faults, stops>>
    BY <1>2 DEF Mark
  <2>2. RowsOK' /\ Known \subseteq Known'
    BY <1>1, <2>1, MarkedRows
  <2>3. /\ r \in Dispatcher /\ r.lease = disp[p].lease /\ r.pending = disp[p].pending
        /\ r.asked = disp[p].asked /\ r.again = disp[p].again /\ r.life = disp[p].life
    BY <1>1 DEF Dispatcher
  <2> HIDE DEF r
  <2>4. DispOK'
    BY <1>1, <2>1, <2>2, <2>3, SettledSound
  <2> QED
    BY <2>1, <2>2, <2>4, InvParts, InvPartsAfter
<1>3. CASE ~LeaseMatches(p, disp[p].settling)
  <2>1. UNCHANGED rows /\ Unwind(p) /\ UNCHANGED <<delivered, faults, stops>>
    BY <1>3 DEF Mark
  <2>2. RowsOK' /\ Known' = Known
    BY <1>1, <2>1, RowsKept
  <2>3. DispOK'
    BY <1>1, <2>1, <2>2, UnwindSound
  <2> QED
    BY <2>1, <2>2, <2>3, InvParts, InvPartsAfter
<1> QED
  BY <1>2, <1>3

LEMMA RescheduleSound ==
  ASSUME OutboxInv, NEW p \in Process, Reschedule(p)
  PROVE  OutboxInv'
<1>1. RowsOK /\ DispOK /\ disp[p] \in Dispatcher /\ disp[p].pass = "reschedule"
  BY InvParts DEF DispOK, Reschedule
<1>2. PICK S \in SameAttempts(disp[p].settling) :
        IF LeaseMatches(p, S)
        THEN rows' = Rescheduled(S, FALSE) /\ disp' = [disp EXCEPT ![p] = AfterReschedule(@, S)]
        ELSE UNCHANGED rows /\ Unwind(p)
  BY DEF Reschedule
<1>3. UNCHANGED <<delivered, faults, stops>>
  BY DEF Reschedule
<1>4. CASE LeaseMatches(p, S)
  <2> DEFINE rest == [disp[p] EXCEPT !.settling = disp[p].settling \ S]
  <2>1. /\ rows' = Rescheduled(S, FALSE)
        /\ disp' = [disp EXCEPT ![p] = IF rest.settling = {} THEN NextGroup(rest) ELSE rest]
    BY <1>2, <1>4 DEF AfterReschedule
  <2>2. RowsOK' /\ Known' = Known
    BY <1>1, <2>1, RescheduledRows
  <2>3. /\ rest \in Dispatcher /\ rest.lease = disp[p].lease /\ rest.pending = disp[p].pending
        /\ rest.asked = disp[p].asked /\ rest.again = disp[p].again /\ rest.life = disp[p].life
        /\ rest.pass = "reschedule"
    BY <1>1 DEF Dispatcher
  <2>4. Sound(rest, Known', delivered')
    BY <1>1, <1>3, <2>2, <2>3
    DEF DispOK, Sound, Leases, Groups, Marks, Answered, AskedAgain
  <2> HIDE DEF rest
  <2>5. DispOK'
    <3>1. CASE rest.settling = {}
      BY <1>1, <1>3, <2>1, <2>2, <2>3, <3>1, SettledSound
    <3>2. CASE rest.settling # {}
      BY <1>1, <1>3, <2>1, <2>2, <2>3, <2>4, <3>2, OneStep
    <3> QED
      BY <3>1, <3>2
  <2> QED
    BY <1>3, <2>2, <2>5, InvParts, InvPartsAfter
<1>5. CASE ~LeaseMatches(p, S)
  <2>1. UNCHANGED rows /\ Unwind(p)
    BY <1>2, <1>5
  <2>2. RowsOK' /\ Known' = Known
    BY <1>1, <2>1, RowsKept
  <2>3. DispOK'
    BY <1>1, <1>3, <2>1, <2>2, UnwindSound
  <2> QED
    BY <1>3, <2>2, <2>3, InvParts, InvPartsAfter
<1> QED
  BY <1>4, <1>5

LEMMA ReleaseSound ==
  ASSUME OutboxInv, NEW p \in Process, disp[p].pass = "release",
         disp' = [disp EXCEPT ![p] = EndPass(@)],
         \/ UNCHANGED rows
         \/ rows' = Rescheduled(disp[p].settling, TRUE),
         delivered' = delivered
  PROVE  RowsOK' /\ DispOK' /\ Known' = Known
<1>1. RowsOK /\ DispOK /\ disp[p] \in Dispatcher /\ AskedAgain(disp[p])
  BY InvParts DEF DispOK, Sound, Answered
<1>2. RowsOK' /\ Known' = Known
  BY <1>1, RowsKept, RescheduledRows
<1>3. Sound(EndPass(disp[p]), Known', delivered') /\ EndPass(disp[p]).lease = NoLease
  BY <1>1, EndPassSound
<1>4. DispOK'
  BY <1>1, <1>2, <1>3, OneStep
<1> QED
  BY <1>2, <1>4

LEMMA YieldSound ==
  ASSUME OutboxInv, NEW p \in Process, YieldEnds(p)
  PROVE  OutboxInv'
<1> DEFINE r == disp[p]
<1>1. /\ RowsOK /\ DispOK /\ r \in Dispatcher /\ Sound(r, Known, delivered)
      /\ r.pass = "yield" /\ AskedAgain(r) /\ UNCHANGED <<rows, delivered, faults, stops>>
  BY InvParts DEF DispOK, Sound, Answered, YieldEnds
<1>2. RowsOK' /\ Known' = Known
  BY <1>1, RowsKept
<1>3. Sound(AfterYield(r), Known, delivered) /\ AfterYield(r).lease \in {r.lease, NoLease}
  <2>1. CASE StopRequested(r)
    BY <1>1, <2>1, EndPassSound DEF AfterYield
  <2>2. CASE ~StopRequested(r) /\ r.claims < MaxClaims
    <3>1. AfterYield(r) = [r EXCEPT !.pass = "claim", !.claims = @ + 1]
      BY <2>2 DEF AfterYield
    <3>2. r.claims + 1 \in 0..MaxClaims
      BY <1>1, <2>2 DEF Dispatcher
    <3>3. AfterYield(r) \in Dispatcher
      BY <1>1, <3>1, <3>2 DEF Dispatcher
    <3> QED
      BY <1>1, <3>1, <3>3 DEF Dispatcher, Sound, Leases, Groups, Marks, Answered, AskedAgain
  <2>3. CASE ~StopRequested(r) /\ ~(r.claims < MaxClaims)
    <3> DEFINE s == IF r.life = "up" THEN Drain(r) ELSE r
    <3>1. s \in Dispatcher /\ AskedAgain(s)
      BY <1>1, DrainSound DEF Sound, Answered, AskedAgain, Drain, Dispatcher
    <3>2. AfterYield(r) = EndPass(s)
      BY <2>3 DEF AfterYield
    <3> QED
      BY <3>1, <3>2, EndPassSound
  <2> QED
    BY <2>1, <2>2, <2>3
<1>4. DispOK'
  BY <1>1, <1>2, <1>3, OneStep DEF YieldEnds
<1> QED
  BY <1>1, <1>2, <1>4, InvParts, InvPartsAfter

\* The steps of a dispatcher's life that touch no row.
LEMMA LifeSound ==
  ASSUME OutboxInv, NEW p \in Process,
         Maintain(p) \/ Stop(p) \/ GraceEnds(p) \/ Stopped(p) \/ Restart(p)
  PROVE  OutboxInv'
<1> DEFINE r == disp[p]
<1>1. /\ RowsOK /\ DispOK /\ r \in Dispatcher /\ Sound(r, Known, delivered)
      /\ UNCHANGED <<rows, delivered, faults>>
  BY InvParts DEF DispOK, Maintain, Stop, GraceEnds, Stopped, Restart
<1>2. RowsOK' /\ Known' = Known
  BY <1>1, RowsKept
<1>3. stops' \in 0..MaxStops
  BY InvParts DEF Maintain, Stop, GraceEnds, Stopped, Restart
<1>4. ASSUME NEW s, disp' = [disp EXCEPT ![p] = s], Sound(s, Known, delivered),
             s.lease \in {r.lease, NoLease}
      PROVE  OutboxInv'
  <2>1. DispOK'
    BY <1>1, <1>2, <1>4, OneStep
  <2> QED
    BY <1>1, <1>2, <1>3, <2>1, InvParts, InvPartsAfter
<1>5. CASE Maintain(p)
  BY <1>1, <1>4, <1>5, DrainSound DEF Maintain
<1>6. CASE Stop(p)
  <2> DEFINE s == [Drain(r) EXCEPT !.life = "closing"]
  <2>1. /\ Sound(Drain(r), Known, delivered) /\ Drain(r).lease = r.lease
        /\ Drain(r) \in Dispatcher
    BY <1>1, <1>6, DrainSound DEF Stop, Sound
  <2>2. disp' = [disp EXCEPT ![p] = s]
    BY <1>6 DEF Stop
  <2>3. s \in Dispatcher
    BY <2>1 DEF Dispatcher
  <2>4. Sound(s, Known, delivered) /\ s.lease = r.lease
    BY <2>1, <2>3 DEF Dispatcher, Sound, Leases, Groups, Marks, Answered, AskedAgain
  <2> QED
    BY <1>4, <2>2, <2>4
<1>7. CASE GraceEnds(p)
  <2> DEFINE s == [r EXCEPT !.life = "forced", !.asked = FALSE]
  <2>1. disp' = [disp EXCEPT ![p] = s]
    BY <1>1, <1>7 DEF GraceEnds, DispOK
  <2>2. s \in Dispatcher
    BY <1>1 DEF Dispatcher
  <2>3. Sound(s, Known, delivered) /\ s.lease = r.lease
    BY <1>1, <2>2 DEF Dispatcher, Sound, Leases, Groups, Marks, Answered, AskedAgain
  <2> QED
    BY <1>4, <2>1, <2>3
<1>8. CASE Stopped(p)
  <2> DEFINE s == [r EXCEPT !.life = "stopped"]
  <2>1. disp' = [disp EXCEPT ![p] = s] /\ r.pass = "none"
    BY <1>1, <1>8 DEF Stopped, DispOK
  <2>2. s \in Dispatcher
    BY <1>1 DEF Dispatcher
  <2>3. Sound(s, Known, delivered) /\ s.lease = r.lease
    BY <1>1, <2>1, <2>2 DEF Dispatcher, Sound, Leases, Groups, Marks, Answered, AskedAgain
  <2> QED
    BY <1>4, <2>1, <2>3
<1>9. CASE Restart(p)
  <2>1. Sound(Fresh, Known, delivered) /\ Fresh.lease = NoLease
    BY FreshSound DEF Fresh
  <2> QED
    BY <1>4, <1>9, <2>1 DEF Restart
<1> QED
  BY <1>5, <1>6, <1>7, <1>8, <1>9

LEMMA StorageFailsSound ==
  ASSUME OutboxInv, NEW p \in Process, StorageFails(p)
  PROVE  OutboxInv'
<1> DEFINE r == disp[p]
<1>1. /\ RowsOK /\ DispOK /\ r \in Dispatcher /\ Sound(r, Known, delivered)
      /\ delivered' = delivered /\ stops' = stops
  BY InvParts DEF DispOK, StorageFails
<1>2. faults' \in 0..MaxFaults
  BY InvParts DEF StorageFails, Fault
<1>3. SUFFICES RowsOK' /\ DispOK'
  BY <1>1, <1>2, InvParts, InvPartsAfter
<1>4. CASE /\ r.pass = "claim" /\ FreeLeases # {}
           /\ rows' \in {rows, Leased(Batch, NewLease)}
           /\ disp' = [disp EXCEPT ![p] = EndPass([@ EXCEPT !.asked = disp[p].asked /\ disp[p].again])]
  <2> DEFINE again == r.asked /\ r.again
             s == [r EXCEPT !.asked = again]
  <2>1. RowsOK' /\ Known' = Known
    BY <1>1, <1>4, LeasedRows, RowsKept
  <2>2. again \in BOOLEAN /\ (again => r.again /\ r.life \in {"up", "closing"})
    BY <1>1 DEF Dispatcher, Sound, Answered
  <2> HIDE DEF again
  <2>3. s \in Dispatcher
    BY <1>1, <2>2 DEF Dispatcher
  <2>4. AskedAgain(s)
    BY <1>1, <2>2 DEF Dispatcher, AskedAgain
  <2>5. disp' = [disp EXCEPT ![p] = EndPass(s)]
    BY <1>4 DEF again
  <2> HIDE DEF s
  <2>6. Sound(EndPass(s), Known', delivered') /\ EndPass(s).lease = NoLease
    BY <2>3, <2>4, EndPassSound
  <2>7. DispOK'
    BY <1>1, <2>1, <2>5, <2>6, OneStep
  <2> QED
    BY <2>1, <2>7
<1>5. CASE /\ r.pass = "mark"
           /\ \/ UNCHANGED rows
              \/ LeaseMatches(p, r.settling) /\ rows' = MarkedPublished(r.settling)
           /\ Unwind(p)
  <2>1. RowsOK' /\ Known \subseteq Known'
    BY <1>1, <1>5, MarkedRows, RowsKept
  <2>2. DispOK'
    BY <1>1, <1>5, <2>1, UnwindSound
  <2> QED
    BY <2>1, <2>2
<1>6. CASE /\ r.pass = "reschedule"
           /\ \/ UNCHANGED rows
              \/ \E S \in SameAttempts(r.settling) :
                   LeaseMatches(p, S) /\ rows' = Rescheduled(S, FALSE)
           /\ Unwind(p)
  <2>1. RowsOK' /\ Known' = Known
    BY <1>1, <1>6, RescheduledRows, RowsKept
  <2>2. DispOK'
    BY <1>1, <1>6, <2>1, UnwindSound
  <2> QED
    BY <2>1, <2>2
<1>7. CASE /\ r.pass = "release"
           /\ \/ UNCHANGED rows
              \/ /\ LeaseMatches(p, r.settling)
                 /\ rows' = Rescheduled(r.settling, TRUE)
           /\ disp' = [disp EXCEPT ![p] = EndPass(@)]
  BY <1>1, <1>7, ReleaseSound
<1> QED
  BY <1>4, <1>5, <1>6, <1>7 DEF StorageFails

LEMMA CrashSound ==
  ASSUME OutboxInv, NEW p \in Process, Crash(p)
  PROVE  OutboxInv'
<1> DEFINE r == disp[p]
<1>1. /\ RowsOK /\ DispOK /\ r \in Dispatcher /\ UNCHANGED <<rows, stops>>
      /\ disp' = [disp EXCEPT ![p] = Fresh]
  BY InvParts DEF DispOK, Crash
<1>2. faults' \in 0..MaxFaults
  BY InvParts DEF Crash, Fault
<1>3. RowsOK' /\ Known' = Known
  BY <1>1, RowsKept
<1>4. delivered \subseteq delivered' /\ delivered' \subseteq Event
  <2>1. CASE UNCHANGED delivered
    BY <2>1, InvParts
  <2>2. CASE r.pass = "publish" /\ delivered' = delivered \cup (Publishing(p) \ Poison)
    <3>1. r.pending \in Seq(GroupRecord) /\ r.pending # <<>>
      BY <1>1, <2>2 DEF Dispatcher, GroupRecord, DispOK, Sound, Groups
    <3>2. Head(r.pending) \in GroupRecord
      BY <3>1, HeadAndTail
    <3> QED
      BY <2>2, <3>2, InvParts DEF Publishing, GroupRecord
  <2> QED
    BY <2>1, <2>2 DEF Crash
<1>5. Sound(Fresh, Known', delivered') /\ Fresh.lease = NoLease
  BY FreshSound DEF Fresh
<1>6. DispOK'
  BY <1>1, <1>3, <1>4, <1>5, OneStep
<1> QED
  BY <1>1, <1>2, <1>3, <1>4, <1>6, InvParts, InvPartsAfter

\* Steps of the rows alone: back-offs and leases end, published rows are deleted.
LEMMA RowStepSound ==
  ASSUME OutboxInv,
         \/ \E e \in Event : BackoffEnds(e)
         \/ \E S \in SUBSET Event : Purge(S)
         \/ \E l \in LeaseId : LeaseEnds(l) \/ LeaseOutlived(l)
  PROVE  OutboxInv'
<1>1. /\ RowsOK /\ DispOK /\ UNCHANGED <<disp, delivered, stops>>
  BY InvParts DEF BackoffEnds, Purge, LeaseEnds, LeaseOutlived, LeaseIsOver
<1>2. faults' \in 0..MaxFaults
  BY InvParts DEF BackoffEnds, Purge, LeaseEnds, LeaseOutlived, Fault
<1>3. SUFFICES RowsOK' /\ Known \subseteq Known'
  BY <1>1, <1>2, OthersKept, InvParts, InvPartsAfter
<1>4. SUFFICES /\ rows' \in [Event -> RowRecord]
               /\ \A e \in Event : /\ rows[e].state # "absent" => rows'[e].state # "absent"
                                   /\ rows'[e].lease # NoLease => rows'[e].state = "pending"
  BY DEF RowsOK, LeasedArePending, Known
<1>5. ASSUME NEW e \in Event, BackoffEnds(e)
      PROVE  /\ rows' \in [Event -> RowRecord]
             /\ \A f \in Event : /\ rows'[f].state = rows[f].state
                                 /\ rows'[f].lease = rows[f].lease
  BY <1>1, <1>5 DEF BackoffEnds, RowsOK, RowRecord
<1>6. ASSUME NEW S \in SUBSET Event, Purge(S)
      PROVE  /\ rows' \in [Event -> RowRecord]
             /\ \A f \in Event : \/ rows'[f] = rows[f]
                                 \/ rows'[f].state = "purged" /\ rows'[f].lease = NoLease
  <2>1. \A f \in Event : rows'[f] = IF f \in S THEN [AbsentRow EXCEPT !.state = "purged"] ELSE rows[f]
    BY <1>6 DEF Purge
  <2>2. /\ [AbsentRow EXCEPT !.state = "purged"] \in RowRecord
        /\ [AbsentRow EXCEPT !.state = "purged"].state = "purged"
        /\ [AbsentRow EXCEPT !.state = "purged"].lease = NoLease
    BY DEF AbsentRow, RowRecord, Feed!RowState
  <2>3. rows' \in [Event -> RowRecord]
    BY <1>1, <1>6, <2>2 DEF Purge, RowsOK
  <2> QED
    BY <2>1, <2>2, <2>3
<1>7. ASSUME NEW l \in LeaseId, LeaseIsOver(l)
      PROVE  /\ rows' \in [Event -> RowRecord]
             /\ \A f \in Event : /\ rows'[f].state = rows[f].state
                                 /\ rows'[f].lease = rows[f].lease
  <2>1. \A f \in Event : /\ rows'[f] \in RowRecord
                         /\ rows'[f].state = rows[f].state /\ rows'[f].lease = rows[f].lease
    BY <1>1, <1>7 DEF LeaseIsOver, RowsOK, RowRecord
  <2>2. rows' \in [Event -> RowRecord]
    BY <1>7, <2>1 DEF LeaseIsOver
  <2> QED
    BY <2>1, <2>2
<1> QED
  BY <1>1, <1>5, <1>6, <1>7 DEF RowsOK, LeasedArePending, LeaseEnds, LeaseOutlived

LEMMA CommitSound ==
  ASSUME OutboxInv, NEW p \in Process, NEW e \in Event, Commit(p, e)
  PROVE  OutboxInv'
<1> DEFINE s == IF disp[p].life = "up" THEN Drain(disp[p]) ELSE disp[p]
           row == [AbsentRow EXCEPT !.state = "pending", !.due = TRUE]
<1>1. /\ RowsOK /\ DispOK /\ Sound(disp[p], Known, delivered)
      /\ UNCHANGED <<delivered, faults, stops>>
      /\ disp' = [disp EXCEPT ![p] = s] /\ rows' = [rows EXCEPT ![e] = row]
  BY InvParts DEF DispOK, Commit
<1>2. row \in RowRecord /\ row.state = "pending"
  BY DEF AbsentRow, RowRecord, Feed!RowState
<1> HIDE DEF row
<1>3. RowsOK' /\ Known \subseteq Known'
  BY <1>1, <1>2 DEF RowsOK, LeasedArePending, Known
<1>4. Sound(s, Known, delivered) /\ s.lease = disp[p].lease
  BY <1>1, DrainSound
<1>5. Sound(s, Known', delivered')
  BY <1>1, <1>3, <1>4, SoundGrows
<1> HIDE DEF s
<1>6. DispOK'
  BY <1>1, <1>3, <1>4, <1>5, OneStep
<1> QED
  BY <1>1, <1>3, <1>6, InvParts, InvPartsAfter

LEMMA InitSound == Init => OutboxInv
<1> SUFFICES ASSUME Init PROVE OutboxInv
  OBVIOUS
<1>1. AbsentRow \in RowRecord /\ AbsentRow.lease = NoLease
  BY DEF AbsentRow, RowRecord, Feed!RowState
<1>2. RowsOK
  BY <1>1 DEF Init, RowsOK, LeasedArePending
<1>3. \A p \in Process : Sound(disp[p], Known, delivered)
  BY FreshSound DEF Init
<1>4. Fresh \in Dispatcher /\ Fresh.lease = NoLease
  BY FreshSound DEF Sound, Fresh
<1>5. DispOK
  BY <1>3, <1>4 DEF Init, DispOK, OwnLeases
<1> QED
  BY <1>2, <1>5, InvParts DEF Init

LEMMA StepSound == OutboxInv /\ [Next]_vars => OutboxInv'
<1> SUFFICES ASSUME OutboxInv, [Next]_vars PROVE OutboxInv'
  OBVIOUS
<1>1. CASE UNCHANGED vars
  <2>1. RowsOK' /\ Known' = Known
    BY <1>1, InvParts, RowsKept DEF vars
  <2>2. DispOK'
    BY <1>1, <2>1, InvParts, OthersKept DEF vars
  <2> QED
    BY <1>1, <2>1, <2>2, InvParts, InvPartsAfter DEF vars
<1>2. ASSUME NEW p \in Process, Steps(p) PROVE OutboxInv'
  <2>1. CASE Release(p)
    <3>1. /\ disp[p].pass = "release" /\ disp' = [disp EXCEPT ![p] = EndPass(@)]
          /\ rows' = rows \/ rows' = Rescheduled(disp[p].settling, TRUE)
          /\ UNCHANGED <<delivered, faults, stops>>
      BY <2>1 DEF Release
    <3>2. RowsOK' /\ DispOK'
      BY <3>1, ReleaseSound
    <3> QED
      BY <3>1, <3>2, InvParts, InvPartsAfter
  <2> QED
    BY <1>2, <2>1, ClaimSound, PublishSound, MarkSound, RescheduleSound, YieldSound, LifeSound
    DEF Steps
<1>3. ASSUME NEW p \in Process,
             \/ \E e \in Event : Commit(p, e)
             \/ Maintain(p) \/ Stop(p) \/ GraceEnds(p) \/ Restart(p)
             \/ StorageFails(p) \/ Crash(p)
      PROVE  OutboxInv'
  BY <1>3, CommitSound, LifeSound, StorageFailsSound, CrashSound
<1> QED
  BY <1>1, <1>2, <1>3, RowStepSound DEF Next

THEOREM Invariant == Spec => []OutboxInv
  BY InitSound, StepSound, PTL DEF Spec

\* Whatever is refused, lost or stopped, the variables keep their shapes, and no
\* claimed batch costs more broker calls than maxIsolationAttempts.
THEOREM TypeCorrect == Spec => []TypeOK
<1>1. OutboxInv => TypeOK
  BY DEF OutboxInv
<1> QED
  BY <1>1, Invariant, PTL

\* Every drain accepted by a dispatcher (outbox-dispatcher.ts, drain) is followed
\* by a claim, in the running pass or in one that follows it.
THEOREM NoDrainIsLost == Spec => []DrainsAreAnswered
<1>1. OutboxInv => DrainsAreAnswered
  BY InvParts DEF DispOK, Sound, Answered, AskedAgain, DrainsAreAnswered
<1> QED
  BY <1>1, Invariant, PTL

-----------------------------------------------------------------------------
(* Fencing *)

\* Only the dispatcher whose lease a row carries settles it.
LEMMA SettledByHolder ==
  ASSUME OutboxInv, NEW p \in Process, NEW e \in Event, Holds(p, e),
         NEW q \in Process, NEW S, e \in S, LeaseMatches(q, S)
  PROVE  q = p
<1>1. disp[p].lease # NoLease
  BY InvParts DEF DispOK, Sound, Leases, Holds
<1>2. disp[q].lease = disp[p].lease
  BY DEF Holds, LeaseMatches
<1> QED
  BY <1>1, <1>2, InvParts DEF DispOK, OwnLeases

\* A dispatcher that settles rows changes.
LEMMA SettlingMoves ==
  ASSUME OutboxInv, NEW p \in Process,
         Mark(p) \/ Reschedule(p) \/ Release(p)
         \/ (StorageFails(p) /\ disp[p].pass \in {"mark", "reschedule", "release"})
  PROVE  disp'[p] # disp[p]
<1> DEFINE r == disp[p]
<1>1. DispOK /\ r \in Dispatcher /\ r.pass \in {"mark", "reschedule", "release"}
  BY InvParts DEF DispOK, Mark, Reschedule, Release
<1>2. Working(r, Known) /\ AskedAgain(r) /\ Sound(r, Known, delivered)
  BY <1>1, BatchWorks DEF Working, DispOK
<1>3. ASSUME NEW s, disp' = [disp EXCEPT ![p] = s], s.pass # r.pass \/ s.pending # r.pending
             \/ s.settling # r.settling
      PROVE  disp'[p] # disp[p]
  BY <1>1, <1>3 DEF DispOK
<1>4. CASE Unwind(p) /\ r.pass \in {"mark", "reschedule"}
  <2> DEFINE bare == [r EXCEPT !.settling = {}]
  <2>1. bare \in Dispatcher /\ bare.lease = r.lease /\ bare.pending = r.pending
    BY <1>1 DEF Dispatcher
  <2>2. Working(bare, Known)
    BY <1>1, <1>2, <2>1 DEF Working, AskedAgain, Dispatcher
  <2>3. disp' = [disp EXCEPT ![p] = Finally(bare, TRUE)]
    BY <1>4 DEF Unwind
  <2> HIDE DEF bare
  <2>4. Finally(bare, TRUE).pass \in {"none", "claim", "yield", "release"}
    BY <2>2, FinallySound
  <2> QED
    BY <1>3, <1>4, <2>3, <2>4
<1>5. CASE disp' = [disp EXCEPT ![p] = EndPass(@)]
  <2>1. EndPass(r).pass \in {"none", "claim"}
    BY <1>1, <1>2, EndPassSound
  <2> QED
    BY <1>1, <1>3, <1>5, <2>1
<1>6. CASE Mark(p) /\ ~Unwind(p)
  <2> DEFINE s == [r EXCEPT !.settling = {}, !.progress = TRUE]
  <2>1. s \in Dispatcher /\ s.lease = r.lease /\ s.pending = r.pending
    BY <1>1 DEF Dispatcher
  <2>2. Working(s, Known)
    BY <1>1, <1>2, <2>1 DEF Working, AskedAgain, Dispatcher
  <2>3. r.pass = "mark" /\ disp' = [disp EXCEPT ![p] = NextGroup(s)]
    BY <1>6 DEF Mark
  <2>4. \A i \in DOMAIN s.pending : s.pending[i].failed
    BY <1>2, <2>1, <2>3 DEF Sound, Groups
  <2> HIDE DEF s
  <2>5. NextGroup(s).pass # "mark"
    BY <2>2, <2>4, NextGroupSound
  <2> QED
    BY <1>3, <2>3, <2>5
<1>7. CASE Reschedule(p) /\ ~Unwind(p)
  <2>1. PICK S \in SameAttempts(r.settling) : disp' = [disp EXCEPT ![p] = AfterReschedule(@, S)]
    BY <1>7 DEF Reschedule
  <2>2. r.settling \ S # r.settling
    BY DEF SameAttempts
  <2> DEFINE rest == [r EXCEPT !.settling = r.settling \ S]
  <2>3. /\ rest \in Dispatcher /\ rest.lease = r.lease /\ rest.pending = r.pending
        /\ rest.settling = r.settling \ S
    BY <1>1 DEF Dispatcher
  <2>4. Working(rest, Known)
    BY <1>1, <1>2, <2>3 DEF Working, AskedAgain, Dispatcher
  <2>5. r.pass = "reschedule" /\ AfterReschedule(r, S) = IF rest.settling = {} THEN NextGroup(rest) ELSE rest
    BY <1>7 DEF Reschedule, AfterReschedule
  <2>6. \A i \in DOMAIN rest.pending : rest.pending[i].failed
    BY <1>2, <2>3, <2>5 DEF Sound, Groups
  <2> HIDE DEF rest
  <2>7. NextGroup(rest).pass = "reschedule" => NextGroup(rest).pending # r.pending
    BY <2>3, <2>4, <2>6, NextGroupSound
  <2>8. \/ AfterReschedule(r, S).pass # r.pass
        \/ AfterReschedule(r, S).pending # r.pending
        \/ AfterReschedule(r, S).settling # r.settling
    BY <2>2, <2>3, <2>5, <2>7
  <2> QED
    BY <1>3, <2>1, <2>8
<1>8. CASE Mark(p)
  BY <1>4, <1>6, <1>8 DEF Mark
<1>9. CASE Reschedule(p)
  BY <1>4, <1>7, <1>9 DEF Reschedule
<1>10. CASE Release(p)
  BY <1>5, <1>10 DEF Release
<1>11. CASE StorageFails(p) /\ r.pass \in {"mark", "reschedule", "release"}
  BY <1>4, <1>5, <1>11 DEF StorageFails
<1> QED
  BY <1>8, <1>9, <1>10, <1>11

LEMMA FencedStep ==
  ASSUME OutboxInv, Next, NEW p \in Process, NEW e \in Event,
         Holds(p, e), ~rows[e].expired, disp'[p] = disp[p]
  PROVE  rows'[e].state = rows[e].state /\ rows'[e].lease = rows[e].lease
<1> DEFINE Same == rows'[e].state = rows[e].state /\ rows'[e].lease = rows[e].lease
<1>1. RowsOK /\ rows[e].lease # NoLease /\ rows[e].state = "pending"
  BY InvParts DEF RowsOK, LeasedArePending, DispOK, Sound, Leases, Holds
<1>2. ASSUME UNCHANGED rows PROVE Same
  BY <1>2
<1>3. ASSUME rows' = Leased(Batch, NewLease) PROVE Same
  BY <1>1, <1>3 DEF Leased, Batch, Claimable
<1>4. ASSUME NEW q \in Process, NEW S, LeaseMatches(q, S),
             \/ rows' = MarkedPublished(S)
             \/ \E due \in BOOLEAN : rows' = Rescheduled(S, due),
             disp'[q] # disp[q]
      PROVE  Same
  <2>1. e \notin S
    BY <1>4, SettledByHolder
  <2> QED
    BY <1>4, <2>1 DEF MarkedPublished, Rescheduled
<1>5. ASSUME NEW q \in Process, Steps(q) PROVE Same
  <2>1. CASE Claim(q)
    BY <1>2, <1>3, <2>1 DEF Claim
  <2>2. CASE PublishSucceeds(q) \/ PublishFails(q) \/ PublishAbandoned(q) \/ YieldEnds(q) \/ Stopped(q)
    BY <1>2, <2>2 DEF PublishSucceeds, PublishFails, PublishAbandoned, YieldEnds, Stopped
  <2>3. CASE Mark(q)
    BY <1>2, <1>4, <2>3, SettlingMoves DEF Mark
  <2>4. CASE Reschedule(q)
    BY <1>2, <1>4, <2>4, SettlingMoves DEF Reschedule
  <2>5. CASE Release(q)
    BY <1>2, <1>4, <2>5, SettlingMoves DEF Release
  <2> QED
    BY <1>5, <2>1, <2>2, <2>3, <2>4, <2>5 DEF Steps
<1>6. ASSUME NEW q \in Process, StorageFails(q) PROVE Same
  <2>1. disp[q].pass \in {"mark", "reschedule", "release"} => disp'[q] # disp[q]
    BY <1>6, SettlingMoves
  <2> QED
    BY <1>2, <1>3, <1>4, <1>6, <2>1 DEF StorageFails
<1>7. ASSUME NEW q \in Process, NEW f \in Event, Commit(q, f) PROVE Same
  <2>1. e # f
    BY <1>1, <1>7 DEF Commit
  <2> QED
    BY <1>7, <2>1 DEF Commit
<1>8. ASSUME NEW q \in Process,
             Maintain(q) \/ Stop(q) \/ GraceEnds(q) \/ Restart(q) \/ Crash(q)
      PROVE  Same
  BY <1>2, <1>8 DEF Maintain, Stop, GraceEnds, Restart, Crash
<1>9. ASSUME NEW f \in Event, BackoffEnds(f) PROVE Same
  BY <1>1, <1>9 DEF BackoffEnds, RowsOK, RowRecord
<1>10. ASSUME NEW S \in SUBSET Event, Purge(S) PROVE Same
  <2>1. e \notin S
    BY <1>1, <1>10 DEF Purge
  <2> QED
    BY <1>10, <2>1 DEF Purge
<1>11. ASSUME NEW l \in LeaseId, LeaseEnds(l) \/ LeaseOutlived(l) PROVE Same
  BY <1>1, <1>11 DEF LeaseEnds, LeaseOutlived, LeaseIsOver, RowsOK, RowRecord
<1> QED
  BY <1>5, <1>6, <1>7, <1>8, <1>9, <1>10, <1>11 DEF Next

\* A late settlement under an earlier lease (outbox.ts, validateLeaseBatch) never
\* touches the rows that the holder of a running lease still has to settle.
THEOREM Fenced == Spec => OnlyTheHolderSettles
<1> DEFINE A == \A p \in Process, e \in Event :
                  Holds(p, e) /\ ~rows[e].expired /\ disp'[p] = disp[p] =>
                    rows'[e].state = rows[e].state /\ rows'[e].lease = rows[e].lease
<1>1. OutboxInv /\ [Next]_vars => [A]_vars
  BY FencedStep
<1> QED
  BY <1>1, Invariant, PTL DEF Spec, OnlyTheHolderSettles

-----------------------------------------------------------------------------
(* The abstract feed *)

LEMMA FeedStep ==
  ASSUME OutboxInv, Next
  PROVE  [Feed!FeedNext]_Feed!feedVars
<1> DEFINE State == [e \in Event |-> rows[e].state]
           Stutter == State' = State /\ delivered' = delivered
<1>1. RowsOK /\ DispOK /\ Feed!feedVars = <<State, delivered>>
  BY InvParts DEF Feed!feedVars
<1>2. ASSUME UNCHANGED rows, delivered' = delivered PROVE Stutter
  BY <1>2
<1>3. SUFFICES Feed!FeedNext \/ Stutter
  BY DEF Feed!feedVars
<1>4. ASSUME NEW S \in SUBSET Event, NEW from, NEW to, \A e \in S : rows[e].state = from,
             \A e \in Event : rows'[e].state = IF e \in S THEN to ELSE rows[e].state
      PROVE  Feed!Moved(S, from, to)
  BY <1>4 DEF Feed!Moved
<1>5. ASSUME rows' = Leased(Batch, NewLease), delivered' = delivered PROVE Stutter
  <2>1. \A e \in Event : rows'[e].state = rows[e].state
    BY <1>1, <1>5 DEF Leased, RowsOK, RowRecord
  <2> QED
    BY <1>5, <2>1
<1>6. ASSUME NEW S, NEW due \in BOOLEAN, rows' = Rescheduled(S, due), delivered' = delivered
      PROVE  Stutter
  <2>1. \A e \in Event : rows'[e].state = rows[e].state
    BY <1>1, <1>6, RescheduledRows
  <2> QED
    BY <1>6, <2>1
<1>7. ASSUME NEW p \in Process, disp[p].pass = "mark", LeaseMatches(p, disp[p].settling),
             rows' = MarkedPublished(disp[p].settling), delivered' = delivered
      PROVE  Feed!FeedNext
  <2>1. /\ disp[p].settling \in SUBSET Event /\ disp[p].settling \subseteq delivered
        /\ disp[p].lease # NoLease
    BY <1>1, <1>7 DEF DispOK, Dispatcher, Sound, Marks, Leases
  <2>2. PICK S \in SUBSET Event : S = disp[p].settling
    BY <2>1
  <2>3. \A e \in S : rows[e].state = "pending"
    BY <1>1, <1>7, <2>1, <2>2 DEF LeaseMatches, RowsOK, LeasedArePending
  <2>4. \A e \in Event : rows'[e].state = IF e \in S THEN "published" ELSE rows[e].state
    BY <1>1, <1>7, <2>2 DEF MarkedPublished, Unleased, RowsOK, RowRecord
  <2>5. Feed!Acknowledge(S)
    BY <1>4, <1>7, <2>1, <2>2, <2>3, <2>4 DEF Feed!Acknowledge
  <2> QED
    BY <2>5 DEF Feed!FeedNext
<1>8. ASSUME NEW S, S \subseteq Known, delivered' = delivered \cup S, UNCHANGED rows
      PROVE  Feed!FeedNext
  <2>1. S \in SUBSET Event /\ \A e \in S : State[e] # "absent"
    BY <1>8 DEF Known
  <2>2. Feed!Deliver(S)
    BY <1>8, <2>1 DEF Feed!Deliver
  <2> QED
    BY <2>1, <2>2 DEF Feed!FeedNext
<1>9. ASSUME NEW p \in Process, disp[p].pass = "publish" PROVE Publishing(p) \subseteq Known
  <2>1. disp[p].pending \in Seq(GroupRecord) /\ disp[p].pending # <<>>
    BY <1>1, <1>9 DEF DispOK, Dispatcher, GroupRecord, Sound, Groups
  <2>2. 1 \in DOMAIN disp[p].pending /\ Publishing(p) = disp[p].pending[1].rows
    BY <2>1, HeadAndTail DEF Publishing
  <2> QED
    BY <1>1, <2>2 DEF DispOK, Sound, Groups
<1>10. ASSUME NEW p \in Process, Steps(p) PROVE Feed!FeedNext \/ Stutter
  <2>1. CASE Claim(p)
    BY <1>2, <1>5, <2>1 DEF Claim
  <2>2. CASE PublishSucceeds(p) \/ PublishFails(p) \/ PublishAbandoned(p)
    <3>1. /\ \E S \in SUBSET Publishing(p) : delivered' = delivered \cup S
          /\ UNCHANGED rows /\ disp[p].pass = "publish"
      BY <2>2 DEF PublishSucceeds, PublishFails, PublishAbandoned
    <3> QED
      BY <1>8, <1>9, <3>1
  <2>3. CASE Mark(p)
    BY <1>2, <1>7, <2>3 DEF Mark
  <2>4. CASE Reschedule(p)
    BY <1>2, <1>6, <2>4 DEF Reschedule
  <2>5. CASE Release(p)
    BY <1>2, <1>6, <2>5 DEF Release
  <2>6. CASE YieldEnds(p) \/ Stopped(p)
    BY <1>2, <2>6 DEF YieldEnds, Stopped
  <2> QED
    BY <1>10, <2>1, <2>2, <2>3, <2>4, <2>5, <2>6 DEF Steps
<1>11. ASSUME NEW p \in Process, StorageFails(p) PROVE Feed!FeedNext \/ Stutter
  BY <1>2, <1>5, <1>6, <1>7, <1>11 DEF StorageFails
<1>12. ASSUME NEW p \in Process, NEW e \in Event, Commit(p, e) PROVE Feed!FeedNext
  <2>1. /\ rows[e].state = "absent" /\ delivered' = delivered
        /\ \A f \in Event : rows'[f].state = IF f \in {e} THEN "pending" ELSE rows[f].state
    BY <1>1, <1>12 DEF Commit, AbsentRow, RowsOK
  <2>2. Feed!Commit(e)
    BY <1>4, <2>1 DEF Feed!Commit
  <2> QED
    BY <2>2 DEF Feed!FeedNext
<1>13. ASSUME NEW p \in Process, Crash(p) PROVE Feed!FeedNext \/ Stutter
  <2>1. CASE UNCHANGED delivered
    BY <1>2, <1>13, <2>1 DEF Crash
  <2>2. CASE disp[p].pass = "publish" /\ delivered' = delivered \cup (Publishing(p) \ Poison)
    BY <1>8, <1>9, <1>13, <2>2 DEF Crash
  <2> QED
    BY <1>13, <2>1, <2>2 DEF Crash
<1>14. ASSUME NEW p \in Process, Maintain(p) \/ Stop(p) \/ GraceEnds(p) \/ Restart(p)
       PROVE  Stutter
  BY <1>2, <1>14 DEF Maintain, Stop, GraceEnds, Restart
<1>15. ASSUME NEW e \in Event, BackoffEnds(e) PROVE Stutter
  <2>1. \A f \in Event : rows'[f].state = rows[f].state
    BY <1>1, <1>15 DEF BackoffEnds, RowsOK, RowRecord
  <2> QED
    BY <1>15, <2>1 DEF BackoffEnds
<1>16. ASSUME NEW l \in LeaseId, LeaseEnds(l) \/ LeaseOutlived(l) PROVE Stutter
  <2>1. LeaseIsOver(l)
    BY <1>16 DEF LeaseEnds, LeaseOutlived
  <2>2. \A f \in Event : rows'[f].state = rows[f].state
    BY <1>1, <2>1 DEF LeaseIsOver, RowsOK, RowRecord
  <2> QED
    BY <2>1, <2>2 DEF LeaseIsOver
<1>17. ASSUME NEW S \in SUBSET Event, Purge(S) PROVE Feed!FeedNext
  <2>1. /\ \A e \in S : rows[e].state = "published" /\ delivered' = delivered
        /\ \A e \in Event : rows'[e].state = IF e \in S THEN "purged" ELSE rows[e].state
    BY <1>17 DEF Purge, AbsentRow
  <2>2. Feed!Purge(S)
    BY <1>4, <1>17, <2>1 DEF Feed!Purge, Purge
  <2> QED
    BY <2>2 DEF Feed!FeedNext
<1> QED
  BY <1>10, <1>11, <1>12, <1>13, <1>14, <1>15, <1>16, <1>17 DEF Next

\* The leased, split and retried batches implement the at-least-once feed: no row
\* is marked (outbox.ts, markPublishedUnlocked) before the broker took its event.
THEOREM FeedImplemented == Spec => ImplementsFeed
<1>1. Init => Feed!FeedInit
  BY DEF Init, Feed!FeedInit, AbsentRow
<1>2. OutboxInv /\ [Next]_vars => [Feed!FeedNext]_Feed!feedVars
  BY FeedStep DEF vars, Feed!feedVars
<1> QED
  BY <1>1, <1>2, Invariant, PTL DEF Spec, ImplementsFeed, Feed!FeedSpec
=============================================================================
