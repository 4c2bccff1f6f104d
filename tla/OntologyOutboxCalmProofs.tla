---------------------- MODULE OntologyOutboxCalmProofs -----------------------
(***************************************************************************)
(* Proofs about OntologyOutbox as long as nothing fails: a stopped process *)
(* leaves no lease behind, and one event the broker refuses costs only     *)
(* itself a delay, within the calls the dispatcher allows a batch.         *)
(***************************************************************************)
EXTENDS OntologyOutboxProofs, FiniteSetTheorems

USE OntologyOutboxAssumption

-----------------------------------------------------------------------------
(* The first members of a set of events *)

\* The members of S with fewer than k members before them.
FirstOf(S, k) == {e \in S : Cardinality({f \in S : f < e}) < k}

LEMMA RankGrows ==
  ASSUME NEW S \in SUBSET Int, IsFiniteSet(S), NEW e \in S
  PROVE  /\ Cardinality({f \in S : f < e}) \in Nat
         /\ Cardinality({f \in S : f < e}) < Cardinality(S)
         /\ \A g \in S : e < g => Cardinality({f \in S : f < e}) < Cardinality({f \in S : f < g})
<1> DEFINE Below(x) == {f \in S : f < x}
<1>1. \A x \in S : IsFiniteSet(Below(x)) /\ Cardinality(Below(x)) \in Nat
  BY FS_Subset, FS_CardinalityType
<1>2. ASSUME NEW T \in SUBSET S, Below(e) \cup {e} \subseteq T
      PROVE  Cardinality(Below(e)) < Cardinality(T)
  <2>1. e \notin Below(e)
    OBVIOUS
  <2> HIDE DEF Below
  <2>2. Cardinality(Below(e) \cup {e}) = Cardinality(Below(e)) + 1
    BY <1>1, <2>1, FS_AddElement
  <2>3. IsFiniteSet(T) /\ Cardinality(T) \in Nat
    BY FS_Subset, FS_CardinalityType
  <2>4. Cardinality(Below(e) \cup {e}) <= Cardinality(T)
    BY <1>2, <2>3, FS_Subset
  <2> QED
    BY <1>1, <2>2, <2>3, <2>4
<1>3. Below(e) \cup {e} \subseteq S
  OBVIOUS
<1>4. Cardinality(Below(e)) < Cardinality(S)
  BY <1>2, <1>3
<1>5. ASSUME NEW g \in S, e < g PROVE Below(e) \cup {e} \subseteq Below(g) /\ Below(g) \subseteq S
  <2>1. \A f \in S : f < e => f < g
    BY <1>5
  <2> QED
    BY <1>5, <2>1
<1>6. \A g \in S : e < g => Cardinality(Below(e)) < Cardinality(Below(g))
  BY <1>2, <1>5
<1> QED
  BY <1>1, <1>4, <1>6

LEMMA FirstOfSize ==
  ASSUME NEW S \in SUBSET Int, IsFiniteSet(S), NEW k \in Nat
  PROVE  /\ Cardinality(FirstOf(S, k)) \in Nat /\ Cardinality(FirstOf(S, k)) <= k
         /\ Cardinality(S \ FirstOf(S, k)) \in Nat
         /\ k <= Cardinality(S) => Cardinality(S \ FirstOf(S, k)) <= Cardinality(S) - k
<1> DEFINE first == FirstOf(S, k)
           rank == [e \in S |-> Cardinality({f \in S : f < e})]
           n == Cardinality(S)
<1>1. n \in Nat
  BY FS_CardinalityType
<1>2. /\ first \subseteq S /\ IsFiniteSet(first) /\ IsFiniteSet(S \ first)
      /\ Cardinality(first) \in Nat /\ Cardinality(S \ first) \in Nat
  BY FS_Subset, FS_CardinalityType DEF FirstOf
<1>3. \A e \in S : rank[e] \in Nat /\ rank[e] < n /\ (e \in first <=> rank[e] < k)
  BY RankGrows DEF FirstOf
<1>4. \A e, g \in S : e # g => rank[e] # rank[g]
  <2> SUFFICES ASSUME NEW e \in S, NEW g \in S, e < g PROVE rank[e] # rank[g]
    OBVIOUS
  <2> QED
    BY <1>3, RankGrows
<1> HIDE DEF first, rank, n
<1>5. ASSUME NEW T \in SUBSET S, NEW a \in Nat, NEW b \in Nat, a <= b,
             \A e \in T : rank[e] \in a..(b - 1)
      PROVE  Cardinality(T) <= b - a
  <2> DEFINE index == [e \in T |-> rank[e]]
  <2>1. index \in Injection(T, a..(b - 1))
    BY <1>4, <1>5 DEF Injection, IsInjective
  <2>2. IsFiniteSet(a..(b - 1)) /\ Cardinality(a..(b - 1)) = b - a
    BY <1>5, FS_Interval
  <2> QED
    BY <2>1, <2>2, FS_Injection
<1>6. Cardinality(first) <= k - 0
  <2>1. \A e \in first : rank[e] \in 0..(k - 1)
    BY <1>2, <1>3
  <2> QED
    BY <1>2, <1>5, <2>1
<1>7. ASSUME k <= n PROVE Cardinality(S \ first) <= n - k
  <2>1. \A e \in S \ first : rank[e] \in k..(n - 1)
    BY <1>1, <1>3
  <2> QED
    BY <1>1, <1>2, <1>5, <1>7, <2>1
<1> QED
  BY <1>2, <1>6, <1>7 DEF first, n

-----------------------------------------------------------------------------
(* The groups of a batch *)

\* The groups of q are the rows of U, each in one group.
Partition(q, U) == /\ \A i \in DOMAIN q : q[i].rows \subseteq U
                   /\ \A e \in U : \E i \in DOMAIN q : e \in q[i].rows
                   /\ \A i, j \in DOMAIN q : i # j => q[i].rows \cap q[j].rows = {}

LEMMA TailIndex ==
  ASSUME NEW T, NEW q \in Seq(T), q # <<>>
  PROVE  /\ Len(Tail(q)) = Len(q) - 1 /\ Len(q) \in Nat \ {0}
         /\ \A i \in 1..(Len(q) - 1) : Tail(q)[i] = q[i + 1]
  OBVIOUS

LEMMA TailPartition ==
  ASSUME NEW q \in Seq(GroupRecord), q # <<>>, NEW U, Partition(q, U)
  PROVE  Partition(Tail(q), U \ Head(q).rows)
<1> DEFINE n == Len(q)
           t == Tail(q)
<1>1. /\ n \in Nat \ {0} /\ DOMAIN q = 1..n /\ DOMAIN t = 1..(n - 1) /\ Head(q) = q[1]
      /\ \A i \in 1..(n - 1) : t[i] = q[i + 1]
  BY TailIndex
<1> HIDE DEF n, t
<1>2. ASSUME NEW i \in 1..(n - 1)
      PROVE  /\ t[i].rows \subseteq U \ q[1].rows
             /\ \A j \in 1..(n - 1) : i # j => t[i].rows \cap t[j].rows = {}
  <2>1. i + 1 \in 1..n /\ 1 \in 1..n /\ i + 1 # 1 /\ t[i] = q[i + 1]
    BY <1>1
  <2>2. \A j \in 1..(n - 1) : i # j => j + 1 \in 1..n /\ i + 1 # j + 1 /\ t[j] = q[j + 1]
    BY <1>1
  <2> QED
    BY <1>1, <2>1, <2>2 DEF Partition
<1>3. ASSUME NEW e \in U \ q[1].rows PROVE \E i \in 1..(n - 1) : e \in t[i].rows
  <2>1. PICK j \in 1..n : e \in q[j].rows
    BY <1>1 DEF Partition
  <2>2. j - 1 \in 1..(n - 1) /\ t[j - 1] = q[(j - 1) + 1] /\ (j - 1) + 1 = j
    BY <1>1, <1>3, <2>1
  <2> QED
    BY <2>1, <2>2
<1> QED
  BY <1>1, <1>2, <1>3 DEF Partition, t

\* The groups after a refused first one was split.
LEMMA PairIndex ==
  ASSUME NEW q \in Seq(GroupRecord), q # <<>>, NEW g \in GroupRecord, NEW h \in GroupRecord,
         NEW s, s = <<g, h>> \o Tail(q)
  PROVE  /\ s \in Seq(GroupRecord) /\ Len(s) = Len(q) + 1 /\ Len(q) \in Nat \ {0}
         /\ s[1] = g /\ s[2] = h
         /\ \A i \in 3..(Len(q) + 1) : s[i] = q[i - 1]
<1> DEFINE pair == <<g, h>>
           t == Tail(q)
           n == Len(q)
<1>1. pair \in Seq(GroupRecord) /\ Len(pair) = 2 /\ pair[1] = g /\ pair[2] = h
  OBVIOUS
<1>2. /\ t \in Seq(GroupRecord) /\ Len(t) = n - 1 /\ n \in Nat \ {0}
      /\ \A i \in 1..(n - 1) : t[i] = q[i + 1]
  BY TailIndex
<1>3. s = pair \o t
  OBVIOUS
<1> HIDE DEF pair, t, n
<1>4. /\ s \in Seq(GroupRecord) /\ Len(s) = Len(pair) + Len(t)
      /\ \A i \in 1..Len(pair) + Len(t) : s[i] = IF i <= Len(pair) THEN pair[i] ELSE t[i - Len(pair)]
  <2>1. /\ pair \o t \in Seq(GroupRecord) /\ Len(pair \o t) = Len(pair) + Len(t)
        /\ \A i \in 1..Len(pair) + Len(t) :
             (pair \o t)[i] = IF i <= Len(pair) THEN pair[i] ELSE t[i - Len(pair)]
    BY <1>1, <1>2, ConcatProperties, Zenon
  <2> QED
    BY <1>3, <2>1
<1>5. Len(s) = n + 1 /\ \A i \in 1..(n + 1) : s[i] = IF i <= 2 THEN pair[i] ELSE t[i - 2]
  BY <1>1, <1>2, <1>4
<1>6. 1 \in 1..(n + 1) /\ 2 \in 1..(n + 1)
  BY <1>2
<1>7. ASSUME NEW i \in 3..(n + 1) PROVE s[i] = q[i - 1]
  <2>1. i \in 1..(n + 1) /\ ~(i <= 2) /\ i - 2 \in 1..(n - 1) /\ (i - 2) + 1 = i - 1
    BY <1>2
  <2> QED
    BY <1>2, <1>5, <2>1
<1> QED
  BY <1>1, <1>2, <1>4, <1>5, <1>6, <1>7 DEF n

LEMMA PairPartition ==
  ASSUME NEW q \in Seq(GroupRecord), q # <<>>, NEW U, Partition(q, U),
         NEW g \in GroupRecord, NEW h \in GroupRecord,
         Head(q).rows = g.rows \cup h.rows, g.rows \cap h.rows = {},
         NEW s, s = <<g, h>> \o Tail(q)
  PROVE  Partition(s, U)
<1> DEFINE n == Len(q)
<1>1. /\ s \in Seq(GroupRecord) /\ Len(s) = n + 1 /\ n \in Nat \ {0}
      /\ s[1] = g /\ s[2] = h /\ \A i \in 3..(n + 1) : s[i] = q[i - 1]
  BY PairIndex
<1>2. DOMAIN s = 1..(n + 1) /\ DOMAIN q = 1..n /\ Head(q) = q[1] /\ 1 \in 1..n
  BY <1>1
<1> HIDE DEF n
<1>3. \A i \in 1..(n + 1) : i = 1 \/ i = 2 \/ (i \in 3..(n + 1) /\ i - 1 \in 1..n /\ i - 1 # 1)
  BY <1>1
<1>4. \A i \in 1..(n + 1) : s[i].rows \subseteq U
  BY <1>1, <1>2, <1>3 DEF Partition
<1>5. ASSUME NEW e \in U PROVE \E i \in 1..(n + 1) : e \in s[i].rows
  <2>1. PICK j \in 1..n : e \in q[j].rows
    BY <1>2 DEF Partition
  <2>2. CASE j = 1
    <3>1. 1 \in 1..(n + 1) /\ 2 \in 1..(n + 1) /\ (e \in s[1].rows \/ e \in s[2].rows)
      BY <1>1, <1>2, <2>1, <2>2
    <3> QED
      BY <3>1
  <2>3. CASE j # 1
    <3>1. j + 1 \in 3..(n + 1) /\ j + 1 \in 1..(n + 1) /\ (j + 1) - 1 = j
      BY <1>1, <2>3
    <3> QED
      BY <1>1, <2>1, <3>1
  <2> QED
    BY <2>2, <2>3
<1>6. ASSUME NEW i \in 1..(n + 1), NEW j \in 1..(n + 1), i < j
      PROVE  s[i].rows \cap s[j].rows = {}
  <2>1. CASE i = 1 /\ j = 2
    BY <1>1, <2>1
  <2>2. CASE i \in {1, 2} /\ j \in 3..(n + 1)
    <3>1. j - 1 \in 1..n /\ j - 1 # 1 /\ s[j] = q[j - 1]
      BY <1>1, <1>3, <2>2
    <3>2. s[i].rows \subseteq q[1].rows
      BY <1>1, <1>2, <2>2
    <3> QED
      BY <1>2, <3>1, <3>2 DEF Partition
  <2>3. CASE i \in 3..(n + 1) /\ j \in 3..(n + 1)
    <3>1. /\ j - 1 \in 1..n /\ i - 1 \in 1..n /\ j - 1 # i - 1
          /\ s[j] = q[j - 1] /\ s[i] = q[i - 1]
      BY <1>1, <1>3, <1>6, <2>3
    <3>2. q[i - 1].rows \cap q[j - 1].rows = {}
      BY <1>2, <3>1 DEF Partition
    <3> QED
      BY <3>1, <3>2
  <2> QED
    <3>1. j \in 1..(n + 1) /\ (i \in {1, 2} \/ i \in 3..(n + 1)) /\ (j \in {1, 2} \/ j \in 3..(n + 1))
      BY <1>3
    <3>2. j \in {1, 2} => i = 1 /\ j = 2
      BY <1>1, <1>6
    <3> QED
      BY <2>1, <2>2, <2>3, <3>1, <3>2
<1>7. \A i, j \in 1..(n + 1) : i # j => s[i].rows \cap s[j].rows = {}
  <2> SUFFICES ASSUME NEW i \in 1..(n + 1), NEW j \in 1..(n + 1), i # j
               PROVE  s[i].rows \cap s[j].rows = {}
    OBVIOUS
  <2>1. i < j \/ j < i
    OBVIOUS
  <2> QED
    BY <1>6, <2>1
<1> QED
  BY <1>2, <1>4, <1>5, <1>7 DEF Partition

-----------------------------------------------------------------------------
(* What a pass does with the rows of its batch *)

\* The rows a dispatcher still has to settle.
Work(r) == r.unsettled \cup r.settling

Parts(r) == Partition(r.pending, r.unsettled) /\ r.unsettled \cap r.settling = {}

\* Between two steps the groups are the rows not taken for settlement, a pass
\* without a batch has none, and a stopped dispatcher runs no pass.
Whole(r) ==
  /\ Parts(r)
  /\ r.pass \in {"none", "claim", "yield"} => r.pending = <<>> /\ r.settling = {}
  /\ r.pass = "publish" => r.settling = {}
  /\ r.pass = "release" => r.pending = <<>>
  /\ r.life = "stopped" => r.pass = "none"

\* Dispatcher r goes on as s with the same rows, under the same lease.
Keeps(s, r) == Work(s) = Work(r) /\ (Work(r) # {} => s.lease = r.lease)

LEMMA NothingLeft ==
  ASSUME NEW r, Parts(r), r.pending = <<>>
  PROVE  r.unsettled = {}
  BY DEF Parts, Partition

LEMMA NoBatch ==
  ASSUME NEW r, r.pending = <<>>, r.unsettled = {}, r.settling = {},
         r.life = "stopped" => r.pass = "none"
  PROVE  Whole(r) /\ Work(r) = {}
  BY DEF Whole, Parts, Partition, Work

LEMMA FreshWhole == Whole(Fresh) /\ Work(Fresh) = {} /\ Fresh.lease = NoLease
  BY NoBatch DEF Fresh

LEMMA EndPassWhole ==
  ASSUME NEW r \in Dispatcher
  PROVE  Whole(EndPass(r)) /\ Work(EndPass(r)) = {}
<1> DEFINE ended == [Fresh EXCEPT !.life = r.life, !.asked = r.asked]
<1>1. /\ ended.pending = <<>> /\ ended.unsettled = {} /\ ended.settling = {}
      /\ ended.pass = "none" /\ ended.life = r.life /\ ended \in Dispatcher
  <2>1. Fresh \in Dispatcher
    BY FreshSound DEF Sound
  <2> QED
    BY <2>1 DEF Fresh, Dispatcher
<1>2. CASE r.again /\ ~StopRequested(r)
  <2>1. EndPass(r) = [ended EXCEPT !.pass = "claim", !.claims = 1]
    BY <1>2 DEF EndPass, StartPass
  <2>2. r.life # "stopped"
    BY <1>2 DEF StopRequested
  <2> HIDE DEF ended
  <2> QED
    BY <1>1, <2>1, <2>2, NoBatch DEF Dispatcher
<1>3. CASE ~(r.again /\ ~StopRequested(r))
  <2>1. EndPass(r) = ended
    BY <1>3 DEF EndPass
  <2> HIDE DEF ended
  <2> QED
    BY <1>1, <2>1, NoBatch
<1> QED
  BY <1>2, <1>3

LEMMA AfterBatchWhole ==
  ASSUME NEW r \in Dispatcher
  PROVE  Whole(AfterBatch(r)) /\ Work(AfterBatch(r)) = {}
<1>1. CASE StopRequested(r) \/ ~r.progress \/ ~r.full
  BY <1>1, EndPassWhole DEF AfterBatch
<1>2. CASE ~(StopRequested(r) \/ ~r.progress \/ ~r.full)
  <2> DEFINE s == [Fresh EXCEPT !.life = r.life, !.again = r.again, !.asked = r.asked,
                                !.claims = r.claims, !.pass = "yield"]
  <2>1. AfterBatch(r) = s
    BY <1>2 DEF AfterBatch
  <2>2. s.pending = <<>> /\ s.unsettled = {} /\ s.settling = {} /\ s.life # "stopped"
    BY <1>2 DEF Fresh, StopRequested
  <2> HIDE DEF s
  <2> QED
    BY <2>1, <2>2, NoBatch
<1> QED
  BY <1>1, <1>2

LEMMA FinallyWhole ==
  ASSUME NEW r \in Dispatcher, r.life # "stopped", r.settling = {}, NEW thrown \in BOOLEAN
  PROVE  /\ Whole(Finally(r, thrown))
         /\ StopRequested(r) \/ r.unsettled = {} => Keeps(Finally(r, thrown), r)
<1>1. CASE StopRequested(r) /\ r.unsettled # {}
  <2> DEFINE s == [r EXCEPT !.pass = "release", !.settling = r.unsettled,
                            !.unsettled = {}, !.pending = <<>>]
  <2>1. Finally(r, thrown) = s
    BY <1>1 DEF Finally
  <2>2. /\ s.pass = "release" /\ s.settling = r.unsettled /\ s.unsettled = {}
        /\ s.pending = <<>> /\ s.lease = r.lease /\ s.life = r.life
    BY DEF Dispatcher
  <2> HIDE DEF s
  <2> QED
    BY <2>1, <2>2 DEF Whole, Parts, Partition, Keeps, Work
<1>2. CASE ~(StopRequested(r) /\ r.unsettled # {})
  <2>1. Whole(Finally(r, thrown)) /\ Work(Finally(r, thrown)) = {}
    BY <1>2, EndPassWhole, AfterBatchWhole DEF Finally
  <2> QED
    BY <1>2, <2>1 DEF Keeps, Work
<1> QED
  BY <1>1, <1>2

LEMMA HeadRows ==
  ASSUME NEW r \in Dispatcher, Parts(r), r.pending # <<>>
  PROVE  /\ r.pending \in Seq(GroupRecord) /\ Head(r.pending) \in GroupRecord
         /\ Tail(r.pending) \in Seq(GroupRecord)
         /\ Head(r.pending).rows \subseteq r.unsettled
<1>1. r.pending \in Seq(GroupRecord)
  BY DEF Dispatcher, GroupRecord
<1>2. /\ 1 \in DOMAIN r.pending /\ Head(r.pending) = r.pending[1]
      /\ Head(r.pending) \in GroupRecord /\ Tail(r.pending) \in Seq(GroupRecord)
  BY <1>1, HeadAndTail
<1> QED
  BY <1>1, <1>2 DEF Parts, Partition

LEMMA SettleHeadWhole ==
  ASSUME NEW r \in Dispatcher, Parts(r), r.settling = {}, r.pending # <<>>,
         r.life # "stopped", NEW pass \in {"mark", "reschedule"}
  PROVE  Whole(SettleHead(r, pass)) /\ Keeps(SettleHead(r, pass), r)
<1> DEFINE S == Head(r.pending).rows
           rest == Tail(r.pending)
           s == [r EXCEPT !.pass = pass, !.settling = S, !.unsettled = r.unsettled \ S,
                          !.pending = rest]
<1>1. SettleHead(r, pass) = s
  BY DEF SettleHead
<1>2. S \subseteq r.unsettled
  BY HeadRows
<1>3. Partition(rest, r.unsettled \ S)
  BY HeadRows, TailPartition DEF Parts
<1> HIDE DEF S, rest
<1>4. /\ s.pass = pass /\ s.settling = S /\ s.unsettled = r.unsettled \ S
      /\ s.pending = rest /\ s.lease = r.lease /\ s.life = r.life
  BY DEF Dispatcher
<1> HIDE DEF s
<1> QED
  BY <1>1, <1>2, <1>3, <1>4 DEF Whole, Parts, Keeps, Work

LEMMA NextGroupWhole ==
  ASSUME NEW r \in Dispatcher, Parts(r), r.settling = {}, r.life # "stopped"
  PROVE  Whole(NextGroup(r)) /\ Keeps(NextGroup(r), r)
<1>1. CASE r.pending = <<>> \/ StopRequested(r)
  <2>1. StopRequested(r) \/ r.unsettled = {}
    BY <1>1, NothingLeft
  <2> QED
    BY <1>1, <2>1, FinallyWhole DEF NextGroup
<1>2. CASE ~(r.pending = <<>> \/ StopRequested(r))
  <2>1. CASE r.calls >= MaxIsolation /\ Head(r.pending).failed
    BY <1>2, <2>1, SettleHeadWhole DEF NextGroup
  <2>2. CASE ~(r.calls >= MaxIsolation /\ Head(r.pending).failed)
    <3> DEFINE s == [r EXCEPT !.pass = "publish", !.calls = r.calls + 1]
    <3>1. NextGroup(r) = s
      BY <1>2, <2>2 DEF NextGroup
    <3>2. /\ s.pass = "publish" /\ s.settling = {} /\ s.unsettled = r.unsettled
          /\ s.pending = r.pending /\ s.lease = r.lease /\ s.life = r.life
      BY DEF Dispatcher
    <3> HIDE DEF s
    <3> QED
      BY <3>1, <3>2 DEF Whole, Parts, Keeps, Work
  <2> QED
    BY <2>1, <2>2
<1> QED
  BY <1>1, <1>2

\* The groups after the first one was refused and split.
Halves(q) ==
  LET S == Head(q).rows
  IN  <<Group(S \ FirstHalf(S), TRUE), Group(FirstHalf(S), TRUE)>> \o Tail(q)

LEMMA HalvesOf ==
  ASSUME NEW r \in Dispatcher, Parts(r), r.pending # <<>>
  PROVE  /\ Halves(r.pending) \in Seq(GroupRecord)
         /\ Partition(Halves(r.pending), r.unsettled)
<1> DEFINE S == Head(r.pending).rows
           later == Group(S \ FirstHalf(S), TRUE)
           first == Group(FirstHalf(S), TRUE)
<1>1. /\ r.pending \in Seq(GroupRecord) /\ S \subseteq Event /\ FirstHalf(S) \subseteq S
      /\ S \ FirstHalf(S) \in SUBSET Event /\ FirstHalf(S) \in SUBSET Event
      /\ Tail(r.pending) \in Seq(GroupRecord)
  BY HeadRows DEF GroupRecord, FirstHalf
<1>2. /\ later = [rows |-> S \ FirstHalf(S), failed |-> TRUE]
      /\ first = [rows |-> FirstHalf(S), failed |-> TRUE]
  BY DEF Group
<1> HIDE DEF later, first
<1>3. /\ later \in GroupRecord /\ later.rows = S \ FirstHalf(S)
      /\ first \in GroupRecord /\ first.rows = FirstHalf(S)
  BY <1>1, <1>2 DEF GroupRecord
<1>4. Halves(r.pending) = <<later, first>> \o Tail(r.pending)
  BY DEF Halves, later, first
<1>5. Halves(r.pending) \in Seq(GroupRecord)
  BY <1>1, <1>3, <1>4, PairBefore
<1>6. S = later.rows \cup first.rows /\ later.rows \cap first.rows = {}
  BY <1>1, <1>3
<1>7. Partition(Halves(r.pending), r.unsettled)
  BY <1>1, <1>3, <1>4, <1>6, PairPartition DEF Parts
<1> QED
  BY <1>5, <1>7

LEMMA RefusedWhole ==
  ASSUME NEW r \in Dispatcher, Whole(r), r.pass = "publish", r.pending # <<>>
  PROVE  Whole(Refused(r)) /\ Keeps(Refused(r), r)
<1> DEFINE S == Head(r.pending).rows
           split == [r EXCEPT !.pending = Halves(r.pending)]
<1>1. Parts(r) /\ r.settling = {} /\ r.life # "stopped"
  BY DEF Whole
<1>2. CASE Cardinality(S) > 1 /\ r.calls < MaxIsolation
  <2>1. Refused(r) = NextGroup(split)
    BY <1>2 DEF Refused, Halves
  <2>2. /\ split \in Dispatcher /\ split.pending = Halves(r.pending)
        /\ split.unsettled = r.unsettled /\ split.settling = r.settling
        /\ split.lease = r.lease /\ split.life = r.life
        /\ Partition(Halves(r.pending), r.unsettled)
    BY <1>1, HalvesOf DEF Dispatcher, GroupRecord
  <2> HIDE DEF split
  <2>3. Whole(NextGroup(split)) /\ Keeps(NextGroup(split), split)
    BY <1>1, <2>2, NextGroupWhole DEF Parts
  <2> QED
    BY <2>1, <2>2, <2>3 DEF Keeps, Work
<1>3. CASE ~(Cardinality(S) > 1 /\ r.calls < MaxIsolation)
  BY <1>1, <1>3, SettleHeadWhole DEF Refused
<1> QED
  BY <1>2, <1>3

-----------------------------------------------------------------------------
(* The rows and the dispatchers as long as nothing fails *)

\* What a dispatcher has to settle carries its lease.
Kept == \A p \in Process : \A e \in Work(disp[p]) : rows[e].lease = disp[p].lease

\* A lease runs, and a dispatcher still has to settle its rows.
Held == \A e \in Event : rows[e].lease # NoLease =>
          ~rows[e].expired /\ \E p \in Process : e \in Work(disp[p])

AllWhole == \A p \in Process : Whole(disp[p])

CalmInv == AllWhole /\ (faults = 0 => Kept /\ Held)

\* One row, when dispatcher r goes on as s: untouched, settled or claimed.
RowGoes(e, r, s) ==
  \/ /\ rows'[e].lease = rows[e].lease
     /\ rows'[e].lease # NoLease => rows'[e].expired = rows[e].expired
     /\ e \in Work(s) <=> e \in Work(r)
     /\ e \in Work(s) => s.lease = r.lease
  \/ rows'[e].lease = NoLease /\ e \in Work(r) /\ e \notin Work(s)
  \/ /\ rows[e].lease = NoLease /\ e \in Work(s)
     /\ rows'[e].lease = s.lease /\ ~rows'[e].expired

LEMMA CalmParts ==
  ASSUME OutboxInv, CalmInv, NEW p \in Process
  PROVE  /\ disp[p] \in Dispatcher /\ Whole(disp[p]) /\ RowsOK
         /\ disp \in [Process -> Dispatcher] /\ faults \in Nat
         /\ Work(disp[p]) \subseteq Event
         /\ Work(disp[p]) # {} => disp[p].lease # NoLease
         /\ disp[p].pass \in {"publish", "mark", "reschedule", "release"} => disp[p].life # "stopped"
         /\ disp[p].pass = "publish" => disp[p].pending # <<>>
<1>1. /\ disp[p] \in Dispatcher /\ Sound(disp[p], Known, delivered) /\ Whole(disp[p]) /\ RowsOK
      /\ disp \in [Process -> Dispatcher] /\ faults \in Nat
  BY InvParts DEF DispOK, CalmInv, AllWhole
<1>2. Work(disp[p]) \subseteq Event
  BY <1>1 DEF Work, Dispatcher
<1>3. /\ Work(disp[p]) # {} => disp[p].lease # NoLease
      /\ disp[p].pass = "publish" => disp[p].pending # <<>>
  BY <1>1 DEF Work, Sound, Leases, Groups
<1>4. disp[p].pass \in {"publish", "mark", "reschedule", "release"} => disp[p].life # "stopped"
  BY <1>1 DEF Whole
<1> QED
  BY <1>1, <1>2, <1>3, <1>4

LEMMA CalmStep ==
  ASSUME OutboxInv, CalmInv, OutboxInv', NEW p \in Process, NEW s, Whole(s),
         disp' = [disp EXCEPT ![p] = s],
         faults' = 0 => faults = 0 /\ \A e \in Event : RowGoes(e, disp[p], s)
  PROVE  CalmInv'
<1>1. /\ disp \in [Process -> Dispatcher] /\ OwnLeases
      /\ \A q \in Process : disp'[q] = IF q = p THEN s ELSE disp[q]
  BY InvParts DEF DispOK
<1>2. \A q \in Process : Work(disp[q]) \subseteq Event /\ Work(disp'[q]) \subseteq Event
  BY InvParts DEF DispOK, Work, Dispatcher, OutboxInv, TypeOK
<1>3. AllWhole'
  BY <1>1 DEF AllWhole, CalmInv
<1>4. ASSUME faults' = 0 PROVE Kept' /\ Held'
  <2>1. Kept /\ Held /\ \A e \in Event : RowGoes(e, disp[p], s)
    BY <1>4 DEF CalmInv
  <2>2. \A q \in Process : Work(disp[q]) # {} => disp[q].lease # NoLease
    BY CalmParts
  <2>3. ASSUME NEW q \in Process, NEW e \in Work(disp'[q])
        PROVE  rows'[e].lease = disp'[q].lease
    <3>1. e \in Event /\ RowGoes(e, disp[p], s)
      BY <1>2, <2>1, <2>3
    <3>2. CASE q = p
      <4>1. e \in Work(s) /\ disp'[q] = s
        BY <1>1, <2>3, <3>2
      <4> QED
        BY <2>1, <3>1, <4>1 DEF RowGoes, Kept
    <3>3. CASE q # p
      <4>1. e \in Work(disp[q]) /\ disp'[q] = disp[q]
        BY <1>1, <2>3, <3>3
      <4>2. rows[e].lease = disp[q].lease /\ disp[q].lease # NoLease
        BY <2>1, <2>2, <4>1 DEF Kept
      <4>3. e \notin Work(disp[p])
        BY <1>1, <2>1, <3>3, <4>2 DEF Kept, OwnLeases
      <4> QED
        BY <3>1, <4>1, <4>2, <4>3 DEF RowGoes
    <3> QED
      BY <3>2, <3>3
  <2>4. ASSUME NEW e \in Event, rows'[e].lease # NoLease
        PROVE  ~rows'[e].expired /\ \E q \in Process : e \in Work(disp'[q])
    <3>1. RowGoes(e, disp[p], s) /\ disp'[p] = s
      BY <1>1, <2>1
    <3>2. CASE e \in Work(s) /\ ~rows'[e].expired
      BY <3>1, <3>2
    <3>3. CASE /\ rows'[e].lease = rows[e].lease
               /\ rows'[e].lease # NoLease => rows'[e].expired = rows[e].expired
               /\ e \in Work(s) <=> e \in Work(disp[p])
      <4>1. ~rows'[e].expired
        BY <2>1, <2>4, <3>3 DEF Held
      <4>2. PICK q \in Process : e \in Work(disp[q])
        BY <2>1, <2>4, <3>3 DEF Held
      <4>3. e \in Work(disp'[q])
        BY <1>1, <3>3, <4>2
      <4> QED
        BY <4>1, <4>3
    <3> QED
      BY <2>4, <3>1, <3>2, <3>3 DEF RowGoes
  <2> QED
    BY <2>3, <2>4 DEF Kept, Held
<1> QED
  BY <1>3, <1>4 DEF CalmInv

\* A step that touches no lease and leaves its dispatcher the same rows.
LEMMA CalmKeeps ==
  ASSUME OutboxInv, CalmInv, OutboxInv', NEW p \in Process, NEW s, Whole(s),
         disp' = [disp EXCEPT ![p] = s], Keeps(s, disp[p]),
         \A e \in Event : rows'[e].lease = rows[e].lease /\ rows'[e].expired = rows[e].expired,
         faults' = 0 => faults = 0
  PROVE  CalmInv'
<1>1. \A e \in Event : RowGoes(e, disp[p], s)
  BY DEF RowGoes, Keeps
<1> QED
  BY <1>1, CalmStep

\* A step of the rows alone.
LEMMA CalmRows ==
  ASSUME CalmInv, UNCHANGED disp, faults' = 0 => faults = 0,
         \/ faults' # 0
         \/ \A e \in Event :
              \/ rows'[e].lease = rows[e].lease /\ rows'[e].expired = rows[e].expired
              \/ rows'[e].lease = NoLease /\ rows[e].lease = NoLease,
         \A p \in Process : Work(disp[p]) \subseteq Event
  PROVE  CalmInv'
<1>1. AllWhole'
  BY DEF CalmInv, AllWhole
<1>2. ASSUME faults' = 0 PROVE Kept' /\ Held'
  <2>1. Kept /\ Held
    BY <1>2 DEF CalmInv
  <2>2. \A e \in Event : rows'[e].lease = rows[e].lease
    BY <1>2
  <2>3. \A e \in Event : rows'[e].lease # NoLease => rows'[e].expired = rows[e].expired
    BY <1>2
  <2>4. Kept'
    BY <2>1, <2>2 DEF Kept
  <2>5. Held'
    BY <2>1, <2>2, <2>3 DEF Held
  <2> QED
    BY <2>4, <2>5
<1> QED
  BY <1>1, <1>2 DEF CalmInv

LEMMA DrainWhole ==
  ASSUME NEW r \in Dispatcher, Whole(r), r.life # "stopped"
  PROVE  Whole(Drain(r)) /\ Keeps(Drain(r), r) /\ Drain(r) \in Dispatcher
<1>1. Parts(r)
  BY DEF Whole
<1>2. CASE r.pass = "none"
  <2> DEFINE s == [r EXCEPT !.pass = "claim", !.claims = 1, !.asked = TRUE]
  <2>1. Drain(r) = s
    BY <1>2 DEF Drain, StartPass, Dispatcher
  <2>2. /\ s.pass = "claim" /\ s.pending = r.pending /\ s.unsettled = r.unsettled
        /\ s.settling = r.settling /\ s.lease = r.lease /\ s.life = r.life
    BY DEF Dispatcher
  <2>3. 1 \in 0..MaxClaims
    OBVIOUS
  <2>4. s \in Dispatcher
    BY <2>3 DEF Dispatcher
  <2> HIDE DEF s
  <2> QED
    BY <1>1, <1>2, <2>1, <2>2, <2>4 DEF Whole, Parts, Keeps, Work
<1>3. CASE r.pass # "none"
  <2> DEFINE s == [r EXCEPT !.again = TRUE, !.asked = TRUE]
  <2>1. Drain(r) = s
    BY <1>3 DEF Drain
  <2>2. /\ s.pass = r.pass /\ s.pending = r.pending /\ s.unsettled = r.unsettled
        /\ s.settling = r.settling /\ s.lease = r.lease /\ s.life = r.life /\ s \in Dispatcher
    BY DEF Dispatcher
  <2> HIDE DEF s
  <2> QED
    BY <1>1, <2>1, <2>2 DEF Whole, Parts, Keeps, Work
<1> QED
  BY <1>2, <1>3

\* A pass that holds no batch has nothing to settle.
LEMMA NoWork ==
  ASSUME NEW r, Whole(r), r.pass \in {"none", "claim", "yield"}
  PROVE  Work(r) = {}
  BY NothingLeft DEF Whole, Work

-----------------------------------------------------------------------------
(* The steps *)

LEMMA LifeCalm ==
  ASSUME OutboxInv, CalmInv, OutboxInv', NEW p \in Process,
         Maintain(p) \/ Stop(p) \/ GraceEnds(p) \/ Stopped(p) \/ Restart(p)
  PROVE  CalmInv'
<1> DEFINE r == disp[p]
<1>1. /\ r \in Dispatcher /\ Whole(r) /\ disp \in [Process -> Dispatcher]
      /\ UNCHANGED <<rows, faults>>
  BY CalmParts DEF Maintain, Stop, GraceEnds, Stopped, Restart
<1>2. ASSUME NEW s, disp' = [disp EXCEPT ![p] = s], Whole(s), Keeps(s, r)
      PROVE  CalmInv'
  BY <1>1, <1>2, CalmKeeps
<1>3. CASE Maintain(p)
  BY <1>1, <1>2, <1>3, DrainWhole DEF Maintain
<1>4. CASE Stop(p)
  <2> DEFINE s == [Drain(r) EXCEPT !.life = "closing"]
  <2>1. disp' = [disp EXCEPT ![p] = s] /\ r.life # "stopped"
    BY <1>4 DEF Stop
  <2>2. Drain(r) \in Dispatcher /\ Whole(Drain(r)) /\ Keeps(Drain(r), r)
    BY <1>1, <2>1, DrainWhole
  <2>3. Whole(s) /\ Keeps(s, r)
    BY <2>2 DEF Dispatcher, Whole, Parts, Keeps, Work
  <2> QED
    BY <1>2, <2>1, <2>3
<1>5. CASE GraceEnds(p)
  <2> DEFINE s == [r EXCEPT !.life = "forced", !.asked = FALSE]
  <2>1. disp' = [disp EXCEPT ![p] = s]
    BY <1>1, <1>5 DEF GraceEnds
  <2>2. Whole(s) /\ Keeps(s, r)
    BY <1>1 DEF Dispatcher, Whole, Parts, Keeps, Work
  <2> QED
    BY <1>2, <2>1, <2>2
<1>6. CASE Stopped(p)
  <2> DEFINE s == [r EXCEPT !.life = "stopped"]
  <2>1. disp' = [disp EXCEPT ![p] = s] /\ r.pass = "none"
    BY <1>1, <1>6 DEF Stopped
  <2>2. Whole(s) /\ Keeps(s, r)
    BY <1>1, <2>1 DEF Dispatcher, Whole, Parts, Keeps, Work
  <2> QED
    BY <1>2, <2>1, <2>2
<1>7. CASE Restart(p)
  <2>1. Work(r) = {}
    BY <1>1, <1>7, NoWork DEF Restart, Whole
  <2>2. Whole(Fresh) /\ Keeps(Fresh, r)
    BY <2>1, FreshWhole DEF Keeps
  <2> QED
    BY <1>2, <1>7, <2>2 DEF Restart
<1> QED
  BY <1>3, <1>4, <1>5, <1>6, <1>7

LEMMA CommitCalm ==
  ASSUME OutboxInv, CalmInv, OutboxInv', NEW p \in Process, NEW e \in Event, Commit(p, e)
  PROVE  CalmInv'
<1> DEFINE s == IF disp[p].life = "up" THEN Drain(disp[p]) ELSE disp[p]
<1>1. /\ disp[p] \in Dispatcher /\ Whole(disp[p]) /\ RowsOK
      /\ disp' = [disp EXCEPT ![p] = s] /\ faults' = faults
  BY CalmParts DEF Commit
<1>2. Whole(s) /\ Keeps(s, disp[p])
  BY <1>1, DrainWhole DEF Keeps
<1> HIDE DEF s
<1>3. ASSUME faults = 0, NEW f \in Event PROVE RowGoes(f, disp[p], s)
  <2>1. rows[e].lease = NoLease
    BY <1>1 DEF Commit, RowsOK, LeasedArePending
  <2>2. e \notin Work(disp[p])
    BY <1>3, <2>1, CalmParts DEF CalmInv, Kept
  <2>3. CASE f # e
    BY <1>1, <1>2, <2>3 DEF Commit, RowsOK, RowGoes, Keeps
  <2>4. CASE f = e
    <3>1. rows'[e].lease = NoLease
      BY <1>1 DEF Commit, RowsOK, AbsentRow
    <3> QED
      BY <1>2, <2>1, <2>2, <2>4, <3>1 DEF RowGoes, Keeps
  <2> QED
    BY <2>3, <2>4
<1> QED
  BY <1>1, <1>2, <1>3, CalmStep

LEMMA ClaimCalm ==
  ASSUME OutboxInv, CalmInv, OutboxInv', NEW p \in Process, Claim(p)
  PROVE  CalmInv'
<1> DEFINE r == disp[p]
<1>1. /\ r \in Dispatcher /\ Whole(r) /\ Work(r) = {} /\ RowsOK /\ faults' = faults
      /\ r.life # "stopped" /\ r.settling = {}
  BY CalmParts, NoWork DEF Claim, Whole
<1>2. CASE Batch = {}
  <2> DEFINE s == [r EXCEPT !.asked = FALSE]
  <2>1. disp' = [disp EXCEPT ![p] = EndPass(s)] /\ UNCHANGED rows
    BY <1>2 DEF Claim
  <2>2. s \in Dispatcher
    BY <1>1 DEF Dispatcher
  <2>3. Whole(EndPass(s)) /\ Keeps(EndPass(s), r)
    BY <1>1, <2>2, EndPassWhole DEF Keeps
  <2> QED
    BY <1>1, <2>1, <2>3, CalmKeeps
<1>3. CASE Batch # {}
  <2> DEFINE full == Cardinality(Batch) = BatchSize
             first == Group(Batch, FALSE)
             s == [r EXCEPT !.asked = FALSE, !.lease = NewLease, !.unsettled = Batch,
                            !.full = full, !.pending = <<first>>]
  <2>1. /\ FreeLeases # {} /\ rows' = Leased(Batch, NewLease)
        /\ disp' = [disp EXCEPT ![p] = NextGroup(s)]
    BY <1>3 DEF Claim
  <2>2. NewLease \in LeaseId /\ NewLease # NoLease
    BY <2>1, NewLeaseIsFree
  <2>3. Batch \in SUBSET Event /\ full \in BOOLEAN /\ first = [rows |-> Batch, failed |-> FALSE]
    BY DEF Batch, Group
  <2> HIDE DEF full, first
  <2>4. /\ <<first>> \in Seq([rows: SUBSET Event, failed: BOOLEAN])
        /\ Partition(<<first>>, Batch)
    BY <2>3 DEF Partition
  <2>5. /\ s \in Dispatcher /\ s.lease = NewLease /\ s.unsettled = Batch /\ s.settling = {}
        /\ s.pending = <<first>> /\ s.life = r.life
    BY <1>1, <2>2, <2>3, <2>4 DEF Dispatcher
  <2> HIDE DEF s
  <2>6. Whole(NextGroup(s)) /\ Keeps(NextGroup(s), s)
    BY <1>1, <2>4, <2>5, NextGroupWhole DEF Parts
  <2>7. Work(NextGroup(s)) = Batch /\ NextGroup(s).lease = NewLease
    BY <1>3, <2>5, <2>6 DEF Keeps, Work
  <2>8. ASSUME faults = 0, NEW e \in Event PROVE RowGoes(e, r, NextGroup(s))
    <3>1. CASE e \in Batch
      <4>1. rows[e].lease = NoLease
        BY <2>8, <3>1 DEF Batch, Claimable, CalmInv, Held
      <4>2. rows'[e].lease = NewLease /\ rows'[e].expired = FALSE
        BY <1>1, <2>1, <3>1 DEF Leased, RowsOK, RowRecord
      <4> QED
        BY <2>7, <3>1, <4>1, <4>2 DEF RowGoes
    <3>2. CASE e \notin Batch
      <4>1. rows'[e] = rows[e]
        BY <2>1, <3>2 DEF Leased
      <4> QED
        BY <1>1, <2>7, <3>2, <4>1 DEF RowGoes
    <3> QED
      BY <3>1, <3>2
  <2> QED
    BY <1>1, <2>1, <2>6, <2>8, CalmStep
<1> QED
  BY <1>2, <1>3

LEMMA PublishCalm ==
  ASSUME OutboxInv, CalmInv, OutboxInv', NEW p \in Process,
         PublishSucceeds(p) \/ PublishFails(p) \/ PublishAbandoned(p)
  PROVE  CalmInv'
<1> DEFINE r == disp[p]
<1>1. /\ r \in Dispatcher /\ Whole(r) /\ r.pass = "publish" /\ r.pending # <<>>
      /\ Parts(r) /\ r.settling = {} /\ r.life # "stopped" /\ rows' = rows
  BY CalmParts DEF PublishSucceeds, PublishFails, PublishAbandoned, Whole
<1>2. faults' = 0 => faults = 0
  <2>1. faults' \in {faults, faults + 1}
    BY DEF PublishSucceeds, PublishFails, PublishAbandoned, Fault
  <2> QED
    BY <2>1, CalmParts
<1>3. ASSUME NEW s, disp' = [disp EXCEPT ![p] = s], Whole(s), Keeps(s, r)
      PROVE  CalmInv'
  BY <1>1, <1>2, <1>3, CalmKeeps
<1>4. CASE PublishSucceeds(p)
  BY <1>1, <1>3, <1>4, SettleHeadWhole DEF PublishSucceeds
<1>5. CASE PublishFails(p)
  BY <1>1, <1>3, <1>5, RefusedWhole DEF PublishFails
<1>6. CASE PublishAbandoned(p)
  BY <1>1, <1>3, <1>6, FinallyWhole DEF PublishAbandoned, StopRequested
<1> QED
  BY <1>4, <1>5, <1>6

\* The error of a settlement ends the batch; it is met only after a failure.
LEMMA UnwindWhole ==
  ASSUME NEW r \in Dispatcher, Whole(r), r.life # "stopped"
  PROVE  Whole(Finally([r EXCEPT !.settling = {}], TRUE))
<1> DEFINE s == [r EXCEPT !.settling = {}]
<1>1. s \in Dispatcher /\ s.settling = {} /\ s.life = r.life
  BY DEF Dispatcher
<1> HIDE DEF s
<1>2. Whole(Finally(s, TRUE))
  BY <1>1, FinallyWhole
<1> QED
  BY <1>2 DEF s

LEMMA MarkCalm ==
  ASSUME OutboxInv, CalmInv, OutboxInv', NEW p \in Process, Mark(p)
  PROVE  CalmInv'
<1> DEFINE r == disp[p]
           s == [r EXCEPT !.settling = {}, !.progress = TRUE]
<1>1. /\ r \in Dispatcher /\ Whole(r) /\ Parts(r) /\ r.life # "stopped" /\ faults' = faults
      /\ Work(r) \subseteq Event
  BY CalmParts DEF Mark, Whole
<1>2. CASE LeaseMatches(p, r.settling)
  <2>1. rows' = MarkedPublished(r.settling) /\ disp' = [disp EXCEPT ![p] = NextGroup(s)]
    BY <1>2 DEF Mark
  <2>2. /\ s \in Dispatcher /\ s.settling = {} /\ s.unsettled = r.unsettled
        /\ s.pending = r.pending /\ s.lease = r.lease /\ s.life = r.life
    BY <1>1 DEF Dispatcher
  <2> HIDE DEF s
  <2>3. Whole(NextGroup(s)) /\ Keeps(NextGroup(s), s)
    BY <1>1, <2>2, NextGroupWhole DEF Parts
  <2>4. ASSUME NEW e \in Event PROVE RowGoes(e, r, NextGroup(s))
    <3>1. CASE e \in r.settling
      <4>1. rows'[e].lease = NoLease
        BY <2>1, <3>1, CalmParts DEF MarkedPublished, Unleased, RowsOK, RowRecord
      <4> QED
        BY <1>1, <2>2, <2>3, <3>1, <4>1 DEF RowGoes, Keeps, Work, Parts
    <3>2. CASE e \notin r.settling
      <4>1. rows'[e] = rows[e]
        BY <2>1, <3>2 DEF MarkedPublished
      <4> QED
        BY <2>2, <2>3, <3>2, <4>1 DEF RowGoes, Keeps, Work
    <3> QED
      BY <3>1, <3>2
  <2> QED
    BY <1>1, <2>1, <2>3, <2>4, CalmStep
<1>3. CASE ~LeaseMatches(p, r.settling)
  <2>1. disp' = [disp EXCEPT ![p] = Finally([r EXCEPT !.settling = {}], TRUE)]
    BY <1>3 DEF Mark, Unwind
  <2>2. faults # 0
    BY <1>3 DEF LeaseMatches, CalmInv, Kept, Work
  <2> QED
    BY <1>1, <2>1, <2>2, UnwindWhole, CalmStep
<1> QED
  BY <1>2, <1>3

LEMMA RescheduleCalm ==
  ASSUME OutboxInv, CalmInv, OutboxInv', NEW p \in Process, Reschedule(p)
  PROVE  CalmInv'
<1> DEFINE r == disp[p]
<1>1. /\ r \in Dispatcher /\ Whole(r) /\ Parts(r) /\ r.life # "stopped" /\ faults' = faults
      /\ r.pass = "reschedule"
  BY CalmParts DEF Reschedule, Whole
<1>2. PICK S \in SameAttempts(r.settling) :
        IF LeaseMatches(p, S)
        THEN rows' = Rescheduled(S, FALSE) /\ disp' = [disp EXCEPT ![p] = AfterReschedule(@, S)]
        ELSE UNCHANGED rows /\ Unwind(p)
  BY DEF Reschedule
<1>3. S \subseteq r.settling
  BY DEF SameAttempts
<1>4. CASE LeaseMatches(p, S)
  <2> DEFINE rest == [r EXCEPT !.settling = r.settling \ S]
             s == IF rest.settling = {} THEN NextGroup(rest) ELSE rest
  <2>1. rows' = Rescheduled(S, FALSE) /\ disp' = [disp EXCEPT ![p] = s]
    BY <1>2, <1>4 DEF AfterReschedule
  <2>2. /\ rest \in Dispatcher /\ rest.settling = r.settling \ S /\ rest.unsettled = r.unsettled
        /\ rest.pending = r.pending /\ rest.lease = r.lease /\ rest.life = r.life
        /\ rest.pass = "reschedule"
    BY <1>1 DEF Dispatcher
  <2> HIDE DEF rest
  <2>3. Whole(rest) /\ Parts(rest)
    BY <1>1, <2>2 DEF Whole, Parts
  <2>4. Whole(s) /\ Keeps(s, rest)
    <3>1. CASE rest.settling = {}
      BY <1>1, <2>2, <2>3, <3>1, NextGroupWhole
    <3>2. CASE rest.settling # {}
      BY <2>3, <3>2 DEF Keeps
    <3> QED
      BY <3>1, <3>2
  <2> HIDE DEF s
  <2>5. ASSUME NEW e \in Event PROVE RowGoes(e, r, s)
    <3>1. CASE e \in S
      <4>1. rows'[e].lease = NoLease
        BY <2>1, <3>1, CalmParts DEF Rescheduled, Unleased, RowsOK, RowRecord
      <4> QED
        BY <1>1, <1>3, <2>2, <2>4, <3>1, <4>1 DEF RowGoes, Keeps, Work, Parts
    <3>2. CASE e \notin S
      <4>1. rows'[e] = rows[e]
        BY <2>1, <3>2 DEF Rescheduled
      <4> QED
        BY <2>2, <2>4, <3>2, <4>1 DEF RowGoes, Keeps, Work
    <3> QED
      BY <3>1, <3>2
  <2> QED
    BY <1>1, <2>1, <2>4, <2>5, CalmStep
<1>5. CASE ~LeaseMatches(p, S)
  <2>1. disp' = [disp EXCEPT ![p] = Finally([r EXCEPT !.settling = {}], TRUE)]
    BY <1>2, <1>5 DEF Unwind
  <2>2. faults # 0
    BY <1>3, <1>5 DEF LeaseMatches, CalmInv, Kept, Work
  <2> QED
    BY <1>1, <2>1, <2>2, UnwindWhole, CalmStep
<1> QED
  BY <1>4, <1>5

LEMMA ReleaseCalm ==
  ASSUME OutboxInv, CalmInv, OutboxInv', NEW p \in Process, Release(p)
  PROVE  CalmInv'
<1> DEFINE r == disp[p]
           s == EndPass(r)
<1>1. /\ r \in Dispatcher /\ Whole(r) /\ faults' = faults /\ r.pass = "release"
      /\ disp' = [disp EXCEPT ![p] = s]
      /\ rows' = IF LeaseMatches(p, r.settling) THEN Rescheduled(r.settling, TRUE) ELSE rows
  BY CalmParts DEF Release
<1>2. Work(r) = r.settling
  BY <1>1, NothingLeft DEF Whole, Work
<1>3. Whole(s) /\ Work(s) = {}
  BY <1>1, EndPassWhole
<1> HIDE DEF s
<1>4. ASSUME faults = 0, NEW e \in Event PROVE RowGoes(e, r, s)
  <2>1. rows' = Rescheduled(r.settling, TRUE)
    BY <1>1, <1>4 DEF LeaseMatches, CalmInv, Kept, Work
  <2>2. CASE e \in r.settling
    <3>1. rows'[e].lease = NoLease
      BY <2>1, <2>2, CalmParts DEF Rescheduled, Unleased, RowsOK, RowRecord
    <3> QED
      BY <1>2, <1>3, <2>2, <3>1 DEF RowGoes
  <2>3. CASE e \notin r.settling
    <3>1. rows'[e] = rows[e]
      BY <2>1, <2>3 DEF Rescheduled
    <3> QED
      BY <1>2, <1>3, <2>3, <3>1 DEF RowGoes
  <2> QED
    BY <2>2, <2>3
<1> QED
  BY <1>1, <1>3, <1>4, CalmStep

LEMMA AfterYieldWhole ==
  ASSUME NEW r \in Dispatcher, Whole(r), r.pass = "yield"
  PROVE  Whole(AfterYield(r)) /\ Work(AfterYield(r)) = {}
<1>1. Work(r) = {} /\ r.life # "stopped" /\ r.pending = <<>>
  BY NoWork DEF Whole
<1>2. CASE StopRequested(r)
  BY <1>2, EndPassWhole DEF AfterYield
<1>3. CASE ~StopRequested(r) /\ r.claims < MaxClaims
  <2> DEFINE s == [r EXCEPT !.pass = "claim", !.claims = r.claims + 1]
  <2>1. AfterYield(r) = s
    BY <1>3 DEF AfterYield
  <2>2. /\ s.pending = <<>> /\ s.unsettled = {} /\ s.settling = {} /\ s.life # "stopped"
    BY <1>1 DEF Dispatcher, Work
  <2> HIDE DEF s
  <2> QED
    BY <2>1, <2>2, NoBatch
<1>4. CASE ~StopRequested(r) /\ ~(r.claims < MaxClaims)
  <2>1. (IF r.life = "up" THEN Drain(r) ELSE r) \in Dispatcher
    BY <1>1, DrainWhole
  <2> QED
    BY <1>4, <2>1, EndPassWhole DEF AfterYield
<1> QED
  BY <1>2, <1>3, <1>4

LEMMA YieldCalm ==
  ASSUME OutboxInv, CalmInv, OutboxInv', NEW p \in Process, YieldEnds(p)
  PROVE  CalmInv'
<1>1. /\ disp[p] \in Dispatcher /\ Whole(disp[p]) /\ disp[p].pass = "yield"
      /\ disp' = [disp EXCEPT ![p] = AfterYield(disp[p])] /\ UNCHANGED <<rows, faults>>
  BY CalmParts DEF YieldEnds
<1>2. Whole(AfterYield(disp[p])) /\ Keeps(AfterYield(disp[p]), disp[p])
  BY <1>1, AfterYieldWhole, NoWork DEF Keeps
<1> QED
  BY <1>1, <1>2, CalmKeeps

LEMMA FailureCalm ==
  ASSUME OutboxInv, CalmInv, OutboxInv', NEW p \in Process, StorageFails(p) \/ Crash(p)
  PROVE  CalmInv'
<1> DEFINE r == disp[p]
           asked == r.asked /\ r.again
           s == [r EXCEPT !.asked = asked]
<1>1. r \in Dispatcher /\ Whole(r)
  BY CalmParts
<1>2. faults' # 0
  <2>1. faults' = faults + 1
    BY DEF StorageFails, Crash, Fault
  <2> QED
    BY <2>1, CalmParts
<1>3. s \in Dispatcher
  <2>1. asked \in BOOLEAN
    BY <1>1 DEF Dispatcher
  <2> HIDE DEF asked
  <2> QED
    BY <1>1, <2>1 DEF Dispatcher
<1>4. \/ disp' = [disp EXCEPT ![p] = EndPass(s)]
      \/ disp' = [disp EXCEPT ![p] = EndPass(r)]
      \/ disp' = [disp EXCEPT ![p] = Fresh]
      \/ /\ r.pass \in {"mark", "reschedule"}
         /\ disp' = [disp EXCEPT ![p] = Finally([r EXCEPT !.settling = {}], TRUE)]
  BY DEF StorageFails, Crash, Unwind
<1>5. r.pass \in {"mark", "reschedule"} => r.life # "stopped"
  BY <1>1 DEF Whole
<1> HIDE DEF s
<1> QED
  BY <1>1, <1>2, <1>3, <1>4, <1>5, EndPassWhole, FreshWhole, UnwindWhole, CalmStep

LEMMA RowStepCalm ==
  ASSUME OutboxInv, CalmInv,
         \/ \E e \in Event : BackoffEnds(e)
         \/ \E S \in SUBSET Event : Purge(S)
         \/ \E l \in LeaseId : LeaseEnds(l) \/ LeaseOutlived(l)
  PROVE  CalmInv'
<1>1. UNCHANGED disp /\ RowsOK /\ (faults' = 0 => faults = 0)
  <2>1. UNCHANGED disp /\ faults' \in {faults, faults + 1}
    BY DEF BackoffEnds, Purge, LeaseEnds, LeaseOutlived, LeaseIsOver, Fault
  <2> QED
    BY <2>1, InvParts
<1>2. \A p \in Process : Work(disp[p]) \subseteq Event
  BY CalmParts
<1>3. ASSUME NEW e \in Event, BackoffEnds(e) PROVE CalmInv'
  <2>1. \A f \in Event : rows'[f].lease = rows[f].lease /\ rows'[f].expired = rows[f].expired
    BY <1>1, <1>3 DEF BackoffEnds, RowsOK, RowRecord
  <2> QED
    BY <1>1, <1>2, <2>1, CalmRows
<1>4. ASSUME NEW S \in SUBSET Event, Purge(S) PROVE CalmInv'
  <2>1. \A f \in Event : f \in S => rows[f].lease = NoLease /\ rows'[f].lease = NoLease
    BY <1>1, <1>4 DEF Purge, RowsOK, LeasedArePending, AbsentRow
  <2>2. \A f \in Event : f \notin S => rows'[f] = rows[f]
    BY <1>4 DEF Purge
  <2> QED
    BY <1>1, <1>2, <2>1, <2>2, CalmRows
<1>5. ASSUME NEW l \in LeaseId, LeaseEnds(l) \/ LeaseOutlived(l) PROVE CalmInv'
  <2>1. CASE LeaseOutlived(l)
    <3>1. faults' # 0
      BY <2>1, InvParts DEF LeaseOutlived, Fault
    <3> QED
      BY <1>1, <1>2, <3>1, CalmRows
  <2>2. CASE LeaseEnds(l)
    <3>1. PICK e \in Event : e \in Lease(l)
      BY <2>2 DEF LeaseEnds, LeaseIsOver, Lease
    <3>2. rows[e].lease # NoLease
      BY <3>1 DEF Lease
    <3>3. faults # 0
      BY <2>2, <3>1, <3>2 DEF LeaseEnds, Holds, CalmInv, Kept, Held, Work
    <3> QED
      BY <1>1, <1>2, <3>3, CalmRows
  <2> QED
    BY <1>5, <2>1, <2>2
<1> QED
  BY <1>3, <1>4, <1>5

LEMMA CalmInit == Init => CalmInv
<1> SUFFICES ASSUME Init PROVE CalmInv
  OBVIOUS
<1>1. AllWhole
  BY FreshWhole DEF Init, AllWhole
<1>2. Kept
  BY FreshWhole DEF Init, Kept
<1>3. Held
  BY DEF Init, Held, AbsentRow
<1> QED
  BY <1>1, <1>2, <1>3 DEF CalmInv

LEMMA CalmNext == OutboxInv /\ CalmInv /\ [Next]_vars => CalmInv'
<1> SUFFICES ASSUME OutboxInv, CalmInv, [Next]_vars PROVE CalmInv'
  OBVIOUS
<1>1. OutboxInv'
  BY StepSound
<1>2. CASE UNCHANGED vars
  BY <1>2 DEF vars, CalmInv, AllWhole, Kept, Held
<1>3. ASSUME NEW p \in Process, Steps(p) PROVE CalmInv'
  BY <1>1, <1>3, ClaimCalm, PublishCalm, MarkCalm, RescheduleCalm, ReleaseCalm, YieldCalm, LifeCalm
  DEF Steps
<1>4. ASSUME NEW p \in Process,
             \/ \E e \in Event : Commit(p, e)
             \/ Maintain(p) \/ Stop(p) \/ GraceEnds(p) \/ Restart(p)
             \/ StorageFails(p) \/ Crash(p)
      PROVE  CalmInv'
  BY <1>1, <1>4, CommitCalm, LifeCalm, FailureCalm
<1> QED
  BY <1>2, <1>3, <1>4, RowStepCalm DEF Next

LEMMA CalmInvariant == Spec => []CalmInv
  BY CalmInit, CalmNext, Invariant, PTL DEF Spec

\* As long as nothing has failed, every leased row is still to be settled by a
\* process that runs: a stop leaves no lease behind, also when its grace period
\* ends in the middle of a publication (outbox-dispatcher.ts, publishClaim's
\* finally and rescheduleClaimedForShutdown).
THEOREM StopLeavesNothing == Spec => []StoppedHoldsNothing
<1>1. OutboxInv /\ CalmInv => StoppedHoldsNothing
  BY DEF CalmInv, Kept, Held, StoppedHoldsNothing, Holds, Work
<1> QED
  BY <1>1, Invariant, CalmInvariant, PTL

-----------------------------------------------------------------------------
(* One poison event: what isolating it costs, and whom *)

\* One event at most is refused, a batch can be halved Depth times until it is
\* one row, reach[d] being 2^d rows, and the budget of calls is the documented
\* one: a failed call and, at each depth, a healthy sibling plus the failing half.
Isolates(Depth, reach) ==
  /\ \A a, b \in Poison : a = b
  /\ Depth \in Nat /\ reach \in [0..Depth -> Nat]
  /\ reach[0] = 1 /\ \A d \in 1..Depth : reach[d] = 2 * reach[d - 1]
  /\ BatchSize <= reach[Depth]
  /\ 2 * Depth + 1 <= MaxIsolation

\* The poison event is in a group that d more halvings reduce to one row.
Narrowed(q, size) == \A i \in DOMAIN q : q[i].rows \cap Poison = {} \/ Cardinality(q[i].rows) <= size

\* The broker calls already made and those still needed are within the budget.
Affords(r, Depth, reach, made) ==
  \E d \in 0..Depth : /\ Narrowed(r.pending, reach[d])
                      /\ made + Len(r.pending) + 2 * d <= 2 * Depth + 1

\* The call under way is counted in r.calls before it is answered.
Budget(r, Depth, reach) ==
  /\ Affords(r, Depth, reach, IF r.pass = "publish" THEN r.calls - 1 ELSE r.calls)
  /\ r.pass = "reschedule" => r.settling \subseteq Poison

LEMMA NothingNeeded ==
  ASSUME NEW Depth, NEW reach, Isolates(Depth, reach), NEW r \in Dispatcher,
         r.pending = <<>>, r.calls = 0, r.pass \notin {"publish", "reschedule"}
  PROVE  Budget(r, Depth, reach)
<1>1. Depth \in 0..Depth /\ 0 + Len(r.pending) + 2 * Depth <= 2 * Depth + 1
  BY DEF Isolates
<1>2. Narrowed(r.pending, reach[Depth])
  BY DEF Narrowed
<1> QED
  BY <1>1, <1>2 DEF Budget, Affords

LEMMA EndPassBudget ==
  ASSUME NEW Depth, NEW reach, Isolates(Depth, reach), NEW r \in Dispatcher
  PROVE  Budget(EndPass(r), Depth, reach)
<1> DEFINE ended == [Fresh EXCEPT !.life = r.life, !.asked = r.asked]
<1>1. /\ ended.pending = <<>> /\ ended.calls = 0 /\ ended.pass = "none" /\ ended \in Dispatcher
  <2>1. Fresh \in Dispatcher
    BY FreshSound DEF Sound
  <2> QED
    BY <2>1 DEF Fresh, Dispatcher
<1> HIDE DEF ended
<1>2. StartPass(ended) \in Dispatcher
  <2>1. 1 \in 0..MaxClaims
    OBVIOUS
  <2> QED
    BY <1>1, <2>1 DEF StartPass, Dispatcher
<1>3. StartPass(ended).pending = <<>> /\ StartPass(ended).calls = 0 /\ StartPass(ended).pass = "claim"
  BY <1>1 DEF StartPass, Dispatcher
<1>4. EndPass(r) \in {ended, StartPass(ended)}
  BY DEF EndPass, ended
<1> QED
  BY <1>1, <1>2, <1>3, <1>4, NothingNeeded

LEMMA AfterBatchBudget ==
  ASSUME NEW Depth, NEW reach, Isolates(Depth, reach), NEW r \in Dispatcher
  PROVE  Budget(AfterBatch(r), Depth, reach)
<1>1. CASE StopRequested(r) \/ ~r.progress \/ ~r.full
  BY <1>1, EndPassBudget DEF AfterBatch
<1>2. CASE ~(StopRequested(r) \/ ~r.progress \/ ~r.full)
  <2> DEFINE s == [Fresh EXCEPT !.life = r.life, !.again = r.again, !.asked = r.asked,
                                !.claims = r.claims, !.pass = "yield"]
  <2>1. AfterBatch(r) = s
    BY <1>2 DEF AfterBatch
  <2>2. Fresh \in Dispatcher
    BY FreshSound DEF Sound
  <2>3. s.pending = <<>> /\ s.calls = 0 /\ s.pass = "yield" /\ s \in Dispatcher
    BY <2>2 DEF Fresh, Dispatcher
  <2> HIDE DEF s
  <2> QED
    BY <2>1, <2>3, NothingNeeded
<1> QED
  BY <1>1, <1>2

\* A dispatcher that has nothing to publish any more needs no call.
LEMMA FinallyBudget ==
  ASSUME NEW Depth, NEW reach, Isolates(Depth, reach), NEW r \in Dispatcher, NEW thrown \in BOOLEAN,
         r.calls <= 2 * Depth + 1
  PROVE  Budget(Finally(r, thrown), Depth, reach)
<1>1. CASE StopRequested(r) /\ r.unsettled # {}
  <2> DEFINE s == [r EXCEPT !.pass = "release", !.settling = r.unsettled,
                            !.unsettled = {}, !.pending = <<>>]
  <2>1. Finally(r, thrown) = s
    BY <1>1 DEF Finally
  <2>2. s.pending = <<>> /\ s.calls = r.calls /\ s.pass = "release" /\ r.calls \in Nat
    BY DEF Dispatcher
  <2> HIDE DEF s
  <2>3. 0 \in 0..Depth /\ s.calls + Len(s.pending) + 2 * 0 <= 2 * Depth + 1
    BY <2>2 DEF Isolates
  <2>4. Narrowed(s.pending, reach[0])
    BY <2>2 DEF Narrowed
  <2> QED
    BY <2>1, <2>2, <2>3, <2>4 DEF Budget, Affords
<1>2. CASE ~(StopRequested(r) /\ r.unsettled # {})
  BY <1>2, EndPassBudget, AfterBatchBudget DEF Finally
<1> QED
  BY <1>1, <1>2

\* The first group leaves those that wait, also when it was the poisoned one.
LEMMA SettleHeadBudget ==
  ASSUME NEW Depth, NEW reach, Isolates(Depth, reach), NEW r \in Dispatcher, Parts(r),
         r.pending # <<>>, NEW pass \in {"mark", "reschedule"},
         pass = "reschedule" => Head(r.pending).rows \subseteq Poison,
         Affords(r, Depth, reach, r.calls - 1)
  PROVE  Budget(SettleHead(r, pass), Depth, reach)
<1> DEFINE S == Head(r.pending).rows
           rest == Tail(r.pending)
           s == [r EXCEPT !.pass = pass, !.settling = S, !.unsettled = r.unsettled \ S,
                          !.pending = rest]
<1>1. SettleHead(r, pass) = s
  BY DEF SettleHead
<1>2. /\ Len(rest) = Len(r.pending) - 1 /\ Len(r.pending) \in Nat \ {0}
      /\ \A i \in 1..(Len(r.pending) - 1) : rest[i] = r.pending[i + 1]
  BY HeadRows, TailIndex
<1>3. /\ s.pass = pass /\ s.settling = S /\ s.pending = rest /\ s.calls = r.calls
      /\ r.calls \in Nat
  BY DEF Dispatcher
<1>4. PICK d \in 0..Depth : /\ Narrowed(r.pending, reach[d])
                            /\ r.calls - 1 + Len(r.pending) + 2 * d <= 2 * Depth + 1
  BY DEF Affords
<1>5. DOMAIN rest = 1..(Len(r.pending) - 1) /\ DOMAIN r.pending = 1..Len(r.pending)
  BY <1>2, HeadRows
<1> HIDE DEF rest, s, S
<1>6. Narrowed(rest, reach[d])
  <2> SUFFICES ASSUME NEW i \in 1..(Len(r.pending) - 1)
               PROVE  rest[i].rows \cap Poison = {} \/ Cardinality(rest[i].rows) <= reach[d]
    BY <1>5 DEF Narrowed
  <2>1. i + 1 \in 1..Len(r.pending) /\ rest[i] = r.pending[i + 1]
    BY <1>2
  <2> QED
    BY <1>4, <1>5, <2>1 DEF Narrowed
<1>7. r.calls + Len(rest) + 2 * d <= 2 * Depth + 1
  <2>1. Depth \in Nat /\ d \in Nat
    BY <1>3 DEF Isolates
  <2>2. Len(rest) = Len(r.pending) - 1 /\ r.calls \in Nat /\ Len(r.pending) \in Nat
    BY <1>2, <1>3
  <2> QED
    BY <1>4, <2>1, <2>2
<1> QED
  BY <1>1, <1>3, <1>6, <1>7 DEF Budget, Affords, S

\* The budget is never what stops a group that failed before.
LEMMA NextGroupBudget ==
  ASSUME NEW Depth, NEW reach, Isolates(Depth, reach), NEW r \in Dispatcher,
         Affords(r, Depth, reach, r.calls)
  PROVE  Budget(NextGroup(r), Depth, reach)
<1>1. PICK d \in 0..Depth : /\ Narrowed(r.pending, reach[d])
                            /\ r.calls + Len(r.pending) + 2 * d <= 2 * Depth + 1
  BY DEF Affords
<1>2. r.calls \in Nat /\ Len(r.pending) \in Nat
  BY DEF Dispatcher
<1>3. CASE r.pending = <<>> \/ StopRequested(r)
  <2>1. r.calls <= 2 * Depth + 1
    BY <1>1, <1>2 DEF Isolates
  <2> QED
    BY <1>3, <2>1, FinallyBudget DEF NextGroup
<1>4. CASE ~(r.pending = <<>> \/ StopRequested(r))
  <2> DEFINE s == [r EXCEPT !.pass = "publish", !.calls = r.calls + 1]
  <2>1. Len(r.pending) # 0
    BY <1>4 DEF Dispatcher
  <2>2. ~(r.calls >= MaxIsolation)
    BY <1>1, <1>2, <2>1 DEF Isolates
  <2>3. NextGroup(r) = s
    BY <1>4, <2>2 DEF NextGroup
  <2>4. s.pass = "publish" /\ s.calls - 1 = r.calls /\ s.pending = r.pending
    BY <1>2 DEF Dispatcher
  <2> HIDE DEF s
  <2> QED
    BY <2>3, <2>4 DEF Budget, Affords
<1> QED
  BY <1>3, <1>4

LEMMA EventsAreFinite ==
  ASSUME NEW S \in SUBSET Event
  PROVE  S \in SUBSET Int /\ IsFiniteSet(S) /\ Cardinality(S) \in Nat
<1>1. IsFiniteSet(1..MaxEvent)
  <2>1. 1 \in Int /\ MaxEvent \in Int
    OBVIOUS
  <2> QED
    BY <2>1, FS_Interval
<1>2. S \in SUBSET Int /\ S \in SUBSET (1..MaxEvent)
  BY DEF Event
<1>3. IsFiniteSet(S)
  BY <1>1, <1>2, FS_Subset
<1> QED
  BY <1>2, <1>3, FS_CardinalityType

\* Each half of a group is at most half as long, rounded up.
LEMMA HalfSize ==
  ASSUME NEW S \in SUBSET Event, NEW size \in Nat, Cardinality(S) <= 2 * size
  PROVE  Cardinality(FirstHalf(S)) <= size /\ Cardinality(S \ FirstHalf(S)) <= size
<1> DEFINE n == Cardinality(S)
           h == (n + 1) \div 2
<1>1. IsFiniteSet(S) /\ n \in Nat /\ S \in SUBSET Int
  BY EventsAreFinite
<1>2. FirstHalf(S) = FirstOf(S, h)
  BY DEF FirstHalf, FirstOf
<1> HIDE DEF n
<1>3. h \in Nat /\ h <= size /\ n - h <= size /\ h <= n
  BY <1>1 DEF n
<1> HIDE DEF h
<1>4. /\ Cardinality(FirstOf(S, h)) \in Nat /\ Cardinality(FirstOf(S, h)) <= h
      /\ Cardinality(S \ FirstOf(S, h)) \in Nat
      /\ Cardinality(S \ FirstOf(S, h)) <= n - h
  BY <1>1, <1>3, FirstOfSize DEF n
<1> QED
  BY <1>1, <1>2, <1>3, <1>4

LEMMA RefusedBudget ==
  ASSUME NEW Depth, NEW reach, Isolates(Depth, reach), NEW r \in Dispatcher, Whole(r),
         r.pass = "publish", r.pending # <<>>, Budget(r, Depth, reach),
         Head(r.pending).rows \cap Poison # {}
  PROVE  Budget(Refused(r), Depth, reach)
<1> DEFINE S == Head(r.pending).rows
           q == r.pending
           split == [r EXCEPT !.pending = Halves(q)]
<1>1. /\ Parts(r) /\ q \in Seq(GroupRecord) /\ Head(q) \in GroupRecord /\ S \in SUBSET Event
      /\ r.calls \in Nat /\ Len(q) \in Nat \ {0} /\ DOMAIN q = 1..Len(q) /\ Head(q) = q[1]
  <2>1. Parts(r)
    BY DEF Whole
  <2>2. q \in Seq(GroupRecord) /\ r.calls \in Nat
    BY DEF Dispatcher, GroupRecord
  <2>3. /\ Len(q) \in Nat \ {0} /\ DOMAIN q = 1..Len(q)
        /\ Head(q) \in GroupRecord /\ Head(q) = q[1]
    BY <2>2, HeadAndTail
  <2> QED
    BY <2>1, <2>2, <2>3 DEF GroupRecord
<1>2. PICK d \in 0..Depth : /\ Narrowed(q, reach[d])
                            /\ r.calls - 1 + Len(q) + 2 * d <= 2 * Depth + 1
  BY DEF Budget, Affords
<1>3. /\ Depth \in Nat /\ d \in Nat /\ reach[d] \in Nat /\ Cardinality(S) <= reach[d]
      /\ IsFiniteSet(S) /\ Cardinality(S) \in Nat
  <2>1. IsFiniteSet(S) /\ Cardinality(S) \in Nat
    BY <1>1, EventsAreFinite
  <2>2. 1 \in DOMAIN q /\ q[1].rows = S
    BY <1>1
  <2>3. Cardinality(S) <= reach[d]
    <3> HIDE DEF q, S
    <3>1. q[1].rows \cap Poison = {} \/ Cardinality(q[1].rows) <= reach[d]
      BY <1>2, <2>2 DEF Narrowed
    <3> QED
      BY <2>2, <3>1 DEF S
  <2> HIDE DEF q, S, split
  <2>4. Depth \in Nat /\ reach \in [0..Depth -> Nat]
    BY DEF Isolates
  <2>5. d \in Nat /\ reach[d] \in Nat
    BY <2>4
  <2> QED
    BY <2>1, <2>3, <2>4, <2>5
<1>4. PICK a \in Poison : a \in S /\ \A b \in Poison : b = a
  BY DEF Isolates
<1>5. CASE Cardinality(S) > 1 /\ r.calls < MaxIsolation
  <2>1. Refused(r) = NextGroup(split)
    BY <1>5 DEF Refused, Halves
  <2>2. d # 0 /\ d - 1 \in 0..Depth /\ reach[d - 1] \in Nat /\ reach[d] = 2 * reach[d - 1]
    BY <1>3, <1>5 DEF Isolates
  <2>3. Cardinality(FirstHalf(S)) <= reach[d - 1] /\ Cardinality(S \ FirstHalf(S)) <= reach[d - 1]
    BY <1>1, <1>3, <2>2, HalfSize
  <2> DEFINE later == Group(S \ FirstHalf(S), TRUE)
             first == Group(FirstHalf(S), TRUE)
  <2>4. later.rows = S \ FirstHalf(S) /\ first.rows = FirstHalf(S)
    BY DEF Group
  <2>5. later \in GroupRecord /\ first \in GroupRecord
    BY <1>1 DEF Group, GroupRecord, FirstHalf
  <2>6. Halves(q) = <<later, first>> \o Tail(q)
    BY DEF Halves
  <2> HIDE DEF later, first
  <2>7. /\ Halves(q) \in Seq(GroupRecord) /\ Len(Halves(q)) = Len(q) + 1
        /\ Halves(q)[1] = later /\ Halves(q)[2] = first
        /\ \A i \in 3..(Len(q) + 1) : Halves(q)[i] = q[i - 1]
    BY <1>1, <2>5, <2>6, PairIndex
  <2>8. Narrowed(Halves(q), reach[d - 1])
    <3> SUFFICES ASSUME NEW i \in 1..(Len(q) + 1)
                 PROVE  \/ Halves(q)[i].rows \cap Poison = {}
                        \/ Cardinality(Halves(q)[i].rows) <= reach[d - 1]
      <4>1. DOMAIN Halves(q) = 1..(Len(q) + 1)
        BY <2>7
      <4> QED
        BY <4>1 DEF Narrowed
    <3>1. CASE i \in {1, 2}
      BY <2>3, <2>4, <2>7, <3>1
    <3>2. CASE i \in 3..(Len(q) + 1)
      <4>1. i - 1 \in 1..Len(q) /\ i - 1 # 1 /\ 1 \in 1..Len(q)
        BY <1>1, <3>2
      <4>2. q[i - 1].rows \cap q[1].rows = {}
        BY <1>1, <4>1 DEF Parts, Partition
      <4> QED
        BY <1>1, <1>4, <2>7, <3>2, <4>2
    <3> QED
      BY <1>1, <3>1, <3>2
  <2>9. r.calls + Len(Halves(q)) + 2 * (d - 1) <= 2 * Depth + 1
    <3>1. Len(Halves(q)) = Len(q) + 1
      BY <2>7
    <3>2. Len(q) \in Nat /\ r.calls \in Nat /\ d \in Nat /\ Depth \in Nat
      BY <1>1, <1>3
    <3>3. r.calls - 1 + Len(q) + 2 * d <= 2 * Depth + 1
      BY <1>2
    <3> HIDE DEF q
    <3> QED
      BY <3>1, <3>2, <3>3
  <2>10. split \in Dispatcher /\ split.pending = Halves(q) /\ split.calls = r.calls
    BY <2>7 DEF Dispatcher, GroupRecord
  <2> HIDE DEF split
  <2>11. Affords(split, Depth, reach, split.calls)
    BY <2>2, <2>8, <2>9, <2>10 DEF Affords
  <2> QED
    BY <2>1, <2>10, <2>11, NextGroupBudget
<1>6. CASE ~(Cardinality(S) > 1 /\ r.calls < MaxIsolation)
  <2>1. Refused(r) = SettleHead(r, "reschedule")
    BY <1>6 DEF Refused
  <2>2. ~(Cardinality(S) > 1)
    <3> SUFFICES ASSUME Cardinality(S) > 1 PROVE r.calls < MaxIsolation
      BY <1>6
    <3>1. d # 0
      BY <1>3 DEF Isolates
    <3>2. 2 * Depth + 1 <= MaxIsolation
      BY DEF Isolates
    <3> HIDE DEF q
    <3>3. r.calls <= 2 * Depth
      BY <1>1, <1>2, <1>3, <3>1
    <3> QED
      BY <1>1, <1>3, <3>2, <3>3
  <2>3. Cardinality(S) = 1
    BY <1>3, <1>4, <2>2, FS_EmptySet
  <2>4. S = {a}
    BY <1>3, <1>4, <2>3, FS_Singleton
  <2>5. Affords(r, Depth, reach, r.calls - 1)
    BY DEF Budget
  <2> QED
    BY <1>1, <1>4, <2>1, <2>4, <2>5, SettleHeadBudget
<1> QED
  BY <1>5, <1>6

-----------------------------------------------------------------------------
(* The budget along the steps *)

AllAfford(Depth, reach) == faults = 0 => \A p \in Process : Budget(disp[p], Depth, reach)

\* Changes of a dispatcher that a batch does not notice.
LEMMA SameBudget ==
  ASSUME NEW Depth, NEW reach, NEW r, NEW s, Budget(r, Depth, reach),
         s.pending = r.pending, s.calls = r.calls, s.settling = r.settling,
         s.pass = r.pass \/ (r.pass = "none" /\ s.pass = "claim")
  PROVE  Budget(s, Depth, reach)
  BY DEF Budget, Affords

LEMMA DrainBudget ==
  ASSUME NEW Depth, NEW reach, NEW r \in Dispatcher, Budget(r, Depth, reach)
  PROVE  Budget(Drain(r), Depth, reach)
<1>1. /\ Drain(r).pending = r.pending /\ Drain(r).calls = r.calls
      /\ Drain(r).settling = r.settling
      /\ Drain(r).pass = r.pass \/ (r.pass = "none" /\ Drain(r).pass = "claim")
  BY DEF Drain, StartPass, Dispatcher
<1> QED
  BY <1>1, SameBudget

LEMMA ClaimBudget ==
  ASSUME NEW Depth, NEW reach, Isolates(Depth, reach), OutboxInv, NEW p \in Process, Claim(p),
         NEW s, disp' = [disp EXCEPT ![p] = s]
  PROVE  Budget(s, Depth, reach)
<1> DEFINE r == disp[p]
<1>1. /\ r \in Dispatcher /\ r.calls = 0 /\ disp \in [Process -> Dispatcher]
  BY InvParts DEF DispOK, Sound, Groups, Claim
<1>2. CASE Batch = {}
  <2>1. s = EndPass([r EXCEPT !.asked = FALSE])
    BY <1>1, <1>2 DEF Claim
  <2>2. [r EXCEPT !.asked = FALSE] \in Dispatcher
    BY <1>1 DEF Dispatcher
  <2> QED
    BY <2>1, <2>2, EndPassBudget
<1>3. CASE Batch # {}
  <2> DEFINE full == Cardinality(Batch) = BatchSize
             first == Group(Batch, FALSE)
             t == [r EXCEPT !.asked = FALSE, !.lease = NewLease, !.unsettled = Batch,
                            !.full = full, !.pending = <<first>>]
  <2>1. FreeLeases # {} /\ s = NextGroup(t)
    BY <1>1, <1>3 DEF Claim
  <2>2. NewLease \in LeaseId /\ NewLease # NoLease
    BY <2>1, NewLeaseIsFree
  <2>3. Batch \in SUBSET Event /\ full \in BOOLEAN /\ first = [rows |-> Batch, failed |-> FALSE]
    BY DEF Batch, Group
  <2> HIDE DEF full, first
  <2>4. /\ <<first>> \in Seq([rows: SUBSET Event, failed: BOOLEAN]) /\ Len(<<first>>) = 1
        /\ \A i \in DOMAIN <<first>> : <<first>>[i].rows = Batch
    BY <2>3
  <2>5. t \in Dispatcher /\ t.pending = <<first>> /\ t.calls = 0
    <3>1. NewLease \in LeaseId \cup {NoLease} /\ Batch \in SUBSET Event /\ full \in BOOLEAN
      BY <2>2, <2>3
    <3> HIDE DEF r, first, full
    <3> QED
      BY <1>1, <2>4, <3>1 DEF Dispatcher
  <2> HIDE DEF t
  <2>6. Cardinality(Batch) <= reach[Depth]
    <3> DEFINE due == {e \in Event : Claimable(e)}
    <3>1. due \in SUBSET Int /\ IsFiniteSet(due)
      BY EventsAreFinite
    <3>2. Batch = FirstOf(due, BatchSize)
      BY DEF Batch, FirstOf
    <3>3. Cardinality(Batch) \in Nat /\ Cardinality(Batch) <= BatchSize
      BY <3>1, <3>2, FirstOfSize
    <3> QED
      BY <3>3 DEF Isolates
  <2>7. Narrowed(t.pending, reach[Depth])
    BY <2>4, <2>5, <2>6 DEF Narrowed
  <2>8. Affords(t, Depth, reach, t.calls)
    BY <2>4, <2>5, <2>7 DEF Affords, Isolates
  <2> QED
    BY <2>1, <2>5, <2>8, NextGroupBudget
<1> QED
  BY <1>2, <1>3

LEMMA FreshBudget ==
  ASSUME NEW Depth, NEW reach, Isolates(Depth, reach)
  PROVE  Budget(Fresh, Depth, reach)
<1>1. Fresh \in Dispatcher
  BY FreshSound DEF Sound
<1> QED
  BY <1>1, NothingNeeded DEF Fresh

\* A step of process p, which changes its dispatcher only.
LEMMA BudgetStep ==
  ASSUME NEW Depth, NEW reach, OutboxInv, AllAfford(Depth, reach), NEW p \in Process, NEW s,
         disp' = [disp EXCEPT ![p] = s],
         faults' = 0 => faults = 0,
         faults' = 0 => Budget(s, Depth, reach)
  PROVE  AllAfford(Depth, reach)'
<1>1. \A q \in Process : disp'[q] = IF q = p THEN s ELSE disp[q]
  BY InvParts DEF DispOK
<1> QED
  BY <1>1 DEF AllAfford

LEMMA LifeBudget ==
  ASSUME NEW Depth, NEW reach, Isolates(Depth, reach), OutboxInv, CalmInv,
         AllAfford(Depth, reach), NEW p \in Process,
         \/ \E e \in Event : Commit(p, e)
         \/ Maintain(p) \/ Stop(p) \/ GraceEnds(p) \/ Stopped(p) \/ Restart(p)
  PROVE  AllAfford(Depth, reach)'
<1> DEFINE r == disp[p]
<1>1. /\ r \in Dispatcher /\ Drain(r) \in Dispatcher /\ faults' = faults
      /\ disp \in [Process -> Dispatcher]
  <2>1. r \in Dispatcher /\ disp \in [Process -> Dispatcher]
    BY CalmParts
  <2>2. Drain(r) \in Dispatcher
    <3>1. 1 \in 0..MaxClaims
      OBVIOUS
    <3> QED
      BY <2>1, <3>1 DEF Drain, StartPass, Dispatcher
  <2> QED
    BY <2>1, <2>2 DEF Commit, Maintain, Stop, GraceEnds, Stopped, Restart
<1>2. ASSUME NEW s, disp' = [disp EXCEPT ![p] = s],
             faults = 0 /\ Budget(r, Depth, reach) => Budget(s, Depth, reach)
      PROVE  AllAfford(Depth, reach)'
  BY <1>1, <1>2, BudgetStep DEF AllAfford
<1>3. Budget(r, Depth, reach) => Budget(Drain(r), Depth, reach)
  BY <1>1, DrainBudget
<1>4. ASSUME NEW e \in Event, Commit(p, e) PROVE AllAfford(Depth, reach)'
  <2> DEFINE s == IF r.life = "up" THEN Drain(r) ELSE r
  <2>1. disp' = [disp EXCEPT ![p] = s]
    BY <1>4 DEF Commit
  <2>2. s \in {r, Drain(r)}
    OBVIOUS
  <2> HIDE DEF s
  <2> QED
    BY <1>2, <1>3, <2>1, <2>2
<1>5. CASE Maintain(p)
  BY <1>2, <1>3, <1>5 DEF Maintain
<1>6. CASE Stop(p)
  <2> DEFINE s == [Drain(r) EXCEPT !.life = "closing"]
  <2>1. disp' = [disp EXCEPT ![p] = s]
    BY <1>6 DEF Stop
  <2>2. /\ s.pending = Drain(r).pending /\ s.calls = Drain(r).calls
        /\ s.settling = Drain(r).settling /\ s.pass = Drain(r).pass
    BY <1>1 DEF Dispatcher
  <2>3. Budget(r, Depth, reach) => Budget(s, Depth, reach)
    BY <1>3, <2>2, SameBudget
  <2> QED
    BY <1>2, <2>1, <2>3
<1>7. CASE GraceEnds(p)
  <2> DEFINE s == [r EXCEPT !.life = "forced", !.asked = FALSE]
  <2>1. disp' = [disp EXCEPT ![p] = s]
    BY <1>1, <1>7 DEF GraceEnds
  <2>2. /\ s.pending = r.pending /\ s.calls = r.calls
        /\ s.settling = r.settling /\ s.pass = r.pass
    BY <1>1 DEF Dispatcher
  <2>3. Budget(r, Depth, reach) => Budget(s, Depth, reach)
    BY <2>2, SameBudget
  <2> QED
    BY <1>2, <2>1, <2>3
<1>8. CASE Stopped(p)
  <2> DEFINE s == [r EXCEPT !.life = "stopped"]
  <2>1. disp' = [disp EXCEPT ![p] = s]
    BY <1>1, <1>8 DEF Stopped
  <2>2. /\ s.pending = r.pending /\ s.calls = r.calls
        /\ s.settling = r.settling /\ s.pass = r.pass
    BY <1>1 DEF Dispatcher
  <2>3. Budget(r, Depth, reach) => Budget(s, Depth, reach)
    BY <2>2, SameBudget
  <2> QED
    BY <1>2, <2>1, <2>3
<1>9. CASE Restart(p)
  BY <1>2, <1>9, FreshBudget DEF Restart
<1> QED
  BY <1>4, <1>5, <1>6, <1>7, <1>8, <1>9

LEMMA PublishBudget ==
  ASSUME NEW Depth, NEW reach, Isolates(Depth, reach), OutboxInv, CalmInv,
         AllAfford(Depth, reach), NEW p \in Process,
         PublishSucceeds(p) \/ PublishFails(p) \/ PublishAbandoned(p)
  PROVE  AllAfford(Depth, reach)'
<1> DEFINE r == disp[p]
<1>1. /\ r \in Dispatcher /\ Whole(r) /\ Parts(r) /\ r.pass = "publish" /\ r.pending # <<>>
  BY CalmParts DEF PublishSucceeds, PublishFails, PublishAbandoned, Whole
<1>2. faults' = 0 => faults = 0
  <2>1. faults' \in {faults, faults + 1}
    BY DEF PublishSucceeds, PublishFails, PublishAbandoned, Fault
  <2> QED
    BY <2>1, CalmParts
<1>3. faults' = 0 => Budget(r, Depth, reach)
  BY <1>2 DEF AllAfford
<1>4. faults' = 0 => Affords(r, Depth, reach, r.calls - 1)
  BY <1>1, <1>3 DEF Budget
<1>5. ASSUME NEW s, disp' = [disp EXCEPT ![p] = s], faults' = 0 => Budget(s, Depth, reach)
      PROVE  AllAfford(Depth, reach)'
  BY <1>2, <1>5, BudgetStep
<1>6. CASE PublishSucceeds(p)
  <2>1. disp' = [disp EXCEPT ![p] = SettleHead(r, "mark")]
    BY <1>6 DEF PublishSucceeds
  <2>2. faults' = 0 => Budget(SettleHead(r, "mark"), Depth, reach)
    BY <1>1, <1>4, SettleHeadBudget
  <2> QED
    BY <1>5, <2>1, <2>2
<1>7. CASE PublishFails(p)
  <2>1. disp' = [disp EXCEPT ![p] = Refused(r)]
    BY <1>7 DEF PublishFails
  <2>2. faults' = 0 => Head(r.pending).rows \cap Poison # {}
    <3>1. Publishing(p) \cap Poison = {} => faults' = faults + 1
      BY <1>7 DEF PublishFails, Fault
    <3> QED
      BY <3>1, CalmParts DEF Publishing
  <2>3. faults' = 0 => Budget(Refused(r), Depth, reach)
    BY <1>1, <1>3, <2>2, RefusedBudget
  <2> QED
    BY <1>5, <2>1, <2>3
<1>8. CASE PublishAbandoned(p)
  <2>1. disp' = [disp EXCEPT ![p] = Finally(r, FALSE)]
    BY <1>8 DEF PublishAbandoned
  <2>2. faults' = 0 => r.calls <= 2 * Depth + 1
    <3> SUFFICES ASSUME faults' = 0 PROVE r.calls <= 2 * Depth + 1
      OBVIOUS
    <3>1. PICK d \in 0..Depth : r.calls - 1 + Len(r.pending) + 2 * d <= 2 * Depth + 1
      BY <1>4 DEF Affords
    <3>2. Len(r.pending) \in Nat \ {0} /\ r.calls \in Nat /\ Depth \in Nat
      <4>1. r.pending \in Seq(GroupRecord) /\ r.calls \in Nat
        BY <1>1 DEF Dispatcher, GroupRecord
      <4> QED
        BY <1>1, <4>1, TailIndex DEF Isolates
    <3>3. d \in Nat
      BY <3>2
    <3> HIDE DEF r
    <3> QED
      BY <3>1, <3>2, <3>3
  <2>3. faults' = 0 => Budget(Finally(r, FALSE), Depth, reach)
    BY <1>1, <2>2, FinallyBudget
  <2> QED
    BY <1>5, <2>1, <2>3
<1> QED
  BY <1>6, <1>7, <1>8

\* A batch whose settlement failed ends within its budget.
LEMMA UnwindBudget ==
  ASSUME NEW Depth, NEW reach, Isolates(Depth, reach), NEW r \in Dispatcher,
         r.pass # "publish", Budget(r, Depth, reach)
  PROVE  Budget(Finally([r EXCEPT !.settling = {}], TRUE), Depth, reach)
<1> DEFINE s == [r EXCEPT !.settling = {}]
<1>1. s \in Dispatcher /\ s.calls = r.calls /\ r.calls \in Nat /\ Len(r.pending) \in Nat
  <2>1. r.calls \in Nat /\ Len(r.pending) \in Nat
    BY DEF Dispatcher
  <2>2. s \in Dispatcher
    BY DEF Dispatcher
  <2>3. s.calls = r.calls
    BY DEF Dispatcher
  <2> QED
    BY <2>1, <2>2, <2>3
<1> HIDE DEF s
<1>2. PICK d \in 0..Depth : r.calls + Len(r.pending) + 2 * d <= 2 * Depth + 1
  BY DEF Budget, Affords
<1>3. s.calls <= 2 * Depth + 1
  BY <1>1, <1>2 DEF Isolates
<1>4. Budget(Finally(s, TRUE), Depth, reach)
  BY <1>1, <1>3, FinallyBudget
<1> QED
  BY <1>4 DEF s

LEMMA SettleBudget ==
  ASSUME NEW Depth, NEW reach, Isolates(Depth, reach), OutboxInv, CalmInv,
         AllAfford(Depth, reach), NEW p \in Process, Mark(p) \/ Reschedule(p)
  PROVE  AllAfford(Depth, reach)'
<1> DEFINE r == disp[p]
<1>1. r \in Dispatcher /\ r.pass \in {"mark", "reschedule"} /\ faults' = faults
  BY CalmParts DEF Mark, Reschedule
<1>2. ASSUME NEW s, disp' = [disp EXCEPT ![p] = s],
             faults = 0 /\ Budget(r, Depth, reach) => Budget(s, Depth, reach)
      PROVE  AllAfford(Depth, reach)'
  BY <1>1, <1>2, BudgetStep DEF AllAfford
<1>3. CASE Unwind(p)
  BY <1>1, <1>2, <1>3, UnwindBudget DEF Unwind
<1>4. CASE Mark(p) /\ ~Unwind(p)
  <2> DEFINE s == [r EXCEPT !.settling = {}, !.progress = TRUE]
  <2>1. disp' = [disp EXCEPT ![p] = NextGroup(s)]
    BY <1>4 DEF Mark
  <2>2. s \in Dispatcher /\ s.pending = r.pending /\ s.calls = r.calls
    BY <1>1 DEF Dispatcher
  <2> HIDE DEF s
  <2>3. Budget(r, Depth, reach) => Affords(s, Depth, reach, s.calls)
    BY <1>1, <2>2 DEF Budget, Affords
  <2>4. Budget(r, Depth, reach) => Budget(NextGroup(s), Depth, reach)
    BY <2>2, <2>3, NextGroupBudget
  <2> QED
    BY <1>2, <2>1, <2>4
<1>5. CASE Reschedule(p) /\ ~Unwind(p)
  <2>1. PICK S : disp' = [disp EXCEPT ![p] = AfterReschedule(r, S)]
    BY <1>5 DEF Reschedule
  <2> DEFINE rest == [r EXCEPT !.settling = r.settling \ S]
  <2>2. /\ rest \in Dispatcher /\ rest.pending = r.pending /\ rest.calls = r.calls
        /\ rest.settling \subseteq r.settling /\ rest.pass = r.pass
    BY <1>1 DEF Dispatcher
  <2>3. AfterReschedule(r, S) \in {rest, NextGroup(rest)}
    BY DEF AfterReschedule
  <2> HIDE DEF rest
  <2>4. Budget(r, Depth, reach) => Affords(rest, Depth, reach, rest.calls)
    BY <1>1, <2>2 DEF Budget, Affords
  <2>5. Budget(r, Depth, reach) => Budget(rest, Depth, reach)
    BY <1>1, <2>2, <2>4 DEF Budget
  <2>6. Budget(r, Depth, reach) => Budget(NextGroup(rest), Depth, reach)
    BY <2>2, <2>4, NextGroupBudget
  <2> QED
    BY <1>2, <2>1, <2>3, <2>5, <2>6
<1> QED
  BY <1>3, <1>4, <1>5

LEMMA PassBudget ==
  ASSUME NEW Depth, NEW reach, Isolates(Depth, reach), OutboxInv, CalmInv,
         AllAfford(Depth, reach), NEW p \in Process, Claim(p) \/ Release(p) \/ YieldEnds(p)
  PROVE  AllAfford(Depth, reach)'
<1> DEFINE r == disp[p]
<1>1. r \in Dispatcher /\ disp \in [Process -> Dispatcher] /\ faults' = faults
  BY CalmParts DEF Claim, Release, YieldEnds
<1>2. ASSUME NEW s, disp' = [disp EXCEPT ![p] = s],
             faults = 0 /\ Budget(r, Depth, reach) => Budget(s, Depth, reach)
      PROVE  AllAfford(Depth, reach)'
  BY <1>1, <1>2, BudgetStep DEF AllAfford
<1>3. CASE Claim(p)
  <2>1. PICK s : disp' = [disp EXCEPT ![p] = s]
    BY <1>3 DEF Claim
  <2>2. Budget(s, Depth, reach)
    BY <1>3, <2>1, ClaimBudget
  <2> QED
    BY <1>2, <2>1, <2>2
<1>4. CASE Release(p)
  BY <1>1, <1>2, <1>4, EndPassBudget DEF Release
<1>5. CASE YieldEnds(p)
  <2>1. disp' = [disp EXCEPT ![p] = AfterYield(r)] /\ r.pass = "yield"
    BY <1>5 DEF YieldEnds
  <2> DEFINE t == [r EXCEPT !.pass = "claim", !.claims = r.claims + 1]
  <2>2. t.pending = r.pending /\ t.calls = r.calls /\ t.pass = "claim"
    BY <1>1 DEF Dispatcher
  <2>3. Drain(r) \in Dispatcher
    BY <1>1, <2>1 DEF Drain, Dispatcher
  <2>4. AfterYield(r) \in {EndPass(r), t, EndPass(Drain(r))}
    BY DEF AfterYield
  <2> HIDE DEF t
  <2>5. Budget(r, Depth, reach) => Budget(t, Depth, reach)
    BY <2>1, <2>2 DEF Budget, Affords
  <2>6. Budget(EndPass(r), Depth, reach) /\ Budget(EndPass(Drain(r)), Depth, reach)
    BY <1>1, <2>3, EndPassBudget
  <2> QED
    BY <1>2, <2>1, <2>4, <2>5, <2>6
<1> QED
  BY <1>3, <1>4, <1>5

LEMMA AffordInit ==
  ASSUME NEW Depth, NEW reach, Isolates(Depth, reach)
  PROVE  Init => AllAfford(Depth, reach)
  BY FreshBudget DEF Init, AllAfford

LEMMA AffordNext ==
  ASSUME NEW Depth, NEW reach, Isolates(Depth, reach)
  PROVE  OutboxInv /\ CalmInv /\ AllAfford(Depth, reach) /\ [Next]_vars => AllAfford(Depth, reach)'
<1> SUFFICES ASSUME OutboxInv, CalmInv, AllAfford(Depth, reach), [Next]_vars
             PROVE  AllAfford(Depth, reach)'
  OBVIOUS
<1>1. CASE UNCHANGED vars
  BY <1>1 DEF vars, AllAfford
<1>2. ASSUME NEW p \in Process, Steps(p) PROVE AllAfford(Depth, reach)'
  BY <1>2, PassBudget, PublishBudget, SettleBudget, LifeBudget DEF Steps
<1>3. ASSUME NEW p \in Process,
             \/ \E e \in Event : Commit(p, e)
             \/ Maintain(p) \/ Stop(p) \/ GraceEnds(p) \/ Restart(p)
      PROVE  AllAfford(Depth, reach)'
  BY <1>3, LifeBudget
<1>4. ASSUME NEW p \in Process, StorageFails(p) \/ Crash(p) PROVE AllAfford(Depth, reach)'
  <2>1. faults' = faults + 1 /\ faults \in Nat
    BY <1>4, CalmParts DEF StorageFails, Crash, Fault
  <2> QED
    BY <2>1 DEF AllAfford
<1>5. CASE \/ \E e \in Event : BackoffEnds(e)
           \/ \E S \in SUBSET Event : Purge(S)
           \/ \E l \in LeaseId : LeaseEnds(l) \/ LeaseOutlived(l)
  <2>1. UNCHANGED disp /\ faults' \in {faults, faults + 1} /\ faults \in Nat
    BY <1>5, InvParts DEF BackoffEnds, Purge, LeaseEnds, LeaseOutlived, LeaseIsOver, Fault
  <2> QED
    BY <2>1 DEF AllAfford
<1> QED
  BY <1>1, <1>2, <1>3, <1>4, <1>5 DEF Next

LEMMA AffordInvariant ==
  ASSUME NEW Depth, NEW reach, Isolates(Depth, reach)
  PROVE  Spec => []AllAfford(Depth, reach)
<1>1. Init => AllAfford(Depth, reach)
  BY AffordInit
<1>2. OutboxInv /\ CalmInv /\ AllAfford(Depth, reach) /\ [Next]_vars => AllAfford(Depth, reach)'
  BY AffordNext
<1> QED
  BY <1>1, <1>2, Invariant, CalmInvariant, PTL DEF Spec

\* One poison event costs the others nothing, for batches of any length: as long
\* as nothing else fails, the event the broker refuses is isolated before the
\* calls run out, and only it is rescheduled as failed (outbox-dispatcher.ts,
\* DEFAULT_MAX_ISOLATION_ATTEMPTS).
THEOREM PoisonCostsItself ==
  ASSUME NEW Depth, NEW reach, Isolates(Depth, reach)
  PROVE  Spec => []OnlyPoisonIsBlamed
<1>1. AllAfford(Depth, reach) => OnlyPoisonIsBlamed
  BY DEF AllAfford, Budget, OnlyPoisonIsBlamed
<1>2. Spec => []AllAfford(Depth, reach)
  BY AffordInvariant
<1> QED
  BY <1>1, <1>2, PTL

\* "Isolating one poison row from a 1,000-row batch needs up to 21 broker calls":
\* with Depth halvings from a batch to a row, 2 * Depth + 1 calls are enough.
THEOREM IsolationCost ==
  ASSUME NEW Depth, NEW reach, Isolates(Depth, reach)
  PROVE  Spec => [](faults = 0 => \A p \in Process : disp[p].calls <= 2 * Depth + 1)
<1>1. OutboxInv /\ CalmInv /\ AllAfford(Depth, reach) =>
        (faults = 0 => \A p \in Process : disp[p].calls <= 2 * Depth + 1)
  <2> SUFFICES ASSUME OutboxInv, CalmInv, AllAfford(Depth, reach), faults = 0, NEW p \in Process
               PROVE  disp[p].calls <= 2 * Depth + 1
    OBVIOUS
  <2> DEFINE r == disp[p]
             made == IF r.pass = "publish" THEN r.calls - 1 ELSE r.calls
  <2>1. r \in Dispatcher /\ (r.pass = "publish" => r.pending # <<>>)
    BY CalmParts
  <2>2. PICK d \in 0..Depth : made + Len(r.pending) + 2 * d <= 2 * Depth + 1
    BY DEF AllAfford, Budget, Affords
  <2>3. /\ r.calls \in Nat /\ Len(r.pending) \in Nat /\ (r.pending # <<>> => Len(r.pending) # 0)
        /\ Depth \in Nat /\ d \in Nat
    BY <2>1 DEF Dispatcher, Isolates
  <2>4. r.calls <= 2 * Depth + 1
    <3> HIDE DEF r
    <3> QED
      BY <2>1, <2>2, <2>3
  <2> QED
    BY <2>4
<1>2. Spec => []AllAfford(Depth, reach)
  BY AffordInvariant
<1> QED
  BY <1>1, <1>2, Invariant, CalmInvariant, PTL
=============================================================================
