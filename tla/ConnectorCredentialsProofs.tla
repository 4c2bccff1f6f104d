---------------------- MODULE ConnectorCredentialsProofs ----------------------
(***************************************************************************)
(* Proofs about ConnectorCredentials for any processes, slots and number   *)
(* of mutations.  The record, the provider's calls and what the            *)
(* operations remember of both are related by one inductive invariant;     *)
(* the storage calls and the steps of a provider call preserve the first   *)
(* part of it, and an operation keeps its own part while others move the   *)
(* record.  On top of it a second invariant says which records and tokens  *)
(* a token request may remember, so that no rejected token comes back.     *)
(***************************************************************************)
EXTENDS ConnectorCredentials, TLAPS

USE MaxMutationsAssumption

-----------------------------------------------------------------------------
(* The inductive invariant *)

AnyKind == Kind \cup {"none"}
Phase == {"none", "prepared", "executing", "result_staged"}

MutationRecord == [id : Token, kind : AnyKind, phase : Phase, expired : BOOLEAN, slots : SUBSET Slot]

SeenRecord == [status : Status, revision : Nat, cred : Token, id : Token, kind : AnyKind, phase : Phase]

CallRecord == [state : {"none", "sent", "answered", "staging", "staged", "refused", "done",
                        "retryable", "terminal", "ambiguous"},
               kind : AnyKind, cred : Token, live : BOOLEAN]

OpRecord == [pc : {"idle", "read", "recover", "demote", "settle", "claim", "mark", "call",
                   "reread", "caught", "release", "fail", "served"},
             kind : AnyKind, at : {"stable", "again", "prepare", "poll", "end"}, base : Nat,
             rejected : [held : BOOLEAN, revision : Nat, cred : Token],
             slots : SUBSET Slot, seen : SeenRecord, id : Token, rev : Nat, cred : Token,
             error : {"none", "ambiguous", "retryable", "terminal"}]

\* The record: its types, the status each kind of mutation goes with, and the
\* credentials, which are named in the order they are obtained.
RecordTyped == /\ status \in Status /\ revision \in Nat /\ cred \in Token /\ claims \in Token
               /\ attached \subseteq Slot /\ mutation \in MutationRecord

MutationOK == /\ mutation.id \in {0, claims}
              /\ mutation.id = 0 => mutation = NoMutation
              /\ mutation.id # 0 => /\ mutation.kind \in Kind /\ mutation.phase # "none"
                                    /\ cred < mutation.id

KindOK == /\ mutation.kind = "refresh" => status = "active"
          /\ mutation.kind = "reauthorization" => status \in {"active", "needs_reauthorization"}
          /\ mutation.kind = "revocation" => status = "revocation_pending"

\* The provider's calls: the one of the current mutation presents the stored
\* credential, and no token is named later than its call.
CallsOK ==
  /\ call \in [Id -> CallRecord] /\ cred <= claims
  /\ \A i \in Id : call[i].state # "none" => i <= claims /\ call[i].cred < i
  /\ \A i \in Id : call[i].kind = "refresh" => call[i].state # "none"
  /\ \A i \in Id : i = mutation.id =>
        /\ mutation.phase = "prepared" => call[i].state = "none"
        /\ call[i].state # "none" => call[i].kind = mutation.kind /\ call[i].cred = cred
  /\ spent \subseteq Token /\ \A c \in spent : c < claims

\* The stored credential of a grant that is or may come into use was presented by
\* no call but the current one and those known to have changed nothing ...
Usable == status \in {"pending_selection", "active"}

PresentedOnce == Usable => \A i \in Id :
  call[i].kind = "refresh" /\ call[i].cred = cred /\ i # mutation.id => call[i].state = "retryable"

\* ... and is rotated away only by the current one.
SpentByCurrent ==
  Usable /\ cred \in spent =>
    /\ mutation.kind = "refresh" /\ mutation.phase \in {"executing", "result_staged"}
    /\ call[mutation.id].state \notin {"none", "sent", "retryable"}

RecordInv == /\ RecordTyped /\ MutationOK /\ KindOK /\ GrantHasUsers /\ ReauthorizesWhatItSaw
             /\ CallsOK /\ PresentedOnce /\ SpentByCurrent /\ NoUnknownEffectReplayed

Holder == {"mark", "call", "caught", "release", "fail"}

\* What an operation o may rely on after others have moved the record: m is the
\* mutation, n the number of claims, c the stored credential and k the calls.
Sound(o, m, n, c, k) ==
  /\ o.pc \notin {"idle", "served"} => o.kind \in Kind
  /\ o.pc \in Holder => /\ o.id \in 1..n
                        /\ o.id = m.id => m.kind = o.kind
  /\ o.pc = "mark" /\ o.id = m.id => m.phase = "prepared" /\ o.cred = c
  /\ o.pc = "call" => k[o.id].state # "none"
  /\ o.pc \in {"caught", "release"} /\ o.error = "retryable" => k[o.id].state = "retryable"
  /\ o.pc = "release" /\ o.kind = "refresh" /\ o.error # "retryable" /\ o.id = m.id
       => m.phase = "prepared"
  /\ o.pc = "fail" => o.kind # "revocation"
  /\ o.pc \in {"demote", "settle"} => /\ o.seen.id \in 0..n
                                      /\ o.seen.id # 0 /\ o.seen.id = m.id => m.kind = o.seen.kind
  /\ o.pc = "demote" => o.seen.kind # "revocation"
  /\ o.pc \in {"claim", "mark"} => o.at # "end"
  /\ o.pc \in {"read", "recover", "demote", "settle", "claim", "mark"} /\ o.at # "end"
       => o.error = "none"

OpsTyped == op \in [Process -> OpRecord]

OpsInv == /\ OpsTyped
          /\ \A p \in Process : Sound(op[p], mutation, claims, cred, call)
          /\ \A p, q \in Process : p # q /\ op[p].pc \in Holder /\ op[q].pc \in Holder
                                     => op[p].id # op[q].id

CInv == RecordInv /\ OpsInv

LEMMA CInvType == CInv => TypeOK
<1> SUFFICES ASSUME CInv PROVE TypeOK
  OBVIOUS
<1>1. mutation.id = 0 <=> mutation.phase = "none"
  BY DEF CInv, RecordInv, MutationOK, NoMutation
<1> QED  BY <1>1 DEF CInv, RecordInv, RecordTyped, MutationOK, CallsOK, TypeOK, MutationRecord, Phase

LEMMA CInvLive == CInv => ActiveCredentialIsLive
<1> SUFFICES ASSUME CInv, status = "active", mutation.phase # "executing", StagedCred \in spent
             PROVE  FALSE
  BY DEF ActiveCredentialIsLive
<1>1. CASE mutation.phase = "result_staged"
  <2>1. mutation.id = claims /\ claims \in Nat
    BY <1>1 DEF CInv, RecordInv, RecordTyped, MutationOK, NoMutation, Token
  <2> QED  BY <1>1, <2>1 DEF CInv, RecordInv, CallsOK, StagedCred
<1>2. CASE mutation.phase # "result_staged"
  BY <1>2 DEF CInv, RecordInv, SpentByCurrent, Usable, StagedCred
<1> QED  BY <1>1, <1>2

-----------------------------------------------------------------------------
(* What storage and provider may do to the record *)

worldVars == <<record, attached, claims, provider>>

\* What stays true of a mutation and of the calls when others move the record.
Forward == /\ claims' \in Nat /\ claims <= claims'
           /\ mutation'.id = 0 \/ mutation'.id > claims
              \/ (mutation'.id = mutation.id /\ mutation'.kind = mutation.kind /\ cred' = cred)
           /\ \A i \in Id : /\ call[i].state = "retryable" => call'[i].state = "retryable"
                            /\ call[i].state # "none" => call'[i].state # "none"

\* A mutation that waits for its call goes on waiting.
Waits == mutation'.id = mutation.id /\ mutation.phase = "prepared" => mutation'.phase = "prepared"

Final == /\ status = "revocation_pending" => status' \in {"revocation_pending", "revoked"}
         /\ status = "revoked" => status' = "revoked"

Kept == mutation.phase = "result_staged" /\ mutation' # mutation =>
          IF mutation.kind = "revocation" THEN status' = "revoked" ELSE cred' = mutation.id

MovesOn == RecordInv' /\ Forward /\ Final /\ Kept

Moves == MovesOn /\ Waits

LEMMA Current0 ==
  ASSUME RecordInv
  PROVE  /\ mutation \in MutationRecord /\ claims \in Nat /\ cred \in Nat /\ revision \in Nat
         /\ mutation.id \in Nat /\ NoMutation \in MutationRecord
         /\ NoMutation.id = 0 /\ NoMutation.kind = "none" /\ NoMutation.phase = "none"
  BY DEF RecordInv, RecordTyped, MutationRecord, NoMutation, Token, AnyKind, Phase

LEMMA NothingMoves ==
  ASSUME RecordInv, UNCHANGED worldVars
  PROVE  Moves
<1>1. UNCHANGED <<status, revision, cred, mutation, attached, claims, call, spent>>
  BY DEF worldVars, record, provider
<1>2. RecordInv'
  BY <1>1 DEF RecordInv, RecordTyped, MutationOK, KindOK, GrantHasUsers, ReauthorizesWhatItSaw,
              CallsOK, PresentedOnce, SpentByCurrent, Usable, NoUnknownEffectReplayed
<1> QED  BY <1>1, <1>2, Current0 DEF Moves, MovesOn, Forward, Waits, Final, Kept

\* A mutation fails closed.
LEMMA FailsClosedMoves ==
  ASSUME RecordInv, mutation.id # 0, mutation.kind # "revocation",
         NEW c \in {cred, StagedCred}, mutation.phase = "result_staged" => c = StagedCred,
         WriteEnd("needs_reauthorization", c), UNCHANGED <<attached, claims, provider>>
  PROVE  Moves
<1>1. /\ status' = "needs_reauthorization" /\ cred' = c /\ revision' = revision + 1
      /\ mutation' = NoMutation /\ UNCHANGED <<attached, claims, call, spent>>
  BY DEF WriteEnd, provider
<1>2. c \in Token /\ c <= claims /\ (mutation.phase = "result_staged" => c = mutation.id)
  BY Current0 DEF RecordInv, RecordTyped, MutationOK, StagedCred, Token
<1>3. status \in {"active", "needs_reauthorization"}
  BY DEF RecordInv, MutationOK, KindOK, Kind
<1>4. RecordTyped' /\ MutationOK' /\ KindOK' /\ GrantHasUsers' /\ ReauthorizesWhatItSaw'
  BY <1>1, <1>2, <1>3, Current0
     DEF RecordInv, RecordTyped, MutationOK, KindOK, GrantHasUsers, ReauthorizesWhatItSaw, Status
<1>5. CallsOK'
  BY <1>1, <1>2, Current0 DEF RecordInv, CallsOK, Id
<1>6. PresentedOnce' /\ SpentByCurrent' /\ NoUnknownEffectReplayed'
  BY <1>1 DEF RecordInv, PresentedOnce, SpentByCurrent, Usable, NoUnknownEffectReplayed
<1> QED  BY <1>1, <1>2, <1>3, <1>4, <1>5, <1>6, Current0 DEF Moves, MovesOn, RecordInv, Forward, Waits, Final, Kept

\* A staged exchange is finalized.
LEMMA SucceedsMoves ==
  ASSUME RecordInv, mutation.id # 0, mutation.kind # "revocation",
         WriteEnd("active", mutation.id), UNCHANGED <<attached, claims, provider>>
  PROVE  Moves
<1>1. /\ status' = "active" /\ cred' = mutation.id /\ revision' = revision + 1
      /\ mutation' = NoMutation /\ UNCHANGED <<attached, claims, call, spent>>
  BY DEF WriteEnd, provider
<1>2. cred' \in Token /\ cred' = claims
  BY <1>1 DEF RecordInv, RecordTyped, MutationOK
<1>3. status \in {"active", "needs_reauthorization"}
  BY DEF RecordInv, MutationOK, KindOK, Kind
<1>4. RecordTyped' /\ MutationOK' /\ KindOK' /\ GrantHasUsers' /\ ReauthorizesWhatItSaw'
  BY <1>1, <1>2, <1>3, Current0
     DEF RecordInv, RecordTyped, MutationOK, KindOK, GrantHasUsers, ReauthorizesWhatItSaw, Status
<1>5. CallsOK'
  BY <1>1, <1>2, Current0 DEF RecordInv, CallsOK, Id
<1>6. \A i \in Id : call[i].kind = "refresh" => call[i].cred # claims
  BY Current0 DEF RecordInv, CallsOK, CallRecord, Token, Id
<1>7. PresentedOnce' /\ SpentByCurrent' /\ NoUnknownEffectReplayed'
  BY <1>1, <1>2, <1>6, Current0
     DEF RecordInv, CallsOK, PresentedOnce, SpentByCurrent, Usable, NoUnknownEffectReplayed
<1> QED  BY <1>1, <1>2, <1>3, <1>4, <1>5, <1>7, Current0 DEF Moves, MovesOn, RecordInv, Forward, Waits, Final, Kept

\* A revocation is recorded.
LEMMA RevokedMoves ==
  ASSUME RecordInv, mutation.kind = "revocation",
         WriteEnd("revoked", 0), UNCHANGED <<attached, claims, provider>>
  PROVE  Moves
<1>1. /\ status' = "revoked" /\ cred' = 0 /\ revision' = revision + 1
      /\ mutation' = NoMutation /\ UNCHANGED <<attached, claims, call, spent>>
  BY DEF WriteEnd, provider
<1>2. status = "revocation_pending"
  BY DEF RecordInv, KindOK
<1>3. RecordTyped' /\ MutationOK' /\ KindOK' /\ GrantHasUsers' /\ ReauthorizesWhatItSaw'
  BY <1>1, <1>2, Current0
     DEF RecordInv, RecordTyped, MutationOK, KindOK, GrantHasUsers, ReauthorizesWhatItSaw, Status, Token
<1>4. CallsOK'
  BY <1>1, Current0 DEF RecordInv, CallsOK, Id
<1>5. PresentedOnce' /\ SpentByCurrent' /\ NoUnknownEffectReplayed'
  BY <1>1 DEF RecordInv, PresentedOnce, SpentByCurrent, Usable, NoUnknownEffectReplayed
<1> QED  BY <1>1, <1>2, <1>3, <1>4, <1>5, Current0
     DEF Moves, MovesOn, RecordInv, MutationOK, Forward, Waits, Final, Kept

\* A mutation is given back: its call was not made, or changed nothing, or does
\* not present a refresh token, or the grant is not usable any more.
LEMMA ClearMoves ==
  ASSUME RecordInv, mutation' = NoMutation, mutation.phase # "result_staged",
         UNCHANGED <<status, revision, cred, attached, claims, provider>>,
         mutation.id # 0 => \/ mutation.kind # "refresh" \/ mutation.phase = "prepared"
                            \/ call[mutation.id].state = "retryable"
  PROVE  Moves
<1>1. UNCHANGED <<status, revision, cred, attached, claims, call, spent>>
  BY DEF provider
<1>2. RecordTyped' /\ MutationOK' /\ KindOK' /\ GrantHasUsers' /\ ReauthorizesWhatItSaw'
  BY <1>1, Current0
     DEF RecordInv, RecordTyped, MutationOK, KindOK, GrantHasUsers, ReauthorizesWhatItSaw
<1>3. CallsOK'
  BY <1>1, Current0 DEF RecordInv, CallsOK, Id
<1>4. PresentedOnce'
  BY <1>1, Current0 DEF RecordInv, PresentedOnce, Usable, CallsOK, MutationOK, Id
<1>5. SpentByCurrent'
  <2>1. Usable /\ cred \in spent => mutation.id # 0
    BY DEF RecordInv, SpentByCurrent, MutationOK, NoMutation
  <2> QED  BY <1>1, <2>1 DEF RecordInv, SpentByCurrent, Usable
<1>6. NoUnknownEffectReplayed'
  BY <1>1 DEF RecordInv, NoUnknownEffectReplayed
<1> QED  BY <1>1, <1>2, <1>3, <1>4, <1>5, <1>6, Current0
     DEF Moves, MovesOn, RecordInv, MutationOK, Forward, Waits, Final, Kept

\* A claim: the stored credential was presented by no call whose effect is unknown.
LEMMA ClaimMoves ==
  ASSUME RecordInv, claims < MaxMutations, NEW kind \in Kind, NEW rev, NEW slots \in SUBSET Slot,
         CanClaim(kind, rev, slots), WriteClaim(kind, slots), UNCHANGED provider
  PROVE  Moves
<1>1. /\ claims' = claims + 1 /\ UNCHANGED <<cred, call, spent>>
      /\ mutation' = [id |-> claims + 1, kind |-> kind, phase |-> "prepared",
                      expired |-> FALSE, slots |-> slots]
      /\ status' = IF kind = "revocation" THEN "revocation_pending" ELSE status
      /\ revision' = IF kind = "revocation" /\ status # "revocation_pending"
                     THEN revision + 1 ELSE revision
      /\ attached' = IF kind = "revocation" THEN {} ELSE attached
  BY DEF WriteClaim, provider
<1>2. /\ status \in Claimable(kind) /\ (kind = "reauthorization" => attached = slots)
      /\ mutation.id # 0 => mutation.phase = "prepared"
  BY DEF CanClaim
<1>3. /\ kind = "refresh" => status = "active"
      /\ kind = "reauthorization" => status \in {"active", "needs_reauthorization"}
      /\ kind = "revocation" => status # "revoked"
  BY <1>2 DEF Claimable
<1>4. claims' \in Token /\ claims' \in Nat
  BY <1>1, Current0 DEF Token, Id
<1>5. /\ mutation' \in MutationRecord /\ mutation'.id = claims' /\ mutation'.kind = kind
      /\ mutation'.phase = "prepared" /\ mutation'.slots = slots
  BY <1>1, <1>4 DEF MutationRecord, AnyKind, Phase, Token
<1>6. RecordTyped' /\ KindOK' /\ GrantHasUsers' /\ ReauthorizesWhatItSaw'
  BY <1>1, <1>2, <1>3, <1>4, <1>5, Current0
     DEF RecordInv, RecordTyped, KindOK, GrantHasUsers, ReauthorizesWhatItSaw, Status, Kind
<1>7. MutationOK' /\ cred' < mutation'.id
  BY <1>1, <1>5, Current0 DEF RecordInv, CallsOK, MutationOK
<1>8. CallsOK'
  BY <1>1, <1>4, <1>5, Current0 DEF RecordInv, CallsOK, Id
<1>9. Usable' => Usable
  BY <1>1, <1>2 DEF Usable
<1>10. PresentedOnce'
  BY <1>1, <1>2, <1>9, Current0 DEF RecordInv, PresentedOnce, CallsOK, MutationOK, Id
<1>11. SpentByCurrent'
  <2>1. ~(Usable /\ cred \in spent)
    BY <1>2 DEF RecordInv, SpentByCurrent, MutationOK, NoMutation
  <2> QED  BY <1>1, <1>9, <2>1 DEF SpentByCurrent
<1>12. NoUnknownEffectReplayed'
  BY <1>1 DEF RecordInv, NoUnknownEffectReplayed
<1>13. Forward /\ Waits /\ Final /\ Kept
  BY <1>1, <1>2, <1>3, <1>5, Current0 DEF RecordInv, MutationOK, NoMutation, Forward, Waits, Final, Kept
<1> QED  BY <1>6, <1>7, <1>8, <1>10, <1>11, <1>12, <1>13 DEF Moves, MovesOn, RecordInv

\* The call of the current mutation begins, and presents the stored credential.
LEMMA ExecuteMoves ==
  ASSUME RecordInv, mutation.id # 0, mutation.phase = "prepared",
         mutation' = [mutation EXCEPT !.phase = "executing"],
         call' = [call EXCEPT ![mutation.id] =
                    [state |-> "sent", kind |-> mutation.kind, cred |-> cred, live |-> TRUE]],
         UNCHANGED <<status, revision, cred, attached, claims, spent>>
  PROVE  MovesOn
<1> DEFINE i == mutation.id
<1>1. i \in Id /\ i = claims /\ cred < i /\ mutation.kind \in Kind
  BY Current0 DEF RecordInv, RecordTyped, MutationOK, Token, Id
<1>2. /\ mutation' \in MutationRecord /\ mutation'.id = i /\ mutation'.kind = mutation.kind
      /\ mutation'.phase = "executing" /\ mutation'.slots = mutation.slots
  BY Current0 DEF MutationRecord, Phase
<1>3. [state |-> "sent", kind |-> mutation.kind, cred |-> cred, live |-> TRUE] \in CallRecord
  BY <1>1 DEF CallRecord, AnyKind, RecordInv, RecordTyped
<1>4. /\ call' \in [Id -> CallRecord] /\ call'[i].state = "sent" /\ call'[i].kind = mutation.kind
      /\ call'[i].cred = cred /\ \A j \in Id \ {i} : call'[j] = call[j]
  BY <1>1, <1>3 DEF RecordInv, CallsOK
<1> HIDE DEF i
<1>5. RecordTyped' /\ MutationOK' /\ KindOK' /\ GrantHasUsers' /\ ReauthorizesWhatItSaw'
  BY <1>1, <1>2, Current0
     DEF RecordInv, RecordTyped, MutationOK, KindOK, GrantHasUsers, ReauthorizesWhatItSaw, i
<1>6. CallsOK'
  BY <1>1, <1>2, <1>4, Current0 DEF RecordInv, CallsOK
<1>7. PresentedOnce'
  BY <1>1, <1>2, <1>4 DEF RecordInv, PresentedOnce, Usable, i
<1>8. SpentByCurrent'
  <2>1. ~(Usable /\ cred \in spent)
    BY DEF RecordInv, SpentByCurrent
  <2> QED  BY <2>1 DEF SpentByCurrent, Usable
<1>9. NoUnknownEffectReplayed'
  <2>1. mutation.kind = "refresh" => Usable
    BY DEF RecordInv, KindOK, Usable
  <2>2. \A j \in Id \ {i} : mutation.kind = "refresh" /\ call[j].kind = "refresh" /\ call[j].cred = cred
                              => call[j].state = "retryable"
    BY <2>1 DEF RecordInv, PresentedOnce, i
  <2> QED  BY <1>1, <1>4, <2>2 DEF RecordInv, NoUnknownEffectReplayed
<1>10. \A j \in Id : /\ call[j].state = "retryable" => call'[j].state = "retryable"
                     /\ call[j].state # "none" => call'[j].state # "none"
  BY <1>1, <1>4 DEF RecordInv, CallsOK, i
<1> QED  BY <1>1, <1>2, <1>5, <1>6, <1>7, <1>8, <1>9, <1>10, Current0
         DEF MovesOn, RecordInv, Forward, Final, Kept, i

\* A slot is connected or disconnected, or the grant is given up.
LEMMA ConnectionsMove ==
  ASSUME RecordInv, UNCHANGED <<cred, mutation, claims, provider>>,
         RecordTyped', KindOK', GrantHasUsers', ReauthorizesWhatItSaw', Final, Usable' => Usable
  PROVE  Moves
<1>1. UNCHANGED <<cred, mutation, claims, call, spent>>
  BY DEF provider
<1>2. MutationOK' /\ CallsOK' /\ PresentedOnce' /\ SpentByCurrent' /\ NoUnknownEffectReplayed'
  BY <1>1 DEF RecordInv, MutationOK, CallsOK, PresentedOnce, SpentByCurrent, NoUnknownEffectReplayed
<1> QED  BY <1>1, <1>2, Current0 DEF Moves, MovesOn, RecordInv, Forward, Waits, Kept

LEMMA ConnectMoves ==
  ASSUME RecordInv, NEW s \in Slot, Connect(s)
  PROVE  Moves
<1>1. RecordTyped'
  BY Current0 DEF RecordInv, RecordTyped, Connect, Status
<1>2. KindOK' /\ GrantHasUsers' /\ ReauthorizesWhatItSaw' /\ Final /\ (Usable' => Usable)
  BY DEF RecordInv, Connect, KindOK, GrantHasUsers, ReauthorizesWhatItSaw, Final, Usable
<1> QED  BY <1>1, <1>2, ConnectionsMove DEF Connect

LEMMA DisconnectMoves ==
  ASSUME RecordInv, NEW s \in Slot, Disconnect(s)
  PROVE  Moves
<1>1. RecordTyped'
  BY Current0 DEF RecordInv, RecordTyped, Disconnect, Status
<1>2. status \in {"active", "needs_reauthorization"}
  BY DEF RecordInv, GrantHasUsers, Disconnect
<1>3. attached' = {} => mutation.id = 0 /\ mutation.kind = "none" /\ status' = "revocation_pending"
  BY Current0 DEF Disconnect, RecordInv, MutationOK
<1>4. attached' # {} => UNCHANGED status
  BY DEF Disconnect
<1>5. KindOK' /\ GrantHasUsers' /\ ReauthorizesWhatItSaw' /\ Final /\ (Usable' => Usable)
  BY <1>2, <1>3, <1>4
     DEF RecordInv, Disconnect, KindOK, GrantHasUsers, ReauthorizesWhatItSaw, Final, Usable
<1> QED  BY <1>1, <1>5, ConnectionsMove DEF Disconnect

LEMMA AbandonMoves ==
  ASSUME RecordInv, AbandonSelection
  PROVE  Moves
<1>1. RecordTyped'
  BY Current0 DEF RecordInv, RecordTyped, AbandonSelection, Status
<1>2. KindOK' /\ GrantHasUsers' /\ ReauthorizesWhatItSaw' /\ Final /\ (Usable' => Usable)
  BY Current0 DEF RecordInv, MutationOK, AbandonSelection, KindOK, GrantHasUsers,
                  ReauthorizesWhatItSaw, Final, Usable
<1> QED  BY <1>1, <1>2, ConnectionsMove DEF AbandonSelection

LEMMA LeaseEndsMoves ==
  ASSUME RecordInv, LeaseEnds
  PROVE  Moves
<1>1. /\ UNCHANGED <<status, revision, cred, attached, claims, call, spent>>
      /\ mutation' = [mutation EXCEPT !.expired = TRUE]
      /\ mutation.phase \in {"prepared", "executing"}
  BY DEF LeaseEnds, provider
<1>2. /\ mutation' \in MutationRecord /\ mutation'.id = mutation.id /\ mutation'.kind = mutation.kind
      /\ mutation'.phase = mutation.phase /\ mutation'.slots = mutation.slots
  BY <1>1, Current0 DEF MutationRecord
<1>3. RecordTyped' /\ MutationOK' /\ KindOK' /\ GrantHasUsers' /\ ReauthorizesWhatItSaw'
  BY <1>1, <1>2
     DEF RecordInv, RecordTyped, MutationOK, KindOK, GrantHasUsers, ReauthorizesWhatItSaw, NoMutation
<1>4. CallsOK' /\ PresentedOnce' /\ SpentByCurrent' /\ NoUnknownEffectReplayed'
  BY <1>1, <1>2 DEF RecordInv, CallsOK, PresentedOnce, SpentByCurrent, Usable, NoUnknownEffectReplayed
<1> QED  BY <1>1, <1>2, <1>3, <1>4, Current0 DEF Moves, MovesOn, RecordInv, Forward, Waits, Final, Kept

\* A call goes on: it was made, and is not unmade.  Its result may be staged.
LEMMA CallMoves ==
  ASSUME RecordInv, NEW i \in Id, NEW c \in CallRecord, call' = [call EXCEPT ![i] = c],
         c.kind = call[i].kind, c.cred = call[i].cred, c.state # "none",
         call[i].state \notin {"none", "retryable"} \/ c.state = call[i].state,
         c.state = "retryable" => call[i].state \in {"sent", "retryable"},
         c.state = "sent" => call[i].state = "sent",
         UNCHANGED <<status, revision, cred, attached, claims>>,
         \/ UNCHANGED mutation
         \/ mutation.phase = "executing" /\ mutation' = [mutation EXCEPT !.phase = "result_staged"],
         \/ UNCHANGED spent
         \/ spent' = spent \cup {call[i].cred} /\ call[i].kind = "refresh"
              /\ call[i].state = "sent" /\ c.state \notin {"sent", "retryable"}
  PROVE  Moves
<1>1. /\ mutation' \in MutationRecord /\ mutation'.id = mutation.id /\ mutation'.kind = mutation.kind
      /\ mutation'.slots = mutation.slots
      /\ mutation' = mutation \/ (mutation.phase = "executing" /\ mutation'.phase = "result_staged")
  BY Current0 DEF MutationRecord, Phase
<1>2. /\ call' \in [Id -> CallRecord] /\ call'[i] = c /\ \A j \in Id \ {i} : call'[j] = call[j]
  BY DEF RecordInv, CallsOK
<1>3. call[i].state # "none" /\ i <= claims /\ call[i].cred < i /\ call[i].cred \in Token
  BY DEF RecordInv, CallsOK, CallRecord
<1>4. i \in Nat /\ call[i].cred \in Nat
  BY <1>3 DEF Id, Token
<1>5. mutation.id = 0 => mutation' = mutation
  BY <1>1 DEF RecordInv, MutationOK, NoMutation
<1>6. RecordTyped' /\ MutationOK' /\ KindOK' /\ GrantHasUsers' /\ ReauthorizesWhatItSaw'
  BY <1>1, <1>5
     DEF RecordInv, RecordTyped, MutationOK, KindOK, GrantHasUsers, ReauthorizesWhatItSaw
<1>7. CallsOK'
  <2>1. spent' \subseteq Token /\ \A t \in spent' : t < claims
    BY <1>3, <1>4, Current0 DEF RecordInv, CallsOK
  <2> QED  BY <1>1, <1>2, <1>3, <2>1 DEF RecordInv, CallsOK
<1>8. PresentedOnce'
  BY <1>1, <1>2 DEF RecordInv, PresentedOnce, Usable
<1>9. SpentByCurrent'
  <2>1. SUFFICES ASSUME Usable, cred \in spent'
                 PROVE  /\ mutation.kind = "refresh" /\ mutation'.phase \in {"executing", "result_staged"}
                        /\ call'[mutation.id].state \notin {"none", "sent", "retryable"}
    BY <1>1 DEF SpentByCurrent, Usable
  <2>2. CASE cred \in spent
    <3>1. /\ mutation.kind = "refresh" /\ mutation.phase \in {"executing", "result_staged"}
          /\ call[mutation.id].state \notin {"none", "sent", "retryable"}
      BY <2>1, <2>2 DEF RecordInv, SpentByCurrent
    <3>2. mutation.id \in Id
      BY <3>1, Current0 DEF RecordInv, RecordTyped, MutationOK, Token, Id
    <3> QED  BY <1>1, <1>2, <3>1, <3>2
  <2>3. CASE cred \notin spent
    <3>1. /\ cred = call[i].cred /\ call[i].kind = "refresh" /\ call[i].state = "sent"
          /\ c.state \notin {"sent", "retryable", "none"}
      BY <2>1, <2>3
    <3>2. i = mutation.id
      BY <2>1, <3>1 DEF RecordInv, PresentedOnce
    <3>3. mutation.kind = "refresh" /\ mutation.phase # "prepared" /\ mutation.phase # "none"
      BY <3>1, <3>2, <1>4 DEF RecordInv, CallsOK, MutationOK, Id
    <3> QED  BY <1>1, <1>2, <3>1, <3>2, <3>3, Current0 DEF MutationRecord, Phase
  <2> QED  BY <2>2, <2>3
<1>10. NoUnknownEffectReplayed'
  BY <1>2 DEF RecordInv, NoUnknownEffectReplayed
<1>11. \A j \in Id : /\ call[j].state = "retryable" => call'[j].state = "retryable"
                     /\ call[j].state # "none" => call'[j].state # "none"
  BY <1>2
<1> QED  BY <1>1, <1>6, <1>7, <1>8, <1>9, <1>10, <1>11, Current0
         DEF Moves, MovesOn, RecordInv, Forward, Waits, Final, Kept

-----------------------------------------------------------------------------
(* What operations remember *)

StepGood == CInv' /\ Final /\ Kept

\* Others move the record only forward: what an operation relies on stays.
LEMMA SoundStays ==
  ASSUME CInv, NEW q \in Process, Forward,
         Waits \/ (op[q].pc \in Holder => op[q].id # mutation.id)
  PROVE  Sound(op[q], mutation', claims', cred', call')
<1> DEFINE o == op[q]
<1>1. Sound(o, mutation, claims, cred, call) /\ o \in OpRecord /\ claims \in Nat
  BY Current0 DEF CInv, OpsInv, OpsTyped
<1>2. \A i \in 1..claims : i = mutation'.id =>
        i = mutation.id /\ mutation'.kind = mutation.kind /\ cred' = cred
  BY Current0 DEF CInv, Forward
<1>3. o.pc \in Holder => /\ o.id \in 1..claims' /\ o.id \in 1..claims /\ o.id \in Id
                         /\ o.id = mutation'.id => mutation'.kind = o.kind
  BY <1>1, <1>2, Current0 DEF Sound, Forward, CInv, RecordInv, RecordTyped, Token, Id
<1>4. o.pc = "mark" /\ o.id = mutation'.id => mutation'.phase = "prepared" /\ o.cred = cred'
  BY <1>1, <1>2, <1>3 DEF Sound, Waits, Holder
<1>5. o.pc = "release" /\ o.kind = "refresh" /\ o.error # "retryable" /\ o.id = mutation'.id
        => mutation'.phase = "prepared"
  BY <1>1, <1>2, <1>3 DEF Sound, Waits, Holder
<1>6. o.pc \in {"demote", "settle"} =>
        /\ o.seen.id \in 0..claims'
        /\ o.seen.id # 0 /\ o.seen.id = mutation'.id => mutation'.kind = o.seen.kind
  BY <1>1, <1>2, Current0 DEF Sound, Forward
<1>7. /\ o.pc \in {"caught", "release"} /\ o.error = "retryable" => call'[o.id].state = "retryable"
      /\ o.pc = "call" => call'[o.id].state # "none"
  BY <1>1, <1>3 DEF Sound, Forward, Holder
<1> QED  BY <1>1, <1>3, <1>4, <1>5, <1>6, <1>7 DEF Sound

LEMMA OthersMove ==
  ASSUME CInv, Moves, UNCHANGED op
  PROVE  StepGood
<1>1. OpsInv'
  BY SoundStays DEF Moves, MovesOn, CInv, OpsInv, OpsTyped
<1> QED  BY <1>1 DEF StepGood, Moves, MovesOn, CInv

LEMMA OwnStep ==
  ASSUME CInv, MovesOn, NEW p \in Process, NEW o \in OpRecord, op' = [op EXCEPT ![p] = o],
         Waits \/ (op[p].pc \in Holder /\ op[p].id = mutation.id),
         Sound(o, mutation', claims', cred', call'),
         o.pc \in Holder => (op[p].pc \in Holder /\ o.id = op[p].id) \/ o.id > claims
  PROVE  StepGood
<1>1. /\ op' \in [Process -> OpRecord] /\ op'[p] = o
      /\ \A q \in Process \ {p} : op'[q] = op[q]
  BY DEF CInv, OpsInv, OpsTyped
<1>2. \A q \in Process \ {p} : Sound(op[q], mutation', claims', cred', call')
  BY SoundStays DEF CInv, OpsInv, MovesOn
<1>3. \A q \in Process : Sound(op'[q], mutation', claims', cred', call')
  BY <1>1, <1>2
<1>4. \A q \in Process : op[q].pc \in Holder => op[q].id \in 1..claims
  BY DEF CInv, OpsInv, Sound
<1>5. ASSUME NEW q \in Process \ {p}, op'[p].pc \in Holder, op'[q].pc \in Holder
      PROVE op'[p].id # op'[q].id
  <2>1. op[q].pc \in Holder /\ op'[q].id = op[q].id /\ op[q].id \in 1..claims
    BY <1>1, <1>4, <1>5
  <2>2. CASE op[p].pc \in Holder /\ o.id = op[p].id
    BY <1>1, <2>1, <2>2 DEF CInv, OpsInv
  <2>3. CASE o.id > claims
    BY <1>1, <2>1, <2>3, Current0 DEF CInv
  <2> QED  BY <1>1, <1>5, <2>2, <2>3
<1>6. \A a, b \in Process : a # b /\ op'[a].pc \in Holder /\ op'[b].pc \in Holder => op'[a].id # op'[b].id
  BY <1>1, <1>5 DEF CInv, OpsInv
<1>7. OpsInv'
  BY <1>1, <1>3, <1>6 DEF OpsInv, OpsTyped
<1> QED  BY <1>7 DEF StepGood, MovesOn, CInv

-----------------------------------------------------------------------------
(* The records operations work with *)

LEMMA Typed0 ==
  /\ NoRecord \in SeenRecord /\ 0 \in Token
  /\ Idle \in OpRecord /\ Idle.pc = "idle" /\ Idle.at = "stable" /\ Idle.error = "none"
<1>1. NoRecord \in SeenRecord /\ 0 \in Token
  BY DEF NoRecord, SeenRecord, Status, Token, AnyKind, Phase
<1>2. NoToken \in [held : BOOLEAN, revision : Nat, cred : Token]
  BY DEF NoToken, Token
<1> QED  BY <1>1, <1>2 DEF Idle, OpRecord, AnyKind, Token

LEMMA SeenTyped ==
  ASSUME NEW r \in SeenRecord
  PROVE  Seen(r) \in SeenRecord /\ Seen(r).id = r.id /\ Seen(r).kind = r.kind
  BY Typed0 DEF Seen, SeenRecord

LEMMA CurrentTyped ==
  ASSUME CInv
  PROVE  /\ Current \in SeenRecord /\ Current.id = mutation.id /\ Current.kind = mutation.kind
         /\ Current.status = status /\ Current.revision = revision /\ Current.cred = cred
  BY DEF CInv, RecordInv, RecordTyped, MutationRecord, Current, SeenRecord

LEMMA EndedTyped ==
  ASSUME CInv, NEW s \in Status, NEW c \in Token
  PROVE  Ended(s, c) \in SeenRecord
  BY Current0 DEF Ended, CInv, SeenRecord, Token, AnyKind, Phase

\* An operation stops.
LEMMA Stops ==
  ASSUME CInv, Moves, NEW p \in Process, Throw(p)
  PROVE  StepGood
<1>1. Sound(Idle, mutation', claims', cred', call')
  BY Typed0 DEF Sound, Holder
<1> QED  BY <1>1, Typed0, OwnStep DEF Moves, Throw, Go, Holder

LEMMA MoveToOp ==
  ASSUME CInv, NEW p \in Process, NEW r \in SeenRecord,
         NEW at \in {"stable", "again", "prepare", "poll", "end"},
         NEW pc \in {"read", "recover", "demote", "settle", "claim", "release", "fail"},
         MoveTo(p, at, pc, r)
  PROVE  \E o \in OpRecord : /\ op' = [op EXCEPT ![p] = o]
                             /\ o.pc = pc /\ o.at = at /\ o.seen = r /\ o.kind = op[p].kind
                             /\ o.id = op[p].id /\ o.error = op[p].error
<1> DEFINE o == [op[p] EXCEPT !.at = at, !.pc = pc, !.seen = r]
<1>1. op[p] \in OpRecord
  BY DEF CInv, OpsInv, OpsTyped
<1>2. o \in OpRecord /\ o.pc = pc /\ o.at = at /\ o.seen = r /\ o.kind = op[p].kind
      /\ o.id = op[p].id /\ o.error = op[p].error
  BY <1>1 DEF OpRecord
<1> QED  BY <1>2 DEF MoveTo, Go

\* Where an operation goes on with a record it was given.
GoesOn(o, r) == /\ o.pc \in {"idle", "served", "read", "claim"}
                /\ o.pc \in {"read", "claim"} => o.kind = r.kind /\ o.at # "end" /\ o.error = r.error

CarriesOn(p) ==
  \E o \in OpRecord : /\ op' = [op EXCEPT ![p] = o]
                      /\ GoesOn(o, op[p])
                      /\ o.pc \in {"read", "claim"} => op[p].at # "end"

LEMMA MoveToCarriesOn ==
  ASSUME CInv, NEW p \in Process, NEW r \in SeenRecord, op[p].at # "end",
         NEW at \in {"stable", "again", "prepare", "poll"}, NEW pc \in {"read", "claim"},
         MoveTo(p, at, pc, r)
  PROVE  CarriesOn(p)
<1>1. PICK o \in OpRecord : /\ op' = [op EXCEPT ![p] = o]
                            /\ o.pc = pc /\ o.at = at /\ o.seen = r /\ o.kind = op[p].kind
                            /\ o.id = op[p].id /\ o.error = op[p].error
  BY MoveToOp
<1>2. GoesOn(o, op[p])
  BY <1>1 DEF GoesOn
<1> QED  BY <1>1, <1>2 DEF CarriesOn

LEMMA EndOp ==
  ASSUME CInv, NEW p \in Process, NEW rec \in SeenRecord, End(p, rec)
  PROVE  \E o \in OpRecord : op' = [op EXCEPT ![p] = o] /\ o.pc \in {"idle", "served"}
<1>1. op[p] \in OpRecord
  BY DEF CInv, OpsInv, OpsTyped
<1>2. CASE op[p].kind = "refresh" /\ rec.status # "revoked"
  <2> DEFINE o == [Idle EXCEPT !.pc = "served", !.seen = rec, !.rejected = op[p].rejected]
  <2>1. o \in OpRecord /\ o.pc = "served"
    BY <1>1, Typed0 DEF OpRecord
  <2> QED  BY <1>2, <2>1 DEF End, Go
<1>3. CASE ~(op[p].kind = "refresh" /\ rec.status # "revoked")
  BY <1>3, Typed0 DEF End, Go
<1> QED  BY <1>2, <1>3

LEMMA ResumeOp ==
  ASSUME CInv, NEW p \in Process, NEW rec \in SeenRecord, Resume(p, rec)
  PROVE  CarriesOn(p)
<1>1. op[p] \in OpRecord /\ NoRecord \in SeenRecord /\ Seen(rec) \in SeenRecord
  BY Typed0, SeenTyped DEF CInv, OpsInv, OpsTyped
<1>2. CASE End(p, rec)
  BY <1>2, EndOp DEF GoesOn, CarriesOn
<1>3. CASE Throw(p)
  BY <1>3, Typed0 DEF Throw, Go, GoesOn, CarriesOn
<1>4. CASE op[p].at # "end" /\ \/ MoveTo(p, "stable", "read", NoRecord)
                               \/ MoveTo(p, "again", "read", NoRecord)
                               \/ MoveTo(p, "prepare", "read", NoRecord)
                               \/ MoveTo(p, "poll", "claim", Seen(rec))
  <2>1. CASE MoveTo(p, "stable", "read", NoRecord)
    BY <1>1, <1>4, <2>1, MoveToCarriesOn
  <2>2. CASE MoveTo(p, "again", "read", NoRecord)
    BY <1>1, <1>4, <2>2, MoveToCarriesOn
  <2>3. CASE MoveTo(p, "prepare", "read", NoRecord)
    BY <1>1, <1>4, <2>3, MoveToCarriesOn
  <2>4. CASE MoveTo(p, "poll", "claim", Seen(rec))
    BY <1>1, <1>4, <2>4, MoveToCarriesOn
  <2> QED  BY <1>4, <2>1, <2>2, <2>3, <2>4
<1>5. CASE op[p].at # "end" /\ Go(p, [op[p] EXCEPT !.at = "again", !.pc = "read",
                                        !.base = rec.revision, !.seen = NoRecord])
  <2> DEFINE o == [op[p] EXCEPT !.at = "again", !.pc = "read", !.base = rec.revision, !.seen = NoRecord]
  <2>1. o \in OpRecord /\ o.pc = "read" /\ o.at = "again" /\ o.kind = op[p].kind /\ o.error = op[p].error
    BY <1>1 DEF OpRecord, SeenRecord
  <2> QED  BY <1>5, <2>1 DEF Go, GoesOn, CarriesOn
<1>6. CASE op[p].at = "stable"
  <2>1. AfterStable(p, rec)
    BY <1>6 DEF Resume
  <2> QED  BY <1>2, <1>3, <1>4, <1>5, <1>6, <2>1 DEF AfterStable
<1>7. CASE op[p].at = "again"
  <2>1. AfterStableAgain(p, rec)
    BY <1>7 DEF Resume
  <2> QED  BY <1>2, <1>3, <1>4, <1>7, <2>1 DEF AfterStableAgain
<1>8. CASE op[p].at = "prepare"
  <2>1. AfterPrepare(p, rec)
    BY <1>8 DEF Resume
  <2> QED  BY <1>2, <1>3, <1>4, <1>8, <2>1 DEF AfterPrepare
<1>9. CASE op[p].at = "poll"
  <2>1. AfterPoll(p, rec)
    BY <1>9 DEF Resume
  <2> QED  BY <1>2, <1>3, <1>4, <1>9, <2>1 DEF AfterPoll
<1>10. CASE op[p].at = "end"
  BY <1>2, <1>10 DEF Resume
<1> QED  BY <1>1, <1>6, <1>7, <1>8, <1>9, <1>10 DEF OpRecord

\* An operation that goes on is sound whatever moved.
LEMMA ResumeGood ==
  ASSUME CInv, Moves, NEW p \in Process, NEW rec \in SeenRecord, Resume(p, rec),
         op[p].pc \in {"read", "recover", "demote", "settle"}
  PROVE  StepGood
<1>1. PICK o \in OpRecord : /\ op' = [op EXCEPT ![p] = o] /\ GoesOn(o, op[p])
                            /\ o.pc \in {"read", "claim"} => op[p].at # "end"
  BY ResumeOp DEF CarriesOn
<1>2. op[p].kind \in Kind /\ (op[p].at # "end" => op[p].error = "none")
  BY DEF CInv, OpsInv, Sound
<1>3. Sound(o, mutation', claims', cred', call') /\ o.pc \notin Holder
  BY <1>1, <1>2 DEF GoesOn, Sound, Holder
<1> QED  BY <1>1, <1>3, OwnStep DEF Moves

LEMMA EndGood ==
  ASSUME CInv, Moves, NEW p \in Process, NEW rec \in SeenRecord, End(p, rec)
  PROVE  StepGood
<1>1. PICK o \in OpRecord : op' = [op EXCEPT ![p] = o] /\ o.pc \in {"idle", "served"}
  BY EndOp
<1>2. Sound(o, mutation', claims', cred', call') /\ o.pc \notin Holder
  BY <1>1 DEF Sound, Holder
<1> QED  BY <1>1, <1>2, OwnStep DEF Moves

\* An operation goes on alone.
LEMMA Alone ==
  ASSUME CInv, UNCHANGED worldVars, NEW p \in Process, NEW o \in OpRecord,
         op' = [op EXCEPT ![p] = o], Sound(o, mutation, claims, cred, call),
         o.pc \in Holder => op[p].pc \in Holder /\ o.id = op[p].id
  PROVE  StepGood
<1>1. Moves
  BY NothingMoves DEF CInv
<1>2. Sound(o, mutation', claims', cred', call')
  BY DEF worldVars, record, provider
<1> QED  BY <1>1, <1>2, OwnStep DEF Moves

\* What holds of an operation by its own typing and soundness.
LEMMA Op0 ==
  ASSUME CInv, NEW p \in Process
  PROVE  op[p] \in OpRecord /\ Sound(op[p], mutation, claims, cred, call)
  BY DEF CInv, OpsInv, OpsTyped

-----------------------------------------------------------------------------
(* The operations, one step at a time *)

LEMMA GetTokenGood ==
  ASSUME CInv, NEW p \in Process, GetToken(p)
  PROVE  StepGood
<1> DEFINE o == [Idle EXCEPT !.pc = "read", !.kind = "refresh"]
<1>1. o \in OpRecord /\ o.pc = "read" /\ o.kind = "refresh" /\ o.error = "none"
  BY Typed0 DEF OpRecord, AnyKind, Kind
<1>2. Sound(o, mutation, claims, cred, call) /\ o.pc \notin Holder
  BY <1>1 DEF Sound, Holder, Kind
<1>3. op' = [op EXCEPT ![p] = o] /\ UNCHANGED worldVars
  BY DEF GetToken, Go, worldVars
<1> HIDE DEF o
<1> QED  BY <1>1, <1>2, <1>3, Alone

LEMMA GetAnotherGood ==
  ASSUME CInv, NEW p \in Process, GetAnother(p)
  PROVE  StepGood
<1> DEFINE rejected == [held |-> TRUE, revision |-> op[p].seen.revision, cred |-> op[p].seen.cred]
           o == [Idle EXCEPT !.pc = "read", !.kind = "refresh", !.rejected = rejected]
<1>1. rejected \in [held : BOOLEAN, revision : Nat, cred : Token]
  BY Op0 DEF OpRecord, SeenRecord
<1> HIDE DEF rejected
<1>2. o \in OpRecord /\ o.pc = "read" /\ o.kind = "refresh" /\ o.error = "none"
  BY <1>1, Typed0 DEF OpRecord, AnyKind, Kind
<1>3. Sound(o, mutation, claims, cred, call) /\ o.pc \notin Holder
  BY <1>2 DEF Sound, Holder, Kind
<1>4. op' = [op EXCEPT ![p] = o] /\ UNCHANGED worldVars
  BY DEF GetAnother, Go, worldVars, rejected
<1> HIDE DEF o
<1> QED  BY <1>2, <1>3, <1>4, Alone

LEMMA ReauthorizeGood ==
  ASSUME CInv, NEW p \in Process, Reauthorize(p)
  PROVE  StepGood
<1> DEFINE o == [Idle EXCEPT !.pc = "read", !.kind = "reauthorization",
                             !.at = "prepare", !.base = revision, !.slots = attached]
<1>1. revision \in Nat /\ attached \subseteq Slot
  BY DEF CInv, RecordInv, RecordTyped
<1>2. o \in OpRecord /\ o.pc = "read" /\ o.kind = "reauthorization" /\ o.error = "none"
  BY <1>1, Typed0 DEF OpRecord, AnyKind, Kind
<1>3. Sound(o, mutation, claims, cred, call) /\ o.pc \notin Holder
  BY <1>2 DEF Sound, Holder, Kind
<1>4. op' = [op EXCEPT ![p] = o] /\ UNCHANGED worldVars
  BY DEF Reauthorize, Go, worldVars
<1> HIDE DEF o
<1> QED  BY <1>2, <1>3, <1>4, Alone

LEMMA RevokeGood ==
  ASSUME CInv, NEW p \in Process, Revoke(p)
  PROVE  StepGood
<1> DEFINE o == [Idle EXCEPT !.pc = "read", !.kind = "revocation", !.at = "prepare"]
<1>1. o \in OpRecord /\ o.pc = "read" /\ o.kind = "revocation" /\ o.error = "none"
  BY Typed0 DEF OpRecord, AnyKind, Kind
<1>2. Sound(o, mutation, claims, cred, call) /\ o.pc \notin Holder
  BY <1>1 DEF Sound, Holder, Kind
<1>3. op' = [op EXCEPT ![p] = o] /\ UNCHANGED worldVars
  BY DEF Revoke, Go, worldVars
<1> HIDE DEF o
<1> QED  BY <1>1, <1>2, <1>3, Alone

\* The operation ends, or gives up, with nothing done.
LEMMA StopsAlone ==
  ASSUME CInv, NEW p \in Process, Throw(p), UNCHANGED worldVars
  PROVE  StepGood
  BY Stops, NothingMoves DEF CInv

LEMMA ReadRecordGood ==
  ASSUME CInv, NEW p \in Process, ReadRecord(p)
  PROVE  StepGood
<1>1. UNCHANGED worldVars /\ Moves /\ op[p].pc = "read"
  BY NothingMoves DEF ReadRecord, worldVars, CInv
<1>2. /\ Current \in SeenRecord /\ Seen(Current) \in SeenRecord
      /\ Seen(Current).id = mutation.id /\ Seen(Current).kind = mutation.kind
      /\ op[p].at \in {"stable", "again", "prepare", "poll", "end"}
  BY CurrentTyped, SeenTyped, Op0 DEF OpRecord
<1>3. mutation.id \in 0..claims
  BY Current0 DEF CInv, RecordInv, MutationOK
<1>4. CASE Resume(p, Current)
  BY <1>1, <1>2, <1>4, ResumeGood
<1>5. ASSUME NEW pc \in {"demote", "settle", "recover"}, NEW r \in SeenRecord,
             MoveTo(p, op[p].at, pc, r), pc = "demote" => mutation.kind # "revocation",
             pc \in {"demote", "settle"} => r = Seen(Current)
      PROVE  StepGood
  <2>1. PICK o \in OpRecord : /\ op' = [op EXCEPT ![p] = o]
                              /\ o.pc = pc /\ o.at = op[p].at /\ o.seen = r /\ o.kind = op[p].kind
                              /\ o.id = op[p].id /\ o.error = op[p].error
    BY <1>2, <1>5, MoveToOp
  <2>2. Sound(o, mutation, claims, cred, call) /\ o.pc \notin Holder
    BY <1>1, <1>2, <1>3, <1>5, <2>1, Op0 DEF Sound, Holder
  <2> QED  BY <1>1, <2>1, <2>2, Alone
<1>6. CASE MoveTo(p, op[p].at, "demote", Seen(Current)) /\ mutation.kind # "revocation"
  BY <1>2, <1>5, <1>6
<1>7. CASE MoveTo(p, op[p].at, "settle", Seen(Current))
  BY <1>2, <1>5, <1>7
<1>8. CASE MoveTo(p, op[p].at, "recover", Current)
  BY <1>2, <1>5, <1>8
<1> QED  BY <1>4, <1>6, <1>7, <1>8 DEF ReadRecord

LEMMA RecoverGood ==
  ASSUME CInv, NEW p \in Process, Recover(p)
  PROVE  StepGood
<1>1. op[p].pc = "recover" /\ UNCHANGED <<attached, claims, provider>> /\ op[p].seen \in SeenRecord
  BY Op0 DEF Recover, OpRecord
<1>2. CASE mutation.id # 0 /\ mutation.phase # "result_staged" /\ mutation.expired
  <2> DEFINE rec == [Current EXCEPT !.status = status', !.revision = revision', !.id = 0,
                                    !.kind = "none", !.phase = "none"]
  <2>1. WriteRecovery /\ Resume(p, rec)
    BY <1>2 DEF Recover
  <2>2. Moves
    <3>1. CASE FailsClosed
      <4>1. mutation.kind # "revocation" /\ WriteEnd("needs_reauthorization", cred)
        BY <2>1, <3>1 DEF WriteRecovery, FailsClosed
      <4> QED  BY <1>1, <1>2, <4>1, FailsClosedMoves DEF CInv
    <3>2. CASE ~FailsClosed
      <4>1. mutation' = NoMutation /\ UNCHANGED <<status, revision, cred>>
        BY <2>1, <3>2 DEF WriteRecovery
      <4>2. mutation.kind = "revocation" \/ mutation.phase = "prepared"
        BY <1>2, <3>2, Current0 DEF FailsClosed, CInv, RecordInv, MutationOK, MutationRecord, Phase
      <4> QED  BY <1>1, <1>2, <4>1, <4>2, ClearMoves DEF CInv
    <3> QED  BY <3>1, <3>2
  <2>3. rec \in SeenRecord
    <3>1. status' \in Status /\ revision' \in Nat
      BY <2>2 DEF Moves, MovesOn, RecordInv, RecordTyped
    <3>2. 0 \in Token /\ "none" \in AnyKind /\ "none" \in Phase
      BY DEF Token, AnyKind, Phase
    <3> QED  BY <3>1, <3>2, CurrentTyped DEF SeenRecord
  <2> HIDE DEF rec
  <2> QED  BY <1>1, <2>1, <2>2, <2>3, ResumeGood
<1>3. CASE ~(mutation.id # 0 /\ mutation.phase # "result_staged" /\ mutation.expired)
  <2>1. UNCHANGED worldVars /\ (Resume(p, Current) \/ Resume(p, op[p].seen))
    BY <1>1, <1>3 DEF Recover, worldVars
  <2>2. Moves
    BY <2>1, NothingMoves DEF CInv
  <2>3. CASE Resume(p, Current)
    BY <1>1, <2>2, <2>3, CurrentTyped, ResumeGood
  <2>4. CASE Resume(p, op[p].seen)
    BY <1>1, <2>2, <2>4, ResumeGood
  <2> QED  BY <2>1, <2>3, <2>4
<1> QED  BY <1>2, <1>3

\* Who demotes or settles what it saw finds the mutation of that kind, if any.
LEMMA SeenKind ==
  ASSUME CInv, NEW p \in Process, op[p].pc \in {"demote", "settle"},
         Matches(op[p].seen.id, op[p].seen.revision)
  PROVE  /\ mutation.id # 0 /\ mutation.kind = op[p].seen.kind
         /\ op[p].pc = "demote" => mutation.kind # "revocation"
  BY Op0 DEF Sound, Matches

LEMMA DemoteGood ==
  ASSUME CInv, NEW p \in Process, Demote(p)
  PROVE  StepGood
<1>1. op[p].pc = "demote" /\ UNCHANGED <<attached, claims, provider>>
  BY DEF Demote
<1>2. CASE Matches(op[p].seen.id, op[p].seen.revision)
  <2>1. /\ WriteEnd("needs_reauthorization", StagedCred)
        /\ Resume(p, Ended("needs_reauthorization", StagedCred))
    BY <1>2 DEF Demote
  <2>2. Moves
    BY <1>1, <1>2, <2>1, SeenKind, FailsClosedMoves DEF CInv
  <2>3. Ended("needs_reauthorization", StagedCred) \in SeenRecord
    BY EndedTyped DEF StagedCred, CInv, RecordInv, RecordTyped, MutationRecord, Status
  <2> QED  BY <1>1, <2>1, <2>2, <2>3, ResumeGood
<1>3. CASE ~Matches(op[p].seen.id, op[p].seen.revision)
  <2>1. UNCHANGED worldVars /\ Resume(p, Current)
    BY <1>1, <1>3 DEF Demote, worldVars
  <2> QED  BY <1>1, <2>1, NothingMoves, CurrentTyped, ResumeGood DEF CInv
<1> QED  BY <1>2, <1>3

LEMMA SettleGood ==
  ASSUME CInv, NEW p \in Process, Settle(p)
  PROVE  StepGood
<1>1. /\ op[p].pc = "settle" /\ UNCHANGED <<attached, claims, provider>>
      /\ mutation.id # 0 /\ mutation.id \in Token
  BY SeenKind DEF Settle, StillStaged, CInv, RecordInv, RecordTyped, MutationRecord
<1>2. CASE mutation.kind = "revocation"
  <2>1. WriteEnd("revoked", 0) /\ Resume(p, Ended("revoked", 0))
    BY <1>2 DEF Settle
  <2>2. Moves
    BY <1>1, <1>2, <2>1, RevokedMoves DEF CInv
  <2>3. Ended("revoked", 0) \in SeenRecord
    BY EndedTyped DEF Status, Token
  <2> QED  BY <1>1, <2>1, <2>2, <2>3, ResumeGood
<1>3. CASE mutation.kind # "revocation"
  <2>1. WriteEnd("active", mutation.id) /\ Resume(p, Ended("active", mutation.id))
    BY <1>3 DEF Settle
  <2>2. Moves
    BY <1>1, <1>3, <2>1, SucceedsMoves DEF CInv
  <2>3. Ended("active", mutation.id) \in SeenRecord
    BY <1>1, EndedTyped DEF Status
  <2> QED  BY <1>1, <2>1, <2>2, <2>3, ResumeGood
<1> QED  BY <1>2, <1>3

LEMMA SettleLateGood ==
  ASSUME CInv, NEW p \in Process, SettleLate(p)
  PROVE  StepGood
<1>1. UNCHANGED worldVars /\ op[p].pc = "settle" /\ (Resume(p, Current) \/ Throw(p))
  BY DEF SettleLate, worldVars
<1> QED  BY <1>1, NothingMoves, CurrentTyped, ResumeGood, StopsAlone DEF CInv

LEMMA DiscoveryMismatchGood ==
  ASSUME CInv, NEW p \in Process, DiscoveryMismatch(p)
  PROVE  StepGood
<1>1. /\ op[p].pc = "settle" /\ UNCHANGED <<attached, claims, provider>>
      /\ mutation.id # 0 /\ mutation.kind = "reauthorization"
      /\ WriteEnd("needs_reauthorization", StagedCred) /\ Throw(p)
  BY SeenKind DEF DiscoveryMismatch, StillStaged
<1> QED  BY <1>1, FailsClosedMoves, Stops DEF CInv

LEMMA ClaimGood ==
  ASSUME CInv, NEW p \in Process, Claim(p)
  PROVE  StepGood
<1>1. /\ op[p].pc = "claim" /\ op[p] \in OpRecord /\ UNCHANGED provider
      /\ op[p].kind \in Kind /\ op[p].slots \subseteq Slot
      /\ op[p].at # "end" /\ op[p].error = "none"
  BY Op0 DEF Claim, Sound, OpRecord
<1>2. CASE CanClaim(op[p].kind, op[p].seen.revision, op[p].slots)
  <2> DEFINE o == [op[p] EXCEPT !.pc = "mark", !.id = claims + 1, !.rev = revision',
                                !.cred = cred, !.seen = NoRecord]
  <2>1. claims < MaxMutations /\ WriteClaim(op[p].kind, op[p].slots) /\ op' = [op EXCEPT ![p] = o]
    BY <1>2 DEF Claim, Go
  <2>2. Moves
    BY <1>1, <1>2, <2>1, ClaimMoves DEF CInv
  <2>3. /\ mutation'.id = claims + 1 /\ mutation'.kind = op[p].kind
        /\ mutation'.phase = "prepared" /\ claims' = claims + 1 /\ cred' = cred
    BY <2>1 DEF WriteClaim
  <2>4. claims + 1 \in Token /\ revision' \in Nat /\ cred \in Token /\ claims \in Nat
    BY <2>2, <2>3, Current0 DEF Moves, MovesOn, CInv, RecordInv, RecordTyped
  <2>5. /\ o \in OpRecord /\ o.pc = "mark" /\ o.id = claims + 1 /\ o.cred = cred
        /\ o.kind = op[p].kind /\ o.at = op[p].at /\ o.error = "none"
    BY <1>1, <2>4, Typed0 DEF OpRecord
  <2> HIDE DEF o
  <2>6. Sound(o, mutation', claims', cred', call')
    BY <1>1, <2>3, <2>4, <2>5 DEF Sound, Holder
  <2>7. MovesOn /\ Waits /\ o.id > claims
    BY <2>2, <2>4, <2>5 DEF Moves
  <2> QED  BY <2>1, <2>5, <2>6, <2>7, OwnStep
<1>3. CASE ~CanClaim(op[p].kind, op[p].seen.revision, op[p].slots)
  <2> DEFINE o == [op[p] EXCEPT !.pc = "read", !.seen = NoRecord]
  <2>1. UNCHANGED worldVars /\ op' = [op EXCEPT ![p] = o]
    BY <1>1, <1>3 DEF Claim, Go, worldVars
  <2>2. /\ o \in OpRecord /\ o.pc = "read" /\ o.kind = op[p].kind /\ o.error = "none"
    BY <1>1, Typed0 DEF OpRecord
  <2> HIDE DEF o
  <2>3. Sound(o, mutation, claims, cred, call) /\ o.pc \notin Holder
    BY <1>1, <2>2 DEF Sound, Holder
  <2> QED  BY <2>1, <2>2, <2>3, Alone
<1> QED  BY <1>2, <1>3

LEMMA OpenFailsGood ==
  ASSUME CInv, NEW p \in Process, OpenFails(p)
  PROVE  StepGood
<1> DEFINE o == [op[p] EXCEPT !.pc = "release"]
<1>1. /\ op[p].pc = "mark" /\ op[p] \in OpRecord /\ Sound(op[p], mutation, claims, cred, call)
      /\ op' = [op EXCEPT ![p] = o] /\ UNCHANGED worldVars
  BY Op0 DEF OpenFails, Go, worldVars
<1>2. /\ o \in OpRecord /\ o.pc = "release" /\ o.id = op[p].id /\ o.kind = op[p].kind
      /\ o.at = op[p].at /\ o.error = op[p].error
  BY <1>1 DEF OpRecord
<1> HIDE DEF o
<1>3. Sound(o, mutation, claims, cred, call) /\ op[p].pc \in Holder
  BY <1>1, <1>2 DEF Sound, Holder
<1> QED  BY <1>1, <1>2, <1>3, Alone

LEMMA NoRefreshTokenGood ==
  ASSUME CInv, NEW p \in Process, NoRefreshToken(p)
  PROVE  StepGood
<1> DEFINE o == [op[p] EXCEPT !.pc = "fail", !.cred = 0]
<1>1. /\ op[p].pc = "mark" /\ op[p].kind = "refresh" /\ op[p] \in OpRecord
      /\ Sound(op[p], mutation, claims, cred, call)
      /\ op' = [op EXCEPT ![p] = o] /\ UNCHANGED worldVars
  BY Op0 DEF NoRefreshToken, Go, worldVars
<1>2. o \in OpRecord /\ o.pc = "fail" /\ o.id = op[p].id /\ o.kind = op[p].kind /\ o.at = op[p].at
  BY <1>1, Typed0 DEF OpRecord
<1> HIDE DEF o
<1>3. Sound(o, mutation, claims, cred, call) /\ op[p].pc \in Holder
  BY <1>1, <1>2 DEF Sound, Holder
<1> QED  BY <1>1, <1>2, <1>3, Alone

LEMMA ExecuteGood ==
  ASSUME CInv, NEW p \in Process, Execute(p)
  PROVE  StepGood
<1>1. /\ op[p].pc = "mark" /\ op[p] \in OpRecord /\ Sound(op[p], mutation, claims, cred, call)
      /\ UNCHANGED <<status, revision, cred, attached, claims, spent>>
      /\ op[p].pc \in Holder
  BY Op0 DEF Execute, Holder
<1>2. CASE Matches(op[p].id, op[p].rev) /\ mutation.phase = "prepared" /\ ~mutation.expired
  <2> DEFINE o == [op[p] EXCEPT !.pc = "call", !.cred = 0]
  <2>1. /\ op[p].id = mutation.id /\ mutation.id # 0 /\ op[p].kind = mutation.kind
        /\ op[p].cred = cred
    BY <1>1, <1>2 DEF Matches, Sound, Holder
  <2>2. /\ mutation' = [mutation EXCEPT !.phase = "executing"]
        /\ call' = [call EXCEPT ![mutation.id] =
                      [state |-> "sent", kind |-> mutation.kind, cred |-> cred, live |-> TRUE]]
        /\ op' = [op EXCEPT ![p] = o]
    BY <1>2, <2>1 DEF Execute, Go
  <2>3. MovesOn
    BY <1>1, <1>2, <2>1, <2>2, ExecuteMoves DEF CInv
  <2>4. o \in OpRecord /\ o.pc = "call" /\ o.id = op[p].id /\ o.kind = op[p].kind
    BY <1>1, Typed0 DEF OpRecord
  <2> HIDE DEF o
  <2>5. /\ mutation'.id = mutation.id /\ mutation'.kind = mutation.kind
        /\ mutation.id \in Id /\ call'[mutation.id].state # "none"
    BY <2>1, <2>2, Current0 DEF CInv, RecordInv, RecordTyped, CallsOK, MutationRecord, Token, Id
  <2>6. Sound(o, mutation', claims', cred', call')
    BY <1>1, <2>1, <2>4, <2>5 DEF Sound, Holder
  <2> QED  BY <1>1, <2>1, <2>2, <2>3, <2>4, <2>6, OwnStep
<1>3. CASE ~(Matches(op[p].id, op[p].rev) /\ mutation.phase = "prepared" /\ ~mutation.expired)
  <2> DEFINE o == [op[p] EXCEPT !.pc = "caught", !.cred = 0, !.error = "ambiguous"]
  <2>1. op' = [op EXCEPT ![p] = o] /\ UNCHANGED worldVars
    BY <1>1, <1>3 DEF Execute, Go, worldVars, record, provider
  <2>2. /\ o \in OpRecord /\ o.pc = "caught" /\ o.id = op[p].id /\ o.kind = op[p].kind
        /\ o.error = "ambiguous"
    BY <1>1, Typed0 DEF OpRecord
  <2> HIDE DEF o
  <2>3. Sound(o, mutation, claims, cred, call)
    BY <1>1, <2>2 DEF Sound, Holder
  <2> QED  BY <1>1, <2>1, <2>2, <2>3, Alone
<1> QED  BY <1>2, <1>3

\* A call that is left by its operation has been made.
LEMMA LeftMoves ==
  ASSUME CInv, NEW p \in Process, op[p].pc = "call",
         call' = [call EXCEPT ![op[p].id] = Left(call[op[p].id])],
         UNCHANGED <<record, attached, claims, spent>>
  PROVE  /\ Moves /\ op[p].id \in Id
         /\ call[op[p].id].state = "retryable" => call'[op[p].id].state = "retryable"
<1> DEFINE i == op[p].id
           c == Left(call[i])
<1>1. i \in Id /\ call[i].state # "none"
  BY Op0, Current0 DEF Sound, Holder, CInv, RecordInv, RecordTyped, Token, Id
<1>2. call[i] \in CallRecord
  BY <1>1 DEF CInv, RecordInv, CallsOK
<1>3. /\ c \in CallRecord /\ c.kind = call[i].kind /\ c.cred = call[i].cred
      /\ c.state = IF call[i].state \in {"sent", "staging", "retryable"}
                   THEN call[i].state ELSE "done"
  BY <1>2 DEF Left, CallRecord
<1> HIDE DEF c
<1>4. UNCHANGED <<status, revision, cred, attached, claims, mutation, spent>>
  BY DEF record
<1>5. call' = [call EXCEPT ![i] = c]
  BY DEF c
<1> HIDE DEF i
<1>6. Moves
  BY <1>1, <1>3, <1>4, <1>5, CallMoves DEF CInv
<1> QED  BY <1>1, <1>6 DEF Moves, MovesOn, Forward, i

LEMMA CaughtGood ==
  ASSUME CInv, NEW p \in Process, op[p].pc = "call", Moves,
         NEW error \in {"ambiguous", "retryable", "terminal"},
         error = "retryable" => call'[op[p].id].state = "retryable",
         op' = [op EXCEPT ![p] = [op[p] EXCEPT !.pc = "caught", !.error = error]]
  PROVE  StepGood
<1> DEFINE o == [op[p] EXCEPT !.pc = "caught", !.error = error]
<1>1. op[p] \in OpRecord /\ Sound(op[p], mutation', claims', cred', call')
  BY Op0, SoundStays DEF Moves, MovesOn
<1>2. /\ o \in OpRecord /\ o.pc = "caught" /\ o.id = op[p].id /\ o.kind = op[p].kind
      /\ o.error = error
  BY <1>1 DEF OpRecord
<1>3. op' = [op EXCEPT ![p] = o]
  OBVIOUS
<1> HIDE DEF o
<1>4. Sound(o, mutation', claims', cred', call') /\ op[p].pc \in Holder
  BY <1>1, <1>2 DEF Sound, Holder
<1> QED  BY <1>2, <1>3, <1>4, OwnStep DEF Moves

LEMMA ReturnGood ==
  ASSUME CInv, NEW p \in Process, Return(p)
  PROVE  StepGood
<1> DEFINE state == call[op[p].id].state
<1>1. /\ op[p].pc = "call" /\ op[p] \in OpRecord /\ Sound(op[p], mutation, claims, cred, call)
      /\ state \in {"staged", "refused", "retryable", "terminal", "ambiguous"}
  BY Op0 DEF Return
<1>2. /\ Moves
      /\ state = "retryable" => call'[op[p].id].state = "retryable"
  BY LeftMoves DEF Return
<1>3. CASE state = "staged"
  <2> DEFINE o == [op[p] EXCEPT !.at = "end", !.pc = "reread"]
  <2>1. op' = [op EXCEPT ![p] = o]
    BY <1>3 DEF Return, Go
  <2>2. o \in OpRecord /\ o.pc = "reread" /\ o.kind = op[p].kind
    BY <1>1 DEF OpRecord
  <2> HIDE DEF o
  <2>3. Sound(o, mutation', claims', cred', call') /\ o.pc \notin Holder
    BY <1>1, <2>2 DEF Sound, Holder
  <2> QED  BY <1>2, <2>1, <2>2, <2>3, OwnStep DEF Moves
<1>4. CASE state # "staged"
  <2> DEFINE error == IF state = "refused" THEN "ambiguous" ELSE state
  <2>1. op' = [op EXCEPT ![p] = [op[p] EXCEPT !.pc = "caught", !.error = error]]
    BY <1>4 DEF Return, Go
  <2>2. /\ error \in {"ambiguous", "retryable", "terminal"}
        /\ error = "retryable" => call'[op[p].id].state = "retryable"
    BY <1>1, <1>2, <1>4
  <2> HIDE DEF error
  <2> QED  BY <1>1, <1>2, <2>1, <2>2, CaughtGood
<1> QED  BY <1>3, <1>4

LEMMA AbortGood ==
  ASSUME CInv, NEW p \in Process, Abort(p)
  PROVE  StepGood
  BY LeftMoves, CaughtGood DEF Abort, Go

LEMMA CrashGood ==
  ASSUME CInv, NEW p \in Process, Crash(p)
  PROVE  StepGood
<1>1. Throw(p) /\ UNCHANGED <<record, attached, claims, spent>>
  BY DEF Crash, Throw
<1>2. CASE op[p].pc = "call"
  BY <1>1, <1>2, LeftMoves, Stops DEF Crash
<1>3. CASE op[p].pc # "call"
  BY <1>1, <1>3, StopsAlone DEF Crash, worldVars, provider
<1> QED  BY <1>2, <1>3

\* An operation finds a result staged, and will settle it.
LEMMA FindsStaged ==
  ASSUME CInv, NEW p \in Process, MoveTo(p, "end", "settle", Seen(Current)), UNCHANGED worldVars,
         op[p].kind \in Kind
  PROVE  StepGood
<1>1. /\ Seen(Current) \in SeenRecord
      /\ Seen(Current).id = mutation.id /\ Seen(Current).kind = mutation.kind
  BY CurrentTyped, SeenTyped
<1>2. mutation.id \in 0..claims
  BY Current0 DEF CInv, RecordInv, MutationOK
<1>3. PICK o \in OpRecord : /\ op' = [op EXCEPT ![p] = o]
                            /\ o.pc = "settle" /\ o.at = "end" /\ o.seen = Seen(Current)
                            /\ o.kind = op[p].kind
                            /\ o.id = op[p].id /\ o.error = op[p].error
  BY <1>1, MoveToOp
<1>4. Sound(o, mutation, claims, cred, call) /\ o.pc \notin Holder
  BY <1>1, <1>2, <1>3 DEF Sound, Holder
<1> QED  BY <1>3, <1>4, Alone

LEMMA RereadGood ==
  ASSUME CInv, NEW p \in Process, Reread(p)
  PROVE  StepGood
<1>1. UNCHANGED worldVars /\ op[p].pc = "reread" /\ op[p].kind \in Kind
  BY Op0 DEF Reread, worldVars, Sound
<1>2. CASE mutation.phase = "result_staged"
  BY <1>1, <1>2, FindsStaged DEF Reread
<1>3. CASE mutation.phase # "result_staged"
  BY <1>1, <1>3, NothingMoves, CurrentTyped, EndGood DEF Reread, CInv
<1> QED  BY <1>2, <1>3

LEMMA CatchGood ==
  ASSUME CInv, NEW p \in Process, Catch(p)
  PROVE  StepGood
<1>1. /\ UNCHANGED worldVars /\ op[p].pc = "caught" /\ op[p].kind \in Kind
      /\ Sound(op[p], mutation, claims, cred, call) /\ op[p].pc \in Holder
  BY Op0 DEF Catch, worldVars, Sound, Holder
<1>2. CASE mutation.id = op[p].id /\ mutation.phase = "result_staged"
  BY <1>1, <1>2, FindsStaged DEF Catch
<1>3. CASE ~(mutation.id = op[p].id /\ mutation.phase = "result_staged")
  <2>1. ASSUME NEW pc \in {"release", "fail"}, MoveTo(p, "end", pc, NoRecord),
               pc = "release" <=> Harmless(op[p])
        PROVE  StepGood
    <3>1. PICK o \in OpRecord : /\ op' = [op EXCEPT ![p] = o]
                                /\ o.pc = pc /\ o.at = "end" /\ o.seen = NoRecord
                                /\ o.kind = op[p].kind
                                /\ o.id = op[p].id /\ o.error = op[p].error
      BY <2>1, Typed0, MoveToOp
    <3>2. Sound(o, mutation, claims, cred, call)
      BY <1>1, <2>1, <3>1 DEF Sound, Holder, Harmless
    <3> QED  BY <1>1, <3>1, <3>2, Alone
  <2>2. CASE Harmless(op[p])
    BY <1>3, <2>1, <2>2 DEF Catch
  <2>3. CASE ~Harmless(op[p])
    BY <1>3, <2>1, <2>3 DEF Catch
  <2> QED  BY <2>2, <2>3
<1> QED  BY <1>2, <1>3

LEMMA ReleaseGood ==
  ASSUME CInv, NEW p \in Process, Release(p)
  PROVE  StepGood
<1>1. /\ op[p].pc = "release" /\ Sound(op[p], mutation, claims, cred, call) /\ op[p].pc \in Holder
      /\ UNCHANGED <<status, revision, cred, attached, claims, provider>> /\ Throw(p)
  BY Op0 DEF Release, Holder
<1>2. CASE Matches(op[p].id, op[p].rev) /\ mutation.phase # "result_staged"
  <2>1. mutation' = NoMutation /\ mutation.id = op[p].id /\ mutation.kind = op[p].kind
    BY <1>1, <1>2 DEF Release, Matches, Sound
  <2>2. \/ mutation.kind # "refresh" \/ mutation.phase = "prepared"
        \/ call[mutation.id].state = "retryable"
    BY <1>1, <2>1 DEF Sound
  <2> QED  BY <1>1, <1>2, <2>1, <2>2, ClearMoves, Stops DEF CInv
<1>3. CASE ~(Matches(op[p].id, op[p].rev) /\ mutation.phase # "result_staged")
  BY <1>1, <1>3, StopsAlone DEF Release, worldVars, record
<1> QED  BY <1>2, <1>3

LEMMA FailClosedGood ==
  ASSUME CInv, NEW p \in Process, FailClosed(p)
  PROVE  StepGood
<1>1. /\ op[p].pc = "fail" /\ Sound(op[p], mutation, claims, cred, call) /\ op[p].pc \in Holder
      /\ UNCHANGED <<attached, claims, provider>>
  BY Op0 DEF FailClosed, Holder
<1>2. CASE Matches(op[p].id, op[p].rev)
  <2>1. /\ WriteEnd("needs_reauthorization", StagedCred) /\ Throw(p)
        /\ mutation.id # 0 /\ mutation.kind # "revocation"
    BY <1>1, <1>2 DEF FailClosed, Matches, Sound
  <2> QED  BY <1>1, <2>1, FailsClosedMoves, Stops DEF CInv
<1>3. CASE ~Matches(op[p].id, op[p].rev)
  <2>1. UNCHANGED worldVars /\ (End(p, Current) \/ Throw(p))
    BY <1>1, <1>3 DEF FailClosed, worldVars
  <2> QED  BY <2>1, NothingMoves, CurrentTyped, EndGood, StopsAlone DEF CInv
<1> QED  BY <1>2, <1>3

\* A call goes on by itself.
LEMMA CallGood ==
  ASSUME CInv, NEW i \in Id,
         NEW s \in {"answered", "done", "staging", "staged", "refused", "retryable", "terminal", "ambiguous"},
         call' = [call EXCEPT ![i].state = s],
         call[i].state \notin {"none", "retryable"}, s = "retryable" => call[i].state = "sent",
         UNCHANGED <<status, revision, cred, attached, claims, op>>,
         \/ UNCHANGED mutation
         \/ mutation.phase = "executing" /\ mutation' = [mutation EXCEPT !.phase = "result_staged"],
         \/ UNCHANGED spent
         \/ spent' = spent \cup {call[i].cred} /\ call[i].kind = "refresh"
              /\ call[i].state = "sent" /\ s # "retryable"
  PROVE  StepGood
<1> DEFINE c == [call[i] EXCEPT !.state = s]
<1>1. call[i] \in CallRecord
  BY DEF CInv, RecordInv, CallsOK
<1>2. c \in CallRecord /\ c.kind = call[i].kind /\ c.cred = call[i].cred /\ c.state = s
  BY <1>1 DEF CallRecord
<1>3. call' = [call EXCEPT ![i] = c]
  OBVIOUS
<1> HIDE DEF c
<1>4. Moves
  BY <1>2, <1>3, CallMoves DEF CInv
<1> QED  BY <1>4, OthersMove

LEMMA CallStepGood ==
  ASSUME CInv, NEW i \in Id, CallStep(i)
  PROVE  StepGood
<1>1. CASE ProviderActs(i)
  <2> DEFINE s == IF call[i].live THEN "answered" ELSE "done"
  <2>1. s \in {"answered", "done"} /\ call' = [call EXCEPT ![i].state = s]
    BY <1>1 DEF ProviderActs
  <2> HIDE DEF s
  <2>2. /\ call[i].state = "sent" /\ UNCHANGED <<status, revision, cred, attached, claims, op, mutation>>
        /\ \/ UNCHANGED spent
           \/ spent' = spent \cup {call[i].cred} /\ call[i].kind = "refresh"
    BY <1>1 DEF ProviderActs, record
  <2> QED  BY <2>1, <2>2, CallGood
<1>2. ASSUME NEW error \in {"retryable", "terminal", "ambiguous"}, ProviderRefuses(i, error)
      PROVE  StepGood
  BY <1>2, CallGood DEF ProviderRefuses, record
<1>3. CASE AnswerLost(i)
  BY <1>3, CallGood DEF AnswerLost, record
<1>4. CASE SendResult(i)
  BY <1>4, CallGood DEF SendResult, record
<1>5. CASE StageResult(i)
  <2> DEFINE stages == mutation.id = i /\ mutation.phase = "executing" /\ ~mutation.expired
             s == IF ~call[i].live THEN "done" ELSE IF stages THEN "staged" ELSE "refused"
  <2>1. s \in {"done", "staged", "refused"} /\ call' = [call EXCEPT ![i].state = s]
    BY <1>5 DEF StageResult
  <2> HIDE DEF s
  <2>2. /\ call[i].state = "staging" /\ UNCHANGED <<status, revision, cred, attached, claims, op, spent>>
        /\ \/ UNCHANGED mutation
           \/ mutation.phase = "executing" /\ mutation' = [mutation EXCEPT !.phase = "result_staged"]
    BY <1>5 DEF StageResult
  <2> QED  BY <2>1, <2>2, CallGood
<1> QED  BY <1>1, <1>2, <1>3, <1>4, <1>5 DEF CallStep

-----------------------------------------------------------------------------
(* The specification *)

LEMMA InitGood == Init => CInv
<1> SUFFICES ASSUME Init PROVE CInv
  OBVIOUS
<1>1. /\ status = "pending_selection" /\ revision = 0 /\ cred = 0 /\ mutation = NoMutation
      /\ attached = {} /\ claims = 0 /\ call = [i \in Id |-> NoCall] /\ spent = {}
      /\ op = [p \in Process |-> Idle]
  BY DEF Init
<1>2. NoMutation \in MutationRecord /\ NoMutation.id = 0 /\ NoMutation.kind = "none" /\ NoMutation.phase = "none"
  BY DEF MutationRecord, NoMutation, Token, AnyKind, Phase
<1>3. NoCall \in CallRecord /\ NoCall.state = "none" /\ NoCall.kind = "none"
  BY DEF NoCall, CallRecord, AnyKind, Token
<1>4. \A i \in Id : call[i] = NoCall /\ i # 0
  BY <1>1 DEF Id
<1>5. RecordTyped /\ MutationOK /\ KindOK /\ GrantHasUsers /\ ReauthorizesWhatItSaw
  BY <1>1, <1>2, Typed0
     DEF RecordTyped, MutationOK, KindOK, GrantHasUsers, ReauthorizesWhatItSaw, Status
<1>6. CallsOK
  BY <1>1, <1>2, <1>3, <1>4 DEF CallsOK
<1>7. PresentedOnce /\ SpentByCurrent /\ NoUnknownEffectReplayed
  BY <1>1, <1>3, <1>4 DEF PresentedOnce, SpentByCurrent, NoUnknownEffectReplayed
<1>8. \A p \in Process : op[p] = Idle
  BY <1>1
<1>9. Sound(Idle, mutation, claims, cred, call)
  BY Typed0 DEF Sound, Holder
<1>10. OpsInv
  BY <1>1, <1>8, <1>9, Typed0 DEF OpsInv, OpsTyped, Holder
<1> QED  BY <1>5, <1>6, <1>7, <1>10 DEF CInv, RecordInv

LEMMA OperationGood ==
  ASSUME CInv, NEW p \in Process, Step(p)
  PROVE  StepGood
<1>1. CASE DiscoveryFails(p) \/ GiveUp(p)
  BY <1>1, StopsAlone DEF DiscoveryFails, GiveUp, worldVars
<1> QED  BY <1>1, ReadRecordGood, RecoverGood, DemoteGood, SettleGood, SettleLateGood,
            DiscoveryMismatchGood, ClaimGood, OpenFailsGood, NoRefreshTokenGood, ExecuteGood,
            ReturnGood, AbortGood, RereadGood, CatchGood, ReleaseGood, FailClosedGood DEF Step

LEMMA NextGood ==
  ASSUME CInv, [Next]_vars
  PROVE  StepGood
<1>1. ASSUME NEW s \in Slot, Connect(s) \/ Disconnect(s)
      PROVE  StepGood
  <2>1. Moves
    BY <1>1, ConnectMoves, DisconnectMoves DEF CInv
  <2> QED  BY <1>1, <2>1, OthersMove DEF Connect, Disconnect
<1>2. CASE AbandonSelection
  BY <1>2, AbandonMoves, OthersMove DEF AbandonSelection, CInv
<1>3. CASE LeaseEnds
  BY <1>3, LeaseEndsMoves, OthersMove DEF LeaseEnds, CInv
<1>4. ASSUME NEW p \in Process,
             \/ GetToken(p) \/ GetAnother(p) \/ UseToken(p)
             \/ Reauthorize(p) \/ Revoke(p) \/ Crash(p) \/ Step(p)
      PROVE  StepGood
  <2>1. CASE UseToken(p)
    BY <2>1, StopsAlone DEF UseToken, Throw, worldVars
  <2> QED  BY <1>4, <2>1, GetTokenGood, GetAnotherGood, ReauthorizeGood, RevokeGood, CrashGood,
              OperationGood
<1>5. ASSUME NEW i \in Id, CallStep(i)
      PROVE  StepGood
  BY <1>5, CallStepGood
<1>6. CASE UNCHANGED vars
  BY <1>6, NothingMoves, OthersMove DEF vars, worldVars, CInv
<1> QED  BY <1>1, <1>2, <1>3, <1>4, <1>5, <1>6 DEF Next

LEMMA Invariance == Spec => []CInv
<1>1. CInv /\ [Next]_vars => CInv'
  BY NextGood DEF StepGood
<1> QED  BY InitGood, <1>1, PTL DEF Spec

\* Every variable stays in its type: credential-mutations.ts writes a mutation's
\* fields together, and clears them together.
THEOREM CredentialsTypeCorrect == Spec => []TypeOK
  BY Invariance, CInvType, PTL

\* No refresh token is presented again after a call whose effect is not known,
\* whatever the interleaving of claims, expiries, crashes and late writes.
THEOREM NothingReplayed == Spec => []NoUnknownEffectReplayed
<1>1. CInv => NoUnknownEffectReplayed
  BY DEF CInv, RecordInv
<1> QED  BY Invariance, <1>1, PTL

\* An authorization that says it is active and has nothing executing can be
\* refreshed: the provider has not rotated its credential away.
THEOREM LiveWhileActive == Spec => []ActiveCredentialIsLive
  BY Invariance, CInvLive, PTL

\* A grant is usable exactly while a slot is connected through it.
THEOREM UsersMatch == Spec => []GrantHasUsers
<1>1. CInv => GrantHasUsers
  BY DEF CInv, RecordInv
<1> QED  BY Invariance, <1>1, PTL

\* The connections a reauthorization was claimed for stay until it ends.
THEOREM ReauthorizationBound == Spec => []ReauthorizesWhatItSaw
<1>1. CInv => ReauthorizesWhatItSaw
  BY DEF CInv, RecordInv
<1> QED  BY Invariance, <1>1, PTL

\* No step takes an authorization back from revocation.
THEOREM RevocationFinal == Spec => RevocationIsFinal
<1>1. CInv /\ [Next]_vars =>
        [/\ status = "revocation_pending" => status' \in {"revocation_pending", "revoked"}
         /\ status = "revoked" => status' = "revoked"]_vars
  BY NextGood DEF StepGood, Final
<1> QED  BY Invariance, <1>1, PTL DEF Spec, RevocationIsFinal

\* Whoever ends a mutation whose result is staged stores that result.
THEOREM StagedKept == Spec => StagedResultIsKept
<1>1. CInv /\ [Next]_vars =>
        [mutation.phase = "result_staged" /\ mutation' # mutation =>
           IF mutation.kind = "revocation" THEN status' = "revoked" ELSE cred' = mutation.id]_vars
  BY NextGood DEF StepGood, Kept
<1> QED  BY Invariance, <1>1, PTL DEF Spec, StagedResultIsKept

-----------------------------------------------------------------------------
(* A rejected token *)

\* What an operation's memory is compared with.
World == [status |-> status, revision |-> revision, cred |-> cred, mutation |-> mutation,
          claims |-> claims, call |-> call]

Staged(w) == w.mutation.phase = "result_staged"

WorldOK(w) ==
  /\ w.revision \in Nat /\ w.claims \in Nat /\ w.cred \in Nat /\ w.mutation.id \in Nat
  /\ w.cred <= w.claims
  /\ w.mutation.id # 0 => w.cred < w.mutation.id
  /\ Staged(w) => w.mutation.id # 0
  /\ w.status = "pending_selection" <=> w.revision = 0

\* The world w may follow v: a status or a credential comes with a new revision, a
\* grant becomes active with a new credential, and a staged result stays until then.
Follows(v, w) ==
  /\ v.revision <= w.revision /\ v.claims <= w.claims
  /\ w.revision = v.revision => w.status = v.status /\ w.cred = v.cred
  /\ v.revision < w.revision /\ w.status = "active" =>
       v.revision = 0 \/ (v.mutation.id # 0 /\ w.cred = v.mutation.id)
  /\ w.mutation.id \in {0, v.mutation.id} \/ w.mutation.id > v.claims
  /\ Staged(v) => w.mutation = v.mutation \/ v.revision < w.revision
  /\ \A i \in Id : w.call[i].state = "staged" => v.call[i].state = "staged" \/ Staged(w)

\* Credential c was stored at revision rev, and an active grant stores it at no other.
Remembered(w, rev, c) ==
  /\ 0 < rev /\ rev <= w.revision
  /\ c <= w.claims /\ (w.mutation.id # 0 => c < w.mutation.id)
  /\ rev = w.revision => c = w.cred
  /\ rev < w.revision /\ w.status = "active" => c # w.cred

\* Token t is older than the record r, or is the one of its revision.
NotAfter(t, r) ==
  t.held => /\ t.revision <= r.revision
            /\ t.revision < r.revision /\ r.status = "active" => r.cred # t.cred

\* What a token request o may be handed: a record it read after its caller's token,
\* later than the revision it set out to replace once it is past its own exchange.
Offered(w, o, r) ==
  /\ r.status = "active" => 0 < r.revision
  /\ 0 < r.revision => Remembered(w, r.revision, r.cred)
  /\ NotAfter(o.rejected, r)
  /\ o.at # "stable" => o.base <= r.revision
  /\ o.at = "end" => o.base < r.revision

RequestOK(w, o) ==
  /\ o.rejected.held => Remembered(w, o.rejected.revision, o.rejected.cred)
  /\ o.at # "stable" => /\ 0 < o.base /\ o.base <= w.revision
                        /\ o.rejected.held => o.rejected.revision <= o.base
  /\ o.pc \in {"read", "recover", "demote"} => o.at # "end"
  /\ o.pc \in {"claim", "mark", "call", "caught", "fail", "reread"} => o.at # "stable"
  /\ o.pc = "recover" => Offered(w, o, o.seen)
  /\ o.pc = "reread" \/ (o.pc = "call" /\ w.call[o.id].state = "staged")
       => Staged(w) \/ o.base < w.revision
  /\ o.pc = "settle" /\ o.at = "end" =>
       /\ o.base <= o.seen.revision /\ o.seen.revision <= w.revision
       /\ o.seen.revision = w.revision => Staged(w) /\ w.mutation.id = o.seen.id

ServedOK(w, o) ==
  /\ Remembered(w, o.seen.revision, o.seen.cred)
  /\ o.rejected.held /\ o.seen.status = "active" => o.seen.cred # o.rejected.cred

OpFresh(w, o) == /\ o.kind = "refresh" => RequestOK(w, o)
                 /\ o.pc = "served" => ServedOK(w, o)

LEMMA WorldFields ==
  /\ World.status = status /\ World.revision = revision /\ World.cred = cred
  /\ World.mutation = mutation /\ World.claims = claims /\ World.call = call
  BY DEF World

LEMMA WorldFieldsAfter ==
  /\ World'.status = status' /\ World'.revision = revision' /\ World'.cred = cred'
  /\ World'.mutation = mutation' /\ World'.claims = claims' /\ World'.call = call'
  BY DEF World

\* The first account selected is what makes the grant active.
Begun == status = "pending_selection" <=> revision = 0

LEMMA CInvWorld == CInv /\ Begun => WorldOK(World)
<1> SUFFICES ASSUME CInv, Begun PROVE WorldOK(World)
  OBVIOUS
<1>1. /\ revision \in Nat /\ claims \in Nat /\ cred \in Nat /\ mutation.id \in Nat
      /\ cred <= claims /\ (mutation.id # 0 => cred < mutation.id)
  BY Current0 DEF CInv, RecordInv, CallsOK, MutationOK
<1>2. mutation.phase = "result_staged" => mutation.id # 0
  BY DEF CInv, RecordInv, MutationOK, NoMutation
<1> QED  BY <1>1, <1>2, WorldFields DEF WorldOK, Staged, Begun

LEMMA FollowsIf ==
  ASSUME revision <= revision', claims <= claims',
         revision' = revision => status' = status /\ cred' = cred,
         revision < revision' /\ status' = "active" =>
           revision = 0 \/ (mutation.id # 0 /\ cred' = mutation.id),
         mutation'.id \in {0, mutation.id} \/ mutation'.id > claims,
         mutation.phase = "result_staged" => mutation' = mutation \/ revision < revision',
         \A i \in Id : call'[i].state = "staged" =>
           call[i].state = "staged" \/ mutation'.phase = "result_staged"
  PROVE  Follows(World, World')
  BY WorldFields, WorldFieldsAfter DEF Follows, Staged

\* A step that leaves the record alone.
LEMMA RecordStays ==
  ASSUME CInv, Begun, UNCHANGED <<record, claims>>,
         \A i \in Id : call'[i].state = "staged" => call[i].state = "staged"
  PROVE  Follows(World, World') /\ Begun'
<1>1. UNCHANGED <<status, revision, cred, mutation, claims>> /\ revision \in Nat /\ claims \in Nat
  BY Current0 DEF record, CInv
<1> QED  BY <1>1, FollowsIf DEF Begun

LEMMA WorldStays ==
  ASSUME CInv, Begun, UNCHANGED worldVars
  PROVE  Follows(World, World') /\ Begun'
  BY RecordStays DEF worldVars, provider

\* The write that ends a mutation.
LEMMA EndFollows ==
  ASSUME CInv, Begun, NEW s \in Status \ {"pending_selection"}, NEW c, WriteEnd(s, c),
         UNCHANGED <<claims, call>>,
         s = "active" => mutation.id # 0 /\ c = mutation.id
  PROVE  Follows(World, World') /\ Begun'
<1>1. /\ status' = s /\ cred' = c /\ revision' = revision + 1 /\ mutation'.id = 0
      /\ UNCHANGED <<claims, call>>
  BY DEF WriteEnd, NoMutation
<1>2. revision \in Nat /\ claims \in Nat
  BY Current0 DEF CInv
<1> QED  BY <1>1, <1>2, FollowsIf DEF Begun

\* A mutation that is not staged is cleared, or changed in its phase or lease.
LEMMA MutationFollows ==
  ASSUME CInv, Begun, UNCHANGED <<status, revision, cred, claims>>,
         mutation'.id \in {0, mutation.id}, mutation.phase # "result_staged",
         \A i \in Id : call'[i].state = "staged" =>
           call[i].state = "staged" \/ mutation'.phase = "result_staged"
  PROVE  Follows(World, World') /\ Begun'
<1>1. revision \in Nat /\ claims \in Nat
  BY Current0 DEF CInv
<1> QED  BY <1>1, FollowsIf DEF Begun

LEMMA RecoveryFollows ==
  ASSUME CInv, Begun, mutation.phase # "result_staged", WriteRecovery,
         UNCHANGED <<attached, claims, provider>>
  PROVE  Follows(World, World') /\ Begun'
<1>1. UNCHANGED <<claims, call>>
  BY DEF provider
<1>2. CASE FailsClosed
  <2>1. WriteEnd("needs_reauthorization", cred)
    BY <1>2 DEF WriteRecovery
  <2> QED  BY <1>1, <2>1, EndFollows DEF Status
<1>3. CASE ~FailsClosed
  <2>1. UNCHANGED <<status, revision, cred>> /\ mutation'.id = 0
    BY <1>3 DEF WriteRecovery, NoMutation
  <2> QED  BY <1>1, <2>1, MutationFollows
<1> QED  BY <1>2, <1>3

LEMMA ClaimFollows ==
  ASSUME CInv, Begun, NEW kind, NEW rev, NEW slots,
         CanClaim(kind, rev, slots), WriteClaim(kind, slots), UNCHANGED call
  PROVE  Follows(World, World') /\ Begun'
<1>1. /\ claims' = claims + 1 /\ cred' = cred /\ mutation'.id = claims + 1
      /\ status' = IF kind = "revocation" THEN "revocation_pending" ELSE status
      /\ revision' = IF kind = "revocation" /\ status # "revocation_pending"
                     THEN revision + 1 ELSE revision
  BY DEF WriteClaim
<1>2. mutation.phase # "result_staged"
  BY DEF CanClaim, CInv, RecordInv, MutationOK, NoMutation
<1>3. revision \in Nat /\ claims \in Nat
  BY Current0 DEF CInv
<1> QED  BY <1>1, <1>2, <1>3, FollowsIf DEF Begun

\* The connections and the lease, which no operation of a process moves.
LEMMA OwnerFollows ==
  ASSUME CInv, Begun,
         (\E s \in Slot : Connect(s) \/ Disconnect(s)) \/ AbandonSelection \/ LeaseEnds
  PROVE  Follows(World, World') /\ Begun'
<1>1. revision \in Nat /\ claims \in Nat
  BY Current0 DEF CInv
<1>2. ASSUME NEW s \in Slot, Connect(s) PROVE Follows(World, World') /\ Begun'
  <2>1. /\ status \in {"pending_selection", "active"} /\ status' = "active"
        /\ revision' = IF status = "active" THEN revision ELSE revision + 1
        /\ UNCHANGED <<cred, mutation, claims, call>>
    BY <1>2 DEF Connect, provider
  <2> QED  BY <1>1, <2>1, FollowsIf DEF Begun
<1>3. ASSUME NEW s \in Slot, Disconnect(s) PROVE Follows(World, World') /\ Begun'
  <2>1. /\ UNCHANGED <<cred, mutation, claims, call>>
        /\ \/ status' = "revocation_pending" /\ revision' = revision + 1
           \/ UNCHANGED <<status, revision>>
    BY <1>3 DEF Disconnect, provider
  <2> QED  BY <1>1, <2>1, FollowsIf DEF Begun
<1>4. CASE AbandonSelection
  <2>1. /\ UNCHANGED <<cred, mutation, claims, call>>
        /\ status' = "revocation_pending" /\ revision' = revision + 1
    BY <1>4 DEF AbandonSelection, provider
  <2> QED  BY <1>1, <2>1, FollowsIf DEF Begun
<1>5. CASE LeaseEnds
  <2>1. /\ UNCHANGED <<status, revision, cred, claims, call>> /\ mutation'.id = mutation.id
        /\ mutation.phase # "result_staged"
    BY <1>5, Current0 DEF LeaseEnds, provider, CInv, MutationRecord
  <2> QED  BY <2>1, MutationFollows
<1> QED  BY <1>2, <1>3, <1>4, <1>5

\* What others do to a call: only the write of its result makes it staged.
LEMMA CallFollows ==
  ASSUME CInv, Begun, NEW i \in Id, CallStep(i)
  PROVE  Follows(World, World') /\ Begun'
<1>1. call \in [Id -> CallRecord]
  BY DEF CInv, RecordInv, CallsOK
<1>2. CASE ProviderActs(i) \/ AnswerLost(i) \/ SendResult(i)
  <2>1. UNCHANGED <<record, claims>>
    BY <1>2 DEF ProviderActs, AnswerLost, SendResult
  <2>2. \A j \in Id : call'[j].state = "staged" => call[j].state = "staged"
    BY <1>1, <1>2 DEF ProviderActs, AnswerLost, SendResult, CallRecord
  <2> QED  BY <2>1, <2>2, RecordStays
<1>3. ASSUME NEW error \in {"retryable", "terminal", "ambiguous"}, ProviderRefuses(i, error)
      PROVE  Follows(World, World') /\ Begun'
  <2>1. UNCHANGED <<record, claims>>
    BY <1>3 DEF ProviderRefuses
  <2>2. \A j \in Id : call'[j].state = "staged" => call[j].state = "staged"
    BY <1>1, <1>3 DEF ProviderRefuses, CallRecord
  <2> QED  BY <2>1, <2>2, RecordStays
<1>4. CASE StageResult(i)
  <2> DEFINE stages == mutation.id = i /\ mutation.phase = "executing" /\ ~mutation.expired
  <2>1. UNCHANGED <<status, revision, cred, claims>>
    BY <1>4 DEF StageResult
  <2>2. \A j \in Id : call'[j].state = "staged" => call[j].state = "staged" \/ (j = i /\ stages)
    BY <1>1, <1>4 DEF StageResult, CallRecord
  <2>3. CASE stages
    <3>1. mutation'.id = mutation.id /\ mutation'.phase = "result_staged"
      BY <1>4, <2>3, Current0 DEF StageResult, CInv, MutationRecord
    <3> QED  BY <2>1, <2>3, <3>1, MutationFollows
  <2>4. CASE ~stages
    <3>1. mutation' = mutation
      BY <1>4, <2>4 DEF StageResult
    <3> QED  BY <2>1, <2>2, <2>4, <3>1, RecordStays DEF record
  <2> QED  BY <2>3, <2>4
<1> QED  BY <1>2, <1>3, <1>4 DEF CallStep

-----------------------------------------------------------------------------
(* What an operation remembers, while others move the record *)

LEMMA RememberedStays ==
  ASSUME NEW v, NEW w, WorldOK(v), WorldOK(w), Follows(v, w), NEW rev \in Nat, NEW c \in Nat,
         Remembered(v, rev, c)
  PROVE  Remembered(w, rev, c)
<1>1. /\ v.revision \in Nat /\ w.revision \in Nat /\ v.claims \in Nat /\ w.claims \in Nat
      /\ v.mutation.id \in Nat /\ w.mutation.id \in Nat
  BY DEF WorldOK
<1>2. 0 < rev /\ rev <= w.revision /\ c <= w.claims
  BY <1>1 DEF Remembered, Follows
<1>3. w.mutation.id # 0 => c < w.mutation.id
  BY <1>1 DEF Remembered, Follows
<1>4. rev = w.revision => c = w.cred
  BY <1>1 DEF Remembered, Follows
<1>5. ASSUME rev < w.revision, w.status = "active" PROVE c # w.cred
  <2>1. CASE w.revision = v.revision
    BY <1>5, <2>1 DEF Remembered, Follows
  <2>2. CASE v.revision < w.revision
    <3>1. v.mutation.id # 0 /\ w.cred = v.mutation.id
      BY <1>1, <1>5, <2>2 DEF Remembered, Follows
    <3> QED  BY <1>1, <3>1 DEF Remembered
  <2> QED  BY <1>1, <2>1, <2>2 DEF Follows
<1> QED  BY <1>2, <1>3, <1>4, <1>5 DEF Remembered

LEMMA OfferedStays ==
  ASSUME NEW v, NEW w, WorldOK(v), WorldOK(w), Follows(v, w), NEW o, NEW r \in SeenRecord,
         Offered(v, o, r)
  PROVE  Offered(w, o, r)
<1>1. r.revision \in Nat /\ r.cred \in Nat
  BY DEF SeenRecord, Token
<1> QED  BY <1>1, RememberedStays DEF Offered

LEMMA RequestStays ==
  ASSUME NEW v, NEW w, WorldOK(v), WorldOK(w), Follows(v, w), NEW o \in OpRecord,
         o.pc = "call" => o.id \in Id, RequestOK(v, o)
  PROVE  RequestOK(w, o)
<1>1. /\ o.seen \in SeenRecord /\ o.seen.revision \in Nat /\ o.base \in Nat
      /\ o.rejected.revision \in Nat /\ o.rejected.cred \in Nat
  BY DEF OpRecord, SeenRecord, Token
<1>2. v.revision \in Nat /\ w.revision \in Nat /\ v.revision <= w.revision
  BY DEF WorldOK, Follows
<1>3. o.rejected.held => Remembered(w, o.rejected.revision, o.rejected.cred)
  BY <1>1, RememberedStays DEF RequestOK
<1>4. o.at # "stable" => /\ 0 < o.base /\ o.base <= w.revision
                         /\ o.rejected.held => o.rejected.revision <= o.base
  BY <1>1, <1>2 DEF RequestOK
<1>5. o.pc = "recover" => Offered(w, o, o.seen)
  BY <1>1, OfferedStays DEF RequestOK
<1>6. ASSUME o.at # "stable", Staged(v) \/ o.base < v.revision
      PROVE  Staged(w) \/ o.base < w.revision
  <2>1. o.base <= v.revision
    BY <1>6 DEF RequestOK
  <2>2. Staged(v) /\ ~Staged(w) => v.revision < w.revision
    BY DEF Follows, Staged
  <2> QED  BY <1>1, <1>2, <1>6, <2>1, <2>2
<1>7. o.pc = "reread" \/ (o.pc = "call" /\ w.call[o.id].state = "staged")
        => Staged(w) \/ o.base < w.revision
  <2>1. o.pc \in {"reread", "call"} => o.at # "stable"
    BY DEF RequestOK
  <2>2. o.pc = "call" /\ w.call[o.id].state = "staged" => v.call[o.id].state = "staged" \/ Staged(w)
    BY DEF Follows
  <2>3. o.pc = "reread" \/ (o.pc = "call" /\ v.call[o.id].state = "staged")
          => Staged(v) \/ o.base < v.revision
    BY DEF RequestOK
  <2> QED  BY <1>6, <2>1, <2>2, <2>3
<1>8. o.pc = "settle" /\ o.at = "end" =>
        /\ o.base <= o.seen.revision /\ o.seen.revision <= w.revision
        /\ o.seen.revision = w.revision => Staged(w) /\ w.mutation.id = o.seen.id
  <2> SUFFICES ASSUME o.pc = "settle", o.at = "end"
               PROVE  /\ o.base <= o.seen.revision /\ o.seen.revision <= w.revision
                      /\ o.seen.revision = w.revision => Staged(w) /\ w.mutation.id = o.seen.id
    OBVIOUS
  <2>1. /\ o.base <= o.seen.revision /\ o.seen.revision <= v.revision
        /\ o.seen.revision = v.revision => Staged(v) /\ v.mutation.id = o.seen.id
    BY DEF RequestOK
  <2>2. w.revision = v.revision /\ Staged(v) => w.mutation = v.mutation
    BY <1>2 DEF Follows
  <2> QED  BY <1>1, <1>2, <2>1, <2>2 DEF Staged
<1> QED  BY <1>3, <1>4, <1>5, <1>7, <1>8 DEF RequestOK

LEMMA FreshStays ==
  ASSUME NEW v, NEW w, WorldOK(v), WorldOK(w), Follows(v, w), NEW o \in OpRecord,
         o.pc = "call" => o.id \in Id, OpFresh(v, o)
  PROVE  OpFresh(w, o)
<1>1. o.pc = "served" => ServedOK(w, o)
  <2>1. o.seen.revision \in Nat /\ o.seen.cred \in Nat
    BY DEF OpRecord, SeenRecord, Token
  <2> QED  BY <2>1, RememberedStays DEF OpFresh, ServedOK
<1> QED  BY <1>1, RequestStays DEF OpFresh

-----------------------------------------------------------------------------
(* What an operation makes of a record it is handed *)

\* The record as it is now.
LEMMA CurrentOffered ==
  ASSUME NEW w, WorldOK(w), NEW o \in OpRecord, RequestOK(w, o), NEW r,
         r.status = w.status, r.revision = w.revision, r.cred = w.cred,
         o.at = "end" => o.base < w.revision
  PROVE  Offered(w, o, r)
<1>1. w.revision \in Nat /\ w.cred <= w.claims /\ (w.mutation.id # 0 => w.cred < w.mutation.id)
  BY DEF WorldOK
<1>2. w.status = "active" => 0 < w.revision
  BY <1>1 DEF WorldOK
<1>3. 0 < w.revision => Remembered(w, w.revision, w.cred)
  BY <1>1 DEF Remembered
<1>4. NotAfter(o.rejected, r)
  BY DEF RequestOK, Remembered, NotAfter
<1>5. o.at # "stable" => o.base <= r.revision
  BY DEF RequestOK
<1> QED  BY <1>2, <1>3, <1>4, <1>5 DEF Offered

\* What is served is newer than the token that was rejected.
LEMMA EndFresh ==
  ASSUME CInv, NEW p \in Process, NEW w, NEW r \in SeenRecord, End(p, r),
         op[p].kind = "refresh" =>
           /\ Offered(w, op[p], r) /\ 0 < r.revision
           /\ op[p].rejected.held => op[p].rejected.revision < r.revision
  PROVE  OpFresh(w, op'[p])
<1>1. op[p] \in OpRecord /\ op \in [Process -> OpRecord]
  BY DEF CInv, OpsInv, OpsTyped
<1>2. CASE op[p].kind = "refresh" /\ r.status # "revoked"
  <2> DEFINE o == [Idle EXCEPT !.pc = "served", !.seen = r, !.rejected = op[p].rejected]
  <2>1. op'[p] = o
    BY <1>1, <1>2 DEF End, Go
  <2>2. o.kind = "none" /\ o.pc = "served" /\ o.seen = r /\ o.rejected = op[p].rejected
    BY DEF Idle
  <2> HIDE DEF o
  <2>3. ServedOK(w, o)
    BY <1>2, <2>2 DEF ServedOK, Offered, NotAfter
  <2> QED  BY <2>1, <2>2, <2>3 DEF OpFresh
<1>3. CASE ~(op[p].kind = "refresh" /\ r.status # "revoked")
  BY <1>1, <1>3 DEF End, Go, Idle, OpFresh
<1> QED  BY <1>2, <1>3

LEMMA ThrowFresh ==
  ASSUME CInv, NEW p \in Process, NEW w, Throw(p)
  PROVE  OpFresh(w, op'[p])
  BY DEF CInv, OpsInv, OpsTyped, Throw, Go, Idle, OpFresh

\* An operation that goes on with a record it may have been offered.
LEMMA MoveToFresh ==
  ASSUME CInv, NEW p \in Process, NEW w, NEW at, NEW pc, NEW r,
         pc # "served", MoveTo(p, at, pc, r),
         \A o : /\ o.pc = pc /\ o.at = at /\ o.seen = r /\ o.base = op[p].base /\ o.id = op[p].id
                /\ o.rejected = op[p].rejected /\ o.kind = op[p].kind
                /\ op[p].kind = "refresh"
               => RequestOK(w, o)
  PROVE  OpFresh(w, op'[p])
<1> DEFINE o == [op[p] EXCEPT !.at = at, !.pc = pc, !.seen = r]
<1>1. op[p] \in OpRecord /\ op \in [Process -> OpRecord]
  BY DEF CInv, OpsInv, OpsTyped
<1>2. op'[p] = o
  BY <1>1 DEF MoveTo, Go
<1>3. /\ o.pc = pc /\ o.at = at /\ o.seen = r /\ o.base = op[p].base /\ o.id = op[p].id
      /\ o.rejected = op[p].rejected /\ o.kind = op[p].kind
  BY <1>1 DEF OpRecord
<1> HIDE DEF o
<1> QED  BY <1>2, <1>3 DEF OpFresh

LEMMA EndLater ==
  ASSUME CInv, NEW p \in Process, NEW w, NEW r \in SeenRecord, End(p, r), op[p].at # "stable",
         op[p].kind = "refresh" =>
           /\ RequestOK(w, op[p]) /\ Offered(w, op[p], r)
           /\ op[p].at = "end" \/ r.revision # op[p].base
  PROVE  OpFresh(w, op'[p])
<1>1. op[p] \in OpRecord
  BY Op0
<1>2. r.revision \in Nat /\ op[p].base \in Nat /\ op[p].rejected.revision \in Nat
  BY <1>1 DEF OpRecord, SeenRecord
<1>3. ASSUME op[p].kind = "refresh"
      PROVE  0 < r.revision /\ (op[p].rejected.held => op[p].rejected.revision < r.revision)
  <2>1. op[p].base < r.revision
    BY <1>2, <1>3 DEF Offered
  <2>2. 0 < op[p].base /\ (op[p].rejected.held => op[p].rejected.revision <= op[p].base)
    BY <1>3 DEF RequestOK
  <2> QED  BY <1>2, <2>1, <2>2
<1> QED  BY <1>3, EndFresh

LEMMA ReadsAgain ==
  ASSUME CInv, NEW p \in Process, NEW w, NEW at \in {"stable", "again", "prepare", "poll"},
         NEW pc \in {"read", "claim"}, NEW r, MoveTo(p, at, pc, r),
         pc = "claim" => at = "poll", at = "stable" \/ op[p].at # "stable",
         op[p].kind = "refresh" => RequestOK(w, op[p])
  PROVE  OpFresh(w, op'[p])
  BY MoveToFresh DEF RequestOK

LEMMA ResumeFresh ==
  ASSUME CInv, NEW p \in Process, NEW w, NEW r \in SeenRecord, Resume(p, r),
         op[p].kind = "refresh" => RequestOK(w, op[p]) /\ Offered(w, op[p], r)
  PROVE  OpFresh(w, op'[p])
<1>1. op[p] \in OpRecord /\ op \in [Process -> OpRecord]
  BY DEF CInv, OpsInv, OpsTyped
<1>2. op[p].at \in {"stable", "again", "prepare", "poll", "end"}
  BY <1>1 DEF OpRecord
<1>3. CASE Throw(p)
  BY <1>3, ThrowFresh
<1>4. CASE op[p].at = "stable"
  <2>1. \/ MoveTo(p, "stable", "read", NoRecord)
        \/ Throw(p)
        \/ /\ r.status = "active"
           /\ \/ /\ ~(op[p].rejected.held /\ op[p].rejected.revision = r.revision)
                 /\ End(p, r)
              \/ Go(p, [op[p] EXCEPT !.at = "again", !.pc = "read",
                                     !.base = r.revision, !.seen = NoRecord])
    BY <1>4 DEF Resume, AfterStable
  <2>2. CASE MoveTo(p, "stable", "read", NoRecord)
    BY <2>2, ReadsAgain
  <2>3. ASSUME op[p].kind = "refresh", r.status = "active"
        PROVE  /\ 0 < r.revision /\ r.revision <= w.revision
               /\ op[p].rejected.held => op[p].rejected.revision <= r.revision
    BY <2>3 DEF Offered, Remembered, NotAfter
  <2>4. CASE /\ r.status = "active" /\ End(p, r)
             /\ ~(op[p].rejected.held /\ op[p].rejected.revision = r.revision)
    <3>1. r.revision \in Nat /\ op[p].rejected.revision \in Nat
      BY <1>1 DEF OpRecord, SeenRecord
    <3> QED  BY <2>3, <2>4, <3>1, EndFresh
  <2>5. CASE /\ r.status = "active"
             /\ Go(p, [op[p] EXCEPT !.at = "again", !.pc = "read",
                                    !.base = r.revision, !.seen = NoRecord])
    <3> DEFINE o == [op[p] EXCEPT !.at = "again", !.pc = "read",
                                  !.base = r.revision, !.seen = NoRecord]
    <3>1. op'[p] = o
      BY <1>1, <2>5 DEF Go
    <3>2. /\ o.at = "again" /\ o.pc = "read" /\ o.base = r.revision
          /\ o.rejected = op[p].rejected /\ o.kind = op[p].kind
      BY <1>1 DEF OpRecord
    <3> HIDE DEF o
    <3>3. o.kind = "refresh" => RequestOK(w, o)
      BY <2>3, <2>5, <3>2 DEF RequestOK
    <3> QED  BY <3>1, <3>2, <3>3 DEF OpFresh
  <2> QED  BY <1>3, <2>1, <2>2, <2>4, <2>5
<1>5. CASE op[p].at = "again"
  <2>1. \/ MoveTo(p, "again", "read", NoRecord)
        \/ Throw(p)
        \/ r.revision # op[p].base /\ End(p, r)
        \/ MoveTo(p, "prepare", "read", NoRecord)
    BY <1>5 DEF Resume, AfterStableAgain
  <2>2. CASE MoveTo(p, "again", "read", NoRecord) \/ MoveTo(p, "prepare", "read", NoRecord)
    BY <1>5, <2>2, ReadsAgain
  <2>3. CASE r.revision # op[p].base /\ End(p, r)
    BY <1>5, <2>3, EndLater
  <2> QED  BY <1>3, <2>1, <2>2, <2>3
<1>6. CASE op[p].at \in {"prepare", "poll"}
  <2>1. \/ MoveTo(p, "poll", "claim", Seen(r))
        \/ Throw(p)
        \/ (op[p].kind # "refresh" \/ r.revision # op[p].base) /\ End(p, r)
    BY <1>6 DEF Resume, AfterPrepare, AfterPoll
  <2>2. CASE MoveTo(p, "poll", "claim", Seen(r))
    BY <1>6, <2>2, ReadsAgain
  <2>3. CASE (op[p].kind # "refresh" \/ r.revision # op[p].base) /\ End(p, r)
    BY <1>6, <2>3, EndLater
  <2> QED  BY <1>3, <2>1, <2>2, <2>3
<1>7. CASE op[p].at = "end"
  <2>1. End(p, r)
    BY <1>7 DEF Resume
  <2> QED  BY <1>7, <2>1, EndLater
<1> QED  BY <1>2, <1>4, <1>5, <1>6, <1>7

-----------------------------------------------------------------------------
(* The steps *)

\* The invariant: what every operation remembers, against the record.
FreshInv == /\ Begun
            /\ \A p \in Process : OpFresh(World, op[p])

LEMMA CInvWorldAfter == (CInv /\ Begun => WorldOK(World))'
  BY CInvWorld, PTL

\* Others move the record: what an operation remembers stands against the new one.
LEMMA Waiting ==
  ASSUME CInv, FreshInv, CInv', Follows(World, World') /\ Begun', NEW p \in Process
  PROVE  op[p] \in OpRecord /\ WorldOK(World) /\ WorldOK(World') /\ OpFresh(World', op[p])
<1>1. WorldOK(World)
  BY CInvWorld DEF FreshInv
<1>2. WorldOK(World')
  BY CInvWorldAfter
<1>3. op[p] \in OpRecord /\ (op[p].pc = "call" => op[p].id \in Id)
  <2>1. op[p].pc = "call" => op[p].id \in 1..claims /\ claims \in Token /\ claims \in Nat
    BY Op0, Current0 DEF Sound, Holder, CInv, RecordInv, RecordTyped
  <2> QED  BY <2>1, Op0 DEF Id, Token
<1> QED  BY <1>1, <1>2, <1>3, FreshStays DEF FreshInv

LEMMA AllWait ==
  ASSUME CInv, FreshInv, CInv', Follows(World, World') /\ Begun', UNCHANGED op
  PROVE  FreshInv'
  BY Waiting DEF FreshInv

\* The process that steps goes on as it should; the others only wait.
LEMMA FreshStep ==
  ASSUME CInv, FreshInv, CInv', Follows(World, World') /\ Begun',
         NEW p \in Process, \A q \in Process \ {p} : op'[q] = op[q],
         OpFresh(World', op'[p])
  PROVE  FreshInv'
<1>1. ASSUME NEW q \in Process \ {p} PROVE OpFresh(World', op'[q])
  BY <1>1, Waiting
<1> QED  BY <1>1 DEF FreshInv

\* Before its step an operation's memory already stands against the new record.
LEMMA Aged ==
  ASSUME CInv, FreshInv, CInv', Follows(World, World') /\ Begun', NEW p \in Process
  PROVE  /\ op[p] \in OpRecord /\ WorldOK(World) /\ WorldOK(World')
         /\ op[p].kind = "refresh" => RequestOK(World, op[p]) /\ RequestOK(World', op[p])
  BY Waiting DEF FreshInv, OpFresh

\* The record an operation is handed is the one its step leaves.
LEMMA HandsCurrent ==
  ASSUME CInv, FreshInv, CInv', Follows(World, World') /\ Begun',
         NEW p \in Process, \A q \in Process \ {p} : op'[q] = op[q],
         NEW r \in SeenRecord, Resume(p, r),
         r.status = status', r.revision = revision', r.cred = cred',
         op[p].kind = "refresh" /\ op[p].at = "end" => op[p].base < revision'
  PROVE  FreshInv'
<1>1. /\ op[p] \in OpRecord /\ WorldOK(World')
      /\ op[p].kind = "refresh" => RequestOK(World', op[p])
  BY Aged
<1>2. op[p].kind = "refresh" => Offered(World', op[p], r)
  BY <1>1, CurrentOffered, WorldFieldsAfter
<1> QED  BY <1>1, <1>2, ResumeFresh, FreshStep

LEMMA OthersWait ==
  ASSUME CInv, NEW p \in Process, NEW o, op' = [op EXCEPT ![p] = o]
  PROVE  op'[p] = o /\ \A q \in Process \ {p} : op'[q] = op[q]
  BY DEF CInv, OpsInv, OpsTyped

LEMMA ResumeOthers ==
  ASSUME CInv, NEW p \in Process, NEW r, Resume(p, r)
  PROVE  \A q \in Process \ {p} : op'[q] = op[q]
<1>1. \E o : op' = [op EXCEPT ![p] = o]
  <2>1. CASE End(p, r)
    BY <2>1 DEF End, Go
  <2>2. CASE Throw(p)
    BY <2>2 DEF Throw, Go
  <2>3. ASSUME NEW at, NEW pc, NEW s, MoveTo(p, at, pc, s) PROVE \E o : op' = [op EXCEPT ![p] = o]
    BY <2>3 DEF MoveTo, Go
  <2>4. CASE Go(p, [op[p] EXCEPT !.at = "again", !.pc = "read", !.base = r.revision, !.seen = NoRecord])
    BY <2>4 DEF Go
  <2>5. CASE AfterStable(p, r)
    BY <2>1, <2>2, <2>3, <2>4, <2>5 DEF AfterStable
  <2>6. CASE AfterStableAgain(p, r)
    BY <2>1, <2>2, <2>3, <2>6 DEF AfterStableAgain
  <2>7. CASE AfterPrepare(p, r)
    BY <2>1, <2>2, <2>3, <2>7 DEF AfterPrepare
  <2>8. CASE AfterPoll(p, r)
    BY <2>1, <2>2, <2>3, <2>8 DEF AfterPoll
  <2> QED  BY <2>1, <2>5, <2>6, <2>7, <2>8 DEF Resume
<1> QED  BY <1>1, OthersWait

LEMMA StopsFresh ==
  ASSUME CInv, FreshInv, CInv', Follows(World, World') /\ Begun', NEW p \in Process, Throw(p)
  PROVE  FreshInv'
<1>1. \A q \in Process \ {p} : op'[q] = op[q]
  BY OthersWait DEF Throw, Go
<1> QED  BY <1>1, ThrowFresh, FreshStep

LEMMA StepsOn ==
  ASSUME CInv, FreshInv, CInv', Follows(World, World') /\ Begun', NEW p \in Process,
         NEW o, op' = [op EXCEPT ![p] = o], o.pc # "served",
         o.kind = "refresh" => RequestOK(World', o)
  PROVE  FreshInv'
<1>1. op'[p] = o /\ \A q \in Process \ {p} : op'[q] = op[q]
  BY OthersWait
<1>2. OpFresh(World', op'[p])
  BY <1>1 DEF OpFresh
<1> QED  BY <1>1, <1>2, FreshStep

\* A step that changes no more of an operation than these fields.
LEMMA MovesFresh ==
  ASSUME CInv, FreshInv, CInv', Follows(World, World') /\ Begun', NEW p \in Process,
         NEW at, NEW pc, NEW r, pc # "served", MoveTo(p, at, pc, r),
         \A o : /\ o.pc = pc /\ o.at = at /\ o.seen = r /\ o.base = op[p].base /\ o.id = op[p].id
                /\ o.rejected = op[p].rejected /\ o.kind = op[p].kind
                /\ op[p].kind = "refresh"
               => RequestOK(World', o)
  PROVE  FreshInv'
<1>1. \A q \in Process \ {p} : op'[q] = op[q]
  BY OthersWait DEF MoveTo, Go
<1>2. OpFresh(World', op'[p])
  BY MoveToFresh
<1> QED  BY <1>1, <1>2, FreshStep

LEMMA ReadRecordFresh ==
  ASSUME CInv, FreshInv, CInv', NEW p \in Process, ReadRecord(p)
  PROVE  FreshInv'
<1>1. op[p].pc = "read" /\ UNCHANGED worldVars /\ UNCHANGED <<status, revision, cred>>
  BY DEF ReadRecord, worldVars, record
<1>2. Follows(World, World') /\ Begun'
  BY <1>1, WorldStays DEF FreshInv
<1>3. /\ op[p] \in OpRecord /\ WorldOK(World')
      /\ op[p].kind = "refresh" => RequestOK(World', op[p]) /\ op[p].at # "end"
  BY <1>1, <1>2, Aged DEF RequestOK
<1>4. /\ Current \in SeenRecord /\ Current.status = status' /\ Current.revision = revision'
      /\ Current.cred = cred'
  BY <1>1, CurrentTyped DEF Current
<1>5. CASE Resume(p, Current)
  <2>1. \A q \in Process \ {p} : op'[q] = op[q]
    BY <1>5, ResumeOthers
  <2> QED  BY <1>2, <1>3, <1>4, <1>5, <2>1, HandsCurrent
<1>6. CASE MoveTo(p, op[p].at, "demote", Seen(Current)) /\ op[p].kind = "revocation"
  BY <1>2, <1>6, MovesFresh
<1>7. CASE MoveTo(p, op[p].at, "settle", Seen(Current))
  <2>1. \A o : /\ o.pc = "settle" /\ o.at = op[p].at /\ o.base = op[p].base
               /\ o.rejected = op[p].rejected /\ op[p].kind = "refresh"
               => RequestOK(World', o)
    BY <1>3 DEF RequestOK
  <2> QED  BY <1>2, <1>7, <2>1, MovesFresh
<1>8. CASE MoveTo(p, op[p].at, "recover", Current)
  <2>1. op[p].kind = "refresh" => Offered(World', op[p], Current)
    BY <1>3, <1>4, CurrentOffered, WorldFieldsAfter
  <2>2. \A o : /\ o.pc = "recover" /\ o.at = op[p].at /\ o.seen = Current /\ o.base = op[p].base
               /\ o.rejected = op[p].rejected /\ op[p].kind = "refresh"
               => RequestOK(World', o)
    <3> SUFFICES ASSUME NEW o, o.pc = "recover", o.at = op[p].at, o.seen = Current,
                        o.base = op[p].base, o.rejected = op[p].rejected, op[p].kind = "refresh"
                 PROVE  RequestOK(World', o)
      OBVIOUS
    <3>1. Offered(World', o, Current)
      BY <2>1 DEF Offered
    <3> QED  BY <1>3, <3>1 DEF RequestOK
  <2> QED  BY <1>2, <1>8, <2>2, MovesFresh
<1> QED  BY <1>5, <1>6, <1>7, <1>8 DEF ReadRecord

LEMMA RecoverFresh ==
  ASSUME CInv, FreshInv, CInv', NEW p \in Process, Recover(p)
  PROVE  FreshInv'
<1>1. op[p].pc = "recover" /\ UNCHANGED <<attached, claims, provider>>
  BY DEF Recover
<1>2. CASE mutation.id # 0 /\ mutation.phase # "result_staged" /\ mutation.expired
  <2> DEFINE rec == [Current EXCEPT !.status = status', !.revision = revision', !.id = 0,
                                    !.kind = "none", !.phase = "none"]
  <2>1. WriteRecovery /\ Resume(p, rec)
    BY <1>2 DEF Recover
  <2>2. Follows(World, World') /\ Begun'
    BY <1>1, <1>2, <2>1, RecoveryFollows DEF FreshInv
  <2>3. rec \in SeenRecord /\ rec.status = status' /\ rec.revision = revision' /\ rec.cred = cred'
    <3>1. status' \in Status /\ revision' \in Nat /\ cred' = cred
      BY <2>1 DEF CInv, RecordInv, RecordTyped, WriteRecovery, WriteEnd
    <3>2. 0 \in Token /\ "none" \in AnyKind /\ "none" \in Phase
      BY DEF Token, AnyKind, Phase
    <3>3. Current \in SeenRecord /\ Current.cred = cred
      BY CurrentTyped DEF Current
    <3> QED  BY <3>1, <3>2, <3>3 DEF SeenRecord
  <2> HIDE DEF rec
  <2>4. op[p].kind = "refresh" => op[p].at # "end"
    BY <1>1, <2>2, Aged DEF RequestOK
  <2>5. \A q \in Process \ {p} : op'[q] = op[q]
    BY <2>1, ResumeOthers
  <2> QED  BY <2>1, <2>2, <2>3, <2>4, <2>5, HandsCurrent
<1>3. CASE ~(mutation.id # 0 /\ mutation.phase # "result_staged" /\ mutation.expired)
  <2>1. /\ UNCHANGED worldVars /\ UNCHANGED <<status, revision, cred>>
        /\ Resume(p, Current) \/ Resume(p, op[p].seen)
    BY <1>1, <1>3 DEF Recover, worldVars, record
  <2>2. Follows(World, World') /\ Begun'
    BY <2>1, WorldStays DEF FreshInv
  <2>3. /\ op[p] \in OpRecord
        /\ op[p].kind = "refresh" => /\ RequestOK(World', op[p]) /\ op[p].at # "end"
                                     /\ Offered(World', op[p], op[p].seen)
    BY <1>1, <2>2, Aged DEF RequestOK
  <2>4. \A q \in Process \ {p} : op'[q] = op[q]
    BY <2>1, ResumeOthers
  <2>5. CASE Resume(p, Current)
    <3>1. /\ Current \in SeenRecord /\ Current.status = status' /\ Current.revision = revision'
          /\ Current.cred = cred'
      BY <2>1, CurrentTyped DEF Current
    <3> QED  BY <2>2, <2>3, <2>4, <2>5, <3>1, HandsCurrent
  <2>6. CASE Resume(p, op[p].seen)
    <3>1. op[p].seen \in SeenRecord
      BY <2>3 DEF OpRecord
    <3>2. OpFresh(World', op'[p])
      BY <2>3, <2>6, <3>1, ResumeFresh
    <3> QED  BY <2>2, <2>4, <3>2, FreshStep
  <2> QED  BY <2>1, <2>5, <2>6
<1> QED  BY <1>2, <1>3

LEMMA DemoteFresh ==
  ASSUME CInv, FreshInv, CInv', NEW p \in Process, Demote(p)
  PROVE  FreshInv'
<1>1. op[p].pc = "demote" /\ UNCHANGED <<attached, claims, provider>>
  BY DEF Demote
<1>2. CASE Matches(op[p].seen.id, op[p].seen.revision)
  <2> DEFINE rec == Ended("needs_reauthorization", StagedCred)
  <2>1. WriteEnd("needs_reauthorization", StagedCred) /\ Resume(p, rec) /\ UNCHANGED <<claims, call>>
    BY <1>1, <1>2 DEF Demote, provider
  <2>2. Follows(World, World') /\ Begun'
    BY <2>1, EndFollows DEF FreshInv, Status
  <2>3. rec \in SeenRecord
    BY EndedTyped DEF StagedCred, CInv, RecordInv, RecordTyped, MutationRecord, Status
  <2>4. rec.status = status' /\ rec.revision = revision' /\ rec.cred = cred'
    BY <2>1 DEF WriteEnd, Ended
  <2> HIDE DEF rec
  <2>5. op[p].kind = "refresh" => op[p].at # "end"
    BY <1>1, <2>2, Aged DEF RequestOK
  <2>6. \A q \in Process \ {p} : op'[q] = op[q]
    BY <2>1, ResumeOthers
  <2> QED  BY <2>1, <2>2, <2>3, <2>4, <2>5, <2>6, HandsCurrent
<1>3. CASE ~Matches(op[p].seen.id, op[p].seen.revision)
  <2>1. UNCHANGED worldVars /\ UNCHANGED <<status, revision, cred>> /\ Resume(p, Current)
    BY <1>1, <1>3 DEF Demote, worldVars, record
  <2>2. Follows(World, World') /\ Begun'
    BY <2>1, WorldStays DEF FreshInv
  <2>3. op[p].kind = "refresh" => op[p].at # "end"
    BY <1>1, <2>2, Aged DEF RequestOK
  <2>4. /\ Current \in SeenRecord /\ Current.status = status' /\ Current.revision = revision'
        /\ Current.cred = cred'
    BY <2>1, CurrentTyped DEF Current
  <2>5. \A q \in Process \ {p} : op'[q] = op[q]
    BY <2>1, ResumeOthers
  <2> QED  BY <2>1, <2>2, <2>3, <2>4, <2>5, HandsCurrent
<1> QED  BY <1>2, <1>3

LEMMA SettleFresh ==
  ASSUME CInv, FreshInv, CInv', NEW p \in Process, Settle(p)
  PROVE  FreshInv'
<1>1. /\ op[p].pc = "settle" /\ UNCHANGED <<attached, claims, provider>> /\ UNCHANGED <<claims, call>>
      /\ mutation.id # 0 /\ mutation.id \in Token /\ revision = op[p].seen.revision
  BY SeenKind DEF Settle, StillStaged, Matches, CInv, RecordInv, RecordTyped, MutationRecord, provider
<1>2. \E s \in {"revoked", "active"}, c \in Token :
        /\ WriteEnd(s, c) /\ Resume(p, Ended(s, c))
        /\ s = "active" => c = mutation.id
  <2>1. CASE mutation.kind = "revocation"
    BY <2>1 DEF Settle, Token
  <2>2. CASE mutation.kind # "revocation"
    BY <1>1, <2>2 DEF Settle
  <2> QED  BY <2>1, <2>2
<1>3. PICK s \in {"revoked", "active"}, c \in Token :
        /\ WriteEnd(s, c) /\ Resume(p, Ended(s, c))
        /\ s = "active" => c = mutation.id
  BY <1>2
<1> DEFINE rec == Ended(s, c)
<1>4. Follows(World, World') /\ Begun'
  BY <1>1, <1>3, EndFollows DEF FreshInv, Status
<1>5. rec \in SeenRecord
  BY EndedTyped DEF Status
<1>6. rec.status = status' /\ rec.revision = revision' /\ rec.cred = cred' /\ revision' = revision + 1
  BY <1>3 DEF WriteEnd, Ended
<1> HIDE DEF rec
<1>7. op[p].kind = "refresh" /\ op[p].at = "end" => op[p].base < revision'
  <2>1. revision \in Nat /\ op[p].base \in Nat
    BY Op0, Current0 DEF CInv, OpRecord
  <2>2. op[p].kind = "refresh" /\ op[p].at = "end" => op[p].base <= revision
    BY <1>1, <1>4, Aged DEF RequestOK
  <2> QED  BY <1>6, <2>1, <2>2
<1>8. \A q \in Process \ {p} : op'[q] = op[q]
  BY <1>3, ResumeOthers
<1>9. Resume(p, rec)
  BY <1>3 DEF rec
<1> QED  BY <1>4, <1>5, <1>6, <1>7, <1>8, <1>9, HandsCurrent

LEMMA SettleLateFresh ==
  ASSUME CInv, FreshInv, CInv', NEW p \in Process, SettleLate(p)
  PROVE  FreshInv'
<1>1. /\ op[p].pc = "settle" /\ ~StillStaged(p) /\ (Resume(p, Current) \/ Throw(p))
      /\ UNCHANGED worldVars /\ UNCHANGED <<status, revision, cred>>
  BY DEF SettleLate, worldVars, record
<1>2. Follows(World, World') /\ Begun'
  BY <1>1, WorldStays DEF FreshInv
<1>3. ASSUME op[p].kind = "refresh", op[p].at = "end" PROVE op[p].base < revision
  <2>1. revision \in Nat /\ op[p].base \in Nat /\ op[p].seen.revision \in Nat
    BY Op0, Current0 DEF CInv, OpRecord, SeenRecord
  <2>2. /\ op[p].base <= op[p].seen.revision /\ op[p].seen.revision <= revision
        /\ op[p].seen.revision = revision =>
             mutation.phase = "result_staged" /\ mutation.id = op[p].seen.id
    BY <1>1, <1>2, <1>3, Aged, WorldFields DEF RequestOK, Staged
  <2>3. op[p].seen.revision # revision
    <3>1. mutation.phase = "result_staged" => mutation.id # 0
      BY DEF CInv, RecordInv, MutationOK, NoMutation
    <3> QED  BY <1>1, <2>2, <3>1 DEF StillStaged, Matches
  <2> QED  BY <2>1, <2>2, <2>3
<1>4. CASE Resume(p, Current)
  <2>1. /\ Current \in SeenRecord /\ Current.status = status' /\ Current.revision = revision'
        /\ Current.cred = cred'
    BY <1>1, CurrentTyped DEF Current
  <2>2. \A q \in Process \ {p} : op'[q] = op[q]
    BY <1>4, ResumeOthers
  <2> QED  BY <1>1, <1>2, <1>3, <1>4, <2>1, <2>2, HandsCurrent
<1>5. CASE Throw(p)
  BY <1>2, <1>5, StopsFresh
<1> QED  BY <1>1, <1>4, <1>5

LEMMA ClaimFresh ==
  ASSUME CInv, FreshInv, CInv', NEW p \in Process, Claim(p)
  PROVE  FreshInv'
<1>1. op[p].pc = "claim" /\ UNCHANGED call /\ UNCHANGED provider
  BY DEF Claim, provider
<1>2. CASE CanClaim(op[p].kind, op[p].seen.revision, op[p].slots)
  <2> DEFINE o == [op[p] EXCEPT !.pc = "mark", !.id = claims + 1, !.rev = revision',
                                !.cred = cred, !.seen = NoRecord]
  <2>1. WriteClaim(op[p].kind, op[p].slots) /\ op' = [op EXCEPT ![p] = o]
    BY <1>2 DEF Claim, Go
  <2>2. Follows(World, World') /\ Begun'
    BY <1>1, <1>2, <2>1, ClaimFollows DEF FreshInv
  <2>3. op[p] \in OpRecord /\ (op[p].kind = "refresh" => RequestOK(World', op[p]))
    BY <2>2, Aged
  <2>4. /\ o.pc = "mark" /\ o.at = op[p].at /\ o.base = op[p].base
        /\ o.rejected = op[p].rejected /\ o.kind = op[p].kind
    BY <2>3 DEF OpRecord
  <2> HIDE DEF o
  <2>5. o.kind = "refresh" => RequestOK(World', o)
    BY <1>1, <2>3, <2>4 DEF RequestOK
  <2> QED  BY <2>1, <2>2, <2>4, <2>5, StepsOn
<1>3. CASE ~CanClaim(op[p].kind, op[p].seen.revision, op[p].slots)
  <2> DEFINE o == [op[p] EXCEPT !.pc = "read", !.seen = NoRecord]
  <2>1. UNCHANGED worldVars /\ op' = [op EXCEPT ![p] = o]
    BY <1>1, <1>3 DEF Claim, Go, worldVars
  <2>2. Follows(World, World') /\ Begun'
    BY <2>1, WorldStays DEF FreshInv
  <2>3. /\ op[p] \in OpRecord /\ (op[p].kind = "refresh" => RequestOK(World', op[p]))
        /\ op[p].at # "end"
    BY <1>1, <2>2, Aged, Op0 DEF Sound
  <2>4. /\ o.pc = "read" /\ o.at = op[p].at /\ o.base = op[p].base
        /\ o.rejected = op[p].rejected /\ o.kind = op[p].kind
    BY <2>3 DEF OpRecord
  <2> HIDE DEF o
  <2>5. o.kind = "refresh" => RequestOK(World', o)
    BY <1>1, <2>3, <2>4 DEF RequestOK
  <2> QED  BY <2>1, <2>2, <2>4, <2>5, StepsOn
<1> QED  BY <1>2, <1>3

\* A process that gives its claim back or fails it closed, and is done.
LEMMA EndsFresh ==
  ASSUME CInv, FreshInv, CInv', NEW p \in Process, Release(p) \/ DiscoveryMismatch(p)
  PROVE  FreshInv'
<1>1. Throw(p) /\ UNCHANGED <<claims, call>>
  BY DEF Release, DiscoveryMismatch, provider
<1>2. CASE Release(p)
  <2>1. UNCHANGED <<status, revision, cred>>
    BY <1>2 DEF Release
  <2>2. CASE mutation.phase # "result_staged" /\ mutation' = NoMutation
    BY <1>1, <2>1, <2>2, Current0, MutationFollows, StopsFresh DEF CInv, FreshInv
  <2>3. CASE UNCHANGED mutation
    BY <1>1, <2>1, <2>3, RecordStays, StopsFresh DEF FreshInv, record
  <2> QED  BY <1>2, <2>2, <2>3 DEF Release
<1>3. CASE DiscoveryMismatch(p)
  <2>1. WriteEnd("needs_reauthorization", StagedCred)
    BY <1>3 DEF DiscoveryMismatch
  <2> QED  BY <1>1, <2>1, EndFollows, StopsFresh DEF FreshInv, Status
<1> QED  BY <1>2, <1>3

\* A claim that is not executed: its stored credential cannot be presented.
LEMMA UnopenedFresh ==
  ASSUME CInv, FreshInv, CInv', NEW p \in Process, OpenFails(p) \/ NoRefreshToken(p)
  PROVE  FreshInv'
<1>1. UNCHANGED worldVars /\ op[p].pc = "mark"
  BY DEF OpenFails, NoRefreshToken, worldVars
<1>2. Follows(World, World') /\ Begun'
  BY <1>1, WorldStays DEF FreshInv
<1>3. op[p] \in OpRecord /\ (op[p].kind = "refresh" => RequestOK(World', op[p]))
  BY <1>2, Aged
<1>4. PICK pc \in {"release", "fail"}, c \in Token :
        op' = [op EXCEPT ![p] = [op[p] EXCEPT !.pc = pc, !.cred = c]]
  <2>1. [op[p] EXCEPT !.pc = "release"] = [op[p] EXCEPT !.pc = "release", !.cred = op[p].cred]
    BY <1>3 DEF OpRecord
  <2>2. op[p].cred \in Token /\ 0 \in Token
    BY <1>3 DEF OpRecord, Token
  <2> QED  BY <2>1, <2>2 DEF OpenFails, NoRefreshToken, Go
<1> DEFINE o == [op[p] EXCEPT !.pc = pc, !.cred = c]
<1>5. /\ o.pc = pc /\ o.at = op[p].at /\ o.base = op[p].base
      /\ o.rejected = op[p].rejected /\ o.kind = op[p].kind
  BY <1>3 DEF OpRecord
<1>6. op' = [op EXCEPT ![p] = o]
  BY <1>4
<1> HIDE DEF o
<1>7. o.kind = "refresh" => RequestOK(World', o)
  BY <1>1, <1>3, <1>5 DEF RequestOK
<1> QED  BY <1>2, <1>5, <1>6, <1>7, StepsOn

\* The operation has an error to deal with.
LEMMA CaughtFresh ==
  ASSUME CInv, FreshInv, CInv', Follows(World, World') /\ Begun', NEW p \in Process,
         op[p].pc \in {"mark", "call"}, NEW error, NEW c,
         op' = [op EXCEPT ![p] = [op[p] EXCEPT !.pc = "caught", !.cred = c, !.error = error]]
  PROVE  FreshInv'
<1> DEFINE o == [op[p] EXCEPT !.pc = "caught", !.cred = c, !.error = error]
<1>1. op[p] \in OpRecord /\ (op[p].kind = "refresh" => RequestOK(World', op[p]))
  BY Aged
<1>2. /\ o.pc = "caught" /\ o.at = op[p].at /\ o.base = op[p].base
      /\ o.rejected = op[p].rejected /\ o.kind = op[p].kind
  BY <1>1 DEF OpRecord
<1>3. op' = [op EXCEPT ![p] = o]
  OBVIOUS
<1> HIDE DEF o
<1>4. o.kind = "refresh" => RequestOK(World', o)
  BY <1>1, <1>2 DEF RequestOK
<1> QED  BY <1>2, <1>3, <1>4, StepsOn

LEMMA ExecuteFresh ==
  ASSUME CInv, FreshInv, CInv', NEW p \in Process, Execute(p)
  PROVE  FreshInv'
<1>1. op[p].pc = "mark" /\ UNCHANGED <<status, revision, cred, claims>>
  BY DEF Execute
<1>2. CASE Matches(op[p].id, op[p].rev) /\ mutation.phase = "prepared" /\ ~mutation.expired
  <2> DEFINE o == [op[p] EXCEPT !.pc = "call", !.cred = 0]
  <2>1. /\ mutation'.id = mutation.id /\ op' = [op EXCEPT ![p] = o]
        /\ call' = [call EXCEPT ![op[p].id] = [state |-> "sent", kind |-> op[p].kind,
                                               cred |-> op[p].cred, live |-> TRUE]]
    BY <1>2, Current0 DEF Execute, Go, CInv, MutationRecord
  <2>2. call \in [Id -> CallRecord] /\ op[p].id \in Id
    BY <1>1, <1>2, Current0
       DEF CInv, RecordInv, RecordTyped, MutationRecord, CallsOK, Matches, Token, Id
  <2>3. call'[op[p].id].state = "sent" /\ \A i \in Id : call'[i].state = "staged" => call[i].state = "staged"
    BY <2>1, <2>2
  <2>4. Follows(World, World') /\ Begun'
    BY <1>1, <1>2, <2>1, <2>3, MutationFollows DEF FreshInv
  <2>5. op[p] \in OpRecord /\ (op[p].kind = "refresh" => RequestOK(World', op[p]))
    BY <2>4, Aged
  <2>6. /\ o.pc = "call" /\ o.at = op[p].at /\ o.base = op[p].base /\ o.id = op[p].id
        /\ o.rejected = op[p].rejected /\ o.kind = op[p].kind
    BY <2>5 DEF OpRecord
  <2> HIDE DEF o
  <2>7. o.kind = "refresh" => RequestOK(World', o)
    BY <1>1, <2>3, <2>5, <2>6, WorldFieldsAfter DEF RequestOK
  <2> QED  BY <2>1, <2>4, <2>6, <2>7, StepsOn
<1>3. CASE ~(Matches(op[p].id, op[p].rev) /\ mutation.phase = "prepared" /\ ~mutation.expired)
  <2>1. /\ op' = [op EXCEPT ![p] = [op[p] EXCEPT !.pc = "caught", !.cred = 0, !.error = "ambiguous"]]
        /\ UNCHANGED <<record, claims>> /\ UNCHANGED call
    BY <1>3 DEF Execute, Go, record
  <2>2. Follows(World, World') /\ Begun'
    BY <2>1, RecordStays DEF FreshInv
  <2> QED  BY <1>1, <2>1, <2>2, CaughtFresh
<1> QED  BY <1>2, <1>3

\* What stays of a call nobody listens to is not a staged result.
LEMMA LeftFollows ==
  ASSUME CInv, FreshInv, NEW p \in Process, op[p].pc = "call",
         call' = [call EXCEPT ![op[p].id] = Left(call[op[p].id])], UNCHANGED <<record, claims>>
  PROVE  Follows(World, World') /\ Begun'
<1>1. op[p].id \in Id /\ call \in [Id -> CallRecord]
  BY Op0, Current0 DEF Sound, Holder, CInv, RecordInv, RecordTyped, CallsOK, Token, Id
<1>2. \A i \in Id : call'[i].state = "staged" => call[i].state = "staged"
  BY <1>1 DEF Left, CallRecord
<1> QED  BY <1>2, RecordStays DEF FreshInv

LEMMA ReturnFresh ==
  ASSUME CInv, FreshInv, CInv', NEW p \in Process, Return(p)
  PROVE  FreshInv'
<1>1. /\ op[p].pc = "call" /\ UNCHANGED <<status, revision, mutation>>
      /\ Follows(World, World') /\ Begun'
  BY LeftFollows DEF Return, record
<1>2. /\ op[p] \in OpRecord
      /\ op[p].kind = "refresh" => RequestOK(World, op[p]) /\ RequestOK(World', op[p])
  BY <1>1, Aged
<1>3. CASE call[op[p].id].state = "staged"
  <2> DEFINE o == [op[p] EXCEPT !.at = "end", !.pc = "reread"]
  <2>1. op' = [op EXCEPT ![p] = o]
    BY <1>3 DEF Return, Go
  <2>2. /\ o.pc = "reread" /\ o.at = "end" /\ o.base = op[p].base
        /\ o.rejected = op[p].rejected /\ o.kind = op[p].kind
    BY <1>2 DEF OpRecord
  <2> HIDE DEF o
  <2>3. op[p].kind = "refresh" => Staged(World') \/ op[p].base < World'.revision
    BY <1>1, <1>2, <1>3, WorldFields, WorldFieldsAfter DEF RequestOK, Staged
  <2>4. o.kind = "refresh" => RequestOK(World', o)
    BY <1>1, <1>2, <2>2, <2>3 DEF RequestOK
  <2> QED  BY <1>1, <2>1, <2>2, <2>4, StepsOn
<1>4. CASE call[op[p].id].state # "staged"
  <2>1. PICK error : op' = [op EXCEPT ![p] = [op[p] EXCEPT !.pc = "caught", !.error = error]]
    BY <1>4 DEF Return, Go
  <2>2. [op[p] EXCEPT !.pc = "caught", !.error = error]
          = [op[p] EXCEPT !.pc = "caught", !.cred = op[p].cred, !.error = error]
    BY <1>2 DEF OpRecord
  <2> QED  BY <1>1, <2>1, <2>2, CaughtFresh
<1> QED  BY <1>3, <1>4

LEMMA AbortFresh ==
  ASSUME CInv, FreshInv, CInv', NEW p \in Process, Abort(p)
  PROVE  FreshInv'
<1>1. op[p].pc = "call" /\ Follows(World, World') /\ Begun'
  BY LeftFollows DEF Abort
<1>2. op' = [op EXCEPT ![p] = [op[p] EXCEPT !.pc = "caught", !.error = "ambiguous"]]
  BY DEF Abort, Go
<1>3. [op[p] EXCEPT !.pc = "caught", !.error = "ambiguous"]
        = [op[p] EXCEPT !.pc = "caught", !.cred = op[p].cred, !.error = "ambiguous"]
  BY Op0 DEF OpRecord
<1> QED  BY <1>1, <1>2, <1>3, CaughtFresh

LEMMA CrashFresh ==
  ASSUME CInv, FreshInv, CInv', NEW p \in Process, Crash(p)
  PROVE  FreshInv'
<1>1. Throw(p) /\ UNCHANGED <<record, claims>>
  BY DEF Crash, Throw
<1>2. CASE op[p].pc = "call"
  BY <1>1, <1>2, LeftFollows, StopsFresh DEF Crash
<1>3. CASE op[p].pc # "call"
  BY <1>1, <1>3, RecordStays, StopsFresh DEF Crash, FreshInv
<1> QED  BY <1>2, <1>3

\* It finds a result staged, and will settle it: its own request predates it.
LEMMA FindsFresh ==
  ASSUME CInv, FreshInv, CInv', NEW p \in Process, op[p].pc \in {"reread", "caught"},
         UNCHANGED worldVars, mutation.phase = "result_staged",
         MoveTo(p, "end", "settle", Seen(Current))
  PROVE  FreshInv'
<1>1. Follows(World, World') /\ Begun'
  BY WorldStays DEF FreshInv
<1>2. op[p].kind = "refresh" => RequestOK(World', op[p]) /\ op[p].base <= World'.revision
  BY <1>1, Aged DEF RequestOK
<1>3. World'.revision \in Nat
  BY <1>1, Aged DEF WorldOK
<1>4. /\ Seen(Current).revision = World'.revision /\ Seen(Current).id = World'.mutation.id
      /\ Staged(World')
  <2>1. UNCHANGED <<revision, mutation>>
    BY DEF worldVars, record
  <2>2. Current \in SeenRecord /\ Current.id = mutation.id /\ Current.revision = revision
    BY CurrentTyped
  <2>3. Seen(Current).revision = Current.revision /\ Seen(Current).id = Current.id
    BY DEF Seen, NoRecord
  <2> QED  BY <2>1, <2>2, <2>3, WorldFieldsAfter DEF Staged
<1>5. \A o : /\ o.pc = "settle" /\ o.at = "end" /\ o.seen = Seen(Current) /\ o.base = op[p].base
             /\ o.rejected = op[p].rejected /\ op[p].kind = "refresh"
             => RequestOK(World', o)
  BY <1>2, <1>3, <1>4 DEF RequestOK
<1> QED  BY <1>1, <1>5, MovesFresh

\* It ends with the record as it is, which is not the one it set out to replace.
LEMMA EndsWithCurrent ==
  ASSUME CInv, FreshInv, CInv', NEW p \in Process, UNCHANGED worldVars, End(p, Current),
         op[p].kind = "refresh" => op[p].at # "stable" /\ op[p].base < revision
  PROVE  FreshInv'
<1>1. UNCHANGED <<status, revision, cred>> /\ Follows(World, World') /\ Begun'
  BY WorldStays DEF FreshInv, worldVars, record
<1>2. /\ Current \in SeenRecord /\ Current.status = status' /\ Current.revision = revision'
      /\ Current.cred = cred'
  BY <1>1, CurrentTyped DEF Current
<1>3. /\ op[p] \in OpRecord /\ WorldOK(World')
      /\ op[p].kind = "refresh" => RequestOK(World', op[p])
  BY <1>1, Aged
<1>4. op[p].kind = "refresh" => Offered(World', op[p], Current)
  BY <1>1, <1>2, <1>3, CurrentOffered, WorldFieldsAfter
<1>5. op[p].kind = "refresh" => Current.revision # op[p].base
  BY <1>1, <1>2, <1>3, Current0 DEF CInv, OpRecord
<1>6. OpFresh(World', op'[p])
  <2>1. CASE op[p].kind = "refresh"
    BY <1>2, <1>3, <1>4, <1>5, <2>1, EndLater
  <2>2. CASE op[p].kind # "refresh"
    BY <1>2, <2>2, EndFresh
  <2> QED  BY <2>1, <2>2
<1>7. \A q \in Process \ {p} : op'[q] = op[q]
  BY OthersWait DEF End, Go
<1> QED  BY <1>1, <1>6, <1>7, FreshStep

LEMMA RereadFresh ==
  ASSUME CInv, FreshInv, CInv', NEW p \in Process, Reread(p)
  PROVE  FreshInv'
<1>1. op[p].pc = "reread" /\ UNCHANGED worldVars
  BY DEF Reread, worldVars
<1>2. CASE mutation.phase = "result_staged"
  BY <1>1, <1>2, FindsFresh DEF Reread
<1>3. CASE mutation.phase # "result_staged"
  <2>1. op[p].kind = "refresh" => op[p].at # "stable" /\ op[p].base < revision
    BY <1>1, <1>3, WorldFields DEF FreshInv, OpFresh, RequestOK, Staged
  <2> QED  BY <1>1, <1>3, <2>1, EndsWithCurrent DEF Reread
<1> QED  BY <1>2, <1>3

LEMMA CatchFresh ==
  ASSUME CInv, FreshInv, CInv', NEW p \in Process, Catch(p)
  PROVE  FreshInv'
<1>1. op[p].pc = "caught" /\ UNCHANGED worldVars
  BY DEF Catch, worldVars
<1>2. CASE mutation.id = op[p].id /\ mutation.phase = "result_staged"
  BY <1>1, <1>2, FindsFresh DEF Catch
<1>3. CASE ~(mutation.id = op[p].id /\ mutation.phase = "result_staged")
  <2>1. PICK pc \in {"release", "fail"} : MoveTo(p, "end", pc, NoRecord)
    BY <1>3 DEF Catch
  <2>2. Follows(World, World') /\ Begun'
    BY <1>1, WorldStays DEF FreshInv
  <2>3. op[p].kind = "refresh" => RequestOK(World', op[p])
    BY <2>2, Aged
  <2>4. \A o : /\ o.pc = pc /\ o.at = "end" /\ o.base = op[p].base
               /\ o.rejected = op[p].rejected /\ op[p].kind = "refresh"
               => RequestOK(World', o)
    BY <1>1, <2>3 DEF RequestOK
  <2> QED  BY <2>1, <2>2, <2>4, MovesFresh
<1> QED  BY <1>2, <1>3

LEMMA FailClosedFresh ==
  ASSUME CInv, FreshInv, CInv', NEW p \in Process, FailClosed(p)
  PROVE  FreshInv'
<1>1. op[p].pc = "fail" /\ UNCHANGED <<attached, claims, provider>> /\ UNCHANGED <<claims, call>>
  BY DEF FailClosed, provider
<1>2. CASE Matches(op[p].id, op[p].rev)
  <2>1. WriteEnd("needs_reauthorization", StagedCred) /\ Throw(p)
    BY <1>2 DEF FailClosed
  <2> QED  BY <1>1, <2>1, EndFollows, StopsFresh DEF FreshInv, Status
<1>3. CASE ~Matches(op[p].id, op[p].rev)
  <2>1. /\ UNCHANGED worldVars
        /\ (op[p].kind = "refresh" /\ revision # op[p].base /\ End(p, Current)) \/ Throw(p)
    BY <1>1, <1>3 DEF FailClosed, worldVars
  <2>2. CASE Throw(p)
    BY <2>1, <2>2, WorldStays, StopsFresh DEF FreshInv
  <2>3. CASE op[p].kind = "refresh" /\ revision # op[p].base /\ End(p, Current)
    <3>1. op[p].at # "stable" /\ op[p].base <= revision
      BY <1>1, <2>3, WorldFields DEF FreshInv, OpFresh, RequestOK
    <3>2. revision \in Nat /\ op[p].base \in Nat
      BY Op0, Current0 DEF CInv, OpRecord
    <3> QED  BY <2>1, <2>3, <3>1, <3>2, EndsWithCurrent
  <2> QED  BY <2>1, <2>2, <2>3
<1> QED  BY <1>2, <1>3

\* A request begins, with the token its caller rejects if it rejects one.
LEMMA BeginsFresh ==
  ASSUME CInv, FreshInv, CInv', NEW p \in Process,
         GetToken(p) \/ GetAnother(p) \/ Reauthorize(p) \/ Revoke(p)
  PROVE  FreshInv'
<1>1. UNCHANGED worldVars
  BY DEF GetToken, GetAnother, Reauthorize, Revoke, worldVars
<1>2. Follows(World, World') /\ Begun'
  BY <1>1, WorldStays DEF FreshInv
<1>3. CASE GetToken(p)
  <2> DEFINE o == [Idle EXCEPT !.pc = "read", !.kind = "refresh"]
  <2>1. op' = [op EXCEPT ![p] = o]
    BY <1>3 DEF GetToken, Go
  <2>2. o.pc = "read" /\ o.at = "stable" /\ ~o.rejected.held
    BY DEF Idle, NoToken
  <2> HIDE DEF o
  <2>3. RequestOK(World', o)
    BY <2>2 DEF RequestOK
  <2> QED  BY <1>2, <2>1, <2>2, <2>3, StepsOn
<1>4. CASE GetAnother(p)
  <2> DEFINE rec == op[p].seen
             t == [held |-> TRUE, revision |-> rec.revision, cred |-> rec.cred]
             o == [Idle EXCEPT !.pc = "read", !.kind = "refresh", !.rejected = t]
  <2>1. op' = [op EXCEPT ![p] = o] /\ op[p].pc = "served"
    BY <1>4 DEF GetAnother, Go
  <2>2. /\ o.pc = "read" /\ o.at = "stable"
        /\ o.rejected.revision = rec.revision /\ o.rejected.cred = rec.cred
    BY DEF Idle
  <2> HIDE DEF o
  <2>3. Remembered(World', rec.revision, rec.cred)
    BY <1>2, <2>1, Waiting DEF OpFresh, ServedOK
  <2>4. RequestOK(World', o)
    BY <2>2, <2>3 DEF RequestOK
  <2> QED  BY <1>2, <2>1, <2>2, <2>4, StepsOn
<1>5. CASE Reauthorize(p) \/ Revoke(p)
  <2> DEFINE a == [Idle EXCEPT !.pc = "read", !.kind = "reauthorization",
                               !.at = "prepare", !.base = revision, !.slots = attached]
             b == [Idle EXCEPT !.pc = "read", !.kind = "revocation", !.at = "prepare"]
  <2>1. a.pc = "read" /\ a.kind # "refresh" /\ b.pc = "read" /\ b.kind # "refresh"
    BY DEF Idle
  <2>2. op' = [op EXCEPT ![p] = a] \/ op' = [op EXCEPT ![p] = b]
    BY <1>5 DEF Reauthorize, Revoke, Go
  <2> HIDE DEF a, b
  <2> QED  BY <1>2, <2>1, <2>2, StepsOn
<1> QED  BY <1>3, <1>4, <1>5

LEMMA StepFresh ==
  ASSUME CInv, FreshInv, CInv', NEW p \in Process, Step(p)
  PROVE  FreshInv'
<1>1. CASE DiscoveryFails(p) \/ GiveUp(p)
  BY <1>1, WorldStays, StopsFresh DEF DiscoveryFails, GiveUp, worldVars, FreshInv
<1> QED  BY <1>1, ReadRecordFresh, RecoverFresh, DemoteFresh, SettleFresh, SettleLateFresh,
            EndsFresh, ClaimFresh, UnopenedFresh, ExecuteFresh, ReturnFresh, AbortFresh,
            RereadFresh, CatchFresh, FailClosedFresh DEF Step

-----------------------------------------------------------------------------
LEMMA FreshInit == Init => FreshInv
<1> SUFFICES ASSUME Init PROVE FreshInv
  OBVIOUS
<1>1. ASSUME NEW p \in Process PROVE OpFresh(World, op[p])
  <2>1. op[p] = Idle /\ Idle.kind = "none" /\ Idle.pc = "idle"
    BY <1>1 DEF Init, Idle
  <2> QED  BY <2>1 DEF OpFresh
<1>2. Begun
  BY DEF Init, Begun
<1> QED  BY <1>1, <1>2 DEF FreshInv

LEMMA FreshNext ==
  ASSUME CInv, FreshInv, CInv', [Next]_vars
  PROVE  FreshInv'
<1>1. CASE (\E s \in Slot : Connect(s) \/ Disconnect(s)) \/ AbandonSelection \/ LeaseEnds
  <2>1. UNCHANGED op
    BY <1>1 DEF Connect, Disconnect, AbandonSelection, LeaseEnds
  <2> QED  BY <1>1, <2>1, OwnerFollows, AllWait DEF FreshInv
<1>2. ASSUME NEW p \in Process,
             \/ GetToken(p) \/ GetAnother(p) \/ UseToken(p)
             \/ Reauthorize(p) \/ Revoke(p) \/ Crash(p) \/ Step(p)
      PROVE  FreshInv'
  <2>1. CASE UseToken(p)
    BY <2>1, WorldStays, StopsFresh DEF UseToken, Throw, worldVars, FreshInv
  <2> QED  BY <1>2, <2>1, BeginsFresh, CrashFresh, StepFresh
<1>3. ASSUME NEW i \in Id, CallStep(i)
      PROVE  FreshInv'
  <2>1. UNCHANGED op
    BY <1>3 DEF CallStep, ProviderActs, ProviderRefuses, AnswerLost, SendResult, StageResult
  <2> QED  BY <1>3, <2>1, CallFollows, AllWait DEF FreshInv
<1>4. CASE UNCHANGED vars
  BY <1>4, WorldStays, AllWait DEF vars, worldVars, FreshInv
<1> QED  BY <1>1, <1>2, <1>3, <1>4 DEF Next

LEMMA FreshInvariance == Spec => []FreshInv
<1>1. CInv /\ FreshInv /\ CInv' /\ [Next]_vars => FreshInv'
  BY FreshNext
<1> QED  BY Invariance, FreshInit, <1>1, PTL DEF Spec

\* A token its caller has rejected is never served to the same caller by its next
\* request while the grant is active, whoever refreshed, recovered or gave up
\* meanwhile: getAccessToken and refreshAuthorization compare revisions only.
THEOREM RejectedReplaced == Spec => []RejectedTokenIsReplaced
<1>1. FreshInv => RejectedTokenIsReplaced
  BY DEF FreshInv, OpFresh, ServedOK, RejectedTokenIsReplaced
<1> QED  BY FreshInvariance, <1>1, PTL
=============================================================================
