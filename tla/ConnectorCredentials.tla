------------------------- MODULE ConnectorCredentials -------------------------
(***************************************************************************)
(* One stored connector authorization (an OAuth grant with its encrypted   *)
(* credentials) and the service processes that change it: token requests   *)
(* that refresh, reauthorizations and revocations.  Every change at the    *)
(* provider is a durable mutation of the record                            *)
(*                                                                         *)
(*    claimed "prepared" -> "executing" -> "result_staged" -> finalized    *)
(*                                                                         *)
(* fenced by its id and the record's revision.  A process may stop at any  *)
(* step; the provider call of a mutation outlives the operation that       *)
(* aborted it.  Each step below is one call to storage or to the provider, *)
(* and what an operation read is kept in op[p].seen until it uses it.      *)
(*                                                                         *)
(* A credential is named by the mutation that obtained it (0: the one the  *)
(* authorization was created with).  The holder id of a mutation is left   *)
(* out: every claim has a fresh id, which already names its holder.        *)
(***************************************************************************)
EXTENDS Naturals, FiniteSets

CONSTANTS Process,       \* service instances, one operation each at a time
          Slot,          \* the slots that may be connected through the grant
          MaxMutations   \* bound on the mutations claimed

ASSUME MaxMutationsAssumption == MaxMutations \in Nat

VARIABLES
    status,      \* of the authorization
    revision,    \* bumped by every change of status or of credentials
    cred,        \* the stored credential
    mutation,    \* the credential mutation of the record, or NoMutation
    attached,    \* the slots connected through this authorization
    claims,      \* how many mutations were claimed: the last id given out
    call,        \* the provider call of each mutation
    spent,       \* refresh tokens the provider has rotated away
    op           \* what each process is doing

record == <<status, revision, cred, mutation>>
provider == <<call, spent>>
vars == <<record, attached, claims, provider, op>>

Id == 1..MaxMutations
Token == 0..MaxMutations
Kind == {"refresh", "reauthorization", "revocation"}
Status == {"pending_selection", "active", "needs_reauthorization",
           "revocation_pending", "revoked"}

NoMutation == [id |-> 0, kind |-> "none", phase |-> "none",
               expired |-> FALSE, slots |-> {}]
NoRecord == [status |-> "revoked", revision |-> 0, cred |-> 0,
             id |-> 0, kind |-> "none", phase |-> "none"]
NoToken == [held |-> FALSE, revision |-> 0, cred |-> 0]
Idle == [pc |-> "idle", kind |-> "none", at |-> "stable", base |-> 0,
         rejected |-> NoToken, slots |-> {}, seen |-> NoRecord,
         id |-> 0, rev |-> 0, cred |-> 0, error |-> "none"]
NoCall == [state |-> "none", kind |-> "none", cred |-> 0, live |-> FALSE]

\* What an operation remembers of a record that it will only compare with.
Seen(rec) == [NoRecord EXCEPT !.revision = rec.revision, !.id = rec.id, !.kind = rec.kind]

\* The record as a read returns it.
Current == [status |-> status, revision |-> revision, cred |-> cred,
            id |-> mutation.id, kind |-> mutation.kind,
            phase |-> mutation.phase]

Init ==
    /\ status = "pending_selection"
    /\ revision = 0
    /\ cred = 0
    /\ mutation = NoMutation
    /\ attached = {}
    /\ claims = 0
    /\ call = [i \in Id |-> NoCall]
    /\ spent = {}
    /\ op = [p \in Process |-> Idle]

-----------------------------------------------------------------------------
(* Storage: what each call does to the record.                             *)

Claimable(kind) ==
    CASE kind = "refresh"         -> {"active"}
      [] kind = "reauthorization" -> {"active", "needs_reauthorization"}
      [] kind = "revocation"      -> Status \ {"revoked"}

Matches(id, rev) == id # 0 /\ mutation.id = id /\ revision = rev

CanClaim(kind, rev, slots) ==
    /\ revision = rev
    /\ status \in Claimable(kind)
    /\ mutation.id # 0 => mutation.phase = "prepared" /\ mutation.expired
    /\ kind = "reauthorization" => attached = slots

\* Mutant: a revocation leaves the connections to their owner.
WriteClaimKeepingConnections(kind, slots) ==
    /\ claims' = claims + 1
    /\ mutation' = [id |-> claims + 1, kind |-> kind, phase |-> "prepared",
                    expired |-> FALSE, slots |-> slots]
    /\ status' = IF kind = "revocation" THEN "revocation_pending" ELSE status
    /\ revision' = IF kind = "revocation" THEN revision + 1 ELSE revision
    /\ UNCHANGED <<cred, attached>>

\* Mutant: every claim is a new revision.
WriteClaimAsRevision(kind, slots) ==
    /\ claims' = claims + 1
    /\ mutation' = [id |-> claims + 1, kind |-> kind, phase |-> "prepared",
                    expired |-> FALSE, slots |-> slots]
    /\ status' = IF kind = "revocation" THEN "revocation_pending" ELSE status
    /\ attached' = IF kind = "revocation" THEN {} ELSE attached
    /\ revision' = revision + 1
    /\ UNCHANGED cred

\* A revocation disconnects every connection in the same write, and counts as
\* a new revision only when it is the one that starts the revocation.
WriteClaim(kind, slots) ==
    /\ claims' = claims + 1
    /\ mutation' = [id |-> claims + 1, kind |-> kind, phase |-> "prepared",
                    expired |-> FALSE, slots |-> slots]
    /\ status' = IF kind = "revocation" THEN "revocation_pending" ELSE status
    /\ revision' = IF kind = "revocation" /\ status # "revocation_pending"
                   THEN revision + 1 ELSE revision
    /\ attached' = IF kind = "revocation" THEN {} ELSE attached
    /\ UNCHANGED cred

\* The write that ends a mutation: a new revision with no mutation.
WriteEnd(newStatus, newCred) ==
    /\ status' = newStatus
    /\ cred' = newCred
    /\ revision' = revision + 1
    /\ mutation' = NoMutation

\* Mutant: giving up a staged exchange gives up its credential.
StoredCred == cred

StagedCred == IF mutation.phase = "result_staged" THEN mutation.id ELSE cred

\* Mutant: an exchange that did not end is done again.
FailsOpen == FALSE

\* Mutant: so does a revocation.
FailsClosedOfAnyKind == mutation.phase = "executing"

\* A mutation whose lease or deadline has passed: an executing exchange may
\* have had its effect, so it fails closed; the rest is only cleared.
FailsClosed == mutation.phase = "executing" /\ mutation.kind # "revocation"

\* Mutant: recovery forgets the mutation's id in the record.
WriteRecoveryKeepingId ==
    IF FailsClosed
    THEN WriteEnd("needs_reauthorization", cred)
    ELSE /\ mutation' = [mutation EXCEPT !.phase = "none"]
         /\ UNCHANGED <<status, revision, cred>>

WriteRecovery ==
    IF FailsClosed
    THEN WriteEnd("needs_reauthorization", cred)
    ELSE /\ mutation' = NoMutation
         /\ UNCHANGED <<status, revision, cred>>

\* Mutant: a slot may join the grant at any time.
ConnectAnytime(s) ==
    /\ status \in {"pending_selection", "active"}
    /\ s \notin attached
    /\ attached' = attached \cup {s}
    /\ status' = "active"
    /\ revision' = IF status = "active" THEN revision ELSE revision + 1
    /\ UNCHANGED <<cred, mutation, claims, provider, op>>

\* putConnection: a first selection activates the grant.
Connect(s) ==
    /\ status \in {"pending_selection", "active"}
    /\ mutation.kind # "reauthorization"
    /\ s \notin attached
    /\ attached' = attached \cup {s}
    /\ status' = "active"
    /\ revision' = IF status = "active" THEN revision ELSE revision + 1
    /\ UNCHANGED <<cred, mutation, claims, provider, op>>

\* A slot is disconnected or moved to another grant: refused while a
\* reauthorization runs, and for the last slot while any mutation does.  The
\* last one to go starts the revocation.
Disconnect(s) ==
    /\ s \in attached
    /\ mutation.kind # "reauthorization"
    /\ attached' = attached \ {s}
    /\ IF attached' = {}
       THEN /\ mutation.id = 0
            /\ status' = "revocation_pending"
            /\ revision' = revision + 1
       ELSE UNCHANGED <<status, revision>>
    /\ UNCHANGED <<cred, mutation, claims, provider, op>>

\* A run that never selected an account ends, and its grant is given up.
AbandonSelection ==
    /\ status = "pending_selection"
    /\ mutation.id = 0
    /\ status' = "revocation_pending"
    /\ revision' = revision + 1
    /\ UNCHANGED <<cred, mutation, attached, claims, provider, op>>

\* The lease ends: a heartbeat may come too late, and none passes the deadline.
LeaseEnds ==
    /\ mutation.phase \in {"prepared", "executing"}
    /\ ~mutation.expired
    /\ mutation' = [mutation EXCEPT !.expired = TRUE]
    /\ UNCHANGED <<status, revision, cred, attached, claims, provider, op>>

-----------------------------------------------------------------------------
(* How an operation goes on with a record it was given.                    *)

Go(p, next) == op' = [op EXCEPT ![p] = next]
Throw(p) == Go(p, Idle)

\* A token request ends with the token of the record it was given.  The code
\* does not look at the status of that record again, and only a revoked one has
\* no credentials to open.
End(p, rec) ==
    Go(p, IF op[p].kind = "refresh" /\ rec.status # "revoked"
          THEN [Idle EXCEPT !.pc = "served", !.seen = rec, !.rejected = op[p].rejected]
          ELSE Idle)

MoveTo(p, at, pc, rec) ==
    Go(p, [op[p] EXCEPT !.at = at, !.pc = pc, !.seen = rec])

\* getAccessToken with an active record: the token it holds, or a refresh, when
\* the token is about to expire or is the one the caller has rejected.
AfterStable(p, rec) ==
    LET o == op[p]
        rejected == o.rejected.held /\ o.rejected.revision = rec.revision
    IN  CASE rec.id # 0 -> MoveTo(p, "stable", "read", NoRecord)
          [] rec.id = 0 /\ rec.status # "active" -> Throw(p)
          [] OTHER ->
                 \/ ~rejected /\ End(p, rec)
                 \/ Go(p, [o EXCEPT !.at = "again", !.pc = "read",
                                    !.base = rec.revision, !.seen = NoRecord])

\* refreshAuthorization, once it is alone in its process: somebody else may have
\* refreshed meanwhile.
AfterStableAgain(p, rec) ==
    CASE rec.id # 0 -> MoveTo(p, "again", "read", NoRecord)
      [] rec.id = 0 /\ rec.status # "active" -> Throw(p)
      [] rec.id = 0 /\ rec.status = "active" /\ rec.revision # op[p].base ->
             End(p, rec)
      [] OTHER -> MoveTo(p, "prepare", "read", NoRecord)

\* prepareAuthorizationForMutation, once, before the first claim.
AfterPrepare(p, rec) ==
    LET o == op[p]
    IN  CASE o.kind = "refresh" /\ rec.revision # o.base -> End(p, rec)
          [] o.kind = "reauthorization" /\ rec.revision # o.base -> Throw(p)
          [] o.kind = "revocation" /\ rec.status = "revoked" -> End(p, rec)
          [] OTHER -> MoveTo(p, "poll", "claim", Seen(rec))

\* And after each claim that was refused.
AfterPoll(p, rec) ==
    LET o == op[p]
    IN  CASE o.kind = "revocation" /\ rec.status = "revoked" -> End(p, rec)
          [] o.kind = "reauthorization" /\ (rec.revision # o.base \/ attached # o.slots) ->
                 Throw(p)
          [] o.kind = "refresh" /\ rec.revision # o.base ->
                 IF rec.status = "active" THEN End(p, rec) ELSE Throw(p)
          [] OTHER -> MoveTo(p, "poll", "claim", Seen(rec))

Resume(p, rec) ==
    CASE op[p].at = "stable"  -> AfterStable(p, rec)
      [] op[p].at = "again"   -> AfterStableAgain(p, rec)
      [] op[p].at = "prepare" -> AfterPrepare(p, rec)
      [] op[p].at = "poll"    -> AfterPoll(p, rec)
      [] OTHER                -> End(p, rec)

-----------------------------------------------------------------------------
(* The operations, one at a time in a process (runLocallySerialized).      *)

\* get() of a token source, by a caller that has no token ...
GetToken(p) ==
    /\ op[p].pc = "idle"
    /\ Go(p, [Idle EXCEPT !.pc = "read", !.kind = "refresh"])
    /\ UNCHANGED <<record, attached, claims, provider>>

\* ... or by one that saw its token refused, and called its invalidate().
GetAnother(p) ==
    LET rec == op[p].seen IN
    /\ op[p].pc = "served"
    /\ Go(p, [Idle EXCEPT !.pc = "read", !.kind = "refresh", !.rejected =
                  [held |-> TRUE, revision |-> rec.revision, cred |-> rec.cred]])
    /\ UNCHANGED <<record, attached, claims, provider>>

UseToken(p) ==
    /\ op[p].pc = "served"
    /\ Go(p, Idle)
    /\ UNCHANGED <<record, attached, claims, provider>>

\* An OAuth round trip starts with the revision and the connections it saw;
\* its callback comes any time later.
Reauthorize(p) ==
    /\ op[p].pc = "idle"
    /\ status \in {"active", "needs_reauthorization"}
    /\ Go(p, [Idle EXCEPT !.pc = "read", !.kind = "reauthorization",
                          !.at = "prepare", !.base = revision, !.slots = attached])
    /\ UNCHANGED <<record, attached, claims, provider>>

\* By its owner, or by cleanup of a grant whose revocation is pending.
Revoke(p) ==
    /\ op[p].pc = "idle"
    /\ status # "revoked"
    /\ Go(p, [Idle EXCEPT !.pc = "read", !.kind = "revocation", !.at = "prepare"])
    /\ UNCHANGED <<record, attached, claims, provider>>

\* prepareAuthorizationForMutation reads the record and decides: finish what
\* is staged, give up a staged exchange before a revocation, or recover.
ReadRecord(p) ==
    /\ op[p].pc = "read"
    /\ CASE mutation.id = 0 -> Resume(p, Current)
         [] mutation.phase = "result_staged" /\ op[p].kind = "revocation"
               /\ mutation.kind # "revocation" ->
               MoveTo(p, op[p].at, "demote", Seen(Current))
         [] mutation.phase = "result_staged"
               /\ (op[p].kind # "revocation" \/ mutation.kind = "revocation") ->
               MoveTo(p, op[p].at, "settle", Seen(Current))
         [] OTHER -> MoveTo(p, op[p].at, "recover", Current)
    /\ UNCHANGED <<record, attached, claims, provider>>

\* recoverExpiredCredentialMutation looks at the record as it is now.  When it
\* does nothing the operation goes on with what it read before.
Recover(p) ==
    /\ op[p].pc = "recover"
    /\ IF mutation.id # 0 /\ mutation.phase # "result_staged" /\ mutation.expired
       THEN /\ WriteRecovery
            /\ Resume(p, [Current EXCEPT
                  !.status = status', !.revision = revision', !.id = 0,
                  !.kind = "none", !.phase = "none"])
       ELSE /\ Resume(p, IF mutation.phase = "result_staged" THEN Current
                                                             ELSE op[p].seen)
            /\ UNCHANGED record
    /\ UNCHANGED <<attached, claims, provider>>

Ended(newStatus, newCred) ==
    [status |-> newStatus, revision |-> revision + 1, cred |-> newCred,
     id |-> 0, kind |-> "none", phase |-> "none"]

\* markNeedsReauthorization of a staged exchange keeps its credential, for the
\* revocation to present.
Demote(p) ==
    /\ op[p].pc = "demote"
    /\ IF Matches(op[p].seen.id, op[p].seen.revision)
       THEN /\ WriteEnd("needs_reauthorization", StagedCred)
            /\ Resume(p, Ended("needs_reauthorization", StagedCred))
       ELSE Resume(p, Current) /\ UNCHANGED record
    /\ UNCHANGED <<attached, claims, provider>>

StillStaged(p) ==
    /\ Matches(op[p].seen.id, op[p].seen.revision)
    /\ mutation.phase = "result_staged"

\* finalizeStagedMutation, for whoever finds the result staged.
Settle(p) ==
    /\ op[p].pc = "settle"
    /\ StillStaged(p)
    /\ IF mutation.kind = "revocation"
       THEN WriteEnd("revoked", 0) /\ Resume(p, Ended("revoked", 0))
       ELSE /\ mutation.kind = "reauthorization" => attached = mutation.slots
            /\ WriteEnd("active", mutation.id)
            /\ Resume(p, Ended("active", mutation.id))
    /\ UNCHANGED <<attached, claims, provider>>

\* Somebody else settled it.  The fence can never match again, so the read
\* that follows the refused write is taken together with it.
SettleLate(p) ==
    /\ op[p].pc = "settle"
    /\ ~StillStaged(p)
    /\ IF revision # op[p].seen.revision \/ mutation.id = 0
       THEN Resume(p, Current) ELSE Throw(p)
    /\ UNCHANGED <<record, attached, claims, provider>>

\* The accounts of a staged reauthorization cannot be discovered: it stays.
DiscoveryFails(p) ==
    /\ op[p].pc = "settle"
    /\ op[p].seen.kind = "reauthorization"
    /\ Throw(p)
    /\ UNCHANGED <<record, attached, claims, provider>>

\* The new grant does not show an attached account, or the connections have
\* changed: fail closed.
DiscoveryMismatch(p) ==
    /\ op[p].pc = "settle"
    /\ op[p].seen.kind = "reauthorization"
    /\ StillStaged(p)
    /\ WriteEnd("needs_reauthorization", StagedCred)
    /\ Throw(p)
    /\ UNCHANGED <<attached, claims, provider>>

\* claimCredentialMutation: the record must be the one the operation saw.
Claim(p) ==
    /\ op[p].pc = "claim"
    /\ IF CanClaim(op[p].kind, op[p].seen.revision, op[p].slots)
       THEN /\ claims < MaxMutations
            /\ WriteClaim(op[p].kind, op[p].slots)
            /\ Go(p, [op[p] EXCEPT !.pc = "mark", !.id = claims + 1,
                         !.rev = revision', !.cred = cred, !.seen = NoRecord])
       ELSE /\ Go(p, [op[p] EXCEPT !.pc = "read", !.seen = NoRecord])
            /\ UNCHANGED <<record, attached, claims>>
    /\ UNCHANGED provider

\* Five seconds of waiting, or of an authorization that does not settle.
GiveUp(p) ==
    /\ op[p].pc \in {"read", "claim"}
    /\ op[p].at \in {"stable", "again", "poll"}
    /\ Throw(p)
    /\ UNCHANGED <<record, attached, claims, provider>>

\* The stored credential cannot be opened: the claim is given back.
OpenFails(p) ==
    /\ op[p].pc = "mark"
    /\ op[p].kind # "reauthorization"
    /\ Go(p, [op[p] EXCEPT !.pc = "release"])
    /\ UNCHANGED <<record, attached, claims, provider>>

\* It has no refresh token: fail closed, without a call.
NoRefreshToken(p) ==
    /\ op[p].pc = "mark"
    /\ op[p].kind = "refresh"
    /\ Go(p, [op[p] EXCEPT !.pc = "fail", !.cred = 0])
    /\ UNCHANGED <<record, attached, claims, provider>>

\* markCredentialMutationExecuting, and the provider call begins.
Execute(p) ==
    LET o == op[p] IN
    /\ o.pc = "mark"
    /\ IF Matches(o.id, o.rev) /\ mutation.phase = "prepared" /\ ~mutation.expired
       THEN /\ mutation' = [mutation EXCEPT !.phase = "executing"]
            /\ call' = [call EXCEPT ![o.id] =
                  [state |-> "sent", kind |-> o.kind, cred |-> o.cred, live |-> TRUE]]
            /\ Go(p, [o EXCEPT !.pc = "call", !.cred = 0])
       ELSE /\ Go(p, [o EXCEPT !.pc = "caught", !.cred = 0, !.error = "ambiguous"])
            /\ UNCHANGED <<mutation, call>>
    /\ UNCHANGED <<status, revision, cred, attached, claims, spent>>

\* What stays of a call that nobody listens to any more: the provider may still
\* act on it and the write on its way may still land, and nothing else of it
\* matters, unless it is known to have changed nothing.
Left(c) ==
    [c EXCEPT !.live = FALSE,
              !.state = IF @ \in {"sent", "staging", "retryable"} THEN @ ELSE "done"]

\* The call returns, or is aborted: the deadline, a heartbeat that failed, or
\* the host closing.  What was sent is not taken back.
Return(p) ==
    LET o == op[p]
        state == call[o.id].state
    IN
    /\ o.pc = "call"
    /\ state \in {"staged", "refused", "retryable", "terminal", "ambiguous"}
    /\ Go(p, IF state = "staged"
             THEN [o EXCEPT !.at = "end", !.pc = "reread"]
             ELSE [o EXCEPT !.pc = "caught",
                            !.error = IF state = "refused" THEN "ambiguous" ELSE state])
    /\ call' = [call EXCEPT ![o.id] = Left(call[o.id])]
    /\ UNCHANGED <<record, attached, claims, spent>>

Abort(p) ==
    /\ op[p].pc = "call"
    /\ call' = [call EXCEPT ![op[p].id] = Left(call[op[p].id])]
    /\ Go(p, [op[p] EXCEPT !.pc = "caught", !.error = "ambiguous"])
    /\ UNCHANGED <<record, attached, claims, spent>>

\* After its own result was staged the operation reads the record again and
\* finalizes what it finds staged there.
Reread(p) ==
    /\ op[p].pc = "reread"
    /\ IF mutation.phase = "result_staged"
       THEN MoveTo(p, "end", "settle", Seen(Current))
       ELSE End(p, Current)
    /\ UNCHANGED <<record, attached, claims, provider>>

\* Mutant: only an error the provider calls terminal is one.
HarmlessUnlessTerminal(o) == o.error # "terminal" \/ o.kind = "revocation"

\* An error that proves the provider changed nothing gives the claim back.
Harmless(o) ==
    \/ o.error = "retryable"
    \/ o.error = "terminal" /\ o.kind = "reauthorization"
    \/ o.kind = "revocation"

Catch(p) ==
    /\ op[p].pc = "caught"
    /\ IF mutation.id = op[p].id /\ mutation.phase = "result_staged"
       THEN MoveTo(p, "end", "settle", Seen(Current))
       ELSE MoveTo(p, "end", IF Harmless(op[p]) THEN "release" ELSE "fail", NoRecord)
    /\ UNCHANGED <<record, attached, claims, provider>>

Release(p) ==
    /\ op[p].pc = "release"
    /\ IF Matches(op[p].id, op[p].rev) /\ mutation.phase # "result_staged"
       THEN mutation' = NoMutation ELSE UNCHANGED mutation
    /\ Throw(p)
    /\ UNCHANGED <<status, revision, cred, attached, claims, provider>>

\* markNeedsReauthorization of the operation's own claim.  If that claim is gone
\* a refresh that was called takes what somebody else made of the record.
FailClosed(p) ==
    /\ op[p].pc = "fail"
    /\ IF Matches(op[p].id, op[p].rev)
       THEN WriteEnd("needs_reauthorization", StagedCred) /\ Throw(p)
       ELSE /\ IF op[p].kind = "refresh" /\ op[p].error # "none"
                  /\ revision # op[p].base /\ status = "active"
               THEN End(p, Current) ELSE Throw(p)
            /\ UNCHANGED record
    /\ UNCHANGED <<attached, claims, provider>>

\* The process stops, or storage fails it, at any step: nothing is undone.
Crash(p) ==
    /\ op[p].pc \notin {"idle", "served"}
    /\ Go(p, Idle)
    /\ call' = IF op[p].pc = "call"
               THEN [call EXCEPT ![op[p].id] = Left(call[op[p].id])] ELSE call
    /\ UNCHANGED <<record, attached, claims, spent>>

-----------------------------------------------------------------------------
(* The provider call of mutation i, and the write that stages its result.  *)

\* The provider acts.  A refresh rotates the token it was given away.
ProviderActs(i) ==
    /\ call[i].state = "sent"
    /\ call' = [call EXCEPT ![i].state = IF call[i].live THEN "answered" ELSE "done"]
    /\ spent' = IF call[i].kind = "refresh" THEN spent \cup {call[i].cred} ELSE spent
    /\ UNCHANGED <<record, attached, claims, op>>

\* It answers with an error, having changed nothing ...
ProviderRefuses(i, error) ==
    /\ call[i].state = "sent"
    /\ call[i].live
    /\ call' = [call EXCEPT ![i].state = error]
    /\ UNCHANGED <<record, attached, claims, spent, op>>

\* ... or its answer is lost.
AnswerLost(i) ==
    /\ call[i].state = "answered"
    /\ call' = [call EXCEPT ![i].state = "ambiguous"]
    /\ UNCHANGED <<record, attached, claims, spent, op>>

\* The answer is checked for an abort once, and then the write is on its way.
SendResult(i) ==
    /\ call[i].state = "answered"
    /\ call' = [call EXCEPT ![i].state = "staging"]
    /\ UNCHANGED <<record, attached, claims, spent, op>>

StageResult(i) ==
    LET stages == mutation.id = i /\ mutation.phase = "executing" /\ ~mutation.expired
    IN
    /\ call[i].state = "staging"
    /\ mutation' = IF stages THEN [mutation EXCEPT !.phase = "result_staged"]
                             ELSE mutation
    /\ call' = [call EXCEPT ![i].state =
          IF ~call[i].live THEN "done" ELSE IF stages THEN "staged" ELSE "refused"]
    /\ UNCHANGED <<status, revision, cred, attached, claims, spent, op>>

-----------------------------------------------------------------------------
Step(p) ==
    \/ ReadRecord(p) \/ Recover(p) \/ Demote(p)
    \/ Settle(p) \/ SettleLate(p) \/ DiscoveryFails(p) \/ DiscoveryMismatch(p)
    \/ Claim(p) \/ GiveUp(p) \/ OpenFails(p) \/ NoRefreshToken(p) \/ Execute(p)
    \/ Return(p) \/ Abort(p) \/ Reread(p)
    \/ Catch(p) \/ Release(p) \/ FailClosed(p)

CallStep(i) ==
    \/ ProviderActs(i)
    \/ \E error \in {"retryable", "terminal", "ambiguous"} : ProviderRefuses(i, error)
    \/ AnswerLost(i) \/ SendResult(i) \/ StageResult(i)

Next ==
    \/ \E s \in Slot : Connect(s) \/ Disconnect(s)
    \/ AbandonSelection
    \/ LeaseEnds
    \/ \E p \in Process :
          \/ GetToken(p) \/ GetAnother(p) \/ UseToken(p)
          \/ Reauthorize(p) \/ Revoke(p) \/ Crash(p)
          \/ Step(p)
    \/ \E i \in Id : CallStep(i)

Spec == Init /\ [][Next]_vars

-----------------------------------------------------------------------------
(* Properties.                                                             *)

TypeOK ==
    /\ status \in Status
    /\ revision \in Nat
    /\ cred \in Token
    /\ mutation.id \in {0, claims}
    /\ mutation.phase \in {"none", "prepared", "executing", "result_staged"}
    /\ mutation.id = 0 <=> mutation.phase = "none"
    /\ attached \subseteq Slot
    /\ claims \in Token
    /\ spent \subseteq Token

\* A refresh token is never presented again after a call that may have used
\* it: of two refreshes with the same token, one was answered with an error by
\* which the provider vouches that it changed nothing.
NoUnknownEffectReplayed ==
    \A i, j \in Id :
        /\ i # j
        /\ call[i].kind = "refresh" /\ call[j].kind = "refresh"
        /\ call[i].cred = call[j].cred
        => \E k \in {i, j} : call[k].state = "retryable"

\* An authorization that says it is active, with nothing executing, stores a
\* credential that the provider has not rotated away.
ActiveCredentialIsLive ==
    status = "active" /\ mutation.phase # "executing" => StagedCred \notin spent

\* A revocation is never undone, by a late exchange least of all.
RevocationIsFinal ==
    [][/\ status = "revocation_pending" => status' \in {"revocation_pending", "revoked"}
       /\ status = "revoked" => status' = "revoked"]_vars

\* Once the provider's answer is staged nobody can lose it: the write that ends
\* the mutation stores the new credential (or records the revocation).
StagedResultIsKept ==
    [][mutation.phase = "result_staged" /\ mutation' # mutation =>
          IF mutation.kind = "revocation" THEN status' = "revoked"
                                          ELSE cred' = mutation.id]_vars

\* The grant is usable exactly while some slot is connected through it: no
\* usable grant without a user, no connection over a grant being revoked.
GrantHasUsers == attached # {} <=> status \in {"active", "needs_reauthorization"}

\* A reauthorization replaces the grant of the very connections it was started
\* for: they cannot change between its claim and its end.
ReauthorizesWhatItSaw == mutation.kind = "reauthorization" => attached = mutation.slots

\* A token its caller has rejected is not handed out by the next request, as long
\* as the grant is in use.
RejectedTokenIsReplaced ==
    \A p \in Process :
        op[p].pc = "served" /\ op[p].rejected.held /\ op[p].seen.status = "active" =>
            op[p].seen.cred # op[p].rejected.cred

=============================================================================
