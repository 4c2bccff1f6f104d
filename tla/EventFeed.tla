----------------------------- MODULE EventFeed ------------------------------
(***************************************************************************)
(* What the ontology outbox promises (packages/core/src/events/            *)
(* outbox-dispatcher.ts: "Lease-based, at-least-once publisher for the     *)
(* authoritative ontology outbox").  A committed event may be given to the *)
(* broker any number of times, but its row is marked only after the broker *)
(* took the event, once, and is never reopened; the broker may still be    *)
(* given its event again, by a batch claimed before the row was marked.    *)
(* Rows are deleted only when marked.  How batches are leased, split and   *)
(* retried is left to OntologyOutbox.                                      *)
(***************************************************************************)
CONSTANT Event

VARIABLES outbox,     \* outbox[e]: the state of the row of event e
          delivered   \* events the broker has taken at least once

feedVars == <<outbox, delivered>>

RowState == {"absent", "pending", "published", "purged"}

FeedInit == /\ outbox = [e \in Event |-> "absent"]
            /\ delivered = {}

\* The rows S, all in state from, are now in state to.
Moved(S, from, to) ==
  /\ \A e \in S : outbox[e] = from
  /\ outbox' = [e \in Event |-> IF e \in S THEN to ELSE outbox[e]]

Commit(e) == Moved({e}, "absent", "pending") /\ UNCHANGED delivered

\* The broker takes events whose row exists, published before or not.
Deliver(S) == /\ \A e \in S : outbox[e] # "absent"
              /\ delivered' = delivered \cup S
              /\ UNCHANGED outbox

Acknowledge(S) == /\ S \subseteq delivered
                  /\ Moved(S, "pending", "published")
                  /\ UNCHANGED delivered

Purge(S) == Moved(S, "published", "purged") /\ UNCHANGED delivered

FeedNext == \/ \E e \in Event : Commit(e)
            \/ \E S \in SUBSET Event : Deliver(S) \/ Acknowledge(S) \/ Purge(S)

FeedSpec == FeedInit /\ [][FeedNext]_feedVars
=============================================================================
