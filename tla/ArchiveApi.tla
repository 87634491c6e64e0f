----------------------------- MODULE ArchiveApi ------------------------------
(***************************************************************************)
(* The request flows of the service (src/src/api.rs): concurrent           *)
(* POST /snapshots handlers serialized by the mutation lock across the     *)
(* anchoring hop (src/src/log_anchor.rs), and as-of listings that take     *)
(* only the store mutex and so run at any moment of a create.              *)
(*                                                                         *)
(* A handler is a task that other tasks interleave with at its awaits: the *)
(* lock, and the hop.  The transparency log is another process: a POST     *)
(* that was sent may be sequenced, refused or lost, before or after the    *)
(* archive stopped waiting for it.                                         *)
(*                                                                         *)
(* The store is the in-memory index of module SnapshotStore, with every    *)
(* append either done or failed; here it is what the flows put in it and   *)
(* read from it that matters.  Time is counted in seconds, the resolution  *)
(* of Timestamp::now.                                                      *)
(***************************************************************************)
EXTENDS Naturals, Sequences

CONSTANTS
    Requests,     \* the POST /snapshots requests
    Readers,      \* clients that list the catalogue
    LogEnabled,   \* whether UNIDPP_LOG_URL is set
    Disruptions,  \* what may go wrong around the flows
    MaxClock,     \* bound: instants are 0 .. MaxClock
    Refused,      \* an answer of the log that is not a receipt
    None          \* no lock holder, no answer, no `at` parameter

DisruptionKinds ==
    { "cancel",         \* a client disconnects and its handler is dropped
      "store_failure",  \* the seal or the append returns an error
      "clock_back" }    \* the system clock is set back

Instants == 0 .. MaxClock

Positions == Nat \ {0}

\* The record of a request: what the archive stamps on it and the position
\* the log's receipt gives it, 0 when unanchored.
Entries == [seq : Nat, at : Instants, sip : Requests, anchor : Nat]

\* record.commitment(): the digest of number, instant and submitted content,
\* which leaves out the anchoring outcome.
Commitments == [seq : Nat, at : Instants, sip : Requests]
Commitment(e) == [seq |-> e.seq, at |-> e.at, sip |-> e.sip]

ASSUME ApiAssumption ==
    /\ MaxClock \in Nat
    /\ LogEnabled \in BOOLEAN
    /\ Disruptions \subseteq DisruptionKinds
    /\ None \notin Requests
    /\ None \notin Nat
    /\ None \notin Entries
    /\ Refused \notin Nat

VARIABLES
    clock,       \* what Timestamp::now reads
    records,     \* the store's index
    holder,      \* who holds the mutation lock
    ticket,      \* each request's place in the lock's queue
    nextTicket,  \* the next free place
    pc,          \* where each request's handler is
    rec,         \* the record each handler is building
    net,         \* commitments sent and not yet handled by the log
    log,         \* external: the commitments the log sequenced
    reply,       \* external: what the log answered to each request
    at,          \* each reader's `at` parameter
    asof,        \* the instant its answer is stamped with
    rows,        \* the indices its answer lists
    rpc,         \* where each reader is
    settled      \* history: nothing could still join its answer

create == <<holder, ticket, nextTicket, pc, rec>>
hop == <<net, log, reply>>
listing == <<at, asof, rows, rpc, settled>>
vars == <<clock, records, create, hop, listing>>

Finished == {"rejected", "done", "failed", "conflict", "gone"}

Holding(r) == pc[r] \in {"anchoring", "sealed"}

Init ==
    /\ clock = 0
    /\ records = <<>>
    /\ holder = None
    /\ ticket = [r \in Requests |-> 0]
    /\ nextTicket = 1
    /\ pc = [r \in Requests |-> "new"]
    /\ rec = [r \in Requests |-> None]
    /\ net = {}
    /\ log = <<>>
    /\ reply = [r \in Requests |-> None]
    /\ at = [q \in Readers |-> None]
    /\ asof = [q \in Readers |-> 0]
    /\ rows = [q \in Readers |-> {}]
    /\ rpc = [q \in Readers |-> "idle"]
    /\ settled = [q \in Readers |-> FALSE]

-----------------------------------------------------------------------------
(* POST /snapshots                                                         *)

\* No bearer token, or a body that is not a create request: 401 or 400.
Reject(r) ==
    /\ pc[r] = "new"
    /\ pc' = [pc EXCEPT ![r] = "rejected"]
    /\ UNCHANGED <<clock, records, holder, ticket, nextTicket, rec, hop, listing>>

\* The request is valid and queues for the mutation lock, which is fair.
Arrive(r) ==
    /\ pc[r] = "new"
    /\ pc' = [pc EXCEPT ![r] = "queued"]
    /\ ticket' = [ticket EXCEPT ![r] = nextTicket]
    /\ nextTicket' = nextTicket + 1
    /\ UNCHANGED <<clock, records, holder, rec, hop, listing>>

LockFree_Always == TRUE
LockFree == holder = None

FirstInQueue(r) ==
    \A q \in Requests : pc[q] = "queued" => ticket[r] <= ticket[q]

\* SnapshotStore::reserve
Reserved_NoInstant(r) == [seq |-> Len(records), at |-> None, sip |-> r, anchor |-> 0]
Reserved(r) == [seq |-> Len(records), at |-> clock, sip |-> r, anchor |-> 0]

\* The lock is taken, the next number and the instant are reserved, and the
\* commitment is sent to the log, if one is configured.
Acquire(r) ==
    /\ pc[r] = "queued"
    /\ LockFree
    /\ FirstInQueue(r)
    /\ holder' = r
    /\ rec' = [rec EXCEPT ![r] = Reserved(r)]
    /\ pc' = [pc EXCEPT ![r] = IF LogEnabled THEN "anchoring" ELSE "sealed"]
    /\ net' = IF LogEnabled THEN net \cup {Commitment(Reserved(r))} ELSE net
    /\ UNCHANGED <<clock, records, ticket, nextTicket, log, reply, listing>>

\* A 2xx answer with a well-formed receipt arrives in time.
Receipt_LatestHead(r) == Len(log)
Receipt(r) == reply[r]
AnchorOk(r) ==
    /\ pc[r] = "anchoring"
    /\ reply[r] \in Positions
    /\ rec' = [rec EXCEPT ![r].anchor = Receipt(r)]
    /\ pc' = [pc EXCEPT ![r] = "sealed"]
    /\ UNCHANGED <<clock, records, holder, ticket, nextTicket, hop, listing>>

\* The log refused, its answer is not a receipt, the connection failed or
\* the timeout fired: the snapshot goes on unanchored.
AnchorFails(r) ==
    /\ pc[r] = "anchoring"
    /\ pc' = [pc EXCEPT ![r] = "sealed"]
    /\ UNCHANGED <<clock, records, holder, ticket, nextTicket, rec, hop, listing>>

\* The guard is dropped on every way out of the handler.
Release_Kept(r) == holder' = holder
Release(r) == holder' = None

Leave(r, how) ==
    /\ pc' = [pc EXCEPT ![r] = how]
    /\ Release(r)

InOrder(r) == rec[r].seq = Len(records)

\* The index after a successful append, and after a failed one, which may
\* leave its journal line (SnapshotStore's FileFails) but no record.
Stored_Front(r) == <<rec[r]>> \o records
Stored(r) == Append(records, rec[r])
Unstored_Pushed(r) == Append(records, rec[r])
Unstored(r) == records

\* append_snapshot: 201, or 409 when another sequence number is due.
Store(r) ==
    /\ pc[r] = "sealed"
    /\ records' = IF InOrder(r) THEN Stored(r) ELSE records
    /\ Leave(r, IF InOrder(r) THEN "done" ELSE "conflict")
    /\ UNCHANGED <<clock, ticket, nextTicket, rec, hop, listing>>

\* The seal or a write of append_snapshot fails: 500.
StoreFails(r) ==
    /\ "store_failure" \in Disruptions
    /\ pc[r] = "sealed"
    /\ records' = Unstored(r)
    /\ Leave(r, "failed")
    /\ UNCHANGED <<clock, ticket, nextTicket, rec, hop, listing>>

\* The client disconnects while its handler awaits the lock or the log: the
\* future is dropped, and the guard with it.
CancelQueued(r) ==
    /\ "cancel" \in Disruptions
    /\ pc[r] = "queued"
    /\ pc' = [pc EXCEPT ![r] = "gone"]
    /\ UNCHANGED <<clock, records, holder, ticket, nextTicket, rec, hop, listing>>

CancelAnchoring(r) ==
    /\ "cancel" \in Disruptions
    /\ pc[r] = "anchoring"
    /\ Leave(r, "gone")
    /\ UNCHANGED <<clock, records, ticket, nextTicket, rec, hop, listing>>

-----------------------------------------------------------------------------
(* The transparency log, and the clock.                                    *)

\* The log sequences the commitment and answers with its position.
LogAccepts(c) ==
    /\ c \in net
    /\ net' = net \ {c}
    /\ log' = Append(log, c)
    /\ reply' = [reply EXCEPT ![c.sip] = Len(log) + 1]
    /\ UNCHANGED <<clock, records, create, listing>>

LogRefuses(c) ==
    /\ c \in net
    /\ net' = net \ {c}
    /\ reply' = [reply EXCEPT ![c.sip] = Refused]
    /\ UNCHANGED <<clock, records, create, log, listing>>

NetLoses(c) ==
    /\ c \in net
    /\ net' = net \ {c}
    /\ UNCHANGED <<clock, records, create, log, reply, listing>>

Tick ==
    /\ clock < MaxClock
    /\ clock' = clock + 1
    /\ UNCHANGED <<records, create, hop, listing>>

ClockBack ==
    /\ "clock_back" \in Disruptions
    /\ clock > 0
    /\ clock' = clock - 1
    /\ UNCHANGED <<records, create, hop, listing>>

-----------------------------------------------------------------------------
(* GET /snapshots[?at=T]                                                   *)

\* The effective instant is fixed before the store is read.
ListAsk(q, t) ==
    /\ rpc[q] # "asked"
    /\ rpc' = [rpc EXCEPT ![q] = "asked"]
    /\ at' = [at EXCEPT ![q] = t]
    /\ asof' = [asof EXCEPT ![q] = IF t = None THEN clock ELSE t]
    /\ rows' = [rows EXCEPT ![q] = {}]
    /\ settled' = [settled EXCEPT ![q] = FALSE]
    /\ UNCHANGED <<clock, records, create, hop>>

\* SnapshotStore::list
InView_Strict(e, t) == t # None => e.at < t
InView(e, t) == t # None => e.at <= t
Listed(t) == { i \in DOMAIN records : InView(records[i], t) }

\* Nobody reserved an instant up to t that is not in the store yet, and
\* nobody can any more.
Settled(t) ==
    /\ t # None
    /\ t < clock
    /\ \A r \in Requests : Holding(r) => rec[r].at > t

ListAnswer(q) ==
    /\ rpc[q] = "asked"
    /\ rpc' = [rpc EXCEPT ![q] = "answered"]
    /\ rows' = [rows EXCEPT ![q] = Listed(at[q])]
    /\ settled' = [settled EXCEPT ![q] = Settled(at[q])]
    /\ UNCHANGED <<clock, records, create, hop, at, asof>>

-----------------------------------------------------------------------------
Create(r) ==
    \/ Reject(r)
    \/ Arrive(r)
    \/ Acquire(r)
    \/ AnchorOk(r)
    \/ AnchorFails(r)
    \/ Store(r)
    \/ StoreFails(r)
    \/ CancelQueued(r)
    \/ CancelAnchoring(r)

Log ==
    \E c \in net : LogAccepts(c) \/ LogRefuses(c) \/ NetLoses(c)

List(q) ==
    \/ \E t \in Instants \cup {None} : ListAsk(q, t)
    \/ ListAnswer(q)

Next ==
    \/ \E r \in Requests : Create(r)
    \/ \E q \in Readers : List(q)
    \/ Log
    \/ Tick
    \/ ClockBack

Spec == Init /\ [][Next]_vars

\* The runtime polls every ready task: the lock is handed over, the hop ends
\* at its timeout at the latest, and the rest of the handler runs.  Nothing
\* is assumed of the clients, the network or the log.
Fairness ==
    \A r \in Requests :
        /\ WF_vars(Acquire(r))
        /\ WF_vars(AnchorOk(r) \/ AnchorFails(r))
        /\ WF_vars(Store(r) \/ StoreFails(r))

FairSpec == Spec /\ Fairness

-----------------------------------------------------------------------------
(* Properties.                                                             *)

\* The shapes of the requests, the store, the log and the listings.
TypeOK ==
    /\ clock \in Instants
    /\ records \in Seq(Entries)
    /\ holder \in Requests \cup {None}
    /\ ticket \in [Requests -> Nat]
    /\ nextTicket \in Positions
    /\ pc \in [Requests -> {"new", "queued", "anchoring", "sealed"} \cup Finished]
    /\ rec \in [Requests -> Entries \cup {None}]
    /\ net \subseteq Commitments
    /\ log \in Seq(Commitments)
    /\ reply \in [Requests -> Positions \cup {Refused, None}]
    /\ at \in [Readers -> Instants \cup {None}]
    /\ asof \in [Readers -> Instants]
    /\ rows \in [Readers -> SUBSET Nat]
    /\ rpc \in [Readers -> {"idle", "asked", "answered"}]
    /\ settled \in [Readers -> BOOLEAN]

\* The 409 of append_snapshot cannot happen behind the mutation lock: the
\* number a handler reserved before its hop is still the next one after it,
\* whoever disconnected, failed or timed out meanwhile.
NoConflict == \A r \in Requests : pc[r] # "conflict"

\* Each 201 is exactly one record and every other outcome is none, in
\* particular a request that failed late or whose client went away.
Accounted ==
    /\ \A r \in Requests :
          pc[r] = "done" <=> \E i \in DOMAIN records : records[i].sip = r
    /\ \A i, j \in DOMAIN records : records[i].sip = records[j].sip => i = j

\* The receipt a record embeds is the log's receipt for that record's own
\* commitment, also when other handlers' late commitments are sequenced
\* around it (create_snapshot's hop, before the seal).
ReceiptBinds ==
    \A i \in DOMAIN records :
        LET e == records[i]
        IN  e.anchor # 0 => e.anchor \in DOMAIN log /\ log[e.anchor] = Commitment(e)

\* Later sequence numbers carry later or equal notarization instants
\* (reserve takes both under the lock that is held until the append).
SequencingFollowsTime ==
    \A i, j \in DOMAIN records : i < j => records[i].at <= records[j].at

\* A listing as of an instant that has passed, given while no create had
\* that instant reserved, is final: no later append belongs in it.
SettledAnswers ==
    \A q \in Readers :
        rpc[q] = "answered" /\ settled[q] =>
            rows[q] = { i \in DOMAIN records : records[i].at <= at[q] }

\* The log holds no commitment that the archive cannot account for: it is a
\* stored record's own, or its create is still under way, failed, or lost its
\* client.  A number that was given out again keeps its first commitment there.
LogAccounted ==
    \A k \in DOMAIN log :
        \/ \E i \in DOMAIN records : Commitment(records[i]) = log[k]
        \/ pc[log[k].sip] \in {"anchoring", "sealed", "failed", "gone"}

\* A point-in-time listing, cached forever, stays the answer.
AtImmutable ==
    \A q \in Readers :
        rpc[q] = "answered" /\ at[q] # None =>
            rows[q] = { i \in DOMAIN records : records[i].at <= at[q] }

\* Every create that reached the lock's queue is answered, unless its client
\* goes away: a log that never answers holds up nobody for ever.
Answered ==
    \A r \in Requests : pc[r] = "queued" ~> pc[r] \in Finished
==============================================================================
