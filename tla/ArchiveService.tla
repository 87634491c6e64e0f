---------------------------- MODULE ArchiveService ----------------------------
(***************************************************************************)
(* The service as a whole (src/src/api.rs over src/src/store.rs): the      *)
(* create flow, with its hop to the transparency log, drives the store of  *)
(* module SnapshotStore, step by step, and the process may die under it at *)
(* any moment and be started again on what the disk then holds.  A client  *)
(* that was not answered may send its submission again, as another         *)
(* request; a reader of /admin/log pages through the journal meanwhile.    *)
(*                                                                         *)
(* Every step of the store is one of its own actions.  Writes that fail    *)
(* under a process that lives on are left to SnapshotStore, where they     *)
(* cost its guarantees.  The instant of a reservation is left out: two     *)
(* requests with the same content and number have equal commitments, as    *)
(* within one second (for the rest, see ArchiveApi).                       *)
(***************************************************************************)
EXTENDS SnapshotStore

CONSTANTS
    Requests,    \* attempts to create a snapshot
    Content,     \* what each of them submits
    LogEnabled,  \* whether UNIDPP_LOG_URL is set
    MaxLog,      \* bound: commitments the log sequences
    PageLimit,   \* bound: records asked for in one page
    Refused,     \* an answer of the log that is no receipt
    NoOne        \* no lock holder, no record, no answer

Anchors == 0 .. MaxLog

\* What the store holds of a request: who sent it, and where it is anchored.
DocOf(r, anchor) == [sip |-> r, anchor |-> anchor]

ASSUME ServiceAssumption ==
    /\ \A r \in Requests, a \in Anchors : DocOf(r, a) \in Docs
    /\ LogEnabled \in BOOLEAN
    /\ MaxLog \in Nat
    /\ PageLimit \in Nat
    /\ "io_error" \notin Faults
    /\ NoOne \notin Requests
    /\ NoOne \notin Anchors
    /\ NoOne \notin [seq : Seqs, anchor : Anchors]
    /\ Refused \notin Anchors

VARIABLES
    pc,        \* where each request's handler is
    rec,       \* the number it reserved and the anchor it got
    holder,    \* who holds the mutation lock
    net,       \* commitments sent and not yet handled by the log
    log,       \* external: the commitments the log sequenced
    reply,     \* external: its answer to each request
    seen,      \* the records a reader collected from /admin/log, page by page
    answered   \* history: the packages sent with a 201

flow == <<pc, rec, holder, answered>>
hop == <<net, log, reply>>
serviceVars == <<vars, flow, hop, seen>>

Handling == {"queued", "anchoring", "sealed", "appending"}

ServiceInit ==
    /\ Init
    /\ pc = [r \in Requests |-> "new"]
    /\ rec = [r \in Requests |-> NoOne]
    /\ holder = NoOne
    /\ net = {}
    /\ log = <<>>
    /\ reply = [r \in Requests |-> NoOne]
    /\ seen = <<>>
    /\ answered = {}

-----------------------------------------------------------------------------
(* POST /snapshots                                                         *)

\* A valid request queues for the mutation lock.
Arrive(r) ==
    /\ Serving
    /\ pc[r] = "new"
    /\ pc' = [pc EXCEPT ![r] = "queued"]
    /\ UNCHANGED <<vars, rec, holder, answered, hop, seen>>

\* SnapshotStore::reserve
Reserved_Bare == [seq |-> Len(records), anchor |-> NoOne]
Reserved == [seq |-> Len(records), anchor |-> 0]

\* The lock is taken, the next number reserved, the commitment sent.
Acquire(r) ==
    /\ phase = "idle"
    /\ Len(records) < MaxSnapshots
    /\ pc[r] = "queued"
    /\ holder = NoOne
    /\ holder' = r
    /\ rec' = [rec EXCEPT ![r] = Reserved]
    /\ pc' = [pc EXCEPT ![r] = IF LogEnabled THEN "anchoring" ELSE "sealed"]
    /\ net' = IF LogEnabled
              THEN net \cup {[from |-> r, seq |-> Len(records), content |-> Content[r]]}
              ELSE net
    /\ UNCHANGED <<vars, answered, log, reply, seen>>

\* The hop ends, with the log's receipt or without one.
ReceiptFor_Latest(r) == Len(log)
ReceiptFor(r) == reply[r]
AnchorOk(r) ==
    /\ pc[r] = "anchoring"
    /\ reply[r] \in Anchors
    /\ rec' = [rec EXCEPT ![r].anchor = ReceiptFor(r)]
    /\ pc' = [pc EXCEPT ![r] = "sealed"]
    /\ UNCHANGED <<vars, holder, answered, hop, seen>>

AnchorFails(r) ==
    /\ pc[r] = "anchoring"
    /\ pc' = [pc EXCEPT ![r] = "sealed"]
    /\ UNCHANGED <<vars, rec, holder, answered, hop, seen>>

Package(r) == [seq |-> rec[r].seq, doc |-> DocOf(r, rec[r].anchor), by |-> build]
SealedRecord(r) ==
    [seq |-> rec[r].seq, doc |-> DocOf(r, rec[r].anchor), body_digest |-> Package(r)]

\* What has been answered once append_snapshot is entered, and once it is done.
Acknowledged_AtOnce(r) == answered \cup {Package(r)}
Acknowledged(r) == answered

\* append_snapshot takes the record, or the request ends in 409 or 500.
Store(r) ==
    /\ phase = "idle"
    /\ pc[r] = "sealed"
    /\ answered' = Acknowledged(r)
    /\ IF Appendable(SealedRecord(r))
       THEN /\ AppendSnapshot(SealedRecord(r))
            /\ pc' = [pc EXCEPT ![r] = "appending"]
            /\ UNCHANGED holder
       ELSE /\ pc' = [pc EXCEPT ![r] = "failed"]
            /\ holder' = NoOne
            /\ UNCHANGED vars
    /\ UNCHANGED <<rec, hop, seen>>

Write ==
    /\ WriteLine \/ WriteFile
    /\ UNCHANGED <<flow, hop, seen>>

\* The index grows, the lock is released, 201 goes out with the document.
Respond(r) ==
    /\ pc[r] = "appending"
    /\ Push
    /\ pc' = [pc EXCEPT ![r] = "done"]
    /\ holder' = NoOne
    /\ answered' = answered \cup {Package(r)}
    /\ UNCHANGED <<rec, hop, seen>>

\* The client disconnects at one of the handler's awaits; the append has none.
Awaiting_InAppend == {"queued", "anchoring", "appending"}
Awaiting == {"queued", "anchoring"}
Cancel(r) ==
    /\ pc[r] \in Awaiting
    /\ pc' = [pc EXCEPT ![r] = "gone"]
    /\ holder' = IF holder = r THEN NoOne ELSE holder
    /\ UNCHANGED <<vars, rec, answered, hop, seen>>

-----------------------------------------------------------------------------
(* The process ends and starts; disk and log go on.                        *)

\* Handlers die with their process; nobody finishes their work.
Die ==
    /\ End
    /\ pc' = [r \in Requests |-> IF pc[r] \in Handling THEN "cut" ELSE pc[r]]
    /\ holder' = NoOne
    /\ UNCHANGED <<rec, answered, hop, seen>>

Restart ==
    /\ Open \/ Outage
    /\ UNCHANGED <<flow, hop, seen>>

LogAccepts(c) ==
    /\ Len(log) < MaxLog
    /\ net' = net \ {c}
    /\ log' = Append(log, [seq |-> c.seq, content |-> c.content])
    /\ reply' = [reply EXCEPT ![c.from] = Len(log) + 1]
    /\ UNCHANGED <<vars, flow, seen>>

LogRefuses(c) ==
    /\ net' = net \ {c}
    /\ reply' \in { reply, [reply EXCEPT ![c.from] = Refused] }
    /\ UNCHANGED <<vars, flow, log, seen>>

-----------------------------------------------------------------------------
(* GET /admin/log?limit=n&offset=m                                         *)

\* audit_json: skip, then take
UpTo(rs, end) == IF end < Len(rs) THEN end ELSE Len(rs)
Window_ByPage(rs, limit, offset) ==
    SubSeq(rs, offset * limit + 1, UpTo(rs, offset * limit + limit))
Window(rs, limit, offset) == SubSeq(rs, offset + 1, UpTo(rs, offset + limit))

\* A reader goes on behind what it has.
AdminLog(limit) ==
    /\ phase = "idle"
    /\ seen' = seen \o Window(records, limit, Len(seen))
    /\ UNCHANGED <<vars, flow, hop>>

-----------------------------------------------------------------------------
ServiceNext ==
    \/ \E r \in Requests :
          \/ Arrive(r)
          \/ Acquire(r)
          \/ AnchorOk(r)
          \/ AnchorFails(r)
          \/ Store(r)
          \/ Respond(r)
          \/ Cancel(r)
    \/ Write
    \/ Die
    \/ Restart
    \/ \E c \in net : LogAccepts(c) \/ LogRefuses(c)
    \/ \E limit \in 1 .. PageLimit : AdminLog(limit)

ServiceSpec == ServiceInit /\ [][ServiceNext]_serviceVars

-----------------------------------------------------------------------------
(* Properties.                                                             *)

\* The shapes of the handlers, the hop, the pages and the answers.
ServiceTypeOK ==
    /\ pc \in [Requests -> {"new", "done", "failed", "gone", "cut"} \cup Handling]
    /\ rec \in [Requests -> [seq : Seqs, anchor : Anchors] \cup {NoOne}]
    /\ holder \in Requests \cup {NoOne}
    /\ net \subseteq [from : Requests, seq : Seqs, content : { Content[r] : r \in Requests }]
    /\ log \in Seq([seq : Seqs, content : { Content[r] : r \in Requests }])
    /\ reply \in [Requests -> Anchors \cup {Refused, NoOne}]
    /\ seen \in Seq(Records)
    /\ answered \subseteq Bodies

\* Whoever got a 201 finds that package, the same bytes, in every process
\* that serves from then on, wherever the processes in between were killed
\* (create_snapshot's answer comes after all of append_snapshot, and open
\* rebuilds the index from the journal).
AnsweredServed ==
    Serving => \A p \in answered : Holds(p.seq) /\ Get(p.seq) = p

\* An attempt leaves one record or none: one if it was answered, none if it
\* was refused or its client left, and never a second one, also when its
\* process was killed half-way and its number given out again.
OneRecordEach ==
    /\ \A i, j \in DOMAIN journal :
          Parses(i) /\ Parses(j) /\ journal[i].doc.sip = journal[j].doc.sip => i = j
    /\ \A r \in Requests :
          LET left == \E i \in DOMAIN journal : Parses(i) /\ journal[i].doc.sip = r
          IN  /\ pc[r] = "done" => left
              /\ left => pc[r] \in {"appending", "done", "cut"}

\* Of every snapshot served with a receipt, the log holds this snapshot's own
\* commitment at the receipt's place, although the commitments of attempts
\* that were killed may be sequenced late and under the same number.
AnchorsKept ==
    \A i \in DOMAIN records :
        LET d == records[i].doc
        IN  d.anchor # 0 =>
                /\ d.anchor \in DOMAIN log
                /\ log[d.anchor] = [seq |-> records[i].seq, content |-> Content[d.sip]]

\* The pages of the audit journal fit together, across appends and restarts:
\* what a reader has collected is the beginning of the journal, with nothing
\* left out, repeated or taken back (audit_json over an append-only index).
PagesExact ==
    Serving =>
        /\ Len(seen) <= Len(records)
        /\ \A i \in DOMAIN seen : seen[i] = records[i]
==============================================================================
