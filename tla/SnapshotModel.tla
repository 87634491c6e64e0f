---------------------------- MODULE SnapshotModel -----------------------------
(***************************************************************************)
(* The record, the statement that is signed, the document that is served   *)
(* and the journal line that is replayed (src/src/model.rs).               *)
(*                                                                         *)
(* A JSON value is the value it spells, or it is not there (Missing), null *)
(* (Null), or not what the reader can parse (Malformed).  SHA-256 and the  *)
(* canonical writer are injective: a digest is what it digests.            *)
(***************************************************************************)
EXTENDS Naturals, Sequences

CONSTANTS
    TimeText(_),  \* the text of an instant
    TimeOf(_),    \* the instant of a text, or Malformed
    Null,         \* JSON null, an Option that is None
    Missing,      \* a key that is not there
    Malformed,    \* a value of another type, or that does not parse
    Empty,        \* the empty string
    Unsigned,     \* no signature, no digest yet
    ServiceId     \* SERVICE_ID

Present(v) == v \notin {Null, Missing, Malformed}
Option(v) == IF v = Missing THEN Null ELSE v

\* Hex text may be written in either case; ours is lower.
Hex(bytes) == [hex |-> bytes, upper |-> FALSE]

-----------------------------------------------------------------------------
(* Anchoring outcomes.                                                     *)

\* anchor_summary_from_receipt, on a receipt whose tree_head is spread out
HasPosition(v) == Present(v.seq) \/ Present(v.receipt_id)
HasHead_Lenient(v) == Present(v.tree_size)
HasHead(v) == Present(v.tree_size) /\ Present(v.root)

Summarizable(v) ==
    /\ Present(v.log_id) /\ v.log_id # Empty
    /\ HasPosition(v)
    /\ HasHead(v)
    /\ Present(v.logged_at) /\ TimeOf(v.logged_at) # Malformed

Anchored(v, commitment) ==
    [status |-> "anchored", reason |-> Null, log_id |-> v.log_id,
     receipt_seq |-> IF Present(v.seq) THEN v.seq ELSE v.receipt_id,
     tree_size |-> v.tree_size, root |-> v.root, logged_at |-> TimeOf(v.logged_at),
     commitment |-> commitment, receipt |-> v]

Unanchored(reason) ==
    [status |-> "unanchored", reason |-> reason, log_id |-> Null, receipt_seq |-> Null,
     tree_size |-> Null, root |-> Null, logged_at |-> Null,
     commitment |-> Null, receipt |-> Null]

DisplayOption(t) == IF t = Null THEN Null ELSE TimeText(t)

\* Anchoring::to_document_json: neither commitment nor receipt
AnchoringDocument(a) ==
    [status |-> a.status, reason |-> a.reason, log_id |-> a.log_id,
     receipt_id |-> a.receipt_seq, tree_size |-> a.tree_size, root |-> a.root,
     logged_at |-> DisplayOption(a.logged_at)]

\* Anchoring::to_journal_json.  The receipt's text is read back as the value it
\* was written from; one with a number that loses digits on the way, or nested
\* deeper than the reader goes, is left out.
ReceiptLine_Dropped(a) == Null
ReceiptLine(a) == a.receipt
AnchoringLine(a) ==
    [status |-> a.status, reason |-> a.reason, log_id |-> a.log_id,
     receipt_id |-> a.receipt_seq, tree_size |-> a.tree_size, root |-> a.root,
     logged_at |-> DisplayOption(a.logged_at),
     commitment |-> a.commitment, receipt |-> ReceiptLine(a)]

\* Anchoring::from_json: null and missing are the same; an anchored outcome
\* has everything but a reason.
AnchoringReadable(v) ==
    /\ v.status \in {"anchored", "unanchored"}
    /\ \A f \in DOMAIN v : v[f] # Malformed
    /\ Present(v.logged_at) => TimeOf(v.logged_at) # Malformed
    /\ v.status = "anchored" => \A f \in DOMAIN v \ {"reason"} : Present(v[f])

AnchoringRead(v) ==
    [status |-> v.status, reason |-> Option(v.reason), log_id |-> Option(v.log_id),
     receipt_seq |-> Option(v.receipt_id), tree_size |-> Option(v.tree_size),
     root |-> Option(v.root),
     logged_at |-> IF Present(v.logged_at) THEN TimeOf(v.logged_at) ELSE Null,
     commitment |-> Option(v.commitment), receipt |-> Option(v.receipt)]

-----------------------------------------------------------------------------
(* Statements.                                                             *)

CanonicalCore_NoHead(id, seq, passport, state, head, at) == <<id, seq, passport, state, at>>
CanonicalCore(id, seq, passport, state, head, at) == <<id, seq, passport, state, head, at>>

\* position and tree stand for receipt sequence and tree size
CanonicalStatement(core, status, log_id, position, tree, root) ==
    IF status = "anchored" THEN <<core, 1, log_id, position, tree, root>> ELSE <<core, 0>>

-----------------------------------------------------------------------------
(* The record.                                                             *)

\* snapshot_id_of
SnapshotIdOf(seq) == <<"s-", seq>>

\* SnapshotRecord::new
New(seq, at, sip) ==
    [seq |-> seq, snapshot_id |-> SnapshotIdOf(seq), notarized_at |-> at,
     passport_id |-> sip.passport_id, state_hash |-> sip.state_hash,
     log_head |-> sip.log_head, submitter |-> sip.submitter,
     state_size |-> sip.state_size, anchoring |-> Unanchored("not_attempted"),
     signature |-> Unsigned, key_id |-> Empty, body_digest |-> Unsigned]

CoreStatement(r) ==
    CanonicalCore(r.snapshot_id, r.seq, r.passport_id, r.state_hash, r.log_head, r.notarized_at)

Statement(r) ==
    LET a == r.anchoring
    IN  CanonicalStatement(CoreStatement(r), a.status, a.log_id, a.receipt_seq,
                           a.tree_size, a.root)

\* to_document, by its sections
Submission_Anonymous(r) ==
    [submitter |-> Null, submitted_at |-> TimeText(r.notarized_at),
     passport_id |-> r.passport_id, state_hash |-> r.state_hash, log_head |-> r.log_head,
     state_size |-> r.state_size]
Submission(r) ==
    [submitter |-> r.submitter, submitted_at |-> TimeText(r.notarized_at),
     passport_id |-> r.passport_id, state_hash |-> r.state_hash, log_head |-> r.log_head,
     state_size |-> r.state_size]

InformationPackage(r) ==
    [passport_id |-> r.passport_id, state_hash |-> r.state_hash, log_head |-> r.log_head,
     as_of |-> TimeText(r.notarized_at), commitment |-> r.anchoring.commitment,
     statement_digest |-> Statement(r)]

Document(r) ==
    [service |-> ServiceId, snapshot_id |-> r.snapshot_id, seq |-> r.seq,
     as_of |-> TimeText(r.notarized_at), submission |-> Submission(r),
     information_package |-> InformationPackage(r),
     notarized_at |-> TimeText(r.notarized_at), key_id |-> r.key_id,
     anchoring |-> AnchoringDocument(r.anchoring), receipt |-> r.anchoring.receipt,
     signature |-> Hex(r.signature)]

\* seal: sign, name the key, fix the commitment and the digest of the body
SignedBytes_CoreOnly(r) == CoreStatement(r)
SignedBytes(r) == Statement(r)
SealedCommitment_AsAnchored(r) == r.anchoring.commitment
SealedCommitment(r) == CoreStatement(r)

Seal(r, key, keyId) ==
    LET signed == [r EXCEPT !.signature = [key |-> key, over |-> SignedBytes(r)],
                            !.key_id = keyId,
                            !.anchoring.commitment = SealedCommitment(r)]
    IN  [signed EXCEPT !.body_digest = Document(signed)]

ToJournal(r) ==
    [seq |-> r.seq, snapshot_id |-> r.snapshot_id, notarized_at |-> TimeText(r.notarized_at),
     passport_id |-> r.passport_id, state_hash |-> r.state_hash, log_head |-> r.log_head,
     submitter |-> r.submitter, state_size |-> r.state_size,
     anchoring |-> AnchoringLine(r.anchoring), signature |-> Hex(r.signature),
     key_id |-> r.key_id, body_digest |-> r.body_digest]

JournalReadable(v) ==
    /\ AnchoringReadable(v.anchoring)
    /\ \A f \in DOMAIN v \ {"submitter", "state_size"} : Present(v[f])
    /\ v.submitter # Malformed /\ v.state_size # Malformed
    /\ TimeOf(v.notarized_at) # Malformed

FromJournal(v) ==
    [seq |-> v.seq, snapshot_id |-> v.snapshot_id, notarized_at |-> TimeOf(v.notarized_at),
     passport_id |-> v.passport_id, state_hash |-> v.state_hash, log_head |-> v.log_head,
     submitter |-> Option(v.submitter), state_size |-> Option(v.state_size),
     anchoring |-> AnchoringRead(v.anchoring), signature |-> v.signature.hex,
     key_id |-> v.key_id, body_digest |-> v.body_digest]

-----------------------------------------------------------------------------
(* The verifier's rebuild from a document alone.                           *)

CoreReadable(d) ==
    /\ d.service = ServiceId
    /\ Present(d.snapshot_id) /\ Present(d.seq)
    /\ LET ip == d.information_package
       IN  /\ Present(ip.passport_id) /\ Present(ip.state_hash) /\ Present(ip.log_head)
           /\ Present(ip.as_of) /\ TimeOf(ip.as_of) # Malformed

CoreFromDocument(d) ==
    LET ip == d.information_package
    IN  CanonicalCore(d.snapshot_id, d.seq, ip.passport_id, ip.state_hash, ip.log_head,
                      TimeOf(ip.as_of))

StatementReadable(d) ==
    /\ CoreReadable(d)
    /\ d.anchoring.status \in {"anchored", "unanchored"}
    /\ d.anchoring.status = "anchored" =>
          \A f \in {"log_id", "receipt_id", "tree_size", "root"} : Present(d.anchoring[f])

StatementFromDocument(d) ==
    LET a == d.anchoring
    IN  CanonicalStatement(CoreFromDocument(d), a.status, a.log_id, a.receipt_id,
                           a.tree_size, a.root)

\* SignatureSlot::verify over the rebuilt bytes, with a pinned public key
Verifies(d, public) ==
    /\ StatementReadable(d)
    /\ Present(d.signature)
    /\ d.signature.hex = [key |-> public, over |-> StatementFromDocument(d)]
==============================================================================
