-------------------------------- MODULE Notary --------------------------------
(***************************************************************************)
(* The life of one snapshot, from its reservation to a verifier's desk,    *)
(* across processes that may run with other settings: create_snapshot and  *)
(* run (src/src/api.rs) over the record of module SnapshotModel and the    *)
(* key of module Keyring.  The snapshot is number Due of its archive; what *)
(* interleaves around it is in ArchiveApi and SnapshotStore.               *)
(*                                                                         *)
(* Somebody may change a field of the journal line while it lies there,    *)
(* or of a copy of the document; a verifier may hold any /keyring answer   *)
(* that some process gave.                                                 *)
(***************************************************************************)
EXTENDS SnapshotModel

CONSTANTS
    Due,             \* the sequence number of the snapshot
    Submissions,     \* what clients may submit
    Instants,        \* what the clock may say
    Receipts,        \* the JSON objects the log may answer with
    Settings,        \* environments a process may be started in
    FieldValues,     \* what a field may be changed to, by its name
    MaxAlterations,  \* bound: fields changed
    MinSeedBytes,
    DefaultDevSeed,
    Rejected,
    None             \* no record, line, copy or key yet

K == INSTANCE Keyring

VARIABLES
    settings,  \* the environment of the running process
    keyring,   \* its keyring
    stage,     \* how far it is with the snapshot
    rec,       \* its record
    sent,      \* the commitment the hop was called with
    line,      \* the journal line
    copy,      \* a client's copy of the document
    pin,       \* a /keyring answer that a verifier holds
    touched,   \* whether the line was changed since it was written
    forged,    \* whether the copy was changed since it was received
    changes,   \* how many fields were
    sealed,    \* history: the record as it was sealed
    under      \* history: the settings in force then

process == <<settings, keyring>>
snapshot == <<stage, rec, sent>>
paper == <<copy, pin, forged>>
history == <<sealed, under>>
vars == <<process, snapshot, line, paper, touched, changes, history>>

\* Config::from_env, Keyring::from_env
KeyringOf(e) == K!FromEnvMap(e.sign_seed, e.dev_seed)

\* What a field may be changed to, besides null, missing and malformed.
Values(f) == IF f \in DOMAIN FieldValues THEN FieldValues[f] ELSE {}

\* LogAnchorConfig::from_env_map
LogEnabled(e) == e.log_url # Null /\ K!Trim(e.log_url) # <<>>

-----------------------------------------------------------------------------
(* What the constants may be.                                              *)

\* The anchoring outcomes of a snapshot with a commitment, and the records
\* they are put into and sealed in settings e.
Reasons == {"receipt_rejected", "log_failed", "no_log"}
Outcomes(commitment) ==
    { Anchored(v, commitment) : v \in { w \in Receipts : Summarizable(w) } }
    \cup { Unanchored(why) : why \in Reasons }

Attempt(sip, at, outcome) == [New(Due, at, sip) EXCEPT !.anchoring = outcome]
SealedIn(r, e) == Seal(r, KeyringOf(e).key, K!KeyId(KeyringOf(e).key))

\* The instants that are written down, and what their texts and those an
\* editor puts in are read as.
Times ==
    LET known == Instants \cup { TimeOf(v.logged_at) : v \in { w \in Receipts : Summarizable(w) } }
        texts == { TimeText(t) : t \in known } \cup Values("notarized_at") \cup Values("logged_at")
    IN  known \cup ({ TimeOf(x) : x \in texts } \ {Malformed})

\* Null, Missing and Malformed are told apart from each other and from data;
\* what clients submit was validated; no two instants share a text.
ASSUME NotaryAssumption ==
    /\ Null # Missing /\ Null # Malformed /\ Missing # Malformed
    /\ \A x \in {"anchored", "unanchored"} \cup Reasons : Present(x)
    /\ Present(Due) /\ Present(SnapshotIdOf(Due))
    /\ \A sip \in Submissions :
          /\ Present(sip.passport_id) /\ Present(sip.state_hash) /\ Present(sip.log_head)
          /\ sip.submitter \notin {Missing, Malformed}
          /\ sip.state_size \notin {Missing, Malformed}
    /\ \A v \in Receipts : Present(v)
    /\ \A t \in Times : t \notin {Null, Malformed} /\ Present(TimeText(t))
    /\ \A s, t \in Times : TimeText(s) = TimeText(t) => s = t
    /\ \A sip \in Submissions, at \in Instants, e \in Settings :
          \A outcome \in Outcomes(CoreStatement(New(Due, at, sip))) :
             LET r == SealedIn(Attempt(sip, at, outcome), e)
             IN  /\ Present(CoreStatement(r)) /\ Present(AnchoringLine(r.anchoring))
                 /\ Present(Hex(r.signature)) /\ Present(r.key_id) /\ Present(r.body_digest)
    /\ MinSeedBytes \in Nat \ {0}
    /\ \A e \in Settings :
          e.sign_seed \in Seq(STRING) \cup {Null} /\ e.dev_seed \in Seq(STRING) \cup {Null}
    /\ Rejected \notin Seq(Nat)
    /\ Rejected \notin [mode : {"env-key"}, key : [raw : Seq(Nat)], dev_seed : {Null}]
    /\ \A s \in Values("signature") : s \in [hex : {s.hex}, upper : BOOLEAN]

Init ==
    /\ settings \in Settings
    /\ keyring = KeyringOf(settings)
    /\ stage = "ready"
    /\ rec = None
    /\ sent = None
    /\ line = None
    /\ copy = None
    /\ pin = None
    /\ touched = FALSE
    /\ forged = FALSE
    /\ changes = 0
    /\ sealed = None
    /\ under = None

-----------------------------------------------------------------------------
(* create_snapshot                                                         *)

Reserve(sip, at) ==
    /\ stage = "ready"
    /\ rec' = New(Due, at, sip)
    /\ sent' = CoreStatement(New(Due, at, sip))
    /\ stage' = "reserved"
    /\ UNCHANGED <<process, line, paper, touched, changes, history>>

SetAnchoring(outcome) ==
    /\ rec' = [rec EXCEPT !.anchoring = outcome]
    /\ stage' = "attempted"
    /\ UNCHANGED <<process, sent, line, paper, touched, changes, history>>

\* The log answered 2xx with a JSON object.
ReceiptArrives(v) ==
    /\ stage = "reserved"
    /\ LogEnabled(settings)
    /\ SetAnchoring(IF Summarizable(v) THEN Anchored(v, sent)
                    ELSE Unanchored("receipt_rejected"))

\* No log, or no such answer from it.
HopFails ==
    /\ stage = "reserved"
    /\ SetAnchoring(Unanchored(IF LogEnabled(settings) THEN "log_failed"
                               ELSE "no_log"))

SealRecord ==
    /\ stage = "attempted"
    /\ rec' = Seal(rec, keyring.key, K!KeyId(keyring.key))
    /\ sealed' = rec'
    /\ under' = settings
    /\ stage' = "sealed"
    /\ UNCHANGED <<process, sent, line, paper, touched, changes>>

\* The line is journaled; from here on every process has the record, and
\* the 201 carries the document.
Keep ==
    /\ stage = "sealed"
    /\ line' = ToJournal(rec)
    /\ stage' = "kept"
    /\ UNCHANGED <<process, rec, sent, paper, touched, changes, history>>

-----------------------------------------------------------------------------
(* Processes, readers, verifiers.                                          *)

\* What SnapshotStore::replay asks of the line.
DigestHolds(r) == Document(r) = r.body_digest
Replayable ==
    /\ JournalReadable(line)
    /\ line.seq = Due
    /\ DigestHolds(FromJournal(line))

\* A line with a value that does not parse is skipped as a torn tail if it is
\* the last one; every other line that does not replay stops the start.
WithoutIt == IF JournalReadable(line) THEN {"refused"} ELSE {"refused", "skipped"}

\* The process ends, wherever it is, and another starts in settings e.
Restart(e) ==
    /\ settings' = e
    /\ keyring' = KeyringOf(e)
    /\ sent' = None
    /\ IF line = None
       THEN stage' = "ready" /\ rec' = None
       ELSE IF Replayable
            THEN stage' = "kept" /\ rec' = FromJournal(line)
            ELSE stage' \in WithoutIt /\ rec' = None
    /\ UNCHANGED <<line, paper, touched, changes, history>>

\* GET /snapshots/{id}, and the body of the 201
Fetch ==
    /\ stage = "kept"
    /\ copy' = Document(rec)
    /\ forged' = FALSE
    /\ UNCHANGED <<process, snapshot, line, pin, touched, changes, history>>

\* GET /keyring, cacheable for a day as immutable
PinKeyring ==
    /\ stage # "refused"
    /\ pin' = K!ToJson(keyring)
    /\ UNCHANGED <<process, snapshot, line, copy, touched, forged, changes, history>>

-----------------------------------------------------------------------------
(* Alterations.                                                            *)

Spellings(f) == {Null, Missing, Malformed} \cup Values(f)

\* The signature's hex digits in the other case spell the same bytes.
Respelled(object) ==
    IF Present(object.signature) THEN { [object EXCEPT !.signature.upper = ~@] } ELSE {}

Altered(object, sections) ==
    LET plain == DOMAIN object \ sections
    IN  Respelled(object)
        \cup (UNION { { [object EXCEPT ![f] = v] : v \in Spellings(f) } : f \in plain })
        \cup (UNION { UNION { { [object EXCEPT ![s][f] = v] : v \in Spellings(f) }
                              : f \in DOMAIN object[s] } : s \in sections })

Alteration ==
    /\ changes < MaxAlterations
    /\ changes' = changes + 1

AlterLine ==
    /\ line # None
    /\ Alteration
    /\ line' \in Altered(line, {"anchoring"})
    /\ touched' = TRUE
    /\ UNCHANGED <<process, snapshot, paper, history>>

AlterCopy ==
    /\ copy # None
    /\ Alteration
    /\ copy' \in Altered(copy, {"submission", "information_package", "anchoring"})
    /\ forged' = TRUE
    /\ UNCHANGED <<process, snapshot, line, pin, touched, history>>

Next ==
    \/ \E sip \in Submissions, at \in Instants : Reserve(sip, at)
    \/ \E v \in Receipts : ReceiptArrives(v)
    \/ HopFails
    \/ SealRecord
    \/ Keep
    \/ \E e \in Settings : Restart(e)
    \/ Fetch
    \/ PinKeyring
    \/ AlterLine
    \/ AlterCopy

Spec == Init /\ [][Next]_vars

-----------------------------------------------------------------------------
(* Properties.                                                             *)

\* Whether an instant can be written down and read again.
Expressible(t) == t = Null \/ TimeOf(TimeText(t)) = t

\* A line that nobody changed replays, whatever the submission, the receipt
\* and the settings were, to the very record that was sealed (to_journal_json
\* and from_journal_json, Anchoring::to_journal_json and from_json).
LineReplays ==
    line # None /\ ~touched
        /\ Expressible(sealed.notarized_at) /\ Expressible(sealed.anchoring.logged_at)
    => Replayable /\ FromJournal(line) = sealed

\* No field of the line can be changed so that a start accepts it and serves
\* or lists another record: every journaled field shows in the document that
\* the journaled digest fixes (replay's digest check and to_document).
OnlyAsSealed == stage = "kept" => rec = sealed

\* A document that nobody changed verifies with a pinned /keyring answer if
\* and only if that answer's key is the one the document names, whichever
\* process gave either of them (seal, to_document, the verifier's rebuild).
NamedKeyDecides ==
    copy # None /\ ~forged /\ pin # None /\ Expressible(sealed.notarized_at) =>
        (Verifies(copy, pin.public) <=> pin.key_id = copy.key_id)

\* A changed document that still verifies says the same as the original about
\* passport, state, log head, instant, number and place in the log, the
\* statement's fields (canonical_core, canonical_statement).
SignatureCovers ==
    copy # None /\ pin # None /\ Verifies(copy, pin.public) =>
        LET issued == Document(sealed)
            ip     == copy.information_package
        IN  /\ copy.snapshot_id = issued.snapshot_id
            /\ copy.seq = issued.seq
            /\ \A f \in {"passport_id", "state_hash", "log_head"} :
                  ip[f] = issued.information_package[f]
            /\ TimeOf(ip.as_of) = sealed.notarized_at
            /\ copy.anchoring.status = issued.anchoring.status
            /\ copy.anchoring.status = "anchored" =>
                  \A f \in {"log_id", "receipt_id", "tree_size", "root"} :
                     copy.anchoring[f] = issued.anchoring[f]

\* An anchored document carries, also after replays, a receipt that has every
\* field of the anchor and says the same as its summary; any other one says
\* why it is not anchored (anchor_summary_from_receipt, set_anchoring).
ReceiptKept ==
    copy # None /\ ~forged =>
        LET a == copy.anchoring
            v == copy.receipt
        IN  IF a.status = "anchored"
            THEN /\ \A f \in {"log_id", "tree_size", "root"} : Present(v[f]) /\ a[f] = v[f]
                 /\ Present(v.seq) \/ Present(v.receipt_id)
                 /\ a.receipt_id = IF Present(v.seq) THEN v.seq ELSE v.receipt_id
                 /\ a.logged_at = TimeText(TimeOf(v.logged_at))
            ELSE Present(a.reason) /\ v = Null

\* The commitment a document shows is the one the hop was called with, and
\* can be rebuilt from the document, anchored or not, although the anchoring
\* outcome replaces it between the hop and the seal.
CommitmentTrue ==
    /\ stage \in {"sealed", "kept"} /\ sent # None => rec.anchoring.commitment = sent
    /\ copy # None /\ ~forged /\ Expressible(sealed.notarized_at) =>
          /\ CoreReadable(copy)
          /\ copy.information_package.commitment = CoreFromDocument(copy)

\* The key that settings e ask for: the operator's own seed whenever they spell
\* enough bytes, in whatever case, prefix or blanks, and else the development
\* key.
KeyRight(e, key) ==
    IF e.sign_seed # Null /\ K!SpellsAtLeast(e.sign_seed, MinSeedBytes)
    THEN DOMAIN key = {"raw"} /\ K!Spells(e.sign_seed, key.raw)
    ELSE /\ DOMAIN key = {"dev"}
         /\ IF e.dev_seed # Null /\ ~K!BlankOutside(e.dev_seed, 0, 0)
            THEN K!Names(e.dev_seed, key.dev)
            ELSE key.dev = DefaultDevSeed

\* A snapshot is signed with the key that the settings its process was started
\* in ask for (Keyring::from_env_map, from_env_seed, dev, hex_decode).
OperatorsKey == sealed # None => KeyRight(under, sealed.signature.key)
==============================================================================
