---------------------------- MODULE NotaryProofs -----------------------------
(***************************************************************************)
(* What module Notary promises of a snapshot's record, journal line and    *)
(* document, proved for all submissions, receipts, settings and            *)
(* alterations.                                                            *)
(*                                                                         *)
(* The inductive invariant NotaryInv says, for every stage, which record   *)
(* the process holds; that a journal line keeps its fields, and the        *)
(* digest, instants and outcome that were sealed unless they were changed; *)
(* and where the mark on a copy can come from.  The heart of its induction *)
(* is a restart over a changed line (ReplayedIsSealed): the digest that    *)
(* replay accepts is the sealed one, and a document decides its record     *)
(* (DocumentDecides).                                                      *)
(*                                                                         *)
(* Which key signs is shown from what a text spells (HexCodecRight), for   *)
(* every text; SealInv carries it from the seal on.                        *)
(***************************************************************************)
EXTENDS Notary, SequenceTheorems, WellFoundedInduction, TLAPS

\* The keys of a journal line, of its outcome and of a document.
LineFields ==
    {"seq", "snapshot_id", "notarized_at", "passport_id", "state_hash", "log_head", "submitter",
     "state_size", "anchoring", "signature", "key_id", "body_digest"}
OutcomeFields ==
    {"status", "reason", "log_id", "receipt_id", "tree_size", "root", "logged_at", "commitment",
     "receipt"}
DocumentFields ==
    {"service", "snapshot_id", "seq", "as_of", "submission", "information_package",
     "notarized_at", "key_id", "anchoring", "receipt", "signature"}

\* The hypothesis of the theorems: what stands for nothing, for a digest and
\* for a signature that an editor puts in is none of the program's own lines,
\* documents and signatures.  So an editor computes no digest and signs
\* nothing, but may use the sealed digest and mark wherever they fit.
Apart ==
    /\ DOMAIN None # LineFields
    /\ \A x \in Values("body_digest") : DOMAIN x # DocumentFields
    /\ \A s \in Values("signature") : DOMAIN s.hex # {"key", "over"}

\* The record before the hop, after it, and sealed in settings e.
IsNew(r) == \E sip \in Submissions, at \in Instants : r = New(Due, at, sip)
IsAttempt(r) ==
    \E sip \in Submissions, at \in Instants :
        \E outcome \in Outcomes(CoreStatement(New(Due, at, sip))) : r = Attempt(sip, at, outcome)
IsSealed(r, e) ==
    \E sip \in Submissions, at \in Instants :
        \E outcome \in Outcomes(CoreStatement(New(Due, at, sip))) :
            r = SealedIn(Attempt(sip, at, outcome), e)

\* The parts of the invariant.
ProcessInv == settings \in Settings /\ keyring = KeyringOf(settings)

StageInv ==
    /\ stage \in {"ready", "reserved", "attempted", "sealed"} => line = None
    /\ stage = "reserved" => IsNew(rec)
    /\ stage = "attempted" => IsAttempt(rec)
    /\ stage \in {"reserved", "attempted"} => sent = CoreStatement(rec)
    /\ stage = "sealed" => under \in Settings /\ IsSealed(sealed, under)
    /\ stage \in {"sealed", "kept"} =>
          rec = sealed /\ (sent = None \/ sent = CoreStatement(sealed))
    /\ stage = "kept" => line # None

LineInv ==
    line # None =>
        /\ under \in Settings /\ IsSealed(sealed, under)
        /\ DOMAIN line = LineFields /\ DOMAIN line.anchoring = OutcomeFields
        /\ line.body_digest \in {sealed.body_digest} \cup Spellings("body_digest")
        /\ line.notarized_at \in {TimeText(sealed.notarized_at)} \cup Spellings("notarized_at")
        /\ line.anchoring.logged_at \in
              {DisplayOption(sealed.anchoring.logged_at)} \cup Spellings("logged_at")
        /\ ~touched => line = ToJournal(sealed)

\* The mark on a copy is the sealed one, or one an editor puts in, or none.
MayBeOn(s) ==
    Present(s) =>
        /\ DOMAIN s = {"hex", "upper"}
        /\ s.hex \in {sealed.signature} \cup { v.hex : v \in Values("signature") }

CopyInv ==
    copy # None =>
        /\ line # None
        /\ DOMAIN copy = DocumentFields /\ MayBeOn(copy.signature)
        /\ ~forged => copy = Document(sealed)

PinInv == pin # None => \E e \in Settings : pin = K!ToJson(KeyringOf(e))

NotaryInv == ProcessInv /\ StageInv /\ LineInv /\ CopyInv /\ PinInv
-----------------------------------------------------------------------------
(* Records, and what is made of them.                                      *)

\* Records and outcomes are determined by their fields.
RecordOf(seq, id, at, passport, state, head, submitter, size, anchoring, signature, key_id, digest) ==
    [seq |-> seq, snapshot_id |-> id, notarized_at |-> at, passport_id |-> passport,
     state_hash |-> state, log_head |-> head, submitter |-> submitter, state_size |-> size,
     anchoring |-> anchoring, signature |-> signature, key_id |-> key_id, body_digest |-> digest]

IsRecord(r) ==
    r = RecordOf(r.seq, r.snapshot_id, r.notarized_at, r.passport_id, r.state_hash, r.log_head,
                 r.submitter, r.state_size, r.anchoring, r.signature, r.key_id, r.body_digest)

IsOutcome(a) ==
    a = [status |-> a.status, reason |-> a.reason, log_id |-> a.log_id,
         receipt_seq |-> a.receipt_seq, tree_size |-> a.tree_size, root |-> a.root,
         logged_at |-> a.logged_at, commitment |-> a.commitment, receipt |-> a.receipt]

\* Every outcome has an outcome's fields.
LEMMA OutcomeIs ==
    ASSUME NEW c, NEW a \in Outcomes(c)
    PROVE  IsOutcome(a)
<1>1. CASE \E v \in Receipts : a = Anchored(v, c)
  BY <1>1, SMT DEF Anchored, IsOutcome
<1>2. CASE \E why : a = Unanchored(why)
  BY <1>2, SMT DEF Unanchored, IsOutcome
<1>3. QED
  BY <1>1, <1>2, Zenon DEF Outcomes

\* The record after the hop, field by field (SnapshotRecord::new, set_anchoring).
LEMMA AttemptIs ==
    ASSUME NEW sip, NEW at, NEW a
    PROVE  Attempt(sip, at, a) =
              RecordOf(Due, SnapshotIdOf(Due), at, sip.passport_id, sip.state_hash, sip.log_head,
                       sip.submitter, sip.state_size, a, Unsigned, Empty, Unsigned)
<1> DEFINE n == New(Due, at, sip)
<1>1. n = RecordOf(Due, SnapshotIdOf(Due), at, sip.passport_id, sip.state_hash, sip.log_head,
                   sip.submitter, sip.state_size, Unanchored("not_attempted"),
                   Unsigned, Empty, Unsigned)
  BY DEF New, RecordOf
<1> HIDE DEF n
<1>2. [n EXCEPT !.anchoring = a] =
         RecordOf(Due, SnapshotIdOf(Due), at, sip.passport_id, sip.state_hash, sip.log_head,
                  sip.submitter, sip.state_size, a, Unsigned, Empty, Unsigned)
  BY <1>1, SMT DEF RecordOf
<1>3. QED
  BY <1>2 DEF Attempt, n

\* An outcome once its commitment is fixed.
WithCommitment(a, c) ==
    [status |-> a.status, reason |-> a.reason, log_id |-> a.log_id,
     receipt_seq |-> a.receipt_seq, tree_size |-> a.tree_size, root |-> a.root,
     logged_at |-> a.logged_at, commitment |-> c, receipt |-> a.receipt]

\* Fixing the commitment disturbs no other field of an outcome.
LEMMA CommitmentSet ==
    ASSUME NEW a, IsOutcome(a), NEW c
    PROVE  [a EXCEPT !.commitment = c] = WithCommitment(a, c)
  BY SMT DEF IsOutcome, WithCommitment

\* A record with all that the seal sets.
SealedRecord(r, key, keyId, digest) ==
    RecordOf(r.seq, r.snapshot_id, r.notarized_at, r.passport_id, r.state_hash, r.log_head,
             r.submitter, r.state_size, WithCommitment(r.anchoring, CoreStatement(r)),
             [key |-> key, over |-> Statement(r)], keyId, digest)

\* The sealed record, field by field; its digest is its document's (seal).
LEMMA SealIs ==
    ASSUME NEW r, NEW key, NEW keyId, IsRecord(r), IsOutcome(r.anchoring)
    PROVE  Seal(r, key, keyId) =
              SealedRecord(r, key, keyId, Document(SealedRecord(r, key, keyId, r.body_digest)))
<1> DEFINE seq == r.seq
           id == r.snapshot_id
           at == r.notarized_at
           passport == r.passport_id
           state == r.state_hash
           head == r.log_head
           submitter == r.submitter
           size == r.state_size
           a == r.anchoring
           digest == r.body_digest
<1>0. r = RecordOf(seq, id, at, passport, state, head, submitter, size, a, r.signature, r.key_id, digest)
  BY DEF IsRecord
<1> HIDE DEF seq, id, at, passport, state, head, submitter, size, a, digest
<1> DEFINE sig == [key |-> key, over |-> Statement(r)]
           c == CoreStatement(r)
           b == WithCommitment(a, c)
           signed == [r EXCEPT !.signature = sig, !.key_id = keyId, !.anchoring.commitment = c]
<1>1. [a EXCEPT !.commitment = c] = b
  BY CommitmentSet, Zenon DEF a
<1> HIDE DEF sig, c, b
<1> DEFINE one == [r EXCEPT !.signature = sig]
           two == [one EXCEPT !.key_id = keyId]
           three == [two EXCEPT !.anchoring.commitment = c]
<1>2. one = RecordOf(seq, id, at, passport, state, head, submitter, size, a, sig, r.key_id, digest)
  BY <1>0, SMT DEF RecordOf
<1> HIDE DEF one
<1>3. two = RecordOf(seq, id, at, passport, state, head, submitter, size, a, sig, keyId, digest)
  BY <1>2, SMT DEF RecordOf
<1> HIDE DEF two
<1>4. three = RecordOf(seq, id, at, passport, state, head, submitter, size, b, sig, keyId, digest)
  <2>1. three = [two EXCEPT !.anchoring = [two.anchoring EXCEPT !.commitment = c]]
    BY SMT
  <2>2. two.anchoring = a
    BY <1>3, SMT DEF RecordOf
  <2>3. three = [two EXCEPT !.anchoring = b]
    BY <2>1, <2>2, <1>1
  <2> HIDE DEF three
  <2>4. QED
    BY <1>3, <2>3, SMT DEF RecordOf
<1>5. signed = three
  BY DEF one, two
<1>6. Seal(r, key, keyId) = [three EXCEPT !.body_digest = Document(three)]
  BY <1>5 DEF Seal, SignedBytes, SealedCommitment, sig, c
<1> HIDE DEF signed, three
<1> DEFINE d == Document(three)
<1> HIDE DEF d
<1>7. [three EXCEPT !.body_digest = d]
        = RecordOf(seq, id, at, passport, state, head, submitter, size, b, sig, keyId, d)
  BY <1>4, SMT DEF RecordOf
<1>8. three = SealedRecord(r, key, keyId, r.body_digest)
  BY <1>4 DEF SealedRecord, b, sig, c, seq, id, at, passport, state, head, submitter, size, a, digest
<1>9. RecordOf(seq, id, at, passport, state, head, submitter, size, b, sig, keyId, d)
        = SealedRecord(r, key, keyId, d)
  BY DEF SealedRecord, b, sig, c, seq, id, at, passport, state, head, submitter, size, a
<1>10. QED
  BY <1>6, <1>7, <1>8, <1>9 DEF d

\* The digest is not part of what is digested.
LEMMA DigestApart ==
    ASSUME NEW r, NEW key, NEW keyId, NEW d1, NEW d2
    PROVE  Document(SealedRecord(r, key, keyId, d1)) = Document(SealedRecord(r, key, keyId, d2))
  BY Zenon DEF Document, SealedRecord, RecordOf, Submission, InformationPackage, Statement, CoreStatement

\* The key of a process in settings e.
Signer(e) == KeyringOf(e).key

\* What the proofs use of a sealed record.
IsKeptOutcome(a, c) ==
    \/ \E v \in Receipts : Summarizable(v) /\ a = Anchored(v, c)
    \/ \E why \in Reasons : a = WithCommitment(Unanchored(why), c)

IsSealOf(s, e) ==
    /\ IsRecord(s) /\ IsOutcome(s.anchoring)
    /\ s.seq = Due /\ s.snapshot_id = SnapshotIdOf(Due) /\ s.notarized_at \in Instants
    /\ Present(s.passport_id) /\ Present(s.state_hash) /\ Present(s.log_head)
    /\ s.submitter \notin {Missing, Malformed} /\ s.state_size \notin {Missing, Malformed}
    /\ IsKeptOutcome(s.anchoring, CoreStatement(s)) /\ s.anchoring.commitment = CoreStatement(s)
    /\ s.signature = [key |-> Signer(e), over |-> Statement(s)]
    /\ s.key_id = K!KeyId(Signer(e))
    /\ s.body_digest = Document(s)

OwnDataPresent(s) ==
    /\ Present(CoreStatement(s)) /\ Present(AnchoringLine(s.anchoring))
    /\ Present(Hex(s.signature)) /\ Present(s.key_id) /\ Present(s.body_digest)

\* The seal leaves an outcome what it was but for its commitment.
LEMMA KeptOutcome ==
    ASSUME NEW c, NEW a \in Outcomes(c)
    PROVE  IsKeptOutcome(WithCommitment(a, c), c) /\ IsOutcome(WithCommitment(a, c))
<1>1. IsOutcome(WithCommitment(a, c))
  BY SMT DEF IsOutcome, WithCommitment
<1>2. CASE \E v \in Receipts : Summarizable(v) /\ a = Anchored(v, c)
  <2>1. PICK v \in Receipts : Summarizable(v) /\ a = Anchored(v, c)
    BY <1>2
  <2>2. WithCommitment(a, c) = a
    BY <2>1, SMT DEF WithCommitment, Anchored
  <2>3. QED
    BY <1>1, <2>1, <2>2, Zenon DEF IsKeptOutcome
<1>3. CASE \E why \in Reasons : a = Unanchored(why)
  BY <1>1, <1>3, Zenon DEF IsKeptOutcome
<1>4. QED
  BY <1>2, <1>3, Zenon DEF Outcomes

\* What is sealed has its number, a signature over its statement, the name
\* of the signing key, its commitment and the digest of its own document.
LEMMA SealedIs ==
    ASSUME NEW s, NEW e \in Settings, IsSealed(s, e)
    PROVE  IsSealOf(s, e) /\ OwnDataPresent(s)
<1>1. PICK sip \in Submissions, at \in Instants :
         \E a \in Outcomes(CoreStatement(New(Due, at, sip))) : s = SealedIn(Attempt(sip, at, a), e)
  BY Zenon DEF IsSealed
<1> DEFINE c == CoreStatement(New(Due, at, sip))
<1>2. PICK a \in Outcomes(c) : s = SealedIn(Attempt(sip, at, a), e)
  BY <1>1
<1> DEFINE r == Attempt(sip, at, a)
           b == WithCommitment(a, c)
           sig == [key |-> Signer(e), over |-> Statement(r)]
           keyId == K!KeyId(Signer(e))
           d == Document(SealedRecord(r, Signer(e), keyId, r.body_digest))
<1>3. r = RecordOf(Due, SnapshotIdOf(Due), at, sip.passport_id, sip.state_hash, sip.log_head,
                   sip.submitter, sip.state_size, a, Unsigned, Empty, Unsigned)
  BY AttemptIs, Zenon
<1>4. CoreStatement(r) = c
  <2> HIDE DEF r
  <2>1. QED
    BY <1>3 DEF CoreStatement, RecordOf, New
<1>5. IsOutcome(a)
  BY OutcomeIs, Zenon
<1>6. /\ s = SealedRecord(r, Signer(e), keyId, d)
      /\ s = RecordOf(Due, SnapshotIdOf(Due), at, sip.passport_id, sip.state_hash, sip.log_head,
                      sip.submitter, sip.state_size, b, sig, keyId, d)
  <2>1. s = Seal(r, Signer(e), keyId)
    BY <1>2 DEF SealedIn, Signer
  <2> HIDE DEF r
  <2>2. IsRecord(r) /\ r.anchoring = a
    BY <1>3, SMT DEF IsRecord, RecordOf
  <2>3. s = SealedRecord(r, Signer(e), keyId, d)
    BY <1>5, <2>1, <2>2, SealIs, Zenon
  <2> HIDE DEF d, c, keyId
  <2>4. SealedRecord(r, Signer(e), keyId, d) =
           RecordOf(Due, SnapshotIdOf(Due), at, sip.passport_id, sip.state_hash, sip.log_head,
                    sip.submitter, sip.state_size, b, sig, keyId, d)
    BY <1>3, <1>4 DEF SealedRecord, RecordOf
  <2>5. QED
    BY <2>3, <2>4
<1>7. IsKeptOutcome(b, c) /\ IsOutcome(b)
  BY KeptOutcome, Zenon
<1>8. d = Document(s)
  <2> HIDE DEF r, keyId, d
  <2>1. Document(SealedRecord(r, Signer(e), keyId, d))
           = Document(SealedRecord(r, Signer(e), keyId, r.body_digest))
    BY DigestApart, Zenon
  <2>2. QED
    BY <1>6, <2>1 DEF d
<1>9. Statement(s) = Statement(r) /\ CoreStatement(s) = c
  <2> HIDE DEF d, sig, keyId, r, c
  <2>1. CoreStatement(s) = CoreStatement(r)
    BY <1>3, <1>6 DEF RecordOf, CoreStatement
  <2>2. /\ s.anchoring.status = a.status /\ s.anchoring.log_id = a.log_id
        /\ s.anchoring.receipt_seq = a.receipt_seq /\ s.anchoring.tree_size = a.tree_size
        /\ s.anchoring.root = a.root
    BY <1>6 DEF RecordOf, WithCommitment
  <2>3. r.anchoring = a
    BY <1>3 DEF RecordOf
  <2>4. QED
    BY <1>4, <2>1, <2>2, <2>3 DEF Statement
<1> HIDE DEF c, r, b, sig, keyId, d
<1>10. /\ s.seq = Due /\ s.snapshot_id = SnapshotIdOf(Due) /\ s.notarized_at = at
       /\ s.passport_id = sip.passport_id /\ s.state_hash = sip.state_hash
       /\ s.log_head = sip.log_head /\ s.submitter = sip.submitter
       /\ s.state_size = sip.state_size /\ s.anchoring = b
       /\ s.signature = sig /\ s.key_id = keyId /\ s.body_digest = d
  BY <1>6, SMT DEF RecordOf
<1>11. IsRecord(s)
  BY <1>6, <1>10, Zenon DEF IsRecord
<1>12. /\ Present(sip.passport_id) /\ Present(sip.state_hash) /\ Present(sip.log_head)
       /\ sip.submitter \notin {Missing, Malformed} /\ sip.state_size \notin {Missing, Malformed}
  BY NotaryAssumption, Zenon DEF NotaryAssumption
<1>13. s.signature = [key |-> Signer(e), over |-> Statement(s)] /\ s.key_id = K!KeyId(Signer(e))
  BY <1>9, <1>10 DEF sig, keyId
<1>14. b.commitment = c
  BY DEF b, WithCommitment
<1>15. IsSealOf(s, e)
  BY <1>7, <1>8, <1>9, <1>10, <1>11, <1>12, <1>13, <1>14, Zenon DEF IsSealOf
<1>16. OwnDataPresent(s)
  BY <1>2, NotaryAssumption, Zenon DEF NotaryAssumption, OwnDataPresent, c
<1>17. QED
  BY <1>15, <1>16

-----------------------------------------------------------------------------
(* Instants.                                                               *)

\* Instants are told apart by their texts.
LEMMA TimesAre ==
    /\ \A t \in Times : t # Null /\ t # Malformed /\ Present(TimeText(t))
    /\ \A t, u \in Times : TimeText(t) = TimeText(u) => t = u
  BY NotaryAssumption, Zenon DEF NotaryAssumption

\* What is read where an instant was written, or put in by an editor, is an
\* instant of Times.
LEMMA ReadTimes ==
    /\ \A t \in Instants : t \in Times /\ (TimeOf(TimeText(t)) # Malformed => TimeOf(TimeText(t)) \in Times)
    /\ \A v \in Receipts : Summarizable(v) =>
          LET t == TimeOf(v.logged_at)
          IN  t \in Times /\ (TimeOf(TimeText(t)) # Malformed => TimeOf(TimeText(t)) \in Times)
    /\ \A x \in Values("notarized_at") \cup Values("logged_at") :
          TimeOf(x) # Malformed => TimeOf(x) \in Times
  BY Zenon DEF Times

\* An instant, or none.
OptionalTimes == Times \cup {Null}

\* So are optional instants.
LEMMA DisplayDecides ==
    ASSUME NEW t \in OptionalTimes, NEW u \in OptionalTimes, DisplayOption(t) = DisplayOption(u)
    PROVE  t = u
<1>1. /\ t \in Times => t # Null /\ DisplayOption(t) = TimeText(t) /\ TimeText(t) # Null
      /\ u \in Times => u # Null /\ DisplayOption(u) = TimeText(u) /\ TimeText(u) # Null
  BY TimesAre, Zenon DEF DisplayOption, Present
<1>2. CASE t = Null
  BY <1>1, <1>2, Zenon DEF DisplayOption, OptionalTimes
<1>3. CASE u = Null
  BY <1>1, <1>3, Zenon DEF DisplayOption, OptionalTimes
<1>4. CASE t \in Times /\ u \in Times
  BY <1>1, <1>4, TimesAre, Zenon
<1>5. QED
  BY <1>2, <1>3, <1>4, Zenon DEF OptionalTimes

\* The instants of a sealed record, and of a reading of its texts.
LEMMA SealTimes ==
    ASSUME NEW s, NEW e, IsSealOf(s, e)
    PROVE  /\ s.notarized_at \in Times
           /\ s.anchoring.logged_at \in OptionalTimes
           /\ \A x \in {TimeText(s.notarized_at)} \cup Spellings("notarized_at") :
                 Present(x) /\ TimeOf(x) # Malformed => TimeOf(x) \in Times
           /\ \A x \in {DisplayOption(s.anchoring.logged_at)} \cup Spellings("logged_at") :
                 Present(x) /\ TimeOf(x) # Malformed => TimeOf(x) \in Times
<1> DEFINE at == s.notarized_at
           logged == s.anchoring.logged_at
<1>1. at \in Instants
  BY DEF IsSealOf
<1>2. at \in Times /\ (TimeOf(TimeText(at)) # Malformed => TimeOf(TimeText(at)) \in Times)
  BY <1>1, ReadTimes, Zenon
<1>3. \/ logged = Null
      \/ logged \in Times /\ (TimeOf(TimeText(logged)) # Malformed => TimeOf(TimeText(logged)) \in Times)
  <2>1. CASE \E v \in Receipts : Summarizable(v) /\ s.anchoring = Anchored(v, CoreStatement(s))
    <3>1. PICK v \in Receipts : Summarizable(v) /\ s.anchoring = Anchored(v, CoreStatement(s))
      BY <2>1
    <3>2. logged = TimeOf(v.logged_at)
      BY <3>1 DEF Anchored
    <3>3. QED
      BY <3>1, <3>2, ReadTimes, Zenon
  <2>2. CASE \E why \in Reasons : s.anchoring = WithCommitment(Unanchored(why), CoreStatement(s))
    BY <2>2 DEF WithCommitment, Unanchored
  <2>3. QED
    BY <2>1, <2>2, Zenon DEF IsSealOf, IsKeptOutcome
<1> HIDE DEF at, logged
<1>4. ASSUME NEW x \in Spellings("notarized_at") \cup Spellings("logged_at"), Present(x),
             TimeOf(x) # Malformed
      PROVE  TimeOf(x) \in Times
  BY <1>4, ReadTimes, Zenon DEF Spellings, Present
<1>5. ASSUME Present(DisplayOption(logged)) PROVE logged # Null /\ DisplayOption(logged) = TimeText(logged)
  BY <1>5, Zenon DEF DisplayOption, Present
<1>6. logged \in OptionalTimes
  BY <1>3, Zenon DEF OptionalTimes
<1>7. QED
  BY <1>2, <1>3, <1>4, <1>5, <1>6, Zenon DEF at, logged

-----------------------------------------------------------------------------
(* The document decides the record.                                        *)

\* A document and a digest decide the record: every journaled field shows in
\* the document (to_document, to_journal_json).
LEMMA DocumentDecides ==
    ASSUME NEW r, NEW s, IsRecord(r), IsRecord(s), IsOutcome(r.anchoring), IsOutcome(s.anchoring),
           r.notarized_at \in Times, s.notarized_at \in Times,
           r.anchoring.logged_at \in OptionalTimes, s.anchoring.logged_at \in OptionalTimes,
           Document(r) = Document(s), r.body_digest = s.body_digest
    PROVE  r = s
<1> DEFINE a == r.anchoring
           b == s.anchoring
<1>1. /\ r.seq = s.seq /\ r.snapshot_id = s.snapshot_id /\ r.key_id = s.key_id
      /\ TimeText(r.notarized_at) = TimeText(s.notarized_at)
      /\ Submission(r) = Submission(s) /\ InformationPackage(r) = InformationPackage(s)
      /\ AnchoringDocument(a) = AnchoringDocument(b)
      /\ a.receipt = b.receipt /\ Hex(r.signature) = Hex(s.signature)
  BY SMT DEF Document
<1>2. /\ r.submitter = s.submitter /\ r.state_size = s.state_size
      /\ r.passport_id = s.passport_id /\ r.state_hash = s.state_hash /\ r.log_head = s.log_head
  BY <1>1, SMT DEF Submission
<1>3. a.commitment = b.commitment
  BY <1>1, SMT DEF InformationPackage
<1>4. /\ a.status = b.status /\ a.reason = b.reason /\ a.log_id = b.log_id
      /\ a.receipt_seq = b.receipt_seq /\ a.tree_size = b.tree_size /\ a.root = b.root
      /\ DisplayOption(a.logged_at) = DisplayOption(b.logged_at)
  BY <1>1, SMT DEF AnchoringDocument
<1>5. r.signature = s.signature
  BY <1>1, SMT DEF Hex
<1>6. r.notarized_at = s.notarized_at
  BY <1>1, TimesAre, Zenon
<1>7. a.logged_at = b.logged_at
  BY <1>4, DisplayDecides, Zenon
<1>8. a = b
  BY <1>1, <1>3, <1>4, <1>7, Zenon DEF IsOutcome
<1>9. QED
  BY <1>1, <1>2, <1>5, <1>6, <1>8, Zenon DEF IsRecord

\* What is read from a line has a record's fields (from_journal_json).
LEMMA FromJournalIs ==
    ASSUME NEW v
    PROVE  /\ IsRecord(FromJournal(v)) /\ IsOutcome(FromJournal(v).anchoring)
           /\ FromJournal(v).anchoring = AnchoringRead(v.anchoring)
           /\ FromJournal(v).notarized_at = TimeOf(v.notarized_at)
           /\ FromJournal(v).body_digest = v.body_digest
           /\ AnchoringRead(v.anchoring).logged_at =
                 IF Present(v.anchoring.logged_at) THEN TimeOf(v.anchoring.logged_at) ELSE Null
<1>1. IsOutcome(AnchoringRead(v.anchoring))
  BY SMT DEF IsOutcome, AnchoringRead
<1>2. /\ FromJournal(v).anchoring = AnchoringRead(v.anchoring)
      /\ FromJournal(v).notarized_at = TimeOf(v.notarized_at)
      /\ FromJournal(v).body_digest = v.body_digest
  BY SMT DEF FromJournal
<1>3. IsRecord(FromJournal(v))
  BY SMT DEF IsRecord, FromJournal, RecordOf
<1>4. QED
  BY <1>1, <1>2, <1>3 DEF AnchoringRead

\* Every document has the same keys (to_document).
LEMMA DocumentShape == ASSUME NEW r PROVE DOMAIN Document(r) = DocumentFields
  BY SMT DEF Document, DocumentFields

\* Whatever was done to the line: if it replays, it reads as what was sealed.
LEMMA ReplayedIsSealed ==
    ASSUME Apart, LineInv, line # None, Replayable
    PROVE  FromJournal(line) = sealed
<1> DEFINE r == FromJournal(line)
<1>1. IsSealOf(sealed, under)
  BY SealedIs, Zenon DEF LineInv
<1>2. /\ Present(line.body_digest) /\ Present(line.notarized_at)
      /\ TimeOf(line.notarized_at) # Malformed
      /\ Present(line.anchoring.logged_at) => TimeOf(line.anchoring.logged_at) # Malformed
  BY Zenon DEF Replayable, JournalReadable, AnchoringReadable, LineInv, LineFields
<1>3. IsRecord(r) /\ IsOutcome(r.anchoring) /\ r.body_digest = line.body_digest
      /\ r.notarized_at = TimeOf(line.notarized_at)
      /\ r.anchoring.logged_at =
            IF Present(line.anchoring.logged_at) THEN TimeOf(line.anchoring.logged_at) ELSE Null
  BY FromJournalIs, Zenon
<1>4. Document(r) = line.body_digest
  BY <1>3 DEF Replayable, DigestHolds
<1>5. line.body_digest = sealed.body_digest
  <2>1. line.body_digest \notin Values("body_digest")
    BY <1>4, DocumentShape, Zenon DEF Apart
  <2>2. QED
    BY <1>2, <2>1, Zenon DEF LineInv, Spellings, Present
<1>6. sealed.body_digest = Document(sealed)
  BY <1>1 DEF IsSealOf
<1>7. r.notarized_at \in Times /\ sealed.notarized_at \in Times
  BY <1>1, <1>2, <1>3, SealTimes, Zenon DEF LineInv
<1>8. r.anchoring.logged_at \in OptionalTimes /\ sealed.anchoring.logged_at \in OptionalTimes
  <2>1. Present(line.anchoring.logged_at) => TimeOf(line.anchoring.logged_at) \in Times
    BY <1>1, <1>2, SealTimes, Zenon DEF LineInv
  <2>2. QED
    BY <1>1, <1>3, <2>1, SealTimes, Zenon DEF OptionalTimes
<1>9. IsRecord(sealed) /\ IsOutcome(sealed.anchoring)
  BY <1>1 DEF IsSealOf
<1> HIDE DEF r
<1>10. r = sealed
  BY <1>3, <1>4, <1>5, <1>6, <1>7, <1>8, <1>9, DocumentDecides, Zenon
<1>11. QED
  BY <1>10 DEF r

-----------------------------------------------------------------------------
(* A line that nobody changed.                                             *)

\* An anchored outcome has every field but a reason; any other one has a
\* reason and no receipt.
LEMMA OutcomeComplete ==
    ASSUME NEW s, NEW e, IsSealOf(s, e), OwnDataPresent(s)
    PROVE  LET a == s.anchoring
           IN  \/ /\ a.status = "anchored" /\ a.reason = Null
                  /\ Present(a.log_id) /\ Present(a.receipt_seq) /\ Present(a.tree_size)
                  /\ Present(a.root) /\ a.logged_at \in Times
                  /\ Present(a.commitment) /\ Present(a.receipt)
                  /\ \E v \in Receipts : Summarizable(v) /\ a = Anchored(v, CoreStatement(s))
               \/ /\ a.status = "unanchored" /\ Present(a.reason)
                  /\ a.log_id = Null /\ a.receipt_seq = Null /\ a.tree_size = Null
                  /\ a.root = Null /\ a.logged_at = Null
                  /\ Present(a.commitment) /\ a.receipt = Null
<1> DEFINE a == s.anchoring
           c == CoreStatement(s)
<1>1. a.commitment = c /\ Present(c)
  BY Zenon DEF IsSealOf, OwnDataPresent
<1>2. CASE \E v \in Receipts : Summarizable(v) /\ a = Anchored(v, c)
  <2>1. PICK v \in Receipts : Summarizable(v) /\ a = Anchored(v, c)
    BY <1>2
  <2>2. /\ a.status = "anchored" /\ a.reason = Null /\ a.log_id = v.log_id
        /\ a.receipt_seq = IF Present(v.seq) THEN v.seq ELSE v.receipt_id
        /\ a.tree_size = v.tree_size /\ a.root = v.root /\ a.logged_at = TimeOf(v.logged_at)
        /\ a.receipt = v
    BY <2>1 DEF Anchored
  <2>3. Present(v)
    BY NotaryAssumption, Zenon DEF NotaryAssumption
  <2>4. Present(a.log_id) /\ Present(a.receipt_seq) /\ Present(a.tree_size) /\ Present(a.root)
    BY <2>1, <2>2, Zenon DEF Summarizable, HasPosition, HasHead
  <2>5. a.logged_at \in Times
    BY <2>1, <2>2, ReadTimes, Zenon
  <2>6. QED
    BY <1>1, <2>1, <2>2, <2>3, <2>4, <2>5, Zenon
<1>3. CASE \E why \in Reasons : a = WithCommitment(Unanchored(why), c)
  <2>1. PICK why \in Reasons : a = WithCommitment(Unanchored(why), c)
    BY <1>3
  <2>2. Present(why)
    BY NotaryAssumption, Zenon DEF NotaryAssumption
  <2>3. /\ a.status = "unanchored" /\ a.reason = why
        /\ a.log_id = Null /\ a.receipt_seq = Null /\ a.tree_size = Null
        /\ a.root = Null /\ a.logged_at = Null /\ a.receipt = Null
    BY <2>1 DEF WithCommitment, Unanchored
  <2>4. QED
    BY <1>1, <2>2, <2>3, Zenon
<1>4. QED
  BY <1>2, <1>3, Zenon DEF IsSealOf, IsKeptOutcome

\* Null reads as Null, everything else as itself, and an instant as itself
\* if its text is read so.
LEMMA OptionIs ==
    /\ \A x : Present(x) => Option(x) = x /\ x # Malformed
    /\ Option(Null) = Null /\ Null # Malformed /\ ~Present(Null)
  BY NotaryAssumption, Zenon DEF Option, Present, NotaryAssumption

\* An outcome that is written and read is the same (Anchoring::from_json).
LEMMA OutcomeRoundTrip ==
    ASSUME NEW s, NEW e, IsSealOf(s, e), OwnDataPresent(s), Expressible(s.anchoring.logged_at)
    PROVE  LET v == AnchoringLine(s.anchoring)
           IN  AnchoringReadable(v) /\ AnchoringRead(v) = s.anchoring
<1> DEFINE a == s.anchoring
           v == AnchoringLine(a)
<1>1. /\ v.status = a.status /\ v.reason = a.reason /\ v.log_id = a.log_id
      /\ v.receipt_id = a.receipt_seq /\ v.tree_size = a.tree_size /\ v.root = a.root
      /\ v.logged_at = DisplayOption(a.logged_at) /\ v.commitment = a.commitment
      /\ v.receipt = a.receipt /\ DOMAIN v = OutcomeFields
  BY SMT DEF AnchoringLine, ReceiptLine, OutcomeFields
<1>2. IsOutcome(a)
  BY DEF IsSealOf
<1>3. Present("anchored") /\ Present("unanchored")
  BY NotaryAssumption, Zenon DEF NotaryAssumption
<1>4. a.logged_at \in Times =>
         /\ Present(v.logged_at) /\ TimeOf(v.logged_at) = a.logged_at
         /\ TimeOf(v.logged_at) # Malformed
  BY <1>1, TimesAre, Zenon DEF DisplayOption, Expressible
<1>5. a.logged_at = Null => v.logged_at = Null
  BY <1>1 DEF DisplayOption
<1> HIDE DEF v
<1>6. /\ AnchoringReadable(v)
      /\ Option(v.reason) = a.reason /\ Option(v.log_id) = a.log_id
      /\ Option(v.receipt_id) = a.receipt_seq /\ Option(v.tree_size) = a.tree_size
      /\ Option(v.root) = a.root /\ Option(v.commitment) = a.commitment
      /\ Option(v.receipt) = a.receipt
      /\ (IF Present(v.logged_at) THEN TimeOf(v.logged_at) ELSE Null) = a.logged_at
  <2>1. CASE a.status = "anchored" /\ a.logged_at \in Times
    <3>1. /\ a.reason = Null /\ Present(a.log_id) /\ Present(a.receipt_seq)
          /\ Present(a.tree_size) /\ Present(a.root) /\ Present(a.commitment) /\ Present(a.receipt)
      BY <2>1, OutcomeComplete, Zenon DEF IsSealOf
    <3>2. \A f \in DOMAIN v : v[f] # Malformed /\ (f # "reason" => Present(v[f]))
      BY <1>1, <1>3, <1>4, <2>1, <3>1, OptionIs, Zenon DEF OutcomeFields
    <3>3. AnchoringReadable(v)
      BY <1>1, <1>4, <2>1, <3>2, Zenon DEF AnchoringReadable
    <3>4. QED
      BY <1>1, <1>4, <2>1, <3>1, <3>3, OptionIs, Zenon
  <2>2. CASE a.status = "unanchored" /\ a.logged_at = Null
    <3>1. /\ Present(a.reason) /\ a.log_id = Null /\ a.receipt_seq = Null /\ a.tree_size = Null
          /\ a.root = Null /\ Present(a.commitment) /\ a.receipt = Null
      BY <2>2, OutcomeComplete, Zenon DEF IsSealOf
    <3>2. \A f \in DOMAIN v : v[f] # Malformed
      BY <1>1, <1>3, <1>5, <2>2, <3>1, OptionIs, Zenon DEF OutcomeFields
    <3>3. AnchoringReadable(v)
      BY <1>1, <1>5, <2>2, <3>2, OptionIs, SMT DEF AnchoringReadable
    <3>4. QED
      BY <1>1, <1>5, <2>2, <3>1, <3>3, OptionIs, Zenon
  <2>3. QED
    BY <2>1, <2>2, OutcomeComplete, Zenon
<1>7. AnchoringRead(v) = a
  <2>1. AnchoringRead(v) =
           [status |-> a.status, reason |-> a.reason, log_id |-> a.log_id,
            receipt_seq |-> a.receipt_seq, tree_size |-> a.tree_size, root |-> a.root,
            logged_at |-> a.logged_at, commitment |-> a.commitment, receipt |-> a.receipt]
    BY <1>1, <1>6 DEF AnchoringRead
  <2>2. QED
    BY <1>2, <2>1 DEF IsOutcome
<1>8. QED
  BY <1>6, <1>7 DEF v

\* A sealed record that is journaled and replayed is the same.
LEMMA LineRoundTrip ==
    ASSUME NEW s, NEW e, IsSealOf(s, e), OwnDataPresent(s),
           Expressible(s.notarized_at), Expressible(s.anchoring.logged_at)
    PROVE  JournalReadable(ToJournal(s)) /\ FromJournal(ToJournal(s)) = s
<1> DEFINE v == ToJournal(s)
<1>1. /\ v.seq = s.seq /\ v.snapshot_id = s.snapshot_id
      /\ v.notarized_at = TimeText(s.notarized_at) /\ v.passport_id = s.passport_id
      /\ v.state_hash = s.state_hash /\ v.log_head = s.log_head /\ v.submitter = s.submitter
      /\ v.state_size = s.state_size /\ v.anchoring = AnchoringLine(s.anchoring)
      /\ v.signature = Hex(s.signature) /\ v.key_id = s.key_id /\ v.body_digest = s.body_digest
      /\ DOMAIN v = LineFields
  BY SMT DEF ToJournal, LineFields
<1> HIDE DEF v
<1>2. AnchoringReadable(v.anchoring) /\ AnchoringRead(v.anchoring) = s.anchoring
  BY <1>1, OutcomeRoundTrip, Zenon
<1>3. s.notarized_at \in Times
  BY SealTimes, Zenon
<1>4. /\ Present(v.notarized_at) /\ TimeOf(v.notarized_at) = s.notarized_at
      /\ TimeOf(v.notarized_at) # Malformed
  BY <1>1, <1>3, TimesAre, Zenon DEF Expressible
<1>5. /\ Present(s.seq) /\ Present(s.snapshot_id)
  BY NotaryAssumption, Zenon DEF NotaryAssumption, IsSealOf
<1>6. /\ Present(s.passport_id) /\ Present(s.state_hash) /\ Present(s.log_head)
      /\ s.submitter \notin {Missing, Malformed} /\ s.state_size \notin {Missing, Malformed}
      /\ IsRecord(s)
  BY Zenon DEF IsSealOf
<1>7. /\ Present(v.anchoring) /\ Present(v.signature) /\ Present(v.key_id) /\ Present(v.body_digest)
  BY <1>1, Zenon DEF OwnDataPresent
<1>8. \A f \in DOMAIN v \ {"submitter", "state_size"} : Present(v[f])
  BY <1>1, <1>4, <1>5, <1>6, <1>7, Zenon DEF LineFields
<1>9. JournalReadable(v)
  BY <1>1, <1>2, <1>4, <1>6, <1>8, Zenon DEF JournalReadable
<1>10. Option(v.submitter) = s.submitter /\ Option(v.state_size) = s.state_size
  BY <1>1, <1>6, Zenon DEF Option
<1>11. v.signature.hex = s.signature
  BY <1>1 DEF Hex
<1>12. FromJournal(v) =
          RecordOf(s.seq, s.snapshot_id, s.notarized_at, s.passport_id, s.state_hash, s.log_head,
                   s.submitter, s.state_size, s.anchoring, s.signature, s.key_id, s.body_digest)
  BY <1>1, <1>2, <1>4, <1>10, <1>11 DEF FromJournal, RecordOf
<1>13. QED
  BY <1>6, <1>9, <1>12 DEF v, IsRecord

-----------------------------------------------------------------------------
(* Alterations.                                                            *)

\* One field is changed, of the object or of one of its sections, to
\* something that may be put there; or the signature is spelled otherwise.
LEMMA AlteredIs ==
    ASSUME NEW object, NEW sections, sections \subseteq DOMAIN object,
           "signature" \in DOMAIN object, "signature" \notin sections,
           NEW x \in Altered(object, sections)
    PROVE  /\ DOMAIN x = DOMAIN object
           /\ \A g \in DOMAIN object \ sections :
                 x[g] = object[g] \/ x[g] \in Spellings(g) \/ g = "signature"
           /\ \A s \in sections :
                 /\ DOMAIN x[s] = DOMAIN object[s]
                 /\ \A f \in DOMAIN object[s] :
                       x[s][f] = object[s][f] \/ x[s][f] \in Spellings(f)
           /\ \/ x["signature"] = object["signature"]
              \/ x["signature"] \in Spellings("signature")
              \/ /\ Present(object["signature"])
                 /\ x["signature"] = [object["signature"] EXCEPT !["upper"] = ~object["signature"]["upper"]]
<1> DEFINE plain == DOMAIN object \ sections
<1>1. CASE x \in Respelled(object)
  <2> DEFINE mark == [object["signature"] EXCEPT !["upper"] = ~object["signature"]["upper"]]
  <2>1. Present(object["signature"]) /\ x = [object EXCEPT !["signature"] = mark]
    BY <1>1, SMT DEF Respelled
  <2> HIDE DEF mark
  <2>2. /\ DOMAIN x = DOMAIN object /\ x["signature"] = mark
        /\ \A g \in DOMAIN object : g # "signature" => x[g] = object[g]
    BY <2>1
  <2>3. QED
    BY <2>1, <2>2, Zenon DEF mark
<1>2. CASE \E f \in plain : \E v \in Spellings(f) : x = [object EXCEPT ![f] = v]
  <2>1. PICK f \in plain : \E v \in Spellings(f) : x = [object EXCEPT ![f] = v]
    BY <1>2
  <2>2. PICK v \in Spellings(f) : x = [object EXCEPT ![f] = v]
    BY <2>1
  <2>3. /\ DOMAIN x = DOMAIN object /\ x[f] = v
        /\ \A g \in DOMAIN object : g # f => x[g] = object[g]
    BY <2>2
  <2>4. QED
    BY <2>3, Zenon
<1>3. CASE \E s \in sections : \E f \in DOMAIN object[s] : \E v \in Spellings(f) :
              x = [object EXCEPT ![s][f] = v]
  <2>1. PICK s \in sections : \E f \in DOMAIN object[s] : \E v \in Spellings(f) :
              x = [object EXCEPT ![s][f] = v]
    BY <1>3
  <2>2. PICK f \in DOMAIN object[s] : \E v \in Spellings(f) : x = [object EXCEPT ![s][f] = v]
    BY <2>1
  <2>3. PICK v \in Spellings(f) : x = [object EXCEPT ![s][f] = v]
    BY <2>2
  <2> DEFINE part == [object[s] EXCEPT ![f] = v]
  <2>4. DOMAIN part = DOMAIN object[s] /\ part[f] = v
        /\ \A g \in DOMAIN object[s] : g # f => part[g] = object[s][g]
    OBVIOUS
  <2>5. x = [object EXCEPT ![s] = part]
    BY <2>3
  <2> HIDE DEF part
  <2>6. /\ DOMAIN x = DOMAIN object /\ x[s] = part
        /\ \A g \in DOMAIN object : g # s => x[g] = object[g]
    BY <2>5
  <2>7. QED
    BY <2>4, <2>6, Zenon
<1> DEFINE fields == UNION { { [object EXCEPT ![f] = v] : v \in Spellings(f) } : f \in plain }
           parts == UNION { UNION { { [object EXCEPT ![s][f] = v] : v \in Spellings(f) }
                                    : f \in DOMAIN object[s] } : s \in sections }
<1>4. Altered(object, sections) = Respelled(object) \cup fields \cup parts
  BY Zenon DEF Altered
<1>5. x \in fields => \E f \in plain : \E v \in Spellings(f) : x = [object EXCEPT ![f] = v]
  BY SMT
<1>6. x \in parts =>
         \E s \in sections : \E f \in DOMAIN object[s] : \E v \in Spellings(f) :
            x = [object EXCEPT ![s][f] = v]
  BY SMT
<1> HIDE DEF fields, parts
<1>7. x \in Respelled(object) \/ x \in fields \/ x \in parts
  BY <1>4, Zenon
<1>8. QED
  BY <1>1, <1>2, <1>3, <1>5, <1>6, <1>7, Zenon

\* An alteration leaves on a copy a mark that may be on it.
LEMMA AlteredMark ==
    ASSUME NEW s, NEW x, MayBeOn(s),
           \/ x = s
           \/ x \in Spellings("signature")
           \/ Present(s) /\ x = [s EXCEPT !["upper"] = ~s["upper"]]
    PROVE  MayBeOn(x)
<1>1. CASE x = s
  BY <1>1
<1>2. CASE x \in Spellings("signature")
  <2>1. Present(x) => x \in Values("signature")
    BY <1>2, Zenon DEF Spellings, Present
  <2>2. x \in Values("signature") => DOMAIN x = {"hex", "upper"}
    <3>1. x \in Values("signature") => x \in [hex : {x.hex}, upper : BOOLEAN]
      BY NotaryAssumption, Zenon DEF NotaryAssumption
    <3>2. QED
      BY <3>1
  <2>3. x \in Values("signature") => x.hex \in { v.hex : v \in Values("signature") }
    BY SMT
  <2>4. QED
    BY <2>1, <2>2, <2>3, Zenon DEF MayBeOn
<1>3. CASE Present(s) /\ x = [s EXCEPT !["upper"] = ~s["upper"]]
  <2>1. /\ DOMAIN s = {"hex", "upper"}
        /\ s.hex \in {sealed.signature} \cup { v.hex : v \in Values("signature") }
    BY <1>3 DEF MayBeOn
  <2> DEFINE other == ~s["upper"]
  <2>2. x = [s EXCEPT !["upper"] = other]
    BY <1>3
  <2> HIDE DEF other
  <2>3. DOMAIN x = DOMAIN s /\ x.hex = s.hex
    BY <2>1, <2>2, SMT
  <2>4. x.hex \in {sealed.signature} \cup { v.hex : v \in Values("signature") }
    BY <2>1, <2>3, Zenon
  <2>5. QED
    BY <2>1, <2>3, <2>4, Zenon DEF MayBeOn
<1>4. QED
  BY <1>1, <1>2, <1>3

-----------------------------------------------------------------------------
(* The invariant.                                                          *)

\* The invariant holds in every initial state.
LEMMA NotaryInvInit == Init => NotaryInv
  BY SMT DEF Init, NotaryInv, ProcessInv, StageInv, LineInv, CopyInv, PinInv

\* Neither the outcome nor the seal changes the core that is committed to.
LEMMA CoreKept ==
    ASSUME NEW sip, NEW at, NEW e, NEW a \in Outcomes(CoreStatement(New(Due, at, sip)))
    PROVE  /\ CoreStatement(Attempt(sip, at, a)) = CoreStatement(New(Due, at, sip))
           /\ CoreStatement(SealedIn(Attempt(sip, at, a), e)) = CoreStatement(Attempt(sip, at, a))
<1> DEFINE r == Attempt(sip, at, a)
           keyId == K!KeyId(Signer(e))
           d == Document(SealedRecord(r, Signer(e), keyId, r.body_digest))
<1>1. r = RecordOf(Due, SnapshotIdOf(Due), at, sip.passport_id, sip.state_hash, sip.log_head,
                   sip.submitter, sip.state_size, a, Unsigned, Empty, Unsigned)
  BY AttemptIs, Zenon
<1>2. CoreStatement(r) = CoreStatement(New(Due, at, sip))
  <2> HIDE DEF r
  <2>1. QED
    BY <1>1 DEF CoreStatement, RecordOf, New
<1>3. SealedIn(r, e) = SealedRecord(r, Signer(e), keyId, d)
  <2>1. SealedIn(r, e) = Seal(r, Signer(e), keyId)
    BY DEF SealedIn, Signer
  <2>2. IsOutcome(a)
    BY OutcomeIs, Zenon
  <2> HIDE DEF r
  <2>3. IsRecord(r) /\ r.anchoring = a
    BY <1>1, SMT DEF IsRecord, RecordOf
  <2>4. QED
    BY <2>1, <2>2, <2>3, SealIs, Zenon
<1> HIDE DEF d, keyId, r
<1>4. CoreStatement(SealedRecord(r, Signer(e), keyId, d)) = CoreStatement(r)
  BY DEF CoreStatement, SealedRecord, RecordOf
<1>5. QED
  BY <1>2, <1>3, <1>4 DEF r

\* Every line has the same keys (to_journal_json).
LEMMA LineShape ==
    ASSUME NEW r
    PROVE  /\ DOMAIN ToJournal(r) = LineFields /\ DOMAIN ToJournal(r).anchoring = OutcomeFields
           /\ ToJournal(r).body_digest = r.body_digest
           /\ ToJournal(r).notarized_at = TimeText(r.notarized_at)
           /\ ToJournal(r).anchoring.logged_at = DisplayOption(r.anchoring.logged_at)
<1>1. /\ DOMAIN ToJournal(r) = LineFields /\ ToJournal(r).anchoring = AnchoringLine(r.anchoring)
      /\ ToJournal(r).body_digest = r.body_digest
      /\ ToJournal(r).notarized_at = TimeText(r.notarized_at)
  BY SMT DEF ToJournal, LineFields
<1>2. /\ DOMAIN AnchoringLine(r.anchoring) = OutcomeFields
      /\ AnchoringLine(r.anchoring).logged_at = DisplayOption(r.anchoring.logged_at)
  BY SMT DEF AnchoringLine, OutcomeFields
<1>3. QED
  BY <1>1, <1>2, Zenon

\* The journal line and the copy come after the seal, so the steps before it
\* disturb neither.
LEMMA NothingYet ==
    ASSUME StageInv, CopyInv, stage \in {"ready", "reserved", "attempted", "sealed"}
    PROVE  line = None /\ copy = None
  BY Zenon DEF StageInv, CopyInv

\* A reservation preserves the invariant.
LEMMA ReservePreserves ==
    ASSUME NotaryInv, NEW sip \in Submissions, NEW at \in Instants, Reserve(sip, at)
    PROVE  NotaryInv'
<1>1. ProcessInv' /\ PinInv'
  BY SMT DEF NotaryInv, ProcessInv, PinInv, Reserve, process, paper
<1>2. line' = None /\ copy' = None
  BY NothingYet, Zenon DEF NotaryInv, Reserve, paper
<1>3. IsNew(rec') /\ sent' = CoreStatement(rec') /\ stage' = "reserved"
  BY Zenon DEF Reserve, IsNew
<1>4. StageInv'
  BY <1>2, <1>3, SMT DEF StageInv, IsNew
<1>5. QED
  BY <1>1, <1>2, <1>4, Zenon DEF NotaryInv, LineInv, CopyInv

\* Recording the outcome preserves the invariant.
LEMMA SetAnchoringPreserves ==
    ASSUME NotaryInv, stage = "reserved", NEW a \in Outcomes(sent), SetAnchoring(a)
    PROVE  NotaryInv'
<1>1. ProcessInv' /\ PinInv'
  BY SMT DEF NotaryInv, ProcessInv, PinInv, SetAnchoring, process, paper
<1>2. line' = None /\ copy' = None
  BY NothingYet, Zenon DEF NotaryInv, SetAnchoring, paper
<1>3. PICK sip \in Submissions, at \in Instants : rec = New(Due, at, sip)
  BY Zenon DEF NotaryInv, StageInv, IsNew
<1>4. sent = CoreStatement(New(Due, at, sip))
  BY <1>3, Zenon DEF NotaryInv, StageInv
<1>5. rec' = Attempt(sip, at, a) /\ stage' = "attempted" /\ sent' = sent
  BY <1>3, Zenon DEF SetAnchoring, Attempt
<1>6. IsAttempt(rec')
  BY <1>4, <1>5, Zenon DEF IsAttempt
<1>7. sent' = CoreStatement(rec')
  BY <1>4, <1>5, CoreKept, Zenon
<1>8. StageInv'
  BY <1>2, <1>5, <1>6, <1>7, SMT DEF StageInv, IsAttempt
<1>9. QED
  BY <1>1, <1>2, <1>8, Zenon DEF NotaryInv, LineInv, CopyInv

\* However the hop ends, it records one of the outcomes.
LEMMA HopIs ==
    ASSUME HopFails \/ \E v \in Receipts : ReceiptArrives(v)
    PROVE  stage = "reserved" /\ \E a \in Outcomes(sent) : SetAnchoring(a)
<1>1. \A why \in Reasons : Unanchored(why) \in Outcomes(sent)
  BY DEF Outcomes
<1>2. \A v \in Receipts : Summarizable(v) => Anchored(v, sent) \in Outcomes(sent)
  BY DEF Outcomes
<1>3. /\ "receipt_rejected" \in Reasons /\ "log_failed" \in Reasons /\ "no_log" \in Reasons
  BY DEF Reasons
<1>4. CASE HopFails
  BY <1>1, <1>3, <1>4, Zenon DEF HopFails
<1>5. CASE \E v \in Receipts : ReceiptArrives(v)
  <2>1. PICK v \in Receipts : ReceiptArrives(v)
    BY <1>5
  <2>2. QED
    BY <1>1, <1>2, <1>3, <2>1, Zenon DEF ReceiptArrives
<1>6. QED
  BY <1>4, <1>5

\* The hop preserves the invariant.
LEMMA HopPreserves ==
    ASSUME NotaryInv, HopFails \/ \E v \in Receipts : ReceiptArrives(v)
    PROVE  NotaryInv'
  BY HopIs, SetAnchoringPreserves, Zenon

\* The seal preserves the invariant.
LEMMA SealRecordPreserves ==
    ASSUME NotaryInv, SealRecord
    PROVE  NotaryInv'
<1>1. ProcessInv' /\ PinInv'
  BY SMT DEF NotaryInv, ProcessInv, PinInv, SealRecord, process, paper
<1>2. line' = None /\ copy' = None
  BY NothingYet, Zenon DEF NotaryInv, SealRecord, paper
<1>3. PICK sip \in Submissions, at \in Instants :
         \E a \in Outcomes(CoreStatement(New(Due, at, sip))) : rec = Attempt(sip, at, a)
  BY Zenon DEF NotaryInv, StageInv, SealRecord, IsAttempt
<1>4. PICK a \in Outcomes(CoreStatement(New(Due, at, sip))) : rec = Attempt(sip, at, a)
  BY <1>3
<1>5. /\ sealed' = SealedIn(Attempt(sip, at, a), settings) /\ under' = settings
      /\ rec' = sealed' /\ stage' = "sealed" /\ sent' = sent /\ settings \in Settings
  BY <1>4, Zenon DEF SealRecord, SealedIn, NotaryInv, ProcessInv
<1>6. IsSealed(sealed', under')
  BY <1>5, Zenon DEF IsSealed
<1>7. sent' = CoreStatement(sealed')
  <2>1. sent = CoreStatement(rec)
    BY Zenon DEF NotaryInv, StageInv, SealRecord
  <2>2. QED
    BY <1>4, <1>5, <2>1, CoreKept, Zenon
<1>8. StageInv'
  BY <1>2, <1>5, <1>6, <1>7, SMT DEF StageInv
<1>9. QED
  BY <1>1, <1>2, <1>8, Zenon DEF NotaryInv, LineInv, CopyInv

\* The append preserves the invariant.
LEMMA KeepPreserves ==
    ASSUME Apart, NotaryInv, Keep
    PROVE  NotaryInv'
<1>1. ProcessInv' /\ PinInv'
  BY SMT DEF NotaryInv, ProcessInv, PinInv, Keep, process, paper
<1>2. copy' = None
  BY NothingYet, Zenon DEF NotaryInv, Keep, paper
<1>3. /\ under' \in Settings /\ IsSealed(sealed', under') /\ rec' = sealed'
      /\ sent' = None \/ sent' = CoreStatement(sealed')
  BY Zenon DEF NotaryInv, StageInv, Keep, history
<1>4. line' = ToJournal(sealed') /\ stage' = "kept"
  BY Zenon DEF NotaryInv, StageInv, Keep, history
<1>5. DOMAIN line' = LineFields /\ line' # None
  BY <1>4, LineShape, Zenon DEF Apart
<1>6. StageInv'
  BY <1>3, <1>4, <1>5, SMT DEF StageInv
<1>7. LineInv'
  BY <1>3, <1>4, LineShape, Zenon DEF LineInv
<1>8. QED
  BY <1>1, <1>2, <1>6, <1>7, Zenon DEF NotaryInv, CopyInv

\* A restart, in any settings and over any line, preserves the invariant.
LEMMA RestartPreserves ==
    ASSUME Apart, NotaryInv, NEW e \in Settings, Restart(e)
    PROVE  NotaryInv'
<1>1. ProcessInv' /\ PinInv' /\ LineInv' /\ CopyInv'
  <2>1. ProcessInv'
    BY DEF ProcessInv, Restart
  <2>2. UNCHANGED <<line, copy, pin, forged, touched, sealed, under>>
    BY DEF Restart, paper, history
  <2>3. QED
    BY <2>1, <2>2, SMT DEF NotaryInv, PinInv, LineInv, CopyInv, MayBeOn
<1>2. line' = line /\ sealed' = sealed /\ sent' = None
  BY DEF Restart, history
<1>3. CASE line = None
  <2>1. stage' = "ready"
    BY <1>3 DEF Restart
  <2>2. QED
    BY <1>1, <1>2, <1>3, <2>1, SMT DEF NotaryInv, StageInv
<1>4. CASE line # None /\ Replayable
  <2>1. stage' = "kept" /\ rec' = FromJournal(line)
    BY <1>4, Zenon DEF Restart
  <2>2. FromJournal(line) = sealed
    BY <1>4, ReplayedIsSealed, Zenon DEF NotaryInv
  <2> HIDE DEF FromJournal
  <2>3. StageInv'
    BY <1>2, <1>4, <2>1, <2>2, SMT DEF StageInv
  <2>4. QED
    BY <1>1, <2>3, Zenon DEF NotaryInv
<1>5. CASE line # None /\ ~Replayable
  <2>1. stage' \in {"refused", "skipped"}
    BY <1>5, SMT DEF Restart, WithoutIt
  <2>2. StageInv'
    BY <1>2, <2>1, SMT DEF StageInv
  <2>3. QED
    BY <1>1, <2>2, Zenon DEF NotaryInv
<1>6. QED
  BY <1>3, <1>4, <1>5

\* A read preserves the invariant.
LEMMA FetchPreserves ==
    ASSUME NotaryInv, Fetch
    PROVE  NotaryInv'
<1>1. ProcessInv' /\ StageInv' /\ LineInv' /\ PinInv'
  BY SMT DEF NotaryInv, ProcessInv, StageInv, LineInv, PinInv, Fetch, process, snapshot, history
<1>2. line' # None /\ copy' = Document(sealed') /\ sealed' = sealed
  BY Zenon DEF NotaryInv, StageInv, Fetch, history
<1>3. DOMAIN copy' = DocumentFields
  BY <1>2, DocumentShape, Zenon
<1>4. MayBeOn(copy.signature)'
  <2>1. copy'.signature = Hex(sealed'.signature)
    BY <1>2 DEF Document
  <2>2. DOMAIN copy'.signature = {"hex", "upper"} /\ copy'.signature.hex = sealed'.signature
    BY <2>1, SMT DEF Hex
  <2>3. QED
    BY <2>2, Zenon DEF MayBeOn
<1>5. CopyInv'
  BY <1>2, <1>3, <1>4, Zenon DEF CopyInv
<1>6. QED
  BY <1>1, <1>5, Zenon DEF NotaryInv

\* A /keyring answer preserves the invariant.
LEMMA PinKeyringPreserves ==
    ASSUME NotaryInv, PinKeyring
    PROVE  NotaryInv'
<1>1. ProcessInv' /\ StageInv' /\ LineInv' /\ CopyInv'
  BY SMT DEF NotaryInv, ProcessInv, StageInv, LineInv, CopyInv, MayBeOn, PinKeyring, process,
             snapshot, history
<1>2. PinInv'
  BY Zenon DEF PinInv, PinKeyring, NotaryInv, ProcessInv
<1>3. QED
  BY <1>1, <1>2, Zenon DEF NotaryInv

\* A change to the line preserves the invariant.
LEMMA AlterLinePreserves ==
    ASSUME Apart, NotaryInv, AlterLine
    PROVE  NotaryInv'
<1>1. ProcessInv' /\ PinInv'
  BY SMT DEF NotaryInv, ProcessInv, PinInv, AlterLine, process, paper
<1>2. /\ line # None /\ touched' /\ line' \in Altered(line, {"anchoring"})
      /\ UNCHANGED <<stage, rec, sent, copy, forged, sealed, under>>
  BY DEF AlterLine, snapshot, paper, history
<1>3. /\ under \in Settings /\ IsSealed(sealed, under)
      /\ DOMAIN line = LineFields /\ DOMAIN line["anchoring"] = OutcomeFields
      /\ line["body_digest"] \in {sealed.body_digest} \cup Spellings("body_digest")
      /\ line["notarized_at"] \in {TimeText(sealed.notarized_at)} \cup Spellings("notarized_at")
      /\ line["anchoring"]["logged_at"] \in
            {DisplayOption(sealed.anchoring.logged_at)} \cup Spellings("logged_at")
  BY <1>2 DEF NotaryInv, LineInv
<1>4. /\ {"anchoring"} \subseteq DOMAIN line /\ "signature" \in DOMAIN line
      /\ "signature" \notin {"anchoring"}
      /\ "body_digest" \in DOMAIN line \ {"anchoring"}
      /\ "notarized_at" \in DOMAIN line \ {"anchoring"}
      /\ "logged_at" \in DOMAIN line["anchoring"]
      /\ "body_digest" # "signature" /\ "notarized_at" # "signature"
  BY <1>3, SMT DEF LineFields, OutcomeFields
<1>5. /\ DOMAIN line' = DOMAIN line
      /\ \A g \in DOMAIN line \ {"anchoring"} :
            line'[g] = line[g] \/ line'[g] \in Spellings(g) \/ g = "signature"
      /\ DOMAIN line'["anchoring"] = DOMAIN line["anchoring"]
      /\ \A f \in DOMAIN line["anchoring"] :
            line'["anchoring"][f] = line["anchoring"][f] \/ line'["anchoring"][f] \in Spellings(f)
  BY <1>2, <1>4, AlteredIs, Zenon
<1>6. /\ line'["body_digest"] = line["body_digest"] \/ line'["body_digest"] \in Spellings("body_digest")
      /\ line'["notarized_at"] = line["notarized_at"] \/ line'["notarized_at"] \in Spellings("notarized_at")
      /\ \/ line'["anchoring"]["logged_at"] = line["anchoring"]["logged_at"]
         \/ line'["anchoring"]["logged_at"] \in Spellings("logged_at")
  BY <1>4, <1>5, Zenon
<1>7. DOMAIN line' = LineFields /\ DOMAIN line'["anchoring"] = OutcomeFields
  BY <1>3, <1>5
<1>8. LineInv'
  BY <1>2, <1>3, <1>6, <1>7, Zenon DEF LineInv, Spellings
<1>9. line' # None
  BY <1>7, Zenon DEF Apart
<1>10. StageInv'
  BY <1>2, <1>9, SMT DEF NotaryInv, StageInv
<1>11. CopyInv'
  BY <1>2, <1>9, SMT DEF NotaryInv, CopyInv, MayBeOn
<1>12. QED
  BY <1>1, <1>8, <1>10, <1>11, Zenon DEF NotaryInv

\* A change to a copy preserves the invariant.
LEMMA AlterCopyPreserves ==
    ASSUME NotaryInv, AlterCopy
    PROVE  NotaryInv'
<1> DEFINE sections == {"submission", "information_package", "anchoring"}
<1>1. ProcessInv' /\ StageInv' /\ LineInv' /\ PinInv'
  BY SMT DEF NotaryInv, ProcessInv, StageInv, LineInv, PinInv, AlterCopy, process, snapshot, history
<1>2. /\ copy # None /\ forged' /\ copy' \in Altered(copy, sections)
      /\ line' = line /\ sealed' = sealed
  BY DEF AlterCopy, history
<1>3. /\ line # None /\ DOMAIN copy = DocumentFields /\ MayBeOn(copy["signature"])
  BY <1>2 DEF NotaryInv, CopyInv
<1>4. /\ sections \subseteq DOMAIN copy /\ "signature" \in DOMAIN copy /\ "signature" \notin sections
  BY <1>3, SMT DEF DocumentFields
<1> HIDE DEF sections
<1>5. /\ DOMAIN copy' = DOMAIN copy
      /\ \/ copy'["signature"] = copy["signature"]
         \/ copy'["signature"] \in Spellings("signature")
         \/ /\ Present(copy["signature"])
            /\ copy'["signature"] =
                  [copy["signature"] EXCEPT !["upper"] = ~copy["signature"]["upper"]]
  BY <1>2, <1>4, AlteredIs, Zenon
<1>6. MayBeOn(copy'["signature"])
  BY <1>3, <1>5, AlteredMark, Zenon
<1>7. MayBeOn(copy["signature"])'
  BY <1>2, <1>6, SMT DEF MayBeOn, Values
<1>8. CopyInv'
  BY <1>2, <1>3, <1>5, <1>7, Zenon DEF CopyInv
<1>9. QED
  BY <1>1, <1>8, Zenon DEF NotaryInv

\* Every step preserves the invariant.
LEMMA NotaryInvNext ==
    ASSUME Apart, NotaryInv, [Next]_vars
    PROVE  NotaryInv'
<1>1. CASE \E sip \in Submissions, at \in Instants : Reserve(sip, at)
  BY <1>1, ReservePreserves, Zenon
<1>2. CASE HopFails \/ \E v \in Receipts : ReceiptArrives(v)
  BY <1>2, HopPreserves, Zenon
<1>3. CASE SealRecord
  BY <1>3, SealRecordPreserves, Zenon
<1>4. CASE Keep
  BY <1>4, KeepPreserves, Zenon
<1>5. CASE \E e \in Settings : Restart(e)
  BY <1>5, RestartPreserves, Zenon
<1>6. CASE Fetch
  BY <1>6, FetchPreserves, Zenon
<1>7. CASE PinKeyring
  BY <1>7, PinKeyringPreserves, Zenon
<1>8. CASE AlterLine
  BY <1>8, AlterLinePreserves, Zenon
<1>9. CASE AlterCopy
  BY <1>9, AlterCopyPreserves, Zenon
<1>10. CASE UNCHANGED vars
  BY <1>10, SMT DEF vars, process, snapshot, paper, history, NotaryInv, ProcessInv, StageInv,
             LineInv, CopyInv, MayBeOn, PinInv
<1>11. QED
  BY <1>1, <1>2, <1>3, <1>4, <1>5, <1>6, <1>7, <1>8, <1>9, <1>10, Zenon DEF Next

\* Whatever the steps, the processes' settings and the alterations, the record
\* is the sealed one from the seal on, the line differs from its journal line
\* only where somebody changed it, and a copy nobody changed is its document.
THEOREM NotaryInvAlways == ASSUME Apart PROVE Spec => []NotaryInv
<1>1. Init => NotaryInv
  BY NotaryInvInit
<1>2. NotaryInv /\ [Next]_vars => NotaryInv'
  BY NotaryInvNext
<1>3. QED
  BY <1>1, <1>2, PTL DEF Spec

-----------------------------------------------------------------------------
(* What the document says.                                                 *)

\* A document, by its sections (to_document).
LEMMA DocumentIs ==
    ASSUME NEW r
    PROVE  LET d == Document(r)
           IN  /\ d.service = ServiceId /\ d.snapshot_id = r.snapshot_id /\ d.seq = r.seq
               /\ d.key_id = r.key_id /\ d.receipt = r.anchoring.receipt
               /\ d.signature = Hex(r.signature)
               /\ d.information_package = InformationPackage(r)
               /\ d.anchoring = AnchoringDocument(r.anchoring)
               /\ InformationPackage(r).passport_id = r.passport_id
               /\ InformationPackage(r).state_hash = r.state_hash
               /\ InformationPackage(r).log_head = r.log_head
               /\ InformationPackage(r).as_of = TimeText(r.notarized_at)
               /\ InformationPackage(r).commitment = r.anchoring.commitment
<1>1. /\ InformationPackage(r).passport_id = r.passport_id
      /\ InformationPackage(r).state_hash = r.state_hash
      /\ InformationPackage(r).log_head = r.log_head
      /\ InformationPackage(r).as_of = TimeText(r.notarized_at)
      /\ InformationPackage(r).commitment = r.anchoring.commitment
  BY SMT DEF InformationPackage
<1>2. QED
  BY <1>1, SMT DEF Document

\* The anchoring section (Anchoring::to_document_json).
LEMMA AnchoringDocumentIs ==
    ASSUME NEW a
    PROVE  LET d == AnchoringDocument(a)
           IN  /\ d.status = a.status /\ d.reason = a.reason /\ d.log_id = a.log_id
               /\ d.receipt_id = a.receipt_seq /\ d.tree_size = a.tree_size /\ d.root = a.root
               /\ d.logged_at = DisplayOption(a.logged_at)
  BY SMT DEF AnchoringDocument

\* From the document of a sealed record alone, the statement that was signed
\* and the core that was committed to can be rebuilt.
LEMMA DocumentRebuilds ==
    ASSUME NEW s, NEW e, IsSealOf(s, e), OwnDataPresent(s), Expressible(s.notarized_at)
    PROVE  /\ CoreReadable(Document(s)) /\ CoreFromDocument(Document(s)) = CoreStatement(s)
           /\ StatementReadable(Document(s)) /\ StatementFromDocument(Document(s)) = Statement(s)
<1> DEFINE d == Document(s)
           ip == InformationPackage(s)
           a == AnchoringDocument(s.anchoring)
<1>1. /\ d.service = ServiceId /\ d.snapshot_id = s.snapshot_id /\ d.seq = s.seq
      /\ d.information_package = ip /\ d.anchoring = a
      /\ ip.passport_id = s.passport_id /\ ip.state_hash = s.state_hash
      /\ ip.log_head = s.log_head /\ ip.as_of = TimeText(s.notarized_at)
  BY DocumentIs, Zenon
<1>2. /\ a.status = s.anchoring.status /\ a.log_id = s.anchoring.log_id
      /\ a.receipt_id = s.anchoring.receipt_seq /\ a.tree_size = s.anchoring.tree_size
      /\ a.root = s.anchoring.root
  BY AnchoringDocumentIs, Zenon
<1> HIDE DEF d, ip, a
<1>3. s.notarized_at \in Times
  BY SealTimes, Zenon
<1>4. /\ Present(ip.as_of) /\ TimeOf(ip.as_of) = s.notarized_at /\ TimeOf(ip.as_of) # Malformed
  BY <1>1, <1>3, TimesAre, Zenon DEF Expressible
<1>5. /\ Present(s.seq) /\ Present(s.snapshot_id)
      /\ Present(s.passport_id) /\ Present(s.state_hash) /\ Present(s.log_head)
  BY NotaryAssumption, Zenon DEF NotaryAssumption, IsSealOf
<1>6. CoreReadable(d)
  BY <1>1, <1>4, <1>5, Zenon DEF CoreReadable
<1>7. CoreFromDocument(d) = CoreStatement(s)
  BY <1>1, <1>4 DEF CoreFromDocument, CoreStatement
<1>8. StatementReadable(d)
  <2>1. /\ a.status \in {"anchored", "unanchored"}
        /\ a.status = "anchored" =>
              Present(a.log_id) /\ Present(a.receipt_id) /\ Present(a.tree_size) /\ Present(a.root)
    BY <1>2, OutcomeComplete, SMT
  <2>2. \A f \in {"log_id", "receipt_id", "tree_size", "root"} : a.status = "anchored" => Present(a[f])
    BY <2>1, Zenon
  <2>3. QED
    BY <1>1, <1>6, <2>1, <2>2, Zenon DEF StatementReadable
<1>9. StatementFromDocument(d) = Statement(s)
  BY <1>1, <1>2, <1>7 DEF StatementFromDocument, Statement
<1>10. QED
  BY <1>6, <1>7, <1>8, <1>9 DEF d

\* What there is to know of a copy that nobody changed.
LEMMA IssuedCopy ==
    ASSUME NotaryInv, copy # None, ~forged
    PROVE  /\ copy = Document(sealed)
           /\ under \in Settings /\ IsSealOf(sealed, under) /\ OwnDataPresent(sealed)
<1>1. copy = Document(sealed) /\ line # None
  BY Zenon DEF NotaryInv, CopyInv
<1>2. under \in Settings /\ IsSealed(sealed, under)
  BY <1>1, Zenon DEF NotaryInv, LineInv
<1>3. QED
  BY <1>1, <1>2, SealedIs, Zenon

\* A pinned answer names its key (Keyring::to_json).
LEMMA PinIs ==
    ASSUME NotaryInv, pin # None
    PROVE  \E e \in Settings : pin.public = Signer(e) /\ pin.key_id = K!KeyId(Signer(e))
<1>1. PICK e \in Settings : pin = K!ToJson(KeyringOf(e))
  BY DEF NotaryInv, PinInv
<1>2. QED
  BY <1>1 DEF K!ToJson, Signer

-----------------------------------------------------------------------------
(* The theorems.                                                           *)

\* A line that nobody changed replays to the record that was sealed
\* (to_journal_json and from_journal_json).
THEOREM LineReplaysAlways == ASSUME Apart PROVE Spec => []LineReplays
<1>1. ASSUME NotaryInv PROVE LineReplays
  <2>1. SUFFICES ASSUME line # None, ~touched, Expressible(sealed.notarized_at),
                        Expressible(sealed.anchoring.logged_at)
                 PROVE  Replayable /\ FromJournal(line) = sealed
    BY DEF LineReplays
  <2>2. line = ToJournal(sealed) /\ IsSealOf(sealed, under) /\ OwnDataPresent(sealed)
    BY <1>1, <2>1, SealedIs, Zenon DEF NotaryInv, LineInv
  <2>3. JournalReadable(line) /\ FromJournal(line) = sealed
    BY <2>1, <2>2, LineRoundTrip, Zenon
  <2>4. line.seq = Due
    BY <2>2 DEF ToJournal, IsSealOf
  <2>5. DigestHolds(FromJournal(line))
    BY <2>2, <2>3, Zenon DEF DigestHolds, IsSealOf
  <2>6. QED
    BY <2>3, <2>4, <2>5, Zenon DEF Replayable
<1>2. QED
  BY <1>1, NotaryInvAlways, PTL

\* However the line was changed, what a start accepts and serves is the record
\* that was sealed (replay's digest check and to_document).
THEOREM OnlyAsSealedAlways == ASSUME Apart PROVE Spec => []OnlyAsSealed
<1>1. NotaryInv => OnlyAsSealed
  BY Zenon DEF NotaryInv, StageInv, OnlyAsSealed
<1>2. QED
  BY <1>1, NotaryInvAlways, PTL

\* A document that nobody changed verifies with exactly the pinned answers
\* that name its key (seal, to_document, the verifier's rebuild).
THEOREM NamedKeyDecidesAlways == ASSUME Apart PROVE Spec => []NamedKeyDecides
<1>1. ASSUME NotaryInv PROVE NamedKeyDecides
  <2>1. SUFFICES ASSUME copy # None, ~forged, pin # None, Expressible(sealed.notarized_at)
                 PROVE  Verifies(copy, pin.public) <=> pin.key_id = copy.key_id
    BY DEF NamedKeyDecides
  <2>2. copy = Document(sealed) /\ IsSealOf(sealed, under) /\ OwnDataPresent(sealed)
    BY <1>1, <2>1, IssuedCopy, Zenon
  <2>3. PICK e \in Settings : pin.public = Signer(e) /\ pin.key_id = K!KeyId(Signer(e))
    BY <1>1, <2>1, PinIs, Zenon
  <2>4. StatementReadable(copy) /\ StatementFromDocument(copy) = Statement(sealed)
    BY <2>1, <2>2, DocumentRebuilds, Zenon
  <2>5. /\ copy.signature = Hex(sealed.signature) /\ copy.key_id = sealed.key_id
    BY <2>2, DocumentIs, Zenon
  <2>6. /\ sealed.signature = [key |-> Signer(under), over |-> Statement(sealed)]
        /\ sealed.key_id = K!KeyId(Signer(under)) /\ Present(copy.signature)
    BY <2>2, <2>5, Zenon DEF IsSealOf, OwnDataPresent
  <2>7. copy.signature.hex = [key |-> Signer(under), over |-> Statement(sealed)]
    BY <2>5, <2>6 DEF Hex
  <2>8. Verifies(copy, pin.public) <=> Signer(under) = Signer(e)
    BY <2>3, <2>4, <2>6, <2>7, SMT DEF Verifies
  <2>9. K!KeyId(Signer(e)) = K!KeyId(Signer(under)) <=> Signer(under) = Signer(e)
    BY SMT DEF K!KeyId
  <2>10. QED
    BY <2>3, <2>5, <2>6, <2>8, <2>9
<1>2. QED
  BY <1>1, NotaryInvAlways, PTL

\* A changed document that verifies says the same as the original about all
\* that its signature covers (canonical_core, canonical_statement).
THEOREM SignatureCoversAlways == ASSUME Apart PROVE Spec => []SignatureCovers
<1>1. ASSUME NotaryInv PROVE SignatureCovers
  <2> DEFINE issued == Document(sealed)
             ip == copy.information_package
             a == copy.anchoring
             b == sealed.anchoring
  <2>1. SUFFICES ASSUME copy # None, pin # None, Verifies(copy, pin.public)
                 PROVE  /\ copy.snapshot_id = issued.snapshot_id /\ copy.seq = issued.seq
                        /\ \A f \in {"passport_id", "state_hash", "log_head"} :
                              ip[f] = issued.information_package[f]
                        /\ TimeOf(ip.as_of) = sealed.notarized_at
                        /\ a.status = issued.anchoring.status
                        /\ a.status = "anchored" =>
                              \A f \in {"log_id", "receipt_id", "tree_size", "root"} :
                                 a[f] = issued.anchoring[f]
    BY Zenon DEF SignatureCovers
  <2>2. IsSealOf(sealed, under) /\ OwnDataPresent(sealed) /\ MayBeOn(copy.signature)
    BY <1>1, <2>1, SealedIs, Zenon DEF NotaryInv, LineInv, CopyInv
  <2>3. copy.signature.hex = sealed.signature
    <3>1. DOMAIN copy.signature.hex = {"key", "over"}
      <4>1. copy.signature.hex = [key |-> pin.public, over |-> StatementFromDocument(copy)]
        BY <2>1, Zenon DEF Verifies
      <4>2. QED
        BY <4>1
    <3>2. \A v \in Values("signature") : v.hex # copy.signature.hex
      BY <3>1, Zenon DEF Apart
    <3>3. copy.signature.hex \in {sealed.signature} \cup { v.hex : v \in Values("signature") }
      BY <2>1, <2>2, Zenon DEF Verifies, MayBeOn
    <3>4. QED
      BY <3>2, <3>3, Zenon
  <2>4. StatementFromDocument(copy) = Statement(sealed)
    BY <2>1, <2>2, <2>3, SMT DEF Verifies, IsSealOf
  <2>5. a.status \in {"anchored", "unanchored"} /\ b.status \in {"anchored", "unanchored"}
    BY <2>1, <2>2, OutcomeComplete, Zenon DEF Verifies, StatementReadable
  <2>6. /\ CoreFromDocument(copy) = CoreStatement(sealed) /\ a.status = b.status
        /\ a.status = "anchored" =>
              /\ a.log_id = b.log_id /\ a.receipt_id = b.receipt_seq
              /\ a.tree_size = b.tree_size /\ a.root = b.root
    <3> HIDE DEF a, b
    <3>1. CanonicalStatement(CoreFromDocument(copy), a.status, a.log_id, a.receipt_id,
                             a.tree_size, a.root)
             = CanonicalStatement(CoreStatement(sealed), b.status, b.log_id, b.receipt_seq,
                                  b.tree_size, b.root)
      BY <2>4 DEF StatementFromDocument, Statement, a, b
    <3> DEFINE core == CoreFromDocument(copy)
               own == CoreStatement(sealed)
    <3> HIDE DEF core, own
    <3>2. CanonicalStatement(core, a.status, a.log_id, a.receipt_id, a.tree_size, a.root)
             = CanonicalStatement(own, b.status, b.log_id, b.receipt_seq, b.tree_size, b.root)
      BY <3>1 DEF core, own
    <3>3. /\ core = own /\ a.status = b.status
          /\ a.status = "anchored" =>
                /\ a.log_id = b.log_id /\ a.receipt_id = b.receipt_seq
                /\ a.tree_size = b.tree_size /\ a.root = b.root
      BY <2>5, <3>2, SMT DEF CanonicalStatement
    <3>4. QED
      BY <3>3 DEF core, own
  <2>7. /\ copy.snapshot_id = sealed.snapshot_id /\ copy.seq = sealed.seq
        /\ ip.passport_id = sealed.passport_id /\ ip.state_hash = sealed.state_hash
        /\ ip.log_head = sealed.log_head /\ TimeOf(ip.as_of) = sealed.notarized_at
    BY <2>6, SMT DEF CoreFromDocument, CoreStatement, CanonicalCore
  <2>8. /\ issued.snapshot_id = sealed.snapshot_id /\ issued.seq = sealed.seq
        /\ issued.information_package.passport_id = sealed.passport_id
        /\ issued.information_package.state_hash = sealed.state_hash
        /\ issued.information_package.log_head = sealed.log_head
        /\ issued.anchoring = AnchoringDocument(b)
    BY DocumentIs, Zenon
  <2>9. /\ issued.anchoring.status = b.status /\ issued.anchoring.log_id = b.log_id
        /\ issued.anchoring.receipt_id = b.receipt_seq
        /\ issued.anchoring.tree_size = b.tree_size /\ issued.anchoring.root = b.root
    BY <2>8, AnchoringDocumentIs, Zenon
  <2> HIDE DEF issued, ip, a, b
  <2>10. QED
    BY <2>6, <2>7, <2>8, <2>9, Zenon
<1>2. QED
  BY <1>1, NotaryInvAlways, PTL

\* A document carries a complete receipt or a reason
\* (anchor_summary_from_receipt, set_anchoring).
THEOREM ReceiptKeptAlways == ASSUME Apart PROVE Spec => []ReceiptKept
<1>1. ASSUME NotaryInv PROVE ReceiptKept
  <2> DEFINE a == copy.anchoring
             v == copy.receipt
             b == sealed.anchoring
  <2>1. SUFFICES ASSUME copy # None, ~forged
                 PROVE  IF a.status = "anchored"
                        THEN /\ \A f \in {"log_id", "tree_size", "root"} :
                                   Present(v[f]) /\ a[f] = v[f]
                             /\ Present(v.seq) \/ Present(v.receipt_id)
                             /\ a.receipt_id = IF Present(v.seq) THEN v.seq ELSE v.receipt_id
                             /\ a.logged_at = TimeText(TimeOf(v.logged_at))
                        ELSE Present(a.reason) /\ v = Null
    BY Zenon DEF ReceiptKept
  <2>2. copy = Document(sealed) /\ IsSealOf(sealed, under) /\ OwnDataPresent(sealed)
    BY <1>1, <2>1, IssuedCopy, Zenon
  <2>3. a = AnchoringDocument(b) /\ v = b.receipt
    BY <2>2, DocumentIs, Zenon
  <2>4. /\ a.status = b.status /\ a.reason = b.reason /\ a.log_id = b.log_id
        /\ a.receipt_id = b.receipt_seq /\ a.tree_size = b.tree_size /\ a.root = b.root
        /\ a.logged_at = DisplayOption(b.logged_at)
    BY <2>3, AnchoringDocumentIs, Zenon
  <2>5. \/ /\ b.status = "anchored" /\ b.logged_at \in Times
           /\ \E w \in Receipts : Summarizable(w) /\ b = Anchored(w, CoreStatement(sealed))
        \/ b.status = "unanchored" /\ Present(b.reason) /\ b.receipt = Null
    BY <2>2, OutcomeComplete, Zenon
  <2> HIDE DEF a, v, b
  <2>6. CASE b.status = "unanchored" /\ Present(b.reason) /\ b.receipt = Null
    BY <2>3, <2>4, <2>6, SMT
  <2>7. CASE /\ b.status = "anchored" /\ b.logged_at \in Times
             /\ \E w \in Receipts : Summarizable(w) /\ b = Anchored(w, CoreStatement(sealed))
    <3>1. PICK w \in Receipts : Summarizable(w) /\ b = Anchored(w, CoreStatement(sealed))
      BY <2>7
    <3>2. /\ b.log_id = w.log_id /\ b.tree_size = w.tree_size /\ b.root = w.root
          /\ b.receipt_seq = IF Present(w.seq) THEN w.seq ELSE w.receipt_id
          /\ b.logged_at = TimeOf(w.logged_at) /\ b.receipt = w
      BY <3>1 DEF Anchored
    <3>3. v = w
      BY <2>3, <3>2
    <3>4. /\ Present(w.log_id) /\ Present(w.tree_size) /\ Present(w.root)
          /\ Present(w.seq) \/ Present(w.receipt_id)
      BY <3>1, Zenon DEF Summarizable, HasPosition, HasHead
    <3>5. a.logged_at = TimeText(TimeOf(w.logged_at))
      BY <2>4, <2>7, <3>2, TimesAre, Zenon DEF DisplayOption
    <3>6. \A f \in {"log_id", "tree_size", "root"} : Present(v[f]) /\ a[f] = v[f]
      BY <2>4, <3>2, <3>3, <3>4, Zenon
    <3>7. QED
      BY <2>4, <2>7, <3>2, <3>3, <3>4, <3>5, <3>6, Zenon
  <2>8. QED
    BY <2>5, <2>6, <2>7, Zenon
<1>2. QED
  BY <1>1, NotaryInvAlways, PTL

\* The commitment in a document is the one the hop was called with, and can be
\* rebuilt from the document (seal, core_statement, the verifier's rebuild).
THEOREM CommitmentTrueAlways == ASSUME Apart PROVE Spec => []CommitmentTrue
<1>1. ASSUME NotaryInv PROVE CommitmentTrue
  <2>1. ASSUME stage \in {"sealed", "kept"}, sent # None PROVE rec.anchoring.commitment = sent
    <3>1. rec = sealed /\ sent = CoreStatement(sealed)
      BY <1>1, <2>1, Zenon DEF NotaryInv, StageInv
    <3>2. under \in Settings /\ IsSealed(sealed, under)
      BY <1>1, <2>1, Zenon DEF NotaryInv, StageInv, LineInv
    <3>3. sealed.anchoring.commitment = CoreStatement(sealed)
      BY <3>2, SealedIs, Zenon DEF IsSealOf
    <3>4. QED
      BY <3>1, <3>3
  <2>2. ASSUME copy # None, ~forged, Expressible(sealed.notarized_at)
        PROVE  /\ CoreReadable(copy)
               /\ copy.information_package.commitment = CoreFromDocument(copy)
    <3>1. copy = Document(sealed) /\ IsSealOf(sealed, under) /\ OwnDataPresent(sealed)
      BY <1>1, <2>2, IssuedCopy, Zenon
    <3>2. CoreReadable(copy) /\ CoreFromDocument(copy) = CoreStatement(sealed)
      BY <2>2, <3>1, DocumentRebuilds, Zenon
    <3>3. copy.information_package.commitment = sealed.anchoring.commitment
      BY <3>1, DocumentIs, Zenon
    <3>4. QED
      BY <3>1, <3>2, <3>3, Zenon DEF IsSealOf
  <2>3. QED
    BY <2>1, <2>2, Zenon DEF CommitmentTrue
<1>2. QED
  BY <1>1, NotaryInvAlways, PTL

-----------------------------------------------------------------------------
(* The hex codec.                                                          *)

Below == { p \in Nat \X Nat : p[1] < p[2] }

\* A set of numbers has a least one.
LEMMA Least ==
    ASSUME NEW S, S \subseteq Nat, S # {}
    PROVE  \E n \in S : \A m \in S : n <= m
<1>1. OpToRel(<, Nat) = Below
  BY DEF OpToRel, Below
<1>2. IsWellFoundedOn(Below, Nat)
  BY <1>1, NatLessThanWellFounded, Zenon
<1>3. \E x \in S : \A y \in S : ~ (<<y, x>> \in Below)
  BY <1>2, WFMin, Zenon
<1>4. \A x, y \in Nat : y < x => <<y, x>> \in Below
  BY SMT DEF Below
<1>5. \A x, y \in Nat : ~(y < x) => x <= y
  BY SMT
<1>6. QED
  BY <1>3, <1>4, <1>5, Zenon

\* A set of numbers up to n has a greatest one.
LEMMA Greatest ==
    ASSUME NEW n \in Nat, NEW S, S \subseteq 1 .. n, S # {}
    PROVE  \E m \in S : \A k \in S : k <= m
<1> DEFINE Gaps == { n - k : k \in S }
<1>1. Gaps \subseteq Nat /\ Gaps # {}
  <2>1. \A k \in 1 .. n : n - k \in Nat
    BY SMT
  <2>2. QED
    BY <2>1, Zenon
<1>2. PICK g \in Gaps : \A h \in Gaps : g <= h
  BY <1>1, Least, Zenon
<1>3. PICK m \in S : g = n - m
  BY <1>2
<1>4. ASSUME NEW k \in S PROVE k <= m
  <2>1. n - k \in Gaps
    OBVIOUS
  <2>2. n - m <= n - k
    BY <1>2, <1>3, <2>1, Zenon
  <2>3. QED
    BY <2>2, SMT
<1>5. QED
  BY <1>4

\* A piece of a text has the characters that the text has there.
LEMMA PieceIs ==
    ASSUME NEW s \in Seq(STRING), NEW m \in Nat, NEW n \in Nat, 1 <= m, n <= Len(s), m <= n + 1
    PROVE  /\ SubSeq(s, m, n) \in Seq(STRING) /\ Len(SubSeq(s, m, n)) = n - m + 1
           /\ \A i \in 1 .. n - m + 1 : SubSeq(s, m, n)[i] = s[m + i - 1]
  BY SMT

\* A piece of a piece is a piece.
LEMMA PieceOfPiece ==
    ASSUME NEW s \in Seq(STRING), NEW m \in Nat, NEW n \in Nat, 1 <= m, n <= Len(s), m <= n + 1,
           NEW i \in Nat, 1 <= i, i <= n - m + 2
    PROVE  SubSeq(SubSeq(s, m, n), i, n - m + 1) = SubSeq(s, m + i - 1, n)
<1> DEFINE p == SubSeq(s, m, n)
           a == SubSeq(p, i, n - m + 1)
           b == SubSeq(s, m + i - 1, n)
<1>1. p \in Seq(STRING) /\ Len(p) = n - m + 1 /\ \A j \in 1 .. n - m + 1 : p[j] = s[m + j - 1]
  BY PieceIs, SMT
<1>2. n - m + 1 \in Nat /\ m + i - 1 \in Nat /\ Len(s) \in Nat
  BY SMT
<1> HIDE DEF p
<1>3. /\ a \in Seq(STRING) /\ Len(a) = n - m + 1 - i + 1
      /\ \A j \in 1 .. n - m + 1 - i + 1 : a[j] = p[i + j - 1]
  BY <1>1, <1>2, PieceIs, SMT
<1>4. /\ b \in Seq(STRING) /\ Len(b) = n - (m + i - 1) + 1
      /\ \A j \in 1 .. n - (m + i - 1) + 1 : b[j] = s[m + i - 1 + j - 1]
  BY <1>2, PieceIs, SMT
<1> HIDE DEF a, b
<1>5. Len(a) = Len(b)
  BY <1>3, <1>4, SMT
<1>6. ASSUME NEW j \in 1 .. Len(a) PROVE a[j] = b[j]
  <2>1. j \in 1 .. n - m + 1 - i + 1 /\ j \in 1 .. n - (m + i - 1) + 1 /\ i + j - 1 \in 1 .. n - m + 1
    BY <1>3, SMT
  <2>2. a[j] = p[i + j - 1] /\ p[i + j - 1] = s[m + (i + j - 1) - 1] /\ b[j] = s[m + i - 1 + j - 1]
    BY <1>1, <1>3, <1>4, <2>1, Zenon
  <2>3. m + (i + j - 1) - 1 = m + i - 1 + j - 1
    BY <2>1, SMT
  <2>4. QED
    BY <2>2, <2>3
<1>7. QED
  BY <1>3, <1>4, <1>5, <1>6, SeqEqual, Zenon DEF a, b, p

\* Without its blanks, a text runs from its first to its last character.
Inked(text, first, last) ==
    /\ first \in 1 .. Len(text) /\ last \in 1 .. Len(text) /\ first <= last
    /\ text[first] # K!Blank /\ text[last] # K!Blank
    /\ K!BlankOutside(text, first - 1, last)

LEMMA TrimIs ==
    ASSUME NEW text \in Seq(STRING), NEW first, NEW last, Inked(text, first, last)
    PROVE  K!Trim(text) = SubSeq(text, first, last) /\ SubSeq(text, first, last) # <<>>
<1> DEFINE inked == { i \in DOMAIN text : text[i] # K!Blank }
<1>1. DOMAIN text = 1 .. Len(text) /\ Len(text) \in Nat
  BY LenProperties, Zenon
<1>2. first \in inked /\ last \in inked /\ \A i \in inked : first <= i /\ i <= last
  BY <1>1, SMT DEF Inked, K!BlankOutside
<1>3. inked \subseteq Nat
  BY <1>1, SMT
<1> HIDE DEF inked
<1>4. (CHOOSE i \in inked : \A j \in inked : i <= j) = first
  <2>1. \A i \in inked : (\A j \in inked : i <= j) => i = first
    BY <1>2, <1>3, SMT
  <2>2. QED
    BY <1>2, <2>1, Zenon
<1>5. (CHOOSE i \in inked : \A j \in inked : j <= i) = last
  <2>1. \A i \in inked : (\A j \in inked : j <= i) => i = last
    BY <1>2, <1>3, SMT
  <2>2. QED
    BY <1>2, <2>1, Zenon
<1>6. K!Trim(text) = SubSeq(text, first, last)
  BY <1>2, <1>4, <1>5, Zenon DEF K!Trim, inked
<1>7. Len(SubSeq(text, first, last)) # 0
  BY PieceIs, SMT DEF Inked
<1>8. Len(<<>>) = 0
  BY SMT
<1>9. QED
  BY <1>6, <1>7, <1>8, Zenon

\* A text of blanks only is trimmed to nothing, and any other text has a
\* first and a last character.
LEMMA TrimBlanks ==
    ASSUME NEW text \in Seq(STRING), \A i \in DOMAIN text : text[i] = K!Blank
    PROVE  K!Trim(text) = <<>>
  BY Zenon DEF K!Trim

LEMMA BlankOrInked ==
    ASSUME NEW text \in Seq(STRING)
    PROVE  \/ \A i \in DOMAIN text : text[i] = K!Blank
           \/ \E first, last \in 1 .. Len(text) : Inked(text, first, last)
<1> DEFINE inked == { i \in DOMAIN text : text[i] # K!Blank }
<1>1. DOMAIN text = 1 .. Len(text) /\ Len(text) \in Nat
  BY LenProperties, Zenon
<1>2. SUFFICES ASSUME inked # {}
               PROVE  \E first, last \in 1 .. Len(text) : Inked(text, first, last)
  OBVIOUS
<1>3. inked \subseteq 1 .. Len(text) /\ inked \subseteq Nat
  BY <1>1, SMT
<1>4. \A i \in 1 .. Len(text) : i \notin inked => text[i] = K!Blank
  BY <1>1, Zenon
<1>5. \A i \in inked : text[i] # K!Blank
  OBVIOUS
<1> HIDE DEF inked
<1>6. PICK first \in inked : \A i \in inked : first <= i
  BY <1>2, <1>3, Least, Zenon
<1>7. PICK last \in inked : \A i \in inked : i <= last
  BY <1>1, <1>2, <1>3, Greatest, Zenon
<1>8. first \in 1 .. Len(text) /\ last \in 1 .. Len(text) /\ first <= last
  BY <1>3, <1>6, <1>7, Zenon
<1>9. K!BlankOutside(text, first - 1, last)
  <2>1. SUFFICES ASSUME NEW i \in 1 .. Len(text), i <= first - 1 \/ last < i
                 PROVE  i \notin inked
    BY <1>1, <1>4, Zenon DEF K!BlankOutside
  <2>2. QED
    BY <1>1, <1>6, <1>7, <1>8, <2>1, SMT
<1>10. QED
  BY <1>5, <1>6, <1>7, <1>8, <1>9, Zenon DEF Inked

\* Trimming twice is trimming once.
LEMMA TrimTwice ==
    ASSUME NEW text \in Seq(STRING)
    PROVE  K!Trim(text) \in Seq(STRING) /\ K!Trim(K!Trim(text)) = K!Trim(text)
<1>1. CASE \A i \in DOMAIN text : text[i] = K!Blank
  <2>1. K!Trim(text) = <<>>
    BY <1>1, TrimBlanks, Zenon
  <2>2. <<>> \in Seq(STRING) /\ \A i \in DOMAIN <<>> : <<>>[i] = K!Blank
    BY SMT
  <2>3. K!Trim(<<>>) = <<>>
    BY <2>2, TrimBlanks, Zenon
  <2>4. QED
    BY <2>1, <2>2, <2>3, Zenon
<1>2. CASE \E first, last \in 1 .. Len(text) : Inked(text, first, last)
  <2>1. PICK first \in 1 .. Len(text), last \in 1 .. Len(text) : Inked(text, first, last)
    BY <1>2
  <2> DEFINE t == SubSeq(text, first, last)
             n == last - first + 1
  <2>2. K!Trim(text) = t
    BY <2>1, TrimIs, Zenon
  <2>3. /\ t \in Seq(STRING) /\ Len(t) = n /\ n \in Nat /\ 1 <= n
        /\ \A i \in 1 .. n : t[i] = text[first + i - 1]
    BY <2>1, PieceIs, SMT DEF Inked
  <2>4. first + 1 - 1 = first /\ first + n - 1 = last /\ 1 \in 1 .. n /\ n \in 1 .. n
    BY <2>1, <2>3, SMT DEF Inked
  <2> HIDE DEF t, n
  <2>5. t[1] # K!Blank /\ t[n] # K!Blank
    BY <2>1, <2>3, <2>4, Zenon DEF Inked
  <2>6. K!BlankOutside(t, 1 - 1, n)
    <3>1. DOMAIN t = 1 .. n
      BY <2>3, LenProperties, Zenon
    <3>2. QED
      BY <2>3, <3>1, SMT DEF K!BlankOutside
  <2>7. Inked(t, 1, n)
    BY <2>3, <2>4, <2>5, <2>6, SMT DEF Inked
  <2>8. K!Trim(t) = SubSeq(t, 1, n)
    BY <2>3, <2>7, TrimIs, Zenon
  <2>9. SubSeq(t, 1, n) = t
    BY <2>3, SMT
  <2>10. QED
    BY <2>2, <2>3, <2>8, <2>9, Zenon
<1>3. QED
  BY <1>1, <1>2, BlankOrInked, Zenon

\* What hex_decode looks at: the text without its blanks and its prefix.
Body(text) == K!WithoutPrefix(K!Trim(text))

Hexit(c) == \E v \in 0 .. 15 : K!IsNibble(c, v)

\* The hex digits, one by one.
LEMMA NibbleIs ==
    ASSUME NEW v \in 0 .. 15, NEW c, K!IsNibble(c, v)
    PROVE  c \in (CASE v = 0 -> {"0"} [] v = 1 -> {"1"} [] v = 2 -> {"2"} [] v = 3 -> {"3"}
                    [] v = 4 -> {"4"} [] v = 5 -> {"5"} [] v = 6 -> {"6"} [] v = 7 -> {"7"}
                    [] v = 8 -> {"8"} [] v = 9 -> {"9"} [] v = 10 -> {"a", "A"}
                    [] v = 11 -> {"b", "B"} [] v = 12 -> {"c", "C"} [] v = 13 -> {"d", "D"}
                    [] v = 14 -> {"e", "E"} [] v = 15 -> {"f", "F"})
  BY SMT DEF K!IsNibble, K!Lower, K!Upper

\* No blank and no x is a hex digit, and a hex digit has one value.
LEMMA HexitIs ==
    ASSUME NEW c, Hexit(c)
    PROVE  c # K!Blank /\ c # "x" /\ c # "X"
<1>1. PICK v \in 0 .. 15 : K!IsNibble(c, v)
  BY DEF Hexit
<1>2. QED
  BY <1>1, NibbleIs, SMT DEF K!Blank

LEMMA NibbleUnique ==
    ASSUME NEW c, NEW v \in 0 .. 15, K!IsNibble(c, v)
    PROVE  K!HexNibble(c) = v
<1>1. ASSUME NEW w \in 0 .. 15, K!IsNibble(c, w) PROVE w = v
  BY <1>1, NibbleIs, SMT
<1>2. QED
  BY <1>1, Zenon DEF K!HexNibble

\* A text's body follows its blanks and its prefix, and only blanks follow it.
LEMMA BodyIs ==
    ASSUME NEW text \in Seq(STRING)
    PROVE  /\ Body(text) \in Seq(STRING)
           /\ \E d \in 0 .. Len(text) :
                 /\ K!BodyAt(text, d, Len(Body(text)))
                 /\ \A k \in 1 .. Len(Body(text)) : Body(text)[k] = text[d + k]
<1>1. DOMAIN text = 1 .. Len(text) /\ Len(text) \in Nat
  BY LenProperties, Zenon
<1>2. CASE \A i \in DOMAIN text : text[i] = K!Blank
  <2>1. K!Trim(text) = <<>>
    BY <1>2, TrimBlanks, Zenon
  <2>2. Len(<<>>) = 0 /\ <<>> \in Seq(STRING)
    BY SMT
  <2>3. Body(text) = <<>>
    BY <2>1, <2>2, SMT DEF Body, K!WithoutPrefix
  <2>4. K!BodyAt(text, 0, 0)
    BY <1>1, <1>2, SMT DEF K!BodyAt, K!BlankOutside
  <2>5. QED
    BY <1>1, <2>2, <2>3, <2>4, SMT
<1>3. CASE \E first, last \in 1 .. Len(text) : Inked(text, first, last)
  <2>1. PICK first \in 1 .. Len(text), last \in 1 .. Len(text) : Inked(text, first, last)
    BY <1>3
  <2> DEFINE t == SubSeq(text, first, last)
             n == last - first + 1
  <2>2. K!Trim(text) = t
    BY <2>1, TrimIs, Zenon
  <2>3. /\ t \in Seq(STRING) /\ Len(t) = n /\ n \in Nat /\ 1 <= n
        /\ \A i \in 1 .. n : t[i] = text[first + i - 1]
    BY <2>1, PieceIs, SMT DEF Inked
  <2>4. first \in Nat /\ last \in Nat /\ first <= last /\ 1 <= first /\ last <= Len(text)
    BY <1>1, <2>1, SMT DEF Inked
  <2>5. K!BlankOutside(text, first - 1, last)
    BY <2>1, Zenon DEF Inked
  <2> HIDE DEF t
  <2>6. CASE n >= 2 /\ t[1] = "0" /\ t[2] \in {"x", "X"}
    <3>1. Body(text) = SubSeq(t, 3, n)
      BY <2>2, <2>3, <2>6, Zenon DEF Body, K!WithoutPrefix
    <3>2. SubSeq(t, 3, n) = SubSeq(text, first + 3 - 1, last)
      BY <1>1, <2>4, <2>6, PieceOfPiece, SMT DEF t
    <3>3. Body(text) = SubSeq(text, first + 2, last)
      BY <2>4, <3>1, <3>2, SMT
    <3>4. /\ Body(text) \in Seq(STRING) /\ Len(Body(text)) = last - (first + 2) + 1
          /\ \A i \in 1 .. last - (first + 2) + 1 : Body(text)[i] = text[first + 2 + i - 1]
      BY <2>4, <2>6, <3>3, PieceIs, SMT
    <3>5. t[1] = text[first] /\ t[2] = text[first + 1]
      BY <2>3, <2>4, <2>6, SMT
    <3> DEFINE d == first + 1
    <3>6. d \in 0 .. Len(text) /\ d + Len(Body(text)) = last /\ d - 2 = first - 1 /\ d - 1 = first /\ d >= 2
      BY <2>4, <2>6, <3>4, SMT
    <3>7. K!BodyAt(text, d, Len(Body(text)))
      BY <2>4, <2>5, <2>6, <3>5, <3>6, SMT DEF K!BodyAt
    <3>8. \A k \in 1 .. Len(Body(text)) : Body(text)[k] = text[d + k]
      BY <2>4, <3>4, SMT
    <3> HIDE DEF d
    <3>9. QED
      BY <3>4, <3>6, <3>7, <3>8, Zenon
  <2>7. CASE ~(n >= 2 /\ t[1] = "0" /\ t[2] \in {"x", "X"})
    <3>1. Body(text) = t
      BY <2>2, <2>3, <2>7, Zenon DEF Body, K!WithoutPrefix
    <3> DEFINE d == first - 1
    <3>2. d \in 0 .. Len(text) /\ d + n = last
      BY <2>4, SMT
    <3>3. K!BodyAt(text, d, n)
      BY <2>4, <2>5, <3>2, Zenon DEF K!BodyAt
    <3>4. \A k \in 1 .. n : t[k] = text[d + k]
      BY <2>3, <2>4, SMT
    <3> HIDE DEF d
    <3>5. QED
      BY <2>3, <3>1, <3>2, <3>3, <3>4, Zenon
  <2>8. QED
    BY <2>6, <2>7
<1>4. QED
  BY <1>2, <1>3, BlankOrInked, Zenon

\* Where hex digits stand between blanks or behind a prefix, they are the body.
LEMMA BodyUnique ==
    ASSUME NEW text \in Seq(STRING), NEW d \in 0 .. Len(text), NEW n \in Nat,
           K!BodyAt(text, d, n), \A k \in 1 .. n : Hexit(text[d + k])
    PROVE  Body(text) = SubSeq(text, d + 1, d + n)
<1>1. DOMAIN text = 1 .. Len(text) /\ Len(text) \in Nat /\ d \in Nat /\ d + n <= Len(text)
  BY LenProperties, SMT DEF K!BodyAt
<1>2. \A k \in 1 .. n : text[d + k] # K!Blank /\ text[d + k] \notin {"x", "X"}
  <2>1. \A c : Hexit(c) => c # K!Blank /\ c \notin {"x", "X"}
    BY HexitIs, Zenon
  <2>2. QED
    BY <2>1, Zenon
<1>3. CASE K!BlankOutside(text, d, d + n) /\ n = 0
  <2>1. \A i \in DOMAIN text : text[i] = K!Blank
    BY <1>1, <1>3, SMT DEF K!BlankOutside
  <2>2. K!Trim(text) = <<>>
    BY <2>1, TrimBlanks, Zenon
  <2>3. Body(text) = <<>>
    BY <2>2, SMT DEF Body, K!WithoutPrefix
  <2>4. SubSeq(text, d + 1, d + n) = <<>>
    BY <1>1, <1>3, SMT
  <2>5. QED
    BY <2>3, <2>4
<1>4. CASE K!BlankOutside(text, d, d + n) /\ n # 0
  <2>1. Inked(text, d + 1, d + n)
    BY <1>1, <1>2, <1>4, SMT DEF Inked
  <2> DEFINE t == SubSeq(text, d + 1, d + n)
  <2>2. K!Trim(text) = t
    BY <2>1, TrimIs, Zenon
  <2>3. Len(t) = n /\ (n >= 2 => t[2] = text[d + 2])
    <3>1. d + 1 \in Nat /\ d + n \in Nat /\ 1 <= d + 1 /\ (d + n) - (d + 1) + 1 = n
      BY <1>1, SMT
    <3>2. Len(t) = n /\ \A i \in 1 .. n : t[i] = text[d + 1 + i - 1]
      BY <1>1, <3>1, PieceIs, SMT
    <3> HIDE DEF t
    <3>3. QED
      BY <1>1, <3>2, SMT
  <2>4. n >= 2 => t[2] \notin {"x", "X"}
    BY <1>2, <2>3, SMT
  <2> HIDE DEF t
  <2>5. K!WithoutPrefix(t) = t
    BY <1>1, <2>3, <2>4, SMT DEF K!WithoutPrefix
  <2>6. QED
    BY <2>2, <2>5 DEF t, Body
<1>5. CASE d >= 2 /\ text[d - 1] = "0" /\ text[d] \in {"x", "X"} /\ K!BlankOutside(text, d - 2, d + n)
  <2>0. text[d] # K!Blank /\ text[d - 1] # K!Blank
    BY <1>5, SMT DEF K!Blank
  <2>1. Inked(text, d - 1, d + n)
    <3>1. text[d + n] # K!Blank
      BY <1>1, <1>2, <2>0, SMT
    <3>2. d - 1 - 1 = d - 2 /\ d - 1 \in 1 .. Len(text) /\ d + n \in 1 .. Len(text) /\ d - 1 <= d + n
      BY <1>1, <1>5, SMT
    <3>3. QED
      BY <1>5, <2>0, <3>1, <3>2, SMT DEF Inked
  <2> DEFINE t == SubSeq(text, d - 1, d + n)
  <2>2. K!Trim(text) = t
    BY <2>1, TrimIs, Zenon
  <2>3. Len(t) = n + 2 /\ t[1] = text[d - 1] /\ t[2] = text[d]
    <3>1. d - 1 \in Nat /\ d + n \in Nat /\ 1 <= d - 1
      BY <1>1, <1>5, SMT
    <3>2. Len(t) = (d + n) - (d - 1) + 1 /\ \A i \in 1 .. (d + n) - (d - 1) + 1 : t[i] = text[d - 1 + i - 1]
      BY <1>1, <3>1, PieceIs, SMT
    <3> HIDE DEF t
    <3>3. QED
      BY <1>1, <3>2, SMT
  <2>4. SubSeq(t, 3, n + 2) = SubSeq(text, d + 1, d + n)
    <3>1. d - 1 \in Nat /\ d + n \in Nat /\ 1 <= d - 1 /\ (d + n) - (d - 1) + 1 = n + 2 /\ d - 1 + 3 - 1 = d + 1
      BY <1>1, <1>5, SMT
    <3>2. SubSeq(t, 3, (d + n) - (d - 1) + 1) = SubSeq(text, d - 1 + 3 - 1, d + n)
      BY <1>1, <3>1, PieceOfPiece, SMT
    <3>3. QED
      BY <3>1, <3>2
  <2> HIDE DEF t
  <2>5. K!WithoutPrefix(t) = SubSeq(t, 3, n + 2)
    BY <1>5, <2>3, SMT DEF K!WithoutPrefix
  <2>6. QED
    BY <2>2, <2>4, <2>5 DEF Body
<1>6. QED
  BY <1>3, <1>4, <1>5, Zenon DEF K!BodyAt

\* The value of a hex digit, and of the k-th two digits after place d.
LEMMA HexNibbleIs ==
    ASSUME NEW c, Hexit(c)
    PROVE  K!HexNibble(c) \in 0 .. 15 /\ K!IsNibble(c, K!HexNibble(c))
<1>1. PICK v \in 0 .. 15 : K!IsNibble(c, v)
  BY DEF Hexit
<1>2. QED
  BY <1>1, NibbleUnique, Zenon

ByteAt(text, d, k) == 16 * K!HexNibble(text[d + 2 * k - 1]) + K!HexNibble(text[d + 2 * k])
DigitsFrom(text, d, m) == K!BodyAt(text, d, 2 * m) /\ \A k \in 1 .. 2 * m : Hexit(text[d + k])

\* Two digits are a byte.
LEMMA ByteIs ==
    ASSUME NEW text \in Seq(STRING), NEW d \in 0 .. Len(text), NEW m \in Nat,
           DigitsFrom(text, d, m), NEW k \in 1 .. m
    PROVE  /\ Hexit(text[d + 2 * k - 1]) /\ Hexit(text[d + 2 * k])
           /\ ByteAt(text, d, k) \in Nat
<1>1. Len(text) \in Nat
  BY LenProperties, Zenon
<1>2. /\ 2 * k - 1 \in 1 .. 2 * m /\ 2 * k \in 1 .. 2 * m
      /\ d + (2 * k - 1) = d + 2 * k - 1
  BY <1>1, SMT
<1>3. Hexit(text[d + (2 * k - 1)]) /\ Hexit(text[d + 2 * k])
  BY <1>2, Zenon DEF DigitsFrom
<1>4. Hexit(text[d + 2 * k - 1])
  BY <1>2, <1>3
<1>5. K!HexNibble(text[d + 2 * k - 1]) \in 0 .. 15 /\ K!HexNibble(text[d + 2 * k]) \in 0 .. 15
  BY <1>3, <1>4, HexNibbleIs, Zenon
<1>6. ByteAt(text, d, k) \in Nat
  <2>1. \A hi, lo \in 0 .. 15 : 16 * hi + lo \in Nat
    BY SMT
  <2>2. QED
    BY <1>5, <2>1, Zenon DEF ByteAt
<1>7. QED
  BY <1>3, <1>4, <1>6

\* A text whose body is made of digits, an even number of them, decodes to the
\* bytes they spell.
LEMMA Decodes ==
    ASSUME NEW text \in Seq(STRING), NEW d \in 0 .. Len(text), NEW m \in Nat,
           DigitsFrom(text, d, m)
    PROVE  /\ K!HexDecode(text) = [k \in 1 .. m |-> ByteAt(text, d, k)]
           /\ K!HexDecode(text) \in Seq(Nat) /\ Len(K!HexDecode(text)) = m
           /\ K!HexDecode(text) # Rejected
<1> DEFINE b == SubSeq(text, d + 1, d + 2 * m)
           bytes == [k \in 1 .. m |-> ByteAt(text, d, k)]
<1>1. Len(text) \in Nat /\ d \in Nat /\ 2 * m \in Nat /\ d + 2 * m <= Len(text)
  BY LenProperties, SMT DEF DigitsFrom, K!BodyAt
<1>2. Body(text) = b
  BY <1>1, BodyUnique, Zenon DEF DigitsFrom
<1>3. b \in Seq(STRING) /\ Len(b) = 2 * m /\ \A k \in 1 .. 2 * m : b[k] = text[d + k]
  <2>1. d + 1 \in Nat /\ d + 2 * m \in Nat /\ 1 <= d + 1 /\ d + 1 <= d + 2 * m + 1
        /\ (d + 2 * m) - (d + 1) + 1 = 2 * m
    BY <1>1, SMT
  <2>2. b \in Seq(STRING) /\ Len(b) = 2 * m /\ \A k \in 1 .. 2 * m : b[k] = text[d + 1 + k - 1]
    BY <1>1, <2>1, PieceIs, SMT
  <2>3. \A k \in 1 .. 2 * m : d + 1 + k - 1 = d + k
    BY <1>1, SMT
  <2>4. QED
    BY <2>2, <2>3, Zenon
<1> HIDE DEF b
<1>4. DOMAIN b = 1 .. 2 * m
  BY <1>3, LenProperties, Zenon
<1>5. \A i \in DOMAIN b : Hexit(b[i])
  BY <1>3, <1>4, Zenon DEF DigitsFrom
<1>6. Len(b) % 2 = 0 /\ Len(b) \div 2 = m
  BY <1>3, SMT
<1>7. K!HexDecode(text) =
         [k \in 1 .. Len(b) \div 2 |-> 16 * K!HexNibble(b[2 * k - 1]) + K!HexNibble(b[2 * k])]
  BY <1>2, <1>5, <1>6, Zenon DEF K!HexDecode, Body, Hexit
<1>8. \A k \in 1 .. m : 16 * K!HexNibble(b[2 * k - 1]) + K!HexNibble(b[2 * k]) = ByteAt(text, d, k)
  <2>1. TAKE k \in 1 .. m
  <2>2. /\ 2 * k - 1 \in 1 .. 2 * m /\ 2 * k \in 1 .. 2 * m
        /\ d + (2 * k - 1) = d + 2 * k - 1
    BY <1>1, SMT
  <2>3. b[2 * k - 1] = text[d + (2 * k - 1)] /\ b[2 * k] = text[d + 2 * k]
    BY <1>3, <2>2, Zenon
  <2>4. QED
    BY <2>2, <2>3 DEF ByteAt
<1>9. K!HexDecode(text) = bytes
  BY <1>6, <1>7, <1>8, Zenon
<1>10. \A k \in 1 .. m : ByteAt(text, d, k) \in Nat
  BY ByteIs, Zenon
<1>11. bytes \in Seq(Nat) /\ Len(bytes) = m
  <2> DEFINE byte(k) == ByteAt(text, d, k)
  <2>1. \A k \in 1 .. m : byte(k) \in Nat
    BY <1>10
  <2> HIDE DEF byte
  <2>2. [k \in 1 .. m |-> byte(k)] \in Seq(Nat) /\ Len([k \in 1 .. m |-> byte(k)]) = m
    BY <2>1, SMT
  <2>3. QED
    BY <2>2 DEF byte
<1> HIDE DEF bytes
<1>12. bytes # Rejected
  BY <1>11, NotaryAssumption, Zenon
<1>13. QED
  BY <1>9, <1>11, <1>12, Zenon DEF bytes

\* A text that decodes has such a body.
LEMMA Decoded ==
    ASSUME NEW text \in Seq(STRING), K!HexDecode(text) # Rejected
    PROVE  \E d \in 0 .. Len(text), m \in Nat : DigitsFrom(text, d, m)
<1> DEFINE b == Body(text)
           m == Len(b) \div 2
<1>1. Len(b) % 2 = 0 /\ \A i \in DOMAIN b : Hexit(b[i])
  BY Zenon DEF K!HexDecode, Body, Hexit
<1>2. b \in Seq(STRING)
  BY BodyIs, Zenon
<1>3. PICK d \in 0 .. Len(text) :
         K!BodyAt(text, d, Len(b)) /\ \A k \in 1 .. Len(b) : b[k] = text[d + k]
  BY BodyIs, Zenon
<1>4. DOMAIN b = 1 .. Len(b) /\ Len(b) \in Nat
  BY <1>2, LenProperties, Zenon
<1> HIDE DEF b
<1>5. m \in Nat /\ Len(b) = 2 * m
  <2>1. \A n \in Nat : n % 2 = 0 => n \div 2 \in Nat /\ n = 2 * (n \div 2)
    BY SMT
  <2>2. QED
    BY <1>1, <1>4, <2>1, Zenon
<1> HIDE DEF m
<1>6. DigitsFrom(text, d, m)
  BY <1>1, <1>3, <1>4, <1>5, Zenon DEF DigitsFrom
<1>7. QED
  BY <1>5, <1>6

\* The codec is right: a text decodes to some bytes if and only if it spells
\* them, whatever the case of its digits, its prefix and the blanks around it
\* (hex_decode, hex_nibble).
THEOREM HexCodecRight ==
    ASSUME NEW text \in Seq(STRING), NEW bytes \in Seq(Nat)
    PROVE  K!HexDecode(text) = bytes <=> K!Spells(text, bytes)
<1>1. Len(text) \in Nat /\ Len(bytes) \in Nat /\ DOMAIN bytes = 1 .. Len(bytes)
  BY LenProperties, Zenon
<1>2. ASSUME K!HexDecode(text) = bytes PROVE K!Spells(text, bytes)
  <2>1. K!HexDecode(text) # Rejected
    BY <1>2, NotaryAssumption, Zenon
  <2>2. PICK d \in 0 .. Len(text), m \in Nat : DigitsFrom(text, d, m)
    BY <2>1, Decoded, Zenon
  <2>3. bytes = [k \in 1 .. m |-> ByteAt(text, d, k)] /\ Len(bytes) = m
    BY <1>2, <2>2, Decodes, Zenon
  <2>4. ASSUME NEW k \in DOMAIN bytes
        PROVE  \E hi, lo \in 0 .. 15 :
                  /\ K!IsNibble(text[d + 2 * k - 1], hi) /\ K!IsNibble(text[d + 2 * k], lo)
                  /\ bytes[k] = 16 * hi + lo
    <3>1. k \in 1 .. m
      BY <1>1, <2>3, <2>4, Zenon
    <3>2. Hexit(text[d + 2 * k - 1]) /\ Hexit(text[d + 2 * k])
      BY <2>2, <3>1, ByteIs, Zenon
    <3>3. bytes[k] = ByteAt(text, d, k)
      BY <2>3, <3>1, Zenon
    <3>4. QED
      BY <3>2, <3>3, HexNibbleIs, Zenon DEF ByteAt
  <2>5. K!BodyAt(text, d, 2 * Len(bytes))
    BY <2>2, <2>3 DEF DigitsFrom
  <2>6. QED
    BY <2>4, <2>5, Zenon DEF K!Spells
<1>3. ASSUME K!Spells(text, bytes) PROVE K!HexDecode(text) = bytes
  <2> DEFINE m == Len(bytes)
  <2>1. PICK d \in 0 .. Len(text) :
           /\ K!BodyAt(text, d, 2 * m)
           /\ \A k \in DOMAIN bytes : \E hi, lo \in 0 .. 15 :
                 /\ K!IsNibble(text[d + 2 * k - 1], hi) /\ K!IsNibble(text[d + 2 * k], lo)
                 /\ bytes[k] = 16 * hi + lo
    BY <1>3, Zenon DEF K!Spells
  <2>2. \A k \in 1 .. m : Hexit(text[d + 2 * k - 1]) /\ Hexit(text[d + 2 * k])
    BY <1>1, <2>1, Zenon DEF Hexit
  <2>3. ASSUME NEW i \in 1 .. 2 * m PROVE Hexit(text[d + i])
    <3>1. \E k \in 1 .. m : d + i = d + 2 * k - 1 \/ d + i = d + 2 * k
      <4>1. CASE i % 2 = 0
        <5>1. i \div 2 \in 1 .. m /\ d + i = d + 2 * (i \div 2)
          BY <1>1, <4>1, SMT
        <5>2. QED
          BY <5>1
      <4>2. CASE i % 2 # 0
        <5>1. (i + 1) \div 2 \in 1 .. m /\ d + i = d + 2 * ((i + 1) \div 2) - 1
          BY <1>1, <4>2, SMT
        <5>2. QED
          BY <5>1
      <4>3. QED
        BY <4>1, <4>2
    <3>2. QED
      BY <2>2, <3>1, Zenon
  <2>4. DigitsFrom(text, d, m)
    BY <2>1, <2>3, Zenon DEF DigitsFrom
  <2>5. /\ K!HexDecode(text) = [k \in 1 .. m |-> ByteAt(text, d, k)]
        /\ K!HexDecode(text) \in Seq(Nat) /\ Len(K!HexDecode(text)) = m
    BY <1>1, <2>4, Decodes, Zenon
  <2>6. ASSUME NEW k \in 1 .. m PROVE K!HexDecode(text)[k] = bytes[k]
    <3>1. PICK hi \in 0 .. 15, lo \in 0 .. 15 :
             /\ K!IsNibble(text[d + 2 * k - 1], hi) /\ K!IsNibble(text[d + 2 * k], lo)
             /\ bytes[k] = 16 * hi + lo
      BY <1>1, <2>1, Zenon
    <3>2. ByteAt(text, d, k) = 16 * hi + lo
      BY <3>1, NibbleUnique, Zenon DEF ByteAt
    <3>3. QED
      BY <2>5, <3>1, <3>2, Zenon
  <2>7. QED
    BY <2>5, <2>6, SeqEqual, Zenon
<1>4. QED
  BY <1>2, <1>3

\* A text decodes to n bytes or more if and only if it spells as many.
LEMMA LongDecode ==
    ASSUME NEW text \in Seq(STRING), NEW n \in Nat
    PROVE  K!SpellsAtLeast(text, n) <=>
              /\ K!HexDecode(text) # Rejected
              /\ K!HexDecode(text) \in Seq(Nat) /\ Len(K!HexDecode(text)) >= n
<1>1. Len(text) \in Nat
  BY LenProperties, Zenon
<1>2. K!SpellsAtLeast(text, n) <=>
         \E d \in 0 .. Len(text), m \in n .. Len(text) : DigitsFrom(text, d, m)
  BY Zenon DEF K!SpellsAtLeast, DigitsFrom, Hexit
<1>3. \A m \in n .. Len(text) : m \in Nat /\ m >= n
  BY <1>1, SMT
<1>4. \A d \in 0 .. Len(text), m \in Nat : DigitsFrom(text, d, m) /\ m >= n => m \in n .. Len(text)
  BY <1>1, SMT DEF DigitsFrom, K!BodyAt
<1>5. ASSUME K!SpellsAtLeast(text, n)
      PROVE  /\ K!HexDecode(text) # Rejected
             /\ K!HexDecode(text) \in Seq(Nat) /\ Len(K!HexDecode(text)) >= n
  BY <1>2, <1>3, <1>5, Decodes, Zenon
<1>6. ASSUME K!HexDecode(text) # Rejected, Len(K!HexDecode(text)) >= n
      PROVE  K!SpellsAtLeast(text, n)
  <2>1. PICK d \in 0 .. Len(text), m \in Nat : DigitsFrom(text, d, m)
    BY <1>6, Decoded, Zenon
  <2>2. Len(K!HexDecode(text)) = m
    BY <2>1, Decodes, Zenon
  <2>3. QED
    BY <1>2, <1>4, <1>6, <2>1, <2>2, Zenon
<1>7. QED
  BY <1>5, <1>6, Zenon

-----------------------------------------------------------------------------
(* The notary key.                                                         *)

\* A development seed is named by what is left of it without its blanks.
LEMMA NameIs ==
    ASSUME NEW text \in Seq(STRING)
    PROVE  IF K!BlankOutside(text, 0, 0)
           THEN K!Trim(text) = <<>>
           ELSE K!Trim(text) # <<>> /\ K!Names(text, K!Trim(text))
<1>1. DOMAIN text = 1 .. Len(text) /\ Len(text) \in Nat
  BY LenProperties, Zenon
<1>2. K!BlankOutside(text, 0, 0) <=> \A i \in DOMAIN text : text[i] = K!Blank
  BY <1>1, SMT DEF K!BlankOutside
<1>3. ASSUME NEW first \in 1 .. Len(text), NEW last \in 1 .. Len(text), Inked(text, first, last)
      PROVE  K!Trim(text) # <<>> /\ K!Names(text, K!Trim(text))
  <2>1. K!Trim(text) = SubSeq(text, first, last) /\ SubSeq(text, first, last) # <<>>
    BY <1>3, TrimIs, Zenon
  <2>2. QED
    BY <1>1, <1>3, <2>1, Zenon DEF Inked, K!Names
<1>4. QED
  BY <1>2, <1>3, BlankOrInked, TrimBlanks, Zenon

\* The development key is named by its seed, or by the fallback (Keyring::dev).
LEMMA DevIs ==
    ASSUME NEW seed \in Seq(STRING) \cup {Null}
    PROVE  LET key == K!Dev(seed).key
           IN  /\ DOMAIN key = {"dev"}
               /\ IF seed # Null /\ ~K!BlankOutside(seed, 0, 0)
                  THEN K!Names(seed, key.dev)
                  ELSE key.dev = DefaultDevSeed
<1> DEFINE named == IF seed # Null /\ K!Trim(seed) # <<>> THEN K!Trim(seed) ELSE DefaultDevSeed
           key == K!Dev(seed).key
<1>1. key = [dev |-> named]
  BY SMT DEF K!Dev
<1>2. IF seed # Null /\ ~K!BlankOutside(seed, 0, 0)
      THEN K!Names(seed, named)
      ELSE named = DefaultDevSeed
  BY NameIs, Zenon
<1> HIDE DEF named, key
<1>3. DOMAIN key = {"dev"} /\ key.dev = named
  BY <1>1, SMT
<1>4. QED
  BY <1>2, <1>3, Zenon DEF key

\* The operator's seed is taken if and only if it spells enough bytes
\* (Keyring::from_env_seed).
LEMMA EnvSeedIs ==
    ASSUME NEW text \in Seq(STRING)
    PROVE  IF K!SpellsAtLeast(text, MinSeedBytes)
           THEN /\ K!FromEnvSeed(text) # Rejected /\ K!Trim(text) # <<>>
                /\ K!FromEnvSeed(text).key = [raw |-> K!HexDecode(text)]
                /\ K!Spells(text, K!HexDecode(text))
           ELSE K!FromEnvSeed(text) = Rejected
<1> DEFINE seed == K!HexDecode(text)
<1>1. K!HexDecode(K!Trim(text)) = seed
  BY TrimTwice, Zenon DEF K!HexDecode
<1>2. MinSeedBytes \in Nat /\ MinSeedBytes # 0 /\ Rejected \notin Seq(Nat)
      /\ Rejected \notin [mode : {"env-key"}, key : [raw : Seq(Nat)], dev_seed : {Null}]
  BY NotaryAssumption, Zenon
<1>3. K!SpellsAtLeast(text, MinSeedBytes) <=>
         seed # Rejected /\ seed \in Seq(Nat) /\ Len(seed) >= MinSeedBytes
  BY <1>2, LongDecode, Zenon
<1>4. seed # Rejected => seed \in Seq(Nat)
  BY Decoded, Decodes, Zenon
<1> DEFINE ring == [mode |-> "env-key", key |-> [raw |-> seed], dev_seed |-> Null]
<1>5. K!FromEnvSeed(text) =
         IF seed # Rejected /\ Len(seed) >= MinSeedBytes THEN ring ELSE Rejected
  BY <1>1, Zenon DEF K!FromEnvSeed, K!LongEnough
<1>6. CASE K!SpellsAtLeast(text, MinSeedBytes)
  <2>1. K!FromEnvSeed(text) = ring /\ seed \in Seq(Nat)
    BY <1>3, <1>5, <1>6, Zenon
  <2>2. K!Spells(text, seed)
    BY <2>1, HexCodecRight, Zenon
  <2>3. K!Trim(text) # <<>>
    <3>1. SUFFICES ASSUME K!Trim(text) = <<>> PROVE FALSE
      OBVIOUS
    <3>2. Body(text) = <<>>
      BY <3>1, SMT DEF Body, K!WithoutPrefix
    <3>3. \A n : n \in Nat /\ n # 0 => ~(0 >= n)
      BY SMT
    <3>4. seed = [k \in 1 .. 0 |-> k]
      <4>1. Len(<<>>) % 2 = 0 /\ Len(<<>>) \div 2 = 0 /\ DOMAIN <<>> = {} /\ 1 .. 0 = {}
        BY SMT
      <4>2. seed = [k \in 1 .. Len(<<>>) \div 2 |->
                      16 * K!HexNibble(<<>>[2 * k - 1]) + K!HexNibble(<<>>[2 * k])]
        BY <3>2, <4>1, Zenon DEF K!HexDecode, Body
      <4>3. QED
        BY <4>1, <4>2, Zenon
    <3>5. Len([k \in 1 .. 0 |-> k]) = 0
      BY SMT
    <3> HIDE DEF seed
    <3>6. QED
      BY <1>2, <1>3, <1>6, <3>3, <3>4, <3>5, Zenon
  <2> HIDE DEF seed
  <2>4. ring \in [mode : {"env-key"}, key : [raw : Seq(Nat)], dev_seed : {Null}]
    BY <2>1, SMT
  <2>5. ring.key = [raw |-> seed]
    OBVIOUS
  <2> HIDE DEF ring
  <2>6. QED
    BY <1>2, <1>6, <2>1, <2>2, <2>3, <2>4, <2>5, Zenon DEF seed
<1>7. CASE ~K!SpellsAtLeast(text, MinSeedBytes)
  <2>1. ~(seed # Rejected /\ Len(seed) >= MinSeedBytes)
    BY <1>3, <1>4, <1>7, Zenon
  <2> HIDE DEF seed, ring
  <2>2. K!FromEnvSeed(text) = Rejected
    BY <1>5, <2>1, Zenon
  <2>3. QED
    BY <1>7, <2>2, Zenon
<1>8. QED
  BY <1>6, <1>7

\* The key of an environment is the right one, whatever the environment.
LEMMA SignerRight ==
    ASSUME NEW e \in Settings
    PROVE  KeyRight(e, KeyringOf(e).key)
<1>1. e.sign_seed \in Seq(STRING) \cup {Null} /\ e.dev_seed \in Seq(STRING) \cup {Null}
  BY NotaryAssumption, Zenon
<1>2. CASE e.sign_seed # Null /\ K!SpellsAtLeast(e.sign_seed, MinSeedBytes)
  <2> DEFINE seed == K!HexDecode(e.sign_seed)
             key == KeyringOf(e).key
  <2>1. e.sign_seed \in Seq(STRING)
    BY <1>1, <1>2, Zenon
  <2>2. /\ K!FromEnvSeed(e.sign_seed) # Rejected /\ K!Trim(e.sign_seed) # <<>>
        /\ K!FromEnvSeed(e.sign_seed).key = [raw |-> seed]
        /\ K!Spells(e.sign_seed, seed)
    BY <1>2, <2>1, EnvSeedIs, Zenon
  <2>3. key = [raw |-> seed]
    BY <1>2, <2>2, Zenon DEF KeyringOf, K!FromEnvMap
  <2> HIDE DEF seed, key
  <2>4. DOMAIN key = {"raw"} /\ key.raw = seed
    BY <2>3, SMT
  <2>5. QED
    BY <1>2, <2>2, <2>4, Zenon DEF KeyRight, key
<1>3. CASE ~(e.sign_seed # Null /\ K!SpellsAtLeast(e.sign_seed, MinSeedBytes))
  <2>1. KeyringOf(e) = K!Dev(e.dev_seed)
    BY <1>1, <1>3, EnvSeedIs, Zenon DEF KeyringOf, K!FromEnvMap
  <2>2. QED
    BY <1>1, <1>3, <2>1, DevIs, Zenon DEF KeyRight
<1>4. QED
  BY <1>2, <1>3

\* A record is sealed in the settings of its process, with an outcome of the
\* hop, and no later process, line or copy changes what was sealed.
SealInv ==
    /\ ProcessInv
    /\ stage = "reserved" => IsNew(rec) /\ sent = CoreStatement(rec)
    /\ stage = "attempted" => IsAttempt(rec)
    /\ sealed # None => under \in Settings /\ IsSealed(sealed, under)

LEMMA SealInvNext ==
    ASSUME SealInv, [Next]_vars
    PROVE  SealInv'
<1>1. CASE \E sip \in Submissions, at \in Instants : Reserve(sip, at)
  <2>1. PICK sip \in Submissions, at \in Instants : Reserve(sip, at)
    BY <1>1
  <2>2. IsNew(rec') /\ sent' = CoreStatement(rec') /\ stage' = "reserved"
    BY <2>1, Zenon DEF Reserve, IsNew
  <2>3. QED
    BY <2>1, <2>2, SMT DEF SealInv, ProcessInv, Reserve, process, history, IsNew
<1>2. CASE HopFails \/ \E v \in Receipts : ReceiptArrives(v)
  <2>1. PICK a \in Outcomes(sent) : stage = "reserved" /\ SetAnchoring(a)
    BY <1>2, HopIs, Zenon
  <2>2. PICK sip \in Submissions, at \in Instants : rec = New(Due, at, sip)
    BY <2>1, Zenon DEF SealInv, IsNew
  <2>3. sent = CoreStatement(New(Due, at, sip))
    BY <2>1, <2>2, Zenon DEF SealInv
  <2>4. rec' = Attempt(sip, at, a)
    BY <2>1, <2>2, Zenon DEF SetAnchoring, Attempt
  <2>5. IsAttempt(rec') /\ stage' = "attempted"
    BY <2>1, <2>3, <2>4, Zenon DEF IsAttempt, SetAnchoring
  <2>6. QED
    BY <2>1, <2>5, SMT DEF SealInv, ProcessInv, SetAnchoring, process, history, IsAttempt
<1>3. CASE SealRecord
  <2>1. PICK sip \in Submissions, at \in Instants :
           \E a \in Outcomes(CoreStatement(New(Due, at, sip))) : rec = Attempt(sip, at, a)
    BY <1>3, Zenon DEF SealInv, SealRecord, IsAttempt
  <2>2. PICK a \in Outcomes(CoreStatement(New(Due, at, sip))) : rec = Attempt(sip, at, a)
    BY <2>1
  <2>3. /\ sealed' = SealedIn(Attempt(sip, at, a), settings) /\ under' = settings
        /\ stage' = "sealed" /\ settings \in Settings
    BY <1>3, <2>2, Zenon DEF SealRecord, SealedIn, SealInv, ProcessInv
  <2>4. under' \in Settings /\ IsSealed(sealed', under')
    BY <2>3, Zenon DEF IsSealed
  <2>5. ProcessInv'
    BY <1>3, SMT DEF SealInv, ProcessInv, SealRecord, process
  <2>6. QED
    BY <2>3, <2>4, <2>5, SMT DEF SealInv
<1>4. CASE \E e \in Settings : Restart(e)
  <2>1. PICK e \in Settings : Restart(e)
    BY <1>4
  <2>2. ProcessInv'
    BY <2>1 DEF ProcessInv, Restart
  <2>3. stage' \in {"ready", "kept", "refused", "skipped"} /\ UNCHANGED history
    BY <2>1, SMT DEF Restart, WithoutIt
  <2>4. QED
    BY <2>2, <2>3, SMT DEF SealInv, history
<1>5. CASE Keep
  BY <1>5, SMT DEF SealInv, ProcessInv, Keep, process, history
<1>6. CASE Fetch \/ PinKeyring \/ AlterLine \/ AlterCopy \/ UNCHANGED vars
  <2>1. UNCHANGED <<process, snapshot, history>>
    BY <1>6, Zenon DEF Fetch, PinKeyring, AlterLine, AlterCopy, vars
  <2>2. QED
    BY <2>1, SMT DEF SealInv, ProcessInv, process, snapshot, history
<1>7. QED
  BY <1>1, <1>2, <1>3, <1>4, <1>5, <1>6, Zenon DEF Next

\* A snapshot is signed with the operator's own seed whenever the settings of
\* its process spell one that is long enough, and only then
\* (Keyring::from_env_map, from_env_seed, dev, hex_decode, seal).
THEOREM OperatorsKeyAlways == Spec => []OperatorsKey
<1>1. Init => SealInv
  BY SMT DEF Init, SealInv, ProcessInv
<1>2. SealInv /\ [Next]_vars => SealInv'
  BY SealInvNext
<1>3. SealInv => OperatorsKey
  <2>1. SUFFICES ASSUME sealed # None, under \in Settings, IsSealed(sealed, under)
                 PROVE  OperatorsKey
    BY Zenon DEF SealInv, OperatorsKey
  <2>2. sealed.signature = [key |-> Signer(under), over |-> Statement(sealed)]
    BY <2>1, SealedIs, Zenon DEF IsSealOf
  <2>3. sealed.signature.key = KeyringOf(under).key
    BY <2>2 DEF Signer
  <2>4. KeyRight(under, sealed.signature.key)
    BY <2>1, <2>3, SignerRight, Zenon
  <2>5. QED
    BY <2>4, Zenon DEF KeyRight, OperatorsKey
<1>4. QED
  BY <1>1, <1>2, <1>3, PTL DEF Spec

=============================================================================
