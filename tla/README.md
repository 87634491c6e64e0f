# Formal models of unidpp-archive

TLA+ models of the passport archive service in `src/` (a Rust crate: an
axum service that notarizes *snapshots* of digital product passports,
anchors them to a transparency log, stores them durably and serves them
byte-identically), TLC runs that check them on small instances, and TLAPS
proofs of the safety properties for every value of the constants. File
references below are to `src/src/` unless a directory is given.

## 1. The system

| Component | State it keeps | Operations | Works with |
|---|---|---|---|
| **Snapshot store** `store.rs` | `records` (index in memory), the JSONL journal, one AIP file per snapshot | `open` (replay, then file verification), `reserve`, `append_snapshot`, `get`, `list`, `audit_json` | called under a mutex by the handlers; the file system |
| **Create flow** `api.rs` `create_snapshot` | the async mutation lock; per request the record it is building | validate, lock, reserve, anchor, seal, append, answer | store, keyring, anchoring hop, clock |
| **Catalogue and access reads** `api.rs` | none | `GET /snapshots`, `/snapshots/{id}`, `/admin/log`, `/healthz`, `/` | store, between the steps of creates |
| **Anchoring hop** `log_anchor.rs`, `Anchoring` in `model.rs` | none (one request in flight) | `anchor`, reading a receipt | the transparency log, over the HTTP client |
| **HTTP client** `http.rs` | the bytes read so far | `request`, `decode_chunked_body` | the hop and its timeout |
| **Record, statement, document** `model.rs` | the record | `commitment`, `seal`, `to_document`, journal line out and in, verifier-side rebuild | store, create flow |
| **Timestamps** `time.rs` | none | `now`, `parse`, `Display`, calendar arithmetic | record, listings |
| **Keyring** `keyring.rs` | the signing key of a process | mode resolution, sign, `/keyring` | create flow, verifiers |
| **Hex, configuration, start-up, contract document** | none | conversions, environment parsing, static documents | – |

What makes each of them correct, and what is hard about it:

* **Store.** A snapshot that was published is served again, the same
  bytes, by every later process; every start succeeds unless something
  really is corrupt; nothing that was not sealed is ever served. Hard,
  because an append is three separate writes (journal line, AIP file,
  index) and the process, a write or the disk can fail between or inside
  them, because replay must tell an interruption from corruption, and
  because another renderer may replay the journal.
* **Create flow.** A sequence number and an instant are reserved *before*
  an `await` on a remote service and used *after* it. Numbers must not
  clash, an answer 201 must be exactly one record, a receipt must belong to
  its record, and a hanging log must not stop the service. Clients may
  disconnect at either `await`, which drops the handler where it stands.
* **Reads.** A listing takes only the store mutex, so it happens at any
  moment of a create; the code marks answers with `?at=` as immutable.
* **Hop and client.** Every failure must end in an explicit `unanchored`,
  and a commitment may be sequenced after the archive stopped waiting.
* **Record and keyring.** The same facts are written four times (commitment,
  signed statement, document, journal line) and read back by two readers.
  What the line loses or the digest does not see changes a snapshot silently;
  what writer and verifier cover differently breaks every signature or lets a
  field be changed; and a restart may sign with another key.
* **All together.** A process may die anywhere in a create, with its
  commitment still under way; the number is given out again, the client sends
  the submission again, and a reader of the audit journal is between two pages.

## 2. Modules

| Module | Kind | What it is |
|---|---|---|
| `Archive` | abstract specification | the promise: an append-only sequence of packages, served as kept |
| `SnapshotStore` | detailed specification | `store.rs`, one process and its disk, with faults |
| `ArchiveApi` | detailed specification | concurrent creates, listings, the log, the clock |
| `HttpClient` | detailed specification | one exchange of `http.rs`, byte by byte, and what the hop makes of its result |
| `ArchiveService` | composition | the create flow driving `SnapshotStore` step by step, through deaths and restarts; repeated submissions, the log, pages of `/admin/log` |
| `Keyring` | operators | `keyring.rs` and the codec of `hex.rs` |
| `SnapshotModel` | operators | `model.rs`: what receipt, statement, document and journal line carry, and their readers |
| `Notary` | detailed specification | one snapshot from its reservation to a verifier, across processes with other settings, over the two modules before |
| `Timestamp` | operators | the calendar arithmetic, `Display` and `parse` of `time.rs` |
| `MCSnapshotStore`, `MCArchiveApi`, `MCArchiveService` | model checking | named fault sets, requests and symmetry for the `.cfg` files |
| `MCNotary` | model checking | the receipts, field values and settings of `package`, with the instants of `Timestamp`; the hex codec on all short texts |
| `MCHttpClient` | model checking | the responses a server may send, with every way to chunk them |
| `MCTimestamp` | model checking | a walk day by day, the reference that `Timestamp` is compared with |
| `SnapshotStoreProofs` | proofs | what the store guarantees under *every* combination of faults |
| `SnapshotStoreCrashProofs` | proofs | what it guarantees when lines (and files) are written whole; refinement of `Archive` |
| `SnapshotStoreDamageProofs` | proofs | that no damage puts another package under a published id whose journal line can be read |
| `ArchiveApiProofs` | proofs | the safety of the request flows |
| `ArchiveServiceProofs` | proofs | the service uses the store as specified, and its five properties |
| `NotaryProofs` | proofs | the six properties of a snapshot's record, line and document, for any number of alterations |
| `HttpClientProofs` | proofs | the chunked decoder on every coding, and the five safety properties of an exchange |
| `TimestampProofs` | proofs | the calendar arithmetic on every integer day, and the properties of the walk |

Definitions with a suffix after an underscore (`DigestMatches_Unchecked`,
`LockFree_Always`, `Replayed_DropsLast`, ...) are deliberately wrong
variants of the definition that follows them; no specification uses them.
Each stands for a plausible bug, and with it in place of the right one a
property named in `PROJECT.json` must fail: that is how we know that the
property says something about the code.

### 2.1 SnapshotStore

State: `journal` (a sequence of lines, each a whole record, `Garbled`,
`BadUtf8` or `BlankLine`) and `tailOpen` (its last line lacks the newline) are the journal
file; `files` the AIP directory; `records` the index; `phase` is where the
process is; `cur` the argument of the running `append_snapshot`; `cursor` the
loop index of `verify_snapshot_files`; `build` the renderer of the process.
`published` and `accepted` are histories: what a reader may have received,
and what passed `append_snapshot`'s checks.

| Action | Code |
|---|---|
| `Replay`, `RefuseJournal` | `open` → `replay` (106–161): the sequence check, the digest check, the tolerated torn tail (a blank last line is none), the UTF-8 error; with `io_error` also the failure to open or read the file (85–123) |
| `FileMatches`, `Rematerialize`, `RefuseFile`, `RematerializeFails` | one turn of `verify_snapshot_files` (166–198) each |
| `Opened` | `open` returns; reads may begin |
| `AppendSnapshot` | `append_snapshot`'s two checks (212–224) |
| `WriteLine`, `WriteFile`, `Push` | its three effects (225–243), each a step so that faults fall between them |
| `LineFails`, `FileFails` | its two `?` error exits, with whatever the failed write left |
| `Stop`, `Crash`, `CrashInLine`, `CrashInFile`, `CrashInRematerialize`, `PowerLoss` | the end of the process, between or inside writes; a power loss cuts the journal off behind a line or inside one |
| `LoseFile`, `RotFile`, `RotLine`, `Upgrade` | the environment, while nothing runs |

A package (the rendered bytes) is abstracted to `[seq, doc, by]`: its number,
hence its id, its content, and the renderer build. SHA-256 is taken as
injective, so a digest is the bytes themselves; `DigestMatches` then compares
what today's renderer yields with what was sealed, as the code does. Which
faults happen is the constant `Faults`, so that each run and each theorem
names exactly the environment it speaks about.

The journal is opened in append mode and never truncated. `Written` therefore
joins new text to an unterminated last line, and a joined line never parses:
this one operator is what makes torn writes interesting. A write that did not
finish leaves a part of the text (`Garbled`); `split_char` and `no_newline` add
that it may stop inside a character, or with only the newline missing, in which case
replay accepts the line and the next append spoils it.

`Offered` lets a caller pass any record sealed by today's renderer, also with
a stale reservation: the store is modelled without relying on its caller.

### 2.2 ArchiveApi

State: `holder`, `ticket`, `nextTicket` are the tokio mutex `mutations`
(fair: first come, first served); `pc[r]` and `rec[r]` the handler of request
`r`; `net`, `log`, `reply` the hop and the external log; `records` the store's
index; `clock` what `Timestamp::now` reads; and per reader the listing's `at`,
the stamp `asof`, its `rows`.

| Action | Code (`api.rs`) |
|---|---|
| `Reject`, `Arrive` | 401/400 exits, or queueing for the lock (555–573) |
| `Acquire` | lock, `reserve`, commitment, start of the hop (573–592): one step, since there is no await between them |
| `AnchorOk`, `AnchorFails` | the hop's outcome (592–599, `log_anchor.rs` 103–144) |
| `Store`, `StoreFails` | seal, append, answer 201, 409 or 500, guard dropped (601–634): one step, no await |
| `CancelQueued`, `CancelAnchoring` | the client disconnects, the future is dropped at an await |
| `LogAccepts`, `LogRefuses`, `NetLoses` | external: the log sequences or refuses a commitment at *any* time, also after the handler gave up |
| `Tick`, `ClockBack` | external: the system clock |
| `ListAsk`, `ListAnswer` | `list_snapshots` before and after it takes the store mutex (689–733) |

`AnchorFails` is always possible while the hop waits: it covers refusal,
malformed receipts, connection errors and the timeout, whose moment is not
tied to anything in the model.

### 2.3 HttpClient

State: `resp` and `wire` are the server's side, what it means to send and what
of that is still unread; `closes` whether it then closes; `whole` a history of
whether anything was cut off; `raw` and `body` are the client's two buffers,
`phase` the loop it is in, `outcome` what `request` returns.

| Action | Code (`http.rs`) |
|---|---|
| `Send` | connect, write, flush (103-127) |
| `ReadHead(n)` | one `read` of the head loop (131-145), and when the blank line is there the rest of the head (146-176) and the first test of the body loop |
| `ReadBody(n)` | one `read` of the chunk, Content-Length or end-of-stream loop (177-211) with the test that follows it |
| `EndOfStream` | a `read` of no bytes, in each loop |
| `IoError` | the `?` of connect, write and read |
| `Timeout` | `tokio::time::timeout` around all of it (218-220) |
| `Break` | external: the connection breaks off, closed or left open |

A read returns any number of bytes up to `BufSize`. Status line and headers
are one byte, `head`, followed by the blank line's two CRLFs, so that a read can
still cut the blank line anywhere; the body is kept byte by byte because
`DecodeChunkedBody` searches it for line ends. `DecodeChunkedBody` follows the
code in treating every error, also a malformed size, as "read more", and in
not waiting for anything behind the chunk of size zero.

`Anchored` is what the hop concludes (`log_anchor.rs` 128-143 and
`anchor_summary_from_receipt`): a 2xx whose body is a receipt. Of the log it is assumed
that no proper beginning of what it means to send is a receipt: a JSON
object is closed by its last brace, and white space or anything else behind it is left out.
A response is consistent with itself (`ServerAssumption`): what its framing
delimits in all that is sent is what is meant. TLC evaluates that for every
response of `MCHttpClient`, which are written by an encoder of their own; for every
coding there is `DecoderRight` (section 4).

### 2.4 Timestamp

No state: the functions of `time.rs` as operators. TLC's integers have 32
bits, so an instant is a pair of day and second of the day (the code's
`div_euclid` and `rem_euclid`) instead of one number of seconds; `Quot` is Rust's
division, which truncates. A text is its fields. What its columns decide is kept in
`FourDigits`: `{:04}` prints a year before 0 with its sign and one after 9999 with
five digits, and neither parses.

`MCTimestamp` walks from a first of January, one day at a time, by the rules
of the calendar and with leap years counted by inclusion and exclusion; each
state compares that date and its day number with the arithmetic on eras.

### 2.5 SnapshotModel, Keyring and Notary

`SnapshotModel` has no state: it is `model.rs` function by function, with a
record for each JSON object and each Rust struct. A JSON value is the value it
spells, or one of `Missing`, `Null` and `Malformed`; these three are what the
readers tell apart before they look at a value. A digest is what it digests, a
signature is its key with the bytes it covers, and canonical bytes are the
tuple of what was written. `TimeText` and `TimeOf` are constants; `MCNotary` puts
those of `Timestamp` there. The receipt's `tree_head` is spread out into its
two fields.

`Keyring` resolves settings to a key: a seed is spelled in characters, because
blanks, a `0x` prefix, upper case and odd length are what `from_env_seed` and
`hex_decode` decide on; `Blank` stands for any whitespace. A key is its seed material.
Beside the code's functions it has a reference that says of a text's places what they
mean and computes nothing: `Spells`, `SpellsAtLeast`, `Names`.

`Notary` (state: `settings` and `keyring` of the running process; `stage`, `rec`
and `sent` of the snapshot; the journal `line`; a client's `copy` and a
verifier's `pin`):

| Action | Code |
|---|---|
| `Reserve`, `ReceiptArrives`, `HopFails`, `SealRecord`, `Keep` | `create_snapshot` (`api.rs` 573-633) with the `model.rs` functions it calls |
| `Restart(e)` | the process ends anywhere and `run` (858-883) starts another with other settings, which replays the line (`store.rs` 106-161) |
| `Fetch`, `PinKeyring` | `get_snapshot`, `keyring` |
| `AlterLine`, `AlterCopy` | external: one field of the line on disk, or of a copy of the document, becomes another value, null, malformed or missing |

A digest that was changed together with its field is beyond what the code
could notice, and beyond the bound of one alteration.

### 2.6 ArchiveService

Extends `SnapshotStore`; every step of the store in it is one of that module's
actions. Added are per request `pc`, `rec` (number and anchor) and what was
`answered`, the `holder` of the mutation lock, the hop (`net`, `log`, `reply`) and
what a reader of `/admin/log` has `seen`.

| Action | Code |
|---|---|
| `Arrive`, `Acquire`, `AnchorOk`, `AnchorFails`, `Cancel` | as in `ArchiveApi`; the store must be `idle`, since its mutex is taken |
| `Store` | seal and the checks of `append_snapshot`, or its refusal (601-615) |
| `Write` | `WriteLine` or `WriteFile` of the store |
| `Respond` | `Push`, the lock is released, 201 (610-633) |
| `Die`, `Restart` | `End` of the store, with every handler cut off; `Open` or `Outage` |
| `LogAccepts`, `LogRefuses` | external, at any time, also for the dead |
| `AdminLog` | `admin_log` and `audit_json`: the next page behind those the reader has |

A record's content is the request that sent it with its anchor, so that two
attempts with equal submissions can be told apart by the properties although
the code cannot tell them apart. Failing writes under a process that lives on
are left to `SnapshotStore`: they cost it the properties (section 5).

## 3. Runs

| Run | Environment and bounds | Distinct states | Shows |
|---|---|---|---|
| `store_crash` | crashes between writes, lost AIP files; 2 contents, 3 snapshots, 3 lines | 8 392 | `ServedForever`, `AlwaysReopens`, `JournalMonotonic`, `AipImmutable`, and `Implements`: the store refines `Archive` |
| `store_damage` | everything but failing writes and power loss: torn lines (also inside a character, or short of the newline alone), torn files, rot, losses, 2 renderers; 2 snapshots, 3 lines | 2 860 844 | `NoSubstitute`, `Authentic`: damage may cost snapshots or the start; no start and no later append puts another package under a published id as long as that id's line, and those before it, can be read |
| `store_all_faults` | every fault; 2 snapshots, 2 lines | 160 266 | `TypeOK`, `Spine`, `FilesTrue` |
| `api_safety` | 3 requests, 1 reader, disconnects, failing appends, clock stepping back; instants 0..1 | 1 466 536 | `TypeOK`, `NoConflict`, `Accounted`, `ReceiptBinds`, `LogAccounted` |
| `api_live` | 2 requests, 1 reader, the same but a forward clock; instants 0..2 | 129 680 | `SequencingFollowsTime`, `SettledAnswers`, and under fairness `Answered` |
| `http_client` | 372 responses: bodies of up to 3 bytes with everything in them that looks like framing, every division into chunks, three spellings of a chunk size, surplus bytes, reads of up to 4 bytes, a break anywhere | 207 160 | `TypeOK`, `RightBody`, `NoFalseEnd`, `NeverWaitsForMore`, `HonestAnchoring`, and under fairness `Ended` |
| `timestamp` | every day of the years -401..4, 1899..2104 and 9998..10000; 4 times of day, 8 zones | 224 628 | `CalendarRight`, `RoundTrip`, `ZonesRight`, `OnlyRealDates` |
| `package` | one snapshot; 10 receipts: a whole one and what may become of each of its fields, one with an instant beyond year 9999; 4 environments; every field of line and copy changed to up to 3 other values, null, malformed or missing | 149 384 | `LineReplays`, `OnlyAsSealed`, `NamedKeyDecides`, `SignatureCovers`, `ReceiptKept`, `CommitmentTrue`, `OperatorsKey` |
| `service` | two attempts with the same submission and a stranger's; deaths between writes and inside an AIP file; 3 lines, 3 entries of the log, pages of 1 and 2 | 1 198 358 | `ServiceTypeOK`, `AnsweredServed`, `OneRecordEach`, `AnchorsKept`, `PagesExact` |
| `store_torn_line` | a crash inside a line write | violation | `ServedForever` fails, see 5 |
| `store_io_error` | a failing write | violation | `JournalMonotonic` fails, see 5 |
| `api_at_immutable` | nothing goes wrong at all | violation | `AtImmutable` fails, see 5 |

**Bounds.** `MaxSnapshots` bounds sequence numbers and `MaxLines` stops new
appends when the journal is that long; nothing else stops. Two contents suffice to tell
a package from a substitute, three lines to have a torn line in front, in
the middle and at the end, two builds for an upgrade and its reversal. Three
creates let one hold the lock, one queue and one finish or vanish, with the
late commitments of the earlier ones still under way. Two instants make
creates share a second or not; three are needed for a listing strictly
between. `MaxClock` bounds `Tick`. Content symmetry and request symmetry are
used only in runs without a temporal property.

The arithmetic on eras repeats after 400 years, so the years -401..4 hold
every case of it, with the border of the era numbers -1 and 0 (where the
truncating division matters) and each kind of century year; the other two walks
check the years in use and the last year of four digits. For the client, a
read of up to 4 bytes can end before, in and after each CRLF, the blank line and
a chunk size, and can hold head and body in one; three bytes of body make up
to three chunks.

In `package` one alteration suffices, because the properties say of each field
whether its change is noticed; two fields that would have to change together
are the digest and what it covers, see 2.5. Settings are a seed in two
spellings, one that is too short, and none, with and without a log, so that a
restart can change the key, keep it in another spelling, or fall back. In
`service` three attempts let one die in its hop, one take its number and one
follow; three places in the log let the dead one's commitment come before,
between and after the others.

Deadlock is checked in every run of the store and the request flows: even
with `MaxLines` used up a store can stop and start, and a reader can always ask
again. It is not checked in `http_client`, where one exchange ends, and in
`timestamp`, where a walk ends.

**Fairness** (`ArchiveApi!Fairness`, used only for `Answered`): weak fairness
of lock acquisition, of the end of the hop, and of storing. The tokio runtime
polls every ready task; its mutex is handed to the first in the queue; and the hop ends at its
timeout at the latest (`http.rs` 217–220, `tokio::time::timeout` around the
whole exchange). Nothing is assumed of clients, the network or the log: a log
that accepts the connection and never answers is a behaviour of the model.
`HttpClient!FairSpec`, used only for `Ended`, assumes the timer alone: a read
may stay pending for ever.

## 4. Proofs

All theorems hold for every number of snapshots, contents, builds, requests
and readers, every submission, receipt and instant, and walks of any length. What
they assume of the constants are the `ASSUME`s `StoreAssumption`, `ApiAssumption`,
`ServiceAssumption`, `NotaryAssumption`, `TimestampAssumption`, `WalkAssumption`,
`ClientAssumption` and `ServerAssumption` (2.3),
which TLC evaluates in every run: model values are distinct from the data they stand
beside, the bounds are natural numbers, no two instants that can be displayed share a
text (what `RoundTrip` says of `Timestamp`), seeds are texts and the
least length of a seed is not zero, and times of day are seconds of a day.

**Store, any faults** (`SnapshotStoreProofs`): `StoreTypeOK`, `StoreSpine`,
`StoreFilesTrue`, `StoreAuthentic`. `Spine` is not inductive: that the record
being pushed is the next one comes from the check at the entry of
`append_snapshot`, three steps earlier. `IInv` therefore adds `AppendInv` (the record
in flight is due, sealed and accepted), `ClosedInv` (no index without a
process), `FilesInv` (which files are good, also half-way through the
verification loop), and `JournalAccepted`/`RecordsAccepted` (every digest that
survives in the journal is of an accepted package, whatever became of the rest
of its line). The key lemmas are `WrittenLines` (what a write behind a torn
line can leave) and `ReplayedRecords` (what a replay that was not refused
yields).

**Store, whole lines** (`SnapshotStoreCrashProofs`, assumption `WholeLines`:
journaled, and no faults but crashes between writes, lost and torn AIP files
and upgrades): `StoreServedForever`, `StoreJournalMonotonic`. `JInv` says that
the journal is all whole records in sequence, that the index equals it or is
one record behind, and that every published package is the digest of its line.

**Store, plain crashes** (`PlainCrashes`: crashes between writes and lost
files): `StoreAlwaysReopens`, `StoreAipImmutable`, and `StoreImplements`: the store implements
`Archive`, where writing the line is `Ingest`, pushing to the index is
`Publish`, and `Opened` is `Start`. `CleanInv` adds that each AIP file is
missing or is the one its line was sealed with.

**Store, damage** (`SnapshotStoreDamageProofs`, assumption `Damage`: journaled, any
faults but failing writes under a living process and power loss):
`StoreNoSubstitute`. The property speaks of every moment: of what a start replays,
and of what a running process appends behind a tail that its start gave up. `DInv` keeps that a published package's line still
carries its digest or the journal is broken at or before that line (`LineInv`), for
good (`BreaksLast`: nothing repairs a line, and a rotten record keeps its digest or
stops being one); that while the process lives the journal ends where the index
does or is broken by then (`TailInv`), so that an append writes the due line or
breaks the one a torn write left open; and that each record of a running process's
index stands on a line with its digest, or the journal is broken there or before
(`StandInv`). Where nothing is broken as far as an id, its record and its published
package stand on the same line, hence are the same. That disjunct is not idle:
without it the property is false of the code (section 5).

These assumptions are sharp in the direction that matters: with torn lines or
failing writes the properties are false of the code (section 5).

**Request flows** (`ArchiveApiProofs`): `ApiTypeOK`, `ApiNoConflict`,
`ApiAccounted`, `ApiReceiptBinds`, `ApiLogAccounted`, and, if the clock never
steps back (`Monotone`), `ApiSequencingFollowsTime` and `ApiSettledAnswers`.
The heart of `IInv` is `LockInv` (the lock is held exactly by the handler
between reservation and end) with `DueInv` (its number is still the store's
next), and `LogInv`/`ReplyInv`: a record's number, instant and content never
change once it was sent, so a late receipt can only ever speak of its own
record. `AnswerInv` says why a settled answer is final: whoever reserves later
reserves a later instant.

**The service** (`ArchiveServiceProofs`): `ServiceUsesStore` says that every
behaviour of the service is one of the store, so that the store's theorems are
the service's (`ServiceReopens` is the example). It needs `FlowInv`: between
reservation and end a handler holds the lock alone and has a record
(`HolderInv`), and the record the store writes is that handler's (`LinkInv`).
`ServiceAnsweredServed` then follows from `StoreServedForever`, since what was
answered was published (`AnsweredInv`). `ServicePagesExact` keeps that the pages
are the beginning of the *journal*, which only grows, rather than of the index,
which a death empties. `ServiceOneRecordEach` rests on `SipInv` (a line belongs to
a handler that writes, was answered or was cut off, and the one about to write
has none), `ServiceAnchorsKept` on `NetInv` (what is under way, or was accepted, is
the commitment of the number its sender got, also when the sender is dead) and
`BoundInv`. All but `ServiceUsesStore`, `ServiceTypes` and `ServiceReopens` (`PlainCrashes`) assume
`WholeLines`.

**A snapshot's life** (`NotaryProofs`): `LineReplaysAlways`,
`OnlyAsSealedAlways`, `NamedKeyDecidesAlways`, `SignatureCoversAlways`,
`ReceiptKeptAlways`, `CommitmentTrueAlways`, for any number of alterations where the
run has one. `NotaryInv` says for every stage which record the process holds
(`StageInv`: a new one, one with an outcome of the hop, the sealed one), which
fields of the line an alteration cannot have touched unnoticed (`LineInv`), and that the mark on
a copy is the sealed one, one an editor put in, or none (`CopyInv`). None of the six
properties is inductive: what `OnlyAsSealed` says of a process comes from the
digest that replay compared, one restart earlier. Two lemmas carry the induction:
a document decides every field of its record (`DocumentDecides`: what
`to_document` writes loses nothing that replay could change), and so a line whose
digest is the sealed one replays to the sealed record or not at all
(`ReplayedIsSealed`). That a signature covers what a document shows is a
comparison of the two writers of a statement, `canonical_core` and the verifier's
rebuild, field by field.

These six have a hypothesis, `Apart`: what an editor puts in the place of a digest or of a
signature is not a document's digest, nor a signature, of the shapes the
program makes. In the model a digest is what it digests, so this says that
an editor computes no digest and signs nothing; it may still put the sealed digest or
mark wherever they fit. It speaks of the domains of model values, which TLC
refuses to compare with records, hence a hypothesis rather than an `ASSUME`; the
values of `package` are of this kind. Without it the properties are false,
as they should be: whoever can recompute a digest can change the journal.

`OperatorsKeyAlways` needs no hypothesis: `SealInv`, its own inductive invariant, says
that what is sealed is sealed in the settings of the process and stays so. The rest
is about texts: `BodyIs` and `BodyUnique` say where the digits of a text
lie, although `from_env_seed` trims it, `hex_decode` trims it again (`TrimTwice`) and then
takes a prefix away, and give `HexCodecRight`: for *every* text, `hex_decode`
yields some bytes if and only if the text spells them.

**Calendar** (`TimestampProofs`): `CivilOfDate` and `DateOfDay` say that
`days_from_civil` and `civil_from_days` undo each other on *every* date and integer
day, also before year 0, where Rust's truncating division needs the shift that
`EraFloors` is about. Each of the divisions that cut an era into centuries, cycles,
years and months has a lemma on its own few variables. `DayInv`, that the date
of the walk has the number it has counted to, is inductive by `NextDayIs` (the
next date has the next number), and gives `CalendarAlwaysRight`,
`RoundTripAlways`, `ZonesAlwaysRight` and `OnlyRealDatesAlways`.

**HTTP client** (`HttpClientProofs`): `ClientTypeOK`, `ClientRightBody`,
`ClientNoFalseEnd`, `ClientNeverWaitsForMore`, `ClientHonestAnchoring`, for every
response, every size of reads and every place of a break. None of them is
inductive: that an answer is right depends on where the bytes came from. `ClientInv`
says that the bytes read are a beginning of the head (`HeadInv`) or of the body, which
is not yet enough (`BodyInv`), that the wire holds exactly the rest unless
the response was cut off, and that then nothing arrives any more (`LostInv`).
`HeadEnds` shows that the blank line is found with the read that brings its last byte,
never earlier or elsewhere. The key lemma is `DecodeWithin`: if the decoder takes
a beginning of a stream for complete, it yields the same on all of the
stream, so that where a read ends does not matter. `DecoderRight` says what it
yields: for every chunked coding (`IsCoding`: positions of chunks, each with a size
line that ends at the first CRLF and gives its size, the data between them, a last
one of size zero, anything behind it) the data.

The decoder and `ChunkSize` are recursive functions over the bytes. The library's
induction theorems cannot be instantiated by the provers at hand, but
`WellFoundedInduction` gives a least element of every nonempty set of naturals
(`Least`), hence an induction over a set that is given as a constant (`UpTo`). With
it `ValuesExist` and `DecodingExists` show that the recursions define functions, and
`DecodeWithin` and `DecoderRight` go through the positions of the chunks from the last
to the first.

**Only model-checked:** `Answered` and `Ended`; liveness under fairness is outside
what the prover handles.

## 5. Where the code and its documents part

Each with a run that shows it:

1. `store_torn_line`. The torn tail that `replay` tolerates (`store.rs`
   147–153) is not cut off, and `open` appends behind it (91–96). The next
   line is joined to it, although its append succeeds and is answered 201; it
   becomes the new torn tail and is dropped by the following start, which serves
   without it. With one more append in between that start is refused instead. `src/README.md:40`
   promises re-serving "forever". The number of the lost snapshot is the next to
   be given out, see the first point below.
2. `store_io_error`. When the AIP write fails (232–240) the line is already in
   the journal but the index has not grown: the client sees 500, the number is
   reserved again, journaled twice, and the next start refuses the journal as
   out of sequence.
3. `api_at_immutable`. A record carries the instant of its reservation but
   appears after the hop; and `?at=` may name the current second or the
   future. Such an answer is marked immutable and may change. `SettledAnswers`
   is the part of the promise that does hold.

Seen while modelling, in the models but without a run of their own:

* A published id may come to be another package's. It takes one unreadable line:
  rot garbles the last complete line of the journal, or that line was joined to a
  torn one; `replay` takes it for a torn tail (147), its number is reserved again, the
  next `append_snapshot` serves another package under the id and overwrites its AIP
  file. If the spoiled line had its newline, the process after that refuses to
  start, because the line is not the last any more. `NoSubstitute` says that
  nothing short of such a line gets there, and is checked in every phase; it would fail in
  `store_damage` without the disjunct `BrokenBy`.
* A torn tail that ends inside a multi-byte character is a read error, not a
  torn line (`store.rs:122` against the header, 12–15): the start is refused.
  `BadUtf8` in `store_damage`.
* An AIP file torn by a crash is refused as a mismatch (174) although its
  journal line is complete. `CrashInFile`; hence `PlainCrashes` in the proofs.
* `flush` on a `File` does nothing and nothing is synced (229; `src/README.md`
  40 and 143): after a power loss any suffix may be gone. `PowerLoss`.
* With a snapshot directory but no journal every restart begins at 0 over the
  old files. `Journaled = FALSE` is allowed by the model; the proofs of
  immutability assume `Journaled`.
* A listing without `at` is stamped before the store mutex is taken
  (`api.rs` 697, 699), so it can contain a record later than its stamp.
* A hop that timed out is journaled `unanchored` (`model.rs:51`) although the
  log may have sequenced the commitment; and a create whose client vanished
  leaves a commitment in the log whose number is given out again, so that the
  log holds two commitments for one id. `LogAccounted` is what remains true.
* A system clock that steps back makes instants decrease along the sequence
  (`tests/integration.rs:268` expects them not to); hence the forward clock of
  `api_live` and `Monotone` in the proofs.
* A connection that closes in the middle of a body announced by
  Content-Length, or of one without a length, is an `Ok` with the short body
  (`http.rs:197`, 206); that a short receipt is not stored is due to its syntax
  (`HonestAnchoring`). A chunked body is safe from this.
* Instants before year 0 or after 9999 display as texts that do not parse
  (`time.rs:154`), and `notarized_at` is journaled as such a text: with a system clock
  beyond them the next start would refuse the journal. `RoundTrip`.
* `/keyring` is answered as cacheable and immutable for the instant it is
  stamped with (`api.rs` 528-533), and its recipe says "Every snapshot
  document" verifies "against this `public` anchor" (`keyring.rs:181`). After a
  restart with another seed that is true only of documents that name the
  answer's key id: `NamedKeyDecides`.
* A rejected seed falls back to the public development key with a warning on
  standard error (`keyring.rs` 122-126). `OperatorsKey` says when.
* A receipt whose `logged_at` has a zone may denote an instant beyond the year
  9999. It is accepted and journaled as a text that does not parse, although
  the line is called "round-trippable" (`model.rs:505`): the next start drops
  the acknowledged snapshot as a torn tail if it is the last, and is refused otherwise.
  `LineReplays` holds of the instants that are `Expressible`; `MCNotary` has such a receipt.
* A line that is JSON but has a malformed field counts as a torn tail too when
  it is the last one (`store.rs:147`). `WithoutIt` in `Notary`.
* `submitter` and `state_size` are covered neither by the commitment nor by
  the signature, only by the journaled digest; and the commitment inside a
  receipt is not compared with the one that was sent.

## 6. Not modelled

* HTTP routing and headers, the wording of errors, logging, the static
  documents: no state, no property here.
* Of the configuration, the bind address, the tokens, the paths and the text of
  the timeout: each is one parse with a default. Paths appear as the constants
  `Journaled` and `FileStore`.
* Cryptography: SHA-256, canonical writing and key derivation are injective,
  and a signature by a key verifies with that key over those bytes only.
* Of a receipt, what JSON text does to it: `ReceiptLine` is read back as it was
  written. serde_json (without `float_roundtrip`) may read a number back in other
  digits, and refuses what is nested deeper than 128; a journal line with such a
  receipt would not replay to the sealed record.
* Of a chunk size, white space and a `+` around the number, the digits beyond the four
  that stand for all, and sizes near `usize::MAX`, where `pos + size` (`http.rs:245`)
  overflows.
* What a failed AIP write leaves on disk is not in `ArchiveApi`, whose store is the index
  alone; it is in `SnapshotStore` (`FileFails`, and finding 2).
* The passport filter of `GET /snapshots`, `/healthz` and `/`: a comparison and
  two summaries of the index that the other reads are checked on.
* Two processes on one directory: the code has no lock file and promises
  nothing.
* The transparency log itself, the file system and the network are external;
  they are modelled by what the code can see of them.

## 7. Plan

Built, in this order: `Archive`, `SnapshotStore` and its proofs, `ArchiveApi` and
its proofs, `HttpClient`, `Timestamp`, `Keyring`, `SnapshotModel`, `Notary`,
`ArchiveService` and its proofs, the proofs of `Timestamp`, `Notary` and
`HttpClient`. To come:

1. Proofs: that the request flows of `ArchiveApi` are those of the service with the
   store's steps joined; hypotheses that theorems can do without.
2. A run for the last hazard without a property, the stamp of a listing
   without `at`.
