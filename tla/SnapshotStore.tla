---------------------------- MODULE SnapshotStore ----------------------------
(***************************************************************************)
(* The snapshot store (src/src/store.rs): an in-memory index rebuilt at    *)
(* start-up from a JSONL journal, and one archival package (AIP) file per  *)
(* snapshot, verified or re-materialized against the replayed record.      *)
(*                                                                         *)
(* One service process owns the directory.  append_snapshot runs under the *)
(* store mutex but is three separate writes (journal line, AIP file,       *)
(* index), and the process, a write or the disk may fail between or inside *)
(* them; which of these happen is the constant Faults.                     *)
(*                                                                         *)
(* A package is abstracted to its sequence number (hence its id), its      *)
(* content and the build whose renderer produced the bytes.  SHA-256 is    *)
(* taken as injective: the digest of some bytes stands for the bytes.      *)
(***************************************************************************)
EXTENDS Naturals, Sequences

CONSTANTS
    Docs,           \* what a record carries besides its sequence number
    Builds,         \* versions of the renderer
    Faults,         \* the faults the environment may inject
    Journaled,      \* whether a journal file is configured
    FileStore,      \* whether a snapshot directory is configured
    MaxSnapshots,   \* bound: sequence numbers are 0 .. MaxSnapshots - 1
    MaxLines,       \* bound: lines the journal may grow to
    Garbled,        \* a journal line that is not one whole record
    BadUtf8,        \* a journal line that is not even valid UTF-8
    BlankLine,      \* a journal line with nothing but white space on it
    Absent,         \* no AIP file
    Scrap,          \* an AIP file holding other bytes than any package
    None            \* no record is being appended

FaultKinds ==
    { "crash",       \* the process dies between two writes
      "torn_line",   \* it dies inside the write of a journal line
      "split_char",  \* a partial line write may stop inside a character
      "no_newline",  \* it may stop with only the newline missing
      "torn_file",   \* it dies inside the write of an AIP file
      "io_error",    \* a write, or a read at start-up, returns an error
      "lost_file",   \* an AIP file disappears
      "bit_rot",     \* a stored line or AIP file changes
      "upgrade",     \* the service restarts with another renderer
      "power" }      \* writes that were never synced are gone

Seqs == 0 .. MaxSnapshots - 1

Bodies == [seq : Seqs, doc : Docs, by : Builds]

Records == [seq : Seqs, doc : Docs, body_digest : Bodies]

Lines == Records \cup {Garbled, BadUtf8, BlankLine}

ASSUME StoreAssumption ==
    /\ MaxSnapshots \in Nat
    /\ MaxLines \in Nat
    /\ Builds # {}
    /\ Faults \subseteq FaultKinds
    /\ Journaled \in BOOLEAN
    /\ FileStore \in BOOLEAN
    /\ Garbled # BadUtf8
    /\ BlankLine \notin {Garbled, BadUtf8}
    /\ Garbled \notin Records
    /\ BadUtf8 \notin Records
    /\ BlankLine \notin Records
    /\ Absent # Scrap
    /\ Absent \notin Bodies
    /\ Scrap \notin Bodies
    /\ None \notin Records

VARIABLES
    journal,    \* the lines of the journal file
    tailOpen,   \* whether its last line lacks the newline
    files,      \* the AIP file of each sequence number
    records,    \* the index in memory
    phase,      \* where the process is
    cur,        \* the record append_snapshot is writing
    cursor,     \* the record whose AIP file is verified next
    build,      \* the renderer of the running (or next) process
    published,  \* history: every package a reader may have been given
    accepted    \* history: every package append_snapshot accepted

vars == <<journal, tailOpen, files, records, phase, cur, cursor, build,
          published, accepted>>

disk == <<journal, tailOpen, files>>
history == <<published, accepted>>

Closed == phase \in {"down", "refused"}
Serving == phase \in {"idle", "line", "file", "push"}

-----------------------------------------------------------------------------
(* Records and the bytes they render to.                                   *)

\* SnapshotRecord::render_body
Render(r, b) == [seq |-> r.seq, doc |-> r.doc, by |-> b]

\* The journaled digest is that of today's rendering.
DigestMatches_Unchecked(r) == TRUE
DigestMatches(r) == Render(r, build) = r.body_digest

\* The record carries the sequence number the index has reached.
InSequence_Unchecked(r, n) == TRUE
InSequence(r, n) == r.seq = n

\* append_snapshot takes only the next record, sealed as it stands.
Appendable_AnySeq(r) == DigestMatches(r)
Appendable(r) == InSequence(r, Len(records)) /\ DigestMatches(r)

Rendered(rs) == { Render(rs[i], build) : i \in DOMAIN rs }

\* SnapshotStore::get, the first record that has the id
Holds(n) == \E i \in DOMAIN records : records[i].seq = n
Get(n) ==
    LET first == CHOOSE i \in DOMAIN records :
                    /\ records[i].seq = n
                    /\ \A j \in 1 .. i - 1 : records[j].seq # n
    IN  Render(records[first], build)

-----------------------------------------------------------------------------
(* The journal file.                                                       *)

\* Text that lands behind an unterminated line becomes part of that line.  No
\* start gets past a blank last line, so that nothing is written behind one.
Join(line, text) == IF BadUtf8 \in {line, text} THEN BadUtf8 ELSE Garbled

Written(text) ==
    IF tailOpen
    THEN [journal EXCEPT ![Len(journal)] = Join(@, text)]
    ELSE Append(journal, text)

\* writeln!: the text of the line, then its newline
LineEnded_Write == tailOpen' = TRUE
LineEnded == tailOpen' = FALSE
WholeLine(r) ==
    /\ journal' = Written(r)
    /\ LineEnded

\* A line write that did not finish leaves nothing, a part of the text, or
\* all of it without the newline.
PartOf(r) ==
    {Garbled} \cup (IF "split_char" \in Faults THEN {BadUtf8} ELSE {})
              \cup (IF "no_newline" \in Faults THEN {r} ELSE {})

PartialLine(r) ==
    \/ UNCHANGED <<journal, tailOpen>>
    \/ \E text \in PartOf(r) :
          /\ journal' = Written(text)
          /\ tailOpen' = TRUE

\* What replay insists on.  A last line that does not parse is a torn tail,
\* unless it is blank.
TornTail == journal # <<>> /\ journal[Len(journal)] = Garbled

Parses(i) == journal[i] \in Records

Tolerated(i) == i = Len(journal) /\ journal[i] # BlankLine

Replayable ==
    \A i \in DOMAIN journal :
        /\ journal[i] # BadUtf8
        /\ ~Parses(i) => Tolerated(i)
        /\ Parses(i) => InSequence(journal[i], i - 1) /\ DigestMatches(journal[i])

Replayed_DropsLast ==
    IF journal = <<>> THEN <<>> ELSE SubSeq(journal, 1, Len(journal) - 1)
Replayed_KeepsTorn == journal
Replayed ==
    IF TornTail THEN SubSeq(journal, 1, Len(journal) - 1) ELSE journal

-----------------------------------------------------------------------------
Init ==
    /\ journal = <<>>
    /\ tailOpen = FALSE
    /\ files = [n \in Seqs |-> Absent]
    /\ records = <<>>
    /\ phase = "down"
    /\ cur = None
    /\ cursor = 1
    /\ build \in Builds
    /\ published = {}
    /\ accepted = {}

(***************************************************************************)
(* SnapshotStore::open: replay, then the AIP files one by one.             *)
(***************************************************************************)
Replay ==
    /\ Closed
    /\ Replayable
    /\ records' = Replayed
    /\ cursor' = 1
    /\ phase' = "verify"
    /\ UNCHANGED <<disk, cur, build, history>>

\* A hard error: the journal is corrupt before its tail, or it cannot be
\* opened or read.
RefuseJournal ==
    /\ Closed
    /\ ~Replayable \/ "io_error" \in Faults
    /\ phase' = "refused"
    /\ UNCHANGED <<disk, records, cur, cursor, build, history>>

Verifying == phase = "verify" /\ FileStore /\ cursor <= Len(records)
File == files[records[cursor].seq]
Body == Render(records[cursor], build)
Unreadable == File = Absent \/ "io_error" \in Faults

FileMatches ==
    /\ Verifying
    /\ File = Body
    /\ cursor' = cursor + 1
    /\ UNCHANGED <<disk, records, phase, cur, build, history>>

\* Whatever the read error, the file is written again.
Rematerialized_Skipped == files
Rematerialized == [files EXCEPT ![records[cursor].seq] = Body]
Rematerialize ==
    /\ Verifying
    /\ Unreadable
    /\ files' = Rematerialized
    /\ cursor' = cursor + 1
    /\ UNCHANGED <<journal, tailOpen, records, phase, cur, build, history>>

GiveUp ==
    /\ phase' = "refused"
    /\ records' = <<>>
    /\ UNCHANGED <<journal, tailOpen, cur, cursor, build, history>>

RefuseFile ==
    /\ Verifying
    /\ File \notin {Body, Absent}
    /\ UNCHANGED files
    /\ GiveUp

RematerializeFails ==
    /\ Verifying
    /\ "io_error" \in Faults
    /\ \E left \in {File, Scrap} :
          files' = [files EXCEPT ![records[cursor].seq] = left]
    /\ GiveUp

\* From here on every record may be read.
Opened ==
    /\ phase = "verify"
    /\ ~Verifying
    /\ phase' = "idle"
    /\ published' = published \cup Rendered(records)
    /\ UNCHANGED <<disk, records, cur, cursor, build, accepted>>

(***************************************************************************)
(* append_snapshot, called with the record of some earlier reservation.    *)
(***************************************************************************)
\* A caller may hold a stale reservation or a record changed since its seal.
Offered == [seq : Seqs, doc : Docs, body_digest : [seq : Seqs, doc : Docs, by : {build}]]

AppendSnapshot(r) ==
    /\ phase = "idle"
    /\ Len(journal) < MaxLines
    /\ Appendable(r)
    /\ cur' = r
    /\ phase' = "line"
    /\ accepted' = accepted \cup {Render(r, build)}
    /\ UNCHANGED <<disk, records, cursor, build, published>>

WriteLine ==
    /\ phase = "line"
    /\ IF Journaled THEN WholeLine(cur) ELSE UNCHANGED <<journal, tailOpen>>
    /\ phase' = "file"
    /\ UNCHANGED <<files, records, cur, cursor, build, history>>

WriteFile ==
    /\ phase = "file"
    /\ files' = IF FileStore
                THEN [files EXCEPT ![cur.seq] = Render(cur, build)]
                ELSE files
    /\ phase' = "push"
    /\ UNCHANGED <<journal, tailOpen, records, cur, cursor, build, history>>

Push ==
    /\ phase = "push"
    /\ records' = Append(records, cur)
    /\ published' = published \cup {Render(cur, build)}
    /\ cur' = None
    /\ phase' = "idle"
    /\ UNCHANGED <<disk, cursor, build, accepted>>

\* A write that fails ends the call with an error; the process lives on.
Abandon ==
    /\ cur' = None
    /\ phase' = "idle"
    /\ UNCHANGED <<records, cursor, build, history>>

LineFails ==
    /\ phase = "line"
    /\ Journaled
    /\ "io_error" \in Faults
    /\ PartialLine(cur)
    /\ UNCHANGED files
    /\ Abandon

FileFails ==
    /\ phase = "file"
    /\ FileStore
    /\ "io_error" \in Faults
    /\ \E left \in {files[cur.seq], Scrap} :
          files' = [files EXCEPT ![cur.seq] = left]
    /\ UNCHANGED <<journal, tailOpen>>
    /\ Abandon

-----------------------------------------------------------------------------
(* The process ends; the disk keeps what was written.                      *)

Vanish ==
    /\ records' = <<>>
    /\ cur' = None
    /\ phase' = "down"
    /\ UNCHANGED <<cursor, build, history>>

Stop ==
    /\ phase = "idle"
    /\ UNCHANGED disk
    /\ Vanish

Crash ==
    /\ "crash" \in Faults
    /\ ~Closed
    /\ UNCHANGED disk
    /\ Vanish

CrashInLine ==
    /\ "torn_line" \in Faults
    /\ phase = "line"
    /\ Journaled
    /\ PartialLine(cur)
    /\ UNCHANGED files
    /\ Vanish

\* fs::write truncates the file before it writes.
CrashInFile ==
    /\ "torn_file" \in Faults
    /\ FileStore
    /\ phase = "file"
    /\ files' = [files EXCEPT ![cur.seq] = Scrap]
    /\ UNCHANGED <<journal, tailOpen>>
    /\ Vanish

CrashInRematerialize ==
    /\ "torn_file" \in Faults
    /\ Verifying
    /\ Unreadable
    /\ files' = [files EXCEPT ![records[cursor].seq] = Scrap]
    /\ UNCHANGED <<journal, tailOpen>>
    /\ Vanish

-----------------------------------------------------------------------------
(* The environment, while no process runs.                                 *)

LoseFile(n) ==
    /\ "lost_file" \in Faults
    /\ Closed
    /\ files' = [files EXCEPT ![n] = Absent]
    /\ UNCHANGED <<journal, tailOpen, records, phase, cur, cursor, build, history>>

RotFile(n) ==
    /\ "bit_rot" \in Faults
    /\ Closed
    /\ files[n] # Absent
    /\ files' = [files EXCEPT ![n] = Scrap]
    /\ UNCHANGED <<journal, tailOpen, records, phase, cur, cursor, build, history>>

RotLine(i) ==
    /\ "bit_rot" \in Faults
    /\ Closed
    /\ Parses(i)
    /\ \E line \in {Garbled, BadUtf8, BlankLine}
                    \cup { [journal[i] EXCEPT !.doc = d] : d \in Docs } :
          journal' = [journal EXCEPT ![i] = line]
    /\ UNCHANGED <<tailOpen, files, records, phase, cur, cursor, build, history>>

Upgrade(b) ==
    /\ "upgrade" \in Faults
    /\ Closed
    /\ build' = b
    /\ UNCHANGED <<disk, records, phase, cur, cursor, history>>

\* The journal is cut off behind one of its lines, or inside one; what does
\* not parse then still does not.
EndsBehind(k) ==
    /\ journal' = SubSeq(journal, 1, k)
    /\ tailOpen' = (tailOpen /\ k = Len(journal) /\ k > 0)

EndsInside(k) ==
    /\ \E text \in IF Parses(k) THEN PartOf(journal[k]) ELSE {journal[k]} :
          journal' = Append(SubSeq(journal, 1, k - 1), text)
    /\ tailOpen' = TRUE

\* Nothing is ever synced: any suffix of the journal and any file may go.
PowerLoss ==
    /\ "power" \in Faults
    /\ ~Closed
    /\ \/ \E k \in 0 .. Len(journal) : EndsBehind(k)
       \/ \E k \in DOMAIN journal : EndsInside(k)
    /\ \E gone, emptied \in SUBSET Seqs :
          files' = [n \in Seqs |-> IF n \in gone THEN Absent
                                   ELSE IF n \in emptied /\ files[n] # Absent THEN Scrap
                                   ELSE files[n]]
    /\ Vanish

Open ==
    \/ Replay
    \/ RefuseJournal
    \/ FileMatches
    \/ Rematerialize
    \/ RefuseFile
    \/ RematerializeFails
    \/ Opened

Ingest ==
    \/ \E r \in Offered : AppendSnapshot(r)
    \/ WriteLine
    \/ WriteFile
    \/ Push
    \/ LineFails
    \/ FileFails

End ==
    \/ Stop
    \/ Crash
    \/ CrashInLine
    \/ CrashInFile
    \/ CrashInRematerialize
    \/ PowerLoss

Outage ==
    \/ \E n \in Seqs : LoseFile(n) \/ RotFile(n)
    \/ \E i \in DOMAIN journal : RotLine(i)
    \/ \E b \in Builds : Upgrade(b)

Next == Open \/ Ingest \/ End \/ Outage

Spec == Init /\ [][Next]_vars

-----------------------------------------------------------------------------
(* Properties.                                                             *)

\* The store's fields, the disk and the histories have the shapes above.
TypeOK ==
    /\ journal \in Seq(Lines)
    /\ tailOpen \in BOOLEAN
    /\ files \in [Seqs -> Bodies \cup {Absent, Scrap}]
    /\ records \in Seq(Records)
    /\ phase \in {"down", "refused", "verify", "idle", "line", "file", "push"}
    /\ cur \in Records \cup {None}
    /\ cursor \in Nat \ {0}
    /\ build \in Builds
    /\ published \subseteq Bodies
    /\ accepted \subseteq Bodies

\* Whatever happened to the disk, the index is the sequence 0, 1, 2, ...:
\* an id finds one record and the next reservation is a fresh id (replay's
\* and append_snapshot's sequence checks).
Spine == \A i \in DOMAIN records : records[i].seq = i - 1

\* A package that a reader may have been given is served again, the same,
\* by every later process that gets to serve (GET /snapshots/{id}).
ServedForever ==
    Serving => \A p \in published : Holds(p.seq) /\ Get(p.seq) = p

\* The store opens again after whatever interrupted it: replay and the file
\* verification never take the traces of an interruption for corruption.
AlwaysReopens == phase # "refused"

\* No sequence number is journaled twice, and none out of order.
JournalMonotonic ==
    \A i, j \in DOMAIN journal :
        i < j /\ Parses(i) /\ Parses(j) => journal[i].seq < journal[j].seq

\* While the service runs, every snapshot it serves has its AIP file, with
\* the served bytes (verify_snapshot_files and append_snapshot together; a
\* file lost under a running service is lost when the next one starts).
FilesTrue ==
    FileStore /\ Serving =>
        \A i \in DOMAIN records : files[records[i].seq] = Render(records[i], build)

\* Nothing that was not accepted as a sealed package is ever served, not
\* even when lines or files rot or another renderer replays the journal.
Authentic == published \subseteq accepted

\* An id that had been served is given to another package, by a start or by
\* a running service, only behind a line of the journal that cannot be read
\* any more, the package's own or one before it: a start that replays as far
\* as an id has the published bytes for it, and an append takes a published
\* number only where replay gave up a torn tail.
Broken(k) == k \in DOMAIN journal /\ ~Parses(k)
BrokenBy(n) == \E k \in 1 .. n : Broken(k)
NoSubstitute ==
    \A p \in published :
        Holds(p.seq) => Get(p.seq) = p \/ BrokenBy(p.seq + 1)

\* An archival file that holds a package never comes to hold another one.
AipImmutable ==
    [][\A n \in Seqs :
          files[n] \in Bodies /\ files'[n] \in Bodies => files'[n] = files[n]]_vars

\* With crashes between the writes, the store is the append-only sequence
\* of packages that module Archive describes: the journal line is the
\* commit point, the index push makes it visible.
Kept == [i \in DOMAIN journal |-> Render(journal[i], build)]
Served == IF Serving THEN [i \in DOMAIN records |-> Render(records[i], build)] ELSE <<>>

Abstract == INSTANCE Archive WITH
    Packages <- Bodies, kept <- Kept, served <- Served, up <- Serving

Implements == Abstract!Spec
==============================================================================
