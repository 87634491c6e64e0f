------------------------- MODULE SnapshotStoreProofs -------------------------
(***************************************************************************)
(* What the snapshot store guarantees whatever faults occur, in any        *)
(* combination and for every value of the constants: the index is gap-free *)
(* (Spine), a running service has the right AIP file for every record it   *)
(* serves (FilesTrue), and nothing is served that was not accepted         *)
(* (Authentic).                                                            *)
(***************************************************************************)
EXTENDS SnapshotStore, SequenceTheorems, TLAPS

\* While append_snapshot runs, its record is the one that is due, sealed and
\* accepted.
Appending == phase \in {"line", "file", "push"}
AppendInv ==
    Appending =>
        /\ cur \in Records
        /\ cur.seq = Len(records)
        /\ cur.body_digest = Render(cur, build)
        /\ Render(cur, build) \in accepted

\* A process that does not run has no index.
ClosedInv == Closed => records = <<>>

\* The AIP files that are known to be good: those of all records once the
\* service runs, and the ones behind the cursor while they are verified.
FileGood(i) == files[records[i].seq] = Render(records[i], build)
FilesInv ==
    FileStore =>
        /\ Serving => \A i \in DOMAIN records : FileGood(i)
        /\ phase = "verify" => \A i \in DOMAIN records : i < cursor => FileGood(i)
        /\ phase = "push" => files[cur.seq] = Render(cur, build)

\* Digests in the journal are those of accepted packages, whatever became of
\* the rest of the line; so is every record in the index.
JournalAccepted ==
    \A i \in DOMAIN journal : Parses(i) => journal[i].body_digest \in accepted
RecordsAccepted ==
    \A i \in DOMAIN records : Render(records[i], build) \in accepted

IInv ==
    /\ TypeOK
    /\ Spine
    /\ AppendInv
    /\ ClosedInv
    /\ FilesInv
    /\ JournalAccepted
    /\ RecordsAccepted
    /\ Authentic

-----------------------------------------------------------------------------
(* Rendering, the journal and its replay.                                  *)

\* Records render to packages.
LEMMA RenderType ==
    ASSUME NEW r \in Records, NEW b \in Builds
    PROVE  Render(r, b) \in Bodies
  BY DEF Records, Bodies, Render

\* Whatever is written behind it, the journal stays a sequence of lines, the
\* lines before the last one stay as they are, and a joined line is never a
\* record.
LEMMA WrittenLines ==
    ASSUME journal \in Seq(Lines), NEW text \in Lines
    PROVE  /\ Written(text) \in Seq(Lines)
           /\ \A i \in DOMAIN Written(text) :
                 \/ Written(text)[i] = text
                 \/ i \in DOMAIN journal /\ Written(text)[i] = journal[i]
                 \/ Written(text)[i] \notin Records
<1>1. CASE tailOpen
  <2>1. Join(journal[Len(journal)], text) \in Lines \ Records
    BY StoreAssumption DEF Join, Lines
  <2>2. Written(text) =
           [i \in 1 .. Len(journal) |->
              IF i = Len(journal) THEN Join(journal[Len(journal)], text) ELSE journal[i]]
    BY <1>1 DEF Written
  <2>3. \A i \in 1 .. Len(journal) : Written(text)[i] \in Lines
    BY <2>1, <2>2
  <2>4. Written(text) \in Seq(Lines)
    BY <2>2, <2>3
  <2>5. QED
    BY <2>1, <2>2, <2>4
<1>2. CASE ~tailOpen
  BY <1>2 DEF Written
<1>3. QED
  BY <1>1, <1>2

\* A prefix of a sequence.
LEMMA Prefix ==
    ASSUME NEW S, NEW s \in Seq(S), NEW k \in 0 .. Len(s)
    PROVE  /\ SubSeq(s, 1, k) \in Seq(S)
           /\ Len(SubSeq(s, 1, k)) = k
           /\ \A i \in 1 .. k : SubSeq(s, 1, k)[i] = s[i]
<1>1. k \in Int /\ 1 \in Int
  OBVIOUS
<1>2. \A i \in 1 .. k : s[i] \in S
  OBVIOUS
<1>3. /\ SubSeq(s, 1, k) \in Seq(S)
      /\ Len(SubSeq(s, 1, k)) = IF 1 <= k THEN k - 1 + 1 ELSE 0
      /\ \A i \in 1 .. k - 1 + 1 : SubSeq(s, 1, k)[i] = s[1 + i - 1]
  BY <1>1, <1>2, SubSeqProperties
<1>4. QED
  BY <1>3

\* A replay that is not refused yields the records of the journal, in
\* sequence, each rendering today to its journaled digest.
LEMMA ReplayedRecords ==
    ASSUME journal \in Seq(Lines), Replayable
    PROVE  /\ Replayed \in Seq(Records)
           /\ DOMAIN Replayed \subseteq DOMAIN journal
           /\ \A i \in DOMAIN Replayed :
                 /\ Replayed[i] = journal[i]
                 /\ Parses(i)
                 /\ InSequence(journal[i], i - 1)
                 /\ DigestMatches(journal[i])
<1>1. \A i \in DOMAIN journal : journal[i] \in Records \cup {Garbled}
  BY DEF Replayable, Tolerated, Parses, Lines
<1>2. \A i \in DOMAIN journal : i # Len(journal) => Parses(i)
  BY DEF Replayable, Tolerated
<1>3. CASE TornTail
  <2>1. /\ Len(journal) \in Nat \ {0}
        /\ Replayed = SubSeq(journal, 1, Len(journal) - 1)
    BY <1>3 DEF TornTail, Replayed
  <2>2. /\ Replayed \in Seq(Lines)
        /\ Len(Replayed) = Len(journal) - 1
        /\ \A i \in 1 .. Len(journal) - 1 : Replayed[i] = journal[i]
    <3>1. Len(journal) - 1 \in 0 .. Len(journal)
      BY <2>1
    <3>2. QED
      BY <2>1, <3>1, Prefix, Zenon
  <2>3. \A i \in DOMAIN Replayed :
           i \in DOMAIN journal /\ Replayed[i] = journal[i] /\ Parses(i)
    BY <1>2, <2>1, <2>2
  <2>4. Replayed \in Seq(Records)
    BY <2>2, <2>3 DEF Parses
  <2>5. QED
    BY <2>3, <2>4 DEF Replayable
<1>4. CASE ~TornTail
  <2>1. Replayed = journal
    BY <1>4 DEF Replayed
  <2>2. \A i \in DOMAIN journal : Parses(i)
    BY <1>1, <1>2, <1>4 DEF TornTail, Parses
  <2>3. journal \in Seq(Records)
    BY <2>2 DEF Parses
  <2>4. QED
    BY <2>1, <2>2, <2>3 DEF Replayable
<1>5. QED
  BY <1>3, <1>4

-----------------------------------------------------------------------------
(* The disk after a step.                                                  *)

\* What the disk must be for the invariant to survive any outage.
DiskOK ==
    /\ journal \in Seq(Lines)
    /\ tailOpen \in BOOLEAN
    /\ files \in [Seqs -> Bodies \cup {Absent, Scrap}]
    /\ JournalAccepted

\* What is left of a record's line is the record, or no record.
LEMMA PartOfRecord ==
    ASSUME NEW r \in Records, NEW text \in PartOf(r)
    PROVE  text \in Lines /\ (text = r \/ text \notin Records)
  BY StoreAssumption DEF PartOf, Lines

\* Writing a part of the accepted record, or all of it, leaves such a disk.
LEMMA WrittenAccepted ==
    ASSUME journal \in Seq(Lines), JournalAccepted,
           cur \in Records, cur.body_digest \in accepted, accepted' = accepted,
           NEW text \in PartOf(cur) \cup {cur}, journal' = Written(text)
    PROVE  journal' \in Seq(Lines) /\ JournalAccepted'
<1>1. text = cur \/ text \notin Records
  BY PartOfRecord
<1>2. text \in Lines
  BY PartOfRecord DEF Lines
<1>3. QED
  BY <1>1, <1>2, WrittenLines DEF JournalAccepted, Parses

LEMMA PartialLineDisk ==
    ASSUME IInv, Appending, accepted' = accepted, PartialLine(cur), UNCHANGED files
    PROVE  DiskOK'
<1>1. /\ journal \in Seq(Lines) /\ tailOpen \in BOOLEAN /\ JournalAccepted
      /\ files \in [Seqs -> Bodies \cup {Absent, Scrap}]
      /\ cur \in Records /\ cur.body_digest \in accepted
  BY DEF IInv, TypeOK, AppendInv
<1>2. CASE UNCHANGED <<journal, tailOpen>>
  BY <1>1, <1>2 DEF DiskOK, JournalAccepted, Parses
<1>3. CASE \E text \in PartOf(cur) : journal' = Written(text) /\ tailOpen' = TRUE
  <2>1. PICK text \in PartOf(cur) : journal' = Written(text) /\ tailOpen' = TRUE
    BY <1>3
  <2>2. journal' \in Seq(Lines) /\ JournalAccepted'
    BY <1>1, <2>1, WrittenAccepted
  <2>3. QED
    BY <1>1, <2>1, <2>2 DEF DiskOK
<1>4. QED
  BY <1>2, <1>3 DEF PartialLine

\* Putting one file in any legal state leaves such a disk.
LEMMA FileDisk ==
    ASSUME IInv, accepted' = accepted, UNCHANGED <<journal, tailOpen>>,
           NEW n \in Seqs, NEW left \in Bodies \cup {Absent, Scrap},
           files' = [files EXCEPT ![n] = left]
    PROVE  DiskOK'
  BY DEF IInv, TypeOK, DiskOK, JournalAccepted, Parses

LEMMA SameDisk ==
    ASSUME IInv, accepted' = accepted, UNCHANGED disk
    PROVE  DiskOK'
  BY DEF IInv, TypeOK, DiskOK, disk, JournalAccepted, Parses

\* With such a disk, the process may vanish,
LEMMA VanishInv ==
    ASSUME IInv, DiskOK', Vanish
    PROVE  IInv'
<1>1. TypeOK'
  BY DEF IInv, TypeOK, DiskOK, Vanish, history
<1>2. QED
  BY <1>1 DEF IInv, DiskOK, Vanish, history, Spine, AppendInv, Appending, ClosedInv,
     Closed, FilesInv, Serving, RecordsAccepted, Authentic

\* give up starting,
LEMMA GiveUpInv ==
    ASSUME IInv, phase = "verify", DiskOK', GiveUp
    PROVE  IInv'
<1>1. TypeOK'
  BY DEF IInv, TypeOK, DiskOK, GiveUp, history
<1>2. QED
  BY <1>1 DEF IInv, DiskOK, GiveUp, history, Spine, AppendInv, Appending, ClosedInv,
     Closed, FilesInv, Serving, RecordsAccepted, Authentic

\* or stay away while the environment acts.
LEMMA OutageInv ==
    ASSUME IInv, Closed, DiskOK', build' \in Builds,
           UNCHANGED <<records, phase, cur, cursor, history>>
    PROVE  IInv'
<1>1. TypeOK'
  BY DEF IInv, TypeOK, DiskOK, history
<1>2. records = <<>>
  BY DEF IInv, ClosedInv
<1>3. QED
  BY <1>1, <1>2 DEF IInv, DiskOK, history, Spine, AppendInv, Appending, ClosedInv,
     Closed, FilesInv, Serving, RecordsAccepted, Authentic

-----------------------------------------------------------------------------
(* The invariant is inductive.                                             *)

LEMMA InitInv == Init => IInv
<1> SUFFICES ASSUME Init PROVE IInv
  OBVIOUS
<1>1. journal \in Seq(Lines) /\ records \in Seq(Records)
  BY EmptySeq DEF Init
<1>2. DOMAIN journal = {} /\ DOMAIN records = {}
  BY DEF Init
<1>3. TypeOK
  <2>1. files \in [Seqs -> Bodies \cup {Absent, Scrap}]
    BY DEF Init
  <2>2. tailOpen \in BOOLEAN /\ phase = "down" /\ cur = None /\ cursor = 1
    BY DEF Init
  <2>3. QED
    BY <1>1, <2>1, <2>2 DEF Init, TypeOK
<1>4. Spine /\ JournalAccepted /\ RecordsAccepted
  BY <1>2 DEF Spine, JournalAccepted, RecordsAccepted
<1>5. QED
  BY <1>3, <1>4 DEF Init, IInv, AppendInv, Appending, ClosedInv, FilesInv, Serving, Authentic

\* The record whose file is verified next.
LEMMA CursorRecord ==
    ASSUME TypeOK, Verifying
    PROVE  /\ cursor \in DOMAIN records
           /\ records[cursor] \in Records
           /\ records[cursor].seq \in Seqs
           /\ Body \in Bodies
           /\ File \in Bodies \cup {Absent, Scrap}
<1>1. cursor \in DOMAIN records /\ records[cursor] \in Records
  BY DEF TypeOK, Verifying
<1>2. records[cursor].seq \in Seqs
  BY <1>1 DEF Records
<1>3. Body \in Bodies
  BY <1>1, RenderType DEF Body, TypeOK
<1>4. QED
  BY <1>1, <1>2, <1>3 DEF File, TypeOK

\* Opening: the replayed index is in sequence and accepted, and the cursor
\* has passed every file it calls good.
LEMMA OpenInv == ASSUME IInv, Open PROVE IInv'
<1> USE DEF history, disk
<1>1. CASE Replay
  <2>1. /\ records' \in Seq(Records)
        /\ \A i \in DOMAIN records' :
              /\ i \in DOMAIN journal
              /\ records'[i] = journal[i]
              /\ Parses(i)
              /\ InSequence(journal[i], i - 1)
              /\ DigestMatches(journal[i])
    BY <1>1, ReplayedRecords DEF Replay, IInv, TypeOK
  <2>2. TypeOK' /\ JournalAccepted'
    BY <1>1, <2>1 DEF Replay, IInv, TypeOK, JournalAccepted, Parses
  <2>3. Spine'
    BY <2>1 DEF Spine, InSequence
  <2>4. RecordsAccepted'
    BY <1>1, <2>1 DEF Replay, RecordsAccepted, IInv, JournalAccepted, DigestMatches
  <2>5. FilesInv'
    BY <1>1, <2>1 DEF Replay, FilesInv, Serving
  <2>6. QED
    BY <1>1, <2>2, <2>3, <2>4, <2>5 DEF Replay, IInv, AppendInv, Appending, ClosedInv,
       Closed, Authentic
<1>2. CASE RefuseJournal
  <2>1. TypeOK' /\ JournalAccepted' /\ records = <<>>
    BY <1>2 DEF RefuseJournal, IInv, TypeOK, JournalAccepted, Parses, ClosedInv
  <2>2. QED
    BY <1>2, <2>1 DEF RefuseJournal, IInv, Spine, AppendInv, Appending, ClosedInv,
       Closed, FilesInv, Serving, RecordsAccepted, Authentic
<1>3. CASE FileMatches
  <2>1. TypeOK' /\ JournalAccepted' /\ Spine' /\ RecordsAccepted'
    BY <1>3 DEF FileMatches, IInv, TypeOK, JournalAccepted, Parses, Spine, RecordsAccepted
  <2>2. FilesInv'
    BY <1>3 DEF FileMatches, Verifying, File, Body, IInv, TypeOK, FilesInv, FileGood, Serving
  <2>3. QED
    BY <1>3, <2>1, <2>2 DEF FileMatches, Verifying, IInv, AppendInv, Appending, ClosedInv,
       Closed, Authentic
<1>4. CASE Rematerialize
  <2>1. /\ cursor \in DOMAIN records /\ records[cursor] \in Records
        /\ records[cursor].seq \in Seqs /\ Body \in Bodies
        /\ files' = [files EXCEPT ![records[cursor].seq] = Body]
    BY <1>4, CursorRecord DEF Rematerialize, Rematerialized, IInv
  <2>2. TypeOK' /\ JournalAccepted' /\ Spine' /\ RecordsAccepted'
    BY <1>4, <2>1 DEF Rematerialize, IInv, TypeOK, JournalAccepted, Parses, Spine,
       RecordsAccepted
  <2>3. \A i \in DOMAIN records : i # cursor => records[i].seq # records[cursor].seq
    BY <2>1 DEF IInv, TypeOK, Spine
  <2>4. FilesInv'
    BY <1>4, <2>1, <2>3 DEF Rematerialize, Verifying, Body, IInv, TypeOK, FilesInv,
       FileGood, Serving
  <2>5. QED
    BY <1>4, <2>2, <2>4 DEF Rematerialize, Verifying, IInv, AppendInv, Appending,
       ClosedInv, Closed, Authentic
<1>5. CASE RefuseFile
  <2>1. DiskOK'
    BY <1>5, SameDisk DEF RefuseFile, GiveUp
  <2>2. QED
    BY <1>5, <2>1, GiveUpInv DEF RefuseFile, Verifying
<1>6. CASE RematerializeFails
  <2>1. PICK left \in {File, Scrap} :
           files' = [files EXCEPT ![records[cursor].seq] = left]
    BY <1>6 DEF RematerializeFails
  <2>2. records[cursor].seq \in Seqs /\ left \in Bodies \cup {Absent, Scrap}
    BY <1>6, <2>1, CursorRecord DEF RematerializeFails, IInv
  <2>3. DiskOK'
    BY <1>6, <2>1, <2>2, FileDisk DEF RematerializeFails, GiveUp
  <2>4. QED
    BY <1>6, <2>3, GiveUpInv DEF RematerializeFails, Verifying
<1>7. CASE Opened
  <2>1. TypeOK'
    BY <1>7, RenderType DEF Opened, IInv, TypeOK, Rendered
  <2>2. JournalAccepted' /\ Spine' /\ RecordsAccepted'
    BY <1>7 DEF Opened, IInv, JournalAccepted, Parses, Spine, RecordsAccepted
  <2>3. FilesInv'
    BY <1>7 DEF Opened, Verifying, IInv, TypeOK, FilesInv, FileGood, Serving
  <2>4. Authentic'
    BY <1>7 DEF Opened, IInv, Authentic, RecordsAccepted, Rendered
  <2>5. QED
    BY <1>7, <2>1, <2>2, <2>3, <2>4 DEF Opened, IInv, AppendInv, Appending, ClosedInv, Closed
<1>8. QED
  BY <1>1, <1>2, <1>3, <1>4, <1>5, <1>6, <1>7 DEF Open

\* A write of append_snapshot that fails leaves an idle service whose files
\* are good, provided the file of no served record was touched.
LEMMA AbandonInv ==
    ASSUME IInv, Appending, DiskOK', Abandon,
           \A i \in DOMAIN records : files'[records[i].seq] = files[records[i].seq]
    PROVE  IInv'
<1>1. TypeOK'
  BY DEF IInv, TypeOK, DiskOK, Abandon, history
<1>2. FilesInv'
  BY DEF IInv, Abandon, history, Appending, FilesInv, FileGood, Serving
<1>3. QED
  BY <1>1, <1>2 DEF IInv, DiskOK, Abandon, history, Spine, AppendInv, Appending,
     ClosedInv, Closed, RecordsAccepted, Authentic

\* The record being appended is no record of the index.
LEMMA CurIsNew ==
    ASSUME IInv, Appending
    PROVE  /\ cur \in Records /\ cur.seq \in Seqs
           /\ Render(cur, build) \in Bodies
           /\ \A i \in DOMAIN records : records[i].seq # cur.seq
<1>1. cur \in Records /\ cur.seq = Len(records)
  BY DEF IInv, AppendInv
<1>2. cur.seq \in Seqs
  BY <1>1 DEF Records
<1>3. Render(cur, build) \in Bodies
  BY <1>1, RenderType DEF IInv, TypeOK
<1>4. \A i \in DOMAIN records : records[i].seq = i - 1 /\ i \in 1 .. Len(records)
  BY DEF IInv, TypeOK, Spine
<1>5. QED
  BY <1>1, <1>2, <1>3, <1>4

\* append_snapshot: only the due, freshly accepted record is written.
LEMMA IngestInv == ASSUME IInv, Ingest PROVE IInv'
<1> USE DEF history, disk
<1>1. ASSUME NEW r \in Offered, AppendSnapshot(r) PROVE IInv'
  <2>1. r \in Records
    BY DEF Offered, Records, Bodies, IInv, TypeOK
  <2>2. Render(r, build) \in Bodies
    BY <2>1, RenderType DEF IInv, TypeOK
  <2>3. TypeOK'
    BY <1>1, <2>1, <2>2 DEF AppendSnapshot, IInv, TypeOK
  <2>4. AppendInv'
    BY <1>1, <2>1 DEF AppendSnapshot, Appendable, InSequence, DigestMatches, AppendInv
  <2>5. /\ Spine' /\ ClosedInv' /\ JournalAccepted' /\ RecordsAccepted' /\ Authentic'
    BY <1>1 DEF AppendSnapshot, IInv, Spine, ClosedInv, Closed, JournalAccepted, Parses,
       RecordsAccepted, Authentic
  <2>6. FilesInv'
    BY <1>1 DEF AppendSnapshot, IInv, FilesInv, FileGood, Serving
  <2>7. QED
    BY <2>3, <2>4, <2>5, <2>6 DEF IInv
<1>2. CASE WriteLine
  <2>1. DiskOK'
    <3>1. CASE Journaled
      <4>1. journal' = Written(cur)
        BY <1>2, <3>1 DEF WriteLine, WholeLine
      <4>2. journal' \in Seq(Lines) /\ JournalAccepted'
        BY <1>2, <4>1, WrittenAccepted DEF WriteLine, IInv, TypeOK, AppendInv, Appending
      <4>3. QED
        BY <1>2, <3>1, <4>2 DEF WriteLine, WholeLine, LineEnded, IInv, TypeOK, DiskOK
    <3>2. CASE ~Journaled
      BY <1>2, <3>2, SameDisk DEF WriteLine
    <3>3. QED
      BY <3>1, <3>2
  <2>2. TypeOK'
    BY <1>2, <2>1 DEF WriteLine, IInv, TypeOK, DiskOK
  <2>3. FilesInv'
    BY <1>2 DEF WriteLine, IInv, FilesInv, FileGood, Serving
  <2>4. QED
    BY <1>2, <2>1, <2>2, <2>3 DEF WriteLine, IInv, DiskOK, Spine, AppendInv, Appending,
       ClosedInv, Closed, RecordsAccepted, Authentic
<1>3. CASE WriteFile
  <2>1. /\ cur \in Records /\ cur.seq \in Seqs
        /\ Render(cur, build) \in Bodies
        /\ \A i \in DOMAIN records : records[i].seq # cur.seq
    BY <1>3, CurIsNew DEF WriteFile, Appending
  <2>2. TypeOK'
    BY <1>3, <2>1 DEF WriteFile, IInv, TypeOK
  <2>3. FilesInv'
    <3>1. SUFFICES ASSUME FileStore
                   PROVE  /\ \A i \in DOMAIN records : FileGood(i)'
                          /\ files'[cur.seq] = Render(cur, build)
      BY <1>3 DEF WriteFile, FilesInv, Serving
    <3>2. files' = [files EXCEPT ![cur.seq] = Render(cur, build)]
      BY <1>3, <3>1 DEF WriteFile
    <3>3. files \in [Seqs -> Bodies \cup {Absent, Scrap}]
      BY DEF IInv, TypeOK
    <3>4. \A i \in DOMAIN records : FileGood(i)
      BY <1>3, <3>1 DEF WriteFile, IInv, FilesInv, Serving
    <3>5. \A i \in DOMAIN records : FileGood(i)'
      BY <1>3, <2>1, <3>2, <3>3, <3>4 DEF WriteFile, FileGood
    <3>6. QED
      BY <2>1, <3>2, <3>3, <3>5
  <2>4. QED
    BY <1>3, <2>2, <2>3 DEF WriteFile, IInv, JournalAccepted, Parses, Spine, AppendInv,
       Appending, ClosedInv, Closed, RecordsAccepted, Authentic
<1>4. CASE Push
  <2>1. /\ cur \in Records /\ cur.seq = Len(records)
        /\ Render(cur, build) \in Bodies /\ Render(cur, build) \in accepted
        /\ records \in Seq(Records)
        /\ records' = Append(records, cur)
    BY <1>4, CurIsNew DEF Push, Appending, IInv, AppendInv, TypeOK
  <2>2. /\ records' \in Seq(Records)
        /\ DOMAIN records' = 1 .. Len(records) + 1
        /\ \A i \in DOMAIN records' :
              \/ i \in DOMAIN records /\ records'[i] = records[i]
              \/ i = Len(records) + 1 /\ records'[i] = cur
    BY <2>1
  <2>3. TypeOK'
    BY <1>4, <2>1, <2>2 DEF Push, IInv, TypeOK
  <2>4. Spine'
    BY <2>1, <2>2 DEF IInv, Spine
  <2>5. RecordsAccepted' /\ JournalAccepted' /\ Authentic'
    BY <1>4, <2>1, <2>2 DEF Push, IInv, RecordsAccepted, JournalAccepted, Parses, Authentic
  <2>6. FilesInv'
    BY <1>4, <2>2 DEF Push, IInv, FilesInv, FileGood, Serving
  <2>7. QED
    BY <1>4, <2>3, <2>4, <2>5, <2>6 DEF Push, IInv, AppendInv, Appending, ClosedInv, Closed
<1>5. CASE LineFails
  <2>1. DiskOK'
    BY <1>5, PartialLineDisk DEF LineFails, Appending, Abandon
  <2>2. QED
    BY <1>5, <2>1, AbandonInv DEF LineFails, Appending
<1>6. CASE FileFails
  <2>1. PICK left \in {files[cur.seq], Scrap} : files' = [files EXCEPT ![cur.seq] = left]
    BY <1>6 DEF FileFails
  <2>2. /\ cur.seq \in Seqs /\ left \in Bodies \cup {Absent, Scrap}
        /\ \A i \in DOMAIN records : records[i].seq # cur.seq
    BY <1>6, <2>1, CurIsNew DEF FileFails, Appending, IInv, TypeOK
  <2>3. DiskOK'
    BY <1>6, <2>1, <2>2, FileDisk DEF FileFails, Abandon
  <2>4. \A i \in DOMAIN records : files'[records[i].seq] = files[records[i].seq]
    BY <2>1, <2>2 DEF IInv, TypeOK
  <2>5. QED
    BY <1>6, <2>3, <2>4, AbandonInv DEF FileFails, Appending
<1>7. QED
  BY <1>1, <1>2, <1>3, <1>4, <1>5, <1>6 DEF Ingest

\* The process ends, and what the disk loses or tears was its to lose.
LEMMA EndInv == ASSUME IInv, End PROVE IInv'
<1>1. CASE Stop \/ Crash
  BY <1>1, SameDisk, VanishInv DEF Stop, Crash, Vanish, history
<1>2. CASE CrashInLine
  BY <1>2, PartialLineDisk, VanishInv DEF CrashInLine, Vanish, history, Appending
<1>3. CASE CrashInFile
  <2>1. cur.seq \in Seqs
    BY <1>3, CurIsNew DEF CrashInFile, Appending
  <2>2. DiskOK'
    BY <1>3, <2>1, FileDisk DEF CrashInFile, Vanish, history
  <2>3. QED
    BY <1>3, <2>2, VanishInv DEF CrashInFile
<1>4. CASE CrashInRematerialize
  <2>1. records[cursor].seq \in Seqs
    BY <1>4, CursorRecord DEF CrashInRematerialize, IInv
  <2>2. DiskOK'
    BY <1>4, <2>1, FileDisk DEF CrashInRematerialize, Vanish, history
  <2>3. QED
    BY <1>4, <2>2, VanishInv DEF CrashInRematerialize
<1>5. CASE PowerLoss
  <2>1. journal \in Seq(Lines) /\ JournalAccepted /\ accepted' = accepted
    BY <1>5 DEF IInv, TypeOK, PowerLoss, Vanish, history
  <2>2. ASSUME NEW k \in 0 .. Len(journal), EndsBehind(k)
        PROVE  journal' \in Seq(Lines) /\ tailOpen' \in BOOLEAN /\ JournalAccepted'
    <3>1. /\ journal' \in Seq(Lines)
          /\ Len(journal') = k
          /\ \A i \in 1 .. k : journal'[i] = journal[i]
      BY <2>1, <2>2, Prefix DEF EndsBehind
    <3>2. JournalAccepted'
      BY <2>1, <3>1 DEF JournalAccepted, Parses
    <3>3. QED
      BY <2>2, <3>1, <3>2 DEF EndsBehind
  <2>3. ASSUME NEW k \in DOMAIN journal, EndsInside(k)
        PROVE  journal' \in Seq(Lines) /\ tailOpen' \in BOOLEAN /\ JournalAccepted'
    <3>1. PICK text : /\ text \in IF Parses(k) THEN PartOf(journal[k]) ELSE {journal[k]}
                      /\ journal' = Append(SubSeq(journal, 1, k - 1), text)
      BY <2>3 DEF EndsInside
    <3>2. text \in Lines /\ (text = journal[k] \/ text \notin Records)
      BY <2>1, <3>1, PartOfRecord DEF Parses
    <3>3. k - 1 \in 0 .. Len(journal) /\ k \in Nat
      BY <2>1
    <3>4. /\ SubSeq(journal, 1, k - 1) \in Seq(Lines)
          /\ Len(SubSeq(journal, 1, k - 1)) = k - 1
          /\ \A i \in 1 .. k - 1 : SubSeq(journal, 1, k - 1)[i] = journal[i]
      BY <2>1, <3>3, Prefix
    <3>5. /\ journal' \in Seq(Lines)
          /\ DOMAIN journal' = 1 .. k
          /\ \A i \in 1 .. k : journal'[i] = IF i = k THEN text ELSE journal[i]
      BY <3>1, <3>2, <3>3, <3>4
    <3>6. JournalAccepted'
      BY <2>1, <3>2, <3>5 DEF JournalAccepted, Parses
    <3>7. QED
      BY <2>3, <3>5, <3>6 DEF EndsInside
  <2>4. journal' \in Seq(Lines) /\ tailOpen' \in BOOLEAN /\ JournalAccepted'
    BY <1>5, <2>2, <2>3 DEF PowerLoss
  <2>5. files' \in [Seqs -> Bodies \cup {Absent, Scrap}]
    BY <1>5 DEF PowerLoss, IInv, TypeOK
  <2>6. DiskOK'
    BY <2>4, <2>5 DEF DiskOK
  <2>7. QED
    BY <1>5, <2>6, VanishInv DEF PowerLoss
<1>6. QED
  BY <1>1, <1>2, <1>3, <1>4, <1>5 DEF End

\* Damage while no process runs: a rotten line keeps the digest it had or is
\* no record any more.
LEMMA OutageStepInv == ASSUME IInv, Outage PROVE IInv'
<1>1. ASSUME NEW n \in Seqs, LoseFile(n) \/ RotFile(n) PROVE IInv'
  <2>1. PICK left \in {Absent, Scrap} : files' = [files EXCEPT ![n] = left]
    BY <1>1 DEF LoseFile, RotFile
  <2>2. DiskOK'
    BY <1>1, <2>1, FileDisk DEF LoseFile, RotFile, history
  <2>3. QED
    BY <1>1, <2>2, OutageInv DEF LoseFile, RotFile, IInv, TypeOK
<1>2. ASSUME NEW i \in DOMAIN journal, RotLine(i) PROVE IInv'
  <2>1. PICK line \in {Garbled, BadUtf8, BlankLine}
                        \cup { [journal[i] EXCEPT !.doc = d] : d \in Docs } :
           journal' = [journal EXCEPT ![i] = line]
    BY <1>2 DEF RotLine
  <2>2. /\ journal \in Seq(Lines) /\ JournalAccepted /\ accepted' = accepted
        /\ journal[i] \in Records /\ journal[i].body_digest \in accepted
    BY <1>2 DEF IInv, TypeOK, RotLine, Parses, JournalAccepted, history
  <2>3. \A d \in Docs :
           /\ [journal[i] EXCEPT !.doc = d] \in Records
           /\ [journal[i] EXCEPT !.doc = d].body_digest = journal[i].body_digest
    BY <2>2 DEF Records
  <2>4. line \in Lines /\ (line \in Records => line.body_digest \in accepted)
    BY <2>1, <2>2, <2>3, StoreAssumption DEF Lines
  <2>5. /\ journal' \in Seq(Lines)
        /\ Len(journal') = Len(journal)
        /\ \A j \in 1 .. Len(journal) : journal'[j] = IF j = i THEN line ELSE journal[j]
    BY <2>1, <2>2, <2>4, ExceptSeq
  <2>6. JournalAccepted'
    BY <2>2, <2>4, <2>5 DEF JournalAccepted, Parses
  <2>7. DiskOK'
    BY <1>2, <2>5, <2>6 DEF DiskOK, RotLine, IInv, TypeOK
  <2>8. QED
    BY <1>2, <2>7, OutageInv DEF RotLine, IInv, TypeOK
<1>3. ASSUME NEW b \in Builds, Upgrade(b) PROVE IInv'
  <2>1. DiskOK'
    BY <1>3, SameDisk DEF Upgrade, history
  <2>2. QED
    BY <1>3, <2>1, OutageInv DEF Upgrade
<1>4. QED
  BY <1>1, <1>2, <1>3 DEF Outage

LEMMA StepInv == IInv /\ [Next]_vars => IInv'
<1>1. ASSUME IInv, UNCHANGED vars PROVE IInv'
  <2>1. DiskOK'
    BY <1>1, SameDisk DEF vars, disk, history
  <2>2. QED
    BY <1>1, <2>1 DEF IInv, DiskOK, vars, disk, history, TypeOK, Spine, AppendInv,
       Appending, ClosedInv, Closed, FilesInv, FileGood, Serving, RecordsAccepted, Authentic
<1>2. QED
  BY <1>1, OpenInv, IngestInv, EndInv, OutageStepInv DEF Next

-----------------------------------------------------------------------------
(* What it gives.                                                          *)

LEMMA StoreInv == Spec => []IInv
  BY InitInv, StepInv, PTL DEF Spec

\* Every reachable state of the store, under every combination of faults,
\* has the shapes TypeOK lists.
THEOREM StoreTypeOK == Spec => []TypeOK
<1>1. IInv => TypeOK
  BY DEF IInv
<1>2. QED
  BY <1>1, StoreInv, PTL

\* The index is gap-free and holds each id once, whatever lies in the
\* journal that open replays.
THEOREM StoreSpine == Spec => []Spine
<1>1. IInv => Spine
  BY DEF IInv
<1>2. QED
  BY <1>1, StoreInv, PTL

\* A service that runs has verified or written the AIP file of every record
\* it serves; torn, rotten, lost or stale files never survive a start.
THEOREM StoreFilesTrue == Spec => []FilesTrue
<1>1. IInv => FilesTrue
  BY DEF IInv, FilesInv, FileGood, FilesTrue
<1>2. QED
  BY <1>1, StoreInv, PTL

\* Whatever happens to the disk and whichever renderer replays it, no bytes
\* are served that were not accepted as a sealed package.
THEOREM StoreAuthentic == Spec => []Authentic
<1>1. IInv => Authentic
  BY DEF IInv
<1>2. QED
  BY <1>1, StoreInv, PTL
==============================================================================
