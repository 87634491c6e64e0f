----------------------- MODULE SnapshotStoreCrashProofs -----------------------
(***************************************************************************)
(* What a journaled store guarantees as long as journal lines are written  *)
(* whole: everything published is served again, the same.  If AIP files    *)
(* are written whole too and the renderer stays, every start succeeds, AIP *)
(* files are immutable, and the store implements module Archive.           *)
(***************************************************************************)
EXTENDS SnapshotStoreProofs

\* The journal is only ever extended by whole lines, and only lost with the
\* machine.  A torn AIP file or another renderer may stop the service.
WholeLines == Journaled /\ Faults \subseteq {"crash", "lost_file", "torn_file", "upgrade"}

\* Nothing but deaths between writes and disappearing AIP files.
PlainCrashes == Journaled /\ Faults \subseteq {"crash", "lost_file"}

LinesInv ==
    /\ tailOpen = FALSE
    /\ \A i \in DOMAIN journal : Parses(i) /\ journal[i].seq = i - 1
    /\ ~Closed => \A i \in DOMAIN journal : DigestMatches(journal[i])

\* The index is the journal, up to the line whose record is not pushed yet.
IndexInv ==
    /\ phase \in {"verify", "idle", "line"} => records = journal
    /\ phase \in {"file", "push"} => journal = Append(records, cur)

\* Every published package is the one its journal line was sealed with, and
\* it is in the index of a process that serves.
PublishedInv ==
    /\ \A p \in published :
          p.seq + 1 \in DOMAIN journal /\ journal[p.seq + 1].body_digest = p
    /\ Serving => \A p \in published : p.seq + 1 \in DOMAIN records

JInv == LinesInv /\ IndexInv /\ PublishedInv

-----------------------------------------------------------------------------
LEMMA InitJInv == Init => JInv
  BY DEF Init, JInv, LinesInv, IndexInv, PublishedInv, Serving, Closed

\* Replay returns the journal, when all its lines are whole.
LEMMA ReplayedJournal ==
    ASSUME IInv, JInv
    PROVE  Replayed = journal
<1>1. journal # <<>> => Len(journal) \in DOMAIN journal
  BY DEF IInv, TypeOK
<1>2. ~TornTail
  BY <1>1, StoreAssumption DEF TornTail, JInv, LinesInv, Parses
<1>3. QED
  BY <1>2 DEF Replayed

\* A step that leaves the journal and the index alone, and lets nobody serve
\* or verify who did not.
LEMMA JInvKept ==
    ASSUME JInv, UNCHANGED <<journal, tailOpen, records, published, build, cur>>,
           phase' = phase \/ phase' = "refused"
    PROVE  JInv'
  BY DEF JInv, LinesInv, IndexInv, PublishedInv, Serving, Closed, Parses, DigestMatches

\* The process is gone.
LEMMA JInvClosed ==
    ASSUME JInv, UNCHANGED <<journal, tailOpen, published>>, phase' \in {"down", "refused"}
    PROVE  JInv'
  BY DEF JInv, LinesInv, IndexInv, PublishedInv, Serving, Closed, Parses

LEMMA OpenJInv == ASSUME WholeLines, IInv, JInv, Open PROVE JInv'
<1> USE DEF history, disk
<1>1. CASE Replay
  <2>1. records' = journal
    BY <1>1, ReplayedJournal DEF Replay
  <2>2. \A i \in DOMAIN journal : DigestMatches(journal[i])
    BY <1>1 DEF Replay, Replayable, JInv, LinesInv
  <2>3. QED
    BY <1>1, <2>1, <2>2 DEF Replay, JInv, LinesInv, IndexInv, PublishedInv, Serving,
       Closed, Parses, DigestMatches
<1>2. CASE RefuseJournal
  BY <1>2, JInvClosed DEF RefuseJournal
<1>3. CASE FileMatches \/ Rematerialize
  BY <1>3, JInvKept DEF FileMatches, Rematerialize
<1>4. CASE RefuseFile \/ RematerializeFails
  BY <1>4, JInvClosed DEF RefuseFile, RematerializeFails, GiveUp
<1>5. CASE Opened
  <2>1. records = journal /\ phase = "verify" /\ phase' = "idle"
    BY <1>5 DEF Opened, JInv, IndexInv
  <2>2. ASSUME NEW p \in published'
        PROVE  p.seq + 1 \in DOMAIN journal /\ journal[p.seq + 1].body_digest = p
    <3>1. CASE p \in published
      BY <3>1 DEF JInv, PublishedInv
    <3>2. CASE p \in Rendered(records)
      <4>1. PICK i \in DOMAIN journal : p = Render(journal[i], build)
        BY <2>1, <3>2 DEF Rendered
      <4>2. p = journal[i].body_digest /\ journal[i].seq = i - 1
        BY <2>1, <4>1 DEF JInv, LinesInv, Closed, DigestMatches
      <4>3. p.seq = i - 1 /\ i \in Int
        BY <4>1, <4>2 DEF Render, IInv, TypeOK
      <4>4. QED
        BY <4>2, <4>3
    <3>3. QED
      BY <1>5, <3>1, <3>2 DEF Opened
  <2>3. PublishedInv'
    BY <1>5, <2>1, <2>2 DEF Opened, PublishedInv
  <2>4. QED
    BY <1>5, <2>1, <2>3 DEF Opened, JInv, LinesInv, IndexInv, Closed, Parses, DigestMatches
<1>6. QED
  BY <1>1, <1>2, <1>3, <1>4, <1>5 DEF Open

LEMMA IngestJInv == ASSUME WholeLines, IInv, JInv, Ingest PROVE JInv'
<1> USE DEF history, disk
<1>1. ASSUME NEW r \in Offered, AppendSnapshot(r) PROVE JInv'
  BY <1>1 DEF AppendSnapshot, JInv, LinesInv, IndexInv, PublishedInv, Serving, Closed,
     Parses, DigestMatches
<1>2. CASE WriteLine
  <2>1. /\ journal' = Append(journal, cur) /\ tailOpen' = FALSE
        /\ records = journal /\ records' = records /\ build' = build /\ cur' = cur
        /\ phase = "line" /\ phase' = "file" /\ published' = published
    BY <1>2 DEF WriteLine, WholeLine, LineEnded, Written, WholeLines, JInv, LinesInv, IndexInv
  <2>2. /\ cur \in Records /\ cur.seq = Len(journal) /\ DigestMatches(cur)
        /\ journal \in Seq(Lines)
    BY <2>1 DEF IInv, TypeOK, AppendInv, Appending, DigestMatches
  <2>3. /\ DOMAIN journal' = 1 .. Len(journal) + 1
        /\ DOMAIN journal = 1 .. Len(journal)
        /\ \A i \in DOMAIN journal' :
              \/ i \in DOMAIN journal /\ journal'[i] = journal[i]
              \/ i = Len(journal) + 1 /\ journal'[i] = cur
        /\ \A i \in DOMAIN journal : journal'[i] = journal[i]
    BY <2>1, <2>2 DEF Lines
  <2>4. LinesInv'
    BY <2>1, <2>2, <2>3 DEF JInv, LinesInv, Closed, Parses, DigestMatches
  <2>5. IndexInv'
    BY <2>1 DEF IndexInv
  <2>6. PublishedInv'
    BY <2>1, <2>3 DEF JInv, PublishedInv, Serving
  <2>7. QED
    BY <2>4, <2>5, <2>6 DEF JInv
<1>3. CASE WriteFile
  BY <1>3 DEF WriteFile, JInv, LinesInv, IndexInv, PublishedInv, Serving, Closed, Parses,
     DigestMatches
<1>4. CASE Push
  <2>1. /\ records' = journal /\ journal' = journal /\ tailOpen' = tailOpen
        /\ journal = Append(records, cur) /\ build' = build
        /\ phase = "push" /\ phase' = "idle"
        /\ published' = published \cup {Render(cur, build)}
    BY <1>4 DEF Push, JInv, IndexInv
  <2>2. /\ cur \in Records /\ cur.seq = Len(records)
        /\ cur.body_digest = Render(cur, build) /\ records \in Seq(Records)
    BY <2>1 DEF IInv, TypeOK, AppendInv, Appending
  <2>3. Len(records) + 1 \in DOMAIN journal /\ journal[Len(records) + 1] = cur
    BY <2>1, <2>2
  <2>4. Render(cur, build).seq = Len(records)
    BY <2>2 DEF Render
  <2>5. PublishedInv'
    BY <2>1, <2>2, <2>3, <2>4 DEF JInv, PublishedInv
  <2>6. QED
    BY <2>1, <2>5 DEF JInv, LinesInv, IndexInv, Closed, Parses, DigestMatches
<1>5. ~LineFails /\ ~FileFails
  BY DEF LineFails, FileFails, WholeLines
<1>6. QED
  BY <1>1, <1>2, <1>3, <1>4, <1>5 DEF Ingest

LEMMA StepJInv == WholeLines /\ IInv /\ JInv /\ [Next]_vars => JInv'
<1> SUFFICES ASSUME WholeLines, IInv, JInv, [Next]_vars PROVE JInv'
  OBVIOUS
<1>1. ASSUME End PROVE JInv'
  BY <1>1, JInvClosed DEF End, Stop, Crash, CrashInLine, CrashInFile, CrashInRematerialize,
     PowerLoss, Vanish, WholeLines, history, disk
<1>2. ASSUME Outage PROVE JInv'
  <2>1. /\ \A n \in Seqs : ~RotFile(n)
        /\ \A i \in DOMAIN journal : ~RotLine(i)
    BY DEF RotFile, RotLine, WholeLines
  <2>2. UNCHANGED <<journal, tailOpen, published, phase>> /\ Closed
    BY <1>2, <2>1 DEF Outage, LoseFile, Upgrade, history, disk
  <2>3. QED
    BY <2>2, JInvClosed DEF Closed
<1>3. ASSUME UNCHANGED vars PROVE JInv'
  BY <1>3, JInvKept DEF vars
<1>4. QED
  BY <1>1, <1>2, <1>3, OpenJInv, IngestJInv DEF Next

\* Lookup by id finds the record at its place in the index.
LEMMA GetRecord ==
    ASSUME IInv, NEW i \in DOMAIN records
    PROVE  Holds(i - 1) /\ Get(i - 1) = Render(records[i], build)
<1>1. DOMAIN records = 1 .. Len(records) /\ Len(records) \in Nat
  BY DEF IInv, TypeOK
<1>2. \A j \in DOMAIN records : records[j].seq = i - 1 <=> j = i
  BY <1>1 DEF IInv, Spine
<1>3. DEFINE First(j) == records[j].seq = i - 1 /\ \A k \in 1 .. j - 1 : records[k].seq # i - 1
<1>4. \A j \in DOMAIN records : First(j) <=> j = i
  BY <1>1, <1>2
<1>5. (CHOOSE j \in DOMAIN records : First(j)) = i
  BY <1>4
<1>6. QED
  BY <1>2, <1>5 DEF Holds, Get

-----------------------------------------------------------------------------
\* A package that a reader may have been given is served again, the same, by
\* every later process that gets to serve: crashes anywhere but inside a
\* journal line, lost and torn AIP files and renderer upgrades included.
THEOREM StoreServedForever == ASSUME WholeLines PROVE Spec => []ServedForever
<1>1. Init => IInv /\ JInv
  BY InitInv, InitJInv
<1>2. IInv /\ JInv /\ [Next]_vars => (IInv /\ JInv)'
  BY StepInv, StepJInv
<1>3. IInv /\ JInv => ServedForever
  <2> SUFFICES ASSUME IInv, JInv, Serving, NEW p \in published
               PROVE  Holds(p.seq) /\ Get(p.seq) = p
    BY DEF ServedForever
  <2>1. /\ p.seq + 1 \in DOMAIN records /\ p.seq \in Int
        /\ journal[p.seq + 1].body_digest = p
    BY DEF JInv, PublishedInv, IInv, TypeOK, Bodies, Seqs
  <2>2. /\ p.seq + 1 \in DOMAIN journal
        /\ records[p.seq + 1] = journal[p.seq + 1]
        /\ DigestMatches(journal[p.seq + 1])
    <3>1. p.seq + 1 \in DOMAIN journal
      BY DEF JInv, PublishedInv
    <3>2. DigestMatches(journal[p.seq + 1])
      BY <3>1 DEF JInv, LinesInv, Serving, Closed
    <3>3. records[p.seq + 1] = journal[p.seq + 1]
      <4>1. CASE phase \in {"idle", "line"}
        BY <4>1 DEF JInv, IndexInv
      <4>2. CASE phase \in {"file", "push"}
        <5>1. /\ journal = Append(records, cur)
              /\ records \in Seq(Records) /\ p.seq + 1 \in 1 .. Len(records)
          BY <2>1, <4>2 DEF JInv, IndexInv, IInv, TypeOK
        <5>2. QED
          BY <5>1
      <4>3. QED
        BY <4>1, <4>2 DEF Serving
    <3>4. QED
      BY <3>1, <3>2, <3>3
  <2>3. Render(records[p.seq + 1], build) = p
    BY <2>1, <2>2 DEF DigestMatches
  <2>4. QED
    BY <2>1, <2>3, GetRecord
<1>4. QED
  BY <1>1, <1>2, <1>3, PTL DEF Spec

\* No sequence number is journaled twice and none out of order, as long as
\* lines are written whole.
THEOREM StoreJournalMonotonic == ASSUME WholeLines PROVE Spec => []JournalMonotonic
<1>1. Init => IInv /\ JInv
  BY InitInv, InitJInv
<1>2. IInv /\ JInv /\ [Next]_vars => (IInv /\ JInv)'
  BY StepInv, StepJInv
<1>3. IInv /\ JInv => JournalMonotonic
  BY DEF IInv, TypeOK, JInv, LinesInv, JournalMonotonic
<1>4. QED
  BY <1>1, <1>2, <1>3, PTL DEF Spec

-----------------------------------------------------------------------------
(* Plain crashes.                                                          *)

\* Replay finds nothing to object to, and an AIP file is the one its journal
\* line was sealed with or is missing.
FileClean(n) ==
    \/ files[n] = Absent
    \/ n + 1 \in DOMAIN journal /\ files[n] = journal[n + 1].body_digest
CleanInv ==
    /\ \A i \in DOMAIN journal : DigestMatches(journal[i])
    /\ \A n \in Seqs : FileClean(n)
    /\ phase # "refused"

LEMMA InitCleanInv == Init => CleanInv
  BY DEF Init, CleanInv, FileClean

\* The journal only grows.
LEMMA JournalGrows ==
    ASSUME WholeLines, IInv, JInv, [Next]_vars
    PROVE  \A i \in DOMAIN journal : i \in DOMAIN journal' /\ journal'[i] = journal[i]
<1>1. CASE WriteLine
  BY <1>1 DEF WriteLine, WholeLine, Written, WholeLines, IInv, TypeOK, JInv, LinesInv
<1>2. CASE UNCHANGED journal
  BY <1>2
<1>3. WriteLine \/ UNCHANGED journal
  BY DEF Next, Open, Ingest, End, Outage, vars, disk, WholeLines,
     Replay, RefuseJournal, FileMatches, Rematerialize, RefuseFile, RematerializeFails, GiveUp,
     Opened, AppendSnapshot, WriteFile, Push, LineFails, FileFails,
     Stop, Crash, CrashInLine, CrashInFile, CrashInRematerialize, PowerLoss,
     LoseFile, RotFile, RotLine, Upgrade
<1>4. QED
  BY <1>1, <1>2, <1>3

\* A step keeps the disk clean if it keeps the renderer, adds only a sealed
\* line, writes only files of sealed lines, and is not a refusal.
LEMMA CleanKept ==
    ASSUME CleanInv, build' = build, phase' # "refused",
           \A i \in DOMAIN journal : i \in DOMAIN journal' /\ journal'[i] = journal[i],
           \A i \in DOMAIN journal' : i \in DOMAIN journal \/ DigestMatches(journal'[i]),
           \A n \in Seqs : \/ files'[n] = files[n]
                           \/ files'[n] = Absent
                           \/ n + 1 \in DOMAIN journal' /\ files'[n] = journal'[n + 1].body_digest
    PROVE  CleanInv'
  BY DEF CleanInv, FileClean, DigestMatches

\* The file under the cursor is missing or good.
LEMMA CursorClean ==
    ASSUME IInv, JInv, CleanInv, Verifying
    PROVE  /\ cursor \in DOMAIN journal
           /\ records[cursor].seq + 1 = cursor
           /\ Body = journal[cursor].body_digest
           /\ File \in {Absent, Body}
<1>1. records = journal /\ cursor \in DOMAIN records /\ records[cursor].seq \in Seqs
  BY CursorRecord DEF Verifying, JInv, IndexInv, IInv
<1>2. records[cursor].seq = cursor - 1 /\ cursor \in Int
  BY <1>1 DEF IInv, Spine, TypeOK
<1>3. Body = journal[cursor].body_digest
  BY <1>1 DEF CleanInv, DigestMatches, Body
<1>4. FileClean(records[cursor].seq)
  BY <1>1 DEF CleanInv
<1>5. QED
  BY <1>1, <1>2, <1>3, <1>4 DEF FileClean, File

LEMMA StepCleanInv ==
    PlainCrashes /\ IInv /\ JInv /\ CleanInv /\ [Next]_vars => CleanInv'
<1> SUFFICES ASSUME PlainCrashes, IInv, JInv, CleanInv, [Next]_vars PROVE CleanInv'
  OBVIOUS
<1> USE DEF history, disk
<1>1. WholeLines
  BY DEF PlainCrashes, WholeLines
<1>2. \A i \in DOMAIN journal : i \in DOMAIN journal' /\ journal'[i] = journal[i]
  BY <1>1, JournalGrows
<1>3. Replayable
  BY StoreAssumption DEF Replayable, JInv, LinesInv, CleanInv, Parses, InSequence, Records
<1>4. ~RefuseJournal /\ ~RefuseFile /\ ~RematerializeFails
  BY <1>3, CursorClean DEF RefuseJournal, RefuseFile, RematerializeFails, PlainCrashes
<1>5. CASE \/ Replay \/ FileMatches \/ Opened \/ Push \/ Stop \/ Crash
           \/ \E r \in Offered : AppendSnapshot(r)
           \/ UNCHANGED vars
  <2>1. UNCHANGED <<journal, files, build>> /\ phase' # "refused"
    BY <1>5 DEF Replay, FileMatches, Opened, Push, Stop, Crash, Vanish, AppendSnapshot, vars,
       CleanInv
  <2>2. QED
    BY <1>2, <2>1, CleanKept
<1>6. CASE Rematerialize
  <2>1. /\ files' = [files EXCEPT ![records[cursor].seq] = Body]
        /\ UNCHANGED <<journal, build, phase>> /\ files \in [Seqs -> Bodies \cup {Absent, Scrap}]
    BY <1>6 DEF Rematerialize, Rematerialized, IInv, TypeOK
  <2>2. /\ cursor \in DOMAIN journal /\ records[cursor].seq + 1 = cursor
        /\ Body = journal[cursor].body_digest
    BY <1>6, CursorClean DEF Rematerialize
  <2>3. \A n \in Seqs : \/ files'[n] = files[n]
                        \/ n + 1 \in DOMAIN journal' /\ files'[n] = journal'[n + 1].body_digest
    BY <2>1, <2>2
  <2>4. QED
    BY <1>2, <2>1, <2>3, CleanKept DEF CleanInv
<1>7. CASE WriteLine
  <2>1. /\ journal' = Append(journal, cur) /\ phase' = "file" /\ UNCHANGED <<files, build>>
    BY <1>1, <1>7 DEF WriteLine, WholeLine, Written, WholeLines, JInv, LinesInv
  <2>2. DigestMatches(cur) /\ journal \in Seq(Lines) /\ cur \in Records
    BY <1>7 DEF WriteLine, IInv, TypeOK, AppendInv, Appending, DigestMatches
  <2>3. \A i \in DOMAIN journal' : i \in DOMAIN journal \/ journal'[i] = cur
    BY <2>1, <2>2
  <2>4. \A i \in DOMAIN journal' : i \in DOMAIN journal \/ DigestMatches(journal'[i])
    BY <2>2, <2>3
  <2>5. QED
    BY <1>2, <2>1, <2>4, CleanKept
<1>8. CASE WriteFile
  <2>1. /\ journal = Append(records, cur) /\ records \in Seq(Records) /\ cur \in Records
        /\ cur.seq = Len(records) /\ cur.body_digest = Render(cur, build)
        /\ files \in [Seqs -> Bodies \cup {Absent, Scrap}]
    BY <1>8 DEF WriteFile, JInv, IndexInv, IInv, TypeOK, AppendInv, Appending
  <2>2. cur.seq + 1 \in DOMAIN journal /\ journal[cur.seq + 1] = cur
    BY <2>1
  <2>3. UNCHANGED <<journal, build>> /\ phase' = "push"
    BY <1>8 DEF WriteFile
  <2>4. \A n \in Seqs : \/ files'[n] = files[n]
                        \/ n = cur.seq /\ files'[n] = Render(cur, build)
    BY <1>8, <2>1 DEF WriteFile
  <2>5. \A n \in Seqs : \/ files'[n] = files[n]
                        \/ n + 1 \in DOMAIN journal' /\ files'[n] = journal'[n + 1].body_digest
    BY <2>1, <2>2, <2>3, <2>4
  <2>6. QED
    BY <1>2, <2>3, <2>5, CleanKept
<1>9. CASE \E n \in Seqs : LoseFile(n)
  <2>1. UNCHANGED <<journal, build, phase>>
    BY <1>9 DEF LoseFile
  <2>2. \A n \in Seqs : files'[n] = files[n] \/ files'[n] = Absent
    BY <1>9 DEF LoseFile, IInv, TypeOK
  <2>3. QED
    BY <1>2, <2>1, <2>2, CleanKept DEF CleanInv
<1>10. /\ ~LineFails /\ ~FileFails /\ ~CrashInLine /\ ~CrashInFile /\ ~CrashInRematerialize
       /\ ~PowerLoss
       /\ \A n \in Seqs : ~RotFile(n)
       /\ \A i \in DOMAIN journal : ~RotLine(i)
       /\ \A b \in Builds : ~Upgrade(b)
  BY DEF LineFails, FileFails, CrashInLine, CrashInFile, CrashInRematerialize, PowerLoss,
     RotFile, RotLine, Upgrade, PlainCrashes
<1>11. QED
  BY <1>4, <1>5, <1>6, <1>7, <1>8, <1>9, <1>10 DEF Next, Open, Ingest, End, Outage

LEMMA PlainInv == ASSUME PlainCrashes PROVE Spec => [](IInv /\ JInv /\ CleanInv)
<1>1. WholeLines
  BY DEF PlainCrashes, WholeLines
<1>2. Init => IInv /\ JInv /\ CleanInv
  BY InitInv, InitJInv, InitCleanInv
<1>3. IInv /\ JInv /\ CleanInv /\ [Next]_vars => (IInv /\ JInv /\ CleanInv)'
  BY <1>1, StepInv, StepJInv, StepCleanInv
<1>4. QED
  BY <1>2, <1>3, PTL DEF Spec

\* No start is ever refused: what a death between two writes leaves behind
\* is never taken for corruption.
THEOREM StoreAlwaysReopens == ASSUME PlainCrashes PROVE Spec => []AlwaysReopens
<1>1. CleanInv => AlwaysReopens
  BY DEF CleanInv, AlwaysReopens
<1>2. QED
  BY <1>1, PlainInv, PTL

\* An AIP file that holds a package never comes to hold another one.
THEOREM StoreAipImmutable == ASSUME PlainCrashes PROVE Spec => AipImmutable
<1>1. WholeLines
  BY DEF PlainCrashes, WholeLines
<1>2. ASSUME IInv, JInv, CleanInv, CleanInv', [Next]_vars, NEW n \in Seqs,
             files[n] \in Bodies, files'[n] \in Bodies
      PROVE  files'[n] = files[n]
  <2>1. n + 1 \in DOMAIN journal /\ files[n] = journal[n + 1].body_digest
    BY <1>2, StoreAssumption DEF CleanInv, FileClean
  <2>2. files'[n] = journal'[n + 1].body_digest
    BY <1>2, StoreAssumption DEF CleanInv, FileClean
  <2>3. journal'[n + 1] = journal[n + 1]
    BY <1>1, <1>2, <2>1, JournalGrows
  <2>4. QED
    BY <2>1, <2>2, <2>3
<1>3. IInv /\ JInv /\ CleanInv /\ CleanInv' /\ [Next]_vars =>
         [\A n \in Seqs :
             files[n] \in Bodies /\ files'[n] \in Bodies => files'[n] = files[n]]_vars
  BY <1>2
<1>4. QED
  BY <1>3, PlainInv, PTL DEF Spec, AipImmutable

-----------------------------------------------------------------------------
(* The store implements module Archive.                                    *)

\* What is kept is a sequence of packages, one longer for each line.
LEMMA KeptAppend ==
    ASSUME journal \in Seq(Records), cur \in Records, build \in Builds,
           journal' = Append(journal, cur), build' = build
    PROVE  Kept' = Append(Kept, Render(cur, build))
<1> DEFINE Packed(s) == [i \in DOMAIN s |-> Render(s[i], build)]
<1>1. Kept = Packed(journal) /\ Kept' = Packed(journal')
  BY DEF Kept, Render
<1>2. \A i \in DOMAIN journal : Packed(journal)[i] \in Bodies
  BY RenderType
<1>3. Packed(journal) \in Seq(Bodies) /\ Len(Packed(journal)) = Len(journal)
  BY <1>2
<1>4. Render(cur, build) \in Bodies
  BY RenderType
<1> HIDE DEF Packed
<1>5. /\ Append(Kept, Render(cur, build)) \in Seq(Bodies)
      /\ DOMAIN Append(Kept, Render(cur, build)) = 1 .. Len(journal) + 1
      /\ \A i \in 1 .. Len(journal) : Append(Kept, Render(cur, build))[i] = Packed(journal)[i]
      /\ Append(Kept, Render(cur, build))[Len(journal) + 1] = Render(cur, build)
  BY <1>1, <1>3, <1>4
<1>6. /\ DOMAIN journal' = 1 .. Len(journal) + 1 /\ DOMAIN journal = 1 .. Len(journal)
      /\ \A i \in 1 .. Len(journal) : journal'[i] = journal[i]
      /\ journal'[Len(journal) + 1] = cur
      /\ Len(journal) \in Nat
  OBVIOUS
<1>7. Append(Kept, Render(cur, build)) = Packed(journal')
  <2>1. /\ Packed(journal') = [i \in 1 .. Len(journal) + 1 |-> Render(journal'[i], build)]
        /\ Packed(journal) = [i \in 1 .. Len(journal) |-> Render(journal[i], build)]
    BY <1>6 DEF Packed
  <2>2. \A i \in 1 .. Len(journal) + 1 :
           Append(Kept, Render(cur, build))[i] = Render(journal'[i], build)
    <3>1. ASSUME NEW i \in 1 .. Len(journal)
          PROVE  Append(Kept, Render(cur, build))[i] = Render(journal'[i], build)
      BY <1>5, <1>6, <2>1, <3>1
    <3>2. QED
      BY <1>5, <1>6, <3>1
  <2>3. Packed(journal') \in Seq(Bodies) /\ Len(Packed(journal')) = Len(journal) + 1
    <3>1. journal' \in Seq(Records) /\ \A i \in DOMAIN journal' : journal'[i] \in Records
      OBVIOUS
    <3>2. QED
      BY <1>6, <2>1, <3>1, RenderType
  <2>4. Len(Append(Kept, Render(cur, build))) = Len(journal) + 1
    BY <1>1, <1>3
  <2>5. QED
    BY <1>5, <2>1, <2>2, <2>3, <2>4, SeqEqual
<1>8. QED
  BY <1>1, <1>7

\* A step that leaves journal, index and renderer alone, and neither starts nor
\* stops serving, is invisible in the archive.
LEMMA StutterStep ==
    ASSUME UNCHANGED <<journal, build, records>>, Serving' = Serving
    PROVE  UNCHANGED Abstract!vars
  BY DEF Abstract!vars, Kept, Served, Render

LEMMA StepImplements ==
    ASSUME PlainCrashes, IInv, JInv, CleanInv, [Next]_vars
    PROVE  [Abstract!Next]_Abstract!vars
<1> USE DEF history, disk
<1>1. CASE Replay \/ RefuseJournal
  <2>1. UNCHANGED <<journal, build>> /\ ~Serving /\ Serving' = Serving
    BY <1>1 DEF Replay, RefuseJournal, Closed, Serving
  <2>2. QED
    BY <2>1 DEF Abstract!vars, Kept, Served, Render
<1>2. CASE \/ FileMatches \/ Rematerialize \/ WriteFile
           \/ \E r \in Offered : AppendSnapshot(r)
           \/ \E n \in Seqs : LoseFile(n)
           \/ UNCHANGED vars
  BY <1>2, StutterStep DEF FileMatches, Rematerialize, WriteFile, AppendSnapshot, LoseFile,
     vars, Verifying, Serving
<1>3. CASE Opened
  <2>1. UNCHANGED <<journal, build>> /\ records' = journal /\ ~Serving /\ Serving'
    BY <1>3 DEF Opened, Serving, JInv, IndexInv
  <2>2. Served' = Kept /\ Kept' = Kept
    BY <2>1 DEF Kept, Served, Render
  <2>3. QED
    BY <2>1, <2>2 DEF Abstract!Next, Abstract!Start
<1>4. CASE WriteLine
  <2>1. /\ phase = "line" /\ phase' = "file" /\ records = journal
        /\ UNCHANGED <<records, build>>
        /\ journal' = Append(journal, cur)
    BY <1>4 DEF WriteLine, WholeLine, Written, WholeLines, PlainCrashes, JInv, LinesInv, IndexInv
  <2>2. journal \in Seq(Records) /\ cur \in Records /\ build \in Builds
    BY <2>1 DEF IInv, TypeOK, AppendInv, Appending
  <2>3. Kept' = Append(Kept, Render(cur, build))
    BY <2>1, <2>2, KeptAppend
  <2>4. Served = Kept /\ Served' = Served /\ Serving /\ Serving' = Serving
    BY <2>1 DEF Kept, Served, Serving, Render
  <2>5. Render(cur, build) \in Bodies
    BY <2>2, RenderType
  <2>6. QED
    BY <2>3, <2>4, <2>5 DEF Abstract!Next, Abstract!Ingest
<1>5. CASE Push
  <2>1. /\ records' = journal /\ UNCHANGED <<journal, build>>
        /\ phase = "push" /\ phase' = "idle"
    BY <1>5 DEF Push, JInv, IndexInv
  <2>2. Served' = Kept /\ Kept' = Kept /\ Serving /\ Serving' = Serving
    BY <2>1 DEF Kept, Served, Serving, Render
  <2>3. QED
    BY <2>2 DEF Abstract!Next, Abstract!Publish
<1>6. CASE Stop \/ Crash
  <2>1. UNCHANGED <<journal, build>> /\ ~Serving'
    BY <1>6 DEF Stop, Crash, Vanish, Serving
  <2>2. Kept' = Kept /\ Served' = <<>>
    BY <2>1 DEF Kept, Served, Render
  <2>3. CASE Serving
    BY <2>1, <2>2, <2>3 DEF Abstract!Next, Abstract!Stop
  <2>4. CASE ~Serving
    <3>1. Serving' = Serving
      BY <1>6, <2>4 DEF Stop, Crash, Vanish, Serving
    <3>2. QED
      BY <2>2, <2>4, <3>1 DEF Abstract!vars, Served
  <2>5. QED
    BY <2>3, <2>4
<1>7. /\ ~LineFails /\ ~FileFails /\ ~CrashInLine /\ ~CrashInFile /\ ~CrashInRematerialize
      /\ ~PowerLoss /\ ~RematerializeFails /\ ~RefuseFile
      /\ \A n \in Seqs : ~RotFile(n)
      /\ \A i \in DOMAIN journal : ~RotLine(i)
      /\ \A b \in Builds : ~Upgrade(b)
  BY CursorClean DEF LineFails, FileFails, CrashInLine, CrashInFile, CrashInRematerialize,
     PowerLoss, RefuseFile, RematerializeFails, RotFile, RotLine, Upgrade, PlainCrashes
<1>8. QED
  BY <1>1, <1>2, <1>3, <1>4, <1>5, <1>6, <1>7 DEF Next, Open, Ingest, End, Outage

\* With plain crashes, the store is the append-only archive: the complete
\* journal line is the commit point, and what was committed is served.
THEOREM StoreImplements == ASSUME PlainCrashes PROVE Spec => Implements
<1>1. Init => Abstract!Init
  <2> SUFFICES ASSUME Init PROVE Abstract!Init
    OBVIOUS
  <2>1. journal = <<>> /\ ~Serving
    BY DEF Init, Serving
  <2>2. Kept = <<>> /\ Served = <<>>
    BY <2>1 DEF Kept, Served
  <2>3. QED
    BY <2>1, <2>2 DEF Abstract!Init
<1>2. IInv /\ JInv /\ CleanInv /\ [Next]_vars => [Abstract!Next]_Abstract!vars
  BY StepImplements
<1>3. QED
  BY <1>1, <1>2, PlainInv, PTL DEF Spec, Implements, Abstract!Spec
==============================================================================
