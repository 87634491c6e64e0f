---------------------- MODULE SnapshotStoreDamageProofs ----------------------
(***************************************************************************)
(* What damage cannot do to the snapshot store: deaths inside a write,     *)
(* torn and rotten lines, lost, torn and rotten files and renderer         *)
(* upgrades may cost a published package, or the start, but never is       *)
(* another package served under its id while its line, and all before it,  *)
(* can be read.                                                            *)
(***************************************************************************)
EXTENDS SnapshotStoreCrashProofs

\* No failing writes under a process that lives on, and no lost suffix.
Damage == Journaled /\ "io_error" \notin Faults /\ "power" \notin Faults

\* The line carries the digest of the package.
StandsOn(p, n) == n \in DOMAIN journal /\ Parses(n) /\ journal[n].body_digest = p

\* The line of a published package still carries its digest, or the journal
\* is broken there or before.
LineInv == \A p \in published : BrokenBy(p.seq + 1) \/ StandsOn(p, p.seq + 1)

\* What a process has at a place of its index is what the line there was
\* sealed with, or the journal is broken there or before.
StandInv ==
    ~Closed =>
        \A i \in DOMAIN records :
            BrokenBy(i) \/ StandsOn(Render(records[i], build), i)

\* The journal ends where the index does, or it is broken by then.
Ends == BrokenBy(Len(records) + 1) \/ Len(journal) = Len(records)
Reaches ==
    \/ BrokenBy(Len(records) + 1)
    \/ /\ Len(journal) = Len(records) + 1
       /\ StandsOn(Render(cur, build), Len(records) + 1)
TailInv ==
    /\ tailOpen => journal # <<>>
    /\ phase \in {"verify", "idle", "line"} => Ends
    /\ phase \in {"file", "push"} => Reaches

DInv == LineInv /\ StandInv /\ TailInv

-----------------------------------------------------------------------------
(* What a step can do to a line.                                           *)

\* Every step but a rotting line writes behind the journal or leaves it.
LEMMA DamageStep ==
    ASSUME Damage, IInv, [Next]_vars
    PROVE  \/ \E text \in Lines : journal' = Written(text)
           \/ UNCHANGED journal
           \/ \E i \in DOMAIN journal : RotLine(i)
<1>1. CASE WriteLine
  BY <1>1 DEF WriteLine, WholeLine, IInv, AppendInv, Appending, Lines
<1>2. CASE CrashInLine
  BY <1>2 DEF CrashInLine, PartialLine, PartOf, IInv, AppendInv, Appending, Lines
<1>3. CASE \E i \in DOMAIN journal : RotLine(i)
  BY <1>3
<1>4. WriteLine \/ CrashInLine \/ UNCHANGED journal \/ \E i \in DOMAIN journal : RotLine(i)
  BY DEF Damage, Next, Open, Ingest, End, Outage, vars, disk,
     Replay, RefuseJournal, FileMatches, Rematerialize, RefuseFile, RematerializeFails,
     GiveUp, Opened, AppendSnapshot, WriteFile, Push, LineFails, FileFails, Abandon,
     Stop, Crash, CrashInFile, CrashInRematerialize, PowerLoss, Vanish,
     LoseFile, RotFile, Upgrade
<1>5. QED
  BY <1>1, <1>2, <1>3, <1>4

\* Text written behind an unterminated line breaks that line, other text is a
\* line of its own.
LEMMA WrittenWhere ==
    ASSUME journal \in Seq(Lines), NEW text \in Lines, tailOpen => journal # <<>>
    PROVE  /\ tailOpen => /\ Len(Written(text)) = Len(journal)
                          /\ Written(text)[Len(journal)] \notin Records
           /\ ~tailOpen => /\ Len(Written(text)) = Len(journal) + 1
                           /\ Written(text)[Len(journal) + 1] = text
           /\ \A i \in DOMAIN journal :
                 /\ i \in DOMAIN Written(text)
                 /\ Written(text)[i] = journal[i] \/ Written(text)[i] \notin Records
<1>1. CASE tailOpen
  <2>1. Join(journal[Len(journal)], text) \notin Records
    BY StoreAssumption DEF Join
  <2>2. Written(text) = [journal EXCEPT ![Len(journal)] = Join(journal[Len(journal)], text)]
    BY <1>1 DEF Written
  <2>3. Len(journal) \in 1 .. Len(journal)
    BY <1>1
  <2>4. Join(journal[Len(journal)], text) \in Lines
    BY DEF Join, Lines
  <2>5. /\ Len(Written(text)) = Len(journal) /\ Written(text) \in Seq(Lines)
        /\ \A j \in 1 .. Len(journal) :
              Written(text)[j] = IF j = Len(journal) THEN Join(journal[Len(journal)], text)
                                 ELSE journal[j]
    BY <2>2, <2>3, <2>4, ExceptSeq
  <2>6. QED
    BY <1>1, <2>1, <2>3, <2>5
<1>2. CASE ~tailOpen
  BY <1>2 DEF Written
<1>3. QED
  BY <1>1, <1>2

\* A line stays where it is; broken, it stays broken, and a record keeps its
\* digest or is no record any more.
LEMMA LineLasts ==
    ASSUME Damage, IInv, TailInv, [Next]_vars, NEW k \in DOMAIN journal
    PROVE  /\ k \in DOMAIN journal'
           /\ journal'[k] \in Records =>
                 Parses(k) /\ journal'[k].body_digest = journal[k].body_digest
<1>1. journal \in Seq(Lines) /\ (tailOpen => journal # <<>>)
  BY DEF IInv, TypeOK, TailInv
<1>2. ASSUME NEW text \in Lines, journal' = Written(text)
      PROVE  k \in DOMAIN journal' /\ (journal'[k] = journal[k] \/ journal'[k] \notin Records)
  BY <1>1, <1>2, WrittenWhere
<1>3. ASSUME NEW i \in DOMAIN journal, RotLine(i)
      PROVE  /\ k \in DOMAIN journal'
             /\ journal'[k] \in Records =>
                   Parses(k) /\ journal'[k].body_digest = journal[k].body_digest
  <2>1. PICK line \in {Garbled, BadUtf8, BlankLine}
                        \cup { [journal[i] EXCEPT !.doc = d] : d \in Docs } :
           journal' = [journal EXCEPT ![i] = line]
    BY <1>3 DEF RotLine
  <2>2. Parses(i) /\ journal[i] \in Records
    BY <1>3 DEF RotLine, Parses
  <2>3. \A d \in Docs :
           [journal[i] EXCEPT !.doc = d].body_digest = journal[i].body_digest
    BY <2>2 DEF Records
  <2>4. line \in Records => line.body_digest = journal[i].body_digest
    BY <2>1, <2>3, StoreAssumption
  <2>5. DOMAIN journal' = DOMAIN journal /\ journal'[k] = IF k = i THEN line ELSE journal[k]
    BY <1>1, <2>1
  <2>6. QED
    BY <2>2, <2>4, <2>5 DEF Parses
<1>4. QED
  BY <1>2, <1>3, DamageStep DEF Parses

\* What is broken stays broken; a package stands on its line until then.
LEMMA BreaksLast ==
    ASSUME Damage, IInv, TailInv, [Next]_vars, NEW n \in Nat
    PROVE  /\ BrokenBy(n) => BrokenBy(n)'
           /\ \A p : StandsOn(p, n) => BrokenBy(n)' \/ StandsOn(p, n)'
<1>1. ASSUME NEW k \in DOMAIN journal
      PROVE  Broken(k) => Broken(k)'
  BY LineLasts DEF Broken, Parses
<1>2. ASSUME NEW p, StandsOn(p, n) PROVE Broken(n)' \/ StandsOn(p, n)'
  BY <1>2, LineLasts DEF Broken, StandsOn, Parses
<1>3. n \in DOMAIN journal => n \in 1 .. n
  BY DEF IInv, TypeOK
<1>4. QED
  BY <1>1, <1>2, <1>3 DEF BrokenBy, Broken, StandsOn

-----------------------------------------------------------------------------
LEMMA InitDInv == Init => DInv
  BY DEF Init, DInv, LineInv, StandInv, TailInv, Closed

\* Publishing: at the end of a start, and when an append is complete.
LEMMA StepLineInv ==
    ASSUME Damage, IInv, DInv, [Next]_vars
    PROVE  LineInv'
<1>1. \A p \in published : p.seq + 1 \in Nat
  BY DEF IInv, TypeOK, Bodies, Seqs
<1>2. ASSUME NEW p \in published
      PROVE  BrokenBy(p.seq + 1)' \/ StandsOn(p, p.seq + 1)'
  BY <1>1, BreaksLast DEF DInv, LineInv
<1>3. CASE Opened
  <2>1. ASSUME NEW p \in Rendered(records)
        PROVE  BrokenBy(p.seq + 1)' \/ StandsOn(p, p.seq + 1)'
    <3>1. PICK i \in DOMAIN records : p = Render(records[i], build)
      BY DEF Rendered
    <3>2. BrokenBy(i) \/ StandsOn(p, i)
      BY <1>3, <3>1 DEF Opened, DInv, StandInv, Closed
    <3>3. records[i] \in Records /\ records[i].seq = i - 1 /\ i \in Int
      BY DEF IInv, TypeOK, Spine
    <3>4. p.seq + 1 = i
      BY <3>1, <3>3 DEF Render
    <3>5. journal' = journal
      BY <1>3 DEF Opened, disk
    <3>6. QED
      BY <3>2, <3>4, <3>5 DEF StandsOn, BrokenBy, Broken, Parses
  <2>2. QED
    BY <1>2, <1>3, <2>1 DEF Opened, LineInv
<1>4. CASE Push
  <2>1. Render(cur, build).seq + 1 = Len(records) + 1
    BY <1>4 DEF Push, IInv, AppendInv, Appending, Render
  <2>2. Reaches /\ journal' = journal
    BY <1>4 DEF Push, DInv, TailInv, disk
  <2>3. \/ BrokenBy(Len(records) + 1)
        \/ StandsOn(Render(cur, build), Len(records) + 1)
    BY <2>2 DEF Reaches
  <2>4. ASSUME NEW p, NEW n, UNCHANGED journal
        PROVE  (BrokenBy(n) => BrokenBy(n)') /\ (StandsOn(p, n) => StandsOn(p, n)')
    BY <2>4 DEF BrokenBy, Broken, StandsOn, Parses
  <2>5. ASSUME NEW p, p = Render(cur, build)
        PROVE  BrokenBy(p.seq + 1)' \/ StandsOn(p, p.seq + 1)'
    BY <2>1, <2>2, <2>3, <2>4, <2>5
  <2>6. QED
    BY <1>2, <1>4, <2>5 DEF Push, LineInv
<1>5. CASE published' = published
  BY <1>2, <1>5 DEF LineInv
<1>6. Opened \/ Push \/ published' = published
  BY DEF Next, Open, Ingest, End, Outage, vars, history,
     Replay, RefuseJournal, FileMatches, Rematerialize, RefuseFile, RematerializeFails,
     GiveUp, AppendSnapshot, WriteLine, WriteFile, LineFails, FileFails, Abandon,
     Stop, Crash, CrashInLine, CrashInFile, CrashInRematerialize, PowerLoss, Vanish,
     LoseFile, RotFile, RotLine, Upgrade
<1>7. QED
  BY <1>3, <1>4, <1>5, <1>6

\* An index is replayed from lines that carry its digests; behind a torn line
\* it grows by records whose line is broken.
LEMMA StepStandInv ==
    ASSUME Damage, IInv, DInv, [Next]_vars
    PROVE  StandInv'
<1>1. journal \in Seq(Lines) /\ records \in Seq(Records)
  BY DEF IInv, TypeOK
<1>2. CASE Replay
  <2>1. records' = Replayed /\ UNCHANGED <<journal, build>>
    BY <1>2 DEF Replay, disk
  <2>2. \A i \in DOMAIN Replayed :
           /\ i \in DOMAIN journal /\ Parses(i)
           /\ journal[i].body_digest = Render(Replayed[i], build)
    BY <1>1, <1>2, ReplayedRecords DEF Replay, DigestMatches
  <2>3. \A i \in DOMAIN records' : StandsOn(Render(records[i], build), i)'
    BY <2>1, <2>2 DEF StandsOn, Parses
  <2>4. QED
    BY <2>3 DEF StandInv
<1>3. CASE Closed'
  BY <1>3 DEF StandInv
<1>4. CASE ~Closed /\ UNCHANGED <<records, build>>
  <2>1. ASSUME NEW i \in DOMAIN records, NEW p, p = Render(records[i], build)
        PROVE  BrokenBy(i)' \/ StandsOn(p, i)'
    <3>1. BrokenBy(i) \/ StandsOn(p, i)
      BY <1>4, <2>1 DEF DInv, StandInv
    <3>2. i \in Nat
      BY <1>1
    <3>3. QED
      BY <3>1, <3>2, BreaksLast DEF DInv
  <2>2. \A i \in DOMAIN records :
           BrokenBy(i)' \/ StandsOn(Render(records[i], build), i)'
    BY <1>4, <2>1
  <2>3. QED
    BY <1>4, <2>2 DEF StandInv
<1>5. CASE Push
  <2>1. /\ records' = Append(records, cur) /\ UNCHANGED <<journal, build>>
        /\ ~Closed /\ Reaches
    BY <1>5 DEF Push, disk, DInv, TailInv, Closed
  <2>2. /\ DOMAIN records' = 1 .. Len(records) + 1 /\ Len(records) \in Nat
        /\ \A i \in DOMAIN records' :
              \/ i \in DOMAIN records /\ records'[i] = records[i]
              \/ i = Len(records) + 1 /\ records'[i] = cur
    BY <1>1, <1>5, <2>1 DEF Push, IInv, AppendInv, Appending
  <2>3. ASSUME NEW i \in DOMAIN records'
        PROVE  BrokenBy(i) \/ StandsOn(Render(records'[i], build), i)
    <3>1. CASE i \in DOMAIN records /\ records'[i] = records[i]
      BY <2>1, <3>1 DEF DInv, StandInv
    <3>2. CASE i = Len(records) + 1 /\ records'[i] = cur
      BY <2>1, <3>2 DEF Reaches
    <3>3. QED
      BY <2>2, <2>3, <3>1, <3>2
  <2>4. \A i \in DOMAIN records' :
           BrokenBy(i)' \/ StandsOn(Render(records[i], build), i)'
    BY <2>1, <2>3 DEF BrokenBy, Broken, StandsOn, Parses
  <2>5. QED
    BY <2>4 DEF StandInv
<1>6. Replay \/ Closed' \/ (~Closed /\ UNCHANGED <<records, build>>) \/ Push
  BY DEF Next, Open, Ingest, End, Outage, vars, disk, Verifying, Closed,
     RefuseJournal, FileMatches, Rematerialize, RefuseFile, RematerializeFails,
     GiveUp, Opened, AppendSnapshot, WriteLine, WriteFile, LineFails, FileFails, Abandon,
     Stop, Crash, CrashInLine, CrashInFile, CrashInRematerialize, PowerLoss, Vanish,
     LoseFile, RotFile, RotLine, Upgrade
<1>7. QED
  BY <1>2, <1>3, <1>4, <1>5, <1>6

\* An unterminated line is there to be continued.
LEMMA OpenTail ==
    ASSUME Damage, IInv, DInv, [Next]_vars
    PROVE  tailOpen' => journal' # <<>>
<1>1. journal \in Seq(Lines) /\ (tailOpen => journal # <<>>)
  BY DEF IInv, TypeOK, DInv, TailInv
<1>2. ASSUME NEW text \in Lines, journal' = Written(text) PROVE journal' # <<>>
  <2>1. CASE tailOpen
    BY <1>1, <1>2, <2>1, WrittenWhere
  <2>2. CASE ~tailOpen
    BY <1>1, <1>2, <2>2 DEF Written
  <2>3. QED
    BY <2>1, <2>2
<1>3. \/ \E text \in Lines : journal' = Written(text)
      \/ UNCHANGED <<journal, tailOpen>>
      \/ \E i \in DOMAIN journal : RotLine(i)
  <2>1. CASE WriteLine
    BY <2>1 DEF WriteLine, WholeLine, IInv, AppendInv, Appending, Lines
  <2>2. CASE CrashInLine
    BY <2>2 DEF CrashInLine, PartialLine, PartOf, IInv, AppendInv, Appending, Lines
  <2>3. \/ WriteLine \/ CrashInLine \/ UNCHANGED <<journal, tailOpen>>
        \/ \E i \in DOMAIN journal : RotLine(i)
    BY DEF Damage, Next, Open, Ingest, End, Outage, vars, disk,
       Replay, RefuseJournal, FileMatches, Rematerialize, RefuseFile, RematerializeFails,
       GiveUp, Opened, AppendSnapshot, WriteFile, Push, LineFails, FileFails, Abandon,
       Stop, Crash, CrashInFile, CrashInRematerialize, PowerLoss, Vanish,
       LoseFile, RotFile, Upgrade
  <2>4. QED
    BY <2>1, <2>2, <2>3
<1>4. ASSUME NEW i \in DOMAIN journal, RotLine(i) PROVE tailOpen' => journal' # <<>>
  BY <1>1, <1>4 DEF RotLine
<1>5. QED
  BY <1>1, <1>2, <1>3, <1>4

\* An append writes the next line, or breaks the one that was left open.
LEMMA StepTailInv ==
    ASSUME Damage, IInv, DInv, [Next]_vars
    PROVE  TailInv'
<1> USE DEF disk, history
<1>1. journal \in Seq(Lines) /\ records \in Seq(Records)
  BY DEF IInv, TypeOK
<1>2. CASE Replay
  <2>1. records' = Replayed /\ journal' = journal /\ phase' = "verify"
    BY <1>2 DEF Replay
  <2>2. CASE TornTail
    <3>1. Len(journal) \in Nat \ {0} /\ ~Parses(Len(journal))
      BY <1>1, <2>2, StoreAssumption DEF TornTail, Parses
    <3>2. Len(Replayed) = Len(journal) - 1
      <4>1. Len(journal) - 1 \in 0 .. Len(journal)
        BY <3>1
      <4>2. QED
        BY <1>1, <2>2, <4>1, Prefix DEF Replayed
    <3>3. Broken(Len(records) + 1)'
      BY <1>1, <2>1, <3>1, <3>2 DEF Broken, Parses
    <3>4. Ends'
      BY <2>1, <3>1, <3>2, <3>3 DEF Ends, BrokenBy
    <3>5. QED
      BY <2>1, <3>4, OpenTail DEF TailInv
  <2>3. CASE ~TornTail
    <3>1. Ends'
      BY <2>1, <2>3 DEF Replayed, Ends
    <3>2. QED
      BY <2>1, <3>1, OpenTail DEF TailInv
  <2>4. QED
    BY <2>2, <2>3
<1>3. CASE /\ phase \in {"verify", "idle", "line"} /\ phase' \in {"verify", "idle", "line"}
           /\ UNCHANGED <<journal, records>>
  <2>1. Ends'
    BY <1>3 DEF DInv, TailInv, Ends, BrokenBy, Broken, Parses
  <2>2. QED
    BY <1>3, <2>1, OpenTail DEF TailInv
<1>4. CASE /\ phase \in {"file", "push"} /\ phase' \in {"file", "push"}
           /\ UNCHANGED <<journal, records, cur, build>>
  <2>1. Reaches'
    BY <1>4 DEF DInv, TailInv, Reaches, BrokenBy, Broken, StandsOn, Parses, Render
  <2>2. QED
    BY <1>4, <2>1, OpenTail DEF TailInv
<1>5. CASE WriteLine
  <2>1. /\ cur \in Records /\ cur.body_digest = Render(cur, build) /\ cur \in Lines
        /\ journal' = Written(cur) /\ UNCHANGED <<records, cur, build>>
        /\ phase' = "file" /\ Ends
    BY <1>5 DEF WriteLine, WholeLine, Damage, IInv, AppendInv, Appending, Lines, DInv, TailInv
  <2>2. CASE BrokenBy(Len(records) + 1)
    <3>1. BrokenBy(Len(records) + 1)'
      BY <1>1, <2>1, <2>2, BreaksLast DEF DInv
    <3>2. QED
      BY <2>1, <3>1, OpenTail DEF TailInv, Reaches
  <2>3. CASE Len(journal) = Len(records) /\ tailOpen
    <3>1. /\ Len(journal') = Len(journal) /\ journal'[Len(journal)] \notin Records
          /\ Len(journal) \in Nat \ {0} /\ journal' \in Seq(Lines)
      BY <1>1, <2>1, <2>3, WrittenWhere, WrittenLines DEF DInv, TailInv
    <3>2. Broken(Len(records))'
      BY <2>1, <2>3, <3>1 DEF Broken, Parses
    <3>3. Reaches'
      BY <2>1, <2>3, <3>1, <3>2 DEF Reaches, BrokenBy
    <3>4. QED
      BY <2>1, <3>3, OpenTail DEF TailInv
  <2>4. CASE Len(journal) = Len(records) /\ ~tailOpen
    <3>1. Len(journal') = Len(records) + 1 /\ journal'[Len(records) + 1] = cur
      BY <1>1, <2>1, <2>4, WrittenWhere
    <3>2. Len(records) + 1 \in DOMAIN journal'
      BY <1>1, <2>1, <3>1, WrittenLines
    <3>3. StandsOn(Render(cur, build), Len(records) + 1)'
      BY <2>1, <3>1, <3>2 DEF StandsOn, Parses, Render
    <3>4. Reaches'
      BY <2>1, <3>1, <3>3 DEF Reaches
    <3>5. QED
      BY <2>1, <3>4, OpenTail DEF TailInv
  <2>5. QED
    BY <2>1, <2>2, <2>3, <2>4 DEF Ends
<1>6. CASE Push
  <2>1. /\ Len(records') = Len(records) + 1 /\ journal' = journal
        /\ phase' = "idle" /\ Reaches /\ Len(records) \in Nat
    BY <1>1, <1>6 DEF Push, IInv, AppendInv, Appending, DInv, TailInv
  <2>2. Ends'
    <3>1. CASE Len(journal) = Len(records) + 1
      BY <2>1, <3>1 DEF Ends
    <3>2. CASE BrokenBy(Len(records) + 1)
      BY <2>1, <3>2 DEF Ends, BrokenBy, Broken, Parses
    <3>3. QED
      BY <2>1, <3>1, <3>2 DEF Reaches
  <2>3. QED
    BY <2>1, <2>2, OpenTail DEF TailInv
<1>7. CASE phase' \in {"down", "refused"}
  BY <1>7, OpenTail DEF TailInv
<1>8. \/ Replay \/ WriteLine \/ Push \/ phase' \in {"down", "refused"}
      \/ /\ phase \in {"verify", "idle", "line"} /\ phase' \in {"verify", "idle", "line"}
         /\ UNCHANGED <<journal, records>>
      \/ /\ phase \in {"file", "push"} /\ phase' \in {"file", "push"}
         /\ UNCHANGED <<journal, records, cur, build>>
  <2>1. phase \in {"down", "refused", "verify", "idle", "line", "file", "push"}
    BY DEF IInv, TypeOK
  <2>2. QED
    BY <2>1 DEF Damage, Next, Open, Ingest, End, Outage, vars, Verifying, Closed,
       RefuseJournal, FileMatches, Rematerialize, RefuseFile, RematerializeFails,
       GiveUp, Opened, AppendSnapshot, WriteFile, LineFails, FileFails, Abandon,
       Stop, Crash, CrashInLine, CrashInFile, CrashInRematerialize, PowerLoss, Vanish,
       LoseFile, RotFile, RotLine, Upgrade
<1>9. QED
  BY <1>2, <1>3, <1>4, <1>5, <1>6, <1>7, <1>8

-----------------------------------------------------------------------------
\* No start and no append puts another package under a published id while the
\* id's line and the lines before it can be read: deaths inside a journal line
\* or an AIP file, rotten and lost lines and files, and renderer upgrades
\* included, in any combination.
THEOREM StoreNoSubstitute == ASSUME Damage PROVE Spec => []NoSubstitute
<1>1. Init => IInv /\ DInv
  BY InitInv, InitDInv
<1>2. IInv /\ DInv /\ [Next]_vars => (IInv /\ DInv)'
  BY StepInv, StepLineInv, StepStandInv, StepTailInv DEF DInv
<1>3. IInv /\ DInv => NoSubstitute
  <2> SUFFICES ASSUME IInv, DInv, NEW p \in published, Holds(p.seq), ~BrokenBy(p.seq + 1)
               PROVE  Get(p.seq) = p
    BY DEF NoSubstitute
  <2>1. PICK i \in DOMAIN records : records[i].seq = p.seq
    BY DEF Holds
  <2>2. DOMAIN records = 1 .. Len(records) /\ Len(records) \in Nat
    BY DEF IInv, TypeOK
  <2>3. p.seq = i - 1 /\ p.seq + 1 = i
    BY <2>1, <2>2 DEF IInv, Spine
  <2>4. ~Closed
    BY <2>1 DEF IInv, ClosedInv
  <2>5. StandsOn(p, i) /\ StandsOn(Render(records[i], build), i)
    BY <2>3, <2>4 DEF DInv, LineInv, StandInv
  <2>6. Render(records[i], build) = p
    BY <2>5 DEF StandsOn
  <2>7. QED
    BY <2>3, <2>6, GetRecord
<1>4. QED
  BY <1>1, <1>2, <1>3, PTL DEF Spec
==============================================================================
