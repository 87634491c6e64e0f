------------------------ MODULE ArchiveServiceProofs -------------------------
(***************************************************************************)
(* The service, by the theorems of its store: every step of ArchiveService *)
(* is a step of SnapshotStore or leaves it alone, so the store's           *)
(* invariants hold of it, and what the handlers know of the store is kept  *)
(* beside them.                                                            *)
(***************************************************************************)
EXTENDS ArchiveService, SnapshotStoreCrashProofs

\* Between reservation and end a handler holds the lock, alone.
Holding == {"anchoring", "sealed", "appending"}
HolderInv ==
    /\ \A r \in Requests : pc[r] \in Holding => holder = r /\ rec[r] # NoOne
    /\ Closed \/ phase = "verify" => \A r \in Requests : pc[r] \notin Handling

\* append_snapshot works on the record of the handler that called it.
LinkInv ==
    /\ Appending => \E r \in Requests : pc[r] = "appending"
    /\ \A r \in Requests : pc[r] = "appending" => Appending /\ cur = SealedRecord(r)

\* What was answered was published before.
AnsweredInv == answered \subseteq published

FlowInv ==
    /\ ServiceTypeOK
    /\ HolderInv
    /\ LinkInv
    /\ AnsweredInv

-----------------------------------------------------------------------------
LEMMA SealedType ==
    ASSUME TypeOK, ServiceTypeOK, NEW r \in Requests, rec[r] # NoOne
    PROVE  /\ SealedRecord(r) \in Offered
           /\ SealedRecord(r) \in Records
           /\ Package(r) \in Bodies
           /\ Render(SealedRecord(r), build) = Package(r)
<1>1. rec[r] \in [seq : Seqs, anchor : Anchors] /\ build \in Builds
  BY DEF ServiceTypeOK, TypeOK
<1>2. DocOf(r, rec[r].anchor) \in Docs
  BY <1>1, ServiceAssumption
<1>3. QED
  BY <1>1, <1>2 DEF SealedRecord, Package, Offered, Records, Bodies, Render

\* Every step of the service is one of the store's, or none.
LEMMA StepIsStore ==
    ASSUME IInv, FlowInv, [ServiceNext]_serviceVars
    PROVE  [Next]_vars
<1>1. ASSUME NEW r \in Requests, Store(r) PROVE [Next]_vars
  <2>1. rec[r] # NoOne
    BY <1>1 DEF Store, FlowInv, HolderInv, Holding
  <2>2. SealedRecord(r) \in Offered
    BY <2>1, SealedType DEF IInv, FlowInv
  <2>3. QED
    BY <1>1, <2>2 DEF Store, Next, Ingest
<1>2. ASSUME NEW r \in Requests, Respond(r) PROVE [Next]_vars
  BY <1>2 DEF Respond, Next, Ingest
<1>3. ASSUME Write \/ Die \/ Restart PROVE [Next]_vars
  BY <1>3 DEF Write, Die, Restart, Next, Ingest
<1>4. ASSUME NEW r \in Requests,
             Arrive(r) \/ Acquire(r) \/ AnchorOk(r) \/ AnchorFails(r) \/ Cancel(r)
      PROVE  [Next]_vars
  BY <1>4 DEF Arrive, Acquire, AnchorOk, AnchorFails, Cancel
<1>5. ASSUME NEW c \in net, LogAccepts(c) \/ LogRefuses(c) PROVE [Next]_vars
  BY <1>5 DEF LogAccepts, LogRefuses
<1>6. ASSUME NEW limit \in 1 .. PageLimit, AdminLog(limit) PROVE [Next]_vars
  BY <1>6 DEF AdminLog
<1>7. QED
  BY <1>1, <1>2, <1>3, <1>4, <1>5, <1>6 DEF ServiceNext, serviceVars

-----------------------------------------------------------------------------
\* A page is a stretch of the index, none beyond its end.
LEMMA WindowType ==
    ASSUME NEW S, NEW rs \in Seq(S), NEW limit \in Nat, NEW offset \in Nat
    PROVE  Window(rs, limit, offset) \in Seq(S)
<1> DEFINE m == UpTo(rs, offset + limit)
<1>1. m \in Nat /\ m <= Len(rs)
  BY DEF UpTo
<1>2. \A i \in (offset + 1) .. m : rs[i] \in S
  BY <1>1
<1>3. SubSeq(rs, offset + 1, m) \in Seq(S)
  BY <1>1, <1>2, SubSeqProperties
<1>4. QED
  BY <1>3 DEF Window

\* Its records are those of the index behind the offset.
LEMMA WindowOf ==
    ASSUME NEW S, NEW rs \in Seq(S), NEW limit \in Nat, NEW offset \in Nat, offset <= Len(rs)
    PROVE  /\ Window(rs, limit, offset) \in Seq(S)
           /\ offset + Len(Window(rs, limit, offset)) <= Len(rs)
           /\ \A i \in 1 .. Len(Window(rs, limit, offset)) :
                 Window(rs, limit, offset)[i] = rs[offset + i]
<1> DEFINE m == UpTo(rs, offset + limit)
<1>1. m \in Nat /\ offset <= m /\ m <= Len(rs)
  BY DEF UpTo
<1>2. \A i \in (offset + 1) .. m : rs[i] \in S
  BY <1>1
<1>3. SubSeq(rs, offset + 1, m) = [i \in 1 .. (m - offset) |-> rs[i + offset]]
  BY <1>1
<1>4. QED
  BY <1>1, <1>2, <1>3 DEF Window

\* The collected pages are the beginning of the journal, and of the index
\* while the service runs.
PageInv ==
    /\ \A i \in DOMAIN seen : i \in DOMAIN journal /\ seen[i] = journal[i]
    /\ Serving => Len(seen) <= Len(records)

LEMMA InitFlow == ServiceInit => FlowInv /\ PageInv
<1> SUFFICES ASSUME ServiceInit PROVE FlowInv /\ PageInv
  OBVIOUS
<1>1. ServiceTypeOK
  BY EmptySeq DEF ServiceInit, Init, ServiceTypeOK
<1>2. HolderInv /\ LinkInv /\ AnsweredInv /\ PageInv
  BY DEF ServiceInit, Init, HolderInv, Holding, Handling, LinkInv, Appending, AnsweredInv,
     PageInv, Serving
<1>3. QED
  BY <1>1, <1>2 DEF FlowInv

\* What the two steps that write a record leave in it.
LEMMA ReservedType ==
    ASSUME IInv, FlowInv, NEW r \in Requests, Acquire(r)
    PROVE  /\ Len(records) \in Seqs
           /\ Reserved \in [seq : Seqs, anchor : Anchors]
           /\ rec'[r] = Reserved /\ rec'[r] # NoOne
<1>1. Len(records) \in Seqs
  BY StoreAssumption DEF Acquire, Seqs, IInv, TypeOK
<1>2. Reserved \in [seq : Seqs, anchor : Anchors]
  BY <1>1, ServiceAssumption DEF Reserved, Anchors
<1>3. QED
  BY <1>1, <1>2, ServiceAssumption DEF Acquire, FlowInv, ServiceTypeOK

LEMMA AnchorType ==
    ASSUME FlowInv, NEW r \in Requests, AnchorOk(r)
    PROVE  /\ rec' \in [Requests -> [seq : Seqs, anchor : Anchors] \cup {NoOne}]
           /\ rec'[r] # NoOne
           /\ rec'[r].seq = rec[r].seq /\ rec'[r].anchor = reply[r]
           /\ \A q \in Requests \ {r} : rec'[q] = rec[q]
<1> DEFINE anchored == [rec[r] EXCEPT !.anchor = ReceiptFor(r)]
<1>1. rec[r] \in [seq : Seqs, anchor : Anchors]
  BY DEF AnchorOk, FlowInv, ServiceTypeOK, HolderInv, Holding
<1>2. ReceiptFor(r) \in Anchors
  BY DEF AnchorOk, ReceiptFor
<1>3. anchored \in [seq : Seqs, anchor : Anchors]
  BY <1>1, <1>2
<1>4. anchored.seq = rec[r].seq /\ anchored.anchor = ReceiptFor(r)
  BY <1>1, <1>2
<1>5. rec' = [rec EXCEPT ![r] = anchored]
  BY DEF AnchorOk
<1> HIDE DEF anchored
<1>6. QED
  BY <1>3, <1>4, <1>5, ServiceAssumption DEF FlowInv, ServiceTypeOK, ReceiptFor

LEMMA TypeStep ==
    ASSUME IInv, FlowInv, [ServiceNext]_serviceVars
    PROVE  ServiceTypeOK'
<1> USE DEF FlowInv, ServiceTypeOK, Handling
<1>1. ASSUME NEW r \in Requests, Arrive(r) PROVE ServiceTypeOK'
  BY <1>1 DEF Arrive, hop
<1>2. ASSUME NEW r \in Requests, Acquire(r) PROVE ServiceTypeOK'
  <2>1. net' \subseteq [from : Requests, seq : Seqs, content : { Content[q] : q \in Requests }]
    <3>1. Len(records) \in Seqs
      BY <1>2, ReservedType
    <3>2. QED
      BY <1>2, <3>1 DEF Acquire
  <2>2. QED
    BY <1>2, <2>1, ReservedType DEF Acquire, hop
<1>3. ASSUME NEW r \in Requests, AnchorOk(r) PROVE ServiceTypeOK'
  BY <1>3, AnchorType DEF AnchorOk, hop
<1>4. ASSUME NEW r \in Requests, AnchorFails(r) \/ Cancel(r) PROVE ServiceTypeOK'
  BY <1>4 DEF AnchorFails, Cancel, hop
<1>5. ASSUME NEW r \in Requests, Store(r) PROVE ServiceTypeOK'
  BY <1>5 DEF Store, Acknowledged, hop
<1>6. ASSUME NEW r \in Requests, Respond(r) PROVE ServiceTypeOK'
  <2>1. Package(r) \in Bodies
    BY <1>6, SealedType DEF Respond, HolderInv, Holding, IInv
  <2>2. QED
    BY <1>6, <2>1 DEF Respond, hop
<1>7. ASSUME Write \/ Restart PROVE ServiceTypeOK'
  BY <1>7 DEF Write, Restart, flow, hop
<1>8. ASSUME Die PROVE ServiceTypeOK'
  BY <1>8 DEF Die, hop
<1>9. ASSUME NEW c \in net, LogAccepts(c) PROVE ServiceTypeOK'
  <2>1. Len(log) + 1 \in Anchors
    BY <1>9, ServiceAssumption DEF LogAccepts, Anchors
  <2>2. [seq |-> c.seq, content |-> c.content] \in
            [seq : Seqs, content : { Content[q] : q \in Requests }]
    OBVIOUS
  <2>3. log' \in Seq([seq : Seqs, content : { Content[q] : q \in Requests }])
    BY <1>9, <2>2 DEF LogAccepts
  <2>4. QED
    BY <1>9, <2>1, <2>3 DEF LogAccepts, flow
<1>10. ASSUME NEW c \in net, LogRefuses(c) PROVE ServiceTypeOK'
  BY <1>10 DEF LogRefuses, flow
<1>11. ASSUME NEW limit \in 1 .. PageLimit, AdminLog(limit) PROVE ServiceTypeOK'
  <2>1. limit \in Nat /\ Len(seen) \in Nat /\ records \in Seq(Records)
    BY <1>11, ServiceAssumption DEF IInv, TypeOK
  <2>2. Window(records, limit, Len(seen)) \in Seq(Records)
    BY <2>1, WindowType
  <2>3. QED
    BY <1>11, <2>2 DEF AdminLog, flow, hop
<1>12. ASSUME UNCHANGED serviceVars PROVE ServiceTypeOK'
  BY <1>12 DEF serviceVars, flow, hop
<1>13. QED
  BY <1>1, <1>2, <1>3, <1>4, <1>5, <1>6, <1>7, <1>8, <1>9, <1>10, <1>11, <1>12 DEF ServiceNext

\* What a step of the store outside append_snapshot does to the phase.
LEMMA PhaseStep ==
    ASSUME TypeOK, Restart
    PROVE  /\ Closed \/ phase = "verify"
           /\ ~Appending'
           /\ published \subseteq published'
<1>1. CASE Open
  BY <1>1 DEF Restart, Open, Replay, RefuseJournal, FileMatches, Rematerialize, RefuseFile,
     RematerializeFails, GiveUp, Opened, Verifying, Closed, Appending, history, disk
<1>2. CASE Outage
  BY <1>2 DEF Restart, Outage, LoseFile, RotFile, RotLine, Upgrade, Closed, Appending, history, disk
<1>3. QED
  BY <1>1, <1>2 DEF Restart

\* A dying process leaves no call behind.
LEMMA DieStep ==
    ASSUME Die
    PROVE  phase' = "down" /\ UNCHANGED published /\ \A r \in Requests : pc'[r] \notin Handling
<1>1. phase' = "down" /\ UNCHANGED published
  BY DEF Die, End, Stop, Crash, CrashInLine, CrashInFile, CrashInRematerialize, PowerLoss,
     Vanish, history
<1>2. QED
  BY <1>1 DEF Die, Handling

\* The two writes of append_snapshot.
LEMMA WriteStep ==
    ASSUME Write
    PROVE  /\ Appending /\ Appending' /\ phase' \notin {"down", "refused", "verify"}
           /\ UNCHANGED <<cur, build, published, records, flow, hop, seen>>
  BY DEF Write, WriteLine, WriteFile, Appending, history, disk

LEMMA HolderStep ==
    ASSUME IInv, FlowInv, [ServiceNext]_serviceVars
    PROVE  HolderInv'
<1> USE DEF FlowInv, HolderInv, Holding, Handling, Closed, ServiceTypeOK
<1>1. ASSUME NEW r \in Requests, Arrive(r) PROVE HolderInv'
  BY <1>1 DEF Arrive, vars, Serving
<1>2. ASSUME NEW r \in Requests, Acquire(r) PROVE HolderInv'
  BY <1>2, ReservedType, ServiceAssumption DEF Acquire, vars
<1>3. ASSUME NEW r \in Requests, AnchorOk(r) PROVE HolderInv'
  BY <1>3, AnchorType DEF AnchorOk, vars
<1>4. ASSUME NEW r \in Requests, AnchorFails(r) \/ Cancel(r) PROVE HolderInv'
  BY <1>4, ServiceAssumption DEF AnchorFails, Cancel, vars
<1>5. ASSUME NEW r \in Requests, Store(r) PROVE HolderInv'
  BY <1>5, ServiceAssumption DEF Store, AppendSnapshot, vars
<1>6. ASSUME NEW r \in Requests, Respond(r) PROVE HolderInv'
  BY <1>6, ServiceAssumption DEF Respond, Push
<1>7. ASSUME Write PROVE HolderInv'
  BY <1>7, WriteStep DEF flow
<1>8. ASSUME Die PROVE HolderInv'
  BY <1>8, DieStep
<1>9. ASSUME Restart PROVE HolderInv'
  BY <1>9, PhaseStep DEF flow, Restart, IInv
<1>10. ASSUME NEW c \in net, LogAccepts(c) \/ LogRefuses(c) PROVE HolderInv'
  BY <1>10 DEF LogAccepts, LogRefuses, vars, flow
<1>11. ASSUME NEW limit \in 1 .. PageLimit, AdminLog(limit) PROVE HolderInv'
  BY <1>11 DEF AdminLog, vars, flow
<1>12. ASSUME UNCHANGED serviceVars PROVE HolderInv'
  BY <1>12 DEF serviceVars, vars, flow
<1>13. QED
  BY <1>1, <1>2, <1>3, <1>4, <1>5, <1>6, <1>7, <1>8, <1>9, <1>10, <1>11, <1>12 DEF ServiceNext

LEMMA LinkStep ==
    ASSUME IInv, FlowInv, [ServiceNext]_serviceVars
    PROVE  LinkInv'
<1> USE DEF FlowInv, LinkInv, ServiceTypeOK
<1>1. ASSUME NEW r \in Requests, Arrive(r) PROVE LinkInv'
  BY <1>1 DEF Arrive, vars, Appending, SealedRecord, Package
<1>2. ASSUME NEW r \in Requests, Acquire(r) PROVE LinkInv'
  BY <1>2 DEF Acquire, vars, Appending, SealedRecord, Package
<1>3. ASSUME NEW r \in Requests, AnchorOk(r) \/ AnchorFails(r) \/ Cancel(r) PROVE LinkInv'
  BY <1>3 DEF AnchorOk, AnchorFails, Cancel, Awaiting, vars, Appending, SealedRecord, Package
<1>4. ASSUME NEW r \in Requests, Store(r) PROVE LinkInv'
  BY <1>4 DEF Store, AppendSnapshot, vars, Appending, SealedRecord, Package
<1>5. ASSUME NEW r \in Requests, Respond(r) PROVE LinkInv'
  <2>1. \A q \in Requests : pc[q] = "appending" => q = r
    BY <1>5 DEF Respond, HolderInv, Holding
  <2>2. QED
    BY <1>5, <2>1 DEF Respond, Push, Appending
<1>6. ASSUME Write PROVE LinkInv'
  BY <1>6, WriteStep DEF flow, SealedRecord, Package
<1>7. ASSUME Die PROVE LinkInv'
  BY <1>7, DieStep DEF Appending, Handling
<1>8. ASSUME Restart PROVE LinkInv'
  <2>1. \A r \in Requests : pc'[r] # "appending"
    BY <1>8, PhaseStep DEF Restart, flow, HolderInv, Handling, IInv
  <2>2. QED
    BY <1>8, <2>1, PhaseStep DEF IInv
<1>9. ASSUME NEW c \in net, LogAccepts(c) \/ LogRefuses(c) PROVE LinkInv'
  BY <1>9 DEF LogAccepts, LogRefuses, vars, flow, Appending, SealedRecord, Package
<1>10. ASSUME NEW limit \in 1 .. PageLimit, AdminLog(limit) PROVE LinkInv'
  BY <1>10 DEF AdminLog, vars, flow, Appending, SealedRecord, Package
<1>11. ASSUME UNCHANGED serviceVars PROVE LinkInv'
  BY <1>11 DEF serviceVars, vars, flow, Appending, SealedRecord, Package
<1>12. QED
  BY <1>1, <1>2, <1>3, <1>4, <1>5, <1>6, <1>7, <1>8, <1>9, <1>10, <1>11 DEF ServiceNext

LEMMA AnsweredStep ==
    ASSUME IInv, FlowInv, [ServiceNext]_serviceVars
    PROVE  AnsweredInv'
<1> USE DEF FlowInv, AnsweredInv
<1>1. ASSUME NEW r \in Requests, Respond(r) PROVE AnsweredInv'
  <2>1. cur = SealedRecord(r) /\ rec[r] # NoOne
    BY <1>1 DEF Respond, LinkInv, HolderInv, Holding
  <2>2. Render(cur, build) = Package(r)
    BY <2>1, SealedType DEF IInv
  <2>3. QED
    BY <1>1, <2>2 DEF Respond, Push
<1>2. ASSUME NEW r \in Requests,
             Arrive(r) \/ Acquire(r) \/ AnchorOk(r) \/ AnchorFails(r) \/ Store(r) \/ Cancel(r)
      PROVE  AnsweredInv'
  BY <1>2 DEF Arrive, Acquire, AnchorOk, AnchorFails, Store, Acknowledged, AppendSnapshot,
     Cancel, vars
<1>3. ASSUME Write \/ Die \/ Restart PROVE AnsweredInv'
  <2>1. published \subseteq published'
    BY <1>3, WriteStep, DieStep, PhaseStep DEF IInv
  <2>2. QED
    BY <1>3, <2>1 DEF Write, Die, Restart, flow
<1>4. ASSUME NEW c \in net, LogAccepts(c) \/ LogRefuses(c) PROVE AnsweredInv'
  BY <1>4 DEF LogAccepts, LogRefuses, vars, flow
<1>5. ASSUME NEW limit \in 1 .. PageLimit, AdminLog(limit) PROVE AnsweredInv'
  BY <1>5 DEF AdminLog, vars, flow
<1>6. ASSUME UNCHANGED serviceVars PROVE AnsweredInv'
  BY <1>6 DEF serviceVars, vars, flow
<1>7. QED
  BY <1>1, <1>2, <1>3, <1>4, <1>5, <1>6 DEF ServiceNext

LEMMA StepFlow == IInv /\ FlowInv /\ [ServiceNext]_serviceVars => (IInv /\ FlowInv)'
  BY StepIsStore, StepInv, TypeStep, HolderStep, LinkStep, AnsweredStep DEF FlowInv

LEMMA ServiceInv == ServiceSpec => [](IInv /\ FlowInv)
<1>1. ServiceInit => IInv /\ FlowInv
  BY InitInv, InitFlow DEF ServiceInit
<1>2. QED
  BY <1>1, StepFlow, PTL DEF ServiceSpec

\* The handlers use the store as its specification says it is used: whatever
\* is proved of the store holds of the service.
THEOREM ServiceUsesStore == ServiceSpec => Spec
<1>1. ServiceInit => Init
  BY DEF ServiceInit
<1>2. IInv /\ FlowInv /\ [ServiceNext]_serviceVars => [Next]_vars
  BY StepIsStore
<1>3. QED
  BY <1>1, <1>2, ServiceInv, PTL DEF ServiceSpec, Spec

\* Handlers, hop, pages and answers have their shapes.
THEOREM ServiceTypes == ServiceSpec => []ServiceTypeOK
<1>1. FlowInv => ServiceTypeOK
  BY DEF FlowInv
<1>2. QED
  BY <1>1, ServiceInv, PTL

\* A package sent with a 201 is served by every later process.
THEOREM ServiceAnsweredServed == ASSUME WholeLines PROVE ServiceSpec => []AnsweredServed
<1>1. FlowInv /\ ServedForever => AnsweredServed
  BY DEF FlowInv, AnsweredInv, ServedForever, AnsweredServed
<1>2. QED
  BY <1>1, ServiceInv, ServiceUsesStore, StoreServedForever, PTL

\* Under the service, too, the store opens again after every death between
\* two of its writes.
THEOREM ServiceReopens == ASSUME PlainCrashes PROVE ServiceSpec => []AlwaysReopens
  BY ServiceUsesStore, StoreAlwaysReopens, PTL

-----------------------------------------------------------------------------
\* While lines are written whole, a step of the store writes the next line
\* or leaves the journal.
LEMMA JournalStep ==
    ASSUME WholeLines, IInv, JInv, [Next]_vars
    PROVE  \/ phase = "line" /\ phase' = "file" /\ journal' = Append(journal, cur)
           \/ UNCHANGED journal
<1>1. CASE WriteLine
  BY <1>1 DEF WriteLine, WholeLine, Written, WholeLines, JInv, LinesInv
<1>2. WriteLine \/ UNCHANGED journal
  BY DEF Next, Open, Ingest, End, Outage, vars, disk, WholeLines,
     Replay, RefuseJournal, FileMatches, Rematerialize, RefuseFile, RematerializeFails,
     GiveUp, Opened, AppendSnapshot, WriteFile, Push, LineFails, FileFails, Abandon,
     Stop, Crash, CrashInLine, CrashInFile, CrashInRematerialize, PowerLoss, Vanish,
     LoseFile, RotFile, RotLine, Upgrade
<1>3. QED
  BY <1>1, <1>2

\* The journal starts with the index, in every phase.
LEMMA IndexIsJournal ==
    ASSUME IInv, JInv
    PROVE  /\ \A i \in DOMAIN records : i \in DOMAIN journal /\ records[i] = journal[i]
           /\ phase \in {"verify", "idle", "line"} => records = journal
<1>1. CASE phase \in {"file", "push"}
  BY <1>1 DEF JInv, IndexInv, IInv, TypeOK, AppendInv, Appending
<1>2. CASE phase \in {"verify", "idle", "line"}
  BY <1>2 DEF JInv, IndexInv
<1>3. CASE Closed
  BY <1>3 DEF IInv, ClosedInv, Closed
<1>4. QED
  BY <1>1, <1>2, <1>3 DEF IInv, TypeOK, Closed

LEMMA PageStep ==
    ASSUME WholeLines, IInv, JInv, FlowInv, PageInv, [ServiceNext]_serviceVars
    PROVE  PageInv'
<1>1. [Next]_vars
  BY StepIsStore
<1>2. IInv' /\ JInv'
  BY <1>1, StepInv, StepJInv
<1>3. seen \in Seq(Records) /\ journal \in Seq(Lines) /\ records \in Seq(Records)
  BY DEF FlowInv, ServiceTypeOK, IInv, TypeOK
<1>4. Len(seen) <= Len(journal)
  BY <1>3 DEF PageInv
<1>5. CASE UNCHANGED seen
  <2>1. \A i \in DOMAIN seen : i \in DOMAIN journal' /\ seen[i] = journal'[i]
    BY <1>1, JournalGrows DEF PageInv
  <2>2. ASSUME Serving' PROVE Len(seen) <= Len(records')
    <3>1. CASE Serving
      <4>1. records' = records \/ records' = Append(records, cur)
        BY <1>1, <2>2, <3>1 DEF Next, Open, Ingest, End, Outage, vars, disk, Serving,
           Replay, RefuseJournal, FileMatches, Rematerialize, RefuseFile, RematerializeFails,
           GiveUp, Opened, AppendSnapshot, WriteLine, WriteFile, Push, LineFails, FileFails,
           Abandon, Stop, Crash, CrashInLine, CrashInFile, CrashInRematerialize, PowerLoss,
           Vanish, LoseFile, RotFile, RotLine, Upgrade, Closed
      <4>2. QED
        BY <1>3, <3>1, <4>1 DEF PageInv
    <3>2. CASE ~Serving
      <4>1. Opened
        BY <1>1, <2>2, <3>2 DEF Next, Open, Ingest, End, Outage, vars, Serving,
           Replay, RefuseJournal, FileMatches, Rematerialize, RefuseFile, RematerializeFails,
           GiveUp, AppendSnapshot, WriteLine, WriteFile, Push, LineFails, FileFails,
           Stop, Crash, CrashInLine, CrashInFile, CrashInRematerialize, PowerLoss,
           Vanish, LoseFile, RotFile, RotLine, Upgrade, Closed, Verifying
      <4>2. QED
        BY <1>4, <4>1, IndexIsJournal DEF Opened
    <3>3. QED
      BY <3>1, <3>2
  <2>3. QED
    BY <1>5, <2>1, <2>2 DEF PageInv
<1>6. ASSUME NEW limit \in 1 .. PageLimit, AdminLog(limit) PROVE PageInv'
  <2> DEFINE page == Window(records, limit, Len(seen))
  <2>1. records = journal /\ Serving
    BY <1>6, IndexIsJournal DEF AdminLog, Serving
  <2>2. limit \in Nat /\ Len(seen) \in Nat /\ Len(seen) <= Len(records)
    BY <1>3, <1>6, <2>1, ServiceAssumption DEF PageInv
  <2>3. /\ page \in Seq(Records)
        /\ Len(seen) + Len(page) <= Len(records)
        /\ \A i \in 1 .. Len(page) : page[i] = records[Len(seen) + i]
    BY <1>3, <2>2, WindowOf
  <2>4. seen' = seen \o page /\ records' = records /\ journal' = journal
    BY <1>6 DEF AdminLog, vars
  <2> HIDE DEF page
  <2>5. /\ Len(seen') = Len(seen) + Len(page)
        /\ \A i \in DOMAIN seen' : seen'[i] = records[i]
    <3>1. \A i \in 1 .. Len(seen) : seen[i] = records[i]
      BY <1>3, <2>1 DEF PageInv
    <3>2. QED
      BY <1>3, <2>2, <2>3, <2>4, <3>1
  <2>6. DOMAIN seen' \subseteq DOMAIN records
    BY <1>3, <2>2, <2>3, <2>4, <2>5
  <2>7. QED
    BY <1>3, <2>1, <2>3, <2>4, <2>5, <2>6 DEF PageInv
<1>7. UNCHANGED seen \/ \E limit \in 1 .. PageLimit : AdminLog(limit)
  BY DEF ServiceNext, serviceVars, Arrive, Acquire, AnchorOk, AnchorFails, Store, Respond,
     Cancel, Write, Die, Restart, LogAccepts, LogRefuses
<1>8. QED
  BY <1>5, <1>6, <1>7

LEMMA WholeInv == ASSUME WholeLines PROVE ServiceSpec => [](IInv /\ FlowInv /\ JInv /\ PageInv)
<1>1. ServiceInit => IInv /\ FlowInv /\ JInv /\ PageInv
  BY InitInv, InitFlow, InitJInv DEF ServiceInit
<1>2. IInv /\ FlowInv /\ JInv /\ PageInv /\ [ServiceNext]_serviceVars
        => (IInv /\ FlowInv /\ JInv /\ PageInv)'
  BY StepFlow, StepIsStore, StepJInv, PageStep
<1>3. QED
  BY <1>1, <1>2, PTL DEF ServiceSpec

\* The pages of the audit journal fit together across appends and restarts.
THEOREM ServicePagesExact == ASSUME WholeLines PROVE ServiceSpec => []PagesExact
<1>1. IInv /\ FlowInv /\ JInv /\ PageInv => PagesExact
  BY IndexIsJournal DEF FlowInv, ServiceTypeOK, IInv, TypeOK, PageInv, PagesExact
<1>2. QED
  BY <1>1, WholeInv, PTL

-----------------------------------------------------------------------------
(* One record for each attempt.                                            *)

\* A line is of an attempt that writes, was answered or was cut off; the one
\* that is about to write has none yet.
Wrote == {"appending", "done", "cut"}
Left(r) == \E i \in DOMAIN journal : journal[i].doc.sip = r
SipInv ==
    /\ \A i \in DOMAIN journal :
          journal[i].doc.sip \in Requests /\ pc[journal[i].doc.sip] \in Wrote
    /\ \A i, j \in DOMAIN journal : journal[i].doc.sip = journal[j].doc.sip => i = j
    /\ phase = "line" => ~Left(cur.doc.sip)
    /\ \A r \in Requests : pc[r] = "done" => Left(r)

\* While the journal stays and no handler that wrote turns into one that did
\* not, only the answer and the next call have to be looked at.
LEMMA SipKept ==
    ASSUME SipInv, UNCHANGED journal,
           \A r \in Requests : pc[r] \in Wrote => pc'[r] \in Wrote,
           \A r \in Requests : pc'[r] = "done" => Left(r),
           phase' = "line" => ~Left(cur'.doc.sip)
    PROVE  SipInv'
  BY DEF SipInv, Left

LEMMA SipStep ==
    ASSUME WholeLines, IInv, JInv, FlowInv, SipInv, [ServiceNext]_serviceVars
    PROVE  SipInv'
<1> USE DEF FlowInv, ServiceTypeOK, Wrote
<1>1. ASSUME NEW r \in Requests, Store(r) PROVE SipInv'
  <2>1. ~Left(r) /\ UNCHANGED journal
    BY <1>1 DEF Store, SipInv, Left, AppendSnapshot, vars, disk
  <2>2. phase' = "line" => cur'.doc.sip = r
    BY <1>1 DEF Store, AppendSnapshot, SealedRecord, DocOf, vars
  <2>3. /\ \A q \in Requests : pc[q] \in Wrote => pc'[q] \in Wrote
        /\ \A q \in Requests : pc'[q] = "done" => pc[q] = "done"
    BY <1>1 DEF Store
  <2>4. QED
    BY <2>1, <2>2, <2>3, SipKept DEF SipInv
<1>2. ASSUME NEW r \in Requests, Respond(r) PROVE SipInv'
  <2>1. journal = Append(records, cur) /\ UNCHANGED journal /\ phase' = "idle"
    BY <1>2 DEF Respond, Push, JInv, IndexInv, disk
  <2>2. cur.doc.sip = r
    BY <1>2 DEF Respond, LinkInv, SealedRecord, DocOf
  <2>3. Left(r)
    BY <2>1, <2>2 DEF Left, IInv, TypeOK
  <2>4. QED
    BY <1>2, <2>1, <2>3, SipKept DEF SipInv, Respond
<1>3. ASSUME Write PROVE SipInv'
  <2>1. CASE WriteLine
    <3>1. PICK r \in Requests : pc[r] = "appending" /\ cur = SealedRecord(r)
      BY <2>1 DEF WriteLine, Appending, LinkInv
    <3>2. journal' = Append(journal, cur) /\ UNCHANGED pc /\ phase' = "file" /\ phase = "line"
      BY <1>3, <2>1 DEF Write, WriteLine, WholeLine, Written, WholeLines, JInv, LinesInv, flow
    <3>3. cur.doc.sip = r
      BY <3>1 DEF SealedRecord, DocOf
    <3>4. \A i \in DOMAIN journal' :
             \/ i \in DOMAIN journal /\ journal'[i] = journal[i]
             \/ i = Len(journal) + 1 /\ journal'[i] = cur
      BY <3>2 DEF IInv, TypeOK
    <3>5. \A i \in DOMAIN journal : i \in DOMAIN journal' /\ journal'[i] = journal[i]
      BY <3>2 DEF IInv, TypeOK
    <3>6. QED
      BY <3>1, <3>2, <3>3, <3>4, <3>5 DEF SipInv, Left
  <2>2. CASE WriteFile
    BY <1>3, <2>2, SipKept DEF Write, WriteFile, flow, SipInv
  <2>3. QED
    BY <1>3, <2>1, <2>2 DEF Write
<1>4. ASSUME Die PROVE SipInv'
  <2>1. UNCHANGED journal /\ phase' = "down"
    BY <1>4 DEF Die, End, Stop, Crash, CrashInLine, CrashInFile, CrashInRematerialize,
       PowerLoss, Vanish, WholeLines, disk
  <2>2. QED
    BY <1>4, <2>1, SipKept DEF Die, Handling, SipInv
<1>5. ASSUME Restart PROVE SipInv'
  <2>1. UNCHANGED <<journal, pc>>
    BY <1>5, StepIsStore, JournalStep, PhaseStep DEF Restart, flow, Appending, IInv
  <2>2. phase' # "line"
    BY <1>5, PhaseStep DEF Appending, IInv
  <2>3. QED
    BY <2>1, <2>2, SipKept DEF SipInv
<1>6. ASSUME UNCHANGED vars,
             \A r \in Requests : pc'[r] = pc[r] \/ (pc[r] \notin Wrote /\ pc'[r] # "done")
      PROVE  SipInv'
  BY <1>6, SipKept DEF SipInv, vars
<1>7. ASSUME NEW r \in Requests,
             Arrive(r) \/ Acquire(r) \/ AnchorOk(r) \/ AnchorFails(r) \/ Cancel(r)
      PROVE  SipInv'
  <2>1. UNCHANGED vars
    BY <1>7 DEF Arrive, Acquire, AnchorOk, AnchorFails, Cancel
  <2>2. \A q \in Requests : pc'[q] = pc[q] \/ (pc[q] \notin Wrote /\ pc'[q] # "done")
    BY <1>7 DEF Arrive, Acquire, AnchorOk, AnchorFails, Cancel, Awaiting
  <2>3. QED
    BY <1>6, <2>1, <2>2
<1>8. ASSUME UNCHANGED <<vars, pc>> PROVE SipInv'
  BY <1>6, <1>8
<1>9. ASSUME NEW c \in net, LogAccepts(c) \/ LogRefuses(c) PROVE SipInv'
  BY <1>8, <1>9 DEF LogAccepts, LogRefuses, flow
<1>10. ASSUME NEW limit \in 1 .. PageLimit, AdminLog(limit) PROVE SipInv'
  BY <1>8, <1>10 DEF AdminLog, flow
<1>11. ASSUME UNCHANGED serviceVars PROVE SipInv'
  BY <1>8, <1>11 DEF serviceVars, flow
<1>12. QED
  BY <1>1, <1>2, <1>3, <1>4, <1>5, <1>7, <1>9, <1>10, <1>11 DEF ServiceNext

\* An attempt leaves one record or none, and the right one of the two.
THEOREM ServiceOneRecordEach == ASSUME WholeLines PROVE ServiceSpec => []OneRecordEach
<1>1. ServiceInit => SipInv
  BY DEF ServiceInit, Init, SipInv, Left
<1>2. IInv /\ FlowInv /\ JInv /\ SipInv /\ [ServiceNext]_serviceVars => SipInv'
  BY SipStep
<1>3. IInv /\ JInv /\ SipInv => OneRecordEach
  BY DEF JInv, LinesInv, SipInv, Left, Wrote, OneRecordEach
<1>4. QED
  BY <1>1, <1>2, <1>3, WholeInv, PTL DEF ServiceSpec

-----------------------------------------------------------------------------
(* Receipts: an anchor is the place of the record's own commitment.        *)

Commitment(n, r) == [seq |-> n, content |-> Content[r]]
Bound(n, a, r) == a # 0 => a \in DOMAIN log /\ log[a] = Commitment(n, r)

\* A request that holds no number has sent nothing; whatever is under way, or
\* was accepted, is the commitment of the number its sender got, also when the
\* sender died.
FreshInv ==
    \A r \in Requests :
        pc[r] \in {"new", "queued"} =>
            rec[r] = NoOne /\ reply[r] = NoOne /\ \A c \in net : c.from # r
SentInv ==
    \A c \in net :
        rec[c.from] # NoOne /\ c.seq = rec[c.from].seq /\ c.content = Content[c.from]
ReplyInv ==
    \A r \in Requests :
        reply[r] \in Anchors =>
            /\ rec[r] # NoOne
            /\ reply[r] \in DOMAIN log
            /\ log[reply[r]] = Commitment(rec[r].seq, r)
NetInv == FreshInv /\ SentInv /\ ReplyInv

\* What is sealed, and what is written, carries the anchor it got or none.
BoundInv ==
    /\ \A r \in Requests : pc[r] = "anchoring" => rec[r].anchor = 0
    /\ \A r \in Requests :
          pc[r] \in {"sealed", "appending"} => Bound(rec[r].seq, rec[r].anchor, r)
    /\ \A i \in DOMAIN journal :
          Bound(journal[i].seq, journal[i].doc.anchor, journal[i].doc.sip)

LEMMA NetStep ==
    ASSUME IInv, FlowInv, NetInv, [ServiceNext]_serviceVars
    PROVE  NetInv'
<1> USE DEF FlowInv, ServiceTypeOK, Handling, NetInv
<1>1. ASSUME NEW r \in Requests, Acquire(r) PROVE NetInv'
  <2>1. rec'[r] # NoOne /\ rec'[r].seq = Len(records)
    BY <1>1, ReservedType DEF Reserved
  <2>2. UNCHANGED <<log, reply>> /\ \A q \in Requests \ {r} : rec'[q] = rec[q] /\ pc'[q] = pc[q]
    BY <1>1 DEF Acquire
  <2>3. pc'[r] \in {"anchoring", "sealed"} /\ rec[r] = NoOne /\ reply[r] = NoOne
    BY <1>1 DEF Acquire, FreshInv
  <2>4. \A c \in net' : \/ c \in net /\ c.from # r
                        \/ c = [from |-> r, seq |-> Len(records), content |-> Content[r]]
    BY <1>1 DEF Acquire, FreshInv
  <2>5. \A q \in Requests : reply'[q] \in Anchors => q # r
    BY <2>2, <2>3, ServiceAssumption
  <2>6. QED
    <3>1. FreshInv'
      BY <2>2, <2>3, <2>4 DEF FreshInv
    <3>2. SentInv'
      BY <2>1, <2>2, <2>4 DEF SentInv
    <3>3. ReplyInv'
      BY <2>2, <2>5 DEF ReplyInv, Commitment
    <3>4. QED
      BY <3>1, <3>2, <3>3
<1>2. ASSUME NEW r \in Requests, AnchorOk(r) PROVE NetInv'
  <2>1. /\ rec'[r] # NoOne /\ rec'[r].seq = rec[r].seq /\ rec[r] # NoOne
        /\ \A q \in Requests \ {r} : rec'[q] = rec[q]
    BY <1>2, AnchorType DEF AnchorOk, HolderInv, Holding
  <2>2. UNCHANGED <<net, log, reply>> /\ pc'[r] = "sealed"
        /\ \A q \in Requests \ {r} : pc'[q] = pc[q]
    BY <1>2 DEF AnchorOk, hop
  <2>3. QED
    <3>1. FreshInv'
      BY <2>1, <2>2 DEF FreshInv
    <3>2. SentInv'
      BY <2>1, <2>2 DEF SentInv
    <3>3. ReplyInv'
      BY <2>1, <2>2 DEF ReplyInv, Commitment
    <3>4. QED
      BY <3>1, <3>2, <3>3
<1>3. ASSUME UNCHANGED <<rec, hop>>,
             \A r \in Requests : pc'[r] \in {"new", "queued"} => pc[r] \in {"new", "queued"}
      PROVE  NetInv'
  BY <1>3 DEF FreshInv, SentInv, ReplyInv, Commitment, hop
<1>4. ASSUME NEW r \in Requests,
             Arrive(r) \/ AnchorFails(r) \/ Store(r) \/ Respond(r) \/ Cancel(r)
      PROVE  NetInv'
  <2>1. UNCHANGED <<rec, hop>>
    BY <1>4 DEF Arrive, AnchorFails, Store, Respond, Cancel
  <2>2. \A q \in Requests : pc'[q] \in {"new", "queued"} => pc[q] \in {"new", "queued"}
    BY <1>4 DEF Arrive, AnchorFails, Store, Respond, Cancel
  <2>3. QED
    BY <1>3, <2>1, <2>2
<1>5. ASSUME Die PROVE NetInv'
  <2>1. UNCHANGED <<rec, hop>>
    BY <1>5 DEF Die
  <2>2. \A q \in Requests : pc'[q] \in {"new", "queued"} => pc[q] \in {"new", "queued"}
    BY <1>5 DEF Die
  <2>3. QED
    BY <1>3, <2>1, <2>2
<1>6. ASSUME UNCHANGED <<rec, hop, pc>> PROVE NetInv'
  BY <1>3, <1>6
<1>7. ASSUME NEW c \in net, LogAccepts(c) PROVE NetInv'
  <2>1. c.from \in Requests /\ UNCHANGED <<pc, rec>> /\ net' \subseteq net
    BY <1>7 DEF LogAccepts, flow
  <2>2. /\ Len(log) + 1 \in DOMAIN log'
        /\ log'[Len(log) + 1] = Commitment(rec[c.from].seq, c.from)
        /\ \A a \in DOMAIN log : a \in DOMAIN log' /\ log'[a] = log[a]
    BY <1>7, <2>1 DEF LogAccepts, SentInv, Commitment
  <2>3. /\ reply'[c.from] = Len(log) + 1
        /\ \A r \in Requests \ {c.from} : reply'[r] = reply[r]
    BY <1>7 DEF LogAccepts
  <2>4. rec[c.from] # NoOne /\ pc[c.from] \notin {"new", "queued"}
    BY <2>1 DEF FreshInv, SentInv
  <2>5. QED
    <3>1. FreshInv'
      BY <2>1, <2>3, <2>4 DEF FreshInv
    <3>2. SentInv'
      BY <2>1 DEF SentInv
    <3>3. ReplyInv'
      BY <2>1, <2>2, <2>3, <2>4 DEF ReplyInv, Commitment
    <3>4. QED
      BY <3>1, <3>2, <3>3
<1>8. ASSUME NEW c \in net, LogRefuses(c) PROVE NetInv'
  <2>1. c.from \in Requests /\ UNCHANGED <<pc, rec, log>> /\ net' \subseteq net
    BY <1>8 DEF LogRefuses, flow
  <2>2. \A r \in Requests : reply'[r] = reply[r] \/ (r = c.from /\ reply'[r] = Refused)
    BY <1>8 DEF LogRefuses
  <2>3. pc[c.from] \notin {"new", "queued"}
    BY <2>1 DEF FreshInv
  <2>4. QED
    BY <2>1, <2>2, <2>3, ServiceAssumption DEF FreshInv, SentInv, ReplyInv, Commitment
<1>9. ASSUME \/ Write
             \/ Restart
             \/ \E limit \in 1 .. PageLimit : AdminLog(limit)
             \/ UNCHANGED serviceVars
      PROVE  NetInv'
  BY <1>6, <1>9 DEF Write, Restart, AdminLog, flow, serviceVars
<1>10. QED
  BY <1>1, <1>2, <1>4, <1>5, <1>7, <1>8, <1>9 DEF ServiceNext

\* A longer log keeps every anchor.
LEMMA BoundKept ==
    ASSUME BoundInv, UNCHANGED journal,
           \A a \in DOMAIN log : a \in DOMAIN log' /\ log'[a] = log[a],
           \A r \in Requests :
               /\ pc'[r] = "anchoring" => rec'[r].anchor = 0
               /\ pc'[r] \in {"sealed", "appending"} =>
                      Bound(rec'[r].seq, rec'[r].anchor, r)
    PROVE  BoundInv'
  BY DEF BoundInv, Bound, Commitment

LEMMA BoundStep ==
    ASSUME WholeLines, IInv, JInv, FlowInv, NetInv, BoundInv, [ServiceNext]_serviceVars
    PROVE  BoundInv'
<1> USE DEF FlowInv, ServiceTypeOK
<1>1. ASSUME NEW r \in Requests, Acquire(r) PROVE BoundInv'
  <2>1. rec'[r].anchor = 0
    BY <1>1, ReservedType DEF Reserved
  <2>2. UNCHANGED <<journal, log>> /\ \A q \in Requests \ {r} : rec'[q] = rec[q] /\ pc'[q] = pc[q]
    BY <1>1 DEF Acquire, vars
  <2>3. QED
    BY <2>1, <2>2, BoundKept DEF BoundInv, Bound
<1>2. ASSUME NEW r \in Requests, AnchorOk(r) PROVE BoundInv'
  <2>1. /\ rec'[r].seq = rec[r].seq /\ rec'[r].anchor = reply[r]
        /\ \A q \in Requests \ {r} : rec'[q] = rec[q]
    BY <1>2, AnchorType
  <2>2. UNCHANGED <<journal, log>> /\ pc'[r] = "sealed" /\ reply[r] \in Anchors
        /\ \A q \in Requests \ {r} : pc'[q] = pc[q]
    BY <1>2 DEF AnchorOk, hop, vars
  <2>3. Bound(rec[r].seq, reply[r], r)
    BY <2>2 DEF NetInv, ReplyInv, Bound
  <2>4. QED
    BY <2>1, <2>2, <2>3, BoundKept DEF BoundInv
<1>3. ASSUME NEW r \in Requests,
             Arrive(r) \/ AnchorFails(r) \/ Store(r) \/ Respond(r) \/ Cancel(r)
      PROVE  BoundInv'
  <2>1. UNCHANGED <<journal, rec, log>>
    BY <1>3 DEF Arrive, AnchorFails, Store, AppendSnapshot, Respond, Push, Cancel, vars, hop, disk
  <2>2. \A q \in Requests :
           /\ pc'[q] = "anchoring" => pc[q] = "anchoring"
           /\ pc'[q] \in {"sealed", "appending"} => pc[q] \in {"anchoring", "sealed", "appending"}
    BY <1>3 DEF Arrive, AnchorFails, Store, Respond, Cancel
  <2>3. QED
    BY <2>1, <2>2, BoundKept DEF BoundInv, Bound
<1>4. ASSUME Die PROVE BoundInv'
  <2>1. UNCHANGED <<journal, rec, log>>
    BY <1>4, StepIsStore, JournalStep, DieStep DEF Die, hop, ServiceNext
  <2>2. \A q \in Requests : pc'[q] \notin Handling
    BY <1>4, DieStep
  <2>3. QED
    BY <2>1, <2>2, BoundKept DEF BoundInv, Handling
<1>5. ASSUME Write PROVE BoundInv'
  <2>1. UNCHANGED <<pc, rec, log>>
    BY <1>5 DEF Write, flow, hop
  <2>2. ASSUME journal' = Append(journal, cur) PROVE BoundInv'
    <3>1. PICK r \in Requests : pc[r] = "appending" /\ cur = SealedRecord(r)
      BY <1>5, WriteStep DEF LinkInv
    <3>2. Bound(cur.seq, cur.doc.anchor, cur.doc.sip)
      BY <3>1 DEF BoundInv, SealedRecord, DocOf
    <3>3. \A i \in DOMAIN journal' :
             \/ i \in DOMAIN journal /\ journal'[i] = journal[i]
             \/ journal'[i] = cur
      BY <2>2 DEF IInv, TypeOK
    <3>4. QED
      BY <2>1, <3>2, <3>3 DEF BoundInv, Bound, Commitment
  <2>3. CASE UNCHANGED journal
    BY <2>1, <2>3, BoundKept DEF BoundInv
  <2>4. QED
    BY <2>2, <2>3, StepIsStore, JournalStep
<1>6. ASSUME Restart PROVE BoundInv'
  <2>1. UNCHANGED <<journal, pc, rec, log>>
    BY <1>6, StepIsStore, JournalStep, PhaseStep DEF Restart, flow, hop, Appending, IInv
  <2>2. QED
    BY <2>1, BoundKept DEF BoundInv
<1>7. ASSUME NEW c \in net, LogAccepts(c) \/ LogRefuses(c) PROVE BoundInv'
  <2>1. UNCHANGED <<journal, pc, rec>>
    BY <1>7 DEF LogAccepts, LogRefuses, vars, flow
  <2>2. \A a \in DOMAIN log : a \in DOMAIN log' /\ log'[a] = log[a]
    <3>1. CASE LogAccepts(c)
      BY <3>1 DEF LogAccepts
    <3>2. CASE LogRefuses(c)
      BY <3>2 DEF LogRefuses
    <3>3. QED
      BY <1>7, <3>1, <3>2
  <2>3. QED
    BY <2>1, <2>2, BoundKept DEF BoundInv
<1>8. ASSUME (\E limit \in 1 .. PageLimit : AdminLog(limit)) \/ UNCHANGED serviceVars
      PROVE  BoundInv'
  <2>1. UNCHANGED <<journal, pc, rec, log>>
    BY <1>8 DEF AdminLog, vars, flow, hop, serviceVars
  <2>2. QED
    BY <2>1, BoundKept DEF BoundInv
<1>9. QED
  BY <1>1, <1>2, <1>3, <1>4, <1>5, <1>6, <1>7, <1>8 DEF ServiceNext

\* Of every snapshot served with a receipt, the log holds this snapshot's own
\* commitment at the receipt's place.
THEOREM ServiceAnchorsKept == ASSUME WholeLines PROVE ServiceSpec => []AnchorsKept
<1>1. ServiceInit => NetInv /\ BoundInv
  BY ServiceAssumption DEF ServiceInit, Init, NetInv, FreshInv, SentInv, ReplyInv,
     BoundInv
<1>2. IInv /\ FlowInv /\ JInv /\ NetInv /\ BoundInv /\ [ServiceNext]_serviceVars
        => (NetInv /\ BoundInv)'
  BY NetStep, BoundStep
<1>3. IInv /\ JInv /\ BoundInv => AnchorsKept
  BY IndexIsJournal DEF BoundInv, Bound, Commitment, AnchorsKept
<1>4. QED
  BY <1>1, <1>2, <1>3, WholeInv, PTL DEF ServiceSpec
==============================================================================
