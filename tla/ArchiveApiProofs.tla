--------------------------- MODULE ArchiveApiProofs ---------------------------
(***************************************************************************)
(* What the request flows guarantee for any number of requests and         *)
(* readers: a reserved number never clashes (NoConflict), each 201 is one  *)
(* record (Accounted), receipts belong to their records (ReceiptBinds),    *)
(* the log holds nothing unaccounted for (LogAccounted); and, as long as   *)
(* the clock does not step back, sequence order is time order and the      *)
(* listing of a settled instant is final.                                  *)
(***************************************************************************)
EXTENDS ArchiveApi, TLAPS

\* The lock is held by the one handler between its reservation and its end.
LockInv == \A r \in Requests : Holding(r) <=> holder = r

\* The number the holder reserved is still the next one.
DueInv ==
    \A r \in Requests : Holding(r) => rec[r] \in Entries /\ rec[r].seq = Len(records)

\* A handler has a record from its reservation on, and it is its own.
OwnInv ==
    \A r \in Requests :
        rec[r] # None =>
            /\ rec[r].sip = r
            /\ pc[r] \in {"anchoring", "sealed", "done", "failed", "gone"}

\* A stored record is the one of a handler that answered 201.
StoredInv ==
    \A i \in DOMAIN records :
        rec[records[i].sip] = records[i] /\ pc[records[i].sip] = "done"

\* What was sent to the log, and what it sequenced, are commitments to the
\* records the handlers built; numbers and instants in them do not change.
Committed(c) == rec[c.sip] \in Entries /\ Commitment(rec[c.sip]) = c
LogInv ==
    /\ \A c \in net : Committed(c)
    /\ \A k \in DOMAIN log : Committed(log[k])

\* A receipt, answered or embedded, is a position of the request's own.
Mine(r, k) == k \in DOMAIN log /\ log[k].sip = r
ReplyInv ==
    \A r \in Requests :
        /\ reply[r] \in Positions => Mine(r, reply[r])
        /\ rec[r] # None /\ rec[r].anchor # 0 => Mine(r, rec[r].anchor)

IInv ==
    /\ TypeOK
    /\ LockInv
    /\ DueInv
    /\ OwnInv
    /\ StoredInv
    /\ Accounted
    /\ LogInv
    /\ ReplyInv
    /\ NoConflict

-----------------------------------------------------------------------------
\* Stored records and commitments name requests.
LEMMA Names ==
    ASSUME TypeOK
    PROVE  /\ \A i \in DOMAIN records : records[i] \in Entries /\ records[i].sip \in Requests
           /\ \A c \in net : c.sip \in Requests
           /\ \A k \in DOMAIN log : log[k].sip \in Requests
<1>1. \A i \in DOMAIN records : records[i] \in Entries
  BY DEF TypeOK
<1>2. \A c \in net : c \in Commitments
  BY DEF TypeOK
<1>3. \A k \in DOMAIN log : log[k] \in Commitments
  BY DEF TypeOK
<1>4. QED
  BY <1>1, <1>2, <1>3 DEF Entries, Commitments

LEMMA InitIInv == Init => IInv
<1> SUFFICES ASSUME Init PROVE IInv
  OBVIOUS
<1>1. TypeOK
  BY ApiAssumption DEF Init, TypeOK, Instants, Positions
<1>2. LockInv /\ DueInv /\ OwnInv /\ StoredInv /\ Accounted /\ NoConflict
  BY ApiAssumption DEF Init, LockInv, DueInv, OwnInv, StoredInv, Accounted, NoConflict, Holding
<1>3. LogInv /\ ReplyInv
  BY ApiAssumption DEF Init, LogInv, ReplyInv, Positions
<1>4. QED
  BY <1>1, <1>2, <1>3 DEF IInv

\* A step of a handler that has no record yet and gets none.
LEMMA Waiting ==
    ASSUME IInv, NEW r \in Requests, NEW how \in {"queued", "rejected", "gone"},
           pc[r] \in {"new", "queued"},
           pc' = [pc EXCEPT ![r] = how],
           UNCHANGED <<clock, records, holder, rec, hop, listing>>,
           ticket' \in [Requests -> Nat], nextTicket' \in Positions
    PROVE  IInv'
<1> USE DEF hop, listing
<1>1. TypeOK'
  BY DEF IInv, TypeOK, Finished
<1>2. \A q \in Requests : Holding(q)' <=> Holding(q)
  BY DEF Holding, IInv, TypeOK
<1>3. LockInv' /\ DueInv' /\ LogInv' /\ ReplyInv'
  BY <1>2 DEF IInv, LockInv, DueInv, LogInv, Committed, ReplyInv, Mine
<1>4. rec[r] = None
  BY DEF IInv, OwnInv
<1>5. OwnInv' /\ StoredInv' /\ Accounted' /\ NoConflict'
  BY <1>4 DEF IInv, TypeOK, OwnInv, StoredInv, Accounted, NoConflict
<1>6. QED
  BY <1>1, <1>3, <1>5 DEF IInv

LEMMA AcquireIInv == ASSUME IInv, NEW r \in Requests, Acquire(r) PROVE IInv'
<1> USE DEF hop, listing
<1>1. /\ pc[r] = "queued" /\ holder = None /\ rec[r] = None
      /\ Reserved(r) \in Entries /\ Commitment(Reserved(r)) \in Commitments
      /\ Reserved(r) # None
  <2>1. pc[r] = "queued" /\ holder = None
    BY DEF Acquire, LockFree
  <2>2. rec[r] = None
    BY <2>1 DEF IInv, OwnInv
  <2>3. Len(records) \in Nat /\ clock \in Instants
    BY DEF IInv, TypeOK
  <2>4. Reserved(r) \in Entries /\ Commitment(Reserved(r)) \in Commitments
    BY <2>3 DEF Reserved, Commitment, Entries, Commitments
  <2>5. QED
    BY <2>1, <2>2, <2>4, ApiAssumption
<1>2. /\ holder' = r
      /\ rec' = [rec EXCEPT ![r] = Reserved(r)]
      /\ pc'[r] \in {"anchoring", "sealed"}
      /\ pc' = [pc EXCEPT ![r] = pc'[r]]
      /\ net' \subseteq net \cup {Commitment(Reserved(r))}
      /\ UNCHANGED <<clock, records, ticket, nextTicket, log, reply, listing>>
  BY DEF Acquire, IInv, TypeOK
<1>3. TypeOK'
  BY <1>1, <1>2 DEF IInv, TypeOK
<1>4. \A q \in Requests : ~Holding(q)
  BY <1>1, ApiAssumption DEF IInv, LockInv
<1>5. \A q \in Requests : Holding(q)' <=> q = r
  BY <1>2, <1>4 DEF Holding, IInv, TypeOK
<1>6. LockInv'
  BY <1>2, <1>5 DEF LockInv
<1>7. DueInv'
  BY <1>1, <1>2, <1>5 DEF DueInv, Reserved, IInv, TypeOK
<1>8. OwnInv'
  BY <1>1, <1>2 DEF OwnInv, Reserved, IInv, TypeOK
<1>9. \A i \in DOMAIN records : records[i].sip # r /\ records[i] \in Entries
  BY <1>1 DEF IInv, StoredInv, TypeOK
<1>10. StoredInv' /\ Accounted' /\ NoConflict'
  BY <1>1, <1>2, <1>9 DEF StoredInv, Accounted, NoConflict, Entries, IInv, TypeOK
<1>11. \A c : Committed(c) /\ c.sip \in Requests => Committed(c)'
  BY <1>1, <1>2, ApiAssumption DEF Committed, IInv, TypeOK
<1>12. PICK d \in Commitments : d = Commitment(Reserved(r))
  BY <1>1
<1>13. Committed(d)'
  BY <1>1, <1>2, <1>12 DEF Committed, Commitment, Reserved, IInv, TypeOK
<1>14. LogInv'
  <2>1. net' \subseteq net \cup {d} /\ log' = log
    BY <1>2, <1>12
  <2>2. \A c \in net : Committed(c)'
    BY <1>11, Names DEF LogInv, IInv
  <2>3. \A k \in DOMAIN log : Committed(log[k])'
    BY <2>1, <1>11, Names DEF LogInv, IInv
  <2>4. QED
    BY <2>1, <2>2, <2>3, <1>13 DEF LogInv
<1>15. ReplyInv'
  BY <1>2 DEF ReplyInv, Mine, Reserved, IInv, TypeOK
<1>16. QED
  BY <1>3, <1>6, <1>7, <1>8, <1>10, <1>14, <1>15 DEF IInv

LEMMA AnchorIInv ==
    ASSUME IInv, NEW r \in Requests, AnchorOk(r) \/ AnchorFails(r)
    PROVE  IInv'
<1> USE DEF hop, listing
<1>1. /\ pc[r] = "anchoring" /\ Holding(r)
      /\ rec[r] \in Entries /\ rec[r] # None
      /\ rec[r].seq = Len(records) /\ rec[r].sip = r
  BY ApiAssumption DEF AnchorOk, AnchorFails, Holding, IInv, DueInv, OwnInv
<1> DEFINE Anchored(k) == [rec EXCEPT ![r] = [rec[r] EXCEPT !.anchor = k]]
<1>2. PICK k \in Nat : /\ rec' = Anchored(k)
                       /\ \/ k = rec[r].anchor
                          \/ k = reply[r] /\ reply[r] \in Positions
  <2>1. CASE AnchorOk(r)
    BY <2>1 DEF AnchorOk, Receipt, Positions
  <2>2. CASE AnchorFails(r)
    <3>1. rec[r] = [rec[r] EXCEPT !.anchor = rec[r].anchor] /\ rec[r].anchor \in Nat
      BY <1>1 DEF Entries
    <3>2. rec = [rec EXCEPT ![r] = rec[r]]
      BY DEF IInv, TypeOK
    <3>3. rec' = Anchored(rec[r].anchor)
      BY <2>2, <3>1, <3>2 DEF AnchorFails
    <3> HIDE DEF Anchored
    <3>4. QED
      BY <3>1, <3>3
  <2>3. QED
    BY <2>1, <2>2
<1>3. /\ pc' = [pc EXCEPT ![r] = "sealed"]
      /\ UNCHANGED <<clock, records, holder, ticket, nextTicket, hop, listing>>
  BY DEF AnchorOk, AnchorFails
<1>4. /\ rec'[r] \in Entries /\ rec'[r].seq = rec[r].seq /\ rec'[r].sip = rec[r].sip
      /\ Commitment(rec'[r]) = Commitment(rec[r])
      /\ rec'[r].anchor = k
      /\ \A q \in Requests : q # r => rec'[q] = rec[q]
      /\ rec' \in [Requests -> Entries \cup {None}]
  BY <1>1, <1>2 DEF Entries, Commitment, IInv, TypeOK
<1>5. TypeOK'
  BY <1>3, <1>4 DEF IInv, TypeOK
<1>6. \A q \in Requests : Holding(q)' <=> Holding(q)
  BY <1>1, <1>3 DEF Holding, IInv, TypeOK
<1>7. LockInv' /\ DueInv'
  BY <1>1, <1>3, <1>4, <1>6 DEF IInv, LockInv, DueInv
<1>8. OwnInv'
  BY <1>1, <1>3, <1>4 DEF IInv, TypeOK, OwnInv
<1>9. \A i \in DOMAIN records : records[i].sip # r /\ records[i].sip \in Requests
  BY <1>1, Names DEF IInv, StoredInv
<1>10. StoredInv' /\ Accounted' /\ NoConflict'
  BY <1>1, <1>3, <1>4, <1>9 DEF IInv, TypeOK, StoredInv, Accounted, NoConflict
<1>11. \A c : Committed(c) /\ c.sip \in Requests => Committed(c)'
  BY <1>4 DEF Committed
<1>12. LogInv'
  BY <1>3, <1>11, Names DEF LogInv, IInv
<1>13. ReplyInv'
  BY <1>1, <1>2, <1>3, <1>4 DEF ReplyInv, Mine, IInv
<1>14. QED
  BY <1>5, <1>7, <1>8, <1>10, <1>12, <1>13 DEF IInv

\* The holder leaves without a record in the index.
LEMMA LeaveIInv ==
    ASSUME IInv, NEW r \in Requests, NEW how \in {"failed", "gone"}, Holding(r),
           Leave(r, how), UNCHANGED <<clock, records, ticket, nextTicket, rec, hop, listing>>
    PROVE  IInv'
<1> USE DEF hop, listing
<1>1. holder' = None /\ pc' = [pc EXCEPT ![r] = how] /\ holder = r
  BY DEF Leave, Release, IInv, LockInv
<1>2. TypeOK'
  BY <1>1 DEF IInv, TypeOK, Finished
<1>3. \A q \in Requests : ~Holding(q)'
  BY <1>1 DEF Holding, IInv, TypeOK, LockInv
<1>4. LockInv' /\ DueInv'
  BY <1>1, <1>3, ApiAssumption DEF LockInv, DueInv
<1>5. OwnInv' /\ StoredInv' /\ Accounted' /\ NoConflict'
  BY <1>1 DEF IInv, TypeOK, Holding, OwnInv, StoredInv, Accounted, NoConflict
<1>6. LogInv' /\ ReplyInv'
  BY DEF IInv, LogInv, Committed, ReplyInv, Mine
<1>7. QED
  BY <1>2, <1>4, <1>5, <1>6 DEF IInv

LEMMA StoreIInv == ASSUME IInv, NEW r \in Requests, Store(r) PROVE IInv'
<1> USE DEF hop, listing
<1>1. /\ pc[r] = "sealed" /\ Holding(r) /\ holder = r
      /\ rec[r] \in Entries /\ rec[r] # None /\ rec[r].sip = r /\ InOrder(r)
  BY ApiAssumption DEF Store, Holding, InOrder, IInv, LockInv, DueInv, OwnInv
<1>2. /\ records' = Append(records, rec[r])
      /\ pc' = [pc EXCEPT ![r] = "done"] /\ holder' = None
      /\ UNCHANGED <<clock, ticket, nextTicket, rec, hop, listing>>
  BY <1>1 DEF Store, Stored, Leave, Release
<1>3. records \in Seq(Entries)
  BY DEF IInv, TypeOK
<1>4. TypeOK'
  BY <1>1, <1>2 DEF IInv, TypeOK, Finished
<1>5. /\ DOMAIN records' = 1 .. Len(records) + 1 /\ DOMAIN records = 1 .. Len(records)
      /\ \A i \in DOMAIN records : i \in DOMAIN records' /\ records'[i] = records[i]
      /\ records'[Len(records) + 1] = rec[r] /\ Len(records) + 1 \in DOMAIN records'
      /\ \A i \in DOMAIN records' : i \in DOMAIN records \/ i = Len(records) + 1
  BY <1>1, <1>2, <1>3
<1>6. \A i \in DOMAIN records : records[i].sip # r /\ records[i].sip \in Requests
  BY <1>1, Names DEF IInv, StoredInv
<1>7. \A q \in Requests : ~Holding(q)'
  BY <1>1, <1>2 DEF Holding, IInv, TypeOK, LockInv
<1>8. LockInv' /\ DueInv'
  BY <1>2, <1>7, ApiAssumption DEF LockInv, DueInv
<1>9. OwnInv' /\ NoConflict'
  BY <1>1, <1>2 DEF IInv, TypeOK, OwnInv, NoConflict
<1>10. StoredInv'
  BY <1>1, <1>2, <1>5, <1>6 DEF IInv, TypeOK, StoredInv
<1>11. Accounted'
  <2>1. ASSUME NEW q \in Requests
        PROVE  pc'[q] = "done" <=> \E i \in DOMAIN records' : records'[i].sip = q
    BY <1>1, <1>2, <1>5, <1>6, <2>1 DEF IInv, TypeOK, Accounted
  <2>2. \A i, j \in DOMAIN records' : records'[i].sip = records'[j].sip => i = j
    BY <1>1, <1>5, <1>6 DEF IInv, Accounted
  <2>3. QED
    BY <2>1, <2>2 DEF Accounted
<1>12. LogInv' /\ ReplyInv'
  BY <1>2 DEF IInv, LogInv, Committed, ReplyInv, Mine
<1>13. QED
  BY <1>4, <1>8, <1>9, <1>10, <1>11, <1>12 DEF IInv

LEMMA LogIInv == ASSUME IInv, Log PROVE IInv'
<1> USE DEF create, listing
<1>1. PICK c \in net : LogAccepts(c) \/ LogRefuses(c) \/ NetLoses(c)
  BY DEF Log
<1>2. c \in Commitments /\ c.sip \in Requests /\ Committed(c)
  BY DEF IInv, TypeOK, Commitments, LogInv
<1>3. /\ UNCHANGED <<clock, records, create, listing>>
      /\ net' \subseteq net
      /\ \/ log' = Append(log, c) /\ reply' = [reply EXCEPT ![c.sip] = Len(log) + 1]
         \/ log' = log /\ reply' = [reply EXCEPT ![c.sip] = Refused]
         \/ log' = log /\ reply' = reply
  BY <1>1 DEF LogAccepts, LogRefuses, NetLoses
<1>4. log \in Seq(Commitments)
  BY DEF IInv, TypeOK
<1>5. TypeOK'
  <2>1. log' \in Seq(Commitments) /\ Len(log) + 1 \in Positions
    BY <1>2, <1>3, <1>4 DEF Positions
  <2>2. reply' \in [Requests -> Positions \cup {Refused, None}]
    BY <1>3, <2>1 DEF IInv, TypeOK
  <2>3. net' \subseteq Commitments
    BY <1>3 DEF IInv, TypeOK
  <2>4. QED
    BY <1>3, <2>1, <2>2, <2>3 DEF IInv, TypeOK
<1>6. LockInv' /\ DueInv' /\ OwnInv' /\ StoredInv' /\ Accounted' /\ NoConflict'
  BY <1>3 DEF IInv, LockInv, DueInv, OwnInv, StoredInv, Accounted, NoConflict, Holding
<1>7. /\ \A k \in DOMAIN log : k \in DOMAIN log' /\ log'[k] = log[k]
      /\ \A k \in DOMAIN log' : k \in DOMAIN log \/ log'[k] = c
  BY <1>3, <1>4
<1>8. LogInv'
  BY <1>2, <1>3, <1>7 DEF IInv, LogInv, Committed
<1>9. ASSUME NEW r \in Requests, NEW k, Mine(r, k)
      PROVE  k \in DOMAIN log' /\ log'[k].sip = r
  BY <1>7, <1>9 DEF Mine
<1>10. \A r \in Requests :
          reply'[r] \in Positions => reply'[r] \in DOMAIN log' /\ log'[reply'[r]].sip = r
  <2> SUFFICES ASSUME NEW r \in Requests, reply'[r] \in Positions
               PROVE  reply'[r] \in DOMAIN log' /\ log'[reply'[r]].sip = r
    OBVIOUS
  <2>1. CASE reply'[r] = reply[r]
    BY <1>9, <2>1 DEF IInv, ReplyInv
  <2>2. CASE reply'[r] # reply[r]
    <3>1. r = c.sip /\ log' = Append(log, c) /\ reply'[r] = Len(log) + 1
      BY <1>2, <1>3, <2>2, ApiAssumption DEF IInv, TypeOK, Positions
    <3>2. Len(log) + 1 \in DOMAIN log' /\ log'[Len(log) + 1] = c
      BY <1>4, <3>1
    <3>3. QED
      BY <3>1, <3>2
  <2>3. QED
    BY <2>1, <2>2
<1>11. ReplyInv'
  <2>1. \A r \in Requests :
           rec[r] # None /\ rec[r].anchor # 0 =>
              rec[r].anchor \in DOMAIN log' /\ log'[rec[r].anchor].sip = r
    BY <1>9 DEF IInv, ReplyInv
  <2>2. QED
    BY <1>3, <1>10, <2>1 DEF ReplyInv, Mine
<1>12. QED
  BY <1>5, <1>6, <1>8, <1>11 DEF IInv

\* Readers and the clock do not touch the flows.
LEMMA BystanderIInv ==
    ASSUME IInv, UNCHANGED <<records, create, hop>>, TypeOK'
    PROVE  IInv'
  BY DEF create, hop, IInv, LockInv, DueInv, OwnInv, StoredInv, Accounted, NoConflict, Holding,
     LogInv, Committed, ReplyInv, Mine

LEMMA ListType == ASSUME IInv, NEW q \in Readers, List(q) PROVE TypeOK'
<1> USE DEF create, hop, listing, IInv, TypeOK
<1>1. CASE \E t \in Instants \cup {None} : ListAsk(q, t)
  BY <1>1 DEF ListAsk
<1>2. CASE ListAnswer(q)
  <2>1. Listed(at[q]) \in SUBSET Nat
    BY DEF Listed
  <2>2. Settled(at[q]) \in BOOLEAN
    BY DEF Settled
  <2>3. QED
    BY <1>2, <2>1, <2>2 DEF ListAnswer
<1>3. QED
  BY <1>1, <1>2 DEF List

LEMMA StepIInv == IInv /\ [Next]_vars => IInv'
<1> SUFFICES ASSUME IInv, [Next]_vars PROVE IInv'
  OBVIOUS
<1>1. ASSUME NEW r \in Requests, Create(r) PROVE IInv'
  <2>1. CASE Reject(r) \/ CancelQueued(r)
    BY <2>1, Waiting DEF Reject, CancelQueued, IInv, TypeOK
  <2>2. CASE Arrive(r)
    <3>1. ticket' \in [Requests -> Nat] /\ nextTicket' \in Positions
      BY <2>2 DEF Arrive, IInv, TypeOK, Positions
    <3>2. pc[r] = "new" /\ pc' = [pc EXCEPT ![r] = "queued"]
      BY <2>2 DEF Arrive
    <3>3. QED
      BY <2>2, <3>1, <3>2, Waiting DEF Arrive
  <2>3. CASE StoreFails(r)
    BY <2>3, LeaveIInv DEF StoreFails, Unstored, Holding
  <2>4. CASE CancelAnchoring(r)
    BY <2>4, LeaveIInv DEF CancelAnchoring, Holding
  <2>5. QED
    BY <1>1, <2>1, <2>2, <2>3, <2>4, AcquireIInv, AnchorIInv, StoreIInv DEF Create
<1>2. ASSUME NEW q \in Readers, List(q) PROVE IInv'
  BY <1>2, ListType, BystanderIInv DEF List, ListAsk, ListAnswer
<1>3. CASE Tick \/ ClockBack
  <2>1. TypeOK'
    BY <1>3, ApiAssumption DEF Tick, ClockBack, create, hop, listing, IInv, TypeOK, Instants
  <2>2. QED
    BY <1>3, <2>1, BystanderIInv DEF Tick, ClockBack
<1>4. CASE UNCHANGED vars
  <2>1. TypeOK'
    BY <1>4 DEF vars, create, hop, listing, IInv, TypeOK
  <2>2. QED
    BY <1>4, <2>1, BystanderIInv DEF vars
<1>5. QED
  BY <1>1, <1>2, <1>3, <1>4, LogIInv DEF Next

LEMMA ApiInv == Spec => []IInv
<1>1. QED
  BY InitIInv, StepIInv, PTL DEF Spec

-----------------------------------------------------------------------------
\* The flows keep their shapes.
THEOREM ApiTypeOK == Spec => []TypeOK
<1>1. IInv => TypeOK
  BY DEF IInv
<1>2. QED
  BY <1>1, ApiInv, PTL

\* The number a handler reserved before its hop is still the next one after
\* it: the 409 of append_snapshot cannot happen behind the mutation lock.
THEOREM ApiNoConflict == Spec => []NoConflict
<1>1. IInv => NoConflict
  BY DEF IInv
<1>2. QED
  BY <1>1, ApiInv, PTL

\* Each 201 is exactly one record, every other outcome is none.
THEOREM ApiAccounted == Spec => []Accounted
<1>1. IInv => Accounted
  BY DEF IInv
<1>2. QED
  BY <1>1, ApiInv, PTL

\* The receipt embedded in a stored record is the log's receipt for that
\* record's own commitment, however late the log answers others.
THEOREM ApiReceiptBinds == Spec => []ReceiptBinds
<1>1. IInv => ReceiptBinds
  <2> SUFFICES ASSUME IInv, NEW i \in DOMAIN records, records[i].anchor # 0
               PROVE  /\ records[i].anchor \in DOMAIN log
                      /\ log[records[i].anchor] = Commitment(records[i])
    BY DEF ReceiptBinds
  <2>1. /\ records[i].sip \in Requests /\ records[i] # None
        /\ rec[records[i].sip] = records[i]
    BY Names, ApiAssumption DEF IInv, StoredInv
  <2>2. Mine(records[i].sip, records[i].anchor)
    BY <2>1 DEF IInv, ReplyInv
  <2>3. Committed(log[records[i].anchor])
    BY <2>2 DEF Mine, IInv, LogInv
  <2>4. QED
    BY <2>1, <2>2, <2>3 DEF Mine, Committed
<1>2. QED
  BY <1>1, ApiInv, PTL

\* Every commitment the log holds is a stored record's own, or its create is
\* under way, failed after it was sent, or lost its client.
THEOREM ApiLogAccounted == Spec => []LogAccounted
<1>1. IInv => LogAccounted
  <2> SUFFICES ASSUME IInv, NEW k \in DOMAIN log
               PROVE  \/ \E i \in DOMAIN records : Commitment(records[i]) = log[k]
                      \/ pc[log[k].sip] \in {"anchoring", "sealed", "failed", "gone"}
    BY DEF LogAccounted
  <2> DEFINE r == log[k].sip
  <2>1. r \in Requests /\ Committed(log[k]) /\ rec[r] # None
    BY Names, ApiAssumption DEF IInv, LogInv, Committed
  <2>2. CASE pc[r] # "done"
    BY <2>1, <2>2 DEF IInv, OwnInv
  <2>3. CASE pc[r] = "done"
    <3>1. PICK i \in DOMAIN records : records[i].sip = r
      BY <2>1, <2>3 DEF IInv, Accounted
    <3>2. rec[r] = records[i]
      BY <3>1 DEF IInv, StoredInv
    <3>3. QED
      BY <2>1, <3>2 DEF Committed
  <2>4. QED
    BY <2>2, <2>3
<1>2. QED
  BY <1>1, ApiInv, PTL

-----------------------------------------------------------------------------
(* A clock that does not step back.                                        *)

Monotone == "clock_back" \notin Disruptions

\* No instant lies ahead of the clock, and the one the holder reserved is
\* not before any that is stored.
TimeInv ==
    /\ \A i \in DOMAIN records : records[i].at <= clock
    /\ \A r \in Requests : Holding(r) =>
          rec[r].at <= clock /\ \A i \in DOMAIN records : records[i].at <= rec[r].at
    /\ SequencingFollowsTime

\* A settled answer was complete, and whatever is stored later is later.
AnswerInv ==
    \A q \in Readers :
        rpc[q] = "answered" /\ settled[q] =>
            /\ at[q] \in Instants
            /\ at[q] < clock
            /\ \A r \in Requests : Holding(r) => rec[r].at > at[q]
            /\ rows[q] = { i \in DOMAIN records : records[i].at <= at[q] }

\* Instants are numbers.
LEMMA Times ==
    ASSUME TypeOK
    PROVE  /\ clock \in Nat
           /\ \A i \in DOMAIN records : records[i].at \in Nat
           /\ \A r \in Requests : rec[r] \in Entries => rec[r].at \in Nat
           /\ Instants \subseteq Nat
<1>1. Instants \subseteq Nat
  BY ApiAssumption DEF Instants
<1>2. \A i \in DOMAIN records : records[i] \in Entries
  BY DEF TypeOK
<1>3. QED
  BY <1>1, <1>2 DEF Entries, TypeOK

\* A step in which the store stays, the clock does not go back and nobody
\* becomes holder or changes the instant it reserved.
LEMMA TimeKept ==
    ASSUME IInv, TimeInv, AnswerInv, records' = records, clock' \in Nat, clock' >= clock,
           \A r \in Requests : Holding(r)' => Holding(r) /\ rec'[r].at = rec[r].at,
           UNCHANGED <<at, rows, rpc, settled>>
    PROVE  TimeInv' /\ AnswerInv'
<1>1. /\ clock \in Nat /\ Instants \subseteq Nat
      /\ \A i \in DOMAIN records : records[i].at \in Nat
      /\ \A r \in Requests : Holding(r) => rec[r].at \in Nat
  BY Times DEF IInv, DueInv
<1>2. TimeInv'
  BY <1>1 DEF TimeInv, SequencingFollowsTime
<1>3. AnswerInv'
  <2> SUFFICES ASSUME NEW q \in Readers, rpc[q] = "answered", settled[q]
               PROVE  /\ at[q] \in Instants
                      /\ at[q] < clock'
                      /\ \A r \in Requests : Holding(r)' => rec'[r].at > at[q]
                      /\ rows[q] = { i \in DOMAIN records : records[i].at <= at[q] }
    BY DEF AnswerInv
  <2>1. /\ at[q] \in Instants /\ at[q] < clock
        /\ \A r \in Requests : Holding(r) => rec[r].at > at[q]
        /\ rows[q] = { i \in DOMAIN records : records[i].at <= at[q] }
    BY DEF AnswerInv
  <2>2. at[q] < clock'
    <3>1. at[q] \in Nat /\ clock \in Nat /\ clock' \in Nat /\ clock' >= clock /\ at[q] < clock
      BY <1>1, <2>1
    <3>2. QED
      BY <3>1
  <2>3. QED
    BY <2>1, <2>2
<1>4. QED
  BY <1>2, <1>3

LEMMA TimeAcquire ==
    ASSUME IInv, TimeInv, AnswerInv, NEW r \in Requests, Acquire(r)
    PROVE  TimeInv' /\ AnswerInv'
<1>1. /\ clock \in Nat /\ Instants \subseteq Nat
      /\ \A i \in DOMAIN records : records[i].at \in Nat
  BY Times DEF IInv
<1>2. UNCHANGED <<clock, records, at, rows, rpc, settled>>
  BY DEF Acquire, listing
<1>3. \A q \in Requests : Holding(q)' => q = r
  BY ApiAssumption DEF Acquire, LockFree, Holding, IInv, LockInv, TypeOK
<1>4. rec'[r].at = clock
  BY DEF Acquire, Reserved, IInv, TypeOK
<1>5. TimeInv'
  BY <1>1, <1>2, <1>3, <1>4 DEF TimeInv, SequencingFollowsTime
<1>6. AnswerInv'
  BY <1>1, <1>2, <1>3, <1>4 DEF AnswerInv
<1>7. QED
  BY <1>5, <1>6

LEMMA TimeStore ==
    ASSUME IInv, TimeInv, AnswerInv, NEW r \in Requests, Store(r)
    PROVE  TimeInv' /\ AnswerInv'
<1>1. /\ clock \in Nat /\ Instants \subseteq Nat
      /\ \A i \in DOMAIN records : records[i].at \in Nat
      /\ Holding(r) /\ rec[r] \in Entries /\ rec[r].at \in Nat /\ InOrder(r)
  BY Times DEF Store, Holding, InOrder, IInv, DueInv
<1>2. /\ records' = Append(records, rec[r])
      /\ UNCHANGED <<clock, rec, at, rows, rpc, settled>>
  BY <1>1 DEF Store, Stored, listing
<1>3. \A q \in Requests : ~Holding(q)'
  BY DEF Store, Leave, Release, Holding, IInv, LockInv, TypeOK
<1>4. /\ DOMAIN records' = 1 .. Len(records) + 1 /\ DOMAIN records = 1 .. Len(records)
      /\ \A i \in DOMAIN records : i \in DOMAIN records' /\ records'[i] = records[i]
      /\ records'[Len(records) + 1] = rec[r] /\ Len(records) \in Nat
      /\ \A i \in DOMAIN records' : i \in DOMAIN records \/ i = Len(records) + 1
  BY <1>1, <1>2 DEF IInv, TypeOK
<1>5. SequencingFollowsTime'
  <2> SUFFICES ASSUME NEW i \in DOMAIN records', NEW j \in DOMAIN records', i < j
               PROVE  records'[i].at <= records'[j].at
    BY DEF SequencingFollowsTime
  <2>1. i \in DOMAIN records
    BY <1>4
  <2>2. CASE j \in DOMAIN records
    BY <1>4, <2>1, <2>2 DEF TimeInv, SequencingFollowsTime
  <2>3. CASE j = Len(records) + 1
    BY <1>1, <1>4, <2>1, <2>3 DEF TimeInv
  <2>4. QED
    BY <1>4, <2>2, <2>3
<1>6. TimeInv'
  BY <1>1, <1>2, <1>3, <1>4, <1>5 DEF TimeInv
<1>7. AnswerInv'
  <2> SUFFICES ASSUME NEW q \in Readers, rpc[q] = "answered", settled[q]
               PROVE  rows[q] = { i \in DOMAIN records' : records'[i].at <= at[q] }
    BY <1>2, <1>3 DEF AnswerInv
  <2>1. /\ rec[r].at > at[q] /\ at[q] \in Nat
        /\ rows[q] = { i \in DOMAIN records : records[i].at <= at[q] }
    BY <1>1 DEF AnswerInv
  <2>2. \A i : i \in DOMAIN records' /\ records'[i].at <= at[q]
                  <=> i \in DOMAIN records /\ records[i].at <= at[q]
    BY <1>1, <1>4, <2>1
  <2>3. QED
    BY <2>1, <2>2
<1>8. QED
  BY <1>6, <1>7

\* A reader's step keeps the answers of the others.
LEMMA AnswersKept ==
    ASSUME AnswerInv, NEW q \in Readers, UNCHANGED <<clock, records, create>>,
           \A p \in Readers \ {q} : /\ rpc'[p] = rpc[p] /\ at'[p] = at[p]
                                   /\ rows'[p] = rows[p] /\ settled'[p] = settled[p],
           rpc'[q] = "answered" /\ settled'[q] =>
              /\ at'[q] \in Instants /\ at'[q] < clock
              /\ \A r \in Requests : Holding(r) => rec[r].at > at'[q]
              /\ rows'[q] = { i \in DOMAIN records : records[i].at <= at'[q] }
    PROVE  AnswerInv'
<1> SUFFICES ASSUME NEW p \in Readers, rpc'[p] = "answered", settled'[p]
             PROVE  /\ at'[p] \in Instants /\ at'[p] < clock
                    /\ \A r \in Requests : Holding(r) => rec[r].at > at'[p]
                    /\ rows'[p] = { i \in DOMAIN records : records[i].at <= at'[p] }
  BY DEF AnswerInv, Holding, create
<1>1. CASE p = q
  BY <1>1
<1>2. CASE p # q
  BY <1>2 DEF AnswerInv
<1>3. QED
  BY <1>1, <1>2

LEMMA TimeList ==
    ASSUME IInv, TimeInv, AnswerInv, NEW q \in Readers, List(q)
    PROVE  TimeInv' /\ AnswerInv'
<1>1. UNCHANGED <<clock, records, create>>
  BY DEF List, ListAsk, ListAnswer
<1>2. TimeInv'
  BY <1>1 DEF TimeInv, SequencingFollowsTime, Holding, create
<1>3. /\ at \in [Readers -> Instants \cup {None}] /\ rpc \in [Readers -> {"idle", "asked", "answered"}]
      /\ rows \in [Readers -> SUBSET Nat] /\ settled \in [Readers -> BOOLEAN]
  BY DEF IInv, TypeOK
<1>4. CASE \E t \in Instants \cup {None} : ListAsk(q, t)
  <2>1. PICK t \in Instants \cup {None} : ListAsk(q, t)
    BY <1>4
  <2>2. /\ rpc'[q] = "asked"
        /\ \A p \in Readers \ {q} : /\ rpc'[p] = rpc[p] /\ at'[p] = at[p]
                                    /\ rows'[p] = rows[p] /\ settled'[p] = settled[p]
    BY <1>3, <2>1 DEF ListAsk
  <2>3. QED
    BY <1>1, <1>2, <2>2, AnswersKept
<1>5. CASE ListAnswer(q)
  <2>1. /\ rpc' = [rpc EXCEPT ![q] = "answered"] /\ at' = at
        /\ rows' = [rows EXCEPT ![q] = Listed(at[q])]
        /\ settled' = [settled EXCEPT ![q] = Settled(at[q])]
    BY <1>5 DEF ListAnswer
  <2>2. ASSUME Settled(at[q])
        PROVE  /\ at[q] \in Instants /\ at[q] < clock
               /\ \A r \in Requests : Holding(r) => rec[r].at > at[q]
               /\ Listed(at[q]) = { i \in DOMAIN records : records[i].at <= at[q] }
    BY <1>3, <2>2 DEF Settled, Listed, InView
  <2>3. \A p \in Readers \ {q} : /\ rpc'[p] = rpc[p] /\ at'[p] = at[p]
                                 /\ rows'[p] = rows[p] /\ settled'[p] = settled[p]
    BY <1>3, <2>1
  <2>4. at'[q] = at[q] /\ rows'[q] = Listed(at[q]) /\ settled'[q] = Settled(at[q])
    BY <1>3, <2>1
  <2>5. QED
    BY <1>1, <1>2, <2>2, <2>3, <2>4, AnswersKept
<1>6. QED
  BY <1>2, <1>4, <1>5 DEF List

LEMMA StepTimeInv ==
    Monotone /\ IInv /\ TimeInv /\ AnswerInv /\ [Next]_vars => TimeInv' /\ AnswerInv'
<1> SUFFICES ASSUME Monotone, IInv, TimeInv, AnswerInv, [Next]_vars
             PROVE  TimeInv' /\ AnswerInv'
  OBVIOUS
<1> USE DEF listing
<1>1. clock \in Nat /\ clock >= clock
  BY Times DEF IInv
<1>2. ASSUME NEW r \in Requests, Create(r) PROVE TimeInv' /\ AnswerInv'
  <2>1. CASE Reject(r) \/ Arrive(r) \/ CancelQueued(r)
    <3>1. \A q \in Requests : Holding(q)' => Holding(q)
      BY <2>1 DEF Reject, Arrive, CancelQueued, Holding, IInv, TypeOK
    <3>2. QED
      BY <1>1, <2>1, <3>1, TimeKept DEF Reject, Arrive, CancelQueued
  <2>2. CASE AnchorOk(r) \/ AnchorFails(r)
    <3>1. \A q \in Requests : Holding(q)' => Holding(q)
      BY <2>2 DEF AnchorOk, AnchorFails, Holding, IInv, TypeOK
    <3>2. rec[r] \in Entries
      BY <2>2 DEF AnchorOk, AnchorFails, Holding, IInv, DueInv
    <3>3. \A q \in Requests : rec'[q].at = rec[q].at
      <4>1. \A q \in Requests \ {r} : rec'[q] = rec[q]
        BY <2>2 DEF AnchorOk, AnchorFails, IInv, TypeOK
      <4>2. rec'[r] = rec[r] \/ rec'[r] = [rec[r] EXCEPT !.anchor = Receipt(r)]
        BY <2>2 DEF AnchorOk, AnchorFails, IInv, TypeOK
      <4>3. rec'[r].at = rec[r].at
        BY <3>2, <4>2 DEF Entries
      <4>4. QED
        BY <4>1, <4>3
    <3>4. QED
      BY <1>1, <2>2, <3>1, <3>3, TimeKept DEF AnchorOk, AnchorFails
  <2>3. CASE StoreFails(r) \/ CancelAnchoring(r)
    <3>1. \A q \in Requests : Holding(q)' => Holding(q)
      BY <2>3 DEF StoreFails, CancelAnchoring, Leave, Holding, IInv, TypeOK
    <3>2. QED
      BY <1>1, <2>3, <3>1, TimeKept DEF StoreFails, CancelAnchoring, Unstored
  <2>4. QED
    BY <1>2, <2>1, <2>2, <2>3, TimeAcquire, TimeStore DEF Create
<1>3. CASE Log
  BY <1>1, <1>3, TimeKept DEF Log, LogAccepts, LogRefuses, NetLoses, create, Holding
<1>4. CASE Tick
  <2>1. clock' \in Nat /\ clock' >= clock
    BY <1>1, <1>4 DEF Tick
  <2>2. QED
    BY <1>4, <2>1, TimeKept DEF Tick, create, Holding
<1>5. ~ClockBack
  BY DEF ClockBack, Monotone
<1>6. CASE UNCHANGED vars
  BY <1>1, <1>6, TimeKept DEF vars, create, Holding
<1>7. QED
  BY <1>2, <1>3, <1>4, <1>5, <1>6, TimeList DEF Next

LEMMA InitTimeInv == Init => TimeInv /\ AnswerInv
  BY DEF Init, TimeInv, AnswerInv, SequencingFollowsTime, Holding

\* Later sequence numbers carry later or equal notarization instants, as long
\* as the clock does not step back: both are taken under the held lock.
THEOREM ApiSequencingFollowsTime == ASSUME Monotone PROVE Spec => []SequencingFollowsTime
<1>1. IInv /\ TimeInv /\ AnswerInv /\ [Next]_vars => (IInv /\ TimeInv /\ AnswerInv)'
  BY StepIInv, StepTimeInv
<1>2. IInv /\ TimeInv /\ AnswerInv => SequencingFollowsTime
  BY DEF TimeInv
<1>3. QED
  BY <1>1, <1>2, InitIInv, InitTimeInv, PTL DEF Spec

\* The listing of an instant that has passed, given while no create had it
\* reserved, is final.
THEOREM ApiSettledAnswers == ASSUME Monotone PROVE Spec => []SettledAnswers
<1>1. IInv /\ TimeInv /\ AnswerInv /\ [Next]_vars => (IInv /\ TimeInv /\ AnswerInv)'
  BY StepIInv, StepTimeInv
<1>2. IInv /\ TimeInv /\ AnswerInv => SettledAnswers
  BY DEF AnswerInv, SettledAnswers
<1>3. QED
  BY <1>1, <1>2, InitIInv, InitTimeInv, PTL DEF Spec
==============================================================================
