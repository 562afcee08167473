--------------------------- MODULE AuditLogProofs ---------------------------
(***************************************************************************)
(* Proofs about AuditLog, for every set of writers and events.             *)
(***************************************************************************)
EXTENDS AuditLog, SequenceTheorems, TLAPS

LEMMA HashTyped ==
    ASSUME NEW e \in Events, NEW d \in Digest
    PROVE  HashEvent(e, d) \in Digest
  BY AppendProperties DEF HashEvent, Digest

(* A digest determines the event and the digest it was made from.          *)
LEMMA HashInjective ==
    ASSUME NEW d1 \in Digest, NEW d2 \in Digest, NEW e1 \in Events, NEW e2 \in Events,
           HashEvent(e1, d1) = HashEvent(e2, d2)
    PROVE  e1 = e2 /\ d1 = d2
  <1>1. d1 \in Seq(Events) /\ d2 \in Seq(Events) /\ Len(d1) \in Nat /\ Len(d2) \in Nat
    BY LenProperties DEF Digest
  <1>2. Append(d1, e1) = Append(d2, e2)
    BY DEF HashEvent
  <1>3. Len(d1) = Len(d2)
    BY <1>1, <1>2, AppendProperties
  <1>4. e1 = e2
    BY <1>1, <1>2, <1>3, AppendProperties
  <1>5. \A i \in 1..Len(d1) : d1[i] = d2[i]
    BY <1>1, <1>2, <1>3, AppendProperties
  <1> QED
    BY <1>1, <1>3, <1>4, <1>5, SeqEqual

(* The rows of a typed table.                                              *)
LEMMA RowsTyped ==
    ASSUME rows \in Seq(Row)
    PROVE  /\ Len(rows) \in Nat
           /\ DOMAIN rows = 1..Len(rows)
           /\ \A i \in DOMAIN rows : rows[i] \in Row
  BY LenProperties, ElementOfSeq

LEMMA LastHashTyped ==
    ASSUME rows \in Seq(Row)
    PROVE  LastHash(rows) \in Digest
  <1>1. CASE rows = <<>>
    BY <1>1, EmptySeq DEF LastHash, Genesis, Digest
  <1>2. CASE rows # <<>>
    <2>1. Len(rows) \in DOMAIN rows
      BY <1>2, RowsTyped, EmptySeq
    <2> QED
      BY <1>2, <2>1, RowsTyped DEF LastHash, Row
  <1> QED
    BY <1>1, <1>2

(* A table and the table with one row more.                                *)
LEMMA Appended ==
    ASSUME rows \in Seq(Row), NEW row \in Row, rows' = Append(rows, row)
    PROVE  /\ DOMAIN rows' = 1..(Len(rows) + 1)
           /\ \A i \in 1..Len(rows) : rows'[i] = rows[i]
           /\ rows'[Len(rows) + 1] = row
  BY AppendProperties, LenProperties

(* The table is typed in every reachable state, whatever the writers and   *)
(* their events are.                                                       *)
THEOREM TypeCorrect == Spec => []TypeOK
  <1>1. Init => TypeOK
    <2>1. <<>> \in Seq(Row) /\ Genesis \in Digest
      BY EmptySeq DEF Genesis, Digest
    <2> QED
      BY <2>1 DEF Init, TypeOK
  <1>2. TypeOK /\ [Next]_vars => TypeOK'
    <2> SUFFICES ASSUME TypeOK, [Next]_vars PROVE TypeOK'
      OBVIOUS
    <2> USE DEF TypeOK
    <2>1. ASSUME NEW p \in Procs, SelectLast(p) PROVE TypeOK'
      <3>1. LastHash(rows) \in Digest
        BY LastHashTyped
      <3> QED
        BY <2>1, <3>1 DEF SelectLast
    <2>2. ASSUME NEW p \in Procs, Insert(p) PROVE TypeOK'
      <3>1. HashEvent(event[p], previous[p]) \in Digest
        BY HashTyped
      <3>2. rows' \in Seq(Row)
        BY <2>2, <3>1, AppendProperties DEF Insert, Row
      <3> QED
        BY <2>2, <3>2 DEF Insert
    <2>3. ASSUME NEW p \in Procs, InsertFails(p) \/ Readyz(p) PROVE TypeOK'
      BY <2>3 DEF InsertFails, Readyz
    <2>4. ASSUME NEW i \in DOMAIN rows, Alter(i) PROVE TypeOK'
      <3>1. \A j \in DOMAIN rows : rows[j] \in Row
        BY RowsTyped
      <3>2. ASSUME NEW row \in Row, rows' = [rows EXCEPT ![i] = row] PROVE rows' \in Seq(Row)
        BY <3>2, ExceptSeq, RowsTyped
      <3>3. /\ \A e \in Events : [rows[i] EXCEPT !.event = e] \in Row
            /\ \A d \in Digest : /\ [rows[i] EXCEPT !.previous_hash = d] \in Row
                                 /\ [rows[i] EXCEPT !.event_hash = d] \in Row
        BY <3>1 DEF Row
      <3>4. \A j \in DOMAIN rows : rows[j].event_hash \in Digest
        BY <3>1 DEF Row
      <3>5. \A e \in Events : rows' = [rows EXCEPT ![i].event = e] => rows' \in Seq(Row)
        BY <3>2, <3>3
      <3>6. \A d \in Digest : rows' = [rows EXCEPT ![i].previous_hash = d] => rows' \in Seq(Row)
        BY <3>2, <3>3
      <3>7. \A d \in Digest : rows' = [rows EXCEPT ![i].event_hash = d] => rows' \in Seq(Row)
        BY <3>2, <3>3
      <3>8. rows' \in Seq(Row)
        BY <2>4, <3>4, <3>5, <3>6, <3>7 DEF Alter
      <3> QED
        BY <2>4, <3>8 DEF Alter
    <2> QED
      BY <2>1, <2>2, <2>3, <2>4 DEF Next, vars
  <1> QED
    BY <1>1, <1>2, PTL DEF Spec

-----------------------------------------------------------------------------
(* The digest of a row is that of its own event and previous hash.         *)
Sound(row) == row.event_hash = HashEvent(row.event, row.previous_hash)

(* Every stored row is sound until one is altered, and that one never is   *)
(* sound again: verification need not know where it stands in the chain.   *)
SoundInv ==
    /\ ~altered => \A i \in DOMAIN rows : Sound(rows[i])
    /\ altered => \E i \in DOMAIN rows : ~Sound(rows[i])

(* A verified table holds sound rows only.                                 *)
LEMMA VerifiedSound ==
    ASSUME VerifyAuditChain(rows)
    PROVE  \A i \in DOMAIN rows : Sound(rows[i])
  BY DEF VerifyAuditChain, Sound

(* What an insertion writes is sound, and an alteration leaves the row it  *)
(* alters unsound, since a digest determines what it was made from.        *)
LEMMA Inserted ==
    ASSUME TypeOK, NEW p \in Procs, Insert(p)
    PROVE  \E row \in Row : /\ rows' = Append(rows, row)
                            /\ Sound(row)
                            /\ row.previous_hash = previous[p]
  <1> DEFINE row == [event         |-> event[p],
                     previous_hash |-> previous[p],
                     event_hash    |-> HashEvent(event[p], previous[p])]
  <1>1. row \in Row
    BY HashTyped DEF TypeOK, Row
  <1>2. rows' = Append(rows, row)
    BY DEF Insert
  <1>3. Sound(row) /\ row.previous_hash = previous[p]
    BY DEF Sound
  <1> QED
    BY <1>1, <1>2, <1>3

LEMMA AlterationUnsound ==
    ASSUME TypeOK, NEW i \in DOMAIN rows, Sound(rows[i]), Alter(i)
    PROVE  i \in DOMAIN rows' /\ ~Sound(rows'[i])
  <1>1. \A j \in DOMAIN rows : rows[j] \in Row
    BY RowsTyped DEF TypeOK
  <1>2. ASSUME NEW e \in Events \ {rows[i].event}, rows' = [rows EXCEPT ![i].event = e]
        PROVE  i \in DOMAIN rows' /\ ~Sound(rows'[i])
    <2>1. /\ i \in DOMAIN rows'
          /\ rows'[i].event = e
          /\ rows'[i].previous_hash = rows[i].previous_hash
          /\ rows'[i].event_hash = rows[i].event_hash
      BY <1>1, <1>2 DEF Row
    <2> QED
      BY <1>1, <2>1, HashInjective DEF Sound, Row
  <1>3. ASSUME NEW j \in DOMAIN rows, rows[j].event_hash # rows[i].previous_hash,
               rows' = [rows EXCEPT ![i].previous_hash = rows[j].event_hash]
        PROVE  i \in DOMAIN rows' /\ ~Sound(rows'[i])
    <2>1. /\ i \in DOMAIN rows'
          /\ rows'[i].event = rows[i].event
          /\ rows'[i].previous_hash = rows[j].event_hash
          /\ rows'[i].event_hash = rows[i].event_hash
      BY <1>1, <1>3 DEF Row
    <2> QED
      BY <1>1, <1>3, <2>1, HashInjective DEF Sound, Row
  <1>4. ASSUME NEW j \in DOMAIN rows, rows[j].event_hash # rows[i].event_hash,
               rows' = [rows EXCEPT ![i].event_hash = rows[j].event_hash]
        PROVE  i \in DOMAIN rows' /\ ~Sound(rows'[i])
    <2>1. /\ i \in DOMAIN rows'
          /\ rows'[i].event = rows[i].event
          /\ rows'[i].previous_hash = rows[i].previous_hash
          /\ rows'[i].event_hash = rows[j].event_hash
      BY <1>1, <1>4 DEF Row
    <2> QED
      BY <1>4, <2>1 DEF Sound
  <1> QED
    BY <1>2, <1>3, <1>4 DEF Alter

LEMMA SoundStep ==
    ASSUME TypeOK, SoundInv, [Next]_vars
    PROVE  SoundInv'
  <1>1. ASSUME NEW p \in Procs, Insert(p) PROVE SoundInv'
    <2>1. PICK row \in Row : rows' = Append(rows, row) /\ Sound(row)
      BY <1>1, Inserted
    <2>2. /\ DOMAIN rows = 1..Len(rows) /\ Len(rows) \in Nat
          /\ DOMAIN rows' = 1..(Len(rows) + 1)
          /\ \A i \in 1..Len(rows) : rows'[i] = rows[i]
          /\ rows'[Len(rows) + 1] = row
      BY <2>1, RowsTyped, Appended DEF TypeOK
    <2>3. altered' = altered
      BY <1>1 DEF Insert
    <2>4. ASSUME ~altered, NEW i \in DOMAIN rows' PROVE Sound(rows'[i])
      <3>1. i \in 1..Len(rows) \/ i = Len(rows) + 1
        BY <2>2
      <3> QED
        BY <2>1, <2>2, <2>4, <3>1 DEF SoundInv
    <2>5. ASSUME altered PROVE \E i \in DOMAIN rows' : ~Sound(rows'[i])
      <3>1. PICK i \in DOMAIN rows : ~Sound(rows[i])
        BY <2>5 DEF SoundInv
      <3>2. i \in DOMAIN rows' /\ rows'[i] = rows[i]
        BY <2>2
      <3> QED
        BY <3>1, <3>2
    <2> QED
      BY <2>3, <2>4, <2>5 DEF SoundInv, Sound
  <1>2. ASSUME NEW i \in DOMAIN rows, Alter(i) PROVE SoundInv'
    <2>1. ~altered /\ altered'
      BY <1>2 DEF Alter
    <2>2. Sound(rows[i])
      BY <2>1 DEF SoundInv
    <2>3. i \in DOMAIN rows' /\ ~Sound(rows'[i])
      BY <1>2, <2>2, AlterationUnsound
    <2> QED
      BY <2>1, <2>3 DEF SoundInv, Sound
  <1>3. ASSUME UNCHANGED <<rows, altered>> PROVE SoundInv'
    BY <1>3 DEF SoundInv, Sound
  <1> QED
    BY <1>1, <1>2, <1>3 DEF Next, vars, SelectLast, InsertFails, Readyz

LEMMA SoundInvariance == Spec => [](TypeOK /\ SoundInv)
  <1>1. Init => SoundInv
    BY DEF Init, SoundInv
  <1> QED
    BY <1>1, TypeCorrect, SoundStep, PTL DEF Spec

(* Whatever is appended after it, by however many writers, an altered row  *)
(* makes every later verification fail.                                    *)
THEOREM AlterationDetectedHolds == Spec => []AlterationDetected
  <1>1. SoundInv => AlterationDetected
    BY VerifiedSound DEF SoundInv, AlterationDetected
  <1> QED
    BY <1>1, SoundInvariance, PTL

-----------------------------------------------------------------------------
(* Appending mends nothing: the rows of a verified table are verified      *)
(* without the last one too.                                               *)
LEMMA PrefixVerified ==
    ASSUME rows \in Seq(Row), NEW row \in Row, rows' = Append(rows, row),
           VerifyAuditChain(rows')
    PROVE  VerifyAuditChain(rows)
  <1> SUFFICES ASSUME NEW i \in DOMAIN rows
               PROVE  /\ rows[i].previous_hash = RunningHash(rows, i)
                      /\ rows[i].event_hash = HashEvent(rows[i].event, RunningHash(rows, i))
    BY DEF VerifyAuditChain
  <1>1. i \in 1..Len(rows) /\ i \in DOMAIN rows' /\ rows'[i] = rows[i]
    BY RowsTyped, Appended
  <1>2. RunningHash(rows', i) = RunningHash(rows, i)
    <2>1. i = 1 \/ i - 1 \in 1..Len(rows)
      BY <1>1, RowsTyped
    <2> QED
      BY <2>1, Appended DEF RunningHash
  <1> QED
    BY <1>1, <1>2 DEF VerifyAuditChain

(* A verification that fails keeps failing: neither an append nor the one  *)
(* alteration of a row makes it succeed.                                   *)
THEOREM BrokenForGoodHolds == Spec => BrokenForGood
  <1>1. ASSUME TypeOK, SoundInv, SoundInv', [Next]_vars, ~VerifyAuditChain(rows)
        PROVE  ~VerifyAuditChain(rows')
    <2>1. ASSUME NEW p \in Procs, Insert(p) PROVE ~VerifyAuditChain(rows')
      BY <1>1, <2>1, Inserted, PrefixVerified DEF TypeOK
    <2>2. ASSUME NEW i \in DOMAIN rows, Alter(i) PROVE ~VerifyAuditChain(rows')
      <3>1. \E j \in DOMAIN rows' : ~Sound(rows'[j])
        BY <1>1, <2>2 DEF Alter, SoundInv, Sound
      <3> QED
        BY <3>1 DEF VerifyAuditChain, Sound
    <2>3. ASSUME UNCHANGED rows PROVE ~VerifyAuditChain(rows')
      BY <1>1, <2>3
    <2> QED
      BY <1>1, <2>1, <2>2, <2>3 DEF Next, vars, SelectLast, InsertFails, Readyz
  <1>2. TypeOK /\ SoundInv /\ SoundInv' /\ [Next]_vars
          => [~VerifyAuditChain(rows) => ~VerifyAuditChain(rows')]_vars
    BY <1>1
  <1> QED
    BY <1>2, SoundInvariance, PTL DEF Spec, BrokenForGood

-----------------------------------------------------------------------------
(* Two rows claim the same predecessor.                                    *)
Fork == \E i, j \in DOMAIN rows : i # j /\ rows[i].previous_hash = rows[j].previous_hash

(* A writer holds a hash that was the last one when it read it; if other   *)
(* rows were written since, its row forks the chain.                       *)
ForkInv ==
    ~altered =>
        /\ VerifyAuditChain(rows) \/ Fork
        /\ \A p \in Procs : pc[p] = "insert" =>
              \/ previous[p] = Genesis
              \/ \E k \in DOMAIN rows : previous[p] = rows[k].event_hash

(* Verification of a table and of the row appended to it.                  *)
LEMMA VerifiedAppend ==
    ASSUME rows \in Seq(Row), NEW row \in Row, rows' = Append(rows, row),
           VerifyAuditChain(rows), Sound(row), row.previous_hash = LastHash(rows)
    PROVE  VerifyAuditChain(rows')
  <1> SUFFICES ASSUME NEW i \in DOMAIN rows'
               PROVE  /\ rows'[i].previous_hash = RunningHash(rows', i)
                      /\ rows'[i].event_hash = HashEvent(rows'[i].event, RunningHash(rows', i))
    BY DEF VerifyAuditChain
  <1>1. /\ Len(rows) \in Nat
        /\ DOMAIN rows = 1..Len(rows)
        /\ DOMAIN rows' = 1..(Len(rows) + 1)
        /\ \A j \in 1..Len(rows) : rows'[j] = rows[j]
        /\ rows'[Len(rows) + 1] = row
    BY RowsTyped, Appended
  <1>2. CASE i \in 1..Len(rows)
    <2>1. RunningHash(rows', i) = RunningHash(rows, i)
      <3>1. i = 1 \/ i - 1 \in 1..Len(rows)
        BY <1>1, <1>2
      <3> QED
        BY <1>1, <3>1 DEF RunningHash
    <2> QED
      BY <1>1, <1>2, <2>1 DEF VerifyAuditChain
  <1>3. CASE i = Len(rows) + 1
    <2>1. RunningHash(rows', i) = LastHash(rows)
      <3>1. CASE rows = <<>>
        BY <1>3, <3>1, EmptySeq DEF RunningHash, LastHash
      <3>2. CASE rows # <<>>
        <4>1. Len(rows) \in 1..Len(rows) /\ i # 1 /\ i - 1 = Len(rows)
          BY <1>1, <1>3, <3>2, EmptySeq
        <4> QED
          BY <1>1, <3>2, <4>1 DEF RunningHash, LastHash
      <3> QED
        BY <3>1, <3>2
    <2> QED
      BY <1>1, <1>3, <2>1 DEF Sound
  <1> QED
    BY <1>1, <1>2, <1>3

LEMMA ForkStep ==
    ASSUME TypeOK, ForkInv, [Next]_vars
    PROVE  ForkInv'
  <1>1. ASSUME NEW p \in Procs, Insert(p), ~altered PROVE ForkInv'
    <2>1. PICK row \in Row : /\ rows' = Append(rows, row)
                             /\ Sound(row)
                             /\ row.previous_hash = previous[p]
      BY <1>1, Inserted
    <2>2. /\ Len(rows) \in Nat
          /\ DOMAIN rows = 1..Len(rows)
          /\ DOMAIN rows' = 1..(Len(rows) + 1)
          /\ \A j \in 1..Len(rows) : rows'[j] = rows[j]
          /\ rows'[Len(rows) + 1] = row
      BY <2>1, RowsTyped, Appended DEF TypeOK
    <2>3. ASSUME Fork PROVE Fork'
      <3>1. PICK i, j \in DOMAIN rows : i # j /\ rows[i].previous_hash = rows[j].previous_hash
        BY <2>3 DEF Fork
      <3>2. i \in DOMAIN rows' /\ j \in DOMAIN rows' /\ rows'[i] = rows[i] /\ rows'[j] = rows[j]
        BY <2>2
      <3> QED
        BY <3>1, <3>2 DEF Fork
    <2>4. ASSUME VerifyAuditChain(rows), previous[p] = LastHash(rows) PROVE VerifyAuditChain(rows')
      BY <2>1, <2>4, VerifiedAppend DEF TypeOK
    <2>5. ASSUME VerifyAuditChain(rows), previous[p] # LastHash(rows) PROVE Fork'
      <3>1. \E k \in DOMAIN rows : rows[k].previous_hash = previous[p]
        <4>1. CASE previous[p] = Genesis
          <5>1. rows # <<>>
            BY <2>5, <4>1 DEF LastHash
          <5>2. 1 \in DOMAIN rows
            BY <2>2, <5>1, EmptySeq DEF TypeOK
          <5> QED
            BY <2>5, <4>1, <5>2 DEF VerifyAuditChain, RunningHash
        <4>2. ASSUME NEW k \in DOMAIN rows, previous[p] = rows[k].event_hash
              PROVE  \E j \in DOMAIN rows : rows[j].previous_hash = previous[p]
          <5>1. rows # <<>>
            BY <2>2, <4>2, EmptySeq
          <5>2. k # Len(rows)
            BY <2>5, <4>2, <5>1 DEF LastHash
          <5>3. k + 1 \in DOMAIN rows /\ k + 1 # 1 /\ (k + 1) - 1 = k
            BY <2>2, <5>2
          <5> QED
            BY <2>5, <4>2, <5>3 DEF VerifyAuditChain, RunningHash
        <4> QED
          BY <1>1, <4>1, <4>2 DEF ForkInv, Insert
      <3>2. PICK k \in DOMAIN rows : rows[k].previous_hash = previous[p]
        BY <3>1
      <3>3. /\ k \in DOMAIN rows' /\ Len(rows) + 1 \in DOMAIN rows' /\ k # Len(rows) + 1
            /\ rows'[k] = rows[k]
        BY <2>2
      <3>4. rows'[k].previous_hash = rows'[Len(rows) + 1].previous_hash
        BY <2>1, <2>2, <3>2, <3>3
      <3> QED
        BY <3>3, <3>4 DEF Fork
    <2>6. (VerifyAuditChain(rows) \/ Fork)'
      BY <1>1, <2>3, <2>4, <2>5 DEF ForkInv
    <2>7. ASSUME NEW q \in Procs, pc'[q] = "insert", previous'[q] # Genesis
          PROVE  \E k \in DOMAIN rows' : previous'[q] = rows'[k].event_hash
      <3>1. pc[q] = "insert" /\ previous'[q] = previous[q]
        BY <1>1, <2>7 DEF Insert, TypeOK
      <3>2. PICK k \in DOMAIN rows : previous[q] = rows[k].event_hash
        BY <1>1, <2>7, <3>1 DEF ForkInv
      <3>3. k \in DOMAIN rows' /\ rows'[k] = rows[k]
        BY <2>2
      <3> QED
        BY <3>1, <3>2, <3>3
    <2> QED
      BY <2>6, <2>7 DEF ForkInv
  <1>2. ASSUME NEW p \in Procs, SelectLast(p), ~altered PROVE ForkInv'
    <2>1. LastHash(rows) = Genesis \/ \E k \in DOMAIN rows : LastHash(rows) = rows[k].event_hash
      <3>1. rows = <<>> \/ Len(rows) \in DOMAIN rows
        BY RowsTyped, EmptySeq DEF TypeOK
      <3> QED
        BY <3>1 DEF LastHash
    <2>2. rows' = rows
      BY <1>2 DEF SelectLast
    <2>3. VerifyAuditChain(rows') \/ Fork'
      BY <1>2, <2>2 DEF ForkInv, Fork
    <2>4. ASSUME NEW q \in Procs, pc'[q] = "insert"
          PROVE  previous'[q] = Genesis \/ \E k \in DOMAIN rows : previous'[q] = rows[k].event_hash
      <3>1. CASE q = p
        BY <1>2, <2>1, <3>1 DEF SelectLast, TypeOK
      <3>2. CASE q # p
        BY <1>2, <2>4, <3>2 DEF SelectLast, TypeOK, ForkInv
      <3> QED
        BY <3>1, <3>2
    <2> QED
      BY <2>2, <2>3, <2>4 DEF ForkInv
  <1>3. ASSUME NEW p \in Procs, InsertFails(p), ~altered PROVE ForkInv'
    BY <1>3 DEF InsertFails, ForkInv, Fork, TypeOK
  <1>4. ASSUME UNCHANGED <<rows, pc, previous, altered>> PROVE ForkInv'
    BY <1>4 DEF ForkInv, Fork
  <1>5. ASSUME altered' PROVE ForkInv'
    BY <1>5 DEF ForkInv
  <1>6. altered => altered'
    BY DEF Next, vars, SelectLast, Insert, InsertFails, Readyz, Alter
  <1>7. ASSUME NEW i \in DOMAIN rows, Alter(i) PROVE altered'
    BY <1>7 DEF Alter
  <1>8. ASSUME NEW p \in Procs, Readyz(p) PROVE ForkInv'
    BY <1>4, <1>8 DEF Readyz
  <1> QED
    BY <1>1, <1>2, <1>3, <1>4, <1>5, <1>6, <1>7, <1>8 DEF Next, vars

(* If verification fails and no row was altered, two writers read the same *)
(* last hash: the SELECT of append is outside the transaction of its       *)
(* INSERT, and nothing else can break the chain.                           *)
THEOREM OnlyForksBreakHolds == Spec => []OnlyForksBreak
  <1>1. Init => ForkInv
    BY EmptySeq DEF Init, ForkInv, VerifyAuditChain, Genesis
  <1>2. ForkInv => OnlyForksBreak
    BY DEF ForkInv, OnlyForksBreak, Fork
  <1> QED
    BY <1>1, <1>2, TypeCorrect, ForkStep, PTL DEF Spec

-----------------------------------------------------------------------------
(* The only writer holds the last hash until it has written its row.       *)
WriterInv ==
    ~altered =>
        /\ VerifyAuditChain(rows)
        /\ \A p \in Procs : pc[p] = "insert" => previous[p] = LastHash(rows)

(* While a single process appends, verification never accuses a log that   *)
(* nobody altered: what the server alone may rely on.                      *)
THEOREM ChainHoldsAlone ==
    ASSUME \A p, q \in Procs : p = q
    PROVE  Spec => []ChainHolds
  <1>1. Init => WriterInv
    BY EmptySeq DEF Init, WriterInv, VerifyAuditChain
  <1>2. ASSUME TypeOK, WriterInv, [Next]_vars PROVE WriterInv'
    <2> SUFFICES ASSUME ~altered' PROVE WriterInv'
      BY DEF WriterInv
    <2>1. ~altered
      BY <1>2 DEF Next, vars, SelectLast, Insert, InsertFails, Readyz, Alter
    <2>2. ASSUME NEW p \in Procs, Insert(p) PROVE WriterInv'
      <3>1. PICK row \in Row : /\ rows' = Append(rows, row)
                               /\ Sound(row)
                               /\ row.previous_hash = previous[p]
        BY <1>2, <2>2, Inserted
      <3>2. previous[p] = LastHash(rows)
        BY <1>2, <2>1, <2>2 DEF WriterInv, Insert
      <3>3. VerifyAuditChain(rows')
        BY <1>2, <2>1, <3>1, <3>2, VerifiedAppend DEF WriterInv, TypeOK
      <3>4. \A q \in Procs : pc'[q] = "idle"
        BY <1>2, <2>2 DEF Insert, TypeOK
      <3> QED
        BY <3>3, <3>4 DEF WriterInv
    <2>3. ASSUME NEW p \in Procs, SelectLast(p) PROVE WriterInv'
      BY <1>2, <2>1, <2>3 DEF SelectLast, TypeOK, WriterInv
    <2>4. ASSUME NEW p \in Procs, InsertFails(p) PROVE WriterInv'
      BY <1>2, <2>1, <2>4 DEF InsertFails, TypeOK, WriterInv
    <2>5. ASSUME UNCHANGED <<rows, pc, previous, altered>> PROVE WriterInv'
      BY <1>2, <2>1, <2>5 DEF WriterInv
    <2>6. ASSUME NEW i \in DOMAIN rows, Alter(i) PROVE FALSE
      BY <2>6 DEF Alter
    <2> QED
      BY <1>2, <2>2, <2>3, <2>4, <2>5, <2>6 DEF Next, vars, Readyz
  <1>3. WriterInv => ChainHolds
    BY DEF WriterInv, ChainHolds
  <1> QED
    BY <1>1, <1>2, <1>3, TypeCorrect, PTL DEF Spec
=============================================================================
