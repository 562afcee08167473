------------------------------ MODULE AuditLog ------------------------------
(***************************************************************************)
(* The hash chain of storage/audit.py under several writers.               *)
(*                                                                         *)
(* Every process on a data directory appends to one SQLite table.  Within  *)
(* a process append() has no await and runs alone.  Between processes the  *)
(* SELECT of the last hash is outside the transaction that sqlite3 opens   *)
(* for the INSERT, so other processes may commit between the two.          *)
(***************************************************************************)
EXTENDS Integers, Sequences

CONSTANTS
    Procs,          \* the processes that append
    Events,         \* redacted events; canonical JSON tells any two apart
    MaxRows         \* bound: rows the table may grow to

ASSUME MaxRowsAssumption == MaxRows \in Nat

VARIABLES
    rows,           \* the audit_events table, in the order of its ids
    pc,             \* pc[p]: "idle", or "insert" between the SELECT and the INSERT
    event,          \* event[p]: the event p is appending
    previous,       \* previous[p]: the previous_hash p has read
    verdict,        \* what the last answer of /readyz said of the audit chain
    altered         \* a stored row was altered outside the program

vars == <<rows, pc, event, previous, verdict, altered>>

(* SHA-256 is taken to be free of collisions: the digest of a row stands   *)
(* for the row and everything its previous_hash commits to.                *)
Digest == Seq(Events)
Genesis == <<>>
HashEvent(e, previous_hash) == Append(previous_hash, e)

Row == [event: Events, previous_hash: Digest, event_hash: Digest]

-----------------------------------------------------------------------------
(* SELECT event_hash ... ORDER BY id DESC LIMIT 1.                         *)
LastHash(table) == IF table = <<>> THEN Genesis ELSE table[Len(table)].event_hash

(* previous_hash as the loop of verify_audit_chain has it at row i.        *)
RunningHash(table, i) == IF i = 1 THEN Genesis ELSE table[i - 1].event_hash

(* Mutant: the links are compared and the hashes are not recomputed.       *)
VerifyAuditChain_Mutant(table) ==
    \A i \in DOMAIN table : table[i].previous_hash = RunningHash(table, i)

(* Mutant: only the latest row is verified.                                *)
VerifyAuditChain_Latest(table) ==
    \A i \in DOMAIN table : i = Len(table) =>
        /\ table[i].previous_hash = RunningHash(table, i)
        /\ table[i].event_hash = HashEvent(table[i].event, RunningHash(table, i))

(* verify_audit_chain raises TamperDetectedError unless this holds.        *)
VerifyAuditChain(table) ==
    \A i \in DOMAIN table :
        /\ table[i].previous_hash = RunningHash(table, i)
        /\ table[i].event_hash = HashEvent(table[i].event, RunningHash(table, i))

-----------------------------------------------------------------------------
Init ==
    /\ rows = <<>>
    /\ pc = [p \in Procs |-> "idle"]
    /\ event \in [Procs -> Events]
    /\ previous = [p \in Procs |-> Genesis]
    /\ verdict = "ok"
    /\ altered = FALSE

(* append reads the last hash: a statement of its own, in autocommit.      *)
SelectLast(p) ==
    /\ pc[p] = "idle"
    /\ \E e \in Events : event' = [event EXCEPT ![p] = e]
    /\ previous' = [previous EXCEPT ![p] = LastHash(rows)]
    /\ pc' = [pc EXCEPT ![p] = "insert"]
    /\ UNCHANGED <<rows, verdict, altered>>

(* Mutant: the digest covers the event and forgets the previous hash.      *)
Insert_Mutant(p) ==
    /\ pc[p] = "insert"
    /\ Len(rows) < MaxRows
    /\ rows' = Append(rows, [event         |-> event[p],
                             previous_hash |-> previous[p],
                             event_hash    |-> HashEvent(event[p], Genesis)])
    /\ pc' = [pc EXCEPT ![p] = "idle"]
    /\ UNCHANGED <<event, previous, verdict, altered>>

(* The INSERT and the commit of its transaction.                           *)
Insert(p) ==
    /\ pc[p] = "insert"
    /\ Len(rows) < MaxRows
    /\ rows' = Append(rows, [event         |-> event[p],
                             previous_hash |-> previous[p],
                             event_hash    |-> HashEvent(event[p], previous[p])])
    /\ pc' = [pc EXCEPT ![p] = "idle"]
    /\ UNCHANGED <<event, previous, verdict, altered>>

(* The INSERT raises (the database is locked for longer than sqlite3's     *)
(* timeout, the disk is full) and is rolled back, or the process dies.     *)
InsertFails(p) ==
    /\ pc[p] = "insert"
    /\ pc' = [pc EXCEPT ![p] = "idle"]
    /\ UNCHANGED <<rows, event, previous, verdict, altered>>

(* GET /readyz verifies the whole table, read by one SELECT.               *)
Readyz(p) ==
    /\ pc[p] = "idle"
    /\ verdict' = IF VerifyAuditChain(rows) THEN "ok" ELSE "tampered"
    /\ UNCHANGED <<rows, pc, event, previous, altered>>

(* What the log is there to reveal: one field of one stored row changes.   *)
Alter(i) ==
    /\ ~altered
    /\ \/ \E e \in Events \ {rows[i].event} : rows' = [rows EXCEPT ![i].event = e]
       \/ \E j \in DOMAIN rows :
             /\ rows[j].event_hash # rows[i].previous_hash
             /\ rows' = [rows EXCEPT ![i].previous_hash = rows[j].event_hash]
       \/ \E j \in DOMAIN rows :
             /\ rows[j].event_hash # rows[i].event_hash
             /\ rows' = [rows EXCEPT ![i].event_hash = rows[j].event_hash]
    /\ altered' = TRUE
    /\ UNCHANGED <<pc, event, previous, verdict>>

Next ==
    \/ \E p \in Procs : SelectLast(p) \/ Insert(p) \/ InsertFails(p) \/ Readyz(p)
    \/ \E i \in DOMAIN rows : Alter(i)

Spec == Init /\ [][Next]_vars

-----------------------------------------------------------------------------
(***************************************************************************)
(* Properties.                                                             *)
(***************************************************************************)

TypeOK ==
    /\ rows \in Seq(Row)
    /\ pc \in [Procs -> {"idle", "insert"}]
    /\ event \in [Procs -> Events]
    /\ previous \in [Procs -> Digest]
    /\ verdict \in {"ok", "tampered"}
    /\ altered \in BOOLEAN

(* An altered row is found by every later verification, wherever it is and *)
(* whatever is appended after it, by however many writers.                 *)
AlterationDetected == altered => ~VerifyAuditChain(rows)

(* With one writer, verification never accuses an unaltered log.           *)
ChainHolds == altered \/ VerifyAuditChain(rows)

(* A verification that has failed fails for ever: no append mends a chain. *)
BrokenForGood == [][~VerifyAuditChain(rows) => ~VerifyAuditChain(rows')]_vars

(* If nobody altered a row, verification fails only because two writers    *)
(* read the same last hash: two rows claim the same predecessor.           *)
OnlyForksBreak ==
    ~altered /\ ~VerifyAuditChain(rows) =>
        \E i, j \in DOMAIN rows : i # j /\ rows[i].previous_hash = rows[j].previous_hash

(* api/app.py: /readyz answers "tampered".                                 *)
TamperedMeansAltered == verdict = "tampered" => altered
=============================================================================
