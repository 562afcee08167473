----------------------- MODULE CiteOrDieServiceProofs -----------------------
(***************************************************************************)
(* Types and safety of CiteOrDieService, for all tenants, matters,         *)
(* processes, requests and stores, whichever awaits suspend, whichever     *)
(* steps raise and whatever collection names coincide.  Four theorems are  *)
(* about promises the code keeps in some deployments only, and name what   *)
(* of the deployment they rest on.  The last section maps the service to   *)
(* MatterWall, the promise it implements.                                  *)
(***************************************************************************)
EXTENDS CiteOrDieService, SequenceTheorems, TLAPS

-----------------------------------------------------------------------------
(* Types of the operators.                                                 *)

(* The scope a request asks in is a tenant and a matter.                   *)
LEMMA EffectiveScopeType ==
    ASSUME NEW q \in Request
    PROVE  EffectiveScope(q) \in Scopes /\ q.proc \in Procs
  BY ServiceAssumption DEF Request, AuthContext, EffectiveScope, Scopes

(* The chunks cut from a document are chunks.                              *)
LEMMA ChunkPagesType ==
    ASSUME NEW u \in Requests, NEW scope \in Scopes
    PROVE  ChunkPages(u, scope) \subseteq Chunk
  BY LengthAssumption DEF ChunkPages, Chunk, Scopes

(* Chunk ids of chunks are chunk ids.                                      *)
LEMMA ChunkIdsType ==
    ASSUME NEW C \in SUBSET Chunk
    PROVE  ChunkIds(C) \in SUBSET ChunkId
  BY DEF ChunkIds, ChunkIdOf, Chunk, ChunkId

(* The rows the pipeline appends are audit rows.                           *)
LEMMA GuardrailType ==
    ASSUME NEW s \in {"accepted", "repaired", "rejected"}
    PROVE  Guardrail(s) \in Event
  BY DEF Guardrail, Audit, Event

LEMMA QuestionGuardType ==
    ASSUME NEW q
    PROVE  QuestionGuard(q) \in Event
  BY GuardrailType DEF QuestionGuard

LEMMA AuditType ==
    ASSUME NEW t \in {"upload", "retrieve", "generate", "guardrail", "chat"},
           NEW s \in {"ok", "accepted", "repaired", "rejected"},
           NEW ids \in SUBSET ChunkId
    PROVE  Audit(t, s, ids) \in Event
  BY DEF Audit, Event

LEMMA ReplyRowsType ==
    ASSUME NEW q, NEW s \in {"accepted", "repaired", "rejected"}
    PROVE  ReplyRows(q, s) \in Seq(Event)
  <1>1. QuestionGuard(q) \in Event /\ Guardrail("accepted") \in Event /\ Guardrail(s) \in Event
    BY GuardrailType, QuestionGuardType
  <1>2. Audit("generate", s, {}) \in Event
    BY AuditType
  <1> QED
    BY <1>1, <1>2 DEF ReplyRows

(* Everything a started request addresses exists.                          *)
LEMMA Started ==
    ASSUME TypeOK, NEW r \in Requests, pc[r] # "idle"
    PROVE  /\ req[r] \in Request
           /\ Proc(r) \in Procs
           /\ Scope(r) \in Scopes
           /\ DocChunks(r) \subseteq Chunk
           /\ SparseOf(r) \in Procs \X Scopes
           /\ VectorsOf(r) \in Stores \X Collections
  <1>1. req[r] \in Request
    BY DEF TypeOK
  <1>2. Proc(r) \in Procs /\ Scope(r) \in Scopes
    BY <1>1, EffectiveScopeType DEF Proc, Scope
  <1>3. DocChunks(r) \subseteq Chunk
    BY <1>2, ChunkPagesType DEF DocChunks
  <1>4. StoreOf[Proc(r)] \in Stores /\ CollectionOf[Scope(r)] \in Collections
    BY <1>2, ServiceAssumption
  <1> QED
    BY <1>1, <1>2, <1>3, <1>4 DEF SparseOf, VectorsOf

-----------------------------------------------------------------------------
(* Control: what the ways to end a step do to pc, loop and the audit rows. *)

PCType      == [Requests -> Steps \cup Terminal \cup {"idle"}]
LoopType    == [Procs -> Requests \cup {Free}]
PendingType == [Requests -> Seq(Event)]

(* pc of the other requests stays; every way to end a step types pc, loop. *)
LEMMA ControlType ==
    ASSUME TypeOK, NEW r \in Requests, pc[r] # "idle",
           NEW s \in Steps \cup Terminal, NEW point,
           Goto(r, s) \/ Await(r, point, s) \/ Respond(r, s)
    PROVE  /\ pc' \in PCType /\ loop' \in LoopType
           /\ pc' = [pc EXCEPT ![r] = s]
           /\ \A x \in Requests : pc'[x] # "idle" => req[x] # NoRequest
  <1>1. Proc(r) \in Procs
    BY Started
  <1>2. pc \in PCType /\ loop \in LoopType
    BY DEF TypeOK, PCType, LoopType
  <1>3. pc' = [pc EXCEPT ![r] = s] /\ pc' \in PCType
    BY <1>2 DEF Goto, Await, Respond, PCType
  <1>4. loop' \in LoopType
    BY <1>1, <1>2 DEF Goto, Await, Respond, LoopType
  <1>5. \A x \in Requests : pc'[x] # "idle" => req[x] # NoRequest
    BY <1>3, <1>2 DEF TypeOK, PCType
  <1> QED
    BY <1>3, <1>4, <1>5

LEMMA AuditThenType ==
    ASSUME TypeOK, NEW r \in Requests, pc[r] # "idle",
           NEW s \in Steps \cup Terminal, NEW rows \in Seq(Event),
           AuditThen(r, rows, s)
    PROVE  /\ pc' \in PCType /\ loop' \in LoopType
           /\ pc' = [pc EXCEPT ![r] = "audit"]
           /\ pending' = [pending EXCEPT ![r] = rows] /\ pending' \in PendingType
           /\ cont' = [cont EXCEPT ![r] = s] /\ cont' \in PCType
           /\ \A x \in Requests : pc'[x] # "idle" => req[x] # NoRequest
  <1>1. "audit" \in Steps \cup Terminal
    BY DEF Steps
  <1>2. Goto(r, "audit")
    BY DEF AuditThen
  <1>3. pending' \in PendingType /\ cont' \in PCType
    BY DEF AuditThen, TypeOK, PendingType, PCType
  <1> QED
    BY <1>1, <1>2, <1>3, ControlType DEF AuditThen

(* The first step of a request types what it sets.                         *)
LEMMA EnterType ==
    ASSUME TypeOK, NEW r \in Requests, NEW q \in Menu[r],
           Arrive(r, q), NEW s \in Steps \cup Terminal, Enter(r, q, s)
    PROVE  /\ q \in Request
           /\ req' = [req EXCEPT ![r] = q] /\ req' \in [Requests -> Request \cup {NoRequest}]
           /\ known' \in [Requests -> SUBSET Requests]
           /\ pc' = [pc EXCEPT ![r] = s] /\ pc' \in PCType /\ loop' \in LoopType
           /\ \A x \in Requests : pc'[x] # "idle" => req'[x] # NoRequest
  <1>1. q \in Request /\ q.proc \in Procs /\ q # NoRequest
    BY ServiceAssumption, EffectiveScopeType
  <1>2. req' = [req EXCEPT ![r] = q] /\ req' \in [Requests -> Request \cup {NoRequest}]
    BY <1>1 DEF Arrive, TypeOK
  <1>3. known' \in [Requests -> SUBSET Requests]
    BY DEF Arrive, TypeOK
  <1>4. pc' = [pc EXCEPT ![r] = s] /\ pc' \in PCType
    BY DEF Enter, TypeOK, PCType
  <1>5. loop' \in LoopType
    BY <1>1 DEF Enter, TypeOK, LoopType
  <1>6. \A x \in Requests : pc'[x] # "idle" => req'[x] # NoRequest
    BY <1>1, <1>2, <1>4 DEF TypeOK, PCType
  <1> QED
    BY <1>1, <1>2, <1>3, <1>4, <1>5, <1>6

-----------------------------------------------------------------------------
(* Type correctness: every action preserves TypeOK.                        *)

LEMMA TopOfType ==
    ASSUME NEW C, NEW k, NEW top \in TopOf(C, k)
    PROVE  top \subseteq C
  BY DEF TopOf, kSubset

LEMMA ArrivalTypes ==
    ASSUME TypeOK, NEW r \in Requests, Upload(r) \/ Chat(r)
    PROVE  TypeOK'
  <1> USE DEF observed, locals, memory, stores
  <1>0. {"denied", "invalid", "store", "audit", "list", "refused"} \subseteq Steps \cup Terminal
    BY DEF Steps, Terminal
  <1>1. CASE Upload(r)
    <2>1. PICK q \in Menu[r] : Arrive(r, q) /\ NoAudit
                 /\ \E s \in {"denied", "invalid", "store"} : Enter(r, q, s)
      BY <1>1 DEF Upload
    <2>2. PICK s \in Steps \cup Terminal : Enter(r, q, s)
      BY <2>1, <1>0
    <2> QED
      BY <2>1, <2>2, EnterType DEF TypeOK, PCType, LoopType, Arrive, NoAudit
  <1>2. CASE Chat(r)
    <2>1. PICK q \in Menu[r] : Arrive(r, q)
                 /\ \E s \in {"denied", "list", "audit"} : Enter(r, q, s)
                 /\ \/ NoAudit
                    \/ /\ pending' = [pending EXCEPT ![r] =
                                         <<QuestionGuard(q), Guardrail("rejected")>>]
                       /\ cont' = [cont EXCEPT ![r] = "refused"]
      BY <1>2 DEF Chat
    <2>2. PICK s \in Steps \cup Terminal : Enter(r, q, s)
      BY <2>1, <1>0
    <2>3. <<QuestionGuard(q), Guardrail("rejected")>> \in Seq(Event)
      BY GuardrailType, QuestionGuardType
    <2>4. pending' \in PendingType /\ cont' \in PCType
      <3>1. CASE NoAudit
        BY <3>1 DEF NoAudit, TypeOK, PendingType, PCType
      <3>2. CASE /\ pending' = [pending EXCEPT ![r] =
                                   <<QuestionGuard(q), Guardrail("rejected")>>]
                 /\ cont' = [cont EXCEPT ![r] = "refused"]
        <4>1. pending' \in PendingType
          BY <2>3, <3>2 DEF TypeOK, PendingType
        <4>2. cont' \in PCType
          BY <1>0, <3>2 DEF TypeOK, PCType
        <4> QED
          BY <4>1, <4>2
      <3> QED
        BY <2>1, <3>1, <3>2
    <2> QED
      BY <2>1, <2>2, <2>4, EnterType DEF TypeOK, PCType, LoopType, PendingType, Arrive
  <1> QED
    BY <1>1, <1>2

LEMMA IngestTypes ==
    ASSUME TypeOK, NEW r \in Requests,
           \/ StoreSourceFile(r) \/ Upsert(r) \/ IndexChunks(r) \/ SaveDocument(r)
           \/ RebuildAfterSave(r)
    PROVE  TypeOK'
  <1> USE DEF observed, locals, memory, stores
  <1>0. {"upsert", "reindex", "save", "relist", "uploaded"} \subseteq Steps \cup Terminal
    BY DEF Steps, Terminal
  <1>1. CASE StoreSourceFile(r)
    <2>1. pc[r] # "idle" /\ Await(r, "embed", "upsert")
      BY <1>1 DEF StoreSourceFile, At
    <2> QED
      BY <1>0, <1>1, <2>1, ControlType DEF StoreSourceFile, NoAudit, TypeOK, PCType, LoopType
  <1>2. CASE Upsert(r)
    <2>1. pc[r] # "idle" /\ Await(r, "upsert", "reindex")
      BY <1>2 DEF Upsert, At
    <2>2. vectors' \in [Stores \X Collections -> SUBSET Chunk]
      BY <1>2, <2>1, Started DEF Upsert, TypeOK
    <2> QED
      BY <1>0, <1>2, <2>1, <2>2, ControlType DEF Upsert, NoAudit, TypeOK, PCType, LoopType
  <1>3. CASE IndexChunks(r)
    <2>1. pc[r] # "idle" /\ Goto(r, "save")
      BY <1>3 DEF IndexChunks, At
    <2>2. sparse' \in [Procs \X Scopes -> SUBSET Chunk]
      BY <1>3, <2>1, Started DEF IndexChunks, TypeOK
    <2> QED
      BY <1>0, <1>3, <2>1, <2>2, ControlType DEF IndexChunks, NoAudit, TypeOK, PCType, LoopType
  <1>4. CASE SaveDocument(r)
    <2>1. pc[r] # "idle" /\ Goto(r, "relist")
      BY <1>4 DEF SaveDocument, At
    <2>2. library' \subseteq Chunk
      BY <1>4, <2>1, Started DEF SaveDocument, TypeOK
    <2> QED
      BY <1>0, <1>4, <2>1, <2>2, ControlType DEF SaveDocument, NoAudit, TypeOK, PCType, LoopType
  <1>5. CASE RebuildAfterSave(r)
    <2>1. pc[r] # "idle" /\ AuditThen(r, <<Audit("upload", "ok", {})>>, "uploaded")
      BY <1>5 DEF RebuildAfterSave, At
    <2>2. <<Audit("upload", "ok", {})>> \in Seq(Event)
      BY AuditType
    <2>3. sparse' \in [Procs \X Scopes -> SUBSET Chunk]
      BY <1>5, <2>1, Started DEF RebuildAfterSave, ListChunks, TypeOK
    <2> QED
      BY <1>0, <1>5, <2>1, <2>2, <2>3, AuditThenType
         DEF RebuildAfterSave, TypeOK, PCType, LoopType, PendingType
  <1> QED
    BY <1>1, <1>2, <1>3, <1>4, <1>5

LEMMA RetrievalTypes ==
    ASSUME TypeOK, NEW r \in Requests,
           ListAndRebuild(r) \/ DenseSearch(r) \/ FuseAndRerank(r) \/ VerifyRetrieved(r)
    PROVE  TypeOK'
  <1> USE DEF observed, locals, memory, stores
  <1>0. {"refused", "search", "fuse", "verify", "breach", "generate"} \subseteq Steps \cup Terminal
    BY DEF Steps, Terminal
  <1>1. CASE ListAndRebuild(r)
    <2>1. pc[r] # "idle"
      BY <1>1 DEF ListAndRebuild, At
    <2>2. CASE AuditThen(r, <<QuestionGuard(req[r]), Guardrail("accepted")>>, "refused")
                 /\ UNCHANGED sparse
      <3>1. <<QuestionGuard(req[r]), Guardrail("accepted")>> \in Seq(Event)
        BY GuardrailType, QuestionGuardType
      <3> QED
        BY <1>0, <1>1, <2>1, <2>2, <3>1, AuditThenType
           DEF ListAndRebuild, TypeOK, PCType, LoopType, PendingType
    <2>3. CASE Await(r, "embed", "search") /\ NoAudit
                 /\ sparse' = [sparse EXCEPT ![SparseOf(r)] =
                                 FilterByDocIds(ListChunks(Scope(r)), req[r].doc_ids)]
      <3>1. sparse' \in [Procs \X Scopes -> SUBSET Chunk]
        BY <2>1, <2>3, Started DEF ListChunks, FilterByDocIds, TypeOK
      <3> QED
        BY <1>0, <1>1, <2>1, <2>3, <3>1, ControlType
           DEF ListAndRebuild, NoAudit, TypeOK, PCType, LoopType
    <2> QED
      BY <1>1, <2>2, <2>3 DEF ListAndRebuild
  <1>2. CASE DenseSearch(r)
    <2>1. pc[r] # "idle" /\ Await(r, "search", "fuse")
      BY <1>2 DEF DenseSearch, At
    <2>2. PICK top \in TopOf(vectors[VectorsOf(r)], CandidateK) :
             dense' = [dense EXCEPT ![r] = FilterByDocIds(top, req[r].doc_ids)]
      BY <1>2 DEF DenseSearch
    <2>3. top \subseteq Chunk
      BY <2>1, Started, TopOfType DEF TypeOK
    <2>4. dense' \in [Requests -> SUBSET Chunk]
      BY <2>2, <2>3 DEF FilterByDocIds, TypeOK
    <2> QED
      BY <1>0, <1>2, <2>1, <2>4, ControlType DEF DenseSearch, NoAudit, TypeOK, PCType, LoopType
  <1>3. CASE FuseAndRerank(r)
    <2>1. pc[r] # "idle" /\ Await(r, "rerank", "verify")
      BY <1>3 DEF FuseAndRerank, At
    <2>2. PICK bm25 \in TopOf(sparse[SparseOf(r)], CandidateK), graph \in SUBSET sparse[SparseOf(r)] :
             \E hits \in TopOf(Fused(r, bm25, graph), Min({RerankInputK, TopK})) :
                retrieved' = [retrieved EXCEPT ![r] = hits]
      BY <1>3 DEF FuseAndRerank
    <2>3. PICK hits \in TopOf(Fused(r, bm25, graph), Min({RerankInputK, TopK})) :
             retrieved' = [retrieved EXCEPT ![r] = hits]
      BY <2>2
    <2>4. sparse[SparseOf(r)] \subseteq Chunk /\ bm25 \subseteq sparse[SparseOf(r)]
      BY <2>1, Started, TopOfType DEF TypeOK
    <2>5. hits \subseteq Chunk
      BY <2>4, TopOfType DEF Fused, FilterByDocIds, TypeOK
    <2>6. retrieved' \in [Requests -> SUBSET Chunk]
      BY <2>3, <2>5 DEF TypeOK
    <2> QED
      BY <1>0, <1>3, <2>1, <2>6, ControlType DEF FuseAndRerank, NoAudit, TypeOK, PCType, LoopType
  <1>4. CASE VerifyRetrieved(r)
    <2> DEFINE row == Audit("retrieve", "ok", ChunkIds(retrieved[r]))
               scan == <<row, QuestionGuard(req[r]), Guardrail("accepted"), Guardrail("rejected")>>
    <2>1. pc[r] # "idle"
      BY <1>4 DEF VerifyRetrieved, At
    <2>2. row \in Event
      BY ChunkIdsType, AuditType DEF TypeOK
    <2>3. scan \in Seq(Event) /\ <<row>> \in Seq(Event)
      BY <2>2, GuardrailType, QuestionGuardType
    <2>4. CASE Respond(r, "breach") /\ NoAudit
      BY <1>0, <1>4, <2>1, <2>4, ControlType
         DEF VerifyRetrieved, NoAudit, TypeOK, PCType, LoopType
    <2>5. CASE AuditThen(r, scan, "refused")
      BY <1>0, <1>4, <2>1, <2>3, <2>5, AuditThenType
         DEF VerifyRetrieved, TypeOK, PCType, LoopType, PendingType
    <2>6. CASE AuditThen(r, <<row>>, "generate")
      BY <1>0, <1>4, <2>1, <2>3, <2>6, AuditThenType
         DEF VerifyRetrieved, TypeOK, PCType, LoopType, PendingType
    <2> QED
      BY <1>4, <2>4, <2>5, <2>6 DEF VerifyRetrieved
  <1> QED
    BY <1>1, <1>2, <1>3, <1>4

LEMMA AnswerTypes ==
    ASSUME TypeOK, NEW r \in Requests,
           \/ Generate(r) \/ Reply(r) \/ Finish(r) \/ AuditAppend(r)
           \/ ProviderFails(r) \/ StepFails(r)
    PROVE  TypeOK'
  <1> USE DEF observed, locals, memory, stores
  <1>0. {"reply", "finish", "leak", "answered", "failed", "audit"} \subseteq Steps \cup Terminal
    BY DEF Steps, Terminal
  <1>1. CASE Generate(r)
    <2>1. pc[r] # "idle" /\ Await(r, "generate", "reply")
      BY <1>1 DEF Generate, At
    <2> QED
      BY <1>0, <1>1, <2>1, ControlType DEF Generate, NoAudit, TypeOK, PCType, LoopType
  <1>2. CASE Reply(r)
    <2>1. pc[r] # "idle"
      BY <1>2 DEF Reply, At
    <2>2. PICK C \in SUBSET retrieved[r], s \in {"accepted", "repaired", "rejected"} :
             answer' = [answer EXCEPT ![r] = C] /\ AuditThen(r, ReplyRows(req[r], s), "finish")
      <3>1. CASE \E quoted \in SUBSET ChunkIds(retrieved[r] \cup library), unsupported \in BOOLEAN :
                    \E kept \in SUBSET Verified(r, quoted) :
                       /\ answer' = [answer EXCEPT ![r] = kept]
                       /\ AuditThen(r, ReplyRows(req[r], VerifierStatus(r, quoted, unsupported, kept)),
                                    "finish")
        <4>0. PICK quoted \in SUBSET ChunkIds(retrieved[r] \cup library), unsupported \in BOOLEAN :
                 \E kept \in SUBSET Verified(r, quoted) :
                    /\ answer' = [answer EXCEPT ![r] = kept]
                    /\ AuditThen(r, ReplyRows(req[r], VerifierStatus(r, quoted, unsupported, kept)),
                                 "finish")
          BY <3>1
        <4>1. PICK kept \in SUBSET Verified(r, quoted) :
                 /\ answer' = [answer EXCEPT ![r] = kept]
                 /\ AuditThen(r, ReplyRows(req[r], VerifierStatus(r, quoted, unsupported, kept)),
                              "finish")
          BY <4>0
        <4>2. VerifierStatus(r, quoted, unsupported, kept) \in {"accepted", "repaired", "rejected"}
          BY DEF VerifierStatus
        <4>3. kept \in SUBSET retrieved[r]
          BY DEF Verified
        <4> QED
          BY <4>1, <4>2, <4>3
      <3>2. CASE \E c \in retrieved[r] : /\ answer' = [answer EXCEPT ![r] = {c}]
                                         /\ AuditThen(r, ReplyRows(req[r], "repaired"), "finish")
        <4>1. PICK c \in retrieved[r] : /\ answer' = [answer EXCEPT ![r] = {c}]
                                        /\ AuditThen(r, ReplyRows(req[r], "repaired"), "finish")
          BY <3>2
        <4> QED
          BY <4>1
      <3> QED
        BY <1>2, <3>1, <3>2 DEF Reply
    <2>3. ReplyRows(req[r], s) \in Seq(Event)
      BY ReplyRowsType
    <2>4. answer' \in [Requests -> SUBSET Chunk]
      BY <2>2 DEF TypeOK
    <2>5. UNCHANGED <<stores, sparse, req, dense, retrieved, observed>>
      BY <1>2 DEF Reply
    <2> QED
      BY <1>0, <2>1, <2>2, <2>3, <2>4, <2>5, AuditThenType
         DEF TypeOK, PCType, LoopType, PendingType
  <1>3. CASE Finish(r)
    <2>1. pc[r] # "idle"
      BY <1>3 DEF Finish, At
    <2>2. CASE Respond(r, "leak") /\ NoAudit
      BY <1>0, <1>3, <2>1, <2>2, ControlType DEF Finish, NoAudit, TypeOK, PCType, LoopType
    <2>3. CASE AuditThen(r, <<Audit("chat", "ok", {})>>, "answered")
      <3>1. <<Audit("chat", "ok", {})>> \in Seq(Event)
        BY AuditType
      <3> QED
        BY <1>0, <1>3, <2>1, <2>3, <3>1, AuditThenType
           DEF Finish, TypeOK, PCType, LoopType, PendingType
    <2> QED
      BY <1>3, <2>2, <2>3 DEF Finish
  <1>4. CASE AuditAppend(r)
    <2>1. pc[r] = "audit" /\ pending[r] # <<>> /\ pending[r] \in Seq(Event)
          /\ trail[r] \in Seq(Event) /\ cont[r] \in Steps \cup Terminal \cup {"idle"}
      BY <1>4 DEF AuditAppend, At, TypeOK
    <2>2. Head(pending[r]) \in Event /\ Tail(pending[r]) \in Seq(Event)
      BY <2>1
    <2>3. trail' \in [Requests -> Seq(Event)]
      BY <1>4, <2>1, <2>2 DEF AuditAppend, TypeOK
    <2>4. pending' \in PendingType
      BY <1>4, <2>2 DEF AuditAppend, TypeOK, PendingType
    <2>5. \E s \in Steps \cup Terminal \cup {"idle"} : Goto(r, s) \/ Respond(r, s)
      BY <1>0, <1>4, <2>1 DEF AuditAppend
    <2>6. /\ pc' \in PCType /\ loop' \in LoopType
          /\ \A x \in Requests : pc'[x] # "idle" => req[x] # NoRequest
      <3>1. Proc(r) \in Procs /\ req[r] # NoRequest
        BY <2>1, Started DEF TypeOK
      <3>2. PICK s \in Steps \cup Terminal \cup {"idle"} : Goto(r, s) \/ Respond(r, s)
        BY <2>5
      <3>3. pc' = [pc EXCEPT ![r] = s] /\ pc' \in PCType
        BY <3>2 DEF Goto, Respond, TypeOK, PCType
      <3>4. loop' \in LoopType
        BY <3>1, <3>2 DEF Goto, Respond, TypeOK, LoopType
      <3> QED
        BY <3>1, <3>3, <3>4 DEF TypeOK, PCType
    <2> QED
      BY <1>4, <2>3, <2>4, <2>6 DEF AuditAppend, TypeOK, PCType, LoopType, PendingType
  <1>5. CASE ProviderFails(r)
    <2>1. pc[r] # "idle" /\ Respond(r, "failed")
      BY <1>5 DEF ProviderFails, At
    <2> QED
      BY <1>0, <1>5, <2>1, ControlType DEF ProviderFails, NoAudit, TypeOK, PCType, LoopType
  <1>6. CASE StepFails(r)
    <2>1. pc[r] # "idle" /\ Respond(r, "failed")
      BY <1>6, FaultsAssumption DEF StepFails, Steps, Terminal, TypeOK
    <2> QED
      BY <1>0, <1>6, <2>1, ControlType DEF StepFails, NoAudit, TypeOK, PCType, LoopType
  <1> QED
    BY <1>1, <1>2, <1>3, <1>4, <1>5, <1>6

LEMMA CrashTypes ==
    ASSUME TypeOK, NEW p \in Procs, Crash(p)
    PROVE  TypeOK'
  <1> USE DEF observed, locals, memory, stores
  <1>1. sparse' \in [Procs \X Scopes -> SUBSET Chunk]
    BY DEF Crash, TypeOK
  <1>2. vectors' \in [Stores \X Collections -> SUBSET Chunk]
    BY DEF Crash, TypeOK
  <1>3. pc' \in PCType /\ \A x \in Requests : pc'[x] # "idle" => pc[x] # "idle"
    BY DEF Crash, TypeOK, PCType, Terminal, Steps
  <1>4. loop' \in LoopType
    BY DEF Crash, TypeOK, LoopType
  <1> QED
    BY <1>1, <1>2, <1>3, <1>4 DEF Crash, TypeOK, PCType, LoopType

LEMMA TypeStep == TypeOK /\ [Next]_vars => TypeOK'
  <1> SUFFICES ASSUME TypeOK, [Next]_vars PROVE TypeOK'
    OBVIOUS
  <1>1. CASE UNCHANGED vars
    BY <1>1 DEF vars, observed, locals, memory, stores, TypeOK
  <1>2. CASE Next
    BY <1>2, ArrivalTypes, IngestTypes, RetrievalTypes, AnswerTypes, CrashTypes
       DEF Next, Step
  <1> QED
    BY <1>1, <1>2

(* Every state of every behaviour is well typed.                           *)
THEOREM TypeCorrect == Spec => []TypeOK
  <1>1. Init => TypeOK
    BY DEF Init, TypeOK
  <1> QED
    BY <1>1, TypeStep, PTL DEF Spec

-----------------------------------------------------------------------------
(* The inductive invariant, request by request.                            *)

(* Where r stands and which audit rows it owes or has committed: AuditAppend *)
(* changes neither, so the invariant speaks of these two.                  *)
Stage(r)   == IF pc[r] = "audit" THEN cont[r] ELSE pc[r]
Written(r) == IF pc[r] = "audit" THEN trail[r] \o pending[r] ELSE trail[r]

UploadRow      == Audit("upload", "ok", {})
ChatRow        == Audit("chat", "ok", {})
RetrieveRow(r) == Audit("retrieve", "ok", ChunkIds(retrieved[r]))

IngestSteps == {"store", "upsert", "reindex", "save", "relist"}
SearchSteps == {"list", "search", "fuse", "verify"}
AnswerSteps == {"generate", "reply", "finish", "answered"}

(* A chat past its guards asked in the scope of its token, with a role and *)
(* without an injection.                                                   *)
Admitted(r) ==
    Stage(r) \in SearchSteps \cup AnswerSteps =>
        /\ IsChat(r)
        /\ Scope(r) = TokenScope(r)
        /\ req[r].ctx.roles # {}
        /\ ~req[r].injects

(* What a search returned is confined to the selected documents.           *)
Selected(r, C) == \A c \in C : req[r].doc_ids = {} \/ c.doc_id \in req[r].doc_ids

(* What a chat may disclose: hits in scope, clean and selected.            *)
Clear(r, C) ==
    /\ \A c \in C : ScopeOf(c) = TokenScope(r)
    /\ ChunkIds(C) \cap Poisoned = {}
    /\ Selected(r, C)

Hits(r) ==
    /\ Stage(r) = "fuse" => Selected(r, dense[r])
    /\ Stage(r) = "verify" => Selected(r, retrieved[r])
    /\ Stage(r) \in AnswerSteps => Clear(r, retrieved[r])

(* What was sent is what was cleared, and what is cited was sent.          *)
Disclosed(r) ==
    /\ Stage(r) \in {"idle", "generate"} \cup IngestSteps \cup SearchSteps => sent[r] = {}
    /\ Stage(r) \in {"reply", "finish", "answered"} => sent[r] = retrieved[r]
    /\ Stage(r) \in {"finish", "answered"} => answer[r] \subseteq retrieved[r]
    /\ Stage(r) # "leak"
    /\ sent[r] # {} => /\ req[r].ctx.roles # {}
                       /\ ~req[r].injects
                       /\ Clear(r, sent[r])

(* The rows a request has written or owes, by its stage.                   *)
AnswerRows(r, s) == <<RetrieveRow(r)>> \o ReplyRows(req[r], s)

Verdict(r, s) == s = "rejected" <=> answer[r] = {}
Statuses      == {"accepted", "repaired", "rejected"}

Ledger(r) ==
    /\ Stage(r) \in {"idle"} \cup IngestSteps \cup SearchSteps => Written(r) = <<>>
    /\ Stage(r) \in {"generate", "reply"} => Written(r) = <<RetrieveRow(r)>>
    /\ Stage(r) = "finish" =>
           \E s \in Statuses : Verdict(r, s) /\ Written(r) = AnswerRows(r, s)
    /\ Stage(r) = "answered" =>
           \E s \in Statuses : Verdict(r, s) /\ Written(r) = AnswerRows(r, s) \o <<ChatRow>>
    /\ Stage(r) = "uploaded" => Written(r) = <<UploadRow>>

(* How far an upload has come, in each store; and an upload row, owed or   *)
(* committed, is only ever of a document that has come all the way.        *)
Stored(r) ==
    /\ Stage(r) \in {"upsert", "reindex", "save", "relist", "uploaded"} => r \in files
    /\ Stage(r) \in {"reindex", "save", "relist", "uploaded"} /\ StoreOf[Proc(r)] \in Durable =>
           DocChunks(r) \subseteq vectors[VectorsOf(r)]
    /\ Stage(r) \in {"relist", "uploaded"} => DocChunks(r) \subseteq library
    /\ (\E i \in DOMAIN Written(r) : Written(r)[i] = UploadRow) =>
           r \in files /\ DocChunks(r) \subseteq library

RInv(r) == Admitted(r) /\ Hits(r) /\ Disclosed(r) /\ Ledger(r) /\ Stored(r)

IInv == TypeOK /\ \A r \in Requests : RInv(r)

-----------------------------------------------------------------------------
(* A step of one request leaves the others as they are.                    *)

Same(x) == UNCHANGED <<req[x], pc[x], dense[x], retrieved[x], pending[x], cont[x],
                       answer[x], sent[x], trail[x]>>

Grow ==
    /\ files \subseteq files'
    /\ library \subseteq library'
    /\ \A k \in Stores \X Collections : k[1] \in Durable => vectors[k] \subseteq vectors'[k]

LEMMA Framed ==
    ASSUME TypeOK, NEW x \in Requests, RInv(x), Same(x), Grow
    PROVE  RInv(x)'
  <1>1. /\ Stage(x)' = Stage(x) /\ Written(x)' = Written(x)
        /\ Scope(x)' = Scope(x) /\ TokenScope(x)' = TokenScope(x) /\ Proc(x)' = Proc(x)
        /\ DocChunks(x)' = DocChunks(x) /\ VectorsOf(x)' = VectorsOf(x)
        /\ IsChat(x)' = IsChat(x)
    BY DEF Same, Stage, Written, Scope, TokenScope, Proc, DocChunks, VectorsOf, IsChat
  <1>2. Admitted(x)'
    BY <1>1 DEF RInv, Admitted, Same
  <1>3. Hits(x)' /\ Disclosed(x)'
    BY <1>1 DEF RInv, Hits, Disclosed, Clear, Selected, Same
  <1>4. Ledger(x)'
    BY <1>1 DEF RInv, Ledger, Verdict, AnswerRows, RetrieveRow, Same
  <1>5. Stored(x)'
    <2>1. Stage(x) # "idle" => /\ VectorsOf(x) \in Stores \X Collections
                               /\ VectorsOf(x)[1] = StoreOf[Proc(x)]
      BY Started DEF Stage, VectorsOf
    <2> QED
      BY <1>1, <2>1 DEF RInv, Stored, Grow
  <1> QED
    BY <1>2, <1>3, <1>4, <1>5 DEF RInv

LEMMA Others ==
    ASSUME TypeOK, NEW r \in Requests,
           Upload(r) \/ Chat(r) \/ Step(r) \/ Reply(r) \/ StepFails(r)
    PROVE  Grow /\ \A x \in Requests \ {r} : Same(x)
  <1> USE DEF observed, locals, memory, stores, Grow, Same, Arrive, Enter, NoAudit, AuditThen,
              Goto, Await, Respond
  <1>1. CASE Upload(r) \/ Chat(r)
    BY <1>1 DEF Upload, Chat, TypeOK
  <1>2. CASE StoreSourceFile(r) \/ Upsert(r) \/ IndexChunks(r) \/ SaveDocument(r)
             \/ RebuildAfterSave(r)
    <2>1. CASE StoreSourceFile(r) \/ IndexChunks(r) \/ SaveDocument(r)
      BY <2>1 DEF StoreSourceFile, IndexChunks, SaveDocument, TypeOK
    <2>2. CASE Upsert(r)
      BY <2>2 DEF Upsert, TypeOK
    <2>3. CASE RebuildAfterSave(r)
      BY <2>3 DEF RebuildAfterSave, TypeOK
    <2> QED
      BY <1>2, <2>1, <2>2, <2>3
  <1>3. CASE ListAndRebuild(r)
    BY <1>3 DEF ListAndRebuild, TypeOK
  <1>4. CASE DenseSearch(r) \/ FuseAndRerank(r)
    BY <1>4 DEF DenseSearch, FuseAndRerank, TypeOK
  <1>5. CASE VerifyRetrieved(r) \/ Generate(r) \/ Finish(r)
    BY <1>5 DEF VerifyRetrieved, Generate, Finish, TypeOK
  <1>6. CASE Reply(r)
    BY <1>6 DEF Reply, TypeOK
  <1>7. CASE AuditAppend(r) \/ ProviderFails(r) \/ StepFails(r)
    BY <1>7 DEF AuditAppend, ProviderFails, StepFails, TypeOK
  <1> QED
    BY <1>1, <1>2, <1>3, <1>4, <1>5, <1>6, <1>7 DEF Step

-----------------------------------------------------------------------------
(* What a step of r does to the stage of r and to its rows.                *)

LEMMA Moved ==
    ASSUME TypeOK, NEW r \in Requests, NEW s, s # "audit",
           pc' = [pc EXCEPT ![r] = s], trail' = trail
    PROVE  Stage(r)' = s /\ Written(r)' = trail[r]
  BY DEF TypeOK, Stage, Written

LEMMA Owes ==
    ASSUME TypeOK, NEW r \in Requests, NEW s, NEW rows \in Seq(Event),
           AuditThen(r, rows, s), trail' = trail
    PROVE  Stage(r)' = s /\ Written(r)' = trail[r] \o rows
  BY DEF TypeOK, Stage, Written, AuditThen, Goto

LEMMA PrefixKept ==
    ASSUME NEW S, NEW s \in Seq(S), NEW t \in Seq(S), NEW i \in DOMAIN s
    PROVE  i \in DOMAIN (s \o t) /\ (s \o t)[i] = s[i]
  <1>1. DOMAIN s = 1 .. Len(s) /\ Len(s) \in Nat /\ Len(t) \in Nat
    OBVIOUS
  <1>2. s \o t \in Seq(S) /\ Len(s \o t) = Len(s) + Len(t)
    BY ConcatProperties
  <1>3. DOMAIN (s \o t) = 1 .. Len(s) + Len(t)
    BY <1>1, <1>2
  <1> QED
    BY <1>1, <1>3, ConcatProperties

(* A request that ends without an answer discloses and claims no more than *)
(* it did.                                                                 *)
LEMMA Ended ==
    ASSUME TypeOK, NEW r \in Requests, RInv(r), Grow,
           NEW s \in {"breach", "failed", "lost"}, pc'[r] = s,
           UNCHANGED <<req[r], sent[r], trail[r]>>
    PROVE  RInv(r)'
  <1>1. Stage(r)' = s /\ Written(r)' = trail[r]
    BY DEF Stage, Written
  <1>2. DocChunks(r)' = DocChunks(r) /\ TokenScope(r)' = TokenScope(r)
    BY DEF DocChunks, Scope, TokenScope
  <1>3. Admitted(r)' /\ Hits(r)' /\ Ledger(r)'
    BY <1>1 DEF Admitted, Hits, Ledger, SearchSteps, AnswerSteps, IngestSteps
  <1>4. Disclosed(r)'
    BY <1>1, <1>2 DEF RInv, Disclosed, Clear, Selected, SearchSteps, IngestSteps
  <1>5. Stored(r)'
    <2>1. ASSUME NEW i \in DOMAIN trail[r], trail[r][i] = UploadRow
          PROVE  r \in files /\ DocChunks(r) \subseteq library
      <3>1. trail[r] \in Seq(Event) /\ pending[r] \in Seq(Event)
        BY DEF TypeOK
      <3>2. /\ i \in DOMAIN (trail[r] \o pending[r])
            /\ (trail[r] \o pending[r])[i] = trail[r][i]
        BY <2>1, <3>1, PrefixKept
      <3>3. i \in DOMAIN Written(r) /\ Written(r)[i] = UploadRow
        BY <2>1, <3>2 DEF Written
      <3> QED
        BY <3>3 DEF RInv, Stored
    <2> QED
      BY <1>1, <1>2, <2>1 DEF Stored, Grow, UploadRow
  <1> QED
    BY <1>3, <1>4, <1>5 DEF RInv

-----------------------------------------------------------------------------
(* Every action keeps the invariant of the request that takes it.          *)

LEMMA StagesDiffer ==
    /\ {"idle", "denied", "invalid", "refused", "breach", "failed", "lost", "uploaded", "leak"}
         \cap (SearchSteps \cup AnswerSteps \cup IngestSteps) = {}
    /\ SearchSteps \cap AnswerSteps = {}
    /\ IngestSteps \cap (SearchSteps \cup AnswerSteps) = {}
  BY DEF SearchSteps, AnswerSteps, IngestSteps

LEMMA Arrived ==
    ASSUME TypeOK, NEW r \in Requests, RInv(r), Upload(r) \/ Chat(r)
    PROVE  RInv(r)'
  <1>1. pc[r] = "idle" /\ sent' = sent /\ trail' = trail
    BY DEF Upload, Chat, Arrive, stores
  <1>2. trail[r] = <<>> /\ sent[r] = {}
    BY <1>1 DEF RInv, Disclosed, Ledger, Stage, Written
  <1>3. ASSUME NEW s \in {"denied", "invalid", "store"}, pc' = [pc EXCEPT ![r] = s]
        PROVE  RInv(r)'
    <2>1. Stage(r)' = s /\ Written(r)' = <<>>
      BY <1>1, <1>2, <1>3, Moved
    <2>2. Admitted(r)' /\ Hits(r)' /\ Disclosed(r)' /\ Ledger(r)'
      BY <1>1, <1>2, <2>1
         DEF Admitted, Hits, Disclosed, Ledger, SearchSteps, AnswerSteps, IngestSteps
    <2>3. Stored(r)'
      BY <2>1 DEF Stored
    <2> QED
      BY <2>2, <2>3 DEF RInv
  <1>4. CASE Upload(r)
    <2>1. PICK s \in {"denied", "invalid", "store"} : pc' = [pc EXCEPT ![r] = s]
      BY <1>4 DEF Upload, Enter
    <2> QED
      BY <1>3, <2>1
  <1>5. CASE Chat(r)
    <2>1. PICK q \in Menu[r] :
             /\ q.kind = "chat"
             /\ Arrive(r, q)
             /\ \/ Enter(r, q, "denied")
                \/ /\ Enter(r, q, "audit")
                   /\ pending' = [pending EXCEPT ![r] =
                                     <<QuestionGuard(q), Guardrail("rejected")>>]
                   /\ cont' = [cont EXCEPT ![r] = "refused"]
                \/ /\ Require(q.ctx, "chat", EffectiveScope(q))
                   /\ ~q.injects
                   /\ Enter(r, q, "list")
      BY <1>5 DEF Chat
    <2>2. CASE Enter(r, q, "denied")
      BY <1>3, <2>2 DEF Enter
    <2>3. CASE /\ Enter(r, q, "audit")
               /\ pending' = [pending EXCEPT ![r] =
                                 <<QuestionGuard(q), Guardrail("rejected")>>]
               /\ cont' = [cont EXCEPT ![r] = "refused"]
      <3>1. Stage(r)' = "refused"
        BY <2>3 DEF Enter, Stage, TypeOK
      <3>2. Written(r)' = <<>> \o <<QuestionGuard(q), Guardrail("rejected")>>
        BY <1>1, <1>2, <2>3 DEF Enter, Written, TypeOK
      <3>3. Written(r)' = <<QuestionGuard(q), Guardrail("rejected")>>
        BY <3>2
      <3>4. Admitted(r)' /\ Hits(r)' /\ Disclosed(r)' /\ Ledger(r)'
        BY <1>1, <1>2, <3>1
           DEF Admitted, Hits, Disclosed, Ledger, SearchSteps, AnswerSteps, IngestSteps
      <3>5. QuestionGuard(q) # UploadRow /\ Guardrail("rejected") # UploadRow
        BY DEF QuestionGuard, Guardrail, UploadRow, Audit
      <3>6. Stored(r)'
        BY <3>1, <3>3, <3>5 DEF Stored, UploadRow
      <3> QED
        BY <3>4, <3>6 DEF RInv
    <2>4. CASE /\ Require(q.ctx, "chat", EffectiveScope(q))
               /\ ~q.injects
               /\ Enter(r, q, "list")
      <3>1. Stage(r)' = "list" /\ Written(r)' = <<>>
        BY <1>1, <1>2, <2>4, Moved DEF Enter
      <3>2. req'[r] = q
        BY <2>1 DEF Arrive, TypeOK
      <3>3. q # NoRequest
        BY ServiceAssumption
      <3>4. Admitted(r)'
        BY <2>1, <2>4, <3>2, <3>3 DEF Admitted, IsChat, Scope, TokenScope, Require
      <3>5. Hits(r)' /\ Disclosed(r)' /\ Ledger(r)'
        BY <1>1, <1>2, <3>1
           DEF Hits, Disclosed, Ledger, SearchSteps, AnswerSteps, IngestSteps
      <3>6. Stored(r)'
        BY <3>1 DEF Stored
      <3> QED
        BY <3>4, <3>5, <3>6 DEF RInv
    <2> QED
      BY <2>1, <2>2, <2>3, <2>4
  <1> QED
    BY <1>4, <1>5

LEMMA Ingesting ==
    ASSUME TypeOK, NEW r \in Requests, RInv(r),
           \/ StoreSourceFile(r) \/ Upsert(r) \/ IndexChunks(r) \/ SaveDocument(r)
           \/ RebuildAfterSave(r)
    PROVE  RInv(r)'
  <1> USE DEF observed, locals, memory, stores
  <1>1. pc[r] \in IngestSteps /\ pc[r] # "idle" /\ pc[r] # "audit"
        /\ req' = req /\ trail' = trail /\ sent' = sent
    BY DEF StoreSourceFile, Upsert, IndexChunks, SaveDocument, RebuildAfterSave, At, IngestSteps
  <1>2. /\ Stage(r) = pc[r] /\ trail[r] = <<>> /\ sent[r] = {}
        /\ Scope(r)' = Scope(r) /\ Proc(r)' = Proc(r) /\ DocChunks(r)' = DocChunks(r)
        /\ VectorsOf(r)' = VectorsOf(r)
    BY <1>1 DEF RInv, Disclosed, Ledger, Stage, Written, Scope, Proc, DocChunks, VectorsOf
  <1>3. /\ DocChunks(r) \subseteq Chunk /\ VectorsOf(r) \in Stores \X Collections
        /\ Scope(r) \in Scopes
    BY <1>1, Started
  <1>4. ASSUME NEW s \in IngestSteps, pc' = [pc EXCEPT ![r] = s]
        PROVE  /\ Stage(r)' = s /\ Written(r)' = <<>>
               /\ Admitted(r)' /\ Hits(r)' /\ Disclosed(r)' /\ Ledger(r)'
    <2>1. Stage(r)' = s /\ Written(r)' = <<>>
      BY <1>2, <1>1, <1>4, Moved DEF IngestSteps
    <2> QED
      BY <1>1, <1>2, <2>1
         DEF Admitted, Hits, Disclosed, Ledger, SearchSteps, AnswerSteps, IngestSteps
  <1>5. CASE StoreSourceFile(r)
    <2>1. pc' = [pc EXCEPT ![r] = "upsert"] /\ r \in files'
      BY <1>5 DEF StoreSourceFile, Await
    <2> QED
      BY <1>4, <2>1 DEF Stored, RInv, IngestSteps
  <1>6. CASE Upsert(r)
    <2>1. pc' = [pc EXCEPT ![r] = "reindex"] /\ Stage(r) = "upsert" /\ files' = files
      BY <1>2, <1>6 DEF Upsert, Await, At
    <2>2. DocChunks(r) \subseteq vectors'[VectorsOf(r)]
      BY <1>3, <1>6 DEF Upsert, TypeOK
    <2>3. Stored(r)'
      BY <1>2, <1>4, <2>1, <2>2 DEF Stored, RInv, IngestSteps
    <2> QED
      BY <1>4, <2>1, <2>3 DEF RInv, IngestSteps
  <1>7. CASE IndexChunks(r)
    <2>1. /\ pc' = [pc EXCEPT ![r] = "save"] /\ Stage(r) = "reindex"
          /\ files' = files /\ vectors' = vectors
      BY <1>2, <1>7 DEF IndexChunks, Goto, At
    <2>2. Stored(r)'
      BY <1>2, <1>4, <2>1 DEF Stored, RInv, IngestSteps
    <2> QED
      BY <1>4, <2>1, <2>2 DEF RInv, IngestSteps
  <1>8. CASE SaveDocument(r)
    <2>1. /\ pc' = [pc EXCEPT ![r] = "relist"] /\ Stage(r) = "save"
          /\ files' = files /\ vectors' = vectors /\ DocChunks(r) \subseteq library'
      BY <1>2, <1>8 DEF SaveDocument, Goto, At
    <2>2. Stored(r)'
      BY <1>2, <1>4, <2>1 DEF Stored, RInv, IngestSteps
    <2> QED
      BY <1>4, <2>1, <2>2 DEF RInv, IngestSteps
  <1>9. CASE RebuildAfterSave(r)
    <2>1. /\ AuditThen(r, <<UploadRow>>, "uploaded") /\ Stage(r) = "relist"
          /\ files' = files /\ vectors' = vectors /\ library' = library
      BY <1>2, <1>9 DEF RebuildAfterSave, At, UploadRow
    <2>2. UploadRow \in Event
      BY AuditType DEF UploadRow
    <2>3. <<UploadRow>> \in Seq(Event)
      BY <2>2
    <2>4. Stage(r)' = "uploaded" /\ Written(r)' = <<>> \o <<UploadRow>>
      BY <1>1, <1>2, <2>1, <2>3, Owes
    <2>5. Written(r)' = <<UploadRow>>
      BY <2>3, <2>4
    <2>6. Admitted(r)' /\ Hits(r)' /\ Disclosed(r)' /\ Ledger(r)'
      BY <1>1, <1>2, <2>4, <2>5
         DEF Admitted, Hits, Disclosed, Ledger, SearchSteps, AnswerSteps, IngestSteps, UploadRow
    <2>7. Stored(r)'
      BY <1>2, <2>1, <2>4 DEF Stored, RInv
    <2> QED
      BY <2>6, <2>7 DEF RInv
  <1> QED
    BY <1>5, <1>6, <1>7, <1>8, <1>9

LEMMA Searching ==
    ASSUME TypeOK, NEW r \in Requests, RInv(r),
           ListAndRebuild(r) \/ DenseSearch(r) \/ FuseAndRerank(r)
    PROVE  RInv(r)'
  <1> USE DEF observed, locals, memory, stores
  <1>1. pc[r] \in SearchSteps /\ pc[r] # "idle" /\ pc[r] # "audit"
        /\ req' = req /\ trail' = trail /\ sent' = sent
    BY DEF ListAndRebuild, DenseSearch, FuseAndRerank, At, SearchSteps
  <1>2. /\ Stage(r) = pc[r] /\ trail[r] = <<>> /\ sent[r] = {}
        /\ Scope(r)' = Scope(r) /\ TokenScope(r)' = TokenScope(r) /\ IsChat(r)' = IsChat(r)
        /\ IsChat(r) /\ Scope(r) = TokenScope(r) /\ req[r].ctx.roles # {} /\ ~req[r].injects
    BY <1>1
       DEF RInv, Admitted, Disclosed, Ledger, Stage, Written, Scope, TokenScope, IsChat
  <1>3. ASSUME NEW s \in {"search", "fuse", "verify"}, pc' = [pc EXCEPT ![r] = s]
        PROVE  /\ Stage(r)' = s /\ Written(r)' = <<>>
               /\ Admitted(r)' /\ Disclosed(r)' /\ Ledger(r)' /\ Stored(r)'
    <2>1. Stage(r)' = s /\ Written(r)' = <<>>
      BY <1>1, <1>2, <1>3, Moved
    <2> QED
      BY <1>1, <1>2, <2>1
         DEF Admitted, Disclosed, Ledger, Stored, SearchSteps, AnswerSteps, IngestSteps
  <1>4. CASE ListAndRebuild(r)
    <2>1. CASE pc' = [pc EXCEPT ![r] = "search"]
      BY <1>3, <2>1 DEF RInv, Hits, AnswerSteps
    <2>2. CASE AuditThen(r, <<QuestionGuard(req[r]), Guardrail("accepted")>>, "refused")
      <3>1. /\ QuestionGuard(req[r]) \in Event /\ QuestionGuard(req[r]) # UploadRow
            /\ Guardrail("accepted") \in Event /\ Guardrail("accepted") # UploadRow
        BY GuardrailType, QuestionGuardType DEF QuestionGuard, Guardrail, UploadRow, Audit
      <3>2. <<QuestionGuard(req[r]), Guardrail("accepted")>> \in Seq(Event)
        BY <3>1
      <3>3. /\ Stage(r)' = "refused"
            /\ Written(r)' = <<>> \o <<QuestionGuard(req[r]), Guardrail("accepted")>>
        BY <1>1, <1>2, <2>2, <3>2, Owes
      <3>4. Written(r)' = <<QuestionGuard(req[r]), Guardrail("accepted")>>
        BY <3>3
      <3>5. Admitted(r)' /\ Hits(r)' /\ Disclosed(r)' /\ Ledger(r)'
        BY <1>1, <1>2, <3>3
           DEF Admitted, Hits, Disclosed, Ledger, SearchSteps, AnswerSteps, IngestSteps
      <3>6. Stored(r)'
        BY <3>1, <3>3, <3>4 DEF Stored, UploadRow
      <3> QED
        BY <3>5, <3>6 DEF RInv
    <2> QED
      BY <1>4, <2>1, <2>2 DEF ListAndRebuild, Await
  <1>5. CASE DenseSearch(r)
    <2>1. PICK top \in TopOf(vectors[VectorsOf(r)], CandidateK) :
             dense' = [dense EXCEPT ![r] = FilterByDocIds(top, req[r].doc_ids)]
      BY <1>5 DEF DenseSearch
    <2>2. pc' = [pc EXCEPT ![r] = "fuse"]
      BY <1>5 DEF DenseSearch, Await
    <2>3. dense'[r] = FilterByDocIds(top, req[r].doc_ids)
      BY <2>1 DEF TypeOK
    <2>4. Selected(r, dense[r])'
      BY <1>1, <2>3 DEF Selected, FilterByDocIds
    <2> QED
      BY <1>3, <2>2, <2>4 DEF RInv, Hits, AnswerSteps
  <1>6. CASE FuseAndRerank(r)
    <2>1. PICK bm25, graph :
             \E hits \in TopOf(Fused(r, bm25, graph), Min({RerankInputK, TopK})) :
                retrieved' = [retrieved EXCEPT ![r] = hits]
      BY <1>6 DEF FuseAndRerank
    <2>2. PICK hits \in TopOf(Fused(r, bm25, graph), Min({RerankInputK, TopK})) :
             retrieved' = [retrieved EXCEPT ![r] = hits]
      BY <2>1
    <2>3. pc' = [pc EXCEPT ![r] = "verify"] /\ Stage(r) = "fuse"
      BY <1>2, <1>6 DEF FuseAndRerank, Await, At
    <2>4. hits \subseteq Fused(r, bm25, graph)
      BY TopOfType
    <2>5. Selected(r, Fused(r, bm25, graph))
      BY <2>3 DEF RInv, Hits, Selected, Fused, FilterByDocIds
    <2>6. retrieved'[r] = hits
      BY <2>2 DEF TypeOK
    <2>7. Selected(r, retrieved[r])'
      BY <1>1, <2>4, <2>5, <2>6 DEF Selected
    <2> QED
      BY <1>3, <2>3, <2>7 DEF RInv, Hits, AnswerSteps
  <1> QED
    BY <1>4, <1>5, <1>6

(* The retrieval wall: the hits that pass are clear, and the retrieve row  *)
(* that names them is owed.                                                *)
LEMMA Verifying ==
    ASSUME TypeOK, NEW r \in Requests, RInv(r), Grow, VerifyRetrieved(r)
    PROVE  RInv(r)'
  <1> USE DEF observed, locals, memory, stores
  <1> DEFINE scan == <<RetrieveRow(r), QuestionGuard(req[r]), Guardrail("accepted"),
                       Guardrail("rejected")>>
  <1>1. /\ pc[r] = "verify" /\ req' = req /\ trail' = trail /\ sent' = sent
        /\ retrieved' = retrieved
    BY DEF VerifyRetrieved, At
  <1>2. /\ Stage(r) = "verify" /\ trail[r] = <<>> /\ sent[r] = {}
        /\ Selected(r, retrieved[r])
        /\ Scope(r)' = Scope(r) /\ TokenScope(r)' = TokenScope(r) /\ IsChat(r)' = IsChat(r)
        /\ IsChat(r) /\ Scope(r) = TokenScope(r) /\ req[r].ctx.roles # {} /\ ~req[r].injects
    BY <1>1 DEF RInv, Admitted, Hits, Disclosed, Ledger, Stage, Written, Scope, TokenScope,
                IsChat, SearchSteps
  <1>3. RetrieveRow(r) \in Event /\ RetrieveRow(r)' = RetrieveRow(r)
    BY <1>1, ChunkIdsType, AuditType DEF TypeOK, RetrieveRow
  <1>4. scan \in Seq(Event) /\ <<RetrieveRow(r)>> \in Seq(Event)
    BY <1>3, GuardrailType, QuestionGuardType
  <1>5. RetrieveRow(r) # UploadRow /\ QuestionGuard(req[r]) # UploadRow
        /\ Guardrail("accepted") # UploadRow
        /\ Guardrail("rejected") # UploadRow
    BY DEF RetrieveRow, QuestionGuard, Guardrail, UploadRow, Audit
  <1>6. CASE Respond(r, "breach")
    <2>1. pc'[r] = "breach"
      BY <1>6 DEF Respond, TypeOK
    <2> QED
      BY <1>1, <2>1, Ended
  <1>7. CASE AuditThen(r, scan, "refused")
    <2>1. Stage(r)' = "refused" /\ Written(r)' = <<>> \o scan
      BY <1>1, <1>2, <1>4, <1>7, Owes
    <2>2. Written(r)' = scan
      BY <2>1, <1>4
    <2>3. Admitted(r)' /\ Hits(r)' /\ Disclosed(r)' /\ Ledger(r)'
      BY <1>1, <1>2, <2>1
         DEF Admitted, Hits, Disclosed, Ledger, SearchSteps, AnswerSteps, IngestSteps
    <2>4. Stored(r)'
      BY <1>5, <2>1, <2>2 DEF Stored, UploadRow
    <2> QED
      BY <2>3, <2>4 DEF RInv
  <1>8. CASE /\ VerifyRetrievalScope(retrieved[r], Scope(r))
             /\ ~ScanRejects(retrieved[r])
             /\ AuditThen(r, <<RetrieveRow(r)>>, "generate")
    <2>1. Stage(r)' = "generate" /\ Written(r)' = <<>> \o <<RetrieveRow(r)>>
      BY <1>1, <1>2, <1>4, <1>8, Owes
    <2>2. Written(r)' = <<RetrieveRow(r)>>
      BY <2>1, <1>4
    <2>3. Clear(r, retrieved[r])'
      BY <1>1, <1>2, <1>8 DEF Clear, Selected, VerifyRetrievalScope, ScanRejects
    <2>4. Admitted(r)' /\ Hits(r)' /\ Disclosed(r)'
      BY <1>1, <1>2, <2>1, <2>3
         DEF Admitted, Hits, Disclosed, SearchSteps, AnswerSteps, IngestSteps
    <2>5. Ledger(r)'
      BY <1>3, <2>1, <2>2 DEF Ledger, SearchSteps, IngestSteps
    <2>6. Stored(r)'
      BY <1>5, <2>1, <2>2 DEF Stored, UploadRow
    <2> QED
      BY <2>4, <2>5, <2>6 DEF RInv
  <1> QED
    BY <1>6, <1>7, <1>8 DEF VerifyRetrieved, RetrieveRow

(* What leaves for the provider is what was cleared.                       *)
LEMMA Generating ==
    ASSUME TypeOK, NEW r \in Requests, RInv(r), Generate(r)
    PROVE  RInv(r)'
  <1> USE DEF observed, locals, memory, stores
  <1>1. /\ pc[r] = "generate" /\ pc' = [pc EXCEPT ![r] = "reply"]
        /\ req' = req /\ trail' = trail /\ retrieved' = retrieved
        /\ sent'[r] = retrieved[r]
    BY DEF Generate, At, Await, TypeOK
  <1>2. /\ Stage(r) = "generate" /\ trail[r] = <<RetrieveRow(r)>>
        /\ RetrieveRow(r)' = RetrieveRow(r)
        /\ Scope(r)' = Scope(r) /\ TokenScope(r)' = TokenScope(r) /\ IsChat(r)' = IsChat(r)
        /\ IsChat(r) /\ Scope(r) = TokenScope(r) /\ req[r].ctx.roles # {} /\ ~req[r].injects
    BY <1>1 DEF RInv, Admitted, Ledger, Stage, Written, Scope, TokenScope,
                IsChat, AnswerSteps, RetrieveRow
  <1>3. Stage(r)' = "reply" /\ Written(r)' = <<RetrieveRow(r)>>
    BY <1>1, <1>2, Moved
  <1>4. Clear(r, retrieved[r])'
    BY <1>1, <1>2 DEF RInv, Hits, Clear, Selected, AnswerSteps
  <1>5. Admitted(r)' /\ Hits(r)' /\ Disclosed(r)'
    BY <1>1, <1>2, <1>3, <1>4
       DEF Admitted, Hits, Disclosed, SearchSteps, AnswerSteps, IngestSteps
  <1>6. Ledger(r)'
    BY <1>2, <1>3 DEF Ledger, SearchSteps, IngestSteps
  <1>7. RetrieveRow(r) # UploadRow
    BY DEF RetrieveRow, UploadRow, Audit
  <1>8. Stored(r)'
    BY <1>3, <1>7 DEF Stored, UploadRow
  <1> QED
    BY <1>5, <1>6, <1>8 DEF RInv

LEMMA Prepend ==
    ASSUME NEW e \in Event, NEW t \in Seq(Event)
    PROVE  /\ <<e>> \o t \in Seq(Event)
           /\ Len(<<e>> \o t) = Len(t) + 1
           /\ (<<e>> \o t)[1] = e
           /\ \A i \in 1 .. Len(t) : (<<e>> \o t)[i + 1] = t[i]
  OBVIOUS

LEMMA Postpend ==
    ASSUME NEW e \in Event, NEW t \in Seq(Event)
    PROVE  /\ t \o <<e>> \in Seq(Event)
           /\ Len(t \o <<e>>) = Len(t) + 1
           /\ (t \o <<e>>)[Len(t) + 1] = e
           /\ \A i \in 1 .. Len(t) : (t \o <<e>>)[i] = t[i]
  OBVIOUS

(* The rows of an answer: six, the first of the retrieval, the last of the *)
(* generation, none of an upload.                                          *)
LEMMA AnswerRowsType ==
    ASSUME TypeOK, NEW r \in Requests, NEW s \in {"accepted", "repaired", "rejected"}
    PROVE  /\ AnswerRows(r, s) \in Seq(Event)
           /\ Len(AnswerRows(r, s)) = 6
           /\ AnswerRows(r, s)[1] = RetrieveRow(r)
           /\ AnswerRows(r, s)[6] = Audit("generate", s, {})
           /\ \A i \in 1 .. 6 : AnswerRows(r, s)[i] # UploadRow
  <1>1. RetrieveRow(r) \in Event
    BY ChunkIdsType, AuditType DEF TypeOK, RetrieveRow
  <1>2. ReplyRows(req[r], s) \in Seq(Event)
    BY ReplyRowsType
  <1>3. /\ Len(ReplyRows(req[r], s)) = 5
        /\ ReplyRows(req[r], s)[5] = Audit("generate", s, {})
        /\ \A i \in 1 .. 5 : ReplyRows(req[r], s)[i] \in
              {QuestionGuard(req[r]), Guardrail("accepted"), Guardrail(s), Audit("generate", s, {})}
    <2>1. /\ Len(ReplyRows(req[r], s)) = 5
          /\ ReplyRows(req[r], s)[1] = QuestionGuard(req[r]) /\ ReplyRows(req[r], s)[2] = Guardrail("accepted")
          /\ ReplyRows(req[r], s)[3] = Guardrail("accepted") /\ ReplyRows(req[r], s)[4] = Guardrail(s)
          /\ ReplyRows(req[r], s)[5] = Audit("generate", s, {})
      BY DEF ReplyRows
    <2>2. ASSUME NEW i \in 1 .. 5
          PROVE  ReplyRows(req[r], s)[i] \in {QuestionGuard(req[r]), Guardrail("accepted"), Guardrail(s),
                                      Audit("generate", s, {})}
      <3>1. i = 1 \/ i = 2 \/ i = 3 \/ i = 4 \/ i = 5
        OBVIOUS
      <3> QED
        BY <2>1, <3>1
    <2> QED
      BY <2>1, <2>2
  <1>4. UploadRow \notin {RetrieveRow(r), QuestionGuard(req[r]), Guardrail("accepted"), Guardrail(s),
                          Audit("generate", s, {})}
    BY DEF RetrieveRow, QuestionGuard, Guardrail, UploadRow, Audit
  <1>5. /\ AnswerRows(r, s) \in Seq(Event)
        /\ Len(AnswerRows(r, s)) = 6
        /\ AnswerRows(r, s)[1] = RetrieveRow(r)
        /\ \A i \in 1 .. 5 : AnswerRows(r, s)[i + 1] = ReplyRows(req[r], s)[i]
    <2> DEFINE t == ReplyRows(req[r], s)
    <2>1. /\ <<RetrieveRow(r)>> \o t \in Seq(Event)
          /\ Len(<<RetrieveRow(r)>> \o t) = Len(t) + 1
          /\ (<<RetrieveRow(r)>> \o t)[1] = RetrieveRow(r)
          /\ \A i \in 1 .. Len(t) : (<<RetrieveRow(r)>> \o t)[i + 1] = t[i]
      <3> HIDE DEF t
      <3>1. t \in Seq(Event)
        BY <1>2 DEF t
      <3> QED
        BY <1>1, <3>1, Prepend DEF RetrieveRow, Audit
    <2> QED
      BY <2>1, <1>3 DEF AnswerRows
  <1>6. AnswerRows(r, s)[6] = Audit("generate", s, {})
    BY <1>3, <1>5
  <1>7. \A i \in 1 .. 6 : AnswerRows(r, s)[i] # UploadRow
    <2> SUFFICES ASSUME NEW i \in 1 .. 6 PROVE AnswerRows(r, s)[i] # UploadRow
      OBVIOUS
    <2>1. CASE i = 1
      BY <2>1, <1>4, <1>5
    <2>2. CASE i # 1
      <3>1. i - 1 \in 1 .. 5 /\ (i - 1) + 1 = i
        BY <2>2
      <3> QED
        BY <3>1, <1>3, <1>4, <1>5
    <2> QED
      BY <2>1, <2>2
  <1> QED
    BY <1>5, <1>6, <1>7

LEMMA ClosedRowsType ==
    ASSUME TypeOK, NEW r \in Requests, NEW s \in {"accepted", "repaired", "rejected"}
    PROVE  /\ AnswerRows(r, s) \o <<ChatRow>> \in Seq(Event)
           /\ Len(AnswerRows(r, s) \o <<ChatRow>>) = 7
           /\ (AnswerRows(r, s) \o <<ChatRow>>)[1] = RetrieveRow(r)
           /\ (AnswerRows(r, s) \o <<ChatRow>>)[6] = Audit("generate", s, {})
           /\ (AnswerRows(r, s) \o <<ChatRow>>)[7] = ChatRow
           /\ \A i \in 1 .. 7 : (AnswerRows(r, s) \o <<ChatRow>>)[i] # UploadRow
  <1>1. ChatRow \in Event /\ ChatRow # UploadRow
    BY AuditType DEF ChatRow, UploadRow, Audit
  <1>2. /\ AnswerRows(r, s) \o <<ChatRow>> \in Seq(Event)
        /\ Len(AnswerRows(r, s) \o <<ChatRow>>) = 7
        /\ (AnswerRows(r, s) \o <<ChatRow>>)[7] = ChatRow
        /\ \A i \in 1 .. 6 : (AnswerRows(r, s) \o <<ChatRow>>)[i] = AnswerRows(r, s)[i]
    <2> DEFINE t == AnswerRows(r, s)
               e == ChatRow
    <2>1. t \in Seq(Event) /\ Len(t) = 6 /\ e \in Event
      BY <1>1, AnswerRowsType
    <2>2. /\ t \o <<e>> \in Seq(Event)
          /\ Len(t \o <<e>>) = Len(t) + 1
          /\ (t \o <<e>>)[Len(t) + 1] = e
          /\ \A i \in 1 .. Len(t) : (t \o <<e>>)[i] = t[i]
      <3> HIDE DEF t, e
      <3> QED
        BY <2>1, Postpend
    <2> QED
      BY <2>1, <2>2
  <1>3. ASSUME NEW i \in 1 .. 7
        PROVE  (AnswerRows(r, s) \o <<ChatRow>>)[i] # UploadRow
    <2>1. i \in 1 .. 6 \/ i = 7
      OBVIOUS
    <2> QED
      BY <1>1, <1>2, <2>1, AnswerRowsType
  <1>4. /\ (AnswerRows(r, s) \o <<ChatRow>>)[1] = RetrieveRow(r)
        /\ (AnswerRows(r, s) \o <<ChatRow>>)[6] = Audit("generate", s, {})
    BY <1>2, AnswerRowsType
  <1> QED
    BY <1>2, <1>3, <1>4

(* What the provider answers is cited from the hits, and the rows owed for *)
(* it say whether anything is.                                             *)
LEMMA Replying ==
    ASSUME TypeOK, NEW r \in Requests, RInv(r), Reply(r)
    PROVE  RInv(r)'
  <1> USE DEF observed, locals, memory, stores
  <1>1. /\ pc[r] = "reply" /\ req' = req /\ trail' = trail /\ retrieved' = retrieved
        /\ sent' = sent
    BY DEF Reply, At
  <1>2. /\ Stage(r) = "reply" /\ trail[r] = <<RetrieveRow(r)>> /\ sent[r] = retrieved[r]
        /\ \A s : AnswerRows(r, s)' = AnswerRows(r, s)
        /\ Scope(r)' = Scope(r) /\ TokenScope(r)' = TokenScope(r) /\ IsChat(r)' = IsChat(r)
        /\ IsChat(r) /\ Scope(r) = TokenScope(r) /\ req[r].ctx.roles # {} /\ ~req[r].injects
        /\ Clear(r, retrieved[r])
    BY <1>1 DEF RInv, Admitted, Hits, Disclosed, Ledger, Stage, Written, Scope, TokenScope,
                IsChat, AnswerSteps, RetrieveRow, AnswerRows
  <1>3. PICK C \in SUBSET retrieved[r], s \in Statuses :
           /\ s = "rejected" <=> C = {}
           /\ answer' = [answer EXCEPT ![r] = C]
           /\ AuditThen(r, ReplyRows(req[r], s), "finish")
    <2>1. ASSUME NEW quoted, NEW unsupported, NEW kept \in SUBSET Verified(r, quoted),
                 answer' = [answer EXCEPT ![r] = kept],
                 AuditThen(r, ReplyRows(req[r], VerifierStatus(r, quoted, unsupported, kept)), "finish")
          PROVE  \E C \in SUBSET retrieved[r], s \in Statuses :
                    /\ s = "rejected" <=> C = {}
                    /\ answer' = [answer EXCEPT ![r] = C]
                    /\ AuditThen(r, ReplyRows(req[r], s), "finish")
      <3>1. /\ VerifierStatus(r, quoted, unsupported, kept) \in Statuses
            /\ VerifierStatus(r, quoted, unsupported, kept) = "rejected" <=> kept = {}
        BY DEF VerifierStatus, Statuses
      <3>2. kept \in SUBSET retrieved[r]
        BY DEF Verified
      <3> QED
        BY <2>1, <3>1, <3>2
    <2>2. ASSUME NEW c \in retrieved[r],
                 answer' = [answer EXCEPT ![r] = {c}], AuditThen(r, ReplyRows(req[r], "repaired"), "finish")
          PROVE  \E C \in SUBSET retrieved[r], s \in Statuses :
                    /\ s = "rejected" <=> C = {}
                    /\ answer' = [answer EXCEPT ![r] = C]
                    /\ AuditThen(r, ReplyRows(req[r], s), "finish")
      BY <2>2 DEF Statuses
    <2> QED
      BY <2>1, <2>2 DEF Reply
  <1>4. ReplyRows(req[r], s) \in Seq(Event)
    BY ReplyRowsType DEF Statuses
  <1>5. Stage(r)' = "finish" /\ Written(r)' = AnswerRows(r, s)
    BY <1>1, <1>2, <1>3, <1>4, Owes DEF AnswerRows
  <1>6. answer'[r] = C /\ Verdict(r, s)'
    BY <1>3 DEF TypeOK, Verdict
  <1>7. Clear(r, retrieved[r])'
    BY <1>1, <1>2 DEF Clear, Selected
  <1>8. Admitted(r)' /\ Hits(r)' /\ Disclosed(r)'
    BY <1>1, <1>2, <1>3, <1>5, <1>6, <1>7
       DEF Admitted, Hits, Disclosed, SearchSteps, AnswerSteps, IngestSteps
  <1>9. Ledger(r)'
    BY <1>2, <1>5, <1>6 DEF Ledger, SearchSteps, IngestSteps
  <1>10. Stored(r)'
    <2>1. \A i \in DOMAIN AnswerRows(r, s) : AnswerRows(r, s)[i] # UploadRow
      BY AnswerRowsType, SMTT(20) DEF Statuses
    <2> QED
      BY <1>5, <2>1 DEF Stored, UploadRow
  <1> QED
    BY <1>8, <1>9, <1>10 DEF RInv

(* The output wall lets every answer pass; the chat row closes it.         *)
LEMMA Finishing ==
    ASSUME TypeOK, NEW r \in Requests, RInv(r), Finish(r)
    PROVE  RInv(r)'
  <1> USE DEF observed, locals, memory, stores
  <1>1. /\ pc[r] = "finish" /\ req' = req /\ trail' = trail /\ retrieved' = retrieved
        /\ sent' = sent /\ answer' = answer
    BY DEF Finish, At
  <1>2. /\ Stage(r) = "finish" /\ sent[r] = retrieved[r] /\ answer[r] \subseteq retrieved[r]
        /\ Written(r) = trail[r]
        /\ \A s : AnswerRows(r, s)' = AnswerRows(r, s) /\ Verdict(r, s)' = Verdict(r, s)
        /\ Scope(r)' = Scope(r) /\ TokenScope(r)' = TokenScope(r) /\ IsChat(r)' = IsChat(r)
        /\ IsChat(r) /\ Scope(r) = TokenScope(r) /\ req[r].ctx.roles # {} /\ ~req[r].injects
        /\ Clear(r, retrieved[r])
    BY <1>1 DEF RInv, Admitted, Hits, Disclosed, Stage, Written, Scope, TokenScope,
                IsChat, AnswerSteps, RetrieveRow, AnswerRows, Verdict
  <1>3. PICK s \in Statuses : Verdict(r, s) /\ trail[r] = AnswerRows(r, s)
    BY <1>2 DEF RInv, Ledger
  <1>4. AuditThen(r, <<ChatRow>>, "answered")
    <2>1. VerifyCitationScope(answer[r], Scope(r))
      BY <1>2 DEF Clear, VerifyCitationScope
    <2> QED
      BY <2>1 DEF Finish, ChatRow
  <1>5. <<ChatRow>> \in Seq(Event)
    <2>1. ChatRow \in Event
      BY AuditType DEF ChatRow
    <2> QED
      BY <2>1
  <1>6. Stage(r)' = "answered" /\ Written(r)' = AnswerRows(r, s) \o <<ChatRow>>
    BY <1>1, <1>3, <1>4, <1>5, Owes
  <1>7. Clear(r, retrieved[r])'
    BY <1>1, <1>2 DEF Clear, Selected
  <1>8. Admitted(r)' /\ Hits(r)' /\ Disclosed(r)'
    BY <1>1, <1>2, <1>6, <1>7
       DEF Admitted, Hits, Disclosed, SearchSteps, AnswerSteps, IngestSteps
  <1>9. Ledger(r)'
    <2>1. ChatRow' = ChatRow
      BY DEF ChatRow, Audit
    <2> QED
      BY <1>2, <1>3, <1>6, <2>1 DEF Ledger, SearchSteps, IngestSteps
  <1>10. Stored(r)'
    <2> DEFINE rows == AnswerRows(r, s) \o <<ChatRow>>
    <2>1. \A i \in DOMAIN rows : rows[i] # UploadRow
      BY ClosedRowsType, SMTT(20) DEF Statuses
    <2> QED
      BY <1>6, <2>1 DEF Stored, UploadRow
  <1> QED
    BY <1>8, <1>9, <1>10 DEF RInv

LEMMA MoveHead ==
    ASSUME NEW s \in Seq(Event), NEW t \in Seq(Event), t # <<>>
    PROVE  /\ Append(s, Head(t)) \o Tail(t) = s \o t
           /\ Len(t) = 1 => Append(s, Head(t)) = s \o t
  <1>1. Head(t) \in Event /\ Tail(t) \in Seq(Event)
    OBVIOUS
  <1>2. Append(s, Head(t)) \in Seq(Event) /\ Append(s, Head(t)) = s \o <<Head(t)>>
    BY <1>1
  <1>3. t = <<Head(t)>> \o Tail(t)
    BY <1>1
  <1>4. <<Head(t)>> \in Seq(Event)
    BY <1>1
  <1>5. (s \o <<Head(t)>>) \o Tail(t) = s \o (<<Head(t)>> \o Tail(t))
    BY <1>1, <1>4, ConcatAssociative
  <1>6. Len(t) = 1 => t = <<Head(t)>>
    OBVIOUS
  <1> QED
    BY <1>2, <1>3, <1>5, <1>6

(* The commit of an audit row changes neither what is written or owed, nor *)
(* where the request goes on.                                              *)
LEMMA Appending ==
    ASSUME TypeOK, NEW r \in Requests, RInv(r), AuditAppend(r)
    PROVE  RInv(r)'
  <1>1. /\ pc[r] = "audit" /\ pending[r] # <<>>
        /\ trail' = [trail EXCEPT ![r] = Append(trail[r], Head(pending[r]))]
        /\ pending' = [pending EXCEPT ![r] = Tail(pending[r])]
        /\ UNCHANGED <<files, library, vectors, req, dense, retrieved, cont, answer, sent>>
    BY DEF AuditAppend, At, observed
  <1>2. trail[r] \in Seq(Event) /\ pending[r] \in Seq(Event)
    BY DEF TypeOK
  <1>3. /\ trail'[r] = Append(trail[r], Head(pending[r]))
        /\ pending'[r] = Tail(pending[r])
    BY <1>1 DEF TypeOK
  <1>4. /\ trail'[r] \o pending'[r] = trail[r] \o pending[r]
        /\ Len(pending[r]) = 1 => trail'[r] = trail[r] \o pending[r]
    BY <1>1, <1>2, <1>3, MoveHead
  <1>5. \/ pc'[r] = "audit"
        \/ Len(pending[r]) = 1 /\ pc'[r] = cont[r]
    BY DEF AuditAppend, Goto, Respond, TypeOK
  <1>6. Written(r) = trail[r] \o pending[r] /\ Stage(r) = cont[r]
    BY <1>1 DEF Written, Stage
  <1>7. Stage(r)' = Stage(r) /\ Written(r)' = Written(r)
    BY <1>1, <1>4, <1>5, <1>6 DEF Written, Stage
  <1>8. /\ Scope(r)' = Scope(r) /\ TokenScope(r)' = TokenScope(r) /\ Proc(r)' = Proc(r)
        /\ DocChunks(r)' = DocChunks(r) /\ VectorsOf(r)' = VectorsOf(r)
        /\ IsChat(r)' = IsChat(r)
    BY <1>1 DEF Scope, TokenScope, Proc, DocChunks, VectorsOf, IsChat
  <1>9. Admitted(r)'
    BY <1>1, <1>7, <1>8 DEF RInv, Admitted
  <1>10. Hits(r)' /\ Disclosed(r)'
    BY <1>1, <1>7, <1>8 DEF RInv, Hits, Disclosed, Clear, Selected
  <1>11. Ledger(r)'
    BY <1>1, <1>7 DEF RInv, Ledger, Verdict, AnswerRows, RetrieveRow
  <1>12. Stored(r)'
    BY <1>1, <1>7, <1>8 DEF RInv, Stored
  <1> QED
    BY <1>9, <1>10, <1>11, <1>12 DEF RInv

LEMMA Crashing ==
    ASSUME TypeOK, NEW p \in Procs, Crash(p), NEW x \in Requests, RInv(x)
    PROVE  RInv(x)'
  <1>1. Grow
    BY DEF Crash, Grow, TypeOK
  <1>2. UNCHANGED <<req[x], dense[x], retrieved[x], pending[x], cont[x], answer[x], sent[x],
                    trail[x]>>
    BY DEF Crash, observed
  <1>3. CASE pc[x] \in Steps /\ Proc(x) = p
    <2>1. pc'[x] = "lost"
      BY <1>3 DEF Crash
    <2> QED
      BY <1>1, <1>2, <2>1, Ended
  <1>4. CASE ~(pc[x] \in Steps /\ Proc(x) = p)
    <2>1. pc'[x] = pc[x]
      BY <1>4 DEF Crash
    <2>2. Same(x)
      BY <1>2, <2>1 DEF Same
    <2> QED
      BY <1>1, <2>2, Framed
  <1> QED
    BY <1>3, <1>4

LEMMA InitInv == Init => IInv
  <1> SUFFICES ASSUME Init PROVE IInv
    OBVIOUS
  <1>1. TypeOK
    BY DEF Init, TypeOK
  <1>2. ASSUME NEW r \in Requests PROVE RInv(r)
    <2>1. Stage(r) = "idle" /\ Written(r) = <<>> /\ sent[r] = {}
      BY DEF Init, Stage, Written
    <2> QED
      BY <2>1 DEF RInv, Admitted, Hits, Disclosed, Ledger, Stored, SearchSteps, AnswerSteps,
                  IngestSteps
  <1> QED
    BY <1>1, <1>2 DEF IInv

LEMMA StepInv == IInv /\ [Next]_vars => IInv'
  <1> SUFFICES ASSUME IInv, [Next]_vars PROVE IInv'
    OBVIOUS
  <1>1. TypeOK /\ TypeOK'
    BY TypeStep DEF IInv
  <1>2. ASSUME NEW x \in Requests PROVE RInv(x)'
    <2>1. RInv(x)
      BY DEF IInv
    <2>2. CASE UNCHANGED vars
      <3>1. Same(x) /\ Grow
        BY <2>2 DEF vars, observed, locals, memory, stores, Same, Grow
      <3> QED
        BY <1>1, <2>1, <3>1, Framed
    <2>3. ASSUME NEW r \in Requests,
                 Upload(r) \/ Chat(r) \/ Step(r) \/ Reply(r) \/ StepFails(r)
          PROVE  RInv(x)'
      <3>1. Grow /\ \A y \in Requests \ {r} : Same(y)
        BY <1>1, <2>3, Others
      <3>2. CASE x # r
        BY <1>1, <2>1, <3>1, <3>2, Framed
      <3>3. CASE x = r /\ (ProviderFails(r) \/ StepFails(r))
        <4>1. pc'[r] = "failed" /\ UNCHANGED <<req[r], sent[r], trail[r]>>
          BY <1>1, <3>3 DEF ProviderFails, StepFails, Respond, TypeOK, observed, stores
        <4> QED
          BY <1>1, <2>1, <3>1, <3>3, <4>1, Ended
      <3>4. CASE x = r /\ ~(ProviderFails(r) \/ StepFails(r))
        BY <1>1, <2>1, <2>3, <3>1, <3>4, Arrived, Ingesting, Searching, Verifying,
           Generating, Replying, Finishing, Appending
           DEF Step
      <3> QED
        BY <3>2, <3>3, <3>4
    <2>4. ASSUME NEW p \in Procs, Crash(p) PROVE RInv(x)'
      BY <1>1, <2>1, <2>4, Crashing
    <2> QED
      BY <2>2, <2>3, <2>4 DEF Next
  <1> QED
    BY <1>1, <1>2 DEF IInv

(* The inductive invariant holds in every state of every behaviour.        *)
THEOREM Invariance == Spec => []IInv
  BY InitInv, StepInv, PTL DEF Spec

-----------------------------------------------------------------------------
(* What reaches the provider is of the tenant and the matter of the token, *)
(* whatever the collection holds (service.py, the retrieval wall).         *)
THEOREM ContextWallHolds == Spec => []ContextWall
  <1>1. IInv => ContextWall
    BY DEF IInv, RInv, Disclosed, Clear, ContextWall
  <1> QED
    BY <1>1, Invariance, PTL

(* What reaches the provider is of the selected documents.                 *)
THEOREM SelectedSourcesHolds == Spec => []SelectedSources
  <1>1. IInv => SelectedSources
    BY DEF IInv, RInv, Disclosed, Clear, Selected, SelectedSources
  <1> QED
    BY <1>1, Invariance, PTL

(* Nothing a guard rejects reaches the provider.                           *)
THEOREM GuardedDisclosureHolds == Spec => []GuardedDisclosure
  <1>1. IInv => GuardedDisclosure
    BY DEF IInv, RInv, Disclosed, Clear, GuardedDisclosure
  <1> QED
    BY <1>1, Invariance, PTL

(* The output wall never rejects an answer: verification has confined its  *)
(* citations to the hits that passed the retrieval wall.                   *)
THEOREM OutputWallIdleHolds == Spec => []OutputWallIdle
  <1>1. IInv => OutputWallIdle
    <2> SUFFICES ASSUME IInv, NEW r \in Requests, pc[r] = "leak" PROVE FALSE
      BY DEF OutputWallIdle
    <2>1. Stage(r) = "leak"
      BY DEF Stage
    <2> QED
      BY <2>1 DEF IInv, RInv, Disclosed
  <1> QED
    BY <1>1, Invariance, PTL

(* An answer leaves with its retrieve, generate and chat rows committed in *)
(* that order, and cites only what its retrieve row names.                 *)
THEOREM AnswerAccountedHolds == Spec => []AnswerAccounted
  <1>1. IInv => AnswerAccounted
    <2> SUFFICES ASSUME IInv, NEW r \in Requests, pc[r] = "answered"
                 PROVE  LET n == Len(trail[r]) IN
                        /\ n > 2
                        /\ trail[r][n] = Audit("chat", "ok", {})
                        /\ trail[r][n - 1].event_type = "generate"
                        /\ trail[r][n - 1].status = "rejected" <=> answer[r] = {}
                        /\ trail[r][1].event_type = "retrieve"
                        /\ ChunkIds(answer[r]) \subseteq trail[r][1].chunk_ids
                        /\ \A c \in answer[r] : ScopeOf(c) = TokenScope(r)
      BY DEF AnswerAccounted
    <2>1. TypeOK /\ Stage(r) = "answered" /\ Written(r) = trail[r]
      BY DEF IInv, Stage, Written
    <2>2. PICK s \in Statuses : Verdict(r, s) /\ trail[r] = AnswerRows(r, s) \o <<ChatRow>>
      BY <2>1 DEF IInv, RInv, Ledger
    <2>3. /\ Len(trail[r]) = 7 /\ trail[r][1] = RetrieveRow(r)
          /\ trail[r][6] = Audit("generate", s, {}) /\ trail[r][7] = ChatRow
      BY <2>1, <2>2, ClosedRowsType DEF Statuses
    <2>4. answer[r] \subseteq retrieved[r] /\ Clear(r, retrieved[r])
      BY <2>1 DEF IInv, RInv, Disclosed, Hits, AnswerSteps
    <2>5. /\ ChunkIds(answer[r]) \subseteq trail[r][1].chunk_ids
          /\ trail[r][1].event_type = "retrieve"
      BY <2>3, <2>4 DEF RetrieveRow, Audit, ChunkIds
    <2>6. /\ trail[r][6].event_type = "generate"
          /\ trail[r][6].status = "rejected" <=> answer[r] = {}
      BY <2>2, <2>3 DEF Audit, Verdict
    <2>7. \A c \in answer[r] : ScopeOf(c) = TokenScope(r)
      BY <2>4 DEF Clear
    <2> QED
      BY <2>3, <2>5, <2>6, <2>7 DEF ChatRow
  <1> QED
    BY <1>1, Invariance, PTL

(* An acknowledged upload is in every store that outlives its process, and *)
(* no upload row is committed for a document that is not in the library.   *)
THEOREM UploadDurableHolds == Spec => []UploadDurable
  <1>1. IInv => UploadDurable
    <2> SUFFICES ASSUME IInv, NEW r \in Requests
                 PROVE  /\ pc[r] = "uploaded" =>
                              /\ UploadRow \in Rows(r)
                              /\ StoreOf[Proc(r)] \in Durable =>
                                    DocChunks(r) \subseteq vectors[VectorsOf(r)]
                        /\ UploadRow \in Rows(r) => r \in files /\ DocChunks(r) \subseteq library
      BY DEF UploadDurable, UploadRow
    <2>1. TypeOK /\ Stored(r) /\ Ledger(r)
      BY DEF IInv, RInv
    <2>2. ASSUME pc[r] = "uploaded"
          PROVE  /\ UploadRow \in Rows(r)
                 /\ StoreOf[Proc(r)] \in Durable => DocChunks(r) \subseteq vectors[VectorsOf(r)]
      <3>1. Stage(r) = "uploaded" /\ Written(r) = trail[r]
        BY <2>2 DEF Stage, Written
      <3>2. trail[r] = <<UploadRow>>
        BY <2>1, <3>1 DEF Ledger
      <3>3. UploadRow \in Rows(r)
        BY <3>2 DEF Rows
      <3> QED
        BY <2>1, <3>1, <3>3 DEF Stored
    <2>3. ASSUME UploadRow \in Rows(r)
          PROVE  r \in files /\ DocChunks(r) \subseteq library
      <3>1. PICK i \in DOMAIN trail[r] : trail[r][i] = UploadRow
        BY <2>3 DEF Rows
      <3>2. trail[r] \in Seq(Event) /\ pending[r] \in Seq(Event)
        BY <2>1 DEF TypeOK
      <3>3. i \in DOMAIN Written(r) /\ Written(r)[i] = UploadRow
        BY <3>1, <3>2, PrefixKept DEF Written
      <3> QED
        BY <2>1, <3>3 DEF Stored
    <2> QED
      BY <2>2, <2>3
  <1> QED
    BY <1>1, Invariance, PTL

(* Chunks leave for the provider only after the retrieve row that names    *)
(* exactly these chunks is committed.                                      *)
THEOREM AuditBeforeDisclosureHolds == Spec => AuditBeforeDisclosure
  <1> DEFINE Audited == \A r \in Requests : sent'[r] # sent[r] =>
                           Audit("retrieve", "ok", ChunkIds(sent'[r])) \in Rows(r)
  <1>1. IInv /\ [Next]_vars => [Audited]_vars
    <2> SUFFICES ASSUME IInv, Next, NEW r \in Requests, sent'[r] # sent[r]
                 PROVE  Audit("retrieve", "ok", ChunkIds(sent'[r])) \in Rows(r)
      OBVIOUS
    <2>1. TypeOK /\ Ledger(r)
      BY DEF IInv, RInv
    <2>2. Generate(r)
      <3>1. PICK x \in Requests : Upload(x) \/ Chat(x) \/ Step(x) \/ Reply(x) \/ StepFails(x)
        BY DEF Next, Crash, observed
      <3>2. x = r
        BY <2>1, <3>1, Others DEF Same
      <3> QED
        BY <3>1, <3>2
           DEF Step, Upload, Chat, Arrive, Reply, StepFails, StoreSourceFile, Upsert, IndexChunks,
               SaveDocument, RebuildAfterSave, ListAndRebuild, DenseSearch, FuseAndRerank,
               VerifyRetrieved, Finish, AuditAppend, ProviderFails, observed
    <2>3. Stage(r) = "generate" /\ Written(r) = trail[r] /\ sent'[r] = retrieved[r]
      BY <2>1, <2>2 DEF Generate, At, Stage, Written, TypeOK
    <2>4. trail[r] = <<RetrieveRow(r)>>
      BY <2>1, <2>3 DEF Ledger
    <2>5. RetrieveRow(r) \in Rows(r)
      BY <2>4 DEF Rows
    <2> QED
      BY <2>3, <2>5 DEF RetrieveRow
  <1>2. [][Audited]_vars => AuditBeforeDisclosure
    BY DEF AuditBeforeDisclosure
  <1> QED
    BY <1>1, <1>2, Invariance, PTL DEF Spec
-----------------------------------------------------------------------------
(* Who holds an event loop.  A step of a request needs the loop of its     *)
(* process free or its own, and touches no other loop and no index of      *)
(* another process.                                                        *)

LoopHeld(S) == \A r \in Requests : pc[r] \in S => loop[Proc(r)] = r

LEMMA OwnTurn ==
    ASSUME TypeOK, NEW r \in Requests,
           Upload(r) \/ Chat(r) \/ Step(r) \/ Reply(r) \/ StepFails(r)
    PROVE  \E p \in Procs :
              /\ loop[p] \in {Free, r}
              /\ \A q \in Procs \ {p} : loop'[q] = loop[q]
              /\ \A q \in Procs \ {p}, s \in Scopes : sparse'[<<q, s>>] = sparse[<<q, s>>]
  <1> USE DEF stores, locals, observed, memory
  <1>1. CASE Upload(r) \/ Chat(r)
    <2>1. PICK q \in Menu[r] :
             /\ loop[q.proc] = Free /\ sparse' = sparse
             /\ \E v : loop' = [loop EXCEPT ![q.proc] = v]
      BY <1>1 DEF Upload, Chat, Arrive, Enter
    <2>2. q.proc \in Procs
      BY ServiceAssumption DEF Request
    <2> QED
      BY <2>1, <2>2 DEF TypeOK
  <1>2. CASE Step(r) \/ Reply(r) \/ StepFails(r)
    <2>1. pc[r] # "idle"
      BY <1>2, FaultsAssumption
         DEF Step, Reply, StepFails, At, Steps, StoreSourceFile, Upsert, IndexChunks, SaveDocument,
             RebuildAfterSave, ListAndRebuild, DenseSearch, FuseAndRerank, VerifyRetrieved,
             Generate, Finish, AuditAppend, ProviderFails
    <2>2. Proc(r) \in Procs /\ SparseOf(r) \in Procs \X Scopes
      BY <2>1, Started
    <2>3. loop[Proc(r)] \in {Free, r} /\ \E v : loop' = [loop EXCEPT ![Proc(r)] = v]
      <3> USE DEF At, Goto, Await, Respond, AuditThen
      <3>1. CASE Reply(r) \/ StepFails(r) \/ ProviderFails(r) \/ AuditAppend(r)
        BY <3>1 DEF Reply, StepFails, ProviderFails, AuditAppend
      <3>2. CASE StoreSourceFile(r) \/ Upsert(r) \/ IndexChunks(r) \/ SaveDocument(r)
                 \/ RebuildAfterSave(r) \/ Generate(r) \/ DenseSearch(r) \/ FuseAndRerank(r)
        BY <3>2 DEF StoreSourceFile, Upsert, IndexChunks, SaveDocument, RebuildAfterSave,
                    Generate, DenseSearch, FuseAndRerank
      <3>3. CASE ListAndRebuild(r) \/ VerifyRetrieved(r) \/ Finish(r)
        BY <3>3 DEF ListAndRebuild, VerifyRetrieved, Finish
      <3> QED
        BY <1>2, <3>1, <3>2, <3>3 DEF Step
    <2>4. sparse' = sparse \/ \E v : sparse' = [sparse EXCEPT ![SparseOf(r)] = v]
      <3>1. CASE IndexChunks(r) \/ RebuildAfterSave(r) \/ ListAndRebuild(r)
        BY <3>1 DEF IndexChunks, RebuildAfterSave, ListAndRebuild
      <3>2. CASE ~(IndexChunks(r) \/ RebuildAfterSave(r) \/ ListAndRebuild(r))
        BY <1>2, <3>2
           DEF Step, Reply, StepFails, StoreSourceFile, Upsert, SaveDocument, DenseSearch,
               FuseAndRerank, VerifyRetrieved, Generate, Finish, AuditAppend, ProviderFails
      <3> QED
        BY <3>1, <3>2
    <2>5. \A q \in Procs \ {Proc(r)} : loop'[q] = loop[q]
      BY <2>3 DEF TypeOK
    <2>6. \A q \in Procs \ {Proc(r)}, s \in Scopes : sparse'[<<q, s>>] = sparse[<<q, s>>]
      BY <2>4 DEF TypeOK, SparseOf
    <2> QED
      BY <2>2, <2>3, <2>5, <2>6
  <1> QED
    BY <1>1, <1>2

(* So a request that holds its loop keeps it, and its index, while another *)
(* one runs.                                                               *)
LEMMA LoopKept ==
    ASSUME TypeOK, NEW r \in Requests, NEW x \in Requests \ {r},
           Upload(r) \/ Chat(r) \/ Step(r) \/ Reply(r) \/ StepFails(r),
           pc[x] # "idle", loop[Proc(x)] = x
    PROVE  /\ pc'[x] = pc[x] /\ req'[x] = req[x]
           /\ loop'[Proc(x)] = x
           /\ sparse'[SparseOf(x)] = sparse[SparseOf(x)]
  <1>1. PICK p \in Procs :
           /\ loop[p] \in {Free, r}
           /\ \A q \in Procs \ {p} : loop'[q] = loop[q]
           /\ \A q \in Procs \ {p}, s \in Scopes : sparse'[<<q, s>>] = sparse[<<q, s>>]
    BY OwnTurn
  <1>2. Proc(x) \in Procs /\ Scope(x) \in Scopes
    BY Started
  <1>3. Proc(x) # p
    BY <1>1, ServiceAssumption
  <1>4. Same(x)
    BY Others
  <1> QED
    BY <1>1, <1>2, <1>3, <1>4 DEF SparseOf, Same

-----------------------------------------------------------------------------
(* A search reads the index of its own question.                           *)

KnownUploaded == \A r \in Requests : \A u \in known[r] : pc[u] = "uploaded"

ReadInv == IInv /\ LoopHeld({"search", "fuse"}) /\ KnownUploaded /\ ReadYourUploads

(* An uploaded request has come to its end.                                *)
LEMMA UploadedStays ==
    ASSUME TypeOK, [Next]_vars, NEW u \in Requests, pc[u] = "uploaded"
    PROVE  pc'[u] = "uploaded" /\ req'[u] = req[u]
  <1>1. CASE UNCHANGED vars
    BY <1>1 DEF vars, locals
  <1>2. ASSUME NEW r \in Requests,
               Upload(r) \/ Chat(r) \/ Step(r) \/ Reply(r) \/ StepFails(r)
        PROVE  pc'[u] = "uploaded" /\ req'[u] = req[u]
    <2>1. pc[r] # "uploaded"
      BY <1>2, FaultsAssumption
         DEF Upload, Chat, Arrive, Step, Reply, StepFails, At, Steps, StoreSourceFile, Upsert,
             IndexChunks, SaveDocument, RebuildAfterSave, ListAndRebuild, DenseSearch,
             FuseAndRerank, VerifyRetrieved, Generate, Finish, AuditAppend, ProviderFails
    <2> QED
      BY <1>2, <2>1, Others DEF Same
  <1>3. ASSUME NEW p \in Procs, Crash(p)
        PROVE  pc'[u] = "uploaded" /\ req'[u] = req[u]
    BY <1>3 DEF Crash, Steps
  <1> QED
    BY <1>1, <1>2, <1>3 DEF Next

(* The steps of a request that end in front of its search, and in front of *)
(* the fusion: no audit row, and so no AuditAppend, precedes either.       *)
LEMMA EntersSearch ==
    ASSUME IInv, NEW r \in Requests,
           Upload(r) \/ Chat(r) \/ Step(r) \/ Reply(r) \/ StepFails(r),
           pc'[r] \in {"search", "fuse"}
    PROVE  \/ ListAndRebuild(r) /\ pc' = [pc EXCEPT ![r] = "search"]
           \/ DenseSearch(r)
  <1> USE DEF Goto, Await, Respond, AuditThen, Terminal
  <1>1. TypeOK /\ Ledger(r)
    BY DEF IInv, RInv
  <1>2. CASE Upload(r) \/ Chat(r)
    BY <1>1, <1>2 DEF Upload, Chat, Enter, TypeOK
  <1>3. CASE Reply(r) \/ StepFails(r) \/ ProviderFails(r)
    BY <1>1, <1>3 DEF Reply, StepFails, ProviderFails, TypeOK
  <1>4. CASE AuditAppend(r)
    <2>1. pc'[r] = cont[r] /\ pc[r] = "audit" /\ pending[r] # <<>>
      BY <1>1, <1>4 DEF AuditAppend, At, TypeOK
    <2>2. Stage(r) \in SearchSteps
      BY <2>1 DEF Stage, SearchSteps
    <2>3. trail[r] \o pending[r] = <<>>
      BY <1>1, <2>1, <2>2 DEF Ledger, Written
    <2>4. pending[r] = <<>>
      BY <1>1, <2>3 DEF TypeOK
    <2> QED
      BY <2>1, <2>4
  <1>5. CASE StoreSourceFile(r) \/ Upsert(r) \/ IndexChunks(r) \/ SaveDocument(r)
             \/ RebuildAfterSave(r) \/ Generate(r) \/ FuseAndRerank(r)
    BY <1>1, <1>5 DEF StoreSourceFile, Upsert, IndexChunks, SaveDocument, RebuildAfterSave,
                      Generate, FuseAndRerank, TypeOK
  <1>6. CASE VerifyRetrieved(r) \/ Finish(r)
    BY <1>1, <1>6 DEF VerifyRetrieved, Finish, TypeOK
  <1>7. CASE ListAndRebuild(r)
    BY <1>1, <1>7 DEF ListAndRebuild, TypeOK
  <1> QED
    BY <1>2, <1>3, <1>4, <1>5, <1>6, <1>7 DEF Step

(* What the index of a question is rebuilt from holds the chunks of every  *)
(* uploaded document that it selects.                                      *)
LEMMA ListedChunks ==
    ASSUME IInv, NEW r \in Requests, NEW u \in Requests, pc[u] = "uploaded",
           Scope(u) = Scope(r), req[r].doc_ids = {} \/ u \in req[r].doc_ids
    PROVE  DocChunks(u) \subseteq FilterByDocIds(ListChunks(Scope(r)), req[r].doc_ids)
  <1>1. DocChunks(u) \subseteq library
    BY DEF IInv, RInv, Stored, Stage
  <1>2. ASSUME NEW c \in DocChunks(u)
        PROVE  c.doc_id = u /\ ScopeOf(c) = Scope(r)
    <2>1. Scope(u) \in Scopes
      BY Started DEF IInv
    <2> QED
      BY <1>2, <2>1 DEF DocChunks, ChunkPages, ScopeOf, Scopes
  <1> QED
    BY <1>1, <1>2 DEF FilterByDocIds, ListChunks

LEMMA ReadInit == Init => ReadInv
  BY InitInv DEF Init, ReadInv, LoopHeld, KnownUploaded, ReadYourUploads

(* Only an arriving question notes the uploads that are confirmed by then. *)
LEMMA StepKeepsKnown ==
    ASSUME NEW x \in Requests, Step(x) \/ Reply(x) \/ StepFails(x)
    PROVE  known' = known
  <1>1. CASE Reply(x) \/ StepFails(x) \/ ProviderFails(x) \/ AuditAppend(x) \/ Finish(x)
    BY <1>1 DEF Reply, StepFails, ProviderFails, AuditAppend, Finish, observed
  <1>2. CASE StoreSourceFile(x) \/ Upsert(x) \/ IndexChunks(x) \/ SaveDocument(x)
             \/ RebuildAfterSave(x)
    BY <1>2 DEF StoreSourceFile, Upsert, IndexChunks, SaveDocument, RebuildAfterSave, observed
  <1>3. CASE ListAndRebuild(x) \/ DenseSearch(x) \/ FuseAndRerank(x) \/ VerifyRetrieved(x)
             \/ Generate(x)
    BY <1>3 DEF ListAndRebuild, DenseSearch, FuseAndRerank, VerifyRetrieved, Generate, observed
  <1> QED
    BY <1>1, <1>2, <1>3 DEF Step

LEMMA AskingNotes ==
    ASSUME NEW x \in Requests, Upload(x) \/ Chat(x)
    PROVE  \E q \in Menu[x] : Arrive(x, q)
  BY DEF Upload, Chat

LEMMA KnownStep ==
    ASSUME TypeOK, [Next]_vars, KnownUploaded
    PROVE  KnownUploaded'
  <1> SUFFICES ASSUME NEW r \in Requests, NEW u \in known'[r]
               PROVE  pc'[u] = "uploaded"
    BY DEF KnownUploaded
  <1>1. u \in Requests /\ pc[u] = "uploaded"
    <2>1. CASE known'[r] = known[r]
      BY <2>1 DEF KnownUploaded, TypeOK
    <2>2. CASE known'[r] # known[r]
      <3>1. PICK x \in Requests, q \in UNION {Menu[y] : y \in Requests} : Arrive(x, q)
        <4>1. known' # known
          BY <2>2
        <4>2. PICK x \in Requests : Upload(x) \/ Chat(x)
          BY <4>1, StepKeepsKnown DEF Next, Crash, vars, observed
        <4> QED
          BY <4>2, AskingNotes
      <3> QED
        BY <2>2, <3>1 DEF Arrive, TypeOK
    <2> QED
      BY <2>1, <2>2
  <1> QED
    BY <1>1, UploadedStays
(* What ReadYourUploads says of one question.                              *)
Reads(r) ==
    \A u \in known[r] :
        Scope(u) = Scope(r) /\ (req[r].doc_ids = {} \/ u \in req[r].doc_ids)
            => DocChunks(u) \subseteq sparse[SparseOf(r)]

LEMMA ReadStep ==
    ASSUME Suspends \cap {"embed", "search"} = {}, ReadInv, [Next]_vars
    PROVE  ReadInv'
  <1>1. TypeOK /\ IInv' /\ KnownUploaded'
    BY StepInv, KnownStep DEF ReadInv, IInv
  <1>2. ASSUME NEW r \in Requests, pc'[r] \in {"search", "fuse"}
        PROVE  loop'[Proc(r)'] = r /\ (IsChat(r)' => Reads(r)')
    <2>1. CASE UNCHANGED vars
      BY <1>2, <2>1 DEF vars, stores, memory, locals, observed, ReadInv, LoopHeld, ReadYourUploads,
         Proc, Reads, IsChat, Scope, SparseOf, DocChunks
    <2>2. ASSUME NEW x \in Requests \ {r},
                 Upload(x) \/ Chat(x) \/ Step(x) \/ Reply(x) \/ StepFails(x)
          PROVE  loop'[Proc(r)'] = r /\ (IsChat(r)' => Reads(r)')
      <3>1. /\ pc'[r] = pc[r] /\ req'[r] = req[r] /\ known'[r] = known[r]
        <4>1. pc'[r] = pc[r] /\ req'[r] = req[r]
          BY <1>1, <2>2, Others DEF Same
        <4>2. CASE Step(x) \/ Reply(x) \/ StepFails(x)
          BY <4>1, <4>2, <2>2, StepKeepsKnown
        <4>3. CASE Upload(x) \/ Chat(x)
          BY <1>1, <2>2, <4>1, <4>3, AskingNotes DEF Arrive, TypeOK
        <4> QED
          BY <2>2, <4>2, <4>3
      <3>2. loop[Proc(r)] = r /\ (IsChat(r) => Reads(r))
        BY <1>2, <3>1 DEF ReadInv, LoopHeld, ReadYourUploads, Reads
      <3>3. loop'[Proc(r)] = r /\ sparse'[SparseOf(r)] = sparse[SparseOf(r)]
        BY <1>1, <1>2, <2>2, <3>1, <3>2, LoopKept
      <3>4. \A u \in known[r] : u \in Requests /\ pc[u] = "uploaded" /\ req'[u] = req[u]
        BY <1>1, UploadedStays DEF TypeOK, ReadInv, KnownUploaded
      <3> QED
        BY <3>1, <3>2, <3>3, <3>4 DEF Proc, Reads, IsChat, Scope, SparseOf, DocChunks
    <2>3. CASE Upload(r) \/ Chat(r) \/ Step(r) \/ Reply(r) \/ StepFails(r)
      <3>1. \/ ListAndRebuild(r) /\ pc' = [pc EXCEPT ![r] = "search"]
            \/ DenseSearch(r)
        BY <1>2, <2>3, EntersSearch DEF ReadInv
      <3>2. req' = req /\ known' = known /\ pc[r] \in {"list", "search"}
        BY <3>1 DEF ListAndRebuild, DenseSearch, At, observed
      <3>3. /\ Proc(r) \in Procs /\ SparseOf(r) \in Procs \X Scopes
            /\ Proc(r)' = Proc(r) /\ SparseOf(r)' = SparseOf(r)
        BY <1>1, <3>2, Started DEF Proc, SparseOf, Scope
      <3>4. loop'[Proc(r)] = r
        <4>1. loop' = [loop EXCEPT ![Proc(r)] = r]
          BY <3>1, <1>1 DEF ListAndRebuild, DenseSearch, Await, AuditThen, Goto, TypeOK
        <4> QED
          BY <1>1, <3>3, <4>1 DEF TypeOK
      <3>5. \A u \in known[r] : u \in Requests /\ pc[u] = "uploaded"
        BY <1>1 DEF TypeOK, ReadInv, KnownUploaded
      <3>6. CASE ListAndRebuild(r) /\ pc' = [pc EXCEPT ![r] = "search"]
        <4>1. sparse' = [sparse EXCEPT ![SparseOf(r)] =
                            FilterByDocIds(ListChunks(Scope(r)), req[r].doc_ids)]
          <5>1. pc' # [pc EXCEPT ![r] = "audit"]
            BY <1>1, <3>6 DEF TypeOK
          <5> QED
            BY <3>6, <5>1 DEF ListAndRebuild, AuditThen, Goto
        <4>2. sparse'[SparseOf(r)] = FilterByDocIds(ListChunks(Scope(r)), req[r].doc_ids)
          BY <1>1, <3>3, <4>1 DEF TypeOK
        <4>3. ASSUME NEW u \in known[r], Scope(u) = Scope(r),
                     req[r].doc_ids = {} \/ u \in req[r].doc_ids
              PROVE  DocChunks(u) \subseteq sparse'[SparseOf(r)]
          BY <3>5, <4>2, <4>3, ListedChunks DEF ReadInv
        <4> QED
          BY <3>2, <3>3, <3>4, <4>3 DEF Reads, DocChunks, Scope
      <3>7. CASE DenseSearch(r)
        <4>1. sparse' = sparse /\ pc[r] = "search"
          BY <3>7 DEF DenseSearch, At
        <4>2. IsChat(r) => Reads(r)
          BY <4>1 DEF ReadInv, ReadYourUploads, Reads
        <4> QED
          BY <3>2, <3>3, <3>4, <4>1, <4>2 DEF Reads, DocChunks, Scope, IsChat
      <3> QED
        BY <3>1, <3>6, <3>7
    <2>4. ASSUME NEW p \in Procs, Crash(p)
          PROVE  loop'[Proc(r)'] = r /\ (IsChat(r)' => Reads(r)')
      <3>1. pc[r] = pc'[r] /\ Proc(r) # p /\ req' = req /\ known' = known
        BY <1>1, <1>2, <2>4 DEF Crash, TypeOK, Steps, observed
      <3>2. Proc(r) \in Procs /\ SparseOf(r) \in Procs \X Scopes
        BY <1>1, <1>2, <3>1, Started
      <3>3. loop'[Proc(r)] = loop[Proc(r)] /\ sparse'[SparseOf(r)] = sparse[SparseOf(r)]
        BY <1>1, <2>4, <3>1, <3>2 DEF Crash, TypeOK, SparseOf
      <3>4. loop[Proc(r)] = r /\ (IsChat(r) => Reads(r))
        BY <1>2, <3>1 DEF ReadInv, LoopHeld, ReadYourUploads, Reads
      <3> QED
        BY <3>1, <3>3, <3>4 DEF Proc, Reads, IsChat, Scope, SparseOf, DocChunks
    <2> QED
      BY <2>1, <2>2, <2>3, <2>4 DEF Next
  <1>3. LoopHeld({"search", "fuse"})' /\ ReadYourUploads'
    BY <1>2 DEF LoopHeld, ReadYourUploads, Reads
  <1> QED
    BY <1>1, <1>3 DEF ReadInv

(* A question sees every document whose upload was acknowledged before it  *)
(* was asked, as long as neither the embedding of the query nor the vector *)
(* search gives the event loop away: the stack as it is shipped, where     *)
(* both are awaits of coroutines that never suspend.                       *)
THEOREM ReadYourUploadsHolds ==
    ASSUME Suspends \cap {"embed", "search"} = {}
    PROVE  Spec => []ReadYourUploads
  <1>1. ReadInv /\ [Next]_vars => ReadInv'
    BY ReadStep
  <1>2. ReadInv => ReadYourUploads
    BY DEF ReadInv
  <1> QED
    BY <1>1, <1>2, ReadInit, PTL DEF Spec
-----------------------------------------------------------------------------
(* Where the provider's chunks come from.                                  *)

(* The deployment of the shipped stack: a store of its own in the memory   *)
(* of every process, and saves that do not raise.                          *)
MemoryStores ==
    /\ \A p, q \in Procs : StoreOf[p] = StoreOf[q] => p = q
    /\ "crash" \in Faults => \A p \in Procs : StoreOf[p] \notin Durable

SavesSucceed == "upsert" \notin Suspends /\ Faults \cap {"reindex", "save"} = {}

(* A chunk that a process may find in its store or its index is in the     *)
(* library, or of the upload that holds its loop and is about to save it.  *)
Saving(r, p) == pc[r] \in {"reindex", "save"} /\ Proc(r) = p

Accounted(c, p) == c \in library \/ \E r \in Requests : Saving(r, p) /\ c \in DocChunks(r)

Indexed(p) ==
    /\ \A n \in Collections : \A c \in vectors[<<StoreOf[p], n>>] : Accounted(c, p)
    /\ \A s \in Scopes : \A c \in sparse[<<p, s>>] : Accounted(c, p)

Found(r) == dense[r] \subseteq library /\ retrieved[r] \subseteq library /\ sent[r] \subseteq library

LibraryInv ==
    /\ IInv
    /\ LoopHeld({"reindex", "save"})
    /\ \A p \in Procs : Indexed(p)
    /\ \A r \in Requests : Found(r)

LEMMA LibraryInit == Init => LibraryInv
  <1> SUFFICES ASSUME Init PROVE LibraryInv
    OBVIOUS
  <1>1. \A p \in Procs : Indexed(p)
    BY ServiceAssumption DEF Init, Indexed
  <1> QED
    BY <1>1, InitInv DEF Init, LibraryInv, LoopHeld, Found

(* While a process runs another request, no upload of it is half saved, so *)
(* its store and its index hold chunks of the library.                     *)
LEMMA NothingHalfSaved ==
    ASSUME LibraryInv, NEW r \in Requests, pc[r] \in {"search", "fuse"},
           loop[Proc(r)] \in {Free, r}
    PROVE  vectors[VectorsOf(r)] \subseteq library /\ sparse[SparseOf(r)] \subseteq library
  <1>1. /\ Proc(r) \in Procs /\ Scope(r) \in Scopes
        /\ CollectionOf[Scope(r)] \in Collections
    BY Started, ServiceAssumption DEF LibraryInv, IInv
  <1>2. \A x \in Requests : ~Saving(x, Proc(r))
    BY ServiceAssumption DEF LibraryInv, LoopHeld, Saving
  <1> QED
    BY <1>1, <1>2 DEF LibraryInv, Indexed, Accounted, VectorsOf, SparseOf

(* What a search finds, it finds in the library.                           *)
LEMMA FoundStep ==
    ASSUME LibraryInv, [Next]_vars, NEW r \in Requests
    PROVE  Found(r)'
  <1>1. TypeOK /\ Found(r) /\ library \subseteq library'
    <2>1. library \subseteq library'
      BY Others DEF Next, Grow, LibraryInv, IInv, Crash, vars, stores
    <2> QED
      BY <2>1 DEF LibraryInv, IInv
  <1>2. CASE DenseSearch(r)
    <2>1. PICK top \in TopOf(vectors[VectorsOf(r)], CandidateK) :
             dense' = [dense EXCEPT ![r] = FilterByDocIds(top, req[r].doc_ids)]
      BY <1>2 DEF DenseSearch
    <2>2. top \subseteq library
      BY <1>2, <2>1, TopOfType, NothingHalfSaved DEF DenseSearch, At
    <2>3. dense'[r] \subseteq library
      BY <1>1, <2>1, <2>2 DEF TypeOK, FilterByDocIds
    <2> QED
      BY <1>1, <1>2, <2>3 DEF Found, DenseSearch, observed, stores
  <1>3. CASE FuseAndRerank(r)
    <2>1. PICK bm25 \in TopOf(sparse[SparseOf(r)], CandidateK),
               graph \in SUBSET sparse[SparseOf(r)] :
             \E hits \in TopOf(Fused(r, bm25, graph), Min({RerankInputK, TopK})) :
                retrieved' = [retrieved EXCEPT ![r] = hits]
      BY <1>3 DEF FuseAndRerank
    <2>2. PICK hits \in TopOf(Fused(r, bm25, graph), Min({RerankInputK, TopK})) :
             retrieved' = [retrieved EXCEPT ![r] = hits]
      BY <2>1
    <2>3. sparse[SparseOf(r)] \subseteq library
      BY <1>3, NothingHalfSaved DEF FuseAndRerank, At
    <2>4. Fused(r, bm25, graph) \subseteq library
      BY <1>1, <2>1, <2>3, TopOfType DEF Fused, FilterByDocIds, Found
    <2>5. retrieved'[r] \subseteq library
      BY <1>1, <2>2, <2>4, TopOfType DEF TypeOK
    <2> QED
      BY <1>1, <1>3, <2>5 DEF Found, FuseAndRerank, observed, stores
  <1>4. CASE Generate(r)
    BY <1>1, <1>4 DEF Found, Generate, TypeOK, stores
  <1>5. CASE dense'[r] = dense[r] /\ retrieved'[r] = retrieved[r] /\ sent'[r] = sent[r]
    BY <1>1, <1>5 DEF Found
  <1>6. ASSUME NEW x \in Requests,
               Upload(x) \/ Chat(x) \/ Step(x) \/ Reply(x) \/ StepFails(x),
               ~(DenseSearch(r) \/ FuseAndRerank(r) \/ Generate(r))
        PROVE  dense'[r] = dense[r] /\ retrieved'[r] = retrieved[r] /\ sent'[r] = sent[r]
    <2>1. CASE x # r
      BY <1>1, <1>6, <2>1, Others DEF Same
    <2>2. CASE x = r
      BY <1>6, <2>2
         DEF Upload, Chat, Arrive, Step, Reply, StepFails, observed,
             StoreSourceFile, Upsert, IndexChunks, SaveDocument, RebuildAfterSave,
             ListAndRebuild, VerifyRetrieved, Finish, AuditAppend, ProviderFails
    <2> QED
      BY <2>1, <2>2
  <1> QED
    BY <1>2, <1>3, <1>4, <1>5, <1>6 DEF Next, Crash, vars, locals, observed
(* The steps that leave an upload half saved.                              *)
LEMMA EntersSaving ==
    ASSUME IInv, NEW r \in Requests,
           Upload(r) \/ Chat(r) \/ Step(r) \/ Reply(r) \/ StepFails(r),
           pc'[r] \in {"reindex", "save"}
    PROVE  Upsert(r) \/ IndexChunks(r)
  <1> USE DEF Goto, Await, Respond, AuditThen, Terminal
  <1>1. TypeOK /\ Ledger(r)
    BY DEF IInv, RInv
  <1>2. CASE Upload(r) \/ Chat(r)
    BY <1>1, <1>2 DEF Upload, Chat, Enter, TypeOK
  <1>3. CASE Reply(r) \/ StepFails(r) \/ ProviderFails(r)
    BY <1>1, <1>3 DEF Reply, StepFails, ProviderFails, TypeOK
  <1>4. CASE AuditAppend(r)
    <2>1. pc'[r] = cont[r] /\ pc[r] = "audit" /\ pending[r] # <<>>
      BY <1>1, <1>4 DEF AuditAppend, At, TypeOK
    <2>2. Stage(r) \in IngestSteps
      BY <2>1 DEF Stage, IngestSteps
    <2>3. trail[r] \o pending[r] = <<>>
      BY <1>1, <2>1, <2>2 DEF Ledger, Written
    <2>4. pending[r] = <<>>
      BY <1>1, <2>3 DEF TypeOK
    <2> QED
      BY <2>1, <2>4
  <1>5. CASE StoreSourceFile(r) \/ SaveDocument(r) \/ RebuildAfterSave(r)
             \/ Generate(r) \/ DenseSearch(r) \/ FuseAndRerank(r)
    BY <1>1, <1>5 DEF StoreSourceFile, SaveDocument, RebuildAfterSave, Generate, DenseSearch,
                      FuseAndRerank, TypeOK
  <1>6. CASE VerifyRetrieved(r) \/ Finish(r) \/ ListAndRebuild(r)
    BY <1>1, <1>6 DEF VerifyRetrieved, Finish, ListAndRebuild, TypeOK
  <1> QED
    BY <1>2, <1>3, <1>4, <1>5, <1>6 DEF Step

(* An upload that is half saved holds the loop of its process.             *)
LEMMA SavingHoldsStep ==
    ASSUME SavesSucceed, LibraryInv, [Next]_vars
    PROVE  LoopHeld({"reindex", "save"})'
  <1> SUFFICES ASSUME NEW r \in Requests, pc'[r] \in {"reindex", "save"}
               PROVE  loop'[Proc(r)'] = r
    BY DEF LoopHeld
  <1>1. TypeOK
    BY DEF LibraryInv, IInv
  <1>2. CASE UNCHANGED vars
    BY <1>2 DEF vars, memory, locals, LibraryInv, LoopHeld, Proc
  <1>3. ASSUME NEW x \in Requests \ {r},
               Upload(x) \/ Chat(x) \/ Step(x) \/ Reply(x) \/ StepFails(x)
        PROVE  loop'[Proc(r)'] = r
    <2>1. pc'[r] = pc[r] /\ req'[r] = req[r]
      BY <1>1, <1>3, Others DEF Same
    <2>2. loop[Proc(r)] = r
      BY <2>1 DEF LibraryInv, LoopHeld
    <2>3. loop'[Proc(r)] = r
      BY <1>1, <1>3, <2>1, <2>2, LoopKept
    <2> QED
      BY <2>1, <2>3 DEF Proc
  <1>4. CASE Upload(r) \/ Chat(r) \/ Step(r) \/ Reply(r) \/ StepFails(r)
    <2>1. Upsert(r) \/ IndexChunks(r)
      BY <1>4, EntersSaving DEF LibraryInv
    <2>2. loop' = [loop EXCEPT ![Proc(r)] = r] /\ req' = req /\ pc[r] # "idle"
      BY <2>1 DEF Upsert, IndexChunks, Await, Goto, At, SavesSucceed
    <2>3. Proc(r) \in Procs /\ Proc(r)' = Proc(r)
      BY <1>1, <2>2, Started DEF Proc
    <2> QED
      BY <1>1, <2>2, <2>3 DEF TypeOK
  <1>5. ASSUME NEW p \in Procs, Crash(p)
        PROVE  loop'[Proc(r)'] = r
    <2>1. pc'[r] = pc[r] /\ Proc(r) # p /\ req' = req
      BY <1>5 DEF Crash, Steps
    <2>2. Proc(r) \in Procs
      BY <1>1, <2>1, Started
    <2> QED
      BY <1>1, <1>5, <2>1, <2>2 DEF Crash, TypeOK, LibraryInv, LoopHeld, Proc
  <1> QED
    BY <1>2, <1>3, <1>4, <1>5 DEF Next

(* What was accounted for stays so: the half-saved upload keeps its step,  *)
(* indexes its chunks, or saves them.                                      *)
LEMMA AccountedKept ==
    ASSUME SavesSucceed, TypeOK, NEW r \in Requests,
           Upload(r) \/ Chat(r) \/ Step(r) \/ Reply(r) \/ StepFails(r),
           NEW p \in Procs, NEW c, Accounted(c, p)
    PROVE  Accounted(c, p)'
  <1>1. library \subseteq library' /\ \A x \in Requests \ {r} : Same(x)
    BY Others DEF Grow
  <1>2. CASE c \in library
    BY <1>1, <1>2 DEF Accounted
  <1>3. ASSUME NEW x \in Requests, Saving(x, p), c \in DocChunks(x)
        PROVE  Accounted(c, p)'
    <2>1. CASE x # r
      <3>1. pc'[x] = pc[x] /\ req'[x] = req[x]
        BY <1>1, <2>1 DEF Same
      <3> QED
        BY <1>3, <3>1 DEF Accounted, Saving, Proc, DocChunks, Scope
    <2>2. CASE x = r
      <3>1. IndexChunks(r) \/ SaveDocument(r)
        BY <1>3, <2>2
           DEF Saving, SavesSucceed, Upload, Chat, Arrive, Step, Reply, StepFails, At,
               StoreSourceFile, Upsert, RebuildAfterSave, ListAndRebuild, DenseSearch,
               FuseAndRerank, VerifyRetrieved, Generate, Finish, AuditAppend, ProviderFails
      <3>2. CASE IndexChunks(r)
        <4>1. pc'[r] = "save" /\ req' = req
          BY <3>2 DEF IndexChunks, AuditThen, Goto, TypeOK
        <4> QED
          BY <1>3, <2>2, <4>1 DEF Accounted, Saving, Proc, DocChunks, Scope
      <3>3. CASE SaveDocument(r)
        BY <1>3, <2>2, <3>3 DEF SaveDocument, Accounted
      <3> QED
        BY <3>1, <3>2, <3>3
    <2> QED
      BY <2>1, <2>2
  <1> QED
    BY <1>2, <1>3 DEF Accounted

LEMMA IndexedStep ==
    ASSUME MemoryStores, SavesSucceed, LibraryInv, [Next]_vars, NEW p \in Procs
    PROVE  Indexed(p)'
  <1>1. TypeOK /\ Indexed(p) /\ StoreOf[p] \in Stores
    BY ServiceAssumption DEF LibraryInv, IInv
  <1>2. CASE UNCHANGED vars
    BY <1>1, <1>2 DEF vars, stores, memory, locals, Indexed, Accounted, Saving, Proc, DocChunks, Scope
  <1>3. ASSUME NEW r \in Requests,
               Upload(r) \/ Chat(r) \/ Step(r) \/ Reply(r) \/ StepFails(r)
        PROVE  Indexed(p)'
    <2>1. ASSUME NEW n \in Collections, NEW c \in vectors'[<<StoreOf[p], n>>]
          PROVE  Accounted(c, p)'
      <3>1. CASE c \in vectors[<<StoreOf[p], n>>]
        BY <1>1, <1>3, <3>1, AccountedKept DEF Indexed
      <3>2. CASE c \notin vectors[<<StoreOf[p], n>>]
        <4>1. Upsert(r)
          BY <2>1, <1>3, <3>2
             DEF Upload, Chat, Arrive, Step, Reply, StepFails, stores,
                 StoreSourceFile, IndexChunks, SaveDocument, RebuildAfterSave, ListAndRebuild,
                 DenseSearch, FuseAndRerank, VerifyRetrieved, Generate, Finish, AuditAppend,
                 ProviderFails
        <4>2. Proc(r) \in Procs /\ VectorsOf(r) \in Stores \X Collections
          BY <1>1, <4>1, Started DEF Upsert, At
        <4>3. VectorsOf(r) = <<StoreOf[p], n>> /\ c \in DocChunks(r)
          BY <1>1, <2>1, <3>2, <4>1, <4>2 DEF Upsert, TypeOK
        <4>4. Proc(r) = p
          BY <4>2, <4>3 DEF VectorsOf, MemoryStores
        <4>5. pc'[r] = "reindex" /\ req' = req
          BY <1>1, <4>1 DEF Upsert, Await, TypeOK
        <4> QED
          BY <4>3, <4>4, <4>5 DEF Accounted, Saving, Proc, DocChunks, Scope
      <3> QED
        BY <3>1, <3>2
    <2>2. ASSUME NEW s \in Scopes, NEW c \in sparse'[<<p, s>>]
          PROVE  Accounted(c, p)'
      <3>1. CASE c \in sparse[<<p, s>>]
        BY <1>1, <1>3, <3>1, AccountedKept DEF Indexed
      <3>2. CASE c \notin sparse[<<p, s>>]
        <4>1. IndexChunks(r) \/ RebuildAfterSave(r) \/ ListAndRebuild(r)
          BY <2>2, <1>3, <3>2
             DEF Upload, Chat, Arrive, Step, Reply, StepFails,
                 StoreSourceFile, Upsert, SaveDocument, DenseSearch, FuseAndRerank,
                 VerifyRetrieved, Generate, Finish, AuditAppend, ProviderFails
        <4>2. Proc(r) \in Procs /\ SparseOf(r) \in Procs \X Scopes
          BY <1>1, <4>1, Started DEF IndexChunks, RebuildAfterSave, ListAndRebuild, At
        <4>3. CASE IndexChunks(r)
          <5>1. SparseOf(r) = <<p, s>> /\ c \in DocChunks(r)
            BY <1>1, <2>2, <3>2, <4>2, <4>3 DEF IndexChunks, TypeOK
          <5>2. pc'[r] = "save" /\ req' = req /\ Proc(r) = p
            BY <1>1, <4>3, <5>1 DEF IndexChunks, AuditThen, Goto, TypeOK, SparseOf
          <5> QED
            BY <5>1, <5>2 DEF Accounted, Saving, Proc, DocChunks, Scope
        <4>4. CASE RebuildAfterSave(r) \/ ListAndRebuild(r)
          <5>1. c \in library /\ library' = library
            BY <1>1, <2>2, <3>2, <4>2, <4>4
               DEF RebuildAfterSave, ListAndRebuild, TypeOK, FilterByDocIds, ListChunks, stores
          <5> QED
            BY <5>1 DEF Accounted
        <4> QED
          BY <4>1, <4>3, <4>4
      <3> QED
        BY <3>1, <3>2
    <2> QED
      BY <2>1, <2>2 DEF Indexed
  <1>4. ASSUME NEW q \in Procs, Crash(q)
        PROVE  Indexed(p)'
    <2>1. CASE q = p
      BY <1>1, <1>4, <2>1 DEF Crash, Indexed, MemoryStores
    <2>2. CASE q # p
      <3>1. /\ \A n \in Collections : vectors'[<<StoreOf[p], n>>] = vectors[<<StoreOf[p], n>>]
            /\ \A s \in Scopes : sparse'[<<p, s>>] = sparse[<<p, s>>]
        BY <1>1, <1>4, <2>2 DEF Crash, MemoryStores, TypeOK
      <3>2. ASSUME NEW c, Accounted(c, p)
            PROVE  Accounted(c, p)'
        <4>1. \A r \in Requests : Saving(r, p) => Saving(r, p)' /\ DocChunks(r)' = DocChunks(r)
          BY <1>1, <1>4, <2>2 DEF Crash, TypeOK, Saving, Proc, DocChunks, Scope
        <4> QED
          BY <1>4, <3>2, <4>1 DEF Accounted, Crash
      <3> QED
        BY <1>1, <3>1, <3>2 DEF Indexed
    <2> QED
      BY <2>1, <2>2
  <1> QED
    BY <1>2, <1>3, <1>4 DEF Next

LEMMA LibraryStep ==
    ASSUME MemoryStores, SavesSucceed, LibraryInv, [Next]_vars
    PROVE  LibraryInv'
  <1>1. IInv'
    BY StepInv DEF LibraryInv
  <1> QED
    BY <1>1, SavingHoldsStep, IndexedStep, FoundStep DEF LibraryInv

(* The provider is only sent chunks of documents that are in the library,  *)
(* where every process keeps its vectors in its own memory, the upsert     *)
(* does not give the event loop away and a save does not raise.  Qdrant, a *)
(* durable store, loses the premise: a process that dies between upsert    *)
(* and save leaves its vectors to the next.                                *)
THEOREM SentFromLibraryHolds ==
    ASSUME MemoryStores, SavesSucceed
    PROVE  Spec => []SentFromLibrary
  <1>1. LibraryInv /\ [Next]_vars => LibraryInv'
    BY LibraryStep
  <1>2. LibraryInv => SentFromLibrary
    BY DEF LibraryInv, Found, SentFromLibrary
  <1> QED
    BY <1>1, <1>2, LibraryInit, PTL DEF Spec
(* Under the same conditions whatever an answer cites can be opened.       *)
THEOREM CitationsOpenHolds ==
    ASSUME MemoryStores, SavesSucceed
    PROVE  Spec => []CitationsOpen
  <1>1. LibraryInv /\ [Next]_vars => LibraryInv'
    BY LibraryStep
  <1>2. LibraryInv => CitationsOpen
    <2> SUFFICES ASSUME LibraryInv, NEW r \in Requests, pc[r] = "answered"
                 PROVE  answer[r] \subseteq library
      BY DEF CitationsOpen
    <2>1. Stage(r) = "answered"
      BY DEF Stage
    <2> QED
      BY <2>1 DEF LibraryInv, Found, IInv, RInv, Disclosed
  <1> QED
    BY <1>1, <1>2, LibraryInit, PTL DEF Spec

-----------------------------------------------------------------------------
(* Where the names of the collections tell the scopes apart.               *)

NamesTellApart == \A s, t \in Scopes : CollectionOf[s] = CollectionOf[t] => s = t

(* A chunk is in the collection of its own scope.                          *)
Filed(k) == \A c \in vectors[k] : CollectionOf[ScopeOf(c)] = k[2]

InScope(r) ==
    /\ pc[r] = "idle" => dense[r] = {}
    /\ \A c \in dense[r] : ScopeOf(c) = Scope(r)

ScopedInv ==
    /\ IInv
    /\ \A k \in Stores \X Collections : Filed(k)
    /\ \A r \in Requests : InScope(r)

LEMMA FiledStep ==
    ASSUME ScopedInv, [Next]_vars, NEW k \in Stores \X Collections
    PROVE  Filed(k)'
  <1>1. TypeOK /\ Filed(k)
    BY DEF ScopedInv, IInv
  <1>2. CASE vectors'[k] \subseteq vectors[k]
    BY <1>1, <1>2 DEF Filed
  <1>3. ASSUME NEW r \in Requests, Upsert(r)
        PROVE  Filed(k)'
    <2>1. /\ Scope(r) \in Scopes /\ VectorsOf(r) \in Stores \X Collections
          /\ vectors' = [vectors EXCEPT ![VectorsOf(r)] = @ \cup DocChunks(r)]
      BY <1>1, <1>3, Started DEF Upsert, At
    <2>2. \A c \in DocChunks(r) : ScopeOf(c) = Scope(r)
      BY <2>1 DEF DocChunks, ChunkPages, ScopeOf, Scopes
    <2>3. VectorsOf(r)[2] = CollectionOf[Scope(r)]
      BY DEF VectorsOf
    <2>4. vectors'[k] = IF k = VectorsOf(r) THEN vectors[k] \cup DocChunks(r) ELSE vectors[k]
      BY <1>1, <2>1 DEF TypeOK
    <2> QED
      BY <1>1, <2>2, <2>3, <2>4 DEF Filed
  <1>4. ASSUME NEW r \in Requests,
               Upload(r) \/ Chat(r) \/ Step(r) \/ Reply(r) \/ StepFails(r), ~Upsert(r)
        PROVE  vectors' = vectors
    BY <1>4
       DEF Upload, Chat, Arrive, Step, Reply, StepFails, stores,
           StoreSourceFile, IndexChunks, SaveDocument, RebuildAfterSave, ListAndRebuild,
           DenseSearch, FuseAndRerank, VerifyRetrieved, Generate, Finish, AuditAppend,
           ProviderFails
  <1>5. ASSUME NEW p \in Procs, Crash(p)
        PROVE  vectors'[k] \subseteq vectors[k]
    BY <1>5 DEF Crash
  <1>6. CASE UNCHANGED vars
    BY <1>2, <1>6 DEF vars, stores
  <1> QED
    BY <1>2, <1>3, <1>4, <1>5, <1>6 DEF Next

LEMMA InScopeStep ==
    ASSUME NamesTellApart, ScopedInv, [Next]_vars, NEW r \in Requests
    PROVE  InScope(r)'
  <1>1. TypeOK /\ InScope(r) /\ Ledger(r)
    BY DEF ScopedInv, IInv, RInv
  <1>2. CASE UNCHANGED vars
    BY <1>1, <1>2 DEF vars, locals, InScope, Scope
  <1>3. ASSUME NEW x \in Requests \ {r},
               Upload(x) \/ Chat(x) \/ Step(x) \/ Reply(x) \/ StepFails(x)
        PROVE  InScope(r)'
    BY <1>1, <1>3, Others DEF Same, InScope, Scope
  <1>4. CASE Upload(r) \/ Chat(r)
    <2>1. pc[r] = "idle" /\ dense' = dense
      BY <1>4 DEF Upload, Chat, Arrive
    <2> QED
      BY <1>1, <2>1 DEF InScope
  <1>5. CASE DenseSearch(r)
    <2>1. PICK top \in TopOf(vectors[VectorsOf(r)], CandidateK) :
             dense' = [dense EXCEPT ![r] = FilterByDocIds(top, req[r].doc_ids)]
      BY <1>5 DEF DenseSearch
    <2>2. /\ Scope(r) \in Scopes /\ VectorsOf(r) \in Stores \X Collections
          /\ VectorsOf(r)[2] = CollectionOf[Scope(r)]
      BY <1>1, <1>5, Started DEF DenseSearch, At, VectorsOf
    <2>3. ASSUME NEW c \in vectors[VectorsOf(r)]
          PROVE  ScopeOf(c) = Scope(r)
      <3>1. CollectionOf[ScopeOf(c)] = CollectionOf[Scope(r)]
        BY <2>2 DEF ScopedInv, Filed
      <3>2. ScopeOf(c) \in Scopes
        BY <1>1, <2>2 DEF TypeOK, Chunk, ScopeOf, Scopes
      <3> QED
        BY <2>2, <3>1, <3>2 DEF NamesTellApart
    <2>4. \A c \in dense'[r] : ScopeOf(c) = Scope(r)
      BY <1>1, <2>1, <2>3, TopOfType DEF TypeOK, FilterByDocIds
    <2>5. req' = req /\ pc'[r] = "fuse"
      BY <1>1, <1>5 DEF DenseSearch, Await, TypeOK
    <2> QED
      BY <2>4, <2>5 DEF InScope, Scope
  <1>6. CASE (Step(r) \/ Reply(r) \/ StepFails(r)) /\ ~DenseSearch(r)
    <2>1. dense' = dense /\ req' = req
      BY <1>6
         DEF Step, Reply, StepFails, StoreSourceFile, Upsert, IndexChunks, SaveDocument,
             RebuildAfterSave, ListAndRebuild, FuseAndRerank, VerifyRetrieved, Generate, Finish,
             AuditAppend, ProviderFails
    <2>2. CASE dense[r] = {}
      BY <2>1, <2>2 DEF InScope
    <2>3. CASE dense[r] # {}
      <3>1. pc[r] # "idle"
        BY <1>1, <2>3 DEF InScope
      <3>2. pc'[r] # "idle"
        <4>1. (\E s \in Steps \cup Terminal : pc' = [pc EXCEPT ![r] = s]) \/ AuditAppend(r)
          <5> USE DEF Goto, Await, Respond, AuditThen, Steps, Terminal
          <5>1. CASE StoreSourceFile(r) \/ Upsert(r) \/ IndexChunks(r) \/ SaveDocument(r)
                     \/ RebuildAfterSave(r) \/ Generate(r) \/ FuseAndRerank(r)
            BY <5>1 DEF StoreSourceFile, Upsert, IndexChunks, SaveDocument, RebuildAfterSave,
                        Generate, FuseAndRerank
          <5>2. CASE ListAndRebuild(r) \/ VerifyRetrieved(r) \/ Finish(r)
            BY <5>2 DEF ListAndRebuild, VerifyRetrieved, Finish
          <5>3. CASE Reply(r) \/ StepFails(r) \/ ProviderFails(r)
            BY <5>3 DEF Reply, StepFails, ProviderFails
          <5> QED
            BY <1>6, <5>1, <5>2, <5>3 DEF Step
        <4>2. ASSUME NEW s \in Steps \cup Terminal, pc' = [pc EXCEPT ![r] = s]
              PROVE  pc'[r] # "idle"
          BY <1>1, <4>2 DEF TypeOK, Steps, Terminal
        <4>3. CASE AuditAppend(r)
          <5>1. pc[r] = "audit" /\ pending[r] # <<>>
            BY <4>3 DEF AuditAppend, At
          <5>2. cont[r] # "idle"
            <6>1. cont[r] = "idle" => trail[r] \o pending[r] = <<>>
              BY <1>1, <5>1 DEF Ledger, Stage, Written
            <6>2. trail[r] \o pending[r] # <<>>
              BY <1>1, <5>1 DEF TypeOK
            <6> QED
              BY <6>1, <6>2
          <5> QED
            BY <1>1, <4>3, <5>2 DEF AuditAppend, Goto, Respond, TypeOK
        <4> QED
          BY <4>1, <4>2, <4>3
      <3> QED
        BY <1>1, <2>1, <3>2 DEF InScope, Scope
    <2> QED
      BY <2>2, <2>3
  <1>7. ASSUME NEW p \in Procs, Crash(p)
        PROVE  InScope(r)'
    BY <1>1, <1>7 DEF Crash, InScope, Scope, TypeOK
  <1> QED
    BY <1>2, <1>3, <1>4, <1>5, <1>6, <1>7 DEF Next

(* The vector search returns chunks of the caller's scope alone, unless    *)
(* the collection names of two scopes coincide: whichever awaits suspend,  *)
(* whichever steps raise, whoever shares the store.                        *)
THEOREM SearchScopedHolds ==
    ASSUME NamesTellApart
    PROVE  Spec => []SearchScoped
  <1>1. Init => ScopedInv
    <2> SUFFICES ASSUME Init PROVE ScopedInv
      OBVIOUS
    <2>1. IInv
      BY InitInv
    <2> QED
      BY <2>1 DEF Init, ScopedInv, Filed, InScope
  <1>2. ScopedInv /\ [Next]_vars => ScopedInv'
    BY StepInv, FiledStep, InScopeStep DEF ScopedInv
  <1>3. ScopedInv => SearchScoped
    BY DEF ScopedInv, InScope, SearchScoped
  <1> QED
    BY <1>1, <1>2, <1>3, PTL DEF Spec

-----------------------------------------------------------------------------
(* CiteOrDieService implements MatterWall: every initial state maps to an   *)
(* initial state of MatterWall, and every step to a step or a stutter.      *)

(* What the refinement needs on top of IInv: a request asks when it starts, *)
(* and no store, index or ranking holds a chunk that was not cut from a    *)
(* stored document.                                                        *)
Begun ==
    /\ \A r \in Requests : req[r] = NoRequest <=> pc[r] = "idle"
    /\ \A u \in files : pc[u] # "idle"

Grounded ==
    /\ library \subseteq Ingested
    /\ \A k \in Stores \X Collections : vectors[k] \subseteq Ingested
    /\ \A k \in Procs \X Scopes : sparse[k] \subseteq Ingested
    /\ \A r \in Requests : dense[r] \subseteq Ingested /\ retrieved[r] \subseteq Ingested

RefInv == IInv /\ Begun /\ Grounded

-----------------------------------------------------------------------------
(* What is ingested changes only when a source file is stored.             *)
LEMMA IngestedKept ==
    ASSUME Begun, files' = files,
           \A u \in Requests : pc[u] # "idle" => req'[u] = req[u],
           files \subseteq Requests
    PROVE  Ingested' = Ingested
  <1>1. \A u \in files : DocChunks(u)' = DocChunks(u)
    BY DEF Begun, DocChunks, Scope
  <1> QED
    BY <1>1 DEF Ingested

LEMMA IngestedGrows ==
    ASSUME TypeOK, Begun, NEW r \in Requests, StoreSourceFile(r)
    PROVE  Ingested' = Ingested \cup DocChunks(r)
  <1>1. \A u \in Requests : DocChunks(u)' = DocChunks(u)
    BY DEF StoreSourceFile, DocChunks, Scope
  <1>2. files \subseteq Requests /\ files' = files \cup {r}
    BY DEF StoreSourceFile, TypeOK
  <1> QED
    BY <1>1, <1>2 DEF Ingested

(* A document past its source file is ingested.                            *)
LEMMA PastStore ==
    ASSUME IInv, NEW r \in Requests, pc[r] \in {"upsert", "reindex", "save", "relist"}
    PROVE  DocChunks(r) \subseteq Ingested
  <1>1. Stage(r) = pc[r]
    BY DEF Stage
  <1>2. r \in files
    BY <1>1 DEF IInv, RInv, Stored
  <1> QED
    BY <1>2 DEF Ingested

-----------------------------------------------------------------------------
(* Every step keeps Begun.                                                 *)

LEMMA OwedShows ==
    ASSUME NEW s \in Seq(Event), NEW t \in Seq(Event), t # <<>>
    PROVE  s \o t # <<>>
  <1>1. Len(s) \in Nat /\ Len(t) \in Nat \ {0}
    BY EmptySeq, LenProperties
  <1>2. Len(s \o t) # 0
    BY <1>1, ConcatProperties
  <1> QED
    BY <1>2

LEMMA NeverIdle ==
    ASSUME IInv, NEW r \in Requests, Step(r) \/ Reply(r) \/ StepFails(r)
    PROVE  pc'[r] # "idle"
  <1> USE DEF AuditThen, Goto, Await, Respond
  <1>0. TypeOK
    BY DEF IInv
  <1>1. CASE AuditAppend(r)
    <2>1. /\ pc[r] = "audit" /\ pending[r] # <<>>
          /\ trail[r] \in Seq(Event) /\ pending[r] \in Seq(Event)
      BY <1>0, <1>1 DEF AuditAppend, At, TypeOK
    <2>2. CASE cont[r] = "idle"
      <3>1. trail[r] \o pending[r] = <<>>
        BY <2>1, <2>2 DEF IInv, RInv, Ledger, Stage, Written
      <3> QED
        BY <2>1, <3>1, OwedShows
    <2>3. pc'[r] = "audit" \/ pc'[r] = cont[r]
      BY <1>0, <1>1 DEF AuditAppend, TypeOK
    <2> QED
      BY <2>2, <2>3
  <1>2. CASE StoreSourceFile(r) \/ Upsert(r) \/ IndexChunks(r) \/ SaveDocument(r)
             \/ RebuildAfterSave(r)
    BY <1>0, <1>2 DEF StoreSourceFile, Upsert, IndexChunks, SaveDocument, RebuildAfterSave, TypeOK
  <1>3. CASE ListAndRebuild(r) \/ DenseSearch(r) \/ FuseAndRerank(r) \/ VerifyRetrieved(r)
    BY <1>0, <1>3 DEF ListAndRebuild, DenseSearch, FuseAndRerank, VerifyRetrieved, TypeOK
  <1>4. CASE Generate(r) \/ Finish(r) \/ Reply(r) \/ ProviderFails(r) \/ StepFails(r)
    BY <1>0, <1>4 DEF Generate, Finish, Reply, ProviderFails, StepFails, TypeOK
  <1> QED
    BY <1>1, <1>2, <1>3, <1>4 DEF Step

LEMMA BegunStep ==
    ASSUME IInv, TypeOK', Begun, [Next]_vars
    PROVE  Begun'
  <1> USE DEF observed, locals, memory, stores
  <1>0. TypeOK
    BY DEF IInv
  <1>1. CASE UNCHANGED vars
    BY <1>1 DEF vars, Begun
  <1>2. ASSUME NEW r \in Requests, Upload(r) \/ Chat(r)
        PROVE  Begun'
    <2>1. PICK q \in Menu[r], s \in {"denied", "invalid", "store", "list", "audit"} :
             /\ pc[r] = "idle" /\ req' = [req EXCEPT ![r] = q] /\ files' = files
             /\ pc' = [pc EXCEPT ![r] = s]
      BY <1>2 DEF Upload, Chat, Arrive, Enter
    <2>2. q # NoRequest
      BY ServiceAssumption
    <2> QED
      BY <1>0, <2>1, <2>2 DEF Begun, TypeOK
  <1>3. ASSUME NEW r \in Requests, Step(r) \/ Reply(r) \/ StepFails(r)
        PROVE  Begun'
    <2>1. pc[r] # "idle" /\ req' = req
      BY <1>0, <1>3, FaultsAssumption
         DEF Step, StoreSourceFile, Upsert, IndexChunks, SaveDocument, RebuildAfterSave,
             ListAndRebuild, DenseSearch, FuseAndRerank, VerifyRetrieved, Generate, Finish,
             AuditAppend, ProviderFails, Reply, StepFails, At, Steps, TypeOK
    <2>2. files' = files \/ files' = files \cup {r}
      BY <1>3 DEF Step, StoreSourceFile, Upsert, IndexChunks, SaveDocument, RebuildAfterSave,
             ListAndRebuild, DenseSearch, FuseAndRerank, VerifyRetrieved, Generate, Finish,
             AuditAppend, ProviderFails, Reply, StepFails
    <2>3. \A x \in Requests \ {r} : pc'[x] = pc[x]
      BY <1>0, <1>3, Others DEF Same
    <2>4. req[r] # NoRequest
      BY <2>1 DEF Begun
    <2>5. pc'[r] # "idle"
      BY <1>3, <2>1, NeverIdle
    <2> QED
      BY <1>0, <2>1, <2>2, <2>3, <2>4, <2>5 DEF Begun, TypeOK
  <1>4. ASSUME NEW p \in Procs, Crash(p)
        PROVE  Begun'
    <2>1. req' = req /\ files' = files
          /\ \A x \in Requests : pc'[x] = "idle" <=> pc[x] = "idle"
      BY <1>4 DEF Crash, Steps
    <2> QED
      BY <1>0, <2>1 DEF Begun, TypeOK
  <1> QED
    BY <1>1, <1>2, <1>3, <1>4 DEF Next

-----------------------------------------------------------------------------
(* Every step keeps Grounded: no store or index is fed from anywhere but a *)
(* stored document.                                                        *)
LEMMA GroundedStep ==
    ASSUME IInv, Begun, Grounded, [Next]_vars
    PROVE  Grounded'
  <1> USE DEF observed, locals, memory, stores
  <1>0. TypeOK
    BY DEF IInv
  <1>1. CASE UNCHANGED vars
    <2>1. Ingested' = Ingested
      BY <1>0, <1>1, IngestedKept DEF vars, TypeOK
    <2> QED
      BY <1>1, <2>1 DEF vars, Grounded
  <1>2. ASSUME NEW r \in Requests, Upload(r) \/ Chat(r)
        PROVE  Grounded'
    <2>1. /\ pc[r] = "idle" /\ \E q : req' = [req EXCEPT ![r] = q]
          /\ UNCHANGED <<files, library, vectors, sparse, dense, retrieved>>
      BY <1>2 DEF Upload, Chat, Arrive
    <2>2. Ingested' = Ingested
      BY <1>0, <2>1, IngestedKept DEF TypeOK
    <2> QED
      BY <2>1, <2>2 DEF Grounded
  <1>3. ASSUME NEW r \in Requests, StoreSourceFile(r)
        PROVE  Grounded'
    <2>1. Ingested \subseteq Ingested'
      BY <1>0, <1>3, IngestedGrows
    <2> QED
      BY <1>3, <2>1 DEF Grounded, StoreSourceFile
  <1>4. ASSUME NEW r \in Requests,
               Upsert(r) \/ IndexChunks(r) \/ SaveDocument(r) \/ RebuildAfterSave(r)
        PROVE  Grounded'
    <2>1. Ingested' = Ingested
      BY <1>0, <1>4, IngestedKept DEF Upsert, IndexChunks, SaveDocument, RebuildAfterSave, TypeOK
    <2>2. DocChunks(r) \subseteq Ingested /\ pc[r] # "idle"
      BY <1>4, PastStore DEF Upsert, IndexChunks, SaveDocument, RebuildAfterSave, At
    <2>3. VectorsOf(r) \in Stores \X Collections /\ SparseOf(r) \in Procs \X Scopes
      BY <1>0, <2>2, Started
    <2>4. CASE Upsert(r)
      BY <1>0, <2>1, <2>2, <2>3, <2>4 DEF Grounded, Upsert, TypeOK
    <2>5. CASE IndexChunks(r)
      BY <1>0, <2>1, <2>2, <2>3, <2>5 DEF Grounded, IndexChunks, TypeOK
    <2>6. CASE SaveDocument(r)
      BY <2>1, <2>2, <2>6 DEF Grounded, SaveDocument
    <2>7. CASE RebuildAfterSave(r)
      BY <1>0, <2>1, <2>3, <2>7 DEF Grounded, RebuildAfterSave, ListChunks, TypeOK
    <2> QED
      BY <1>4, <2>4, <2>5, <2>6, <2>7
  <1>5. ASSUME NEW r \in Requests, ListAndRebuild(r) \/ DenseSearch(r) \/ FuseAndRerank(r)
        PROVE  Grounded'
    <2>1. Ingested' = Ingested
      BY <1>0, <1>5, IngestedKept DEF ListAndRebuild, DenseSearch, FuseAndRerank, TypeOK
    <2>2. VectorsOf(r) \in Stores \X Collections /\ SparseOf(r) \in Procs \X Scopes
      BY <1>0, <1>5, Started DEF ListAndRebuild, DenseSearch, FuseAndRerank, At
    <2>3. CASE ListAndRebuild(r)
      BY <1>0, <2>1, <2>2, <2>3 DEF Grounded, ListAndRebuild, ListChunks, FilterByDocIds, TypeOK
    <2>4. CASE DenseSearch(r)
      <3>1. PICK top \in TopOf(vectors[VectorsOf(r)], CandidateK) :
               dense' = [dense EXCEPT ![r] = FilterByDocIds(top, req[r].doc_ids)]
        BY <2>4 DEF DenseSearch
      <3>2. top \subseteq Ingested
        BY <2>2, TopOfType DEF Grounded
      <3> QED
        BY <1>0, <2>1, <2>4, <3>1, <3>2 DEF Grounded, DenseSearch, FilterByDocIds, TypeOK
    <2>5. CASE FuseAndRerank(r)
      <3>1. PICK bm25 \in TopOf(sparse[SparseOf(r)], CandidateK),
                 graph \in SUBSET sparse[SparseOf(r)] :
               \E hits \in TopOf(Fused(r, bm25, graph), Min({RerankInputK, TopK})) :
                  retrieved' = [retrieved EXCEPT ![r] = hits]
        BY <2>5 DEF FuseAndRerank
      <3>2. PICK hits \in TopOf(Fused(r, bm25, graph), Min({RerankInputK, TopK})) :
               retrieved' = [retrieved EXCEPT ![r] = hits]
        BY <3>1
      <3>3. bm25 \subseteq Ingested /\ graph \subseteq Ingested
        BY <2>2, TopOfType DEF Grounded
      <3>4. hits \subseteq Ingested
        BY <3>3, TopOfType DEF Grounded, Fused, FilterByDocIds
      <3> QED
        BY <1>0, <2>1, <2>5, <3>2, <3>4 DEF Grounded, FuseAndRerank, TypeOK
    <2> QED
      BY <1>5, <2>3, <2>4, <2>5
  <1>6. ASSUME NEW r \in Requests,
               VerifyRetrieved(r) \/ Generate(r) \/ Reply(r) \/ Finish(r) \/ AuditAppend(r)
                  \/ ProviderFails(r) \/ StepFails(r)
        PROVE  Grounded'
    <2>1. UNCHANGED <<files, library, vectors, sparse, req, dense, retrieved>>
      BY <1>6 DEF VerifyRetrieved, Generate, Reply, Finish, AuditAppend, ProviderFails, StepFails
    <2>2. Ingested' = Ingested
      BY <1>0, <2>1, IngestedKept DEF TypeOK
    <2> QED
      BY <2>1, <2>2 DEF Grounded
  <1>7. ASSUME NEW p \in Procs, Crash(p)
        PROVE  Grounded'
    <2>1. Ingested' = Ingested
      BY <1>0, <1>7, IngestedKept DEF Crash, TypeOK
    <2> QED
      BY <1>7, <2>1 DEF Grounded, Crash
  <1> QED
    BY <1>1, <1>2, <1>3, <1>4, <1>5, <1>6, <1>7 DEF Next, Step

LEMMA RefInvInit == Init => RefInv
  <1> SUFFICES ASSUME Init PROVE RefInv
    OBVIOUS
  <1>1. IInv
    BY InitInv
  <1>2. Begun /\ Grounded
    BY DEF Init, Begun, Grounded, Ingested
  <1> QED
    BY <1>1, <1>2 DEF RefInv

LEMMA RefInvStep == RefInv /\ [Next]_vars => RefInv'
  <1> SUFFICES ASSUME RefInv, [Next]_vars PROVE RefInv'
    OBVIOUS
  <1>1. IInv'
    BY StepInv DEF RefInv
  <1>2. Begun' /\ Grounded'
    BY <1>1, BegunStep, GroundedStep DEF RefInv, IInv
  <1> QED
    BY <1>1, <1>2 DEF RefInv

-----------------------------------------------------------------------------
(* The refinement mapping, step by step.                                   *)

Asked == [r \in Requests |-> Questions(r)]

LEMMA AskedKept ==
    ASSUME req' = req
    PROVE  Asked' = Asked
  BY DEF Asked, Questions, TokenScope

LEMMA ReturnedKept ==
    ASSUME \A r \in Requests : pc'[r] = "answered" <=> pc[r] = "answered",
           \A r \in Requests : pc[r] = "answered" => answer'[r] = answer[r]
    PROVE  Returned' = Returned
  BY DEF Returned

(* A request that runs is not answered yet; only the last audit row of an  *)
(* answer makes it so.                                                     *)
LEMMA NotAnswered ==
    ASSUME TypeOK, NEW r \in Requests,
           \/ StoreSourceFile(r) \/ Upsert(r) \/ IndexChunks(r) \/ SaveDocument(r)
           \/ RebuildAfterSave(r) \/ ListAndRebuild(r) \/ DenseSearch(r) \/ FuseAndRerank(r)
           \/ VerifyRetrieved(r) \/ Generate(r) \/ Reply(r) \/ Finish(r)
           \/ ProviderFails(r) \/ StepFails(r)
    PROVE  Returned' = Returned /\ Asked' = Asked
  <1> USE DEF observed, locals, memory, stores, AuditThen, Goto, Await, Respond
  <1>1. pc[r] # "answered"
    BY FaultsAssumption
       DEF StoreSourceFile, Upsert, IndexChunks, SaveDocument, RebuildAfterSave, ListAndRebuild,
           DenseSearch, FuseAndRerank, VerifyRetrieved, Generate, Reply, Finish, ProviderFails,
           StepFails, At, Steps, TypeOK
  <1>2. pc'[r] # "answered"
    <2>1. CASE StoreSourceFile(r) \/ Upsert(r) \/ IndexChunks(r) \/ SaveDocument(r)
               \/ RebuildAfterSave(r)
      BY <2>1 DEF StoreSourceFile, Upsert, IndexChunks, SaveDocument, RebuildAfterSave, TypeOK
    <2>2. CASE ListAndRebuild(r) \/ DenseSearch(r) \/ FuseAndRerank(r) \/ VerifyRetrieved(r)
      BY <2>2 DEF ListAndRebuild, DenseSearch, FuseAndRerank, VerifyRetrieved, TypeOK
    <2>3. CASE Generate(r) \/ Finish(r) \/ Reply(r) \/ ProviderFails(r) \/ StepFails(r)
      BY <2>3 DEF Generate, Finish, Reply, ProviderFails, StepFails, TypeOK
    <2> QED
      BY <2>1, <2>2, <2>3
  <1>3. \A x \in Requests \ {r} : pc'[x] = pc[x] /\ answer'[x] = answer[x]
    BY Others DEF Step, Same
  <1>4. req' = req
    BY DEF StoreSourceFile, Upsert, IndexChunks, SaveDocument, RebuildAfterSave, ListAndRebuild,
           DenseSearch, FuseAndRerank, VerifyRetrieved, Generate, Reply, Finish, ProviderFails,
           StepFails
  <1>5. /\ \A x \in Requests : pc'[x] = "answered" <=> pc[x] = "answered"
        /\ \A x \in Requests : pc[x] = "answered" => answer'[x] = answer[x]
    BY <1>1, <1>2, <1>3
  <1> QED
    BY <1>4, <1>5, ReturnedKept, AskedKept

(* A request that arrives asks its question.                               *)
LEMMA ArrivalMaps ==
    ASSUME RefInv, NEW r \in Requests, Upload(r) \/ Chat(r)
    PROVE  Wall!Ask(r)
  <1>0. TypeOK
    BY DEF RefInv, IInv
  <1>1. PICK q \in Menu[r], s \in {"denied", "invalid", "store", "list", "audit"} :
           /\ pc[r] = "idle" /\ req' = [req EXCEPT ![r] = q]
           /\ pc' = [pc EXCEPT ![r] = s]
           /\ UNCHANGED <<files, answer, sent>>
    BY DEF Upload, Chat, Arrive, Enter, stores
  <1>2. q \in Request /\ q # NoRequest /\ req[r] = NoRequest /\ req'[r] = q
    <2>1. Menu[r] \subseteq Request /\ NoRequest \notin Request
      BY ServiceAssumption
    <2>2. req[r] = NoRequest /\ req'[r] = q
      BY <1>0, <1>1 DEF RefInv, Begun, TypeOK
    <2> QED
      BY <2>1, <2>2
  <1> DEFINE question == [scope |-> <<q.ctx.tenant_id, q.ctx.matter_id>>, doc_ids |-> q.doc_ids]
  <1>3. question \in Wall!Question
    BY <1>2 DEF Request, AuthContext, Wall!Question, Wall!Scopes
  <1>4. Questions(r) = {} /\ Questions(r)' = {question}
    BY <1>2 DEF Questions, TokenScope
  <1>5. \A x \in Requests \ {r} : Questions(x)' = Questions(x)
    BY <1>0, <1>1 DEF Questions, TokenScope, TypeOK
  <1>6. Asked' = [Asked EXCEPT ![r] = {question}] /\ Asked[r] = {}
    BY <1>4, <1>5 DEF Asked
  <1>7. Ingested' = Ingested
    BY <1>0, <1>1, IngestedKept DEF RefInv, TypeOK
  <1>8. Returned' = Returned
    BY <1>0, <1>1, ReturnedKept DEF TypeOK
  <1> QED
    BY <1>1, <1>3, <1>6, <1>7, <1>8 DEF Wall!Ask, Asked

(* A question put to the provider discloses its hits.                      *)
LEMMA GenerateMaps ==
    ASSUME RefInv, NEW r \in Requests, Generate(r)
    PROVE  Wall!Disclose(r) \/ UNCHANGED Wall!wallVars
  <1>0. TypeOK /\ RInv(r)
    BY DEF RefInv, IInv
  <1>1. /\ pc[r] = "generate" /\ sent' = [sent EXCEPT ![r] = retrieved[r]]
        /\ files' = files /\ req' = req
    BY DEF Generate, At, stores
  <1>2. Asked' = Asked /\ Returned' = Returned
    BY <1>0, NotAnswered
  <1>3. Ingested' = Ingested
    BY <1>0, <1>1, IngestedKept DEF RefInv, TypeOK
  <1>4. Stage(r) = "generate"
    BY <1>1 DEF Stage
  <1>5. sent[r] = {} /\ Clear(r, retrieved[r])
    BY <1>0, <1>4 DEF RInv, Hits, Disclosed, AnswerSteps
  <1> DEFINE question == [scope |-> TokenScope(r), doc_ids |-> req[r].doc_ids]
  <1>6. question \in Asked[r]
    BY <1>1 DEF Asked, Questions, RefInv, Begun
  <1>7. retrieved[r] \subseteq Wall!Visible(question)
    BY <1>5 DEF Clear, Selected, RefInv, Grounded, ScopeOf, Wall!Visible, Wall!FilterByDocIds,
                Wall!ScopeOf
  <1> QED
    BY <1>1, <1>2, <1>3, <1>5, <1>6, <1>7 DEF Wall!Disclose, Asked

(* The last audit row of an answer returns its citations.                  *)
LEMMA AuditMaps ==
    ASSUME RefInv, NEW r \in Requests, AuditAppend(r)
    PROVE  Wall!Return(r) \/ UNCHANGED Wall!wallVars
  <1>0. TypeOK /\ RInv(r)
    BY DEF RefInv, IInv
  <1>1. /\ pc[r] = "audit" /\ pc'[r] \in {"audit", cont[r]}
        /\ \A x \in Requests \ {r} : pc'[x] = pc[x]
        /\ UNCHANGED <<files, req, answer, sent>>
    BY <1>0 DEF AuditAppend, At, Goto, Respond, observed, TypeOK
  <1>2. Asked' = Asked
    BY <1>1, AskedKept
  <1>3. Ingested' = Ingested
    BY <1>0, <1>1, IngestedKept DEF RefInv, TypeOK
  <1>4. CASE pc'[r] # "answered"
    <2>1. Returned' = Returned
      BY <1>1, <1>4, ReturnedKept
    <2> QED
      BY <1>1, <1>2, <1>3, <2>1 DEF Wall!wallVars, Asked
  <1>5. CASE pc'[r] = "answered"
    <2>1. Stage(r) = "answered"
      BY <1>1, <1>5 DEF Stage
    <2>2. answer[r] \subseteq sent[r]
      BY <1>0, <2>1 DEF RInv, Disclosed
    <2>3. Returned[r] = {} /\ Returned' = [Returned EXCEPT ![r] = answer[r]]
      BY <1>1, <1>5 DEF Returned
    <2> QED
      BY <1>1, <1>2, <1>3, <2>2, <2>3 DEF Wall!Return, Asked
  <1> QED
    BY <1>4, <1>5

(* The source file of an upload makes its chunks ingested.                 *)
LEMMA StoreMaps ==
    ASSUME RefInv, NEW r \in Requests, StoreSourceFile(r)
    PROVE  Wall!Ingest(r)
  <1>0. TypeOK
    BY DEF RefInv, IInv
  <1>1. pc[r] # "idle" /\ sent' = sent
    BY DEF StoreSourceFile, At, observed
  <1>2. Asked' = Asked /\ Returned' = Returned
    BY <1>0, NotAnswered
  <1>3. Scope(r) \in Wall!Scopes
    BY <1>0, <1>1, Started DEF Scopes, Wall!Scopes
  <1>4. Ingested' = Ingested \cup Wall!ChunkPages(r, Scope(r))
    BY <1>0, IngestedGrows DEF RefInv, DocChunks, ChunkPages, Wall!ChunkPages
  <1> QED
    BY <1>1, <1>2, <1>3, <1>4 DEF Wall!Ingest, Asked

LEMMA StepMaps == RefInv /\ [Next]_vars => [Wall!WallNext]_(Wall!wallVars)
  <1> SUFFICES ASSUME RefInv, [Next]_vars
               PROVE  Wall!WallNext \/ UNCHANGED Wall!wallVars
    OBVIOUS
  <1>0. TypeOK
    BY DEF RefInv, IInv
  <1>1. CASE UNCHANGED vars
    <2>1. Ingested' = Ingested
      BY <1>0, <1>1, IngestedKept DEF vars, locals, stores, RefInv, TypeOK
    <2>2. Asked' = Asked
      BY <1>1, AskedKept DEF vars, locals
    <2>3. Returned' = Returned /\ sent' = sent
      BY <1>1, ReturnedKept DEF vars, locals, observed
    <2> QED
      BY <2>1, <2>2, <2>3 DEF Wall!wallVars, Asked
  <1>2. ASSUME NEW r \in Requests,
               \/ Upload(r) \/ Chat(r) \/ StoreSourceFile(r) \/ Generate(r) \/ AuditAppend(r)
        PROVE  Wall!WallNext \/ UNCHANGED Wall!wallVars
    BY <1>2, ArrivalMaps, StoreMaps, GenerateMaps, AuditMaps DEF Wall!WallNext
  <1>3. ASSUME NEW r \in Requests,
               \/ Upsert(r) \/ IndexChunks(r) \/ SaveDocument(r) \/ RebuildAfterSave(r)
               \/ ListAndRebuild(r) \/ DenseSearch(r) \/ FuseAndRerank(r)
               \/ VerifyRetrieved(r) \/ Reply(r) \/ Finish(r) \/ ProviderFails(r) \/ StepFails(r)
        PROVE  UNCHANGED Wall!wallVars
    <2>1. UNCHANGED <<files, req, sent>>
      BY <1>3
         DEF Upsert, IndexChunks, SaveDocument, RebuildAfterSave, ListAndRebuild, DenseSearch,
             FuseAndRerank, VerifyRetrieved, Reply, Finish, ProviderFails, StepFails, stores,
             observed
    <2>2. Ingested' = Ingested
      BY <1>0, <2>1, IngestedKept DEF RefInv, TypeOK
    <2>3. Asked' = Asked /\ Returned' = Returned
      BY <1>0, <1>3, NotAnswered
    <2> QED
      BY <2>1, <2>2, <2>3 DEF Wall!wallVars, Asked
  <1>4. ASSUME NEW p \in Procs, Crash(p)
        PROVE  UNCHANGED Wall!wallVars
    <2>1. UNCHANGED <<files, req, sent, answer>>
      BY <1>4 DEF Crash, observed
    <2>2. \A x \in Requests : pc'[x] = "answered" <=> pc[x] = "answered"
      BY <1>4 DEF Crash, Steps
    <2>3. Ingested' = Ingested
      BY <1>0, <2>1, IngestedKept DEF RefInv, TypeOK
    <2>4. Asked' = Asked /\ Returned' = Returned
      BY <2>1, <2>2, AskedKept, ReturnedKept
    <2> QED
      BY <2>1, <2>3, <2>4 DEF Wall!wallVars, Asked
  <1> QED
    BY <1>1, <1>2, <1>3, <1>4 DEF Next, Step

LEMMA InitMaps == Init => Wall!WallInit
  BY DEF Init, Wall!WallInit, Questions, Ingested, Returned

(* The pipeline implements the confidentiality promise: a chat discloses   *)
(* only ingested chunks of the matter and the documents it asked about,    *)
(* once, and returns citations of nothing else.                            *)
THEOREM Implementation == Spec => ImplementsMatterWall
  <1>1. Spec => Wall!WallInit /\ [][Wall!WallNext]_(Wall!wallVars)
    BY InitMaps, StepMaps, RefInvInit, RefInvStep, PTL DEF Spec
  <1> QED
    BY <1>1 DEF ImplementsMatterWall, Wall!WallSpec
=============================================================================
