-------------------------- MODULE CiteOrDieService --------------------------
(***************************************************************************)
(* The upload and chat pipelines of service.py over the stores they share. *)
(*                                                                         *)
(* A process is one Python process on one data directory: the server, and  *)
(* every CLI invocation beside it.  Each runs one asyncio event loop, so a *)
(* request runs alone in its process from one suspension to the next; only *)
(* the stores on disk (files, SQLite, and Qdrant where it is configured)   *)
(* are touched by several processes.  An action is the code between two    *)
(* operations on such a store, or between two awaits.                      *)
(***************************************************************************)
EXTENDS Walls, Sequences, FiniteSets, FiniteSetsExt

CONSTANTS
    Procs,          \* processes
    Menu,           \* Menu[r]: what request r may turn out to ask
    Stores,         \* vector stores
    StoreOf,        \* StoreOf[p]: the store p uses, its own when it is in memory
    Durable,        \* the stores that survive a crash of a process (Qdrant)
    Collections,    \* collection names
    CollectionOf,   \* safe_collection_name(scope_id(..)); not assumed injective
    Suspends,       \* the awaits that really give the event loop away
    Faults,         \* the steps that may raise, and "crash"
    Poisoned,       \* the chunks the retrieved-content guard rejects
    CandidateK,     \* settings.retrieval_candidate_k
    RerankInputK,   \* settings.rerank_input_k
    TopK,           \* request.top_k, or settings.retrieval_top_k
    Unset,          \* a tenant_id or matter_id the request leaves out
    NoRequest,      \* what r asks before it arrives
    Free            \* an event loop that runs no request

(* The body of a request with the identity its token or the CLI gives it.  *)
Request ==
    [kind: {"upload", "chat"}, proc: Procs, ctx: AuthContext,
     tenant_id: Tenants \cup {Unset}, matter_id: Matters \cup {Unset},
     doc_ids: SUBSET Requests, confusable: BOOLEAN, injects: BOOLEAN]

ASSUME ServiceAssumption ==
    /\ Menu \in [Requests -> SUBSET Request]
    /\ StoreOf \in [Procs -> Stores]
    /\ CollectionOf \in [Scopes -> Collections]
    /\ Poisoned \subseteq ChunkId
    /\ {CandidateK, RerankInputK, TopK} \subseteq Nat \ {0}
    /\ Unset \notin Tenants \cup Matters
    /\ NoRequest \notin Request
    /\ Free \notin Requests

(* An audit row, without its hashes (AuditLog): chunk_ids is the payload of *)
(* a retrieve row and empty otherwise.                                      *)
Event ==
    [event_type: {"upload", "retrieve", "generate", "guardrail", "chat"},
     status: {"ok", "accepted", "repaired", "rejected"},
     chunk_ids: SUBSET ChunkId]

VARIABLES
    \* the persistent stores
    files,      \* uploads whose source file is on disk
    library,    \* the chunks table of the repository
    vectors,    \* vectors[<<store, collection>>]: the chunks of a collection
    trail,      \* trail[r]: the audit rows r has committed, in their order
    \* the memory of the processes
    loop,       \* loop[p]: the request that holds p's event loop, or Free
    sparse,     \* sparse[<<p, scope>>]: the chunks of p's BM25 and graph index
    \* the locals of the running requests
    req,        \* req[r]: what r asks
    pc,         \* pc[r]: the next step of r
    dense,      \* dense[r]: what the vector search returned, filtered
    retrieved,  \* retrieved[r]: the reranked hits
    pending,    \* pending[r]: the audit rows to append before ...
    cont,       \* ... cont[r], the step after them
    answer,     \* answer[r]: the chunks the verified answer cites
    \* observations
    sent,       \* sent[r]: the chunks handed to provider.generate
    known       \* known[r]: the uploads acknowledged before r arrived

stores   == <<files, library, vectors, trail>>
memory   == <<loop, sparse>>
locals   == <<req, pc, dense, retrieved, pending, cont, answer>>
observed == <<sent, known>>
vars     == <<stores, memory, locals, observed>>

Terminal == {"uploaded", "answered", "refused", "denied", "invalid", "breach",
             "leak", "failed", "lost"}
Steps    == {"store", "upsert", "reindex", "save", "relist", "audit", "list",
             "search", "fuse", "verify", "generate", "reply", "finish"}

ASSUME FaultsAssumption == Faults \subseteq Steps \cup {"crash"}

Init ==
    /\ files = {} /\ library = {}
    /\ vectors = [k \in Stores \X Collections |-> {}]
    /\ trail = [r \in Requests |-> <<>>]
    /\ loop = [p \in Procs |-> Free]
    /\ sparse = [k \in Procs \X Scopes |-> {}]
    /\ req = [r \in Requests |-> NoRequest]
    /\ pc = [r \in Requests |-> "idle"]
    /\ dense = [r \in Requests |-> {}]
    /\ retrieved = [r \in Requests |-> {}]
    /\ pending = [r \in Requests |-> <<>>]
    /\ cont = [r \in Requests |-> "idle"]
    /\ answer = [r \in Requests |-> {}]
    /\ sent = [r \in Requests |-> {}]
    /\ known = [r \in Requests |-> {}]

-----------------------------------------------------------------------------
(* "request.tenant_id or ctx.tenant_id", and the same for the matter.      *)
EffectiveScope(q) ==
    <<IF q.tenant_id = Unset THEN q.ctx.tenant_id ELSE q.tenant_id,
      IF q.matter_id = Unset THEN q.ctx.matter_id ELSE q.matter_id>>

Scope(r)       == EffectiveScope(req[r])
Proc(r)        == req[r].proc
SparseOf(r)    == <<Proc(r), Scope(r)>>
VectorsOf(r)   == <<StoreOf[Proc(r)], CollectionOf[Scope(r)]>>
DocChunks(r)   == ChunkPages(r, Scope(r))

(* Repository.list_chunks(tenant_id, matter_id).                           *)
ListChunks(scope) == {c \in library : ScopeOf(c) = scope}

(* The head of a ranking, whatever the scores are.                         *)
TopOf(C, k) == kSubset(Min({k, Cardinality(C)}), C)

Audit(type, status, ids) ==
    [event_type |-> type, status |-> status, chunk_ids |-> ids]
Guardrail(status) == Audit("guardrail", status, {})

(* normalize_user_text: the decision on the question before its scan.      *)
QuestionGuard(q) == Guardrail(IF q.confusable THEN "repaired" ELSE "accepted")

(* r may run: its step is s, and its event loop is free or already its own. *)
At(r, s) ==
    /\ pc[r] = s
    /\ loop[Proc(r)] \in {Free, r}

(* The step ends in front of step s without giving the event loop away.    *)
Goto(r, s) ==
    /\ pc' = [pc EXCEPT ![r] = s]
    /\ loop' = [loop EXCEPT ![Proc(r)] = r]

(* Mutant: every await of the pipeline really suspends.                    *)
Await_Mutant(r, point, s) ==
    /\ pc' = [pc EXCEPT ![r] = s]
    /\ loop' = [loop EXCEPT ![Proc(r)] = Free]

(* The step ends in "await point": the loop is free if the await suspends. *)
Await(r, point, s) ==
    /\ pc' = [pc EXCEPT ![r] = s]
    /\ loop' = [loop EXCEPT ![Proc(r)] = IF point \in Suspends THEN Free ELSE r]

(* The response leaves, and the loop turns to the other requests.          *)
Respond(r, status) ==
    /\ pc' = [pc EXCEPT ![r] = status]
    /\ loop' = [loop EXCEPT ![Proc(r)] = Free]

(* Audit rows to append, one commit each, before step or response s.       *)
AuditThen(r, rows, s) ==
    /\ pending' = [pending EXCEPT ![r] = rows]
    /\ cont' = [cont EXCEPT ![r] = s]
    /\ Goto(r, "audit")

NoAudit == UNCHANGED <<pending, cont>>

-----------------------------------------------------------------------------
(* A request reaches its process.                                          *)

Arrive(r, q) ==
    /\ pc[r] = "idle"
    /\ loop[q.proc] = Free
    /\ req' = [req EXCEPT ![r] = q]
    /\ known' = [known EXCEPT ![r] = {u \in Requests : pc[u] = "uploaded"}]
    /\ UNCHANGED <<stores, sparse, dense, retrieved, answer, sent>>

(* pc and loop as the first step of r leaves them.                         *)
Enter(r, q, s) ==
    /\ pc' = [pc EXCEPT ![r] = s]
    /\ loop' = [loop EXCEPT ![q.proc] = IF s \in Terminal THEN Free ELSE r]

(* CiteOrDieService.upload: the authorizer, then ingest up to the document *)
(* record.  A document that is too large or has no text is a 400.          *)
Upload(r) ==
    \E q \in Menu[r] :
        /\ q.kind = "upload"
        /\ Arrive(r, q)
        /\ NoAudit
        /\ \/ /\ ~Require(q.ctx, "upload", EffectiveScope(q))
              /\ Enter(r, q, "denied")
           \/ /\ Require(q.ctx, "upload", EffectiveScope(q))
              /\ Enter(r, q, "invalid")
           \/ /\ Require(q.ctx, "upload", EffectiveScope(q))
              /\ Enter(r, q, "store")

(* CiteOrDieService.chat: the session's matter, the authorizer, and the    *)
(* scan of the question, which ends the request when it rejects.           *)
Chat(r) ==
    \E q \in Menu[r] :
        LET allowed == /\ RequireMatterScope(q.ctx, EffectiveScope(q)[2])
                       /\ Require(q.ctx, "chat", EffectiveScope(q))
        IN
        /\ q.kind = "chat"
        /\ Arrive(r, q)
        /\ \/ /\ ~allowed
              /\ Enter(r, q, "denied")
              /\ NoAudit
           \/ /\ allowed /\ q.injects
              /\ Enter(r, q, "audit")
              /\ pending' = [pending EXCEPT ![r] =
                                <<QuestionGuard(q), Guardrail("rejected")>>]
              /\ cont' = [cont EXCEPT ![r] = "refused"]
           \/ /\ allowed /\ ~q.injects
              /\ Enter(r, q, "list")
              /\ NoAudit

-----------------------------------------------------------------------------
(* IngestPipeline.ingest, and the audit row of service.upload.             *)

(* _store_source_file, then "await embeddings.embed".                      *)
StoreSourceFile(r) ==
    /\ At(r, "store")
    /\ files' = files \cup {r}
    /\ Await(r, "embed", "upsert")
    /\ NoAudit
    /\ UNCHANGED <<library, vectors, trail, sparse, req, dense, retrieved, answer, observed>>

(* "await vector_store.upsert".                                            *)
Upsert(r) ==
    /\ At(r, "upsert")
    /\ vectors' = [vectors EXCEPT ![VectorsOf(r)] = @ \cup DocChunks(r)]
    /\ Await(r, "upsert", "reindex")
    /\ NoAudit
    /\ UNCHANGED <<files, library, trail, sparse, req, dense, retrieved, answer, observed>>

(* Mutant: the upload is audited before its document is saved.             *)
IndexChunks_Mutant(r) ==
    /\ At(r, "reindex")
    /\ sparse' = [sparse EXCEPT ![SparseOf(r)] = DocChunks(r)]
    /\ AuditThen(r, <<Audit("upload", "ok", {})>>, "save")
    /\ UNCHANGED <<stores, req, dense, retrieved, answer, observed>>

(* index_chunks rebuilds both sparse indexes from the new chunks alone.    *)
IndexChunks(r) ==
    /\ At(r, "reindex")
    /\ sparse' = [sparse EXCEPT ![SparseOf(r)] = DocChunks(r)]
    /\ Goto(r, "save")
    /\ NoAudit
    /\ UNCHANGED <<stores, req, dense, retrieved, answer, observed>>

(* repository.save_document: one transaction for the document, its chunks  *)
(* and its PII rows.                                                       *)
SaveDocument(r) ==
    /\ At(r, "save")
    /\ library' = library \cup DocChunks(r)
    /\ Goto(r, "relist")
    /\ NoAudit
    /\ UNCHANGED <<files, vectors, trail, sparse, req, dense, retrieved, answer, observed>>

(* rebuild_sparse with every chunk of the matter; then the upload row.     *)
RebuildAfterSave(r) ==
    /\ At(r, "relist")
    /\ sparse' = [sparse EXCEPT ![SparseOf(r)] = ListChunks(Scope(r))]
    /\ AuditThen(r, <<Audit("upload", "ok", {})>>, "uploaded")
    /\ UNCHANGED <<stores, req, dense, retrieved, answer, observed>>

-----------------------------------------------------------------------------
(* The body of CiteOrDieService.chat, and RetrievalService.retrieve.       *)

(* Mutant: the index is left as the last upload in this process made it.   *)
ListAndRebuild_Mutant(r) ==
    /\ At(r, "list")
    /\ Await(r, "embed", "search")
    /\ NoAudit
    /\ UNCHANGED <<stores, sparse, req, dense, retrieved, answer, observed>>

(* list_chunks, the selection, and rebuild_sparse for this question; then  *)
(* "await embeddings.embed" of the query.                                  *)
ListAndRebuild(r) ==
    LET q      == req[r]
        chunks == FilterByDocIds(ListChunks(Scope(r)), q.doc_ids)
    IN
    /\ At(r, "list")
    /\ \/ /\ q.doc_ids # {} /\ chunks = {}
          /\ AuditThen(r, <<QuestionGuard(q), Guardrail("accepted")>>, "refused")
          /\ UNCHANGED sparse
       \/ /\ ~(q.doc_ids # {} /\ chunks = {})
          /\ sparse' = [sparse EXCEPT ![SparseOf(r)] = chunks]
          /\ Await(r, "embed", "search")
          /\ NoAudit
    /\ UNCHANGED <<stores, req, dense, retrieved, answer, observed>>

(* "await vector_store.search", filtered by the selection.                 *)
DenseSearch(r) ==
    /\ At(r, "search")
    /\ \E top \in TopOf(vectors[VectorsOf(r)], CandidateK) :
          dense' = [dense EXCEPT ![r] = FilterByDocIds(top, req[r].doc_ids)]
    /\ Await(r, "search", "fuse")
    /\ NoAudit
    /\ UNCHANGED <<stores, sparse, req, retrieved, answer, observed>>

(* Mutant: only the dense ranking is filtered by the selection.            *)
Fused_Mutant(r, bm25, graph) == dense[r] \cup bm25 \cup graph

(* The candidates fused from the three rankings.  BM25 ranks the whole     *)
(* index; the graph ranks the chunks it scores above zero.                 *)
Fused(r, bm25, graph) ==
    dense[r] \cup FilterByDocIds(bm25, req[r].doc_ids)
             \cup FilterByDocIds(graph, req[r].doc_ids)

(* Sparse and graph search, fusion, and "await reranker.rerank", which     *)
(* keeps top_k of the rerank_input_k best candidates.                      *)
FuseAndRerank(r) ==
    LET index == sparse[SparseOf(r)] IN
    /\ At(r, "fuse")
    /\ \E bm25 \in TopOf(index, CandidateK),
          graph \in {g \in SUBSET index : Cardinality(g) <= CandidateK} :
          \E hits \in TopOf(Fused(r, bm25, graph), Min({RerankInputK, TopK})) :
             retrieved' = [retrieved EXCEPT ![r] = hits]
    /\ Await(r, "rerank", "verify")
    /\ NoAudit
    /\ UNCHANGED <<stores, sparse, req, dense, answer, observed>>

(* Mutant: the scan rejects only when every chunk matches.                 *)
ScanRejects_Mutant(chunks) == chunks # {} /\ ChunkIds(chunks) \subseteq Poisoned

(* scan_retrieved_chunks.                                                  *)
ScanRejects(chunks) == ChunkIds(chunks) \cap Poisoned # {}

(* Mutant: the retrieve row is left to be written after the answer.        *)
VerifyRetrieved_Mutant(r) ==
    /\ At(r, "verify")
    /\ VerifyRetrievalScope(retrieved[r], Scope(r))
    /\ ~ScanRejects(retrieved[r])
    /\ Goto(r, "generate")
    /\ NoAudit
    /\ UNCHANGED <<stores, sparse, req, dense, retrieved, answer, observed>>

(* The retrieval wall, raised before anything is audited; then the scan of *)
(* the hits, the retrieve row, and a refusal if the scan rejected.         *)
VerifyRetrieved(r) ==
    LET row == Audit("retrieve", "ok", ChunkIds(retrieved[r])) IN
    /\ At(r, "verify")
    /\ \/ /\ ~VerifyRetrievalScope(retrieved[r], Scope(r))
          /\ Respond(r, "breach")
          /\ NoAudit
       \/ /\ VerifyRetrievalScope(retrieved[r], Scope(r))
          /\ ScanRejects(retrieved[r])
          /\ AuditThen(r, <<row, QuestionGuard(req[r]), Guardrail("accepted"),
                            Guardrail("rejected")>>, "refused")
       \/ /\ VerifyRetrievalScope(retrieved[r], Scope(r))
          /\ ~ScanRejects(retrieved[r])
          /\ AuditThen(r, <<row>>, "generate")
    /\ UNCHANGED <<stores, sparse, req, dense, retrieved, answer, observed>>

(* "await provider.generate": the one await that always suspends.          *)
Generate(r) ==
    /\ At(r, "generate")
    /\ sent' = [sent EXCEPT ![r] = retrieved[r]]
    /\ Await(r, "generate", "reply")
    /\ NoAudit
    /\ UNCHANGED <<stores, sparse, req, dense, retrieved, answer, known>>

(* Mutant: a citation is looked up in the library, not in the hits.        *)
Verified_Mutant(r, quoted) == {c \in library : ChunkIdOf(c) \in quoted}

(* CitationVerifier.verify on an answer that quotes the chunks with the    *)
(* given ids: what it keeps is quoted verbatim from a retrieved chunk.     *)
Verified(r, quoted) == {c \in retrieved[r] : ChunkIdOf(c) \in quoted}

(* verify drops a citation of a chunk that was not retrieved or is not     *)
(* quoted verbatim ("unsupported"), and the claims that miss the type the  *)
(* question asks for (those that are not "kept").                          *)
VerifierStatus(r, quoted, unsupported, kept) ==
    IF kept = {} THEN "rejected"
    ELSE IF unsupported \/ ChunkIds(kept) # quoted THEN "repaired" ELSE "accepted"

(* The rows of _audit_guardrails and the generate row after it.            *)
ReplyRows(q, status) ==
    <<QuestionGuard(q), Guardrail("accepted"), Guardrail("accepted"),
      Guardrail(status), Audit("generate", status, {})>>

(* The provider answers, with whatever citations: verification, or the     *)
(* extractive definition that quotes one retrieved chunk in its place.     *)
Reply(r) ==
    /\ At(r, "reply")
    /\ \/ \E quoted \in SUBSET ChunkIds(retrieved[r] \cup library),
             unsupported \in BOOLEAN :
             \E kept \in SUBSET Verified(r, quoted) :
                /\ answer' = [answer EXCEPT ![r] = kept]
                /\ AuditThen(r, ReplyRows(req[r], VerifierStatus(r, quoted, unsupported, kept)),
                             "finish")
       \/ \E c \in retrieved[r] :
             /\ answer' = [answer EXCEPT ![r] = {c}]
             /\ AuditThen(r, ReplyRows(req[r], "repaired"), "finish")
    /\ UNCHANGED <<stores, sparse, req, dense, retrieved, observed>>

(* The output wall, and the chat row of the response.                      *)
Finish(r) ==
    /\ At(r, "finish")
    /\ \/ /\ ~VerifyCitationScope(answer[r], Scope(r))
          /\ Respond(r, "leak")
          /\ NoAudit
       \/ /\ VerifyCitationScope(answer[r], Scope(r))
          /\ AuditThen(r, <<Audit("chat", "ok", {})>>, "answered")
    /\ UNCHANGED <<stores, sparse, req, dense, retrieved, answer, observed>>

-----------------------------------------------------------------------------
(* AuditLog.append commits the next row; after the last one the request    *)
(* goes on, or responds.                                                   *)
AuditAppend(r) ==
    /\ At(r, "audit")
    /\ pending[r] # <<>>
    /\ trail' = [trail EXCEPT ![r] = Append(@, Head(pending[r]))]
    /\ pending' = [pending EXCEPT ![r] = Tail(@)]
    /\ \/ Len(pending[r]) > 1 /\ Goto(r, "audit")
       \/ /\ Len(pending[r]) = 1
          /\ \/ cont[r] \in Terminal /\ Respond(r, cont[r])
             \/ cont[r] \notin Terminal /\ Goto(r, cont[r])
    /\ UNCHANGED <<files, library, vectors, sparse, req, dense, retrieved, cont,
                   answer, observed>>

(* Mutant: a provider call without a timeout, which may wait for ever.     *)
ProviderFails_Mutant(r) ==
    /\ At(r, "reply")
    /\ "reply" \in Faults
    /\ Respond(r, "failed")
    /\ NoAudit
    /\ UNCHANGED <<stores, sparse, req, dense, retrieved, answer, observed>>

(* provider.generate raises: httpx times out, or the reply does not parse. *)
ProviderFails(r) ==
    /\ At(r, "reply")
    /\ Respond(r, "failed")
    /\ NoAudit
    /\ UNCHANGED <<stores, sparse, req, dense, retrieved, answer, observed>>

(* The operation of the step raises (SQLite is locked by another process,  *)
(* the disk is full, the vector database is down): nothing catches it, its *)
(* transaction is rolled back, and the client gets a 500.                  *)
StepFails(r) ==
    /\ pc[r] \in Faults
    /\ At(r, pc[r])
    /\ Respond(r, "failed")
    /\ NoAudit
    /\ UNCHANGED <<stores, sparse, req, dense, retrieved, answer, observed>>

(* A process dies, or a CLI invocation exits: its memory and its requests  *)
(* are gone, and it starts again with empty indexes.                       *)
Crash(p) ==
    /\ "crash" \in Faults
    /\ loop' = [loop EXCEPT ![p] = Free]
    /\ sparse' = [k \in Procs \X Scopes |-> IF k[1] = p THEN {} ELSE sparse[k]]
    /\ vectors' = [k \in Stores \X Collections |->
                      IF k[1] = StoreOf[p] /\ k[1] \notin Durable THEN {} ELSE vectors[k]]
    /\ pc' = [r \in Requests |->
                 IF pc[r] \in Steps /\ Proc(r) = p THEN "lost" ELSE pc[r]]
    /\ UNCHANGED <<files, library, trail, req, dense, retrieved, pending, cont,
                   answer, observed>>

Step(r) ==
    \/ StoreSourceFile(r) \/ Upsert(r) \/ IndexChunks(r) \/ SaveDocument(r)
    \/ RebuildAfterSave(r)
    \/ ListAndRebuild(r) \/ DenseSearch(r) \/ FuseAndRerank(r) \/ VerifyRetrieved(r)
    \/ Generate(r) \/ Finish(r) \/ AuditAppend(r) \/ ProviderFails(r)

Next ==
    \/ \E r \in Requests : Upload(r) \/ Chat(r) \/ Step(r) \/ Reply(r) \/ StepFails(r)
    \/ \E p \in Procs : Crash(p)

Spec == Init /\ [][Next]_vars

(* asyncio resumes every ready task in turn, and a provider that is silent *)
(* is timed out; nothing makes the provider answer or a process survive.   *)
Fairness == \A r \in Requests : WF_vars(Step(r))

FairSpec == Spec /\ Fairness

-----------------------------------------------------------------------------
(***************************************************************************)
(* Properties.                                                             *)
(***************************************************************************)

TypeOK ==
    /\ files \subseteq Requests
    /\ library \subseteq Chunk
    /\ vectors \in [Stores \X Collections -> SUBSET Chunk]
    /\ trail \in [Requests -> Seq(Event)]
    /\ loop \in [Procs -> Requests \cup {Free}]
    /\ sparse \in [Procs \X Scopes -> SUBSET Chunk]
    /\ req \in [Requests -> Request \cup {NoRequest}]
    /\ pc \in [Requests -> Steps \cup Terminal \cup {"idle"}]
    /\ dense \in [Requests -> SUBSET Chunk]
    /\ retrieved \in [Requests -> SUBSET Chunk]
    /\ pending \in [Requests -> Seq(Event)]
    /\ cont \in [Requests -> Steps \cup Terminal \cup {"idle"}]
    /\ answer \in [Requests -> SUBSET Chunk]
    /\ sent \in [Requests -> SUBSET Chunk]
    /\ known \in [Requests -> SUBSET Requests]
    /\ \A r \in Requests : pc[r] # "idle" => req[r] # NoRequest

IsChat(r)     == req[r] # NoRequest /\ req[r].kind = "chat"
TokenScope(r) == <<req[r].ctx.tenant_id, req[r].ctx.matter_id>>
Rows(r)       == {trail[r][i] : i \in DOMAIN trail[r]}

(* The context wall: whatever reaches the model provider was cut from a    *)
(* document of the tenant and the matter the caller's token names, though  *)
(* the vector collection may hold other matters' chunks.                   *)
ContextWall ==
    \A r \in Requests : sent[r] # {} =>
        /\ \A c \in sent[r] : ScopeOf(c) = TokenScope(r)
        /\ req[r].ctx.roles # {}

(* Only the selected documents reach the provider, when some are selected, *)
(* although the index of the scope is shared by questions that select      *)
(* different ones.                                                         *)
SelectedSources ==
    \A r \in Requests :
        sent[r] # {} /\ req[r].doc_ids # {} => \A c \in sent[r] : c.doc_id \in req[r].doc_ids

(* What a guard rejects never reaches the provider: no rejected question,  *)
(* and no chunk of a document that carries an injection, whoever ingested  *)
(* it and whenever.                                                        *)
GuardedDisclosure ==
    \A r \in Requests : sent[r] # {} =>
        /\ ~req[r].injects
        /\ ChunkIds(sent[r]) \cap Poisoned = {}

(* Audit before disclosure: when chunks leave for the provider, a retrieve *)
(* row that names exactly these chunks is already committed.               *)
AuditBeforeDisclosure ==
    [][\A r \in Requests : sent'[r] # sent[r] =>
          Audit("retrieve", "ok", ChunkIds(sent'[r])) \in Rows(r)]_vars

(* An answer is accounted for: its chat row is the last one, after the     *)
(* generate row of its verification status and a retrieve row that names   *)
(* every chunk it cites; and it cites nothing when verification rejected.  *)
AnswerAccounted ==
    \A r \in Requests : pc[r] = "answered" =>
        LET n == Len(trail[r]) IN
        /\ n > 2
        /\ trail[r][n] = Audit("chat", "ok", {})
        /\ trail[r][n - 1].event_type = "generate"
        /\ trail[r][n - 1].status = "rejected" <=> answer[r] = {}
        /\ trail[r][1].event_type = "retrieve"
        /\ ChunkIds(answer[r]) \subseteq trail[r][1].chunk_ids
        /\ \A c \in answer[r] : ScopeOf(c) = TokenScope(r)

(* The output wall never has anything to reject: verification against the  *)
(* retrieved chunks already confines the citations.                        *)
OutputWallIdle == \A r \in Requests : pc[r] # "leak"

(* An acknowledged upload is on disk in every store that outlives its      *)
(* process, and audited; and no upload row speaks of a document that is    *)
(* not in the library, whatever step failed or process died.               *)
UploadDurable ==
    \A r \in Requests :
        /\ pc[r] = "uploaded" =>
              /\ Audit("upload", "ok", {}) \in Rows(r)
              /\ StoreOf[Proc(r)] \in Durable => DocChunks(r) \subseteq vectors[VectorsOf(r)]
        /\ Audit("upload", "ok", {}) \in Rows(r) => r \in files /\ DocChunks(r) \subseteq library

(* A question sees every document whose upload was acknowledged before it  *)
(* was asked, by whichever process: while it searches, the sparse index of *)
(* its matter holds all their chunks that it selects.                      *)
ReadYourUploads ==
    \A r \in Requests : IsChat(r) /\ pc[r] \in {"search", "fuse"} =>
        \A u \in known[r] :
            Scope(u) = Scope(r) /\ (req[r].doc_ids = {} \/ u \in req[r].doc_ids)
                => DocChunks(u) \subseteq sparse[SparseOf(r)]

(* The provider is only sent chunks of documents that are in the library,  *)
(* so that what an answer cites can be opened.                             *)
SentFromLibrary == \A r \in Requests : sent[r] \subseteq library

(* Every request that reached a process ends: with a response, or lost     *)
(* with its process.                                                       *)
EveryRequestEnds == \A r \in Requests : pc[r] # "idle" ~> pc[r] \in Terminal

(* The pipeline implements the confidentiality promise of MatterWall.      *)
Questions(r) ==
    IF req[r] = NoRequest THEN {} ELSE {[scope |-> TokenScope(r), doc_ids |-> req[r].doc_ids]}

Ingested == UNION {DocChunks(u) : u \in files}
Returned == [r \in Requests |-> IF pc[r] = "answered" THEN answer[r] ELSE {}]

Wall == INSTANCE MatterWall WITH
    asked     <- [r \in Requests |-> Questions(r)],
    ingested  <- Ingested,
    disclosed <- sent,
    returned  <- Returned

ImplementsMatterWall == Wall!WallSpec

(* docs/compliance/data-flow.md: retrieval searches only the scope of the  *)
(* caller.                                                                 *)
SearchScoped == \A r \in Requests : \A c \in dense[r] : ScopeOf(c) = Scope(r)

(* README.md: the document of a citation opens at the cited passage; the   *)
(* file endpoint serves the documents that are in the library.             *)
CitationsOpen ==
    \A r \in Requests : pc[r] = "answered" => answer[r] \subseteq library
=============================================================================
