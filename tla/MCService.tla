----------------------------- MODULE MCService -----------------------------
(***************************************************************************)
(* Small instances of CiteOrDieService: the requests that may arrive, and  *)
(* the two deployments of the vector store.                                *)
(***************************************************************************)
EXTENDS CiteOrDieService, TLC

CONSTANTS t1, t2, m1, m2, server, cli, u1, u2, c1

Ctx(t, m, roles) == [tenant_id |-> t, matter_id |-> m, roles |-> roles]

(* Questions that select documents hold zero-width characters.            *)
Ask(kind, p, ctx, t, m, doc_ids, injects) ==
    [kind |-> kind, proc |-> p, ctx |-> ctx, tenant_id |-> t, matter_id |-> m,
     doc_ids |-> doc_ids, confusable |-> doc_ids # {}, injects |-> injects]

UploadIn(p, ctx)        == Ask("upload", p, ctx, Unset, Unset, {}, FALSE)
ChatIn(p, ctx, doc_ids) == Ask("chat", p, ctx, Unset, Unset, doc_ids, FALSE)

(* The CLI invocation is a process of its own, which serves one request    *)
(* with the admin role in the default matter (m1).                         *)

(* Documents of several matters and tenants, one chat that may ask outside *)
(* its token, select documents, carry an injection or have no role.        *)
WallMenu ==
    u1 :> {UploadIn(server, Ctx(t1, m1, {"analyst"})),
           UploadIn(server, Ctx(t1, m1, {"viewer"}))}
    @@ u2 :> {UploadIn(cli, Ctx(t1, m1, {"admin"})),
              UploadIn(server, Ctx(t1, m1, {"admin"})),
              UploadIn(cli, Ctx(t2, m1, {"admin"})),
              UploadIn(server, Ctx(t1, m2, {"admin"})),
              Ask("upload", server, Ctx(t1, m1, {"admin"}), Unset, m2, {}, FALSE)}
    @@ c1 :> LET viewer == Ctx(t1, m1, {"viewer"}) IN
             {ChatIn(server, viewer, {}), ChatIn(server, viewer, {u1}),
              ChatIn(server, Ctx(t1, m1, {}), {}),
              Ask("chat", server, viewer, t2, Unset, {}, FALSE),
              Ask("chat", server, viewer, Unset, m2, {}, FALSE),
              Ask("chat", server, viewer, Unset, Unset, {}, TRUE)}

(* One matter: a document ingested by the server, a question about it, and *)
(* a second question, or a document that the server or the CLI ingests.    *)
MatterMenu ==
    LET a == Ctx(t1, m1, {"admin"}) IN
    u1 :> {UploadIn(server, a)}
    @@ u2 :> {UploadIn(server, a), UploadIn(cli, a), ChatIn(server, a, {})}
    @@ c1 :> {ChatIn(server, a, d) : d \in {{}, {u1}}}

(* How many chunks beside the first a document has, and the poisoned one.  *)
MCLength   == [r \in Requests |-> IF r = u1 THEN 1 ELSE 0]
WallLength == [r \in Requests |-> IF r = u2 THEN 1 ELSE 0]
OneChunk   == [r \in Requests |-> 0]
MCPoisoned == {<<u2, 0>>}

(* Qdrant: one durable store, where the names of all the scopes collide    *)
(* ("a", "_b" and "a_", "b" both become "tenant_a___b") or none does.      *)
QdrantStores    == {"qdrant"}
QdrantStoreOf   == [p \in Procs |-> "qdrant"]
CollidingNames  == {"tenant_a___b"}
CollidingNameOf == [s \in Scopes |-> "tenant_a___b"]
DistinctNames   == Scopes
DistinctNameOf  == [s \in Scopes |-> s]

(* Memory: each process has its own store, keyed by the scope itself.      *)
MemoryStoreOf == [p \in Procs |-> p]

ShippedSuspends == {"generate"}
AnySuspends     == {"embed", "upsert", "search", "rerank", "generate"}
NoFaults        == {}
SaveFaults      == {"save"}
ShippedFaults   == {"audit", "crash"}
WallFaults      == {"upsert", "save", "audit", "crash"}
=============================================================================
