------------------------------- MODULE Walls -------------------------------
(***************************************************************************)
(* Who may do what, and the three matter walls: security/walls.py,         *)
(* auth/authorizer.py and the identity types of core/models.py.            *)
(*                                                                         *)
(* A document's id is a fresh uuid4 minted by the upload that ingests it,  *)
(* so the upload request names the document: doc_id ranges over Requests.  *)
(***************************************************************************)
EXTENDS Integers

CONSTANTS
    Tenants,        \* tenant ids
    Matters,        \* matter ids
    Requests,       \* the HTTP requests and CLI invocations of a behaviour
    Length          \* Length[u] + 1 chunks are cut from the document of upload u

ASSUME LengthAssumption == Length \in [Requests -> Nat]

Roles   == {"admin", "analyst", "viewer"}
Actions == {"upload", "chat", "read", "admin"}

AuthContext == [tenant_id: Tenants, matter_id: Matters, roles: SUBSET Roles]

(* The unit of isolation: retrieval/service.py builds every index key from *)
(* the pair, and the tenant id whitelist keeps "::" out of the first part. *)
Scopes == Tenants \X Matters

(* The casbin policy lines "p, role, act".                                 *)
Policy ==
    {"admin"}   \X {"upload", "chat", "read", "admin"}
      \cup {"analyst"} \X {"upload", "chat", "read"}
      \cup {"viewer"}  \X {"chat", "read"}

(* Authorizer.require: the matcher of the model, which holds exactly when  *)
(* none of the three 403 errors is raised.                                 *)
Require(ctx, act, scope) ==
    /\ scope = <<ctx.tenant_id, ctx.matter_id>>
    /\ \E role \in ctx.roles : <<role, act>> \in Policy

(* require_matter_scope: the session is bound to one matter.               *)
RequireMatterScope(ctx, matter) == ctx.matter_id = matter

-----------------------------------------------------------------------------
(* Chunks carry their scope.  A chunk's uuid is abstracted to the document *)
(* it was cut from and its ordinal there.                                  *)
Chunk   == [doc_id: Requests, ordinal: Nat, tenant_id: Tenants, matter_id: Matters]
ChunkId == Requests \X Nat

ChunkIdOf(c) == <<c.doc_id, c.ordinal>>
ChunkIds(C)  == {ChunkIdOf(c) : c \in C}
ScopeOf(c)   == <<c.tenant_id, c.matter_id>>

(* Mutant: the ordinal is counted down before the chunk is made.           *)
ChunkPages_Mutant(u, scope) ==
    {[doc_id |-> u, ordinal |-> i - 1, tenant_id |-> scope[1], matter_id |-> scope[2]] :
        i \in 0 .. Length[u]}

(* chunk_pages: the chunks of document u, ordinals counted from 0.         *)
ChunkPages(u, scope) ==
    {[doc_id |-> u, ordinal |-> i, tenant_id |-> scope[1], matter_id |-> scope[2]] :
        i \in 0 .. Length[u]}

(* Mutant: the wall compares the tenant and forgets the matter.            *)
VerifyRetrievalScope_Mutant(chunks, scope) == \A c \in chunks : c.tenant_id = scope[1]

(* verify_retrieval_scope and verify_citation_scope raise unless these     *)
(* hold.  A citation carries the ids its chunk gave it, so the set of the  *)
(* cited chunks stands for the list of citations.                          *)
VerifyRetrievalScope(chunks, scope)    == \A c \in chunks : ScopeOf(c) = scope
VerifyCitationScope(citations, scope)  == \A c \in citations : ScopeOf(c) = scope

(* A selection of documents; the empty selection stands for all of them.   *)
(* filter_ranked_by_doc_ids, and the same filter in service.chat.          *)
FilterByDocIds(chunks, doc_ids) ==
    {c \in chunks : doc_ids = {} \/ c.doc_id \in doc_ids}
=============================================================================
