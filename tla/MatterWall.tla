----------------------------- MODULE MatterWall -----------------------------
(***************************************************************************)
(* What the service promises about confidentiality, with no pipeline, no   *)
(* store and no process in sight: a chat that was asked in one matter, of  *)
(* some documents, discloses to the model provider only chunks ingested in *)
(* that matter and from those documents, and returns to the user only      *)
(* citations of what it disclosed.  CiteOrDieService implements it.        *)
(***************************************************************************)
EXTENDS Walls

VARIABLES
    asked,          \* asked[r]: the question of r, a set empty until it is sent
    ingested,       \* the chunks cut from every document ever stored
    disclosed,      \* disclosed[r]: what the provider has been sent for r
    returned        \* returned[r]: what the answer to r cites

wallVars == <<asked, ingested, disclosed, returned>>

(* The scope a question is asked in, and the documents it selects.         *)
Question == [scope: Scopes, doc_ids: SUBSET Requests]

Visible(q) == {c \in FilterByDocIds(ingested, q.doc_ids) : ScopeOf(c) = q.scope}

WallInit ==
    /\ asked = [r \in Requests |-> {}]
    /\ ingested = {}
    /\ disclosed = [r \in Requests |-> {}]
    /\ returned = [r \in Requests |-> {}]

Ask(r) ==
    /\ asked[r] = {}
    /\ \E q \in Question : asked' = [asked EXCEPT ![r] = {q}]
    /\ UNCHANGED <<ingested, disclosed, returned>>

Ingest(u) ==
    /\ \E scope \in Scopes : ingested' = ingested \cup ChunkPages(u, scope)
    /\ UNCHANGED <<asked, disclosed, returned>>

Disclose(r) ==
    /\ disclosed[r] = {}
    /\ \E q \in asked[r] :
          \E C \in SUBSET Visible(q) : disclosed' = [disclosed EXCEPT ![r] = C]
    /\ UNCHANGED <<asked, ingested, returned>>

Return(r) ==
    /\ returned[r] = {}
    /\ \E C \in SUBSET disclosed[r] : returned' = [returned EXCEPT ![r] = C]
    /\ UNCHANGED <<asked, ingested, disclosed>>

WallNext == \E r \in Requests : Ask(r) \/ Ingest(r) \/ Disclose(r) \/ Return(r)

WallSpec == WallInit /\ [][WallNext]_wallVars
=============================================================================
