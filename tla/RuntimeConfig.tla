--------------------------- MODULE RuntimeConfig ---------------------------
(***************************************************************************)
(* The per-tenant provider configuration: security/runtime_config.py, the  *)
(* caches service.py builds on it and the /settings/provider handlers.     *)
(*                                                                         *)
(* One server process holds the caches.  Its handlers here contain no      *)
(* await, so each runs alone; a handler that has changed the file still    *)
(* has its audit row to append, which may fail, and the process may be     *)
(* restarted at any point, with the same secret or with another.           *)
(* Tenants are those whose ids _validate_tenant_id accepts.                *)
(***************************************************************************)
CONSTANTS
    Tenants,
    Secrets,            \* values auth_secret has over the life of the data directory
    Keys,               \* API keys
    Embeddings,         \* embedding and reranker settings of a retrieval service
    DefaultEmbedding,   \* those of the server's own settings
    Times,              \* readings of the clock, which need not differ nor increase
    None,               \* no file, no override, a field left out, no answer
    Uncached            \* no entry in a cache

ASSUME SettingsAssumption == DefaultEmbedding \in Embeddings

ASSUME SentinelAssumption ==
    /\ None \notin Keys \union Embeddings
    /\ Uncached \notin Embeddings
    /\ Uncached # None

VARIABLES
    disk,               \* disk[t]: tenants/<t>/provider.enc
    rows,               \* rows[t]: the latest runtime_config_changed row of t
    secret,             \* auth_secret of the running server
    cache,              \* RuntimeConfigStore._cache
    providers,          \* CiteOrDieService._provider_cache, by tenant and configured_at
    retrievals,         \* CiteOrDieService._retrieval_cache, by tenant and configured_at
    handler,            \* the settings handler that has its audit row to append
    answer              \* the latest answer of the server

stores == <<disk, rows>>
caches == <<cache, providers, retrievals>>
vars == <<stores, secret, caches, handler, answer>>

(* "hosted" stands for anthropic and openai, whose providers need a key.   *)
LLMProviderType == {"hosted", "other"}

ProviderConfigInput ==
    [llm: LLMProviderType, key: Keys \union {None}, embedding: Embeddings \union {None}]
ProviderConfigStored ==
    [llm: LLMProviderType, key: Keys \union {None}, embedding: Embeddings, at: Times]

(* The file is encrypted under a key derived from the secret.              *)
Blob == [secret: Secrets, config: ProviderConfigStored]
Provider == [llm: LLMProviderType, key: Keys \union {None}]
Slots == Tenants \X Times

-----------------------------------------------------------------------------
(* Decryption under another secret raises InvalidTag: no override.         *)
Readable(t) == IF disk[t] # None /\ disk[t].secret = secret THEN disk[t].config ELSE None

(* load: the cached value, or what the file holds.                         *)
Load(t) == IF cache[t] # Uncached THEN cache[t] ELSE Readable(t)
Loaded(t) == [cache EXCEPT ![t] = Load(t)]

(* Mutant: an override counts as existing when it can be read.             *)
HasConfig_Mutant(t) == Load(t) # None
HasConfig(t) == disk[t] # None

(* Mutant: invalidate_runtime_config forgets the entries of other tenants. *)
Evicted_Mutant(built, t) == [s \in Slots |-> IF s[1] # t THEN Uncached ELSE built[s]]

(* invalidate_runtime_config pops every entry whose key begins with t.     *)
Evicted(built, t) == [s \in Slots |-> IF s[1] = t THEN Uncached ELSE built[s]]

Slot(t) == <<t, Load(t).at>>
Raises(config) == config.llm = "hosted" /\ config.key = None
BuildProvider(config) == [llm |-> config.llm, key |-> config.key]

ResolveProvider(t) ==
    IF Load(t) = None THEN None
    ELSE IF providers[Slot(t)] # Uncached THEN providers[Slot(t)]
    ELSE BuildProvider(Load(t))

(* Only an override of the embedding has a retrieval service of its own.   *)
Overlaid(t) == Load(t) # None /\ Load(t).embedding # DefaultEmbedding

ResolveRetrieval(t) ==
    IF ~Overlaid(t) THEN DefaultEmbedding
    ELSE IF retrievals[Slot(t)] # Uncached THEN retrievals[Slot(t)]
    ELSE Load(t).embedding

(* Mutant: the baseline is the server's own setting.                       *)
Baseline_Mutant(previous) == DefaultEmbedding
Baseline(previous) == IF previous = None THEN DefaultEmbedding ELSE previous.embedding

(* A field the request leaves out keeps the value of the previous override. *)
Effective(input, previous, now) ==
    [llm       |-> input.llm,
     key       |-> IF input.key = None /\ previous # None THEN previous.key ELSE input.key,
     embedding |-> IF input.embedding = None THEN Baseline(previous) ELSE input.embedding,
     at        |-> now]

(* redact_payload keeps the values of the allowed keys only.               *)
ALLOWED_AUDIT_KEYS ==
    {"request_id", "doc_id", "matter_id", "filename", "chunk_count",
     "pii_entities_redacted", "retrieved_chunk_ids", "selected_doc_ids",
     "model_provider", "model_version", "guardrail", "status", "reason",
     "latency_ms", "cost_usd", "top_k"}
Redact(payload) ==
    [k \in DOMAIN payload |-> IF k \in ALLOWED_AUDIT_KEYS THEN payload[k] ELSE "[redacted]"]

-----------------------------------------------------------------------------
Init ==
    /\ disk = [t \in Tenants |-> None]
    /\ rows = [t \in Tenants |-> None]
    /\ secret \in Secrets
    /\ cache = [t \in Tenants |-> Uncached]
    /\ providers = [s \in Slots |-> Uncached]
    /\ retrievals = [s \in Slots |-> Uncached]
    /\ handler = None
    /\ answer = None

(* The load of a request, and resolve_retrieval.                           *)
Resolve(t) ==
    /\ cache' = Loaded(t)
    /\ retrievals' = IF Overlaid(t)
                     THEN [retrievals EXCEPT ![Slot(t)] = ResolveRetrieval(t)]
                     ELSE retrievals

(* chat resolves the provider first, then the retrieval service.           *)
Chat(t) ==
    /\ handler = None
    /\ Load(t) # None => (providers[Slot(t)] # Uncached \/ ~Raises(Load(t)))
    /\ Resolve(t)
    /\ providers' = IF Load(t) = None THEN providers
                    ELSE [providers EXCEPT ![Slot(t)] = ResolveProvider(t)]
    /\ answer' = [op |-> "chat", tenant |-> t,
                  provider |-> ResolveProvider(t), embedding |-> ResolveRetrieval(t)]
    /\ UNCHANGED <<stores, secret, handler>>

(* make_provider_from_override raises: the question is answered by a 500.  *)
ChatRaises(t) ==
    /\ handler = None
    /\ Load(t) # None
    /\ providers[Slot(t)] = Uncached
    /\ Raises(Load(t))
    /\ cache' = Loaded(t)
    /\ answer' = [op |-> "unusable", tenant |-> t]
    /\ UNCHANGED <<stores, secret, providers, retrievals, handler>>

(* upload resolves the retrieval service only.                             *)
Upload(t) ==
    /\ handler = None
    /\ Resolve(t)
    /\ answer' = [op |-> "upload", tenant |-> t, embedding |-> ResolveRetrieval(t)]
    /\ UNCHANGED <<stores, secret, providers, handler>>

GetProviderSettings(t) ==
    /\ handler = None
    /\ cache' = Loaded(t)
    /\ answer' = [op |-> "get", tenant |-> t, config |-> Load(t)]
    /\ UNCHANGED <<stores, secret, providers, retrievals, handler>>

-----------------------------------------------------------------------------
(* The checks of put_provider_settings; a refused request changes nothing. *)
MayPut(t, admin, input) ==
    /\ HasConfig(t) => admin
    /\ input.llm = "hosted" /\ input.key = None => HasConfig(t)

Invalidate(t) ==
    /\ cache' = [cache EXCEPT ![t] = Uncached]
    /\ providers' = Evicted(providers, t)
    /\ retrievals' = Evicted(retrievals, t)

SetRow(config, reindex) ==
    Redact([action |-> "set", llm_provider |-> config.llm,
            embedding_provider |-> config.embedding, requires_reindex |-> reindex])

(* save replaces the file at once, and the handler forgets what was built  *)
(* on it.  answer.before only observes the embedding in the file, if the   *)
(* secret opens it.                                                        *)
PutProviderSettings(t, admin, input, now) ==
    LET config  == Effective(input, Load(t), now)
        reindex == config.embedding # Baseline(Load(t))
    IN  /\ handler = None
        /\ MayPut(t, admin, input)
        /\ disk' = [disk EXCEPT ![t] = [secret |-> secret, config |-> config]]
        /\ Invalidate(t)
        /\ handler' = [tenant |-> t, admin |-> admin, row |-> SetRow(config, reindex),
                       answer |-> [op |-> "set", tenant |-> t, config |-> config,
                                   reindex |-> reindex,
                                   before |-> IF disk[t] = None THEN DefaultEmbedding
                                              ELSE IF Readable(t) = None THEN None
                                              ELSE Readable(t).embedding]]
        /\ answer' = None
        /\ UNCHANGED <<rows, secret>>

(* The write of the temporary file or its renaming raises.                 *)
PutFails(t) ==
    /\ handler = None
    /\ cache' = Loaded(t)
    /\ answer' = [op |-> "error", tenant |-> t]
    /\ UNCHANGED <<stores, secret, providers, retrievals, handler>>

(* Mutant: the entries built on the deleted override stay.                 *)
DeleteProviderSettings_Mutant(t, admin) ==
    /\ handler = None
    /\ admin
    /\ disk[t] # None
    /\ disk' = [disk EXCEPT ![t] = None]
    /\ handler' = [tenant |-> t, admin |-> admin, row |-> Redact([action |-> "delete"]),
                   answer |-> [op |-> "deleted", tenant |-> t]]
    /\ answer' = None
    /\ UNCHANGED <<rows, secret, caches>>

(* delete removes the file; without one there is no row to append.         *)
DeleteProviderSettings(t, admin) ==
    /\ handler = None
    /\ admin
    /\ Invalidate(t)
    /\ disk' = [disk EXCEPT ![t] = None]
    /\ IF disk[t] = None
       THEN /\ answer' = [op |-> "deleted", tenant |-> t]
            /\ UNCHANGED handler
       ELSE /\ handler' = [tenant |-> t, admin |-> admin, row |-> Redact([action |-> "delete"]),
                           answer |-> [op |-> "deleted", tenant |-> t]]
            /\ answer' = None
    /\ UNCHANGED <<rows, secret>>

AuditAppend ==
    /\ handler # None
    /\ rows' = [rows EXCEPT ![handler.tenant] = handler.row]
    /\ answer' = handler.answer
    /\ handler' = None
    /\ UNCHANGED <<disk, secret, caches>>

AuditFails ==
    /\ handler # None
    /\ answer' = [op |-> "error", tenant |-> handler.tenant]
    /\ handler' = None
    /\ UNCHANGED <<stores, secret, caches>>

(* The process ends, at any point, and is started again.                   *)
Restart(s) ==
    /\ secret' = s
    /\ cache' = [t \in Tenants |-> Uncached]
    /\ providers' = [slot \in Slots |-> Uncached]
    /\ retrievals' = [slot \in Slots |-> Uncached]
    /\ handler' = None
    /\ answer' = None
    /\ UNCHANGED stores

Next ==
    \/ \E t \in Tenants :
          \/ Chat(t) \/ ChatRaises(t) \/ Upload(t) \/ GetProviderSettings(t) \/ PutFails(t)
          \/ \E admin \in BOOLEAN :
                \/ DeleteProviderSettings(t, admin)
                \/ \E input \in ProviderConfigInput, now \in Times :
                      PutProviderSettings(t, admin, input, now)
    \/ AuditAppend \/ AuditFails
    \/ \E s \in Secrets : Restart(s)

Spec == Init /\ [][Next]_vars

-----------------------------------------------------------------------------
(***************************************************************************)
(* Properties.                                                             *)
(***************************************************************************)

TypeOK ==
    /\ disk \in [Tenants -> Blob \union {None}]
    /\ secret \in Secrets
    /\ cache \in [Tenants -> ProviderConfigStored \union {None, Uncached}]
    /\ providers \in [Slots -> Provider \union {Uncached}]
    /\ retrievals \in [Slots -> Embeddings \union {Uncached}]
    /\ handler # None => handler.tenant \in Tenants /\ handler.answer.op \in {"set", "deleted"}

EffectiveProvider(t) == IF Readable(t) = None THEN None ELSE BuildProvider(Readable(t))
EffectiveEmbedding(t) == IF Readable(t) = None THEN DefaultEmbedding ELSE Readable(t).embedding

(* A request is served with the provider and the embedding its tenant's    *)
(* file holds, or the server's own if there is no file the secret opens:   *)
(* no cache outlives a change, a rotation of the secret takes effect, its  *)
(* restoration too, and another tenant's configuration never answers.      *)
ServedFresh ==
    answer # None =>
        /\ answer.op = "chat" => answer.provider = EffectiveProvider(answer.tenant)
        /\ answer.op \in {"chat", "upload"} =>
              answer.embedding = EffectiveEmbedding(answer.tenant)

(* The server keeps no provider, hence no API key, that its tenant has     *)
(* replaced or deleted, even one it would never use again.                 *)
KeysForgotten ==
    \A s \in Slots : providers[s] # Uncached => providers[s] = EffectiveProvider(s[1])

(* A stored configuration is replaced or removed by an administrator only, *)
(* also while the server's secret does not open it.                        *)
OnlyAdminReplaces ==
    [][\A t \in Tenants : disk[t] # None /\ disk'[t] # disk[t] => handler'.admin]_vars

(* A change says that a reindex is required exactly when its embedding     *)
(* differs from the override the file held, or from the server's default   *)
(* if there was no file, unless the secret did not open the file.          *)
ReindexAnnounced ==
    answer # None /\ answer.op = "set" /\ answer.before # None =>
        (answer.reindex <=> answer.config.embedding # answer.before)
=============================================================================
