------------------------ MODULE RuntimeConfigProofs ------------------------
(***************************************************************************)
(* Proofs about RuntimeConfig, for every set of tenants, secrets, keys,    *)
(* embeddings and readings of the clock.                                   *)
(***************************************************************************)
EXTENDS RuntimeConfig, TLAPS

(* What a cache holds is what the tenant's file holds.  Every entry of the *)
(* two caches that are built on the configuration was built on this one,   *)
(* whatever the clock said when it was made: eviction, not the time in the *)
(* key, keeps an older one from answering.                                 *)
Coherent ==
    /\ \A t \in Tenants : cache[t] # Uncached => cache[t] = Readable(t)
    /\ \A s \in Slots : providers[s] # Uncached =>
          Readable(s[1]) # None /\ providers[s] = BuildProvider(Readable(s[1]))
    /\ \A s \in Slots : retrievals[s] # Uncached =>
          Readable(s[1]) # None /\ retrievals[s] = Readable(s[1]).embedding

IInv == TypeOK /\ Coherent /\ ServedFresh

-----------------------------------------------------------------------------
LEMMA ReadableTyped ==
    ASSUME TypeOK, NEW t \in Tenants
    PROVE  Readable(t) = None \/ Readable(t) \in ProviderConfigStored
  BY DEF TypeOK, Readable, Blob

(* A coherent cache answers what the file holds.                           *)
LEMMA LoadIsReadable ==
    ASSUME Coherent, NEW t \in Tenants
    PROVE  Load(t) = Readable(t)
  BY DEF Coherent, Load

LEMMA Resolved ==
    ASSUME TypeOK, Coherent, NEW t \in Tenants
    PROVE  /\ ResolveProvider(t) = EffectiveProvider(t)
           /\ ResolveRetrieval(t) = EffectiveEmbedding(t)
           /\ Load(t) # None => Slot(t) \in Slots /\ Slot(t)[1] = t
           /\ Load(t) # None => EffectiveProvider(t) \in Provider
           /\ Load(t) # None => EffectiveEmbedding(t) \in Embeddings
  <1>1. Load(t) = Readable(t)
    BY LoadIsReadable
  <1>2. CASE Readable(t) = None
    BY <1>1, <1>2 DEF ResolveProvider, ResolveRetrieval, Overlaid, EffectiveProvider, EffectiveEmbedding
  <1>3. CASE Readable(t) # None
    <2>1. Readable(t) \in ProviderConfigStored
      BY <1>3, ReadableTyped
    <2>2. Slot(t) \in Slots /\ Slot(t)[1] = t
      BY <1>1, <2>1 DEF Slot, Slots, ProviderConfigStored
    <2>3. ResolveProvider(t) = EffectiveProvider(t)
      BY <1>1, <1>3, <2>2 DEF ResolveProvider, EffectiveProvider, Coherent
    <2>4. ResolveRetrieval(t) = EffectiveEmbedding(t)
      BY <1>1, <1>3, <2>2 DEF ResolveRetrieval, Overlaid, EffectiveEmbedding, Coherent
    <2>5. EffectiveProvider(t) \in Provider /\ EffectiveEmbedding(t) \in Embeddings
      BY <1>3, <2>1 DEF EffectiveProvider, EffectiveEmbedding, BuildProvider, Provider,
                        ProviderConfigStored
    <2> QED
      BY <2>2, <2>3, <2>4, <2>5
  <1> QED
    BY <1>2, <1>3

LEMMA EffectiveTyped ==
    ASSUME TypeOK, Coherent, NEW t \in Tenants, NEW input \in ProviderConfigInput, NEW now \in Times
    PROVE  Effective(input, Load(t), now) \in ProviderConfigStored
  <1>1. Load(t) = None \/ Load(t) \in ProviderConfigStored
    BY LoadIsReadable, ReadableTyped
  <1>2. Baseline(Load(t)) \in Embeddings
    BY <1>1, SettingsAssumption DEF Baseline, ProviderConfigStored
  <1> QED
    BY <1>1, <1>2 DEF Effective, ProviderConfigStored, ProviderConfigInput

-----------------------------------------------------------------------------
(* A step that leaves the file and the secret alone keeps a coherent cache *)
(* coherent if it adds what the file holds.                                *)
LEMMA LoadStep ==
    ASSUME TypeOK, Coherent, NEW t \in Tenants, cache' = Loaded(t), UNCHANGED <<disk, secret>>
    PROVE  /\ cache' \in [Tenants -> ProviderConfigStored \union {None, Uncached}]
           /\ \A u \in Tenants : Readable(u)' = Readable(u)
           /\ \A u \in Tenants : cache'[u] # Uncached => cache'[u] = Readable(u)
  <1>1. Load(t) = Readable(t) /\ (Readable(t) = None \/ Readable(t) \in ProviderConfigStored)
    BY LoadIsReadable, ReadableTyped
  <1> QED
    BY <1>1 DEF Loaded, Readable, TypeOK, Coherent

(* What a request resolves is coherent too.                                *)
LEMMA ResolveStep ==
    ASSUME TypeOK, Coherent, NEW t \in Tenants, Resolve(t), UNCHANGED <<disk, secret>>
    PROVE  /\ retrievals' \in [Slots -> Embeddings \union {Uncached}]
           /\ \A s \in Slots : retrievals'[s] # Uncached =>
                 Readable(s[1]) # None /\ retrievals'[s] = Readable(s[1]).embedding
  <1>1. CASE ~Overlaid(t)
    BY <1>1 DEF Resolve, TypeOK, Coherent
  <1>2. CASE Overlaid(t)
    <2>1. /\ Slot(t) \in Slots /\ Slot(t)[1] = t /\ Readable(t) # None
          /\ ResolveRetrieval(t) = Readable(t).embedding /\ ResolveRetrieval(t) \in Embeddings
      BY <1>2, Resolved, LoadIsReadable DEF Overlaid, EffectiveEmbedding
    <2>2. retrievals' = [retrievals EXCEPT ![Slot(t)] = ResolveRetrieval(t)]
      BY <1>2 DEF Resolve
    <2> QED
      BY <2>1, <2>2 DEF TypeOK, Coherent
  <1> QED
    BY <1>1, <1>2

LEMMA ChatStep ==
    ASSUME IInv, NEW t \in Tenants, Chat(t)
    PROVE  IInv'
  <1> USE DEF IInv
  <1>1. Resolve(t) /\ cache' = Loaded(t) /\ UNCHANGED <<disk, secret>>
    BY DEF Chat, Resolve, stores
  <1>2. \A u \in Tenants : Readable(u)' = Readable(u)
    BY <1>1, LoadStep
  <1>3. /\ providers' \in [Slots -> Provider \union {Uncached}]
        /\ \A s \in Slots : providers'[s] # Uncached =>
              Readable(s[1]) # None /\ providers'[s] = BuildProvider(Readable(s[1]))
    <2>1. CASE Load(t) = None
      BY <2>1 DEF Chat, TypeOK, Coherent
    <2>2. CASE Load(t) # None
      <3>1. /\ Slot(t) \in Slots /\ Slot(t)[1] = t /\ Readable(t) # None
            /\ ResolveProvider(t) = BuildProvider(Readable(t)) /\ ResolveProvider(t) \in Provider
        BY <2>2, Resolved, LoadIsReadable DEF EffectiveProvider
      <3>2. providers' = [providers EXCEPT ![Slot(t)] = ResolveProvider(t)]
        BY <2>2 DEF Chat
      <3> QED
        BY <3>1, <3>2 DEF TypeOK, Coherent
    <2> QED
      BY <2>1, <2>2
  <1>4. TypeOK'
    BY <1>1, <1>3, LoadStep, ResolveStep DEF TypeOK, Chat, stores
  <1>5. Coherent'
    BY <1>1, <1>2, <1>3, LoadStep, ResolveStep DEF Coherent, Slots
  <1>6. answer' = [op |-> "chat", tenant |-> t,
                   provider |-> EffectiveProvider(t), embedding |-> EffectiveEmbedding(t)]
    BY Resolved DEF Chat
  <1>7. ServedFresh'
    BY <1>2, <1>6 DEF ServedFresh, EffectiveProvider, EffectiveEmbedding
  <1> QED
    BY <1>4, <1>5, <1>7

LEMMA UploadStep ==
    ASSUME IInv, NEW t \in Tenants, Upload(t)
    PROVE  IInv'
  <1> USE DEF IInv
  <1>1. Resolve(t) /\ cache' = Loaded(t) /\ UNCHANGED <<disk, secret, providers>>
    BY DEF Upload, Resolve, stores
  <1>2. \A u \in Tenants : Readable(u)' = Readable(u)
    BY <1>1, LoadStep
  <1>3. TypeOK'
    BY <1>1, LoadStep, ResolveStep DEF TypeOK, Upload, stores
  <1>4. Coherent'
    BY <1>1, <1>2, LoadStep, ResolveStep DEF Coherent, Slots
  <1>5. answer' = [op |-> "upload", tenant |-> t, embedding |-> EffectiveEmbedding(t)]
    BY Resolved DEF Upload
  <1>6. ServedFresh'
    BY <1>2, <1>5 DEF ServedFresh, EffectiveEmbedding
  <1> QED
    BY <1>3, <1>4, <1>6

(* The steps that only load.                                               *)
LEMMA OnlyLoadStep ==
    ASSUME IInv, NEW t \in Tenants, ChatRaises(t) \/ GetProviderSettings(t) \/ PutFails(t)
    PROVE  IInv'
  <1> USE DEF IInv
  <1>1. cache' = Loaded(t) /\ UNCHANGED <<disk, secret, providers, retrievals, handler>>
    BY DEF ChatRaises, GetProviderSettings, PutFails, stores
  <1>2. \A u \in Tenants : Readable(u)' = Readable(u)
    BY <1>1, LoadStep
  <1>3. TypeOK'
    BY <1>1, LoadStep DEF TypeOK
  <1>4. Coherent'
    BY <1>1, <1>2, LoadStep DEF Coherent, Slots
  <1>5. answer'.op \in {"unusable", "get", "error"}
    BY DEF ChatRaises, GetProviderSettings, PutFails
  <1>6. ServedFresh'
    BY <1>5 DEF ServedFresh
  <1> QED
    BY <1>3, <1>4, <1>6

(* Changing the file of a tenant and evicting what was built on it.        *)
LEMMA ChangeStep ==
    ASSUME IInv, NEW t \in Tenants, NEW blob \in Blob \union {None},
           disk' = [disk EXCEPT ![t] = blob], secret' = secret, Invalidate(t)
    PROVE  /\ disk' \in [Tenants -> Blob \union {None}]
           /\ cache' \in [Tenants -> ProviderConfigStored \union {None, Uncached}]
           /\ providers' \in [Slots -> Provider \union {Uncached}]
           /\ retrievals' \in [Slots -> Embeddings \union {Uncached}]
           /\ Coherent'
  <1> USE DEF IInv
  <1>1. \A u \in Tenants \ {t} : Readable(u)' = Readable(u)
    BY DEF Readable, TypeOK
  <1>2. \A u \in Tenants : cache'[u] = IF u = t THEN Uncached ELSE cache[u]
    BY DEF Invalidate, TypeOK
  <1>3. \A s \in Slots : /\ providers'[s] = IF s[1] = t THEN Uncached ELSE providers[s]
                         /\ retrievals'[s] = IF s[1] = t THEN Uncached ELSE retrievals[s]
    BY DEF Invalidate, Evicted
  <1>4. Coherent'
    BY <1>1, <1>2, <1>3 DEF Coherent, Slots
  <1> QED
    BY <1>4 DEF TypeOK, Invalidate, Evicted

LEMMA PutStep ==
    ASSUME IInv, NEW t \in Tenants, NEW admin \in BOOLEAN, NEW input \in ProviderConfigInput,
           NEW now \in Times, PutProviderSettings(t, admin, input, now)
    PROVE  IInv'
  <1> DEFINE blob == [secret |-> secret, config |-> Effective(input, Load(t), now)]
  <1>1. blob \in Blob
    BY EffectiveTyped DEF IInv, Blob, TypeOK
  <1>2. /\ disk' = [disk EXCEPT ![t] = blob] /\ secret' = secret /\ Invalidate(t)
        /\ handler'.tenant = t /\ handler'.answer.op = "set" /\ answer' = None
    BY DEF PutProviderSettings
  <1> HIDE DEF blob
  <1>3. TypeOK' /\ Coherent'
    BY <1>1, <1>2, ChangeStep DEF IInv, TypeOK
  <1> QED
    BY <1>2, <1>3 DEF IInv, ServedFresh

LEMMA DeleteStep ==
    ASSUME IInv, NEW t \in Tenants, NEW admin \in BOOLEAN, DeleteProviderSettings(t, admin)
    PROVE  IInv'
  <1>1. disk' = [disk EXCEPT ![t] = None] /\ secret' = secret /\ Invalidate(t)
    BY DEF DeleteProviderSettings
  <1>2. /\ handler' # None => handler'.tenant \in Tenants /\ handler'.answer.op = "deleted"
        /\ answer' # None => answer'.op = "deleted"
    BY DEF DeleteProviderSettings
  <1>3. TypeOK' /\ Coherent'
    BY <1>1, <1>2, ChangeStep DEF IInv, TypeOK
  <1> QED
    BY <1>2, <1>3 DEF IInv, ServedFresh

LEMMA AuditStep ==
    ASSUME IInv, AuditAppend \/ AuditFails
    PROVE  IInv'
  <1>1. UNCHANGED <<disk, secret, cache, providers, retrievals>> /\ handler' = None
    BY DEF AuditAppend, AuditFails, stores, caches
  <1>2. answer'.op \in {"set", "deleted", "error"}
    BY DEF AuditAppend, AuditFails, IInv, TypeOK
  <1>3. TypeOK'
    BY <1>1 DEF IInv, TypeOK
  <1>4. Coherent'
    BY <1>1 DEF IInv, Coherent, Readable
  <1>5. ServedFresh'
    BY <1>2 DEF ServedFresh
  <1> QED
    BY <1>3, <1>4, <1>5 DEF IInv

LEMMA RestartStep ==
    ASSUME IInv, NEW s \in Secrets, Restart(s)
    PROVE  IInv'
  <1>1. TypeOK'
    BY DEF IInv, TypeOK, Restart, stores
  <1>2. Coherent'
    BY DEF Coherent, Restart
  <1>3. ServedFresh'
    BY DEF ServedFresh, Restart
  <1> QED
    BY <1>1, <1>2, <1>3 DEF IInv

(* The three layers of caches agree with the file in every reachable       *)
(* state: after failed writes and appends, restarts, and rotations of the  *)
(* secret, and although two configurations may carry the same time.        *)
THEOREM CachesCoherent == Spec => []IInv
  <1>1. Init => IInv
    BY DEF Init, IInv, TypeOK, Coherent, ServedFresh
  <1>2. IInv /\ [Next]_vars => IInv'
    <2> SUFFICES ASSUME IInv, [Next]_vars PROVE IInv'
      OBVIOUS
    <2>1. CASE UNCHANGED vars
      BY <2>1 DEF vars, stores, caches, IInv, TypeOK, Coherent, ServedFresh, Readable,
                  EffectiveProvider, EffectiveEmbedding
    <2> QED
      BY <2>1, ChatStep, UploadStep, OnlyLoadStep, PutStep, DeleteStep, AuditStep, RestartStep
         DEF Next
  <1> QED
    BY <1>1, <1>2, PTL DEF Spec

(* Every request is served with what its tenant's file holds.              *)
THEOREM ServedFreshHolds == Spec => []ServedFresh
  BY CachesCoherent, PTL DEF IInv

(* No provider outlives the configuration it was built on.                 *)
THEOREM KeysForgottenHolds == Spec => []KeysForgotten
  <1>1. IInv => KeysForgotten
    BY DEF IInv, Coherent, KeysForgotten, EffectiveProvider
  <1> QED
    BY <1>1, CachesCoherent, PTL

(* Only an administrator replaces or removes a stored configuration.       *)
THEOREM OnlyAdminReplacesHolds == Spec => OnlyAdminReplaces
  <1>1. ASSUME TypeOK, [Next]_vars, NEW t \in Tenants, disk[t] # None, disk'[t] # disk[t]
        PROVE  handler'.admin
    <2>1. ASSUME NEW u \in Tenants, NEW admin \in BOOLEAN, NEW input \in ProviderConfigInput,
                 NEW now \in Times, PutProviderSettings(u, admin, input, now)
          PROVE  handler'.admin
      BY <1>1, <2>1 DEF PutProviderSettings, MayPut, HasConfig, TypeOK
    <2>2. ASSUME NEW u \in Tenants, NEW admin \in BOOLEAN, DeleteProviderSettings(u, admin)
          PROVE  handler'.admin
      BY <1>1, <2>2 DEF DeleteProviderSettings, TypeOK
    <2>3. disk' # disk
      BY <1>1
    <2> QED
      BY <1>1, <2>1, <2>2, <2>3 DEF Next, vars, stores, Chat, ChatRaises, Upload, PutFails,
         GetProviderSettings, AuditAppend, AuditFails, Restart
  <1>2. IInv /\ [Next]_vars
          => [\A t \in Tenants : disk[t] # None /\ disk'[t] # disk[t] => handler'.admin]_vars
    BY <1>1 DEF IInv
  <1> QED
    BY <1>2, CachesCoherent, PTL DEF Spec, OnlyAdminReplaces

(* An answer that says it changed the configuration says truly whether the *)
(* embedding has changed.                                                  *)
Announces(said) ==
    said.op = "set" /\ said.before # None => (said.reindex <=> said.config.embedding # said.before)

(* The answer is held by the handler until its audit row is committed.     *)
AnnounceInv ==
    /\ handler # None => Announces(handler.answer)
    /\ answer # None => Announces(answer)

(* A change announces a reindex exactly when it changes the embedding that *)
(* the file held, though it compares with what the cache says.             *)
THEOREM ReindexAnnouncedHolds == Spec => []ReindexAnnounced
  <1>1. Init => AnnounceInv
    BY DEF Init, AnnounceInv
  <1>2. IInv /\ AnnounceInv /\ [Next]_vars => AnnounceInv'
    <2> SUFFICES ASSUME IInv, AnnounceInv, [Next]_vars PROVE AnnounceInv'
      OBVIOUS
    <2>1. ASSUME NEW t \in Tenants, NEW admin \in BOOLEAN, NEW input \in ProviderConfigInput,
                 NEW now \in Times, PutProviderSettings(t, admin, input, now)
          PROVE  AnnounceInv'
      <3> DEFINE config == Effective(input, Load(t), now)
                 before == IF disk[t] = None THEN DefaultEmbedding
                           ELSE IF Readable(t) = None THEN None ELSE Readable(t).embedding
      <3>1. before # None => before = Baseline(Load(t))
        BY LoadIsReadable DEF IInv, Readable, Baseline
      <3>2. /\ handler'.answer.op = "set" /\ handler'.answer.config = config
            /\ handler'.answer.reindex = (config.embedding # Baseline(Load(t)))
            /\ handler'.answer.before = before
            /\ answer' = None
        BY <2>1 DEF PutProviderSettings
      <3> HIDE DEF config, before
      <3> QED
        BY <3>1, <3>2 DEF AnnounceInv, Announces
    <2>2. ASSUME NEW t \in Tenants, NEW admin \in BOOLEAN, DeleteProviderSettings(t, admin)
          PROVE  AnnounceInv'
      BY <2>2 DEF DeleteProviderSettings, AnnounceInv, Announces
    <2>3. CASE AuditAppend \/ AuditFails
      BY <2>3 DEF AuditAppend, AuditFails, AnnounceInv, Announces
    <2>4. ASSUME NEW t \in Tenants,
                 Chat(t) \/ ChatRaises(t) \/ Upload(t) \/ GetProviderSettings(t) \/ PutFails(t)
          PROVE  AnnounceInv'
      BY <2>4 DEF Chat, ChatRaises, Upload, GetProviderSettings, PutFails, AnnounceInv, Announces
    <2>5. ASSUME NEW s \in Secrets, Restart(s) PROVE AnnounceInv'
      BY <2>5 DEF Restart, AnnounceInv
    <2>6. CASE UNCHANGED vars
      BY <2>6 DEF vars, AnnounceInv, Announces
    <2> QED
      BY <2>1, <2>2, <2>3, <2>4, <2>5, <2>6 DEF Next
  <1>3. AnnounceInv => ReindexAnnounced
    BY DEF AnnounceInv, Announces, ReindexAnnounced
  <1> QED
    BY <1>1, <1>2, <1>3, CachesCoherent, PTL DEF Spec
=============================================================================
