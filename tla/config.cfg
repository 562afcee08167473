\* Two tenants, a secret that rotates, and a clock that may stand still.
SPECIFICATION Spec
SYMMETRY ConfigSymmetry
CONSTANTS
    t1 = t1  t2 = t2  k1 = k1  k2 = k2  s1 = s1  s2 = s2
    hash = hash  bge = bge  other = other  now1 = now1  now2 = now2
    None = None  Uncached = Uncached
    Tenants = {t1, t2}
    Secrets = {s1, s2}
    Keys = {k1}
    Embeddings = {hash, bge}
    DefaultEmbedding = hash
    Times = {now1, now2}
INVARIANTS
    ServedFresh
    KeysForgotten
    ReindexAnnounced
PROPERTIES
    OnlyAdminReplaces
