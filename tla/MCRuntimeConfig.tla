--------------------------- MODULE MCRuntimeConfig ---------------------------
(***************************************************************************)
(* Small instances of RuntimeConfig.                                       *)
(***************************************************************************)
EXTENDS RuntimeConfig, TLC

CONSTANTS t1, t2, k1, k2, hash, bge, other, s1, s2, now1, now2

(* Tenants, keys, secrets and clock readings differ only in name.          *)
ConfigSymmetry ==
    Permutations(Tenants) \union Permutations(Keys) \union Permutations(Secrets)
        \union Permutations(Times)
=============================================================================
