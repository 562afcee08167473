---------------------------- MODULE BrowserSession ----------------------------
(***************************************************************************)
(* What every handler of the browser page shares: the tenant and matter    *)
(* fields and the cache of the bearer token (getToken in ui/app.js).  The  *)
(* handlers of ui/app.js are in BrowserClient, those of the settings panel *)
(* in SettingsPanel; each sees of the other what it leaves in the cache.   *)
(***************************************************************************)
CONSTANTS
    Scopes,             \* pairs of a tenant and a matter
    None

VARIABLES
    scope,              \* currentScope(): the tenant and matter fields
    token               \* state.token, by the scope it was issued for, and state.tokenScope

session == <<scope, token>>

NoToken == [issued |-> None, scope |-> None]

-----------------------------------------------------------------------------
(* Mutant: a token is used whatever the scope it was issued for.           *)
CachedToken_Mutant(s) == IF token.issued # None THEN token.issued ELSE None

(* getToken: the cached token when it is of the current scope, else a new  *)
(* one, which the handler has to wait for.                                 *)
CachedToken(s) == IF token.issued # None /\ token.scope = s THEN token.issued ELSE None

(* /dev/token answers a handler that read scope s before it waited: the    *)
(* token is cached under s, whatever scope the page is in by now.          *)
Cache(s) == token' = [issued |-> s, scope |-> s]

(* The answer is for a handler of another part of the page.                *)
CachedElsewhere == \E s \in Scopes : Cache(s) /\ UNCHANGED scope
=============================================================================
