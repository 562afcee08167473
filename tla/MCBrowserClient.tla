--------------------------- MODULE MCBrowserClient ---------------------------
(***************************************************************************)
(* Small instances of BrowserClient and of SettingsPanel, of which one is  *)
(* chosen at the start: they share only the scope and the token, and each  *)
(* has the other's effect on the token as a step.  Matter m1 may hold a    *)
(* text and a PDF, m2 a text; m3 is the only matter of a tenant of its own. *)
(***************************************************************************)
EXTENDS BrowserClient, SettingsPanel, TLC

CONSTANTS m1, m2, m3, text1, pdf1, text2, t1, t2, c1, c2, a1, a2

VARIABLE part  \* the one that runs

MCScopeOf == [d \in Docs |-> IF d = text2 THEN m2 ELSE m1]
MCTenantOf == (m1 :> a1) @@ (m2 :> a1) @@ (m3 :> a2)

(* Bound: two matters in the client, as many as a handler can confuse.     *)
InBounds == part = "client" => m3 \notin {scope, token.scope}

MCInit ==
    /\ Init /\ PanelInit
    /\ part \in {"client", "panel"}
    /\ InBounds

MCNext ==
    /\ \/ part = "client" /\ Next /\ UNCHANGED <<panel, call, strayed>>
       \/ part = "panel" /\ PanelNext /\ UNCHANGED <<sources, chat, viewer, task>>
    /\ UNCHANGED part
    /\ InBounds'

MCSpec == MCInit /\ [][MCNext]_<<vars, panelVars, part>>

(* Suspended handlers differ by nothing but the slot they are kept in.     *)
SlotSymmetry == Permutations(Tasks) \union Permutations(Calls)
=============================================================================
