---------------------------- MODULE SettingsPanel ----------------------------
(***************************************************************************)
(* The provider settings of a tenant in the browser, ui/settings_panel.js: *)
(* a status line on the page and a dialog over it.  The dialog keeps the   *)
(* user from the rest of the page, but the settings it shows are awaited   *)
(* before it opens, and what was asked for one tenant may arrive in        *)
(* another.                                                                *)
(*                                                                         *)
(* What is in the form is the tenant it was filled for; models, URLs and   *)
(* the conditional fields are left out.                                    *)
(***************************************************************************)
EXTENDS BrowserSession

CONSTANTS
    TenantOf,           \* TenantOf[s]: the tenant of scope s
    Calls               \* bound: handlers of the panel suspended at a time

VARIABLES
    panel,              \* the nodes of the panel, and lastFetchScope
    call,               \* the suspended handlers and the timers of closeModal
    strayed             \* observes: since the tenant was chosen, a handler of another one wrote

panelVars == <<session, panel, call, strayed>>

Tenants == {TenantOf[s] : s \in Scopes}
Tenant == TenantOf[scope]

(* form and status: the tenant whose settings they show, None when they    *)
(* show no tenant's; key: the tenant the page was in when the key in the   *)
(* form was typed; last: lastFetchScope.                                   *)
Panel ==
    [open: BOOLEAN, form: Tenants \union {None}, key: Tenants \union {None},
     status: Tenants \union {None}, last: Tenants]

(* scope: currentScope() at the click; key: the key in the request's body. *)
Call ==
    [kind: {"status", "open", "save", "forget", "timer"}, at: {"token", "response"},
     scope: Scopes, issued: Scopes \union {None}, key: Tenants \union {None}]

ASSUME PanelAssumption == None \notin Scopes \union Call

-----------------------------------------------------------------------------
CallIn(kind, s, cached, key) ==
    [kind |-> kind, at |-> IF cached = None THEN "token" ELSE "response",
     scope |-> s, issued |-> cached, key |-> key]

Start(record) == \E i \in Calls : call[i] = None /\ call' = [call EXCEPT ![i] = record]
Finished(i) == call' = [call EXCEPT ![i] = None]
Awaited(i, kind) == call[i] # None /\ call[i].kind = kind /\ call[i].at = "response"

(* The handler is of a tenant that the page has left.                      *)
Stray(i) == TenantOf[call[i].scope] # Tenant

(* Mutant: a key that was typed stays in the form.                         *)
Populated_Mutant(shown, tenant) == [shown EXCEPT !.form = tenant]

(* populateForm: the tenant's settings, or defaults, and an empty key.     *)
Populated(shown, tenant) == [shown EXCEPT !.form = tenant, !.key = None]

(* The panel asks for the status of the first tenant.                      *)
PanelInit ==
    /\ scope \in Scopes
    /\ token = NoToken
    /\ panel = [open |-> FALSE, form |-> None, key |-> None, status |-> None, last |-> Tenant]
    /\ \E first \in Calls :
          call = [i \in Calls |-> IF i = first THEN CallIn("status", scope, None, None) ELSE None]
    /\ strayed = FALSE

-----------------------------------------------------------------------------
CallGetsToken(i) ==
    /\ call[i] # None /\ call[i].at = "token"
    /\ Cache(call[i].scope)
    /\ call' = [call EXCEPT ![i].at = "response", ![i].issued = call[i].scope]
    /\ UNCHANGED <<scope, panel, strayed>>

(* refreshStatus, on the tenant's change event.  Typing has cleared the    *)
(* token by then, the setup dialog clears it afterwards.                   *)
RefreshStatus(s) ==
    /\ panel' = [panel EXCEPT !.last = TenantOf[s]]
    /\ \E cached \in {None, CachedToken(s)} : Start(CallIn("status", s, cached, None))

(* The user chooses another tenant or matter, which a dialog prevents.     *)
(* The setup dialog sends the tenant's change event for both.              *)
ChooseScope(s) ==
    /\ ~panel.open /\ s # scope
    /\ scope' = s
    /\ token' = NoToken
    /\ \/ RefreshStatus(s)
       \/ TenantOf[s] = Tenant /\ UNCHANGED <<panel, call>>
    /\ strayed' = (strayed /\ TenantOf[s] = Tenant)

(* Only the latest refreshStatus writes, unless it failed.                 *)
StatusArrives(i) ==
    /\ Awaited(i, "status")
    /\ panel' = IF panel.last = TenantOf[call[i].scope]
                THEN [panel EXCEPT !.status = TenantOf[call[i].scope]]
                ELSE panel
    /\ Finished(i)
    /\ UNCHANGED <<session, strayed>>

-----------------------------------------------------------------------------
OpenModal ==
    /\ ~panel.open
    /\ Start(CallIn("open", scope, CachedToken(scope), None))
    /\ UNCHANGED <<session, panel, strayed>>

(* The form is filled, and only then shown, over any tenant.               *)
ModalOpens(i) ==
    /\ Awaited(i, "open")
    /\ panel' = [Populated(panel, TenantOf[call[i].scope])
                    EXCEPT !.status = TenantOf[call[i].scope], !.open = TRUE]
    /\ strayed' = Stray(i)
    /\ Finished(i)
    /\ UNCHANGED session

TypeKey ==
    /\ panel.open
    /\ panel' = [panel EXCEPT !.key = Tenant]
    /\ UNCHANGED <<session, call, strayed>>

(* The button, or Escape.                                                  *)
CloseModal ==
    /\ panel.open
    /\ panel' = [panel EXCEPT !.open = FALSE]
    /\ UNCHANGED <<session, call, strayed>>

SaveSettings ==
    /\ panel.open
    /\ Start(CallIn("save", scope, CachedToken(scope), panel.key))
    /\ UNCHANGED <<session, panel, strayed>>

DeleteSettings ==
    /\ panel.open
    /\ Start(CallIn("forget", scope, CachedToken(scope), None))
    /\ UNCHANGED <<session, panel, strayed>>

(* The handler ends, and leaves a timer that will close the dialog.        *)
Timed(i) == call' = [call EXCEPT ![i] = CallIn("timer", call[i].scope, call[i].issued, None)]

Saved(i) ==
    /\ Awaited(i, "save")
    /\ panel' = [panel EXCEPT !.key = None, !.status = TenantOf[call[i].scope]]
    /\ strayed' = (strayed \/ Stray(i))
    /\ Timed(i)
    /\ UNCHANGED session

Forgotten(i) ==
    /\ Awaited(i, "forget")
    /\ panel' = [Populated(panel, TenantOf[call[i].scope])
                    EXCEPT !.status = TenantOf[call[i].scope]]
    /\ strayed' = (strayed \/ Stray(i))
    /\ Timed(i)
    /\ UNCHANGED session

(* Also a dialog that was opened again meanwhile is closed.                *)
TimerFires(i) ==
    /\ Awaited(i, "timer")
    /\ panel' = [panel EXCEPT !.open = FALSE]
    /\ Finished(i)
    /\ UNCHANGED <<session, strayed>>

-----------------------------------------------------------------------------
(* A fetch rejects or is refused.  refreshStatus shows the error whatever  *)
(* the tenant is by now; openModal opens with defaults; the others leave   *)
(* the form as it is.                                                      *)
StatusFails(i) == call[i].kind = "status" /\ panel' = [panel EXCEPT !.status = None]

OpenFails(i) ==
    /\ call[i].kind = "open"
    /\ panel' = [Populated(panel, None) EXCEPT !.status = None, !.open = TRUE]

ChangeFails(i) == call[i].kind \in {"save", "forget"} /\ UNCHANGED panel

CallFails(i) ==
    /\ call[i] # None
    /\ StatusFails(i) \/ OpenFails(i) \/ ChangeFails(i)
    /\ Finished(i)
    /\ UNCHANGED <<session, strayed>>

(* A handler of the page gets a token.                                     *)
PageToken == CachedElsewhere /\ UNCHANGED <<panel, call, strayed>>

PanelNext ==
    \/ OpenModal \/ TypeKey \/ CloseModal \/ SaveSettings \/ DeleteSettings
    \/ \E s \in Scopes : ChooseScope(s)
    \/ PageToken
    \/ \E i \in Calls :
        \/ CallGetsToken(i) \/ StatusArrives(i) \/ ModalOpens(i) \/ Saved(i)
        \/ Forgotten(i) \/ TimerFires(i) \/ CallFails(i)

PanelSpec == PanelInit /\ [][PanelNext]_panelVars

-----------------------------------------------------------------------------
(* The type of every variable of the panel.                                *)
PanelTypeOK ==
    /\ scope \in Scopes
    /\ token \in [issued: Scopes \union {None}, scope: Scopes \union {None}]
    /\ panel \in Panel
    /\ call \in [Calls -> Call \union {None}]
    /\ strayed \in BOOLEAN

InFlightCalls(kind) == {i \in Calls : call[i] # None /\ call[i].kind = kind}

(* A key is sent only for the tenant it was typed in: neither a dialog     *)
(* that is closed and opened in another tenant nor a request that has to   *)
(* wait for a token takes it along (populateForm, settings_panel.js:51-67; *)
(* saveSettings, 111-147).                                                 *)
KeysStayHome ==
    \A i \in InFlightCalls("save") :
        call[i].at = "response" => call[i].key \in {None, TenantOf[call[i].issued]}

(* The form that can be saved is filled for the tenant it would be saved   *)
(* for, unless a handler of a tenant left behind has filled it since: the  *)
(* dialog opens over any tenant (openModal, settings_panel.js:82-101).     *)
FormCurrent ==
    panel.open => panel.form \in {None, Tenant} \/ strayed

(* Once no status is awaited, the line shows that of the tenant chosen, in *)
(* whatever order the answers came, with the same exception (refreshStatus,*)
(* settings_panel.js:69-80).                                               *)
StatusCurrent ==
    InFlightCalls("status") = {} => panel.status \in {None, Tenant} \/ strayed

(* The panel neither sends a key to another tenant nor shows one tenant's  *)
(* settings as another's.                                                  *)
PanelSafe == KeysStayHome /\ FormCurrent /\ StatusCurrent
=============================================================================
