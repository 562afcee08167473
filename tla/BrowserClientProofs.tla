------------------------- MODULE BrowserClientProofs -------------------------
(***************************************************************************)
(* The safety of BrowserClient and of SettingsPanel, for any tenants,      *)
(* matters, documents and number of handlers in flight.                    *)
(***************************************************************************)
EXTENDS BrowserClient, SettingsPanel, TLAPS

(* The cached token is kept with the scope it was issued for.              *)
TokenTold == token.issued # None => token.issued = token.scope

(* A handler that opens a document knows the passage to show, and one that *)
(* renders pages has a PDF.                                                *)
PassageKnown ==
    \A i \in Tasks :
        /\ task[i] # None /\ task[i].kind \in {"text", "pdf", "page"} => task[i].passage \in Passages
        /\ task[i] # None /\ task[i].kind \in {"pdf", "page"} => task[i].passage.doc \in Pdf

(* Requests and the cache are coherent, the button follows the questions,  *)
(* and the selection the list.                                             *)
ClientInv == TypeOK /\ TokenTold /\ PassageKnown /\ RequestScoped /\ SelectionListed /\ ButtonHonest

USE ClientAssumption, NoneAssumption, PanelAssumption

(* A handler suspends with a token of the scope it runs in, or with none.  *)
LEMMA CachedTokenScoped ==
    ASSUME TypeOK, TokenTold, NEW s \in Scopes
    PROVE  CachedToken(s) \in {s, None}
BY DEF TypeOK, TokenTold, CachedToken

LEMMA SuspendedSound ==
    ASSUME NEW kind \in Kinds, NEW s \in Scopes, NEW cached \in {s, None},
           NEW docs \in SUBSET Docs, NEW passage \in Passages \union {None}
    PROVE  /\ Suspended(kind, s, cached, docs, passage) \in Task
           /\ Suspended(kind, s, cached, docs, passage) # None
           /\ Suspended(kind, s, cached, docs, passage).kind = kind
           /\ Suspended(kind, s, cached, docs, passage).passage = passage
           /\ Suspended(kind, s, cached, docs, passage).at = "response" =>
                 Suspended(kind, s, cached, docs, passage).issued =
                 Suspended(kind, s, cached, docs, passage).scope
BY DEF Suspended, Task

(* What one more handler in flight, or one less, means for the slots.      *)
LEMMA SlotFilled ==
    ASSUME TypeOK, PassageKnown, RequestScoped, NEW record \in Task, Suspend(record),
           record.at = "response" => record.issued = record.scope,
           record.kind \in {"text", "pdf", "page"} => record.passage \in Passages,
           record.kind \in {"pdf", "page"} => record.passage.doc \in Pdf
    PROVE  task' \in [Tasks -> Task \union {None}] /\ PassageKnown' /\ RequestScoped'
<1>1. PICK i \in Tasks : task[i] = None /\ task' = [task EXCEPT ![i] = record]
  BY DEF Suspend
<1>2. task' \in [Tasks -> Task \union {None}]
  BY <1>1 DEF TypeOK
<1>3. \A j \in Tasks : task'[j] = IF j = i THEN record ELSE task[j]
  BY <1>1 DEF TypeOK
<1> QED
  BY <1>2, <1>3 DEF PassageKnown, RequestScoped

LEMMA SlotEmptied ==
    ASSUME TypeOK, PassageKnown, RequestScoped, NEW i \in Tasks, Ended(i)
    PROVE  task' \in [Tasks -> Task \union {None}] /\ PassageKnown' /\ RequestScoped'
<1>1. \A j \in Tasks : task'[j] = IF j = i THEN None ELSE task[j]
  BY DEF Ended, TypeOK
<1> QED
  BY <1>1 DEF Ended, TypeOK, PassageKnown, RequestScoped

-----------------------------------------------------------------------------
LEMMA ClientInit == Init => ClientInv
<1> SUFFICES ASSUME Init PROVE ClientInv
  OBVIOUS
<1>1. PICK first \in Tasks :
        task = [i \in Tasks |->
                  IF i = first THEN Suspended("list", scope, None, {}, None) ELSE None]
  BY DEF Init
<1>2. /\ Suspended("list", scope, None, {}, None) \in Task
      /\ Suspended("list", scope, None, {}, None).kind = "list"
      /\ Suspended("list", scope, None, {}, None).at = "token"
  BY DEF Init, Suspended, Task, Kinds
<1>3. TypeOK
  BY <1>1, <1>2 DEF Init, TypeOK, NoToken, ResetViewer, Viewer
<1>4. PassageKnown /\ RequestScoped
  BY <1>1, <1>2 DEF PassageKnown, RequestScoped
<1>5. ButtonHonest
  BY <1>1, <1>2 DEF Init, ButtonHonest, InFlight
<1> QED
  BY <1>3, <1>4, <1>5 DEF Init, ClientInv, TokenTold, NoToken, SelectionListed

(* A handler that suspends without asking a question leaves the button.    *)
LEMMA OthersSuspend ==
    ASSUME TypeOK, ButtonHonest, UNCHANGED asking, NEW record \in Task,
           Suspend(record), record.kind # "ask"
    PROVE  ButtonHonest'
<1>1. PICK i \in Tasks : task[i] = None /\ task' = [task EXCEPT ![i] = record]
  BY DEF Suspend
<1>2. \A j \in Tasks : task'[j] = IF j = i THEN record ELSE task[j]
  BY <1>1 DEF TypeOK
<1> QED
  BY <1>1, <1>2 DEF ButtonHonest, InFlight

(* A handler that ends without having asked leaves the button.             *)
LEMMA OthersEnd ==
    ASSUME TypeOK, ButtonHonest, UNCHANGED asking, NEW i \in Tasks,
           Ended(i), task[i].kind # "ask"
    PROVE  ButtonHonest'
<1>1. \A j \in Tasks : task'[j] = IF j = i THEN None ELSE task[j]
  BY DEF Ended, TypeOK
<1> QED
  BY <1>1 DEF ButtonHonest, InFlight

(* The handler that asked ends, and enables the button.                    *)
LEMMA QuestionEnds ==
    ASSUME TypeOK, ButtonHonest, asking' = FALSE, NEW i \in Tasks,
           Ended(i), task[i] # None, task[i].kind = "ask"
    PROVE  ButtonHonest'
<1>1. \A j \in Tasks : task'[j] = IF j = i THEN None ELSE task[j]
  BY DEF Ended, TypeOK
<1>2. \A j \in InFlight({"ask"}) : j = i
  BY DEF ButtonHonest, InFlight
<1>3. InFlight({"ask"})' = {}
  BY <1>1, <1>2 DEF InFlight
<1> QED
  BY <1>3 DEF ButtonHonest

LEMMA OpenDocumentStep ==
    ASSUME ClientInv, NEW p \in Passages, OpenDocument(p)
    PROVE  ClientInv'
<1> DEFINE kind == IF p.doc \in Pdf THEN "pdf" ELSE "text"
           record == Suspended(kind, scope, CachedToken(scope), {}, p)
<1>1. CachedToken(scope) \in {scope, None} /\ scope \in Scopes /\ kind \in Kinds
  BY CachedTokenScoped DEF ClientInv, TypeOK, Kinds
<1>2. /\ record \in Task /\ record.kind = kind /\ record.passage = p
      /\ record.at = "response" => record.issued = record.scope
  BY <1>1, SuspendedSound
<1>3. Suspend(record)
  BY DEF OpenDocument
<1> HIDE DEF record
<1>4. task' \in [Tasks -> Task \union {None}] /\ PassageKnown' /\ RequestScoped'
  BY <1>2, <1>3, SlotFilled DEF ClientInv
<1>5. ButtonHonest'
  BY <1>2, <1>3, OthersSuspend DEF ClientInv, OpenDocument, chat
<1>6. viewer' \in Viewer
  BY DEF OpenDocument, ClientInv, TypeOK, Viewer, Passages
<1> QED
  BY <1>4, <1>5, <1>6
     DEF OpenDocument, ClientInv, TypeOK, TokenTold, SelectionListed, session, sources, chat

LEMMA ClientNext == ClientInv /\ [Next]_vars => ClientInv'
<1> SUFFICES ASSUME ClientInv, [Next]_vars PROVE ClientInv'
  OBVIOUS
<1> USE DEF ClientInv
<1>1. ASSUME NEW i \in Tasks, TokenArrives(i) PROVE ClientInv'
  <2>1. \A j \in Tasks : j # i => task'[j] = task[j]
    BY <1>1 DEF TokenArrives, TypeOK
  <2>2. /\ task'[i] \in Task /\ task'[i] # None
        /\ task'[i].kind = task[i].kind /\ task'[i].passage = task[i].passage
        /\ task'[i].issued = task[i].scope /\ task'[i].scope = task[i].scope
    <3> DEFINE sent == [task[i] EXCEPT !.at = "response", !.issued = task[i].scope]
    <3>1. task[i] \in Task
      BY <1>1 DEF TokenArrives, TypeOK
    <3>2. task'[i] = sent
      BY <1>1 DEF TokenArrives, TypeOK
    <3>3. sent \in Task
      BY <3>1 DEF Task
    <3>4. /\ sent.kind = task[i].kind /\ sent.passage = task[i].passage
          /\ sent.issued = task[i].scope /\ sent.scope = task[i].scope
      BY <3>1 DEF Task
    <3> HIDE DEF sent
    <3> QED
      BY <3>2, <3>3, <3>4
  <2>3. TypeOK'
    BY <1>1, <2>2 DEF TokenArrives, Cache, TypeOK, sources, chat, Task
  <2>4. PassageKnown' /\ RequestScoped'
    BY <1>1, <2>1, <2>2 DEF TokenArrives, PassageKnown, RequestScoped
  <2>5. ButtonHonest'
    <3>1. InFlight({"ask"})' = InFlight({"ask"})
      BY <1>1, <2>1, <2>2 DEF TokenArrives, InFlight
    <3> QED
      BY <1>1, <3>1 DEF TokenArrives, ButtonHonest, chat
  <2> QED
    BY <1>1, <2>3, <2>4, <2>5 DEF TokenArrives, Cache, TokenTold, SelectionListed, sources
<1>2. CASE Refresh
  <2> DEFINE record == Suspended("list", scope, CachedToken(scope), {}, None)
  <2>1. /\ record \in Task /\ record.kind = "list"
        /\ record.at = "response" => record.issued = record.scope
    BY CachedTokenScoped, SuspendedSound DEF TypeOK, Kinds
  <2>2. Suspend(record)
    BY <1>2 DEF Refresh
  <2> HIDE DEF record
  <2> QED
    BY <1>2, <2>1, <2>2, SlotFilled, OthersSuspend
       DEF Refresh, TypeOK, TokenTold, SelectionListed, session, sources, chat
<1>3. ASSUME NEW i \in Tasks, ListArrives(i) PROVE ClientInv'
  <2>1. task[i].kind = "list" /\ Ended(i)
    BY <1>3 DEF ListArrives, Awaits
  <2>2. documents' \subseteq Docs /\ selected' \subseteq documents'
    BY <1>3 DEF ListArrives, Listed
  <2> QED
    BY <1>3, <2>1, <2>2, SlotEmptied, OthersEnd
       DEF ListArrives, TypeOK, TokenTold, SelectionListed, session, chat
<1>4. ASSUME NEW s \in Scopes, ChangeScope(s) PROVE ClientInv'
  <2> DEFINE record == Suspended("list", s, None, {}, None)
  <2>1. /\ record \in Task /\ record.kind = "list"
        /\ record.at = "response" => record.issued = record.scope
    BY SuspendedSound DEF Kinds
  <2>2. Suspend(record)
    BY <1>4 DEF ChangeScope
  <2> HIDE DEF record
  <2>3. viewer' \in Viewer /\ token' = NoToken
    BY <1>4 DEF ChangeScope, ResetViewer, Viewer
  <2> QED
    BY <1>4, <2>1, <2>2, <2>3, SlotFilled, OthersSuspend
       DEF ChangeScope, TypeOK, TokenTold, SelectionListed, NoToken, sources, chat
<1>5. ASSUME NEW d \in Docs, Toggle(d) PROVE ClientInv'
  BY <1>5 DEF Toggle, TypeOK, TokenTold, PassageKnown, RequestScoped, SelectionListed,
              ButtonHonest, InFlight, session, chat
<1>6. CASE Ask
  <2> DEFINE record == Suspended("ask", scope, CachedToken(scope), selected \intersect documents, None)
  <2>1. /\ record \in Task /\ record # None /\ record.kind = "ask"
        /\ record.at = "response" => record.issued = record.scope
    BY CachedTokenScoped, SuspendedSound DEF TypeOK, Kinds
  <2>2. Suspend(record)
    BY <1>6 DEF Ask
  <2> HIDE DEF record
  <2>3. task' \in [Tasks -> Task \union {None}] /\ PassageKnown' /\ RequestScoped'
    BY <2>1, <2>2, SlotFilled
  <2>4. ButtonHonest'
    <3>1. PICK i \in Tasks : task[i] = None /\ task' = [task EXCEPT ![i] = record]
      BY <2>2 DEF Suspend
    <3>2. \A j \in Tasks : task'[j] = IF j = i THEN record ELSE task[j]
      BY <3>1 DEF TypeOK
    <3>3. InFlight({"ask"})' = {i}
      BY <1>6, <2>1, <3>2 DEF Ask, ButtonHonest, InFlight
    <3> QED
      BY <1>6, <3>3 DEF Ask, ButtonHonest
  <2>5. viewer' \in Viewer
    BY <1>6 DEF Ask, ResetViewer, Viewer
  <2> QED
    BY <1>6, <2>3, <2>4, <2>5 DEF Ask, TypeOK, TokenTold, SelectionListed, session, sources
<1>7. ASSUME NEW i \in Tasks, AskArrives(i) PROVE ClientInv'
  <2>1. task[i] # None /\ task[i].kind = "ask" /\ Ended(i) /\ asking' = FALSE
    BY <1>7 DEF AskArrives, Awaits
  <2>2. cited' \subseteq Citations
    BY <1>7 DEF AskArrives, TypeOK
  <2> QED
    BY <1>7, <2>1, <2>2, SlotEmptied, QuestionEnds
       DEF AskArrives, TypeOK, TokenTold, SelectionListed, session, sources
<1>8. ASSUME NEW d \in Docs, ClickDocument(d) PROVE ClientInv'
  BY <1>8, OpenDocumentStep DEF ClickDocument, Passages
<1>9. ASSUME NEW c \in Citations, OpenCitation(c) PROVE ClientInv'
  BY <1>9, OpenDocumentStep DEF OpenCitation, Passages, Citations
<1>10. ASSUME NEW c \in Citations, UnlistedCitation(c) PROVE ClientInv'
  BY <1>10 DEF UnlistedCitation, TypeOK, Viewer, TokenTold, PassageKnown, RequestScoped,
               SelectionListed, ButtonHonest, InFlight, session, sources, chat
<1>11. ASSUME NEW i \in Tasks, TextArrives(i) PROVE ClientInv'
  <2>1. task[i] # None /\ task[i].kind = "text" /\ Ended(i)
    BY <1>11 DEF TextArrives, Awaits
  <2>2. viewer' \in Viewer
    BY <1>11, <2>1 DEF TextArrives, ShowViewer, PassageKnown, TypeOK, Viewer
  <2> QED
    BY <1>11, <2>1, <2>2, SlotEmptied, OthersEnd
       DEF TextArrives, TypeOK, TokenTold, SelectionListed, session, sources, chat
<1>12. ASSUME NEW i \in Tasks, PdfLoads(i) PROVE ClientInv'
  <2>1. task[i] # None /\ task[i].kind = "pdf" /\ task[i] \in Task
    BY <1>12 DEF PdfLoads, Awaits, TypeOK
  <2>2. \A j \in Tasks : j # i => task'[j] = task[j]
    BY <1>12 DEF PdfLoads, TypeOK
  <2>3. /\ task'[i] \in Task /\ task'[i].kind = "page"
        /\ task'[i].passage = task[i].passage /\ task'[i].at = task[i].at
        /\ task'[i].issued = task[i].issued /\ task'[i].scope = task[i].scope
    BY <1>12, <2>1 DEF PdfLoads, TypeOK, Task, Kinds
  <2>4. task' \in [Tasks -> Task \union {None}]
    BY <1>12, <2>3 DEF PdfLoads, TypeOK
  <2>5. PassageKnown' /\ RequestScoped'
    BY <2>1, <2>2, <2>3 DEF PassageKnown, RequestScoped
  <2>6. ButtonHonest'
    BY <1>12, <2>1, <2>2, <2>3 DEF PdfLoads, ButtonHonest, InFlight, chat
  <2>7. viewer' \in Viewer
    BY <1>12, <2>1 DEF PdfLoads, PassageKnown, TypeOK, Viewer
  <2> QED
    BY <1>12, <2>4, <2>5, <2>6, <2>7
       DEF PdfLoads, TypeOK, TokenTold, SelectionListed, session, sources, chat
<1>13. ASSUME NEW i \in Tasks, PageArrives(i) PROVE ClientInv'
  <2>1. task[i] # None /\ task[i].kind = "page" /\ Ended(i)
    BY <1>13 DEF PageArrives, Awaits
  <2>2. viewer' \in Viewer
    BY <1>13, <2>1 DEF PageArrives, PassageKnown, TypeOK, Viewer, Passages
  <2> QED
    BY <1>13, <2>1, <2>2, SlotEmptied, OthersEnd
       DEF PageArrives, TypeOK, TokenTold, SelectionListed, session, sources, chat
<1>14. CASE TurnPage
  <2> DEFINE record == Suspended("page", scope, scope, {}, [doc |-> viewer.pdf, quote |-> NoQuote])
  <2>1. viewer.pdf \in Pdf
    BY <1>14 DEF TurnPage, TypeOK, Viewer
  <2>2. [doc |-> viewer.pdf, quote |-> NoQuote] \in Passages
    BY <2>1 DEF Passages
  <2>3. /\ record \in Task /\ record.kind = "page"
        /\ record.passage = [doc |-> viewer.pdf, quote |-> NoQuote]
        /\ record.at = "response" => record.issued = record.scope
    BY <2>2, SuspendedSound DEF TypeOK, Kinds
  <2>4. Suspend(record)
    BY <1>14 DEF TurnPage
  <2> HIDE DEF record
  <2>5. task' \in [Tasks -> Task \union {None}] /\ PassageKnown' /\ RequestScoped'
    BY <2>1, <2>2, <2>3, <2>4, SlotFilled
  <2> QED
    BY <1>14, <2>3, <2>4, <2>5, OthersSuspend
       DEF TurnPage, TypeOK, TokenTold, SelectionListed, session, sources, chat
<1>15. CASE CloseDrawer
  BY <1>15 DEF CloseDrawer, TypeOK, Viewer, TokenTold, PassageKnown, RequestScoped,
               SelectionListed, ButtonHonest, InFlight, session, sources, chat
<1>16. ASSUME NEW i \in Tasks, Fails(i) PROVE ClientInv'
  <2>1. task[i] # None /\ Ended(i)
    BY <1>16 DEF Fails
  <2>2. ButtonHonest'
    <3>1. CASE AskFails(i)
      BY <2>1, <3>1, QuestionEnds DEF AskFails, Awaits
    <3>2. CASE TextFails(i)
      BY <2>1, <3>2, OthersEnd DEF TextFails, Awaits
    <3>3. CASE OtherFails(i)
      BY <2>1, <3>3, OthersEnd DEF OtherFails
    <3> QED
      BY <1>16, <3>1, <3>2, <3>3 DEF Fails
  <2>3. viewer' \in Viewer /\ asking' \in BOOLEAN
    BY <1>16 DEF Fails, AskFails, TextFails, OtherFails, ShowViewer, TypeOK, Viewer
  <2> QED
    BY <1>16, <2>1, <2>2, <2>3, SlotEmptied
       DEF Fails, TypeOK, TokenTold, SelectionListed, session, sources
<1>17. CASE Upload
  <2> DEFINE record == Suspended("upload", scope, CachedToken(scope), {}, None)
  <2>1. /\ record \in Task /\ record.kind = "upload"
        /\ record.at = "response" => record.issued = record.scope
    BY CachedTokenScoped, SuspendedSound DEF TypeOK, Kinds
  <2>2. Suspend(record)
    BY <1>17 DEF Upload
  <2> HIDE DEF record
  <2> QED
    BY <1>17, <2>1, <2>2, SlotFilled, OthersSuspend
       DEF Upload, TypeOK, TokenTold, SelectionListed, session, sources, chat
<1>18. ASSUME NEW i \in Tasks, UploadArrives(i) PROVE ClientInv'
  <2> DEFINE record == Suspended("list", scope, CachedToken(scope), {}, None)
  <2>1. /\ record \in Task /\ record.kind = "list"
        /\ record.at = "response" => record.issued = record.scope
    BY CachedTokenScoped, SuspendedSound DEF TypeOK, Kinds
  <2>2. task[i].kind = "upload" /\ task' = [task EXCEPT ![i] = record]
    BY <1>18 DEF UploadArrives, Awaits
  <2> HIDE DEF record
  <2>3. \A j \in Tasks : task'[j] = IF j = i THEN record ELSE task[j]
    BY <2>2 DEF TypeOK
  <2>4. task' \in [Tasks -> Task \union {None}]
    BY <2>1, <2>2 DEF TypeOK
  <2>5. PassageKnown' /\ RequestScoped'
    BY <2>1, <2>3 DEF PassageKnown, RequestScoped
  <2>6. ButtonHonest'
    <3>1. InFlight({"ask"})' = InFlight({"ask"})
      BY <2>1, <2>2, <2>3 DEF InFlight
    <3> QED
      BY <1>18, <3>1 DEF UploadArrives, ButtonHonest, chat
  <2> QED
    BY <1>18, <2>4, <2>5, <2>6
       DEF UploadArrives, TypeOK, TokenTold, SelectionListed, session, sources, chat
<1>19. CASE PanelToken
  BY <1>19 DEF PanelToken, CachedElsewhere, Cache, TypeOK, TokenTold, PassageKnown,
               RequestScoped, SelectionListed, ButtonHonest, InFlight, sources, chat
<1>20. CASE UNCHANGED vars
  BY <1>20 DEF vars, session, sources, chat, TypeOK, TokenTold, PassageKnown, RequestScoped,
               SelectionListed, ButtonHonest, InFlight
<1> QED
  BY <1>1, <1>2, <1>3, <1>4, <1>5, <1>6, <1>7, <1>8, <1>9, <1>10, <1>11, <1>12, <1>13,
     <1>14, <1>15, <1>16, <1>17, <1>18, <1>19, <1>20 DEF Next, User, Arrival

LEMMA ClientInvariant == Spec => []ClientInv
<1> QED
  BY ClientInit, ClientNext, PTL DEF Spec

(* The page's variables keep their types.                                  *)
THEOREM TypeCorrect == Spec => []TypeOK
BY ClientInvariant, PTL DEF ClientInv

(* Every request goes out with a token of the matter it was made in.       *)
THEOREM RequestScopedHolds == Spec => []RequestScoped
BY ClientInvariant, PTL DEF ClientInv

(* Only listed documents are ever selected, and the Ask button follows the *)
(* one question that awaits its answer.                                    *)
THEOREM PageHonestHolds == Spec => []PageHonest
BY ClientInvariant, PTL DEF ClientInv, PageHonest
-----------------------------------------------------------------------------
(* What a suspended handler of the panel knows: its token is of the scope  *)
(* it was called in, and the key it carries was typed in that tenant.      *)
CallsKnow ==
    \A i \in Calls : call[i] # None =>
        /\ call[i].at = "response" => call[i].issued = call[i].scope
        /\ call[i].kind = "save" => call[i].key \in {None, TenantOf[call[i].scope]}

(* While the dialog is open the tenant stays, and so the key is of it.     *)
KeyOfTenant == panel.open => panel.key \in {None, Tenant}

(* The answer that may be shown is awaited, or the line shows it.          *)
StatusComes ==
    \/ panel.status \in {None, Tenant} \/ strayed
    \/ \E i \in InFlightCalls("status") : TenantOf[call[i].scope] = Tenant

PanelInv ==
    /\ PanelTypeOK /\ TokenTold /\ CallsKnow /\ KeyOfTenant /\ FormCurrent
    /\ panel.last = Tenant /\ StatusComes

LEMMA CallInSound ==
    ASSUME NEW kind \in {"status", "open", "save", "forget", "timer"}, NEW s \in Scopes,
           NEW cached \in {s, None}, NEW key \in Tenants \union {None}
    PROVE  /\ CallIn(kind, s, cached, key) \in Call
           /\ CallIn(kind, s, cached, key).kind = kind
           /\ CallIn(kind, s, cached, key).scope = s
           /\ CallIn(kind, s, cached, key).key = key
           /\ CallIn(kind, s, cached, key).at = "response" =>
                 CallIn(kind, s, cached, key).issued = s
BY DEF CallIn, Call

LEMMA PanelTokenScoped ==
    ASSUME PanelTypeOK, TokenTold, NEW s \in Scopes
    PROVE  CachedToken(s) \in {s, None}
BY DEF PanelTypeOK, TokenTold, CachedToken

(* One more handler, or one less, and what the others know stays.          *)
LEMMA CallStarted ==
    ASSUME PanelTypeOK, CallsKnow, NEW record \in Call, Start(record),
           record.at = "response" => record.issued = record.scope,
           record.kind = "save" => record.key \in {None, TenantOf[record.scope]}
    PROVE  /\ call' \in [Calls -> Call \union {None}] /\ CallsKnow'
           /\ \E i \in Calls : call'[i] = record
           /\ \A j \in Calls : call[j] # None => call'[j] = call[j]
<1>1. PICK i \in Calls : call[i] = None /\ call' = [call EXCEPT ![i] = record]
  BY DEF Start
<1>2. \A j \in Calls : call'[j] = IF j = i THEN record ELSE call[j]
  BY <1>1 DEF PanelTypeOK
<1>3. call' \in [Calls -> Call \union {None}]
  BY <1>1 DEF PanelTypeOK
<1> QED
  BY <1>1, <1>2, <1>3 DEF CallsKnow

(* A handler that started leaves an awaited status awaited.                *)
LEMMA StatusStays ==
    ASSUME StatusComes, Tenant' = Tenant, UNCHANGED <<panel, strayed>>,
           \A j \in Calls : call[j] # None => call'[j] = call[j]
    PROVE  StatusComes'
BY DEF StatusComes, InFlightCalls

LEMMA CallFinished ==
    ASSUME PanelTypeOK, CallsKnow, NEW i \in Calls, Finished(i)
    PROVE  /\ call' \in [Calls -> Call \union {None}] /\ CallsKnow'
           /\ \A j \in Calls : j # i => call'[j] = call[j]
<1>1. \A j \in Calls : call'[j] = IF j = i THEN None ELSE call[j]
  BY DEF Finished, PanelTypeOK
<1> QED
  BY <1>1 DEF Finished, PanelTypeOK, CallsKnow

LEMMA CallTimed ==
    ASSUME PanelTypeOK, CallsKnow, NEW i \in Calls, call[i] # None, call[i].at = "response",
           Timed(i)
    PROVE  /\ call' \in [Calls -> Call \union {None}] /\ CallsKnow'
           /\ \A j \in Calls : j # i => call'[j] = call[j]
<1> DEFINE timer == CallIn("timer", call[i].scope, call[i].issued, None)
<1>1. call[i].scope \in Scopes /\ call[i].issued = call[i].scope
  BY DEF PanelTypeOK, CallsKnow, Call
<1>2. timer \in Call /\ timer.kind = "timer" /\ (timer.at = "response" => timer.issued = timer.scope)
  BY <1>1, CallInSound
<1>3. call' = [call EXCEPT ![i] = timer]
  BY DEF Timed
<1> HIDE DEF timer
<1>4. \A j \in Calls : call'[j] = IF j = i THEN timer ELSE call[j]
  BY <1>3 DEF PanelTypeOK
<1> QED
  BY <1>2, <1>3, <1>4 DEF PanelTypeOK, CallsKnow

LEMMA PanelStart == PanelInit => PanelInv
<1> SUFFICES ASSUME PanelInit PROVE PanelInv
  OBVIOUS
<1> DEFINE status == CallIn("status", scope, None, None)
<1>1. PICK first \in Calls : call = [i \in Calls |-> IF i = first THEN status ELSE None]
  BY DEF PanelInit
<1>2. status \in Call /\ status.kind = "status" /\ status.at = "token" /\ status.scope = scope
  BY DEF PanelInit, CallIn, Call
<1>3. Tenant \in Tenants /\ scope \in Scopes
  BY DEF PanelInit, Tenant, Tenants
<1> HIDE DEF status
<1>4. PanelTypeOK
  BY <1>1, <1>2, <1>3 DEF PanelInit, PanelTypeOK, NoToken, Panel
<1>5. CallsKnow
  BY <1>1, <1>2 DEF CallsKnow
<1> QED
  BY <1>4, <1>5
     DEF PanelInit, PanelInv, TokenTold, NoToken, KeyOfTenant, FormCurrent, StatusComes

LEMMA PanelStep == PanelInv /\ [PanelNext]_panelVars => PanelInv'
<1> SUFFICES ASSUME PanelInv, [PanelNext]_panelVars PROVE PanelInv'
  OBVIOUS
<1> USE DEF PanelInv
<1>0. Tenant \in Tenants /\ scope \in Scopes
  BY DEF PanelTypeOK, Tenant, Tenants
<1>1. CASE OpenModal
  <2> DEFINE record == CallIn("open", scope, CachedToken(scope), None)
  <2>1. /\ record \in Call /\ record.kind = "open"
        /\ record.at = "response" => record.issued = record.scope
    BY <1>0, PanelTokenScoped, CallInSound
  <2>2. Start(record) /\ UNCHANGED <<session, panel, strayed>>
    BY <1>1 DEF OpenModal
  <2> HIDE DEF record
  <2> QED
    BY <2>1, <2>2, CallStarted, StatusStays
       DEF PanelTypeOK, TokenTold, KeyOfTenant, FormCurrent, Tenant, session
<1>2. CASE SaveSettings
  <2> DEFINE record == CallIn("save", scope, CachedToken(scope), panel.key)
  <2>0. panel.key \in {None, Tenant} /\ panel.key \in Tenants \union {None}
    BY <1>2 DEF SaveSettings, KeyOfTenant, PanelTypeOK, Panel
  <2>1. /\ record \in Call /\ record.key \in {None, TenantOf[record.scope]}
        /\ record.at = "response" => record.issued = record.scope
    BY <1>0, <2>0, PanelTokenScoped, CallInSound DEF Tenant
  <2>2. Start(record) /\ UNCHANGED <<session, panel, strayed>>
    BY <1>2 DEF SaveSettings
  <2> HIDE DEF record
  <2> QED
    BY <2>1, <2>2, CallStarted, StatusStays
       DEF PanelTypeOK, TokenTold, KeyOfTenant, FormCurrent, Tenant, session
<1>3. CASE DeleteSettings
  <2> DEFINE record == CallIn("forget", scope, CachedToken(scope), None)
  <2>1. /\ record \in Call /\ record.kind = "forget"
        /\ record.at = "response" => record.issued = record.scope
    BY <1>0, PanelTokenScoped, CallInSound
  <2>2. Start(record) /\ UNCHANGED <<session, panel, strayed>>
    BY <1>3 DEF DeleteSettings
  <2> HIDE DEF record
  <2> QED
    BY <2>1, <2>2, CallStarted, StatusStays
       DEF PanelTypeOK, TokenTold, KeyOfTenant, FormCurrent, Tenant, session
<1>4. CASE TypeKey
  <2>1. panel' \in Panel /\ panel'.key = Tenant
    BY <1>0, <1>4 DEF TypeKey, PanelTypeOK, Panel
  <2>2. /\ panel'.open = panel.open /\ panel'.form = panel.form
        /\ panel'.status = panel.status /\ panel'.last = panel.last
    BY <1>4 DEF TypeKey, PanelTypeOK, Panel
  <2> QED
    BY <1>4, <2>1, <2>2 DEF TypeKey, PanelTypeOK, TokenTold, CallsKnow, KeyOfTenant, FormCurrent,
       StatusComes, InFlightCalls, Tenant, session
<1>5. CASE CloseModal
  <2>1. panel' \in Panel /\ panel'.open = FALSE
    BY <1>5 DEF CloseModal, PanelTypeOK, Panel
  <2>2. panel'.status = panel.status /\ panel'.last = panel.last
    BY <1>5 DEF CloseModal, PanelTypeOK, Panel
  <2> QED
    BY <1>5, <2>1, <2>2 DEF CloseModal, PanelTypeOK, TokenTold, CallsKnow, KeyOfTenant,
       FormCurrent, StatusComes, InFlightCalls, Tenant, session
<1>6. ASSUME NEW s \in Scopes, ChooseScope(s) PROVE PanelInv'
  <2>1. ~panel.open /\ scope' = s /\ token' = NoToken /\ Tenant' = TenantOf[s]
    BY <1>6 DEF ChooseScope, Tenant
  <2>2. TokenTold'
    BY <2>1 DEF TokenTold, NoToken
  <2>3. CASE RefreshStatus(s)
    <3>1. PICK cached \in {None, CachedToken(s)} : Start(CallIn("status", s, cached, None))
      BY <2>3 DEF RefreshStatus
    <3> DEFINE record == CallIn("status", s, cached, None)
    <3>2. /\ record \in Call /\ record.kind = "status" /\ record.scope = s /\ record # None
          /\ record.at = "response" => record.issued = record.scope
      BY <3>1, PanelTokenScoped, CallInSound
    <3>3. Start(record)
      BY <3>1
    <3> HIDE DEF record
    <3>4. panel' \in Panel /\ ~panel'.open /\ panel'.last = Tenant'
      BY <2>1, <2>3 DEF RefreshStatus, PanelTypeOK, Panel, Tenants
    <3>5. /\ call' \in [Calls -> Call \union {None}] /\ CallsKnow'
          /\ \E i \in Calls : call'[i] = record
      BY <3>2, <3>3, CallStarted
    <3>6. StatusComes'
      BY <2>1, <3>2, <3>5 DEF StatusComes, InFlightCalls
    <3>7. PanelTypeOK'
      BY <1>6, <2>1, <3>4, <3>5 DEF PanelTypeOK, NoToken, ChooseScope
    <3> QED
      BY <2>2, <3>4, <3>5, <3>6, <3>7 DEF KeyOfTenant, FormCurrent
  <2>4. CASE TenantOf[s] = Tenant /\ UNCHANGED <<panel, call>>
    <3>1. strayed' = strayed /\ Tenant' = Tenant
      BY <1>6, <2>1, <2>4 DEF ChooseScope, PanelTypeOK
    <3>2. PanelTypeOK'
      BY <2>1, <2>4, <3>1 DEF PanelTypeOK, NoToken
    <3>3. CallsKnow'
      BY <2>4 DEF CallsKnow
    <3>4. StatusComes'
      BY <2>4, <3>1 DEF StatusComes, InFlightCalls
    <3> QED
      BY <2>1, <2>2, <2>4, <3>1, <3>2, <3>3, <3>4 DEF KeyOfTenant, FormCurrent
  <2> QED
    BY <1>6, <2>3, <2>4 DEF ChooseScope
<1>7. ASSUME NEW i \in Calls, CallGetsToken(i) PROVE PanelInv'
  <2> DEFINE sent == [call[i] EXCEPT !.at = "response", !.issued = call[i].scope]
  <2>1. call[i] \in Call /\ call[i] # None
    BY <1>7 DEF CallGetsToken, PanelTypeOK
  <2>2. sent \in Call
    BY <2>1 DEF Call
  <2>3. /\ sent.kind = call[i].kind /\ sent.scope = call[i].scope /\ sent.key = call[i].key
        /\ sent.issued = call[i].scope
    BY <2>1 DEF Call
  <2>4. \A j \in Calls : call'[j] = IF j = i THEN sent ELSE call[j]
    BY <1>7 DEF CallGetsToken, PanelTypeOK
  <2>5. call[i].scope \in Scopes
    BY <2>1 DEF Call
  <2> HIDE DEF sent
  <2>6. call' \in [Calls -> Call \union {None}]
    BY <1>7, <2>2, <2>4 DEF CallGetsToken, PanelTypeOK
  <2>7. PanelTypeOK' /\ TokenTold'
    BY <1>7, <2>5, <2>6 DEF CallGetsToken, Cache, PanelTypeOK, TokenTold
  <2>8. CallsKnow'
    BY <2>1, <2>3, <2>4 DEF CallsKnow
  <2>9. StatusComes'
    <3>1. Tenant' = Tenant /\ UNCHANGED <<panel, strayed>>
      BY <1>7 DEF CallGetsToken, Tenant
    <3>2. \A j \in InFlightCalls("status") :
             j \in InFlightCalls("status")' /\ call'[j].scope = call[j].scope
      BY <2>2, <2>3, <2>4 DEF InFlightCalls
    <3> QED
      BY <3>1, <3>2 DEF StatusComes
  <2> QED
    BY <1>7, <2>7, <2>8, <2>9 DEF CallGetsToken, KeyOfTenant, FormCurrent, Tenant
<1>8. ASSUME NEW i \in Calls, StatusArrives(i) PROVE PanelInv'
  <2>1. call[i] # None /\ call[i] \in Call /\ call[i].scope \in Scopes
    BY <1>8 DEF StatusArrives, Awaited, PanelTypeOK, Call
  <2>2. TenantOf[call[i].scope] \in Tenants
    BY <2>1 DEF Tenants
  <2>3. /\ panel' \in Panel /\ panel'.open = panel.open /\ panel'.form = panel.form
        /\ panel'.key = panel.key /\ panel'.last = panel.last
    BY <1>8, <2>2 DEF StatusArrives, PanelTypeOK, Panel
  <2>4. /\ call' \in [Calls -> Call \union {None}] /\ CallsKnow'
        /\ \A j \in Calls : j # i => call'[j] = call[j]
    BY <1>8, CallFinished DEF StatusArrives
  <2>5. Tenant' = Tenant /\ strayed' = strayed
    BY <1>8 DEF StatusArrives, Tenant, session
  <2>6. StatusComes'
    <3>1. CASE TenantOf[call[i].scope] = Tenant
      <4>1. panel'.status = Tenant
        BY <1>8, <3>1 DEF StatusArrives, PanelTypeOK, Panel
      <4> QED
        BY <2>5, <4>1 DEF StatusComes
    <3>2. CASE TenantOf[call[i].scope] # Tenant
      <4>1. panel' = panel
        BY <1>8, <3>2 DEF StatusArrives
      <4> QED
        BY <2>4, <2>5, <3>2, <4>1 DEF StatusComes, InFlightCalls
    <3> QED
      BY <3>1, <3>2
  <2> QED
    BY <1>8, <2>3, <2>4, <2>5, <2>6
       DEF StatusArrives, PanelTypeOK, TokenTold, KeyOfTenant, FormCurrent, session
<1>9. ASSUME NEW i \in Calls, ModalOpens(i) PROVE PanelInv'
  <2>1. TenantOf[call[i].scope] \in Tenants
    BY <1>9 DEF ModalOpens, Awaited, PanelTypeOK, Call, Tenants
  <2>2. /\ panel' \in Panel /\ panel'.form = TenantOf[call[i].scope] /\ panel'.key = None
        /\ panel'.status = TenantOf[call[i].scope] /\ panel'.last = panel.last
    BY <1>9, <2>1 DEF ModalOpens, Populated, PanelTypeOK, Panel
  <2>3. call' \in [Calls -> Call \union {None}] /\ CallsKnow'
    BY <1>9, CallFinished DEF ModalOpens
  <2>4. /\ Tenant' = Tenant /\ strayed' \in BOOLEAN
        /\ strayed' = (TenantOf[call[i].scope] # Tenant)
    BY <1>9 DEF ModalOpens, Stray, Tenant, session
  <2> QED
    BY <1>9, <2>2, <2>3, <2>4
       DEF ModalOpens, PanelTypeOK, TokenTold, KeyOfTenant, FormCurrent, StatusComes, session
<1>10. ASSUME NEW i \in Calls, Saved(i) PROVE PanelInv'
  <2>1. call[i] # None /\ call[i].at = "response" /\ TenantOf[call[i].scope] \in Tenants
    BY <1>10 DEF Saved, Awaited, PanelTypeOK, Call, Tenants
  <2>2. /\ panel' \in Panel /\ panel'.open = panel.open /\ panel'.form = panel.form
        /\ panel'.key = None /\ panel'.status = TenantOf[call[i].scope]
        /\ panel'.last = panel.last
    BY <1>10, <2>1 DEF Saved, PanelTypeOK, Panel
  <2>3. call' \in [Calls -> Call \union {None}] /\ CallsKnow'
    BY <1>10, <2>1, CallTimed DEF Saved
  <2>4. /\ Tenant' = Tenant /\ strayed' \in BOOLEAN
        /\ strayed' = (strayed \/ TenantOf[call[i].scope] # Tenant)
    BY <1>10 DEF Saved, Stray, Tenant, session
  <2> QED
    BY <1>10, <2>2, <2>3, <2>4
       DEF Saved, PanelTypeOK, TokenTold, KeyOfTenant, FormCurrent, StatusComes, session
<1>11. ASSUME NEW i \in Calls, Forgotten(i) PROVE PanelInv'
  <2>1. call[i] # None /\ call[i].at = "response" /\ TenantOf[call[i].scope] \in Tenants
    BY <1>11 DEF Forgotten, Awaited, PanelTypeOK, Call, Tenants
  <2>2. /\ panel' \in Panel /\ panel'.open = panel.open
        /\ panel'.form = TenantOf[call[i].scope]
        /\ panel'.key = None /\ panel'.status = TenantOf[call[i].scope]
        /\ panel'.last = panel.last
    BY <1>11, <2>1 DEF Forgotten, Populated, PanelTypeOK, Panel
  <2>3. call' \in [Calls -> Call \union {None}] /\ CallsKnow'
    BY <1>11, <2>1, CallTimed DEF Forgotten
  <2>4. /\ Tenant' = Tenant /\ strayed' \in BOOLEAN
        /\ strayed' = (strayed \/ TenantOf[call[i].scope] # Tenant)
    BY <1>11 DEF Forgotten, Stray, Tenant, session
  <2> QED
    BY <1>11, <2>2, <2>3, <2>4
       DEF Forgotten, PanelTypeOK, TokenTold, KeyOfTenant, FormCurrent, StatusComes, session
<1>12. ASSUME NEW i \in Calls, TimerFires(i) PROVE PanelInv'
  <2>1. call[i].kind = "timer"
    BY <1>12 DEF TimerFires, Awaited
  <2>2. /\ panel' \in Panel /\ panel'.open = FALSE
        /\ panel'.status = panel.status /\ panel'.last = panel.last
    BY <1>12 DEF TimerFires, PanelTypeOK, Panel
  <2>3. /\ call' \in [Calls -> Call \union {None}] /\ CallsKnow'
        /\ \A j \in Calls : j # i => call'[j] = call[j]
    BY <1>12, CallFinished DEF TimerFires
  <2>4. StatusComes'
    BY <1>12, <2>1, <2>2, <2>3 DEF TimerFires, StatusComes, InFlightCalls, Tenant, session
  <2> QED
    BY <1>12, <2>2, <2>3, <2>4
       DEF TimerFires, PanelTypeOK, TokenTold, KeyOfTenant, FormCurrent, Tenant, session
<1>13. ASSUME NEW i \in Calls, CallFails(i) PROVE PanelInv'
  <2>1. /\ call' \in [Calls -> Call \union {None}] /\ CallsKnow'
        /\ \A j \in Calls : j # i => call'[j] = call[j]
    BY <1>13, CallFinished DEF CallFails
  <2>2. Tenant' = Tenant /\ UNCHANGED <<scope, token, strayed>>
    BY <1>13 DEF CallFails, Tenant, session
  <2>3. CASE StatusFails(i)
    <3>1. /\ panel' \in Panel /\ panel'.open = panel.open /\ panel'.form = panel.form
          /\ panel'.key = panel.key /\ panel'.last = panel.last /\ panel'.status = None
      BY <2>3 DEF StatusFails, PanelTypeOK, Panel
    <3> QED
      BY <2>1, <2>2, <3>1 DEF PanelTypeOK, TokenTold, KeyOfTenant, FormCurrent, StatusComes
  <2>4. CASE OpenFails(i)
    <3>1. /\ panel' \in Panel /\ panel'.form = None /\ panel'.key = None
          /\ panel'.last = panel.last /\ panel'.status = None
      BY <2>4 DEF OpenFails, Populated, PanelTypeOK, Panel
    <3> QED
      BY <2>1, <2>2, <3>1 DEF PanelTypeOK, TokenTold, KeyOfTenant, FormCurrent, StatusComes
  <2>5. CASE ChangeFails(i)
    <3>1. panel' = panel /\ call[i].kind # "status"
      BY <2>5 DEF ChangeFails
    <3>2. StatusComes'
      BY <2>1, <2>2, <3>1 DEF StatusComes, InFlightCalls
    <3> QED
      BY <2>1, <2>2, <3>1, <3>2 DEF PanelTypeOK, TokenTold, KeyOfTenant, FormCurrent
  <2> QED
    BY <1>13, <2>3, <2>4, <2>5 DEF CallFails
<1>14. CASE PageToken
  BY <1>14 DEF PageToken, CachedElsewhere, Cache, PanelTypeOK, TokenTold, CallsKnow,
               KeyOfTenant, FormCurrent, StatusComes, InFlightCalls, Tenant
<1>15. CASE UNCHANGED panelVars
  BY <1>15 DEF panelVars, session, PanelTypeOK, TokenTold, CallsKnow, KeyOfTenant,
               FormCurrent, StatusComes, InFlightCalls, Tenant
<1> QED
  BY <1>1, <1>2, <1>3, <1>4, <1>5, <1>6, <1>7, <1>8, <1>9, <1>10, <1>11, <1>12, <1>13,
     <1>14, <1>15 DEF PanelNext

LEMMA PanelSafeNow == PanelInv => PanelSafe
<1> SUFFICES ASSUME PanelInv PROVE PanelSafe
  OBVIOUS
<1>1. KeysStayHome
  BY DEF PanelInv, CallsKnow, KeysStayHome, InFlightCalls
<1>2. StatusCurrent
  BY DEF PanelInv, StatusComes, StatusCurrent
<1> QED
  BY <1>1, <1>2 DEF PanelInv, PanelSafe

(* The panel's variables keep their types.                                 *)
THEOREM PanelTypeCorrect == PanelSpec => []PanelTypeOK
BY PanelStart, PanelStep, PTL DEF PanelSpec, PanelInv

(* A key is sent only for the tenant it was typed in, and form and status  *)
(* line are the chosen tenant's but for handlers of a tenant left behind.  *)
THEOREM PanelSafeHolds == PanelSpec => []PanelSafe
BY PanelStart, PanelStep, PanelSafeNow, PTL DEF PanelSpec
=============================================================================
