---------------------------- MODULE BrowserClient ----------------------------
(***************************************************************************)
(* The browser client, ui/app.js: one page, one thread, and any number of  *)
(* handlers suspended in an await.  Nothing ties a response to the click   *)
(* that asked for it, so responses may arrive in any order, and find the   *)
(* page in another matter than the one they were requested in.             *)
(*                                                                         *)
(* A task is a suspended handler.  The settings panel has a module of its  *)
(* own; a token pasted by hand and page numbers are left out.              *)
(***************************************************************************)
EXTENDS BrowserSession

CONSTANTS
    Docs,
    Pdf,                \* the documents that isPdf holds of
    ScopeOf,            \* ScopeOf[d]: the matter that document d is in
    Quotes,             \* quotes of citations
    NoQuote,            \* ""
    Tasks,              \* bound: handlers suspended at a time
    Failing             \* the kinds of task whose fetch may fail

Kinds == {"list", "upload", "ask", "text", "pdf", "page"}

ASSUME ClientAssumption ==
    /\ Pdf \subseteq Docs
    /\ ScopeOf \in [Docs -> Scopes]
    /\ NoQuote \notin Quotes
    /\ Failing \subseteq Kinds

(* What the viewer is asked for: a document, at a quote or from its start. *)
Passages == [doc: Docs, quote: Quotes \union {NoQuote}]
Citations == [doc: Docs, quote: Quotes]

VARIABLES
    documents,          \* state.documents
    selected,           \* state.selectedDocIds
    asking,             \* nodes.askButton.disabled
    cited,              \* the citations in the transcript, each with its button
    viewer,             \* the citation drawer: state.activePdf, activeQuote and its nodes
    task                \* the suspended handlers

sources == <<documents, selected>>
chat == <<asking, cited>>
vars == <<session, sources, chat, viewer, task>>

(* title is the passage viewerTitle and viewerMeta name, None when they    *)
(* name no opened source; shown is what the stage shows, an error or       *)
(* nothing being None.                                                     *)
Viewer ==
    [open: BOOLEAN, title: Passages \union {None}, quote: Quotes \union {NoQuote},
     pdf: Pdf \union {None}, shown: Passages \union {None}]

(* at: what the handler awaits; scope: currentScope() when it was called;  *)
(* issued: the scope of the bearer token it sends.                         *)
Task ==
    [kind: Kinds, at: {"token", "response"}, scope: Scopes, issued: Scopes \union {None},
     docs: SUBSET Docs, passage: Passages \union {None}]

ASSUME NoneAssumption == None \notin Scopes \union Docs \union Passages \union Task

InFlight(kinds) == {i \in Tasks : task[i] # None /\ task[i].kind \in kinds}
Awaits(i, kind, at) == task[i] # None /\ task[i].kind = kind /\ task[i].at = at

-----------------------------------------------------------------------------
(* A handler runs to its first await with the page in scope s.             *)
Suspended(kind, s, cached, docs, passage) ==
    [kind |-> kind, at |-> IF cached = None THEN "token" ELSE "response",
     scope |-> s, issued |-> cached, docs |-> docs, passage |-> passage]

Suspend(record) == \E i \in Tasks : task[i] = None /\ task' = [task EXCEPT ![i] = record]
Ended(i) == task' = [task EXCEPT ![i] = None]

ResetViewer ==
    [open |-> FALSE, title |-> None, quote |-> NoQuote, pdf |-> None, shown |-> None]

(* showViewerNode and showViewerText: the stage shows a text, or an error. *)
ShowViewer(what) ==
    viewer' = [viewer EXCEPT !.open = TRUE, !.quote = NoQuote, !.pdf = None, !.shown = what]

(* The page loads and asks for the first list.                             *)
Init ==
    /\ scope \in Scopes
    /\ token = NoToken
    /\ documents = {} /\ selected = {}
    /\ asking = FALSE /\ cited = {}
    /\ viewer = ResetViewer
    /\ \E first \in Tasks :
          task = [i \in Tasks |->
                    IF i = first THEN Suspended("list", scope, None, {}, None) ELSE None]

-----------------------------------------------------------------------------
(* /dev/token answers, and the handler's request goes out with the token.  *)
TokenArrives(i) ==
    /\ task[i] # None /\ task[i].at = "token"
    /\ Cache(task[i].scope)
    /\ task' = [task EXCEPT ![i].at = "response", ![i].issued = task[i].scope]
    /\ UNCHANGED <<scope, sources, chat, viewer>>

Refresh ==
    /\ Suspend(Suspended("list", scope, CachedToken(scope), {}, None))
    /\ UNCHANGED <<session, sources, chat, viewer>>

(* Mutant: the selection is not pruned to the list.                        *)
Listed_Mutant(listed) == documents' = listed /\ selected' = selected

(* state.documents becomes what the response lists, and the selection is   *)
(* pruned to it.                                                           *)
Listed(listed) ==
    /\ documents' = listed
    /\ selected' = selected \intersect listed

(* What of the matter is uploaded by now, and nothing when the response is *)
(* not ok.                                                                 *)
ListArrives(i) ==
    /\ Awaits(i, "list", "response")
    /\ \E listed \in SUBSET Docs :
          /\ \A d \in listed : ScopeOf[d] = task[i].issued
          /\ Listed(listed)
    /\ Ended(i)
    /\ UNCHANGED <<session, chat, viewer>>

(* The user edits the tenant or the matter, inline or in the setup dialog: *)
(* clearToken, which resets the viewer, then refreshDocuments.             *)
ChangeScope(s) ==
    /\ s # scope
    /\ scope' = s
    /\ token' = NoToken
    /\ viewer' = ResetViewer
    /\ Suspend(Suspended("list", s, None, {}, None))
    /\ UNCHANGED <<sources, chat>>

Toggle(d) ==
    /\ d \in documents
    /\ selected' = IF d \in selected THEN selected \ {d} ELSE selected \union {d}
    /\ UNCHANGED <<session, documents, chat, viewer, task>>

(* uploadDocument: the form names the matter of now, as the token does.    *)
Upload ==
    /\ Suspend(Suspended("upload", scope, CachedToken(scope), {}, None))
    /\ UNCHANGED <<session, sources, chat, viewer>>

(* The document is stored: the handler lists the documents of the matter   *)
(* that the page is in by then.                                            *)
UploadArrives(i) ==
    /\ Awaits(i, "upload", "response")
    /\ task' = [task EXCEPT ![i] = Suspended("list", scope, CachedToken(scope), {}, None)]
    /\ UNCHANGED <<session, sources, chat, viewer>>

-----------------------------------------------------------------------------
(* askQuestion, whose button is disabled while an answer is awaited.       *)
Ask ==
    /\ ~asking
    /\ viewer' = ResetViewer
    /\ asking' = TRUE
    /\ Suspend(Suspended("ask", scope, CachedToken(scope), selected \intersect documents, None))
    /\ UNCHANGED <<session, sources, cited>>

(* The stream ends, with an answer whose citation is in the matter and the *)
(* documents asked for, or without one.                                    *)
AskArrives(i) ==
    /\ Awaits(i, "ask", "response")
    /\ \/ UNCHANGED cited
       \/ \E c \in Citations :
             /\ ScopeOf[c.doc] = task[i].issued
             /\ task[i].docs = {} \/ c.doc \in task[i].docs
             /\ cited' = cited \union {c}
    /\ asking' = FALSE
    /\ Ended(i)
    /\ UNCHANGED <<session, sources, viewer>>

-----------------------------------------------------------------------------
(* openDocument runs to its first await: the drawer opens, titled, over    *)
(* what the stage showed before.                                           *)
OpenDocument(p) ==
    /\ viewer' = [viewer EXCEPT !.open = TRUE, !.title = p, !.quote = p.quote]
    /\ Suspend(Suspended(IF p.doc \in Pdf THEN "pdf" ELSE "text",
                         scope, CachedToken(scope), {}, p))
    /\ UNCHANGED <<session, sources, chat>>

ClickDocument(d) ==
    /\ d \in documents
    /\ OpenDocument([doc |-> d, quote |-> NoQuote])

OpenCitation(c) ==
    /\ c \in cited
    /\ c.doc \in documents
    /\ OpenDocument(c)

(* openCitation of a document that is not listed only changes the title.   *)
UnlistedCitation(c) ==
    /\ c \in cited
    /\ c.doc \notin documents
    /\ viewer' = [viewer EXCEPT !.title = None]
    /\ UNCHANGED <<session, sources, chat, task>>

(* The server gives a document to the token of its own matter only.        *)
Served(i) == ScopeOf[task[i].passage.doc] = task[i].issued

TextArrives(i) ==
    /\ Awaits(i, "text", "response")
    /\ Served(i)
    /\ ShowViewer(task[i].passage)
    /\ Ended(i)
    /\ UNCHANGED <<session, sources, chat>>

(* getDocument resolves: it becomes the active PDF, and renderPage awaits  *)
(* the page.                                                               *)
PdfLoads(i) ==
    /\ Awaits(i, "pdf", "response")
    /\ Served(i)
    /\ viewer' = [viewer EXCEPT !.pdf = task[i].passage.doc]
    /\ task' = [task EXCEPT ![i].kind = "page"]
    /\ UNCHANGED <<session, sources, chat>>

(* renderPage goes on with the page of the PDF it started from and with    *)
(* the quote of now.  When the active PDF was reset meanwhile, it throws   *)
(* after the stage has been emptied.                                       *)
PageArrives(i) ==
    /\ Awaits(i, "page", "response")
    /\ viewer' = [viewer EXCEPT !.shown =
          IF viewer.pdf = None THEN None
          ELSE [doc |-> task[i].passage.doc, quote |-> viewer.quote]]
    /\ Ended(i)
    /\ UNCHANGED <<session, sources, chat>>

(* prevPage and nextPage: pdf.js has the document, and needs no token.     *)
TurnPage ==
    /\ viewer.pdf # None
    /\ Suspend(Suspended("page", scope, scope, {}, [doc |-> viewer.pdf, quote |-> NoQuote]))
    /\ UNCHANGED <<session, sources, chat, viewer>>

CloseDrawer ==
    /\ viewer.open
    /\ viewer' = [viewer EXCEPT !.open = FALSE]
    /\ UNCHANGED <<session, sources, chat, task>>

-----------------------------------------------------------------------------
(* Mutant: only an answer enables the button again: there is no finally.   *)
AskFails_Mutant(i) == Awaits(i, "ask", task[i].at) /\ UNCHANGED <<asking, viewer>>

(* A fetch rejects, is refused, or its body cannot be read.  askQuestion   *)
(* and showTextSource catch it; the others are rejected promises that      *)
(* nobody handles, and leave the page as it is.                            *)
Refused(i) ==
    /\ task[i].kind \in {"text", "pdf"}
    /\ task[i].at = "response"
    /\ ~Served(i)

AskFails(i) == Awaits(i, "ask", task[i].at) /\ asking' = FALSE /\ UNCHANGED viewer
TextFails(i) == Awaits(i, "text", task[i].at) /\ ShowViewer(None) /\ UNCHANGED asking
OtherFails(i) == task[i].kind \notin {"ask", "text"} /\ UNCHANGED <<asking, viewer>>

Fails(i) ==
    /\ task[i] # None
    /\ task[i].kind \in Failing \/ Refused(i)
    /\ AskFails(i) \/ TextFails(i) \/ OtherFails(i)
    /\ Ended(i)
    /\ UNCHANGED <<session, sources, cited>>

-----------------------------------------------------------------------------
User ==
    \/ Refresh \/ Upload \/ Ask \/ TurnPage \/ CloseDrawer
    \/ \E s \in Scopes : ChangeScope(s)
    \/ \E d \in Docs : Toggle(d) \/ ClickDocument(d)
    \/ \E c \in Citations : OpenCitation(c) \/ UnlistedCitation(c)

Arrival ==
    \E i \in Tasks :
        \/ TokenArrives(i) \/ ListArrives(i) \/ UploadArrives(i) \/ AskArrives(i)
        \/ TextArrives(i) \/ PdfLoads(i) \/ PageArrives(i) \/ Fails(i)

(* A handler of the settings panel gets a token.                           *)
PanelToken ==
    /\ CachedElsewhere
    /\ UNCHANGED <<sources, chat, viewer, task>>

Next == User \/ Arrival \/ PanelToken

Spec == Init /\ [][Next]_vars

-----------------------------------------------------------------------------
(* The type of every variable of the page.                                 *)
TypeOK ==
    /\ scope \in Scopes
    /\ token \in [issued: Scopes \union {None}, scope: Scopes \union {None}]
    /\ documents \subseteq Docs /\ selected \subseteq Docs
    /\ asking \in BOOLEAN /\ cited \subseteq Citations
    /\ viewer \in Viewer
    /\ task \in [Tasks -> Task \union {None}]

(* A request goes out with a token for the tenant and matter that the page *)
(* was in when it was made, which a question and an upload name too,       *)
(* whatever token a slower request leaves in the cache after the scope has *)
(* changed (getToken, app.js:70-92).                                       *)
RequestScoped ==
    \A i \in Tasks :
        task[i] # None /\ task[i].at = "response" => task[i].issued = task[i].scope

(* Only documents in the list can be selected, so what a question is       *)
(* limited to is what the list has checked (pruneSelectedDocuments,        *)
(* app.js:212-217), whichever list arrives last.                           *)
SelectionListed == selected \subseteq documents

(* The Ask button is disabled exactly while one question awaits its        *)
(* answer: no failure leaves it disabled, and no late answer enables it    *)
(* for another question (askQuestion, app.js:361-410).                     *)
ButtonHonest ==
    /\ asking = (InFlight({"ask"}) # {})
    /\ \A i, j \in InFlight({"ask"}) : i = j

(* The page's controls say what the page does.                             *)
PageHonest == SelectionListed /\ ButtonHonest

(* Once nothing is loading, the stage shows the passage that the title     *)
(* names: "Click a citation chip -- the document opens at the exact        *)
(* passage that grounds the claim" (openDocument, app.js:423-441).         *)
ViewerShowsCited ==
    /\ InFlight({"text", "pdf", "page"}) = {}
    /\ viewer.title # None /\ viewer.shown # None
    => viewer.shown = viewer.title
=============================================================================
