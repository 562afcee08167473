# cite-or-die in TLA+

cite-or-die is a self-hosted service that answers questions about documents and
must not answer from, or disclose, documents of another client. Its repository
also carries Hard Eng (`src/.hooks/`), the tooling that installs and updates
itself in a checkout, gates every change, and pushes, merges and reviews it
beside the people and agents that work there. This directory holds a TLA+ model
of both: specifications of their components, the TLC instances that check them,
and TLAPS proofs of the properties that matter most. Paths below are relative to
`src/src/cite_or_die/`, those of the tooling to `src/.hooks/`.

## 1. The system

### The service

| component | state it keeps | operations | interacts with |
|---|---|---|---|
| matter walls, authorizer (`security/walls.py`, `auth/authorizer.py`) | none | `require_matter_scope`, `Authorizer.require`, `verify_retrieval_scope`, `verify_citation_scope` | called by the pipelines |
| upload and chat (`service.py`) | the caches of providers and retrieval services | `upload`, `chat` | everything below |
| ingest (`ingest/`) | source files on disk | `ingest` | retrieval, repository |
| retrieval (`retrieval/`, `graph/`) | a BM25 index and a citation graph per scope, in memory; a vector collection per scope, in memory or in Qdrant | `index_chunks`, `rebuild_sparse`, `retrieve` | called by ingest and chat |
| repository (`storage/repository.py`) | documents, chunks and PII spans in SQLite | `save_document`, `list_chunks`, `list_documents` | shared by all processes |
| audit log (`storage/audit.py`) | hash-chained rows in the same SQLite file | `append`, `verify_audit_chain` | shared by all processes |
| guards, verifier, extractive fallback (`security/input_guard.py`, `security/citation_verifier.py`, `core/extractive_answer.py`) | none | `scan_user_text`, `scan_retrieved_chunks`, `verify` | called by chat |
| runtime configuration (`security/runtime_config.py`) | one encrypted file per tenant, a cache in every process | `load`, `save`, `delete`, `invalidate` | settings handlers, chat, upload |
| HTTP API (`api/app.py`), CLI (`cli.py`) | none | handlers | the service |
| browser page (`ui/app.js`) | tenant and matter, token, documents, selection, viewer; handlers suspended in awaits | clicks and arriving responses | the HTTP API |
| settings panel (`ui/settings_panel.js`) | a status line, a form in a dialog, its own handlers in awaits and timers | open, type a key, save, forget, close | the page's tenant and token; the settings handlers |
| model providers, Qdrant | external | `generate`, `upsert`, `search` | called by chat and ingest |

A Python process runs one asyncio event loop, so a request runs alone in its
process from one suspension to the next. Of the awaits of a request only the
HTTP call of a real provider suspends in the code as it is (the embeddings, the
stores and the rerankers are `async` functions that never wait). The processes
of one data directory (the server, every CLI invocation) share the files, the
SQLite database and, where configured, Qdrant; everything else is per process.

The page is one thread of its own, with any number of handlers in awaits.

What is hard here: questions of one matter rebuild one shared sparse index for
their own selection of documents while others wait; an upload is four separate
commits; a process may die between any two of them; the CLI writes to the
database under a running server; collection names may collide; the provider may
cite what it likes, answer late, or not at all; three layers of caches stand
between a tenant's configuration and its use; responses reach the page in any
order, also after the matter they were asked for has been left.

What makes each component correct:

- *pipelines*: only chunks of the caller's tenant and matter, selected and clean,
  reach the provider; the row that names them is committed first; an answer cites
  what was retrieved; an acknowledged upload is in every store; a question sees
  what was acknowledged before it; every request ends.
- *audit log*: an alteration is found, for good, and without one nothing is accused.
- *configuration*: what is served is what the file says; nothing replaced is kept;
  only an administrator replaces it.
- *verifier and fallback*: what is returned is verbatim from what was retrieved.
- *page*: requests and selections are of the matter they are made in, and what is
  shown is what its title says.
- *settings panel*: a key is sent for the tenant it was typed in, and what the panel
  shows and would save is the chosen tenant's.

### The development tooling

| component | state it keeps | operations | interacts with |
|---|---|---|---|
| updates (`update_runner.py`, `update_pr.py`, `update.py`) | a lock and a record in the git directory, the branch `hard-eng/update` with a worktree, its pull request | prepare, publish, sweep, repair; install one revision as one transaction; recognise an update's own change | sessions, hooks, GitHub |
| shipping (`shipping.py`, `ship_actions.py`, `challenge.py`, `review_bypass.py`) | the task branch, its worktree and pull request; a record per reviewed revision | `pre_push`, `verify`, `merge`, `cleanup`, `challenge`, merge as administrator | GitHub, reviewers, teammates |
| gate schedule (`gate_schedule.py`, `process_group.py`, `hard-eng.py`) | a lock, reports, process groups | `check`: order, start, stop and judge the gates | every check |
| impact (`gate_config.py`, `dependency_graph.py`) | none | which packages a change, a merge or a push has to check | checks, CI |
| adoption debt (`debt.py`) | a file of neutral findings in the tree | `adopt`, `record`, `judge`, `require_shrink` | checks |
| agent sessions (`agent_hooks.py`, `failures.py`) | a state file per session, read and written whole without a lock | session start, the Stop hook, failure hooks, `rebase_sessions` | checks, installs |
| tool installation (`tool_setup.py`) | launchers shared by all checkouts, two kinds of file lock | find, install, hold and drop a version | every check |
| git hook chain (`hook_chain.py`) | the hook, its kept copy | install, repair | people and hook managers that write the same file |
| tool servers (`mcp_setup.py`) | entries in three files of the agents | detect, register, retire | people that edit the files |
| plans (`plans.py`, `change_size.py`) | plans, requirements and decisions in the tree | what a change and a release must bring | checks |
| freshness (`freshness.py`) | holds in the tree | the check of one dependency on one day | checks |
| setup (`agent_hooks.py`, `update.py`) | the managed block of `AGENTS.md`, the scaffold files | write them, and recognise them in CI | updates |

What is hard here is that nothing of this runs alone. Files of the checkout are
edited by people and agents while a program reads, decides and writes; several
sessions of a repository, several checks of a checkout and several checkouts of
one machine run at once; GitHub changes between two requests; and any of them
may be killed between two writes, which then have to be safe to repeat. What
makes each component correct is that it loses no work it did not make, and that
what it says of a commit (checked, tested, reviewed, delivered, an update and
nothing else) is so of that commit.

`PROJECT.json` lists every hazard at its line with the properties that cover it.

## 2. Modules

| module | models | kind |
|---|---|---|
| `Walls` | roles, policy, walls, scopes, chunks, selection | operators |
| `MatterWall` | the promise: what may be disclosed and returned | abstract specification |
| `CiteOrDieService` | `upload`, `ingest`, `chat`, `retrieve`, the stores and the memory of each process; implements `MatterWall` | specification |
| `AuditLog` | the hash chain under several writers | specification |
| `RuntimeConfig` | a tenant's provider configuration, its three layers of caches, the settings handlers | specification |
| `CitationVerifier` | what becomes of a model's answer: verification, repair, fallback | operators and a small specification |
| `BrowserSession` | the tenant and matter fields and the cached token, which all handlers of the page share | variables and operators |
| `BrowserClient` | the page: its state and the handlers suspended in it | specification |
| `SettingsPanel` | the provider settings of a tenant in the page | specification |
| `HardEngUpdate` | the background update, its worktree, branch and pull request | specification |
| `HardEngInstall` | one revision written and committed, or rolled back, as one transaction | specification |
| `HardEngSetup` | what setup writes, and how CI recognises an update that is nothing else | specification |
| `HardEngShipping` | push, verification, merge and cleanup of a task branch | specification |
| `HardEngReview` | challenges and the merge as administrator | specification |
| `HardEngGates` | one check: its order, threads, process groups, lock and reports | specification |
| `HardEngImpact` | what a change, a merge and a push check of the packages | specification |
| `HardEngDebt` | adoption debt | specification |
| `HardEngSessions` | the state file and the Stop hook of an agent session | specification |
| `HardEngTools` | the launchers that all checks share | specification |
| `HardEngHooks` | the push hook and its kept copy | specification |
| `HardEngMcp` | the entries of tool servers | specification |
| `HardEngPlans` | plans, requirements and decisions of features and releases | specification |
| `HardEngFreshness` | dependency holds | specification |
| `MC…` | the instances that TLC checks | constants, symmetry |
| `AuditLogProofs`, `RuntimeConfigProofs`, `CitationVerifierProofs`, `BrowserClientProofs`, `CiteOrDieServiceProofs` | the module named; the panel too in `BrowserClientProofs`, and in `CiteOrDieServiceProofs` that the service implements `MatterWall` | proofs |
| `HardEngWorkProofs` | Review, Shipping, Gates, Sessions, Plans, Impact | proofs |
| `HardEngUpkeepProofs` | the other eight parts of the tooling | proofs |
| `HardEngProofs` | all fourteen parts together, as TLC runs them | proofs |

The modules meet at what they say of each other's part. `CiteOrDieService` takes
the audit log as rows that are appended or fail (`AuditLog` says what the chain
of those rows shows), the provider as anything that may answer with any
citations or none (`RuntimeConfig` says which provider that is, and
`CitationVerifier` what is done with its answer), and `BrowserClient` takes the
server as whatever answers, late or not, for the matter of the token it is sent.

### CiteOrDieService

`files`, `library`, `vectors` and `trail` are the stores: source files, chunks
table, vector collections, and the audit rows of each request. `loop` and
`sparse` are the memory of a process: the request that holds its event loop, and
its sparse indexes. `pc`, `dense`, `retrieved`, `pending`, `cont` and `answer`
are the locals of a request. `sent` and `known` only observe: the chunks handed
to the provider, and the uploads acknowledged before the request arrived.

An action is the code between two operations on a shared store or between two
awaits, with every call it makes. `loop` makes it run alone in its process:
`Goto` keeps the loop, `Await(r, point, s)` gives it up if `point` is in
`Suspends`, `Respond` gives it up for good. `AuditThen` queues rows that
`AuditAppend` commits one at a time, since each `AuditLog.append` is a
transaction of its own and any of them may fail.

| action | code |
|---|---|
| `Upload`, `Chat` | arrival, authorization, the scan of the question |
| `StoreSourceFile`, `Upsert`, `IndexChunks`, `SaveDocument`, `RebuildAfterSave` | `ingest`, in its order |
| `ListAndRebuild`, `DenseSearch`, `FuseAndRerank` | the first half of `chat`, and `retrieve` |
| `VerifyRetrieved`, `Generate`, `Reply`, `Finish` | the second half of `chat` |
| `AuditAppend` | `AuditLog.append` |
| `ProviderFails`, `StepFails`, `Crash` | a provider that times out, a step that raises, a process that ends |

Data the properties do not tell apart is left out: scores (any ranking is
allowed), texts (a chunk is its document and ordinal, `Poisoned` says which the
guard rejects), and the wording of answers.

### AuditLog

`rows` is the table. An append is two steps, `SelectLast` and `Insert`, because
`append` reads the last hash in autocommit and `sqlite3` opens a transaction
only at the INSERT; `pc`, `event` and `previous` are the locals between the two.
`InsertFails` is an INSERT that raises, or the end of the process. `Readyz` is
`GET /readyz`, which verifies the whole chain; `Alter` is what the chain is for:
one field of one stored row is changed outside the program. A digest is the
sequence of the events it commits to, which is what SHA-256 without collisions
is; `previous_hash` and `event_hash` are then ordinary values that an alteration
can replace with any digest of the table.

### RuntimeConfig

`disk[t]` is the encrypted file of tenant `t`, with the secret it was written
under: `load` under another secret raises `InvalidTag` and yields no override.
`cache`, `providers` and `retrievals` are the three layers of caches of the
running server, `secret` its `auth_secret`. Handlers have no await, so each is
one action, except that the change of the file and the audit row are two
commits: `PutProviderSettings` and `DeleteProviderSettings` leave the row and the
answer in `handler`, and `AuditAppend` or `AuditFails` ends the request.
`Chat`, `ChatRaises`, `Upload` and `GetProviderSettings` are the readers;
`PutFails` is a write that raises; `Restart` ends the process at any point and
starts it with any secret. `Times` are clock readings that may repeat, since the
caches are keyed by `configured_at`. Tenants are those whose ids
`_validate_tenant_id` accepts, and "hosted" stands for the two providers that
need a key.

### CitationVerifier

`Verify` is `CitationVerifier.verify`, `Extractives` is
`build_extractive_definition_answer`, and `Returned` is the choice that `chat`
makes between them. A text is the set of statements and quotes it is made of; of
a text the regular expressions tell apart only `Features` (does it name the
target of the question, does it state types of it or of something else) and
`Score` (`_definition_support_score`), both arbitrary. `Generate` lets the model
answer anything of `Generable`: claims without citations, quotes that occur
nowhere, chunks it was not given, a wrong source. The fallback may take any of
the sentences with the best score, as the code takes the first in an order of
retrieval that is not modelled here.

### BrowserClient

`scope`, `token`, `documents`, `selected`, `asking`, `cited` and `viewer` are
the fields of `state` in `ui/app.js` and the nodes that show them. A `task` is a
handler suspended in an `await`, with the locals it goes on with: `TokenArrives`,
`ListArrives`, `AskArrives`, `TextArrives`, `PdfLoads`, `PageArrives` and `Fails`
resume one, in any order; the other actions are what the user does
(`ChangeScope`, `Refresh`, `Toggle`, `Upload`, `Ask`, `ClickDocument`,
`OpenCitation`, `UnlistedCitation`, `TurnPage`, `CloseDrawer`), each up to its
first await. After an upload (`UploadArrives`) the same handler goes on to list the
documents of the matter the page is in by then. `Failing` says which fetches may
fail; `Refused` are those the server refuses.

### SettingsPanel

`panel` is the status line and the form: for which tenant each is filled, in which
tenant the key in the form was typed, and `lastFetchScope`. A `call` is a suspended
handler of the panel or the timer of `closeModal`. The dialog is modal, so nothing
else of the page is clicked while it is open, but responses arrive (`StatusArrives`,
`ModalOpens`, `Saved`, `Forgotten`, `CallFails`, `TimerFires`). `ChooseScope` is the
tenant's change event, to which `refreshStatus` listens, also when the setup dialog
sends it for a change of matter. `strayed` observes that a handler of a tenant left
behind wrote to the panel after the next one was chosen. `BrowserClient` and
`SettingsPanel` share `scope` and `token` (`BrowserSession`) and nothing else; each
has the other's effect on the token as a step (`PanelToken`, `PageToken`: a token of
any scope arrives at any time), so each is checked and proved under whatever the
other does, and `MCBrowserClient` runs one or the other.

### The tooling

The fourteen `HardEng…` modules are one per mechanism of the tooling, each with
the world that mechanism is exposed to: people and agents that edit, GitHub,
other processes, and death at any step. Everywhere an action is the code between
two looks at something another actor may change (a file, a lock, a ref, a
request to GitHub), so every value read in one action and used in a later one may
be stale by then. History variables (`tested`, `pushed`, `green`, `judged`,
`latest`, `edits` marked "late") only observe.

- *Update*: `base`, `newest`, `branch`, `remote`, `checkout` are git's; the lock
  and the record are shared by a supervisor and its worker, either of which may
  be killed; a commit is its base, its release and the fixes on top.
- *Install*: a path holds what the plan expects, what it writes, or an edit.
  `todo`, `at` and `applied` are the paths still to write, the one looked at and
  those written; only the order of the two phases (links, contents) is kept, so that
  within one any path may be next. An update refuses a path with local changes, looks at
  all of them again after it validated (`Validated`), and rolls back whatever fails. A
  repair plans first (`PlanInstall`), then asks whether the paths have local changes
  (`CheckLocal`), which decides only whether it commits, and takes what its writes are
  compared with (`Snapshot`); its handler knows `OSError` and `ValueError` alone, so one
  that is terminated stops where it is (`Stopped`), and so does one whose `git add` fails.
  An edit is marked "late" where no code looks for it: between the last look at a path
  and its rename, and, in a repair, between the plan and the snapshot.
- *Shipping*: `ship` is the command with what it has seen; `pr`, `origin`,
  `main`, `checks` are GitHub's and move beside it. `LandPull` rebases onto
  whatever the base has become. *Review* follows the same pull request from the
  side of the review: challenges of two agents write one record of a revision.
- *Gates*: a check orders gates by role and package, starts each once those it
  waits for are done, and stops process groups; a gate is what the order reads
  of it. *Impact* says which packages that is: a tree gives every file a version,
  what a package's gates say is a function of the files they read and the rules.
  Every push to the base starts a run that compares its own before and after, and may
  cancel those under way (`MoveTrunk`: `cancel-in-progress` of `ci.yml`); a force push is
  compared with the parent of its tip alone (`Forced`). `missed` observes the packages
  whose run was cancelled or that a force push hid, until they read something else or
  are judged; the first run of the base is the only one that checks every package.
- *Debt*, *Plans*, *Freshness* are judgements of a tree, over the sequences of
  changes, landings, rebases, releases and days in which they are made. In *Plans* a
  feature lands on the `next` it was checked with, as `ship` demands
  (`LandFeature`, and `OthersLand` for those of others), or behind it, merged by hand
  (`LandBehind`); a verified update alone skips the checks, beside open plans and
  requirements that fail (`UpdateOnly`). `lastLanding` observes which it was.
- *Sessions*, *Hooks*, *Mcp*, *Setup* are about files with several writers. In
  *Hooks* the file is `.git/hooks/pre-push` or Husky's committed `.husky/pre-push`
  (`husky`): the second is among the files an update writes (`SwapHusky`), which
  neither looks at the copy nor makes one, and is refused only when it is the project's
  and no copy exists (`HookPlanned`); setup and repairs treat both alike. A
  write is a truncation and then the text; a file may be found torn. What a
  session began with (`began`) is raised to the present when its file is gone: what
  was committed before its first passing turn counts as known. *Setup*
  compares the project's rules of two trees by their order in the text
  (`SameRules`), not by cutting the block out of it.
- *Tools*: a launcher is found, its lock shared, installed under `install.lock`,
  and old ones are dropped under their own locks; then the tools of the checkout
  are provisioned, probed and, when broken, taken out and installed anew. Locks
  fall with a process.

`MCHardEng` runs them: `part` chooses one at the start and the others keep an
initial state. The parts share no variable, since what one leaves to another
(what a check is, that an update holds its lock) is modelled where it is used, so
the behaviours are those of fourteen models; `PartView` leaves the variables of
the parts that stand still out of the fingerprint.

## 3. Runs

| run | question | result |
|---|---|---|
| `walls` | may anything of another matter, not selected, or rejected by a guard reach the provider or the answer; is every disclosure and answer audited first; are acknowledged uploads durable; is `MatterWall` implemented | no / yes |
| `shipped` | does a question see every document acknowledged before it, are only documents of the library disclosed, with the CLI beside the server, and does every request end | yes, as shipped |
| `audit` | does verification find every alteration for good, and accuse nothing but forks | yes |
| `config` | is every request served with what its tenant's file holds, no replaced key kept, a change of embedding announced, and a configuration replaced by an administrator only | yes |
| `answers` | is what is returned cited verbatim from what was retrieved, without dropped text, and is a retrieved definition used | yes |
| `browser` | do requests carry a token of their own matter, does the selection stay in the list and the Ask button follow the question (`PageHonest`); is a provider key sent for its own tenant only, and does the settings panel show the chosen tenant's settings (`PanelSafe`) | yes; but for a late `openModal`, save or deletion |
| `hardeng` | does every part of the tooling keep what people and other processes do, and is what it says of a commit so (one property per part, below) | yes |
| `scope` | does the vector search stay in its scope, as the docs say | no, when names collide |
| `orphan` | can the document of every citation be opened | no, after a failed save |
| `audit_alarm` | does "tampered" mean that a row was altered | no, with two writers |
| `answers_uncited` | is an answer returned only when it is tied back to the text | no, beside an uncited claim |
| `browser_race` | does the viewer show the source its title names | no, after a late response |

What `hardeng` checks of each part, in one property made of named ones:

| part | property | says |
|---|---|---|
| update | `UpdateSafe` | one update is prepared at a time; a worktree in use is not removed; fixes on the branch, here or on origin, are not lost; only heads whose checks passed land |
| install | `InstallSafe` | an installation that is rolled back leaves nothing of itself, one that landed is not rolled back; no edit is lost where the code looks for it |
| setup | `SetupSafe` | an update proves itself to CI, nothing else passes as one, and the project's own rules stay |
| shipping | `ShippingSafe` | only checked revisions reach origin, only verified heads are merged, "delivered" means tested on what it landed on, and cleanup deletes nothing added meanwhile |
| review | `ReviewSafe` | what is merged was judged as recorded, a completed review is kept, and only the review is bypassed |
| gates | `GatesSafe` | commands of two checks and of writers and readers stay apart, nothing starts after a stop or outlives it, a report is the gate's own, and every gate is judged |
| impact | `ImpactSafe` | on the base branch the gates of every package have run on exactly the files it reads there, or a run under way will run them, but for the packages a cancelled run or a force push left out (`missed`); and `ship` never turns a package of the base red, also one the branch did not touch |
| debt | `DebtSafe` | the debt of the default branch is exactly its findings, and only shrinks |
| sessions | `SessionsSafe` | a skipped check is proven by an earlier one, changes are checked, and a claim of being done is complete |
| tools | `ToolsSafe` | a launcher stays while it is used, a staged one is kept, a tool on a check's PATH stays unless another check repairs, and never are all checks waiting |
| hooks | `HooksSafe` | the last hook written by hand is in place or kept, but for one that an update wrote over in Husky's file beside an older or unfinished copy; a kept hook gives way to its own manager's only |
| mcp | `McpSafe` | setup settles, gives one target, and loses no entry |
| plans | `PlansSafe` | after a feature that changed code and landed on the `next` it was checked with: the release check passes and big work is planned; plans name live requirements, in every release and, but for merges behind the base, on `next` |
| freshness | `HoldsRunOut` | a hold excuses a stale dependency for a bounded time |

### Bounds, and why they are enough

*Service.* Three requests: two uploads and a question, or an upload and two
questions; a hazard here needs at most two actors and the document they differ
about. In `walls` the document of `u2` has two chunks and its first is poisoned,
so that a rejection may depend on what was retrieved beside it (`WallLength`,
`MCPoisoned`); in `scope` and `orphan` that of `u1` has two (`MCLength`), and in
`shipped` every document has one (`OneChunk`). Two tenants and two matters where
isolation is the question, one of each where sharing is. Rankings keep two
chunks of three, so that a candidate can be cut. The server and a CLI
invocation are the two processes. `walls` lets every await suspend
(`AnySuspends`), more than the shipped code does, so that its results survive an
embedding service or a store with a real client, and lets uploads to the stores,
saves and audit rows raise and processes die (`WallFaults`). `shipped` lets only
`provider.generate` suspend, because its first two properties hold only then:
with an await inside `retrieve` that suspends, another question may rebuild the
index between the rebuild and the search. Requests are finite and each of these
runs really ends, so deadlock is not checked; it is in all the others, which
never end.

*Audit.* Two processes, two events, four rows: a fork needs two rows, a later
append a third, and an alteration in the middle of them a fourth.

*Configuration.* Two tenants (one could be served from the other's entry), two
secrets (one to lose and to come back to), two clock readings, one key, two
embeddings.

*Answers.* Two chunks that share a sentence, two of a model's statements, at most
two claims with two citations in all: verification treats claims one by one and
only "was any dropped" joins them. Every question and every retrieved set.

*Browser.* Two handlers in flight (three would only reorder pairs), two matters with a
PDF in one and a text in the other, and in `browser_race` a text beside the PDF. A
list that arrives has any of the matter's documents, since uploads and the CLI add
them. The panel has three matters of two tenants, so that the matter may change
without the tenant; the page is bounded to two of them (`InBounds`).

*Tooling.* The bounds count what others do, never the program's own steps: two or
three events (`MaxEvents`, `MaxShipEvents`, `MaxEdits`, `MaxTurns`, `MaxTouches`,
`MaxChanges`, `MaxMcpEdits`, `MaxPlanEdits`, `MaxReviewEvents`, `MaxSetupEdits`)
because each hazard needs an event in the middle of an operation and at most one
before it to get there and one after; five for hooks (`MaxHookEvents`), which
need an installation, a kill, a manager's hook, another kill and a repair; two
mishaps for tools (`MaxMishaps`: a kill, a failed download, the checkout's
removal), beside two checks and two versions, so that one check drops or repairs
what the other holds. Updates have three
releases, two positions of the base, a session, a publisher and a pusher, an own
fix and a teammate's. Shipping has three task commits and one move of the base.
Gates are three lists that have between them a writer and a reader of one
package, a scan of the root, a measured gate and gates that may run in parallel,
with two checks; the impact of a change has two packages whose dependency the gate
list itself may turn into a cycle, and a force push of two commits takes two of its
three changes. Debt has a finding of each kind (old, new,
fixable, never excused), a hold three versions and three days. The proofs below
drop the bounds of all fourteen parts: they hold for any number of commits,
checks, gates, packages, files, lines, days and events. A part stops when its events are used up,
so deadlock is not checked in this run; that checks do not all wait for each
other is `NobodyStuck`, in `ToolsSafe`.

*Types.* The type invariants of every module are proved for all values of the
constants (section 4), so that the runs spend nothing on most of them; `hardeng`
checks those of the tooling as well (`HardEngTypeOK`).

### Fairness

`EveryRequestEnds` is checked under `WF_vars(Step(r))`: asyncio resumes every
ready task in turn, and httpx gives up on a silent provider
(`providers/base.py`). `Reply`, `Crash` and `StepFails` are not fair: nothing
makes a provider answer. No other property needs fairness; those of the tooling
are about safety, because people, GitHub and the processes it waits for promise
nothing.

### What the violations show

- `scope`: `safe_collection_name` maps the scopes `a::_b` and `a_::b` to one
  Qdrant collection, and the search has no filter. The wall behind it refuses the
  question, so nothing is disclosed (`walls` runs with the same collision), but
  the matter cannot be asked about.
- `orphan`: vectors are stored before the document is saved. When the save
  raises, they stay, and are cited.
- `audit_alarm`: the server and a CLI command may fork the chain, and `/readyz`
  says "tampered" for ever. `OnlyForksBreak` says that nothing else does this.
- `answers_uncited`: a claim without citations is dropped and not counted, so the
  answer is "accepted" with the text of that claim in it.
- `browser_race`: nothing ties a source that arrives to the latest click.

### Also noticed

While translating the code, these differ from what is written about it. Each is
visible in the code without a model, and none has a run.

- `verify_retrieval_scope` raises before the first audit row of a question
  (`service.py:197`), so a breach leaves none; `goal.md:684` says the walls log
  every check.
- After a rotation of the secret, `requires_reindex` compares with the server's
  default, not with the stored override (`runtime_config.py:151-160`), which is
  why `ReindexAnnounced` excepts a file that the secret does not open.
- A hosted provider is accepted without a key when a configuration without one
  exists (`api/app.py:240`), and every question then fails (`ChatRaises`).
- The audit rows of the settings handlers have every field redacted
  (`security/redaction.py:3-32`); `goal.md:891` lists them as readable. The model
  keeps them as they are stored (`Redact`).
- `verify` accepts a quote that is empty once normalized
  (`citation_verifier.py:180`): hence `EmptyQuote` in `Grounded`.
- `openModal` opens with the settings it awaited, also when the tenant has changed
  meanwhile (`settings_panel.js:87-101`): the form of one tenant is then saved for
  the other, where `README.md:266` says that each tenant has its own. A deletion that is
  answered late empties the form of the next tenant, and a timer closes a dialog
  that was opened again. `FormCurrent` excepts these (`strayed`).
- A list of the matter left behind may arrive after the list of the matter
  chosen, and stays (`ui/app.js:260`); `settings_panel.js:74` checks for this in
  its own fetch.
- A PDF that fails to load leaves the source shown before under the new title
  (`ui/app.js:434-439`).
- After the matter changes and until its list arrives, a question is sent with
  the documents selected before (`ui/app.js:373`); the server refuses them.

Of the tooling, these are what its models had to except or leave out:

- *Update*: a branch with at most one commit counts as finished
  (`unfinished_update`), also when that commit is a person's.
- *Install*: SIGTERM during a roll-back ends it halfway, and a repair that is
  terminated is not rolled back at all: `interrupt_update` raises `SubprocessError`
  (`update_runner.py:698-700`), which `repair_installation` does not catch
  (`update.py:736`). An edit between the last look and the rename is lost ("late"), as is
  one between the plan and the snapshot of a repair (`update.py:696`, `:726-731`), which
  takes it for what was there; when the commit of a repair is rejected, what an agent
  had staged is reset.
- *Setup*: `release_installed` does not look above the block it removes, and
  `setup.py` itself is not in the repository.
- *Shipping*: an edit made after the second guard is lost with
  `git worktree remove --force`, hence "late" in `EditsKeepTheTree`.
- *Review*: two challenges that finish at once may replace a completed review by
  one not done, hence `crossed`; rules that change after they were read are
  bypassed with the review; a kill between the two files of a review leaves one.
- *Gates*: a check that is killed with SIGKILL frees its lock while its commands
  live; the measured times are read, changed and written by several worktrees.
- *Impact*: a force push of several commits is checked against the parent of its
  head only (`ci_setup.py:905-934`), and a newer push cancels the older run of the base
  (`.github/workflows/ci.yml:11-13`) but compares only its own before and after: the
  packages of the older push may stay unjudged until they change again (`missed`).
- *Debt*: an adoption that is repeated while setup fails records no debt; an entry
  for `tests` written by hand is honoured in the change that installs.
- *Sessions*: a file edited and put back during a check is not noticed; a torn
  state file loses its counts; a decision may be shown and never answered.
- *Hooks*: a torn launcher beside a kept copy is refused for ever; the advice of
  `check_free` leads to the same refusal; a hook written between the look and the
  write of the launcher is overwritten. An update writes Husky's committed hook as an
  ordinary file: `planned_hook` refuses only a project's hook without any copy beside it
  (`hook_chain.py:199-203`), and `install_revision` then skips `install_planned_hook`
  (`update.py:849`), so a hook newer than its copy, or beside a copy that was never
  finished, is replaced without `preserve` and stays in the history of git alone
  (`overwritten`).
- *Tools*: `prune_checkouts` deletes a lock file that another may be about to
  lock; a quick check takes no lock; `mise uninstall --all` runs under other checks.
- *Mcp*: a server disabled by its user may be registered enabled beside it; a
  custom command with a launcher gives Appwrite two targets.
- *Plans*: a feature of plans only may stop the next release, as may a decision
  accepted after the files it names are gone, a verified update, which passes beside
  open plans (`plans.py:543-551`), a feature that puts a plan back to its released text,
  and one merged by hand behind its base, where two requirements or a plan and the test
  it names come from branches that were never checked together. `PlansSafe` says
  nothing of `next` after such a landing.
- *Setup*: the check of an installation that was repaired at its own revision
  (`update.py:909`) is not modelled. *Mcp*: the constant entries of Dart and Marionette
  are left out. *Freshness*: the bound starts anew with every hold that is written.

## 4. Proofs

Every theorem holds for every value of the constants under the named
assumptions of the modules, which say what type a constant has, that a sentinel
(`None`, `Uncached`, `EmptyQuote`, …) is not an ordinary value, and, in
`TextAssumption`, that the sentences of a chunk occur in it. `AuditLog` takes
SHA-256 to be free of collisions, by the definition of `Digest`.

| theorem | argument |
|---|---|
| `CiteOrDieServiceProofs!TypeCorrect` | the type invariant is inductive |
| `ContextWallHolds`, `SelectedSourcesHolds`, `GuardedDisclosureHolds`, `OutputWallIdleHolds`, `AnswerAccountedHolds`, `UploadDurableHolds`, `AuditBeforeDisclosureHolds` | from `Invariance`, below |
| `ReadYourUploadsHolds` | `ReadInv`, where neither `embed` nor `search` suspends |
| `SentFromLibraryHolds`, `CitationsOpenHolds` | `LibraryInv`, where vectors are in memory and saves do not raise |
| `SearchScopedHolds` | `ScopedInv`, where no two scopes share a collection name |
| `Implementation` | every step of the pipelines is a step of `MatterWall` or a stutter |
| `AlterationDetectedHolds` | `SoundInv` |
| `BrokenForGoodHolds` | a prefix of a verified table is verified; from `SoundInv` |
| `OnlyForksBreakHolds` | `ForkInv` |
| `ChainHoldsAlone` | `WriterInv`, assuming one process |
| `CachesCoherent`, `ServedFreshHolds`, `KeysForgottenHolds`, `OnlyAdminReplacesHolds`, `ReindexAnnouncedHolds` | `Coherent` |
| `RequestScopedHolds`, `PageHonestHolds` | `ClientInv` |
| `PanelSafeHolds` | `PanelInv` |
| `GroundedHolds`, `NoDroppedTextHolds`, `DefinitionAnsweredHolds` | `AnswerInv`, from lemmas about `Verify` |
| `ReviewSafeHolds`, `ShippingSafeHolds`, `GatesStaySafe`, `SessionsStaySafe`, `PlansStaySafe`, `ImpactStaysSafe` (`HardEngWorkProofs`) | `ReviewInv`, `ShipInv`, `GatesInv`, `SesInv`, `PlansSafe` itself, `ImpInv` |
| `DebtSafeHolds`, `HooksSafeHolds`, `ToolsSafeHolds`, `HoldsRunOutHolds`, `UpdateStaysSafe`, `McpStaysSafe`, `InstallStaysSafe`, `SetupStaysSafe` (`HardEngUpkeepProofs`) | `DebtInv`, `HookInv`, `ToolInv` with `KitInv`, `FreshInv`, `UpdInv`, `McpInv`, `InsInv`, `SetupInv` |
| `EachPartRuns`, `HardEngTyping` (`HardEngProofs`) | the run `hardeng` is, of each part, a run of the part's own specification; its types are those of the parts (`DebtTyping`, …, `SetupTyping`) |

**Service.** `IInv` strengthens the safety properties to an inductive invariant.
Its heart is `RInv(r)`, over `Stage(r)`, the step a request is at once its
pending audit rows are written, and `Written(r)`, the audit trail it will have
then: with these, the rows between two steps need no cases of their own.
`Admitted` says what every running request passed; `Hits` that what was
retrieved is selected; `Clear` that what the wall and the guard let through is in
scope, clean and named by the first row; `Disclosed` the same of what was sent;
`Verdict` and `Ledger` tie the verified answer to its rows; `Stored` ties the
progress of an upload to the stores. It is needed because none of the safety
properties mentions the steps before its own: that a chunk sent is in scope
depends on the wall passed two commits earlier. One lemma per group of actions
shows that the acting request keeps `RInv`; `Others` and `Framed` show that every
other request does. `CollectionOf` is any function, `Suspends` any set and
`Faults` any set of steps: confidentiality does not depend on collection names,
on which awaits suspend or on what fails.

Three promises do depend on the deployment, and their theorems name of it no more
than they need; the runs `orphan` and `scope` show that without it they are broken.
`ReadInv` says that a request between its rebuild and its fusion holds its event
loop (`LoopHeld`), so that the index it searches is still the one it built, from a
library that held every document acknowledged before it arrived. That is so as
long as `Suspends` has neither `"embed"` nor `"search"`: the provider may suspend, and any
number of processes, failures and restarts may intervene. `LibraryInv` says that a
chunk in the memory of a process is of a document in the library, or of the one
upload that holds the loop and is about to save it; a save that raises, an await
before it that suspends or a store that outlives the process would leave it there
(`MemoryStores`, `SavesSucceed`). `ScopedInv` says that a collection holds chunks
of the scopes it is named for (`NamesTellApart`: one each).

**Audit log.** `SoundInv` says that in an unaltered log the `event_hash` of every
row is the digest of the row's own fields, and that after an alteration it is not
for one of them: a verified table has no such row, wherever it stands.
`BrokenForGoodHolds` needs only that verification of a table verifies its
prefixes (`PrefixVerified`). `ForkInv` says that an unaltered log verifies or has
a fork, and that every writer holds the genesis or the hash of a stored row: if
that is not the last one any more, its row will make the fork. `WriterInv` says
that the only writer holds the last hash.

**Configuration.** `Coherent` says that every entry of the three caches is what
the tenant's file yields under the current secret. No property by itself is
inductive: an entry of `providers` is harmful only when a later `load` yields its
key again, which repeated clock readings allow; it is eviction, not the time in
the key, that prevents it. `AnnounceInv` carries the announcement from the
handler over its audit row.

**Browser.** `ClientInv` adds to the three properties that a cached token is of
the scope it is cached under (`TokenTold`), and that a suspended handler that loads a
source knows which, and that it is a PDF where it renders pages (`PassageKnown`,
for the types). `PanelInv` adds that a handler's token and key are of the scope it was
called in (`CallsKnow`), that while the dialog is open the key in it is of the page's
tenant (`KeyOfTenant`), and that the status of the tenant chosen last is shown or
still awaited (`StatusComes`): `KeysStayHome` alone is not inductive, because the key
it speaks of was typed many steps before it is sent.

**Answers.** `VerifiedSound`, `RepairedSound` and `VerifySound` say what a
verdict guarantees, `ExtractiveAccepted` that the fallback's own citation always
verifies when the question asks for no types, and `BestCandidate` that among
candidates there is one of the highest score, by well-foundedness of the bounded
scores. `ReturnedSound` and `DefinitionReturned` combine them.

**Tooling.** Every part has an inductive invariant of its own.

- *Review.* `ReviewInv` says what each step of a challenge and of a shipment has read
  (`Knows`, `ShipmentKnows`) and that a verdict on record was given.
- *Shipping.* `ShipInv` ties `ship`'s steps to what they proved (`ShipKnows`), the
  landed head to the pull request's, and every passed check to a tested tree
  (`PassedWasTested`), for which commits that do not exist yet must have no checks
  (`CommitsExist`): without it the base of a new commit could change under a result.
- *Gates.* `GatesInv`: a check that is not idle has the turn (`TurnHeld`); each of its
  gates is waiting, in a thread or finished, and one with a thread has those it waits
  for finished (`ScheduleKept`); a thread spawns only while nothing has stopped
  (`SpawnHolds`); a report that is read is the gate's own. That the schedule never
  stands still (`NeverStuck`) takes the first of the waiting gates, which exists
  because the order is one of numbers (`LeastNat`).
- *Sessions.* `SesInv` speaks of every record of the session's file, on disk or in the
  hands of a process that read it before somebody else wrote (`GoodRecords`): its base
  is a commit with known files, it names as dirty only what the session began with,
  and remembers only a check that passed. What the hook saw is tied to the tree it
  read (`StopSees`), because what `dirty_files` says of a tree and a commit
  determines the tree. What is known only grows.
- *Plans.* `PlansSafe` is inductive as it stands: that a change which passed on its way
  to `next` passes the release too (`FeatureIsRelease`) is a lemma about the two checks
  of one tree, and that an update changes nothing plans are checked with
  (`UpdateKeepsRest`) carries live requirements over the changes that skip the checks.
- *Impact.* `ImpInv`: a branch that is not behind its base left it as it is
  (`BranchesLeft`), so what CI found of it holds on the base; a package is judged,
  waits for a run, or is `missed` (`AllJudged`). Under it lies
  `ExpandClosed`: the dependents of a set are closed under "depends on". `Expand` is a
  function defined by recursion over rounds; that it is defined, grows and, a round
  that adds nothing being closed, is closed after as many rounds as there are
  packages, is shown by induction over a set of numbers (`ByRounds`), which needs no
  operator as a parameter.
- *Debt.* `DebtInv` adds that while only the adoption itself changes the tree its
  output is what is there (`QuietAdoption`).
- *Hooks.* `HookInv` adds `CopyIsSafe`: the copy is opened only when the hook to copy is
  the project's last, and the launcher written only when the copy holds the last;
  that is what makes a kill between any two writes safe. While Husky's file waits to be
  written over, a project's hook in it has some copy beside it.
- *Tools.* `ToolInv` adds `LocksHeld`: one check works under `install.lock`, and what one
  drops no other holds; `NobodyStuck` then follows from the wait to its holder.
  `KitInv` is about the tools: a check that runs gates has a release on its PATH, and
  it is there unless another check repaired since (`disturbed`).
- *Freshness.* `FreshInv` needs only that an accepted hold ends within the bound of its
  first acceptance.
- *Update.* `UpdInv` says what a process still knows when it acts on a value it read
  earlier (`UpdKnows`): the base only gains commits, the branch only gains fixes while
  somebody else holds the lock, and a value that was replaced does not come back; that
  makes the compare-and-swap and the push with a lease safe. That a head which lands
  once had passing checks speaks of the past (`passed`): "its checks pass", read
  from the pull request of the moment, is false with two publishers, since a push may
  replace the head between the read and the merge's arrival, which TLC found.
- *Mcp.* `McpInv`: with the target written that a setup worked out, the next setup works
  out the same, file by file.
- *Install.* `InsInv` says for each step of the transaction which paths may hold planned
  content (`InsWritten`), that a path holds what was taken before the writes, that content
  or an edit (`InsExpected`), that what is about to be replaced was looked at or edited
  since (`InsGap`), and what the index holds of paths no agent staged (`InsIndexed`).
- *Setup.* `SetupInv` adds `UpdatedBase`: a branch that is its base and one update is the
  plan of that update over the base. The rest are lemmas about texts of any length:
  the text setup writes reads back as what it was made of (`SuffixIsOwn`,
  `BlockIsOfRules`), and two texts with the same end, without a rule above it, have
  the same rules in the same order (`SameEndSameRules`).
- *Together.* `EachPartRuns` says that `HardEngSpec`, which TLC runs, implies the
  specification of each part, so that every theorem above is one about the run.

The assumptions are those of the modules. Most are types of constants and sentinels
that are no ordinary value. Five say more: `FreshConstants`, that every set of
published versions has a newest; `GateOrderLists`, that ordering a list of gates
gives a list of gates (sorting is defined by recursion over data); `PlanConstants`,
that a plan is no source file; `SetupConstants`, that the rules of a project are
none of the lines setup writes; and `ReadsAreDeclared`, that the dependencies and
inputs declared for a package lead to whatever its gates read, on which the tool
itself rests (a read nobody declared is judged by nobody). TLC evaluates them all
on the instance of `hardeng`.

Only model-checked: `EveryRequestEnds`, because liveness under fairness is
outside the prover's reach, as is whatever depends on ENABLED. The five properties
that the code violates are of course not proved; `CitationsOpen` and `SearchScoped`
are, under the hypotheses named. No module declares a RECURSIVE operator.

## 5. Not modelled

- Text: which text the guards, the definition patterns and the PII patterns
  match, the similarity of embeddings, ranking scores and fusion weights. The
  model allows every outcome they could have.
- Cryptography: encryption of the configuration and the verification of tokens
  are taken as given; tokens do not expire in `BrowserClient`.
- Formats: providers' requests and responses, the wire format of the API and its
  event stream, document parsers, SQL schema migration.
- Page numbers and a pasted token of the page.
- Metrics and traces (no decision reads them), evaluations, deployment files and
  recording.
- Of the tooling: the parsers of other tools' reports, language setup and file
  templates (`reports.py`, `project_setup.py`, most of `ci_setup.py`), which are
  functions from files to text; retries of a failed update by time, and the
  retirement of older generations of the tooling; what gates print, and the
  measured times that only order them; evidence files and delivery policies of
  shipping; the registration of hooks in the agents' own settings.

## 6. Plan

Done: the service and its proofs; the audit log; the runtime configuration; the
answer; the browser page and its settings panel; the development tooling; and the
proofs of every safety property that the passing runs check.
Next, in this order:

1. `TextWindows`: `chunk_pages` (`ingest/chunker.py:12-42`) as a function of page
   length, size and overlap, against the definition "consecutive windows that
   cover every page and end"; one run over small pages, and theorems that the
   windows cover the text and that the loop advances. `Walls!ChunkPages` then
   refers to it.
2. `Upload limits`: `ReadLimitedUpload` (`api/app.py:115-130`), reading in blocks
   up to a limit: never more than limit plus one block is held, and a body at the
   limit is accepted; the arithmetic proved.
3. `HybridRetrieval`: reciprocal rank fusion, the merge of candidates and the
   sparse backfill of `retrieval/rerank.py:34-58, 100-120` and the citation graph
   (`graph/index.py`) as operators over rankings, refining the "any ranking" of
   `FuseAndRerank`; checked against reference definitions, and lemmas that no
   chunk is invented or repeated.
4. `chat_stream`: the events of an answer and a client that leaves.
5. Composition: `CiteOrDieService` over `AuditLog` in place of `trail`, so that
   an audited disclosure is one that verification would find missing.
6. Liveness of the tooling: that a push whose checks pass lands, under a fairness
   that the retries of a failed update would justify once they are modelled.
