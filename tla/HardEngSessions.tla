---------------------------- MODULE HardEngSessions ----------------------------
(***************************************************************************)
(* An agent session in a checkout (.hooks/agent_hooks.py, failures.py and  *)
(* the stages of plans.py): the session start records where it began, each *)
(* turn's Stop hook checks what the session changed since, and an answer   *)
(* that blocks nothing lets the agent claim it is done.                    *)
(*                                                                         *)
(* The session's state file is read and written whole, without a lock, by  *)
(* the Stop hook, by failure hooks and by an install that commits files in *)
(* the same checkout (rebase_sessions), while people edit and push.        *)
(***************************************************************************)
EXTENDS Integers, Sequences, FiniteSets

CONSTANTS
  CodeVersions,  \* contents of the project's code, 0 the first
  GoodCode,      \* those the quick gates pass on
  Failures,      \* failure hooks, each for one failed tool call
  MaxCommits,    \* bound: commits of the branch
  MaxTurns,      \* bound: edits, commits, pushes, kills and failed calls
  Gone,          \* no state file
  Torn           \* the file between write_text's truncation and its write

ASSUME SessionConstants ==
  /\ CodeVersions \subseteq Nat /\ 0 \in CodeVersions /\ GoodCode \subseteq CodeVersions
  /\ MaxCommits \in Nat \ {0} /\ MaxTurns \in Nat

VARIABLES
  log,       \* commits of the branch: the tree of each
  onRemote,  \* how many of them a remote has
  workTree,  \* the working tree
  state,     \* the session's state file: a record, Torn or Gone
  stop,      \* the Stop hook
  fail,      \* [Failures -> a failure hook: its step and what it read]
  install,   \* the install in this checkout and its rebase of the session
  began,     \* history: the tree at session start and the commits before its base
  proven,    \* history: trees a passing check began with, and at which plan stage
  turns

sesVars == <<log, onRemote, workTree, state, stop, fail, install, began, proven, turns>>

\* A tree is the code, the feature's PLAN.md and one file the install writes.
PlanStates == {"draft", "handoff", "ready", "complete"}
Hooks == {"old", "planned", "edited"}
Tree == [code: CodeVersions, plan: PlanStates, hook: Hooks]
Paths == {"code", "plan", "hook"}

NoPass == [base |-> 0, files |-> <<>>, building |-> FALSE]  \* nothing verified yet

Differs(t, u) == {f \in Paths : t[f] # u[f]}

\* dirty_files: the content of every file that differs from a commit.
Dirty(b) == [f \in Differs(workTree, log[b]) |-> workTree[f]]

StopIdle == [pc |-> "idle", saved |-> Gone, base |-> 0, files |-> <<>>, tree |-> Gone,
         changed |-> {}, claim |-> FALSE, building |-> FALSE, ok |-> FALSE, note |-> FALSE]

SesInit ==
  /\ log = << [code |-> 0, plan |-> "ready", hook |-> "old"] >>
  /\ onRemote = 1
  /\ \E v \in CodeVersions : workTree = [log[1] EXCEPT !.code = v]
  /\ state = Gone
  /\ stop = StopIdle /\ fail = [h \in Failures |-> [pc |-> "idle", saved |-> Gone]]
  /\ install = [pc |-> "idle", at |-> 0, saved |-> Gone]
  /\ began = [tree |-> workTree, at |-> 1]
  /\ proven = {} /\ turns = 0

-----------------------------------------------------------------------------
(* The session start and the Stop hook (completion, checked_changes). *)

\* record_session: once per session; a session that began elsewhere has no file.
RecordSession ==
  /\ state = Gone /\ stop.pc = "idle" /\ turns = 0
  /\ state' = [base |-> Len(log), dirty |-> Dirty(Len(log)), verified |-> NoPass,
               shown |-> FALSE, count |-> 0]
  /\ UNCHANGED <<log, onRemote, workTree, stop, fail, install, began, proven>>

\* saved_session: without a file the base is HEAD; a torn one blocks the turn.
StopBegins(claim) ==
  /\ stop.pc = "idle"
  /\ stop' = [StopIdle EXCEPT !.pc = IF state = Torn THEN "blocked" ELSE "scope",
                          !.saved = state, !.claim = claim]
  /\ UNCHANGED <<log, onRemote, workTree, state, fail, install, began, proven>>

\* session_scope: commits a remote has are not this session's change.
Later(a, b) == IF a >= b THEN a ELSE b

\* build_in_progress: every unfinished plan is Ready and not claimed shippable.
Building(claim) == workTree.plan = "ready" /\ ~claim

\* planning_feedback: a draft that is not handed over stops the turn.
PlanUnfinished == workTree.plan = "draft"

\* planning_feedback and planning_only come before any check is run.
StopScope ==
  LET recorded == stop.saved # Gone
      base == Later(IF recorded THEN stop.saved.base ELSE Len(log), onRemote)
      current == Dirty(base)
      before == IF recorded THEN stop.saved.dirty ELSE <<>>
      changed == {f \in DOMAIN current : f \notin DOMAIN before \/ before[f] # current[f]}
      me == [stop EXCEPT !.base = base, !.files = current, !.tree = workTree, !.changed = changed,
                         !.building = Building(stop.claim)]
  IN /\ stop.pc = "scope"
     /\ stop' = [me EXCEPT !.pc =
          CASE PlanUnfinished -> "blocked"
            [] ~PlanUnfinished /\ changed = {} /\ recorded -> "unchanged"
            [] workTree.plan = "handoff" /\ changed \subseteq {"plan"}
                 /\ ~(changed = {} /\ recorded) -> "planning"
            [] OTHER -> "compare"]
     /\ UNCHANGED <<log, onRemote, workTree, state, fail, install, began, proven>>

\* Mutant: what was verified does not say at which stage.
Verified_Mutant == [base |-> stop.base, files |-> stop.files]

Verified == [base |-> stop.base, files |-> stop.files, building |-> stop.building]

\* last_pass: what the last passing check saw.
ComparePass ==
  /\ stop.pc = "compare"
  /\ stop' = [stop EXCEPT !.pc =
       CASE state = Torn -> "blocked"
         [] state # Torn /\ state # Gone /\ state.verified = Verified -> "skipped"
         [] OTHER -> "check"]
  /\ UNCHANGED <<log, onRemote, workTree, state, fail, install, began, proven>>

\* The stage a check asks of the plan: Ready while building, else Complete.
StageReached == workTree.plan = "complete" \/ (stop.building /\ workTree.plan = "ready")

\* run_check: gates and plan stage on the files as they are then.
RunCheck ==
  LET passes == workTree.code \in GoodCode /\ StageReached
  IN /\ stop.pc = "check"
     /\ stop' = [stop EXCEPT !.ok = passes, !.pc = "show"]
     /\ proven' = IF passes THEN proven \cup {<<stop.tree, stop.building>>} ELSE proven
     /\ UNCHANGED <<log, onRemote, workTree, state, fail, install, began>>

\* show_decisions: a decision about a changed file is shown once per session.
ReadShown ==
  /\ stop.pc = "show"
  /\ stop' = CASE state = Torn -> [stop EXCEPT !.pc = "blocked"]
               [] state # Torn /\ state # Gone /\ ~state.shown /\ "code" \in stop.changed ->
                    [stop EXCEPT !.pc = "truncate", !.note = TRUE,
                                 !.saved = [state EXCEPT !.shown = TRUE]]
               [] OTHER -> [stop EXCEPT !.pc = IF stop.ok THEN "remember" ELSE "blocked"]
  /\ UNCHANGED <<log, onRemote, workTree, state, fail, install, began, proven>>

\* remember_pass, after the file of a session that began elsewhere has been made: for
\* the hook that session began at the base of its first passing check.
ReadForPass ==
  LET old == IF state = Gone
             THEN [base |-> stop.base, dirty |-> <<>>, verified |-> NoPass,
                   shown |-> FALSE, count |-> 0]
             ELSE state
  IN /\ stop.pc = "remember"
     /\ stop' = IF state = Torn THEN [stop EXCEPT !.pc = "blocked"]
                ELSE [stop EXCEPT !.pc = "truncate", !.ok = FALSE,
                                  !.saved = [old EXCEPT !.verified = Verified]]
     /\ began' = IF state = Gone THEN [began EXCEPT !.at = Later(@, stop.base)] ELSE began
     /\ UNCHANGED <<log, onRemote, workTree, state, fail, install, proven>>

\* write_text truncates, then writes.
Truncate ==
  /\ stop.pc = "truncate"
  /\ state' = Torn
  /\ stop' = [stop EXCEPT !.pc = "write"]
  /\ UNCHANGED <<log, onRemote, workTree, fail, install, began, proven>>

WriteState ==
  /\ stop.pc = "write"
  /\ state' = stop.saved
  /\ stop' = [stop EXCEPT !.pc =
       CASE stop.ok -> "remember"
         [] ~stop.ok /\ stop.saved.verified = Verified /\ ~stop.note -> "passed"
         [] OTHER -> "blocked"]
  /\ UNCHANGED <<log, onRemote, workTree, fail, install, began, proven>>

Answers == {"blocked", "unchanged", "planning", "skipped", "passed"}
TurnEnds ==
  /\ stop.pc \in Answers /\ stop' = StopIdle
  /\ UNCHANGED <<log, onRemote, workTree, state, fail, install, began, proven>>

\* The agent host stops the hook.
StopKilled ==
  /\ stop.pc \notin {"idle"} \cup Answers /\ stop' = StopIdle
  /\ UNCHANGED <<log, onRemote, workTree, state, fail, install, began, proven>>

-----------------------------------------------------------------------------
(* Failure hooks, one per failed tool call: they replace the file whole. *)

FailureReads(h) ==
  /\ fail[h].pc = "idle" /\ state \notin {Gone, Torn}
  /\ fail' = [fail EXCEPT ![h] = [pc |-> "read", saved |-> state]]
  /\ UNCHANGED <<log, onRemote, workTree, state, stop, install, began, proven>>

FailureWrites(h) ==
  /\ fail[h].pc = "read"
  /\ state' = [fail[h].saved EXCEPT !.count = IF @ < 2 THEN @ + 1 ELSE @]
  /\ fail' = [fail EXCEPT ![h] = [pc |-> "idle", saved |-> Gone]]
  /\ UNCHANGED <<log, onRemote, workTree, stop, install, began, proven>>

-----------------------------------------------------------------------------
(* An install commits its file in this checkout (commit_install). *)

InstallWrites ==
  /\ install.pc = "idle" /\ workTree.hook = "old" /\ log[Len(log)].hook = "old"
  /\ workTree' = [workTree EXCEPT !.hook = "planned"]
  /\ install' = [install EXCEPT !.pc = "written", !.at = Len(log)]
  /\ UNCHANGED <<log, onRemote, state, stop, fail, began, proven>>

\* git commit --only takes the file as it is then.
InstallCommits ==
  /\ install.pc = "written" /\ Len(log) < MaxCommits
  /\ workTree.hook # log[Len(log)].hook
  /\ log' = Append(log, [log[Len(log)] EXCEPT !.hook = workTree.hook])
  /\ install' = [install EXCEPT !.pc = "rebase", !.at = Len(log) + 1]
  /\ UNCHANGED <<onRemote, workTree, state, stop, fail, began, proven>>

\* rebase_sessions: only a commit that holds exactly what was planned is skipped over,
\* and only by a session based on its parent.
CommittedMatches == log[install.at].hook = "planned"
RebaseReads ==
  /\ install.pc = "rebase"
  /\ install' = IF CommittedMatches /\ state \notin {Gone, Torn} /\ state.base = install.at - 1
                THEN [install EXCEPT !.pc = "truncate",
                                     !.saved = [state EXCEPT !.base = install.at]]
                ELSE [install EXCEPT !.pc = "done"]
  /\ UNCHANGED <<log, onRemote, workTree, state, stop, fail, began, proven>>

RebaseTruncates ==
  /\ install.pc = "truncate" /\ state' = Torn
  /\ install' = [install EXCEPT !.pc = "write"]
  /\ UNCHANGED <<log, onRemote, workTree, stop, fail, began, proven>>

RebaseWrites ==
  /\ install.pc = "write" /\ state' = install.saved
  /\ install' = [install EXCEPT !.pc = "done", !.saved = Gone]
  /\ UNCHANGED <<log, onRemote, workTree, stop, fail, began, proven>>

-----------------------------------------------------------------------------
(* The agent and other people in the same checkout. *)

EditFiles ==
  /\ \/ \E v \in CodeVersions \ {workTree.code} : workTree' = [workTree EXCEPT !.code = v]
     \/ \E s \in PlanStates \ {workTree.plan} : workTree' = [workTree EXCEPT !.plan = s]
     \/ workTree.hook = "planned" /\ workTree' = [workTree EXCEPT !.hook = "edited"]
  /\ UNCHANGED <<log, onRemote, state, stop, fail, install, began, proven>>

CommitAll ==
  /\ Len(log) < MaxCommits /\ workTree # log[Len(log)]
  /\ log' = Append(log, workTree)
  /\ UNCHANGED <<onRemote, workTree, state, stop, fail, install, began, proven>>

\* pre-push has checked what it sends; the checks are HardEngShipping's.
Push ==
  /\ onRemote < Len(log) /\ onRemote' = Len(log)
  /\ UNCHANGED <<log, workTree, state, stop, fail, install, began, proven>>

SesNext ==
  \/ /\ UNCHANGED turns
     /\ \/ RecordSession \/ (\E claim \in BOOLEAN : StopBegins(claim))
        \/ StopScope \/ ComparePass \/ RunCheck \/ ReadShown \/ ReadForPass
        \/ Truncate \/ WriteState \/ TurnEnds
        \/ (\E h \in Failures : FailureWrites(h))
        \/ InstallCommits \/ RebaseReads \/ RebaseTruncates \/ RebaseWrites
  \/ /\ turns < MaxTurns /\ turns' = turns + 1
     /\ \/ EditFiles \/ CommitAll \/ Push \/ StopKilled \/ InstallWrites
        \/ (\E h \in Failures : FailureReads(h))

SesSpec == SesInit /\ [][SesNext]_sesVars

-----------------------------------------------------------------------------
\* The variables hold values of the program.
SesTypeOK ==
  /\ log \in Seq(Tree) /\ Len(log) \in 1..MaxCommits /\ onRemote \in 1..Len(log)
  /\ workTree \in Tree
  /\ state \in {Gone, Torn} \/ (state.base \in 1..Len(log) /\ DOMAIN state.dirty \subseteq Paths)
  /\ stop.changed \subseteq Paths

Lets == {"unchanged", "skipped", "passed"}

\* "Unchanged since last passing check" is said only of files with which a passing
\* check of the same stage began, although other processes rewrote the session's file
\* and people edited during the check (remember_pass, last_pass).
SkipIsProven == stop.pc = "skipped" => <<stop.tree, stop.building>> \in proven

\* A turn ends unblocked only if every file the hook read holds what it held when the
\* session began, what was committed before it or pushed since, what the install
\* planned, or a content a passing check began with (session_scope, rebase_sessions).
Known(f) ==
  {began.tree[f]} \cup {log[k][f] : k \in 1..Later(began.at, onRemote)}
    \cup {t[1][f] : t \in proven} \cup (IF f = "hook" THEN {"planned"} ELSE {})
ChangesAreChecked ==
  stop.pc \in Lets => \A f \in Paths \ {"plan"} : stop.tree[f] \in Known(f)

\* A turn that hands work off for shipping with changed code ends unblocked only after
\* a check that asked for a Complete plan: a pass while building does not count
\* (checked_changes, validate_plans).
HandoffIsComplete ==
  stop.pc \in {"skipped", "passed"} /\ stop.claim /\ "code" \in stop.changed =>
    <<stop.tree, FALSE>> \in proven

\* A turn that ends unblocked has nothing in it that no check has seen, and none at the
\* stage it claims (completion, checked_changes).
SessionsSafe == SkipIsProven /\ ChangesAreChecked /\ HandoffIsComplete
=============================================================================
