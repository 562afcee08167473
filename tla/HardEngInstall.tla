---------------------------- MODULE HardEngInstall ----------------------------
(***************************************************************************)
(* How a Hard Eng revision is written into a worktree and committed as one *)
(* transaction (commit_update of .hooks/update_runner.py, install_revision *)
(* and repair_installation of .hooks/update.py), while an agent edits and  *)
(* stages the same paths and SIGTERM may arrive.                           *)
(*                                                                         *)
(* A path holds what is committed, the planned content, or an edit.  The   *)
(* edit of a path nothing looks at again before it is replaced is "late":  *)
(* between the last look and the rename, and, in a repair, between the     *)
(* plan and the snapshot its writes are compared with.  A "draft" was there *)
(* when a repair was planned.                                               *)
(***************************************************************************)
EXTENDS Naturals

CONSTANTS
  Links,       \* planned symbolic links
  Contents,    \* planned files
  MaxTouches   \* bound: edits, stagings and signals around one transaction

ASSUME InstallConstants == Links \cap Contents = {} /\ MaxTouches \in Nat

VARIABLES
  mode,     \* "update", or "repair" of an installation that lost files
  pc,       \* the step of the transaction
  todo,     \* paths still to write, or still to roll back
  at,       \* the path just looked at, whose content is about to be replaced
  applied,  \* paths written, or about to be
  disk,     \* content of each path
  expected, \* content of each path when last taken before the writes
  unedited, \* a repair found no local change, so it commits
  index,    \* content staged for each path
  staging,  \* the entries before and after the updater staged its own
  landed,   \* the commit with the updater's message is in history
  foreign,  \* history: paths the agent staged
  masked,   \* SIGTERM held back until the staging is recorded
  touches

insVars == <<mode, pc, todo, at, applied, disk, expected, unedited, index, staging, landed,
             foreign, masked, touches>>

Planned == Links \cup Contents
Values == {"old", "new", "mine", "draft", "late"}
AsCommitted == [p \in Planned |-> "old"]
Unstaged == [seen |-> "none", before |-> AsCommitted, after |-> AsCommitted]

\* The paths that may come next when those in first go before the others.
Foremost(first) == IF todo \cap first # {} THEN todo \cap first ELSE todo

InsInit ==
  /\ mode \in {"update", "repair"}
  /\ pc = "plan" /\ todo = {} /\ at = {} /\ applied = {}
  /\ disk = AsCommitted /\ expected = AsCommitted /\ index = AsCommitted /\ unedited = FALSE
  /\ staging = Unstaged /\ landed = FALSE /\ foreign = {} /\ masked = "no" /\ touches = 0

Goto(next) == pc' = next
Untouched == UNCHANGED <<mode, foreign, touches>>

-----------------------------------------------------------------------------
(* install_revision: nothing of the plan may have local changes. *)

NoLocalState == \A p \in Planned : disk[p] = "old" /\ index[p] = "old"

\* update_plan, and in an update refuse_local_state.
PlanInstall ==
  /\ pc = "plan"
  /\ Goto(CASE mode = "repair" -> "status" [] NoLocalState -> "validate" [] OTHER -> "refused")
  /\ todo' = Planned
  /\ UNCHANGED <<at, applied, disk, expected, unedited, index, staging, landed, masked>>
  /\ Untouched

\* local_state in a repair: it goes on, but will not commit paths that had changes.
CheckLocal ==
  /\ pc = "status"
  /\ unedited' = NoLocalState /\ Goto("snap")
  /\ UNCHANGED <<todo, at, applied, disk, expected, index, staging, landed, masked>> /\ Untouched

\* validate_gates takes its time and may reject; the paths are looked at again after it.
Validated ==
  /\ pc = "validate"
  /\ pc' \in IF NoLocalState THEN {"snap", "refused"} ELSE {"refused"}
  /\ UNCHANGED <<todo, at, applied, disk, expected, unedited, index, staging, landed, masked>>
  /\ Untouched

\* snapshot and link_state: an update took the contents before it validated.
Snapshot ==
  /\ pc = "snap"
  /\ expected' = [p \in Planned |-> IF mode = "repair" \/ p \in Links THEN disk[p] ELSE "old"]
  /\ Goto("write")
  /\ UNCHANGED <<todo, at, applied, disk, unedited, index, staging, landed, masked>> /\ Untouched

-----------------------------------------------------------------------------
(* relink_verified and write_verified: each path is looked at just before; *)
(* the links come first in an update, last in a repair.                    *)

Fail == pc' = "error"

LookAt ==
  /\ pc = "write"
  /\ \E p \in Foremost(IF mode = "update" THEN Links ELSE Contents) :
       IF disk[p] = expected[p]
       THEN Goto("swap") /\ at' = {p} /\ applied' = applied \cup {p} /\ todo' = todo \ {p}
       ELSE Fail /\ UNCHANGED <<at, applied, todo>>
  /\ UNCHANGED <<disk, expected, unedited, index, staging, landed, masked>> /\ Untouched

\* replace_file renames a whole file into place, or fails and leaves the old one.
SwapIn ==
  /\ pc = "swap"
  /\ \/ Goto("write") /\ disk' = [p \in Planned |-> IF p \in at THEN "new" ELSE disk[p]]
     \/ Fail /\ at \subseteq Contents /\ UNCHANGED disk
  /\ at' = {}
  /\ UNCHANGED <<todo, applied, expected, unedited, index, staging, landed, masked>> /\ Untouched

-----------------------------------------------------------------------------
(* Staging and the commit. *)

\* deferred_sigterm: from reading the entries until they are recorded.
ReadIndex ==
  /\ pc = "write" /\ todo = {} /\ mode = "update"
  /\ Goto("add")
  /\ staging' = [Unstaged EXCEPT !.seen = "before", !.before = index]
  /\ masked' = "yes"
  /\ UNCHANGED <<todo, at, applied, disk, expected, unedited, index, landed>> /\ Untouched

\* commit_install of a repair: what had local changes is written but not committed.
CommitInstall ==
  /\ pc = "write" /\ todo = {} /\ mode = "repair"
  /\ Goto(IF unedited THEN "add" ELSE "left")
  /\ UNCHANGED <<todo, at, applied, disk, expected, unedited, index, staging, landed, masked>>
  /\ Untouched

\* git add may fail; a SIGTERM held back is delivered after it.  No handler of a repair
\* catches a failing git add.
StageAll ==
  /\ pc = "add"
  /\ masked' = IF masked = "pending" THEN "spent" ELSE "no"
  /\ \/ /\ index' = disk
        /\ staging' = IF mode = "update" THEN [staging EXCEPT !.seen = "both", !.after = disk]
                      ELSE staging
        /\ Goto(CASE masked = "pending" -> "error" [] mode = "update" -> "look"
                  [] OTHER -> "commit")
     \/ /\ UNCHANGED <<index, staging>>
        /\ Goto(IF mode = "update" THEN "error" ELSE "left")
  /\ UNCHANGED <<todo, at, applied, disk, expected, unedited, landed>> /\ Untouched

\* unwritten: every applied path still holds what the updater wrote.
LookAgain ==
  /\ pc = "look"
  /\ IF \A p \in applied : disk[p] = "new" THEN Goto("commit") ELSE Fail
  /\ UNCHANGED <<todo, at, applied, disk, expected, unedited, index, staging, landed, masked>>
  /\ Untouched

\* git commit --only: it lands, a commit hook rejects it, or, in an update, it is cut off
\* after an hour, before or after it landed.
GitCommit ==
  /\ pc = "commit"
  /\ \/ /\ landed' = TRUE /\ index' = disk
        /\ pc' \in IF mode = "update" THEN {"done", "error"} ELSE {"done"}
     \/ UNCHANGED <<landed, index>> /\ Goto(IF mode = "update" THEN "error" ELSE "reset")
  /\ UNCHANGED <<todo, at, applied, disk, expected, unedited, staging, masked>> /\ Untouched

\* A repair whose commit was rejected leaves its files and resets their entries.
ResetInstall ==
  /\ pc = "reset"
  /\ index' = AsCommitted /\ Goto("left")
  /\ UNCHANGED <<todo, at, applied, disk, expected, unedited, staging, landed, masked>> /\ Untouched

\* The handlers: OSError and ValueError of the writes in a repair, every failure in an
\* update, which stays when its commit is in history (rebase_sessions).
Recover ==
  /\ pc = "error"
  /\ IF landed THEN Goto("done") /\ UNCHANGED todo ELSE Goto("back") /\ todo' = applied
  /\ at' = {}
  /\ UNCHANGED <<applied, disk, expected, unedited, index, staging, landed, masked>> /\ Untouched

-----------------------------------------------------------------------------
(* roll_back, the contents before the links, and unstage_own. *)

\* Mutant: rolled back whatever the path holds.
LookBack_Mutant ==
  /\ pc = "back"
  /\ \E p \in Foremost(Contents) : todo' = todo \ {p} /\ Goto("restore") /\ at' = {p}
  /\ UNCHANGED <<applied, disk, expected, unedited, index, staging, landed, masked>> /\ Untouched

\* written: a path with a later edit is kept.
LookBack ==
  /\ pc = "back"
  /\ \E p \in Foremost(Contents) :
       /\ todo' = todo \ {p}
       /\ IF disk[p] = "new" THEN Goto("restore") /\ at' = {p} ELSE UNCHANGED <<pc, at>>
  /\ UNCHANGED <<applied, disk, expected, unedited, index, staging, landed, masked>> /\ Untouched

Restore ==
  /\ pc = "restore"
  /\ disk' = [p \in Planned |-> IF p \in at THEN expected[p] ELSE disk[p]]
  /\ at' = {} /\ Goto("back")
  /\ UNCHANGED <<todo, applied, expected, unedited, index, staging, landed, masked>> /\ Untouched

\* Entries the updater changed and that still hold its staging.
Own(p) == index[p] = staging.after[p] /\ staging.after[p] # staging.before[p]
UnstageOwn ==
  /\ pc = "back" /\ todo = {}
  /\ index' = IF staging.seen # "both" THEN index
              ELSE [p \in Planned |-> IF Own(p) THEN staging.before[p] ELSE index[p]]
  /\ Goto("failed")
  /\ UNCHANGED <<todo, at, applied, disk, expected, unedited, staging, landed, masked>> /\ Untouched

-----------------------------------------------------------------------------
(* The agent, SIGTERM and SIGKILL. *)

Running == pc \notin {"done", "failed", "refused", "left", "dead"}

\* Nothing looks at path p between an edit made now and its replacement.
Unseen(p) ==
  \/ pc \in {"swap", "restore"} /\ p \in at
  \/ pc = "snap" /\ p \in Links
  \/ pc \in {"status", "snap"} /\ mode = "repair"

AgentEdits ==
  /\ \E p \in Planned :
       /\ disk[p] # "mine"
       /\ disk' = [disk EXCEPT ![p] = CASE Unseen(p) -> "late"
                                        [] mode = "repair" /\ pc = "plan" -> "draft"
                                        [] OTHER -> "mine"]
  /\ UNCHANGED <<pc, todo, at, applied, expected, unedited, index, staging, landed, foreign,
                 masked>>

AgentStages ==
  /\ \E p \in Planned :
       index' = [index EXCEPT ![p] = disk[p]] /\ foreign' = foreign \cup {p}
  /\ UNCHANGED <<pc, todo, at, applied, disk, expected, unedited, staging, landed, masked>>

\* interrupt_update raises SubprocessError, once: further signals are ignored.
Terminate ==
  /\ mode = "update" /\ pc \notin {"error", "back", "restore"} /\ masked \in {"no", "yes"}
  /\ IF masked = "yes" THEN masked' = "pending" /\ UNCHANGED pc
     ELSE /\ masked' = "spent"
          /\ Goto(IF pc \in {"plan", "validate", "snap"} THEN "refused" ELSE "error")
  /\ UNCHANGED <<todo, at, applied, disk, expected, unedited, index, staging, landed, foreign>>

\* SIGKILL, or a SIGTERM no handler catches: in a repair, whose handler knows OSError and
\* ValueError alone, and within a handler.  Everything stays as it is.
Stopped ==
  /\ Goto("dead")
  /\ UNCHANGED <<todo, at, applied, disk, expected, unedited, index, staging, landed, foreign,
                 masked>>

InsNext ==
  \/ PlanInstall \/ CheckLocal \/ Validated \/ Snapshot \/ LookAt \/ SwapIn \/ ReadIndex
  \/ CommitInstall \/ StageAll \/ LookAgain \/ GitCommit \/ ResetInstall \/ Recover \/ LookBack
  \/ Restore \/ UnstageOwn
  \/ /\ touches < MaxTouches /\ touches' = touches + 1 /\ Running /\ UNCHANGED mode
     /\ AgentEdits \/ AgentStages \/ Terminate \/ Stopped

InsSpec == InsInit /\ [][InsNext]_insVars

-----------------------------------------------------------------------------
\* The variables hold values of the program.
InsTypeOK ==
  /\ disk \in [Planned -> Values] /\ expected \in [Planned -> Values]
  /\ index \in [Planned -> Values] /\ unedited \in BOOLEAN /\ landed \in BOOLEAN
  /\ todo \cup at \cup applied \cup foreign \subseteq Planned
  /\ staging \in [seen : {"none", "before", "both"}, before : [Planned -> Values],
                  after : [Planned -> Values]]

\* An edit of a planned path is overwritten neither by the write nor by the rollback,
\* whenever it is made during an update's checks, staging, commit or rollback, or after
\* the snapshot of a repair.  Not claimed of a "late" edit, which no code looks for.
EditsSurvive == [][\A p \in Planned : disk[p] = "mine" => disk'[p] = "mine"]_insVars

\* One that failed and was rolled back leaves no trace: each path holds what it held or a
\* later edit and, where the agent staged nothing, the index is as it was (roll_back,
\* unstage_own).  A repair that is stopped is not rolled back, and nothing is claimed of it.
FailureLeavesNothing ==
  pc = "failed" =>
    \A p \in Planned : /\ disk[p] \in {expected[p], "mine", "late"}
                       /\ p \notin foreign => index[p] = "old"

\* A commit that landed although git was cut off is not rolled back under it: history
\* and worktree agree (landed_commit in the handler).
LandedIsKept ==
  pc = "failed" => ~landed

\* An installation that is rolled back leaves nothing behind, one that landed is kept, and
\* no edit made meanwhile is overwritten (commit_update, repair_installation).
InstallSafe == [](FailureLeavesNothing /\ LandedIsKept) /\ EditsSurvive
=============================================================================
