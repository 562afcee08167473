--------------------------- MODULE HardEngShipping ---------------------------
(***************************************************************************)
(* How a task branch is pushed, verified, merged and cleaned up            *)
(* (.hooks/shipping.py and .hooks/ship_actions.py), beside the people and  *)
(* GitHub that change the same branch, pull request and base meanwhile.    *)
(*                                                                         *)
(* Task commits are numbers in the order they were made; fork[c] is the    *)
(* position of the base branch that commit c was made on.  The checks of   *)
(* the merged commit on the base branch are those of Merged.               *)
(***************************************************************************)
EXTENDS Integers, FiniteSets

CONSTANTS
  MaxCommit,     \* bound: task commits are 1..MaxCommit
  MaxMoves,      \* bound: other commits on the base branch
  MaxShipEvents, \* bound: steps of people and kills in one behaviour
  Nothing        \* no shipment under way, no push under way

ASSUME ShippingConstants ==
  /\ MaxCommit \in Nat \ {0} /\ MaxMoves \in Nat /\ MaxShipEvents \in Nat
  /\ Nothing \notin Nat

VARIABLES
  made,     \* how many task commits exist
  fork,     \* base position each was made on
  team,     \* commits a teammate pushed
  main,     \* base branch: other commits, the head that landed and on what
  local,    \* the task worktree and branch: head, edits, both still there
  origin,   \* the task branch on origin, 0 when there is none
  pr,       \* the pull request: "open" or "merged", its head, what stands against it
  checks,   \* check state of every commit on GitHub
  pushing,  \* the revision a pre-push snapshot checks
  pushed,   \* history: revisions whose snapshot passed
  tested,   \* history: <<head, base position>> whose tree a CI run passed
  green,    \* history: heads whose required checks ship has read as passed
  ship,     \* the ship command under way
  shipEvents

shipWorld == <<made, fork, team, main, local, origin, pr, checks, pushing, pushed, tested>>
shipVars == <<shipWorld, green, ship, shipEvents>>

Merged == 0                 \* the merged commit, as a key of checks
Heads == 1..MaxCommit
States == {"none", "running", "passed", "failed"}

Resting == [pc |-> "idle", stage |-> "ready", head |-> 0, seen |-> Nothing]

ShipInit ==
  /\ made = 1 /\ fork = [c \in Heads |-> 0] /\ team = {}
  /\ main = [at |-> 0, landed |-> 0, over |-> 0]
  /\ local = [head |-> 1, edits |-> "none", tree |-> TRUE, branch |-> TRUE]
  /\ origin = 0
  /\ pr = [state |-> "none", head |-> 0, blocked |-> "no"]
  /\ checks = [c \in {Merged} \cup Heads |-> "none"]
  /\ pushing = Nothing /\ pushed = {} /\ tested = {} /\ green = {}
  /\ ship = Resting /\ shipEvents = 0

-----------------------------------------------------------------------------
(* pre_push: the pushed revision is checked in a snapshot of its own. *)

\* The branch moves on origin; an open pull request follows it.
OriginMoves(c) ==
  /\ origin' = c
  /\ pr' = IF pr.state = "open" THEN [pr EXCEPT !.head = c] ELSE pr

\* pre_push opens a snapshot worktree at the revision git announced.
PrePush ==
  /\ pushing = Nothing /\ local.tree /\ local.head # origin
  /\ pushing' = local.head
  /\ UNCHANGED <<made, fork, team, main, local, origin, pr, checks, pushed, tested>>

\* A failing gate, or one that changed a pushed file, stops the push; git refuses to
\* overwrite a teammate's commit the branch does not contain.
PushPasses ==
  /\ pushing # Nothing
  /\ pushing' = Nothing
  /\ \/ UNCHANGED <<origin, pr, pushed>>
     \/ /\ pushed' = pushed \cup {pushing}
        /\ IF origin \in team THEN UNCHANGED <<origin, pr>> ELSE OriginMoves(pushing)
  /\ UNCHANGED <<made, fork, team, main, local, checks, tested>>

-----------------------------------------------------------------------------
(* ship: verify, merge, cleanup.  Every read of git or GitHub is a step. *)

ShipTo(next) == ship' = [ship EXCEPT !.pc = next]
Refuse == ship' = Resting

\* run: ready and merge prove the open pull request, the others the merged one.
StartShip(stage) ==
  /\ ship.pc = "idle" /\ local.tree
  /\ ship' = [Resting EXCEPT !.stage = stage,
                             !.pc = IF stage \in {"ready", "merge"} THEN "ready" ELSE "delivered"]
  /\ UNCHANGED <<shipWorld, green>>

\* The branch checked out is the pull request's, at the head that was pushed.
OnPullHead == local.head = pr.head

\* No conversation is open; a review that only another can give may be outstanding.
NothingUnresolved == pr.blocked \in {"no", "review"}

\* _ready_state: local head is the pull request's, nothing blocks it, it is not behind
\* its base and the checkout is clean.
ReadyState ==
  /\ ship.pc = "ready"
  /\ IF /\ pr.state = "open" /\ OnPullHead /\ NothingUnresolved
        /\ fork[pr.head] = main.at
        /\ local.edits = "none"
     THEN ship' = [ship EXCEPT !.pc = "checks", !.head = pr.head, !.seen = pr]
     ELSE Refuse
  /\ UNCHANGED <<shipWorld, green>>

\* The merge commit is reachable from the remote base, read twice.
OnRemoteBase == main.landed # 0

\* _delivered: merged and on the base.
DeliveredState ==
  /\ ship.pc = "delivered"
  /\ IF pr.state = "merged" /\ OnRemoteBase /\ local.edits = "none"
     THEN ship' = [ship EXCEPT !.pc = "checks", !.head = pr.head, !.seen = pr]
     ELSE Refuse
  /\ UNCHANGED <<shipWorld, green>>

\* _checks: the newest run of every required check of that revision has succeeded.
Proves == IF ship.seen.state = "merged" THEN Merged ELSE ship.head
ReadChecks ==
  /\ ship.pc = "checks"
  /\ IF checks[Proves] = "passed"
     THEN ShipTo("confirm") /\ green' = green \cup {Proves}
     ELSE Refuse /\ UNCHANGED green
  /\ UNCHANGED shipWorld

\* verify reads the pull request again: a change since the first read refuses.
Confirm ==
  /\ ship.pc = "confirm"
  /\ IF pr # ship.seen THEN Refuse
     ELSE CASE ship.stage = "merge" /\ ship.seen.state = "open" -> ShipTo("merge")
            [] ship.stage = "cleanup" -> ShipTo("guard")
            [] OTHER -> ship' = [Resting EXCEPT !.pc = "passed", !.stage = ship.stage]
  /\ UNCHANGED <<shipWorld, green>>

PassReported ==
  /\ ship.pc = "passed" /\ Refuse /\ UNCHANGED <<shipWorld, green>>

\* GitHub merges a head by rebase onto whatever the base has become.
LandPull ==
  /\ main' = [main EXCEPT !.landed = pr.head, !.over = main.at]
  /\ pr' = [pr EXCEPT !.state = "merged"]

\* Mutant: the merge does not name the head that was verified.
MergeShipped_Mutant ==
  /\ ship.pc = "merge"
  /\ IF pr.state = "open"
     THEN LandPull /\ ship' = [ship EXCEPT !.pc = "delivered", !.seen = Nothing]
     ELSE Refuse /\ UNCHANGED <<main, pr>>
  /\ UNCHANGED <<made, fork, team, local, origin, checks, pushing, pushed, tested, green>>

\* gh pr merge --match-head-commit, then delivery is verified.
MergeShipped ==
  /\ ship.pc = "merge"
  /\ IF pr.state = "open" /\ pr.head = ship.head
     THEN LandPull /\ ship' = [ship EXCEPT !.pc = "delivered", !.seen = Nothing]
     ELSE Refuse /\ UNCHANGED <<main, pr>>
  /\ UNCHANGED <<made, fork, team, local, origin, checks, pushing, pushed, tested, green>>

\* cleanup_guard: nothing in the worktree and its head is the merged one.
Guarded == local.edits = "none" /\ local.head = ship.head
Guard(pc, next) ==
  /\ ship.pc = pc
  /\ IF Guarded THEN ShipTo(next) ELSE Refuse
  /\ UNCHANGED <<shipWorld, green>>
FirstGuard == Guard("guard", "remote")
SecondGuard == Guard("again", "remove")

\* remote_branch: additional work on origin is preserved.
ReadRemote ==
  /\ ship.pc = "remote"
  /\ IF origin = 0 THEN ShipTo("again")
     ELSE IF origin = ship.head THEN ShipTo("delete") ELSE Refuse
  /\ UNCHANGED <<shipWorld, green>>

\* git push --force-with-lease=<ref>:<head> :<ref>
DeleteRemote ==
  /\ ship.pc = "delete"
  /\ IF origin = ship.head THEN origin' = 0 /\ ShipTo("again")
     ELSE UNCHANGED origin /\ Refuse
  /\ UNCHANGED <<made, fork, team, main, local, pr, checks, pushing, pushed, tested, green>>

\* git worktree remove --force
RemoveTree ==
  /\ ship.pc = "remove"
  /\ local' = [local EXCEPT !.tree = FALSE]
  /\ ShipTo("unref")
  /\ UNCHANGED <<made, fork, team, main, origin, pr, checks, pushing, pushed, tested, green>>

\* git update-ref -d refs/heads/<branch> <head>
DeleteBranch ==
  /\ ship.pc = "unref"
  /\ local' = IF local.head = ship.head THEN [local EXCEPT !.branch = FALSE] ELSE local
  /\ Refuse
  /\ UNCHANGED <<made, fork, team, main, origin, pr, checks, pushing, pushed, tested, green>>

-----------------------------------------------------------------------------
(* GitHub's checks.  CI of the base branch reuses the pull request's run. *)

CheckRuns(c) ==
  /\ c \in {origin, pr.head} \ {0}
  /\ \/ checks[c] = "none" /\ checks' = [checks EXCEPT ![c] = "running"] /\ UNCHANGED tested
     \/ /\ checks[c] = "running"
        /\ \/ checks' = [checks EXCEPT ![c] = "passed"] /\ tested' = tested \cup {<<c, fork[c]>>}
           \/ checks' = [checks EXCEPT ![c] = "failed"] /\ UNCHANGED tested
  /\ UNCHANGED <<made, fork, team, main, local, origin, pr, pushing, pushed, green, ship>>

\* reused_pull_request: the merged tree is the tree the pull request's head had, and
\* that head's checks passed; else the base branch runs its own.
Reusable == fork[main.landed] = main.over /\ checks[main.landed] = "passed"
BaseChecks ==
  /\ main.landed # 0 /\ checks[Merged] = "none"
  /\ \/ Reusable /\ checks' = [checks EXCEPT ![Merged] = "passed"] /\ UNCHANGED tested
     \/ /\ ~Reusable
        /\ \/ /\ checks' = [checks EXCEPT ![Merged] = "passed"]
              /\ tested' = tested \cup {<<main.landed, main.over>>}
           \/ checks' = [checks EXCEPT ![Merged] = "failed"] /\ UNCHANGED tested
  /\ UNCHANGED <<made, fork, team, main, local, origin, pr, pushing, pushed, green, ship>>

-----------------------------------------------------------------------------
(* People. *)

NewCommit(on) == made < MaxCommit /\ made' = made + 1 /\ fork' = [fork EXCEPT ![made + 1] = on]

\* An edit after the last guard is marked late: git worktree remove --force takes it.
Edit ==
  /\ local.tree /\ local.edits = "none"
  /\ local' = [local EXCEPT !.edits = IF ship.pc = "remove" THEN "late" ELSE "early"]
  /\ UNCHANGED <<made, fork, team, main, origin, pr>>
CommitOrRebase ==
  /\ local.tree /\ local.edits # "none"
  /\ \E on \in {fork[local.head], main.at} : NewCommit(on)
  /\ local' = [local EXCEPT !.head = made + 1, !.edits = "none"]
  /\ UNCHANGED <<team, main, origin, pr>>
\* Another worktree of the repository moves the branch once this one is gone.
CommitElsewhere ==
  /\ ~local.tree /\ local.branch /\ NewCommit(fork[local.head])
  /\ local' = [local EXCEPT !.head = made + 1]
  /\ UNCHANGED <<team, main, origin, pr>>
TeammatePushes ==
  /\ origin # 0 /\ NewCommit(fork[origin])
  /\ team' = team \cup {made + 1} /\ OriginMoves(made + 1)
  /\ UNCHANGED <<main, local>>
OpenPull ==
  /\ pr.state = "none" /\ origin # 0
  /\ pr' = [pr EXCEPT !.state = "open", !.head = origin]
  /\ UNCHANGED <<made, fork, team, main, local, origin>>
Review ==
  /\ pr.state = "open"
  /\ \E b \in {"no", "review", "thread"} \ {pr.blocked} : pr' = [pr EXCEPT !.blocked = b]
  /\ UNCHANGED <<made, fork, team, main, local, origin>>
PersonMerges ==
  /\ pr.state = "open" /\ LandPull /\ UNCHANGED <<made, fork, team, local, origin>>
BaseAdvances ==
  /\ main.at < MaxMoves /\ main' = [main EXCEPT !.at = @ + 1]
  /\ UNCHANGED <<made, fork, team, local, origin, pr>>
ShipKilled ==
  /\ ship.pc # "idle" /\ ship' = Resting
  /\ UNCHANGED <<shipWorld, green>>

ShipAround ==
  /\ shipEvents < MaxShipEvents /\ shipEvents' = shipEvents + 1
  /\ \/ ShipKilled
     \/ /\ \/ Edit \/ CommitOrRebase \/ CommitElsewhere \/ TeammatePushes
           \/ Review \/ PersonMerges \/ BaseAdvances
        /\ UNCHANGED <<checks, pushing, pushed, tested, green, ship>>

ShipWork ==
  /\ UNCHANGED shipEvents
  /\ \/ (PrePush \/ PushPasses) /\ UNCHANGED <<green, ship>>
     \/ OpenPull /\ UNCHANGED <<checks, pushing, pushed, tested, green, ship>>
     \/ \E stage \in {"ready", "merge", "delivered", "cleanup"} : StartShip(stage)
     \/ ReadyState \/ DeliveredState \/ ReadChecks \/ Confirm \/ PassReported \/ MergeShipped
     \/ FirstGuard \/ ReadRemote \/ DeleteRemote \/ SecondGuard \/ RemoveTree \/ DeleteBranch
     \/ (\E c \in Heads : CheckRuns(c)) \/ BaseChecks

ShipNext == ShipAround \/ ShipWork
ShipSpec == ShipInit /\ [][ShipNext]_shipVars

-----------------------------------------------------------------------------
\* The variables hold values of the program.
ShipTypeOK ==
  /\ made \in Heads /\ fork \in [Heads -> 0..MaxMoves] /\ team \subseteq Heads
  /\ main \in [at: 0..MaxMoves, landed: 0..MaxCommit, over: 0..MaxMoves]
  /\ local \in [head: Heads, edits: {"none", "early", "late"}, tree: BOOLEAN, branch: BOOLEAN]
  /\ origin \in 0..MaxCommit
  /\ checks \in [{Merged} \cup Heads -> States]
  /\ pushing \in Heads \cup {Nothing} /\ pushed \subseteq Heads

\* ship merges only a head whose required checks it has read as passed, whatever is
\* pushed to the pull request between the verification and the merge (--match-head-commit).
OnlyVerifiedHeadsMerge ==
  [][ship.pc = "merge" /\ ship'.pc = "delivered" => main'.landed \in green]_shipVars

\* A passed "delivered", "cleanup" or "merge" is about a commit that is on the base
\* branch and whose tree some CI run has passed, also when the base branch reused the
\* pull request's run (reused_pull_request).
DeliveredMeansTested ==
  ship.pc = "passed" /\ ship.stage # "ready" =>
    main.landed # 0 /\ <<main.landed, main.over>> \in tested

\* Cleanup deletes a ref only at the merged head: commits added to origin's branch or to
\* the local branch after the verification outlive it (cleanup's lease and old value).
CommitsOutliveCleanup ==
  [][/\ origin # 0 /\ origin' = 0 => origin = main.landed
     /\ local.branch /\ ~local'.branch => local.head = main.landed]_shipVars

\* Edits made while cleanup talks to the remote keep the worktree: only one made after
\* the second guard is lost with it.
EditsKeepTheTree ==
  [][local.tree /\ ~local'.tree => local.edits # "early"]_shipVars

\* A commit of this checkout reaches origin only if a snapshot of exactly that revision
\* passed, whatever the worktree became meanwhile (pre_push).
PushedWasChecked == origin # 0 => origin \in pushed \cup team

\* What pre-push sends, ship merges and cleanup deletes is what was checked, and work added
\* meanwhile stays (shipping.py, ship_actions.py).
ShippingSafe ==
  [](PushedWasChecked /\ DeliveredMeansTested)
    /\ OnlyVerifiedHeadsMerge /\ CommitsOutliveCleanup /\ EditsKeepTheTree
=============================================================================
