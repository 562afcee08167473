---------------------------- MODULE HardEngUpdate ----------------------------
(***************************************************************************)
(* The scaffold updater of .hooks (update_runner.py, update_pr.py and the  *)
(* driver of update.py): one update at a time per repository prepares the  *)
(* newest CI-verified release as one commit on the branch hard-eng/update, *)
(* and update-pr publishes that branch as a pull request.                  *)
(*                                                                         *)
(* An updater is a supervisor (run_update) and a worker (apply_update)     *)
(* that share one flock; either may be killed at any step.  update-pr      *)
(* (publish) is one process that takes the same lock only to build.        *)
(* A commit of the update branch is what git compares: the base commit it  *)
(* was built on, the release it installs and the fixes committed on top.   *)
(***************************************************************************)
EXTENDS Integers, FiniteSets

CONSTANTS
  Sessions,   \* background updates that session starts launch (run_update)
  Publishers, \* update-pr processes (publish)
  Pushers,    \* processes that check a push in a snapshot worktree
  OwnFixes,   \* commits a person puts on the local update branch
  TeamFixes,  \* commits a teammate pushes to origin's update branch
  MaxRev,     \* bound: releases are 1..MaxRev
  MaxBase,    \* bound: commits of origin's base branch are 0..MaxBase
  MaxEvents,  \* bound: kills, pushes and steps of people in one behaviour
  None        \* no branch, no pull request, nobody

VARIABLES
  newest,      \* the newest release whose upstream check passed
  base,        \* origin's base branch: position, installed release, what it merged
  branch,      \* the local branch hard-eng/update
  checkout,    \* the worktree it is checked out in: "none", "clean" or "dirty"
  remote,      \* origin's hard-eng/update
  updatePull,  \* the open pull request of that branch
  passed,      \* history: the heads whose checks have ended green
  failure,     \* the remembered refusal: release and base it was refused on
  lock,        \* the holder of hard-eng-update.lock
  worktrees,   \* temporary worktrees, each live while its process is
  push,        \* [Pushers -> "idle" or "checking"]
  up,          \* [Updaters -> the state of the process]
  events       \* bound: how many of the counted events have happened

updRepo == <<newest, base, branch, checkout, remote, updatePull, passed>>
updVars == <<updRepo, failure, lock, worktrees, push, up, events>>

Updaters == Sessions \cup Publishers
Fixes == OwnFixes \cup TeamFixes
Revs == 1..MaxRev
Commit == [on: 0..MaxBase, rev: Revs, fixes: SUBSET Fixes]
Base == [at: 0..MaxBase, rev: Revs, merged: SUBSET (Revs \cup Fixes)]
Worktree == [kind: {"candidate", "push"}, owner: Updaters \cup Pushers, live: BOOLEAN]

(* Processes are of one kind each, and a fix has one author.                *)
ASSUME UpdateConstants ==
  /\ MaxRev \in Nat \ {0, 1} /\ MaxBase \in Nat /\ MaxEvents \in Nat
  /\ Sessions \cap Publishers = {} /\ Pushers \cap Updaters = {}
  /\ OwnFixes \cap TeamFixes = {} /\ Fixes \cap Nat = {}
  /\ None \notin Updaters \cup Commit

Idle == [pc |-> "idle", boss |-> FALSE, tip |-> None, seen |-> None, built |-> None]

UpdInit ==
  /\ newest = 2
  /\ base = [at |-> 0, rev |-> 1, merged |-> {1}]
  /\ branch = None /\ checkout = "none" /\ remote = None /\ updatePull = None
  /\ passed = {} /\ failure = None /\ lock = None /\ worktrees = {}
  /\ push = [p \in Pushers |-> "idle"]
  /\ up = [u \in Updaters |-> Idle]
  /\ events = 0

-----------------------------------------------------------------------------
(* What the updater asks of git. *)

\* Commits of c that b lacks, by content: rev-list --right-only --cherry-pick.
Ahead(c, b) == ({c.rev} \cup c.fixes) \ b.merged

\* unfinished_update: edits in the branch's worktree, or more than one commit ahead.
Unfinished(b) ==
  \/ checkout = "dirty"
  \/ branch # None /\ Cardinality(Ahead(branch, b)) > 1

\* branch_current: on the base tip and holding the newest release after the base's.
BranchCurrent(b) ==
  branch # None /\ branch.on = b.at /\ branch.rev = newest /\ newest > b.rev

IsAncestor(r, c) == r.on = c.on /\ r.rev = c.rev /\ r.fixes \subseteq c.fixes

\* replaceable_remote: the remote tip may be replaced if the branch contains it or
\* if all the base lacks of it is a generated update, not newer than ours.
Replaceable(r, c, b) == IsAncestor(r, c) \/ (r.fixes \subseteq b.merged /\ r.rev <= c.rev)

\* remove_stale_candidates: what a process that exited left behind.
Sweep == {w \in worktrees : w.live}

Candidate(u) == [kind |-> "candidate", owner |-> u, live |-> TRUE]
Orphaned(trees, o) ==
  {IF w.owner = o THEN [w EXCEPT !.live = FALSE] ELSE w : w \in trees}

-----------------------------------------------------------------------------
(* The lock, the supervisor and what may be killed. *)

\* run_update: take the lock without waiting, sweep, start the worker.
StartUpdate(u) ==
  /\ up[u].pc = "idle" /\ lock = None
  /\ lock' = u
  /\ worktrees' = Sweep
  /\ up' = [up EXCEPT ![u] = [Idle EXCEPT !.pc = "fetch", !.boss = TRUE]]
  /\ UNCHANGED <<updRepo, failure, push>>

\* The supervisor sees the worker gone: it sweeps, and closes the lock file.
Supervise(u) ==
  /\ up[u].pc = "exit" /\ up[u].boss
  /\ worktrees' = Sweep
  /\ lock' = None
  /\ up' = [up EXCEPT ![u] = Idle]
  /\ UNCHANGED <<updRepo, failure, push>>

\* SIGKILL of the supervisor: the worker has inherited the lock.
KillSupervisor(u) ==
  /\ up[u].boss
  /\ up' = [up EXCEPT ![u] = IF up[u].pc = "exit" THEN Idle
                               ELSE [up[u] EXCEPT !.boss = FALSE]]
  /\ lock' = IF up[u].pc = "exit" THEN None ELSE lock
  /\ UNCHANGED <<updRepo, failure, worktrees, push>>

\* The worker ends, by itself or killed; without a supervisor the lock goes with it.
WorkerEnds(u) ==
  /\ up' = [up EXCEPT ![u] = IF up[u].boss THEN [Idle EXCEPT !.pc = "exit", !.boss = TRUE]
                                        ELSE Idle]
  /\ lock' = IF lock = u /\ ~up[u].boss THEN None ELSE lock

KillWorker(u) ==
  /\ up[u].pc \notin {"idle", "exit"}
  /\ WorkerEnds(u)
  /\ worktrees' = Orphaned(worktrees, u)
  /\ UNCHANGED <<updRepo, failure, push>>

-----------------------------------------------------------------------------
(* The worker: prepare_update and build_update, under the lock. *)

\* A finished preparation: a session's worker has recorded it and exits, update-pr
\* gives the lock back and goes on to publish if there is something to publish.
Publishable(u) ==
  /\ branch # None /\ branch.rev # up[u].tip.rev
  /\ Unfinished(up[u].tip) \/ BranchCurrent(up[u].tip)
Prepared(u) ==
  IF u \in Sessions THEN WorkerEnds(u)
  ELSE /\ lock' = None
       /\ up' = [up EXCEPT ![u] = [Idle EXCEPT !.pc = "resume", !.tip = up[u].tip]]

FetchBase(u) ==
  /\ up[u].pc = "fetch"
  /\ up' = [up EXCEPT ![u] = [up[u] EXCEPT !.pc = "inspect", !.tip = base, !.seen = branch]]
  /\ UNCHANGED <<updRepo, failure, lock, worktrees, push>>

\* Unfinished work, a branch already current, or a branch checked out elsewhere stop it.
Inspect(u) ==
  /\ up[u].pc = "inspect"
  /\ IF Unfinished(up[u].tip) \/ BranchCurrent(up[u].tip) \/ checkout # "none"
     THEN Prepared(u) /\ UNCHANGED worktrees
     ELSE /\ up' = [up EXCEPT ![u] = [up[u] EXCEPT !.pc = "build"]]
          /\ worktrees' = worktrees \cup {Candidate(u)}
          /\ UNCHANGED lock
  /\ UNCHANGED <<updRepo, failure, push>>

\* update() in the candidate: nothing newer, a refusal remembered for this attempt,
\* a new refusal, an error that is not remembered, or the update commit.
Build(u) ==
  LET attempt == [rev |-> newest, at |-> up[u].tip.at]
      commit == [on |-> up[u].tip.at, rev |-> newest, fixes |-> {}]
  IN /\ up[u].pc = "build"
     /\ worktrees' = worktrees \ {Candidate(u)}
     /\ \/ /\ newest <= up[u].tip.rev \/ failure = attempt
           /\ Prepared(u) /\ UNCHANGED failure
        \/ /\ newest > up[u].tip.rev /\ failure # attempt
           /\ \/ Prepared(u) /\ failure' = attempt
              \/ Prepared(u) /\ UNCHANGED failure
              \/ /\ up' = [up EXCEPT ![u] = [up[u] EXCEPT !.pc = "land", !.built = commit]]
                 /\ UNCHANGED <<failure, lock>>
     /\ UNCHANGED <<updRepo, push>>

\* branch_worktree(root): a branch checked out during the build is left alone.
Land(u) ==
  /\ up[u].pc = "land"
  /\ IF checkout # "none" THEN Prepared(u)
     ELSE up' = [up EXCEPT ![u] = [up[u] EXCEPT !.pc = "swap"]] /\ UNCHANGED lock
  /\ UNCHANGED <<updRepo, failure, worktrees, push>>

\* set_update_branch: git update-ref with the value read before the checks.
SwapBranch(u) ==
  /\ up[u].pc = "swap"
  /\ branch' = IF branch = up[u].seen THEN up[u].built ELSE branch
  /\ Prepared(u)
  /\ UNCHANGED <<newest, base, checkout, remote, updatePull, passed, failure, worktrees, push>>

-----------------------------------------------------------------------------
(* update-pr: publish. *)

\* publish up to locked_update: prepare first unless the branch is worth publishing.
Decide(u) ==
  LET prepare == branch # None =>
                   IF branch.rev = base.rev THEN Ahead(branch, base) = {}
                   ELSE ~Unfinished(base) /\ ~BranchCurrent(base)
      me == [Idle EXCEPT !.tip = base]
  IN /\ up[u].pc = "idle"
     /\ \/ /\ prepare /\ lock = None
           /\ lock' = u /\ worktrees' = Sweep
           /\ up' = [up EXCEPT ![u] = [me EXCEPT !.pc = "fetch"]]
        \/ /\ ~prepare /\ branch.rev # base.rev
           /\ up' = [up EXCEPT ![u] = [me EXCEPT !.pc = "lease"]]
           /\ UNCHANGED <<lock, worktrees>>
     /\ UNCHANGED <<updRepo, failure, push>>

Resume(u) ==
  /\ up[u].pc = "resume"
  /\ up' = [up EXCEPT ![u] = IF Publishable(u)
                             THEN [up[u] EXCEPT !.pc = "lease"] ELSE Idle]
  /\ UNCHANGED <<updRepo, failure, lock, worktrees, push>>

\* replaceable_remote: the remote tip to lease against, or refuse.
LeaseRemote(u) ==
  /\ up[u].pc = "lease"
  /\ up' = [up EXCEPT ![u] =
       IF remote = None \/ Replaceable(remote, branch, up[u].tip)
       THEN [Idle EXCEPT !.pc = "push", !.seen = remote] ELSE Idle]
  /\ UNCHANGED <<updRepo, failure, lock, worktrees, push>>

Moved(head) ==
  IF updatePull = None THEN None
  ELSE [updatePull EXCEPT !.head = head, !.checks = "pending"]

\* Mutant: the push is forced without the lease.
PushBranch_Mutant(u) ==
  /\ up[u].pc = "push"
  /\ remote' = branch /\ updatePull' = Moved(branch)
  /\ up' = [up EXCEPT ![u] = [Idle EXCEPT !.pc = "settle"]]
  /\ UNCHANGED <<newest, base, branch, checkout, passed, failure, lock, worktrees, push>>

\* git push --force-with-lease, then the pull request is found or created.
PushBranch(u) ==
  /\ up[u].pc = "push"
  /\ IF remote = up[u].seen
     THEN /\ remote' = branch
          /\ updatePull' = IF updatePull = None
                     THEN [head |-> branch, checks |-> "pending", auto |-> FALSE]
                     ELSE IF remote = branch THEN updatePull ELSE Moved(branch)
          /\ up' = [up EXCEPT ![u] = [Idle EXCEPT !.pc = "settle"]]
     ELSE up' = [up EXCEPT ![u] = Idle] /\ UNCHANGED <<remote, updatePull>>
  /\ UNCHANGED <<newest, base, branch, checkout, passed, failure, lock, worktrees, push>>

\* check_state and settle: only a passing pull request at our head is merged.
Settle(u) ==
  /\ up[u].pc = "settle"
  /\ up' = [up EXCEPT ![u] =
       IF updatePull # None /\ updatePull.head = branch /\ updatePull.checks = "passing"
       THEN [Idle EXCEPT !.pc = "merge", !.built = branch] ELSE Idle]
  /\ UNCHANGED <<updRepo, failure, lock, worktrees, push>>

\* GitHub lands a head: the branch is merged and may be deleted.
LandHead(h) ==
  /\ base.at < MaxBase /\ h.rev >= base.rev
  /\ base' = [at |-> base.at + 1, rev |-> h.rev, merged |-> base.merged \cup {h.rev} \cup h.fixes]
  /\ updatePull' = None
  /\ remote' \in {remote, None}

\* gh pr merge --match-head-commit, with --admin or --auto.
MergeHead(u) ==
  /\ up[u].pc = "merge"
  /\ up' = [up EXCEPT ![u] = Idle]
  /\ IF updatePull = None \/ updatePull.head # up[u].built
     THEN UNCHANGED <<base, updatePull, remote>>
     ELSE \/ LandHead(updatePull.head)
          \/ updatePull' = [updatePull EXCEPT !.auto = TRUE] /\ UNCHANGED <<base, remote>>
  /\ UNCHANGED <<newest, branch, checkout, passed, failure, lock, worktrees, push>>

-----------------------------------------------------------------------------
(* The push snapshots, people, upstream and GitHub. *)

PushStarts(p) ==
  /\ push[p] = "idle"
  /\ push' = [push EXCEPT ![p] = "checking"]
  /\ worktrees' = worktrees \cup {[kind |-> "push", owner |-> p, live |-> TRUE]}
  /\ UNCHANGED <<updRepo, failure, lock, up>>

\* A push's snapshot is removed by its own process, or left by a killed one.
PushEnds(p) ==
  /\ push[p] = "checking"
  /\ push' = [push EXCEPT ![p] = "idle"]
  /\ worktrees' \in {{w \in worktrees : w.owner # p}, Orphaned(worktrees, p)}
  /\ UNCHANGED <<updRepo, failure, lock, up>>

\* A person works on the update branch in a worktree.
OpenCheckout == branch # None /\ checkout = "none" /\ checkout' = "clean" /\ UNCHANGED branch
EditCheckout == checkout = "clean" /\ checkout' = "dirty" /\ UNCHANGED branch
CommitFix == /\ checkout = "dirty" /\ checkout' = "clean"
             /\ \E f \in OwnFixes \ branch.fixes : branch' = [branch EXCEPT !.fixes = @ \cup {f}]
CloseCheckout == checkout = "clean" /\ checkout' = "none" /\ UNCHANGED branch
Person ==
  /\ OpenCheckout \/ EditCheckout \/ CommitFix \/ CloseCheckout
  /\ UNCHANGED <<newest, base, remote, updatePull, passed, failure, lock, worktrees, push, up>>

\* A teammate pushes a fix to origin's branch.
TeammateFix ==
  /\ remote # None
  /\ \E f \in TeamFixes \ remote.fixes :
       /\ remote' = [remote EXCEPT !.fixes = @ \cup {f}]
       /\ updatePull' = Moved(remote')
  /\ UNCHANGED <<newest, base, branch, checkout, passed, failure, lock, worktrees, push, up>>

Release ==
  /\ newest < MaxRev /\ newest' = newest + 1
  /\ UNCHANGED <<base, branch, checkout, remote, updatePull, passed, failure, lock, worktrees,
                 push, up>>

OtherWorkLands ==
  /\ base.at < MaxBase /\ base' = [base EXCEPT !.at = @ + 1]
  /\ UNCHANGED <<newest, branch, checkout, remote, updatePull, passed, failure, lock, worktrees,
                 push, up>>

ChecksEnd ==
  /\ updatePull # None /\ updatePull.checks = "pending"
  /\ \E c \in {"passing", "failing"} :
       /\ updatePull' = [updatePull EXCEPT !.checks = c]
       /\ passed' = IF c = "passing" THEN passed \cup {updatePull.head} ELSE passed
  /\ UNCHANGED <<newest, base, branch, checkout, remote, failure, lock, worktrees, push, up>>

AutoMerge ==
  /\ updatePull # None /\ updatePull.auto /\ updatePull.checks = "passing"
  /\ LandHead(updatePull.head)
  /\ UNCHANGED <<newest, branch, checkout, passed, failure, lock, worktrees, push, up>>

\* A day passes: the refusal is tried again.
FailureExpires ==
  /\ failure # None /\ failure' = None
  /\ UNCHANGED <<updRepo, lock, worktrees, push, up>>

WorkerStep(u) == FetchBase(u) \/ Inspect(u) \/ Build(u) \/ Land(u) \/ SwapBranch(u)
PublishStep(u) == Resume(u) \/ LeaseRemote(u) \/ PushBranch(u) \/ Settle(u) \/ MergeHead(u)

\* What happens around the updater, bounded together.
Around ==
  /\ events < MaxEvents /\ events' = events + 1
  /\ \/ \E u \in Sessions : KillSupervisor(u)
     \/ \E u \in Updaters : KillWorker(u)
     \/ \E p \in Pushers : PushStarts(p)
     \/ Person \/ TeammateFix \/ Release \/ OtherWorkLands \/ FailureExpires

Work ==
  /\ UNCHANGED events
  /\ \/ \E u \in Sessions : StartUpdate(u) \/ Supervise(u)
     \/ \E u \in Publishers : Decide(u) \/ PublishStep(u)
     \/ \E u \in Updaters : WorkerStep(u)
     \/ \E p \in Pushers : PushEnds(p)
     \/ ChecksEnd \/ AutoMerge

UpdNext == Around \/ Work

UpdSpec == UpdInit /\ [][UpdNext]_updVars

-----------------------------------------------------------------------------
\* The variables hold values of the program.
UpdTypeOK ==
  /\ newest \in Revs /\ base \in Base
  /\ branch \in Commit \cup {None} /\ remote \in Commit \cup {None}
  /\ checkout \in {"none", "clean", "dirty"}
  /\ lock \in Updaters \cup {None}
  /\ worktrees \subseteq Worktree
  /\ push \in [Pushers -> {"idle", "checking"}]

Preparing(u) == up[u].pc \in {"fetch", "inspect", "build", "land", "swap"}

\* One update prepares at a time, also after the supervisor that took the lock was
\* killed and another session started (run_update passes the lock to its worker).
OneUpdatePreparing ==
  \A u, v \in Updaters : Preparing(u) /\ Preparing(v) => u = v

\* No sweep removes the worktree a running build or a running push works in
\* (remove_stale_candidates, abandoned).
RunningWorktreesKept ==
  /\ \A u \in Updaters : up[u].pc = "build" => Candidate(u) \in worktrees
  /\ \A p \in Pushers : push[p] = "checking" =>
       [kind |-> "push", owner |-> p, live |-> TRUE] \in worktrees

\* A commit a person put on the update branch beyond the update commit stays there
\* until the base holds it, whatever an update that started earlier prepared
\* (build_update's compare-and-swap).
LocalFixesKept ==
  [][branch # None /\ Cardinality(Ahead(branch, base)) > 1 =>
       /\ branch' # None
       /\ branch.fixes \subseteq branch'.fixes \cup base'.merged]_updVars

\* A fix a teammate pushed to origin's update branch is never overwritten: it stays
\* on that branch or the base holds it (replaceable_remote, --force-with-lease).
RemoteFixesKept ==
  [][remote # None =>
       \A f \in remote.fixes \cap TeamFixes :
          f \in base'.merged \/ (remote' # None /\ f \in remote'.fixes)]_updVars

\* Only a head whose checks have been green reaches the base branch, although the
\* branch may be pushed between reading the checks and merging (settle).
OnlyGreenHeadsLand ==
  [][base'.merged # base.merged => updatePull # None /\ updatePull.head \in passed]_updVars

\* However sessions, update-pr, pushes and people interleave and are killed: one update
\* prepares at a time in worktrees nobody sweeps, no local or remote fix is overwritten,
\* and only green heads land (update_runner.py, update_pr.py).
UpdateSafe ==
  [](OneUpdatePreparing /\ RunningWorktreesKept)
    /\ LocalFixesKept /\ RemoteFixesKept /\ OnlyGreenHeadsLand
=============================================================================
