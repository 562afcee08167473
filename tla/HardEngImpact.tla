---------------------------- MODULE HardEngImpact ----------------------------
(***************************************************************************)
(* Which packages a change runs the gates of, and what that leaves         *)
(* unchecked on the base branch: gate_config.py (affected_groups and what  *)
(* it calls), dependency_graph.py, hard-eng.py check and proven_elsewhere, *)
(* update.py installed_update_paths and check_scaffold_update, and the     *)
(* pre-push hook that leaves the dependents of a change to CI.             *)
(*                                                                         *)
(* A tree gives every file a version.  A package's gates read the files in *)
(* Reads[p]; what they say is a function of these and of the rules.        *)
(***************************************************************************)
EXTENDS FiniteSets, Naturals, Functions

CONSTANTS
  Packages, Files,
  Owner,      \* package whose path holds the file (the longest), or Unowned
  Unowned,
  Document,   \* Markdown, plans, instructions, workflows that run no check
  GateList,   \* hard-eng.gates.json; its version is the configuration
  Scaffold,   \* the installed runner, rules and release marker, as one file
  Releases,   \* versions of Scaffold that a verified release installs
  Configured, \* what each version of GateList declares: depends_on, impact_inputs
  Reads,      \* files the gates of a package read
  Failing,    \* views of a package, as Facts returns them, that fail its gates
  Versions,   \* contents a file may have
  Start,      \* the tree whose packages have all been checked once
  MaxChanges  \* bound: edits, rebases and pushes to trunk; a force push counts for two

Trees == {t \in [Files -> UNION {Versions[f] : f \in Files}] : \A f \in Files : t[f] \in Versions[f]}

ASSUME ImpactConstants ==
  /\ IsFiniteSet(Packages)
  /\ {GateList, Scaffold} \subseteq Files \ Document /\ Document \subseteq Files
  /\ GateList # Scaffold
  /\ Owner \in [Files -> Packages \cup {Unowned}] /\ Unowned \notin Packages
  /\ Reads \in [Packages -> SUBSET Files] /\ MaxChanges \in Nat
  /\ Start \in Trees /\ Start[Scaffold] \in Releases

VARIABLES
  trunk,    \* the base branch: its tree and how often it moved
  topic,    \* the task branch: the tree in the working copy and what it left trunk at
  sent,     \* the tree of the task branch on origin and its fork, or NotSent
  verdict,  \* CI's verdict on what was sent: "none", "passed" or "failed"
  runs,     \* CI runs of pushes to trunk under way: trees before and after
  current,  \* history: packages whose gates have run on what they read on trunk
  missed,   \* history: packages whose run was cancelled, or hidden by a force push
  changes

impVars == <<trunk, topic, sent, verdict, runs, current, missed, changes>>

NotSent == [tree |-> <<>>, over |-> 0]

\* Rules of a release do not fail what passed; edited rules may.
Facts(p, tree) ==
  [read  |-> Restrict(tree, Reads[p]),
   rules |-> IF tree[Scaffold] \in Releases THEN "release" ELSE tree[Scaffold],
   gates |-> tree[GateList]]
GatesPass(p, tree) == Facts(p, tree) \notin Failing[p]

-----------------------------------------------------------------------------
(* The selection, for a change from the tree before to the tree after. *)

Differing(before, after) == {f \in Files : before[f] # after[f]}
DependsOn(p, tree) == Configured[tree[GateList]].depends_on[p]
Consumers(f, tree) == {p \in Packages : f \in Configured[tree[GateList]].impact_inputs[p]}

Dependents(selected, tree) == {p \in Packages : DependsOn(p, tree) \cap selected # {}}

\* Mutant: the packages that depend on the selected ones are left out.
Expand_Mutant(selected, tree) == selected

\* expand_dependents: the selected packages and, to any depth, those that depend on them.
Expand(selected, tree) ==
  LET more[n \in 0..Cardinality(Packages)] ==
        IF n = 0 THEN selected ELSE more[n - 1] \cup Dependents(more[n - 1], tree)
  IN  more[Cardinality(Packages)]

\* cycle_members: the selected packages and the ones they share a cycle with.
CycleMembers(selected, tree) ==
  {p \in Expand(selected, tree) : selected \cap Expand({p}, tree) # {}}

\* packages_for: every package for what changes how packages are checked or for what no
\* package owns; documents select only the packages that declare them as inputs.
Everyone(names, tree) ==
  \E f \in names : \/ f \in {GateList, Scaffold}
                   \/ Owner[f] = Unowned /\ f \notin Document /\ Consumers(f, tree) = {}
PackagesFor(names, tree) ==
  IF Everyone(names, tree) THEN Packages
  ELSE {p \in Packages : \E f \in names :
          \/ p \in Consumers(f, tree)
          \/ p = Owner[f] /\ (f \notin Document \/ Consumers(f, tree) # {})}

\* What the reviewed gate list promises: a file a package's gates read is the package's
\* own or declared as its input, or belongs to a package it depends on, at any depth; the
\* runner's own files are read by none.
ASSUME ReadsAreDeclared ==
  \A tree \in Trees, p \in Packages : \A f \in Reads[p] :
    /\ f # Scaffold
    /\ \A set \in SUBSET Packages :
         PackagesFor({f}, tree) \cup Dependents(set, tree) \subseteq set => p \in set

\* installed_update_paths: what a verified update of the release marker wrote exactly.
Installed(before, after) ==
  IF /\ before[Scaffold] # after[Scaffold] /\ {before[Scaffold], after[Scaffold]} \subseteq Releases
  THEN {Scaffold} ELSE {}

\* A verified update adds no package of its own.
ChangedPackages(before, after) ==
  PackagesFor(Differing(before, after) \ Installed(before, after), after)

\* affected_groups: what changed and what depends on it.
Affected(before, after) == Expand(ChangedPackages(before, after), after)

\* check: nothing runs for a change that only installs a verified release.
Covered(before, after) ==
  IF Differing(before, after) = Installed(before, after) THEN {} ELSE Affected(before, after)

\* The packages of a set that read the same on trunk once its tree is after.
StillSame(set, after) == {p \in set : Facts(p, trunk.tree) = Facts(p, after)}

-----------------------------------------------------------------------------
ImpactInit ==
  /\ trunk = [tree |-> Start, at |-> 0] /\ topic = [tree |-> Start, over |-> 0, from |-> Start]
  /\ sent = NotSent /\ verdict = "none" /\ runs = {}
  /\ current = Packages /\ missed = {} /\ changes = 0

\* Any edit of the task branch, of the gate list or of the installed files too.
EditTopic ==
  /\ \E f \in Files : \E v \in Versions[f] :
       v # topic.tree[f] /\ topic' = [topic EXCEPT !.tree[f] = v]
  /\ UNCHANGED <<trunk, sent, verdict, runs, current, missed>>

\* Rebase onto the base branch as fetched; changed files win.
RebaseTopic ==
  /\ topic.over # trunk.at
  /\ topic' = [tree |-> [f \in Files |-> IF topic.tree[f] # topic.from[f] THEN topic.tree[f]
                                         ELSE trunk.tree[f]],
               over |-> trunk.at, from |-> trunk.tree]
  /\ UNCHANGED <<trunk, sent, verdict, runs, current, missed>>

\* push_base of ship_actions: what the branch holds on origin, unless it was rewritten.
PushBase == IF sent # NotSent /\ sent.over = topic.over THEN sent.tree ELSE topic.from

\* pre_push checks the changed packages and their cycles, and leaves the rest to CI.
SendTopic ==
  /\ topic # sent /\ topic.tree # topic.from
  /\ \A p \in CycleMembers(ChangedPackages(PushBase, topic.tree), topic.tree) :
       GatesPass(p, topic.tree)
  /\ sent' = topic /\ verdict' = "none"
  /\ UNCHANGED <<trunk, topic, runs, current, missed, changes>>

\* CI of the pull request compares with the base it left and expands to dependents.
PullChecked ==
  /\ sent # NotSent /\ verdict = "none"
  /\ verdict' = IF \A p \in Covered(sent.from, sent.tree) : GatesPass(p, sent.tree)
                THEN "passed" ELSE "failed"
  /\ UNCHANGED <<trunk, topic, sent, runs, current, missed, changes>>

\* Packages that wait for one of the runs.
Awaiting(set) ==
  {p \in Packages : \E run \in set : /\ p \in Covered(run.before, run.after)
                                     /\ Facts(p, run.after) = Facts(p, trunk.tree)}

\* Trunk moves to tree.  A push starts a run on the base branch, and CI may cancel those
\* that are not done (cancel-in-progress): the packages that waited for them are missed.
MoveTrunk(tree, judged, fresh, hidden) ==
  /\ trunk' = [tree |-> tree, at |-> trunk.at + 1]
  /\ current' = StillSame(current, tree) \cup judged
  /\ \E kept \in SUBSET runs :
       /\ runs' = kept \cup fresh
       /\ missed' = StillSame(missed \cup (Awaiting(runs \ kept) \ current), tree) \cup hidden

\* ship merges a passed head that is not behind its base; CI of the push finds the same
\* tree in the merged pull request and runs nothing (reused_pull_request).
MergeTopic ==
  /\ sent # NotSent /\ verdict = "passed" /\ sent.over = trunk.at
  /\ MoveTrunk(sent.tree, Covered(sent.from, sent.tree), {}, {})
  /\ sent' = NotSent /\ verdict' = "none"
  /\ topic' = IF topic = sent THEN [topic EXCEPT !.over = trunk.at + 1, !.from = sent.tree]
              ELSE topic
  /\ UNCHANGED changes

\* A push to trunk by other means: CI compares the tree before with the tree after.
Pushed(tree) == MoveTrunk(tree, {}, {[before |-> trunk.tree, after |-> tree]}, {})

\* A person merges the pull request on GitHub: unchecked, failed or behind its base.
MergeByHand ==
  /\ sent # NotSent /\ ~(verdict = "passed" /\ sent.over = trunk.at)
  /\ Pushed([f \in Files |-> IF sent.tree[f] # sent.from[f] THEN sent.tree[f] ELSE trunk.tree[f]])
  /\ sent' = NotSent /\ verdict' = "none"
  /\ UNCHANGED topic
PushDirectly ==
  /\ \E f \in Files : \E v \in Versions[f] \ {trunk.tree[f]} : Pushed([trunk.tree EXCEPT ![f] = v])
  /\ UNCHANGED <<topic, sent, verdict>>

\* push_base of ci_setup: after a force push CI compares with the parent of the new tip
\* only, and what the commits below changed is hidden from it.
Forced(parent, tree) ==
  MoveTrunk(tree, {}, {[before |-> parent, after |-> tree]},
            {p \in Packages : /\ Facts(p, parent) # Facts(p, trunk.tree)
                              /\ Facts(p, parent) = Facts(p, tree)})
ForcePush ==
  /\ changes + 2 <= MaxChanges /\ changes' = changes + 2
  /\ \E f \in Files : \E v \in Versions[f] :
       LET parent == [trunk.tree EXCEPT ![f] = v]
       IN  \E g \in Files : \E w \in Versions[g] :
             /\ [parent EXCEPT ![g] = w] # trunk.tree
             /\ Forced(parent, [parent EXCEPT ![g] = w])
  /\ UNCHANGED <<topic, sent, verdict>>

\* A run of trunk that was not cancelled ends; they end in any order, and what they find
\* is shown on the commit they ran for.
TrunkChecked ==
  /\ \E run \in runs : runs' = runs \ {run} /\ current' = current \cup Awaiting({run})
  /\ UNCHANGED <<trunk, topic, sent, verdict, missed, changes>>

ImpactNext ==
  \/ SendTopic \/ PullChecked \/ TrunkChecked \/ MergeTopic \/ ForcePush
  \/ /\ changes < MaxChanges /\ changes' = changes + 1
     /\ EditTopic \/ RebaseTopic \/ MergeByHand \/ PushDirectly

ImpactSpec == ImpactInit /\ [][ImpactNext]_impVars

-----------------------------------------------------------------------------
\* The variables hold values of the program.
ImpactTypeOK ==
  /\ trunk.tree \in Trees /\ topic.tree \in Trees /\ current \cup missed \subseteq Packages
  /\ verdict \in {"none", "passed", "failed"}

\* Checking only what a change affects leaves nothing out: on the base branch the gates
\* of a package have run on exactly the files it reads there, or a CI run under way
\* will run them, although no run but the first checked every package (affected_groups).
\* But for the packages that waited for a cancelled run or that a force push hid.
NothingUnjudged(p) ==
  p \notin current \cup missed => \E run \in runs :
    p \in Covered(run.before, run.after) /\ Facts(p, run.after) = Facts(p, trunk.tree)

\* ship never turns a package of the base branch red, also one the branch did not touch
\* and pre-push did not check (expand_dependents, _current_with_base).
MergesStayGreen ==
  [][\A p \in Packages :
       /\ sent # NotSent /\ sent' = NotSent /\ verdict = "passed" /\ sent.over = trunk.at
       /\ GatesPass(p, trunk.tree)
       => GatesPass(p, trunk'.tree)]_impVars

\* The packages a change leaves out need no check: trunk is judged but for what CI gave
\* up, and stays green (affected_groups, packages_for).
ImpactSafe == [](\A p \in Packages : NothingUnjudged(p)) /\ MergesStayGreen
=============================================================================
