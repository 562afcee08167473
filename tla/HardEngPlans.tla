---------------------------- MODULE HardEngPlans ----------------------------
(***************************************************************************)
(* .hooks/plans.py and change_size.py: what a check asks of plans,         *)
(* requirements and decision records before a change may land, over a      *)
(* branch ("next") that collects features and is released from time to     *)
(* time.  A feature is checked against next, a release against the last    *)
(* release; plans.released_plans and the size of the whole branch are      *)
(* there so that the two judge alike.  One feature is worked on, others    *)
(* land meanwhile; it lands on the next it was checked with, or, merged by *)
(* hand, behind it.                                                        *)
(*                                                                         *)
(* A tree has plans, two source files, a test file, a protected file, one  *)
(* requirement r, one decision record, and the files Hard Eng installed.   *)
(* A file is its number of lines: the test file's first line is the test   *)
(* that plans name, its second covers r, and "rule" is the source that     *)
(* names r.  A plan is one of a few texts that the checks tell apart.      *)
(***************************************************************************)
EXTENDS Integers, FiniteSets, FiniteSetsExt

CONSTANTS Plans,
          Absent,           \* a file or a plan that is not there
          SmallLines,       \* MAX_SMALL_LINES
          SmallFiles,       \* MAX_SMALL_FILES
          MaxPlanEdits      \* bounds the edits

Sources == {"c", "rule"}
Code == Sources \cup {"t", "lock"}
LineCounts == [f \in Code |-> CASE f = "c" -> {Absent, 1, 2}
                                [] f = "t" -> {1, 2, 0}
                                [] OTHER   -> {0, 1}]

(* What the registry says of r (registry_entries): no entry, one to be proved by a    *)
(* check, or one that is retired.                                                     *)
Entries == {"none", "check", "retired"}

(* The installed files: as one release of Hard Eng wrote them, as the next did, or edited  *)
(* by hand, which leaves the revision of the first in place.                           *)
Installations == {"first", "second", "edited"}
RevisionOf(he) == IF he = "second" THEN "second" ELSE "first"

(* The texts of a plan. *)
Drafts == {"asking", "wrong handoff"}
Readies == {"ready", "blocked"}
Completes == {"complete", "proves r", "unchecked", "older rules"}
PlanTexts == Drafts \cup Readies \cup Completes
Stages == <<"Draft", "Ready", "Complete">>
Rank(stage) == CHOOSE i \in DOMAIN Stages : Stages[i] = stage

ASSUME PlanConstants ==
  /\ Absent \notin PlanTexts
  /\ Plans \cap (Code \cup {"r", "adr", "he"}) = {}
  /\ MaxPlanEdits \in Nat

VARIABLES
  work, next, release,  \* the trees: edited, collected, released
  branched,             \* next as it was when work left it or was rebased last
  overtaken,            \* a release has moved past it since
  lastLanding,          \* how next came to be since the release
  planEdits             \* edits, of work and of what others land

planVars == <<work, next, release, branched, overtaken, lastLanding, planEdits>>

PlanTrees ==
  {t \in [plan : [Plans -> PlanTexts \cup {Absent}],
          lines : [Code -> {Absent} \cup 0..2],
          r : Entries, adr : {"none", "accepted"}, he : Installations] :
     \A f \in Code : t.lines[f] \in LineCounts[f]}

PlansTypeOK ==
  /\ {work, next, release, branched} \subseteq PlanTrees /\ overtaken \in BOOLEAN
  /\ lastLanding \in {"none", "planning", "update", "reverting", "work", "behind"}
  /\ planEdits \in 0..MaxPlanEdits

-----------------------------------------------------------------------------
(* One plan. *)

PlanStatus(text) ==
  CASE text \in Drafts -> "Draft" [] text \in Readies -> "Ready" [] OTHER -> "Complete"

(* acceptance_tests, missing_tests, untested_requirements: what an edited   *)
(* Complete plan names must exist in the tree.                              *)
RequirementCovered(t) == t.lines["t"] = 2
AcceptanceHolds(t, text) ==
  CASE text = "complete" -> t.lines["t"] >= 1
    [] text = "proves r" -> t.r = "check" /\ RequirementCovered(t)
    [] OTHER             -> TRUE

SoundText(text) == text \notin {"wrong handoff", "blocked", "unchecked"}

(* readiness_errors: baseline, journey and screens have their proof.  A text of older  *)
(* rules lacks fields that only a plan from before them may lack.                     *)
ReadinessHolds(text, legacy) == text = "older rules" => legacy

ValidPlan(t, p, edited) ==
  LET text == t.plan[p]
  IN  /\ SoundText(text)
      /\ ReadinessHolds(text, PlanStatus(text) = "Complete" /\ ~edited)
      /\ PlanStatus(text) = "Complete" /\ edited => AcceptanceHolds(t, text)

-----------------------------------------------------------------------------
(* What changed (changed_files, change_size.update_written). *)

ChangedPlans(t, base) == {p \in Plans : t.plan[p] # base.plan[p]}
ChangedCode(t, base) == {f \in Code : t.lines[f] # base.lines[f]}
PlanChanges(t, base) ==
  ChangedPlans(t, base) \cup ChangedCode(t, base) \cup {x \in {"r", "adr", "he"} : t[x] # base[x]}

\* update_written: another revision's files, exactly as it writes them.
UpdateWritten(t, base) ==
  IF RevisionOf(t.he) # RevisionOf(base.he) /\ t.he # "edited" THEN {"he"} ELSE {}
UpdateOnly(t, base) ==
  PlanChanges(t, base) # {} /\ PlanChanges(t, base) \subseteq UpdateWritten(t, base)

-----------------------------------------------------------------------------
(* The size of a change since the release (change_size.size_verdict). *)

ChangedLines(t, base, f) == Max({t.lines[f] - base.lines[f], base.lines[f] - t.lines[f]})

\* _is_protected, _file_reason: a protected file, one added or removed, a test cut short.
FileNeedsPlan(t, base, f) ==
  \/ f = "lock" \/ Absent \in {t.lines[f], base.lines[f]}
  \/ f = "t" /\ t.lines[f] < base.lines[f]

\* The installed files are protected; what an update wrote does not count.
Small(t, base) ==
  LET names == ChangedCode(t, base)
  IN  /\ t.he = base.he \/ "he" \in UpdateWritten(t, base)
      /\ \A f \in names : ~FileNeedsPlan(t, base, f)
      /\ Cardinality(names) <= SmallFiles
      /\ FoldSet(LAMBDA f, n : n + ChangedLines(t, base, f), 0, names) <= SmallLines

-----------------------------------------------------------------------------
(* validate_plans: the check of the tree t against base, with the release   *)
(* rel on the default branch.                                               *)

PlanningOnly(names) == names \cap (Code \cup {"he"}) = {}

(* Mutant: only the plans of the feature are checked.                       *)
ReleasedPlans_Mutant(t, base, rel) == {}

(* released_plans: on a branch that collects features, the release's plans too. *)
ReleasedPlans(t, base, rel) == IF base = rel THEN {} ELSE ChangedPlans(t, rel)
OpenPlans(t) == {p \in Plans : t.plan[p] # Absent /\ PlanStatus(t.plan[p]) # "Complete"}

ApplicablePlans(t, names) ==
  LET edited == {p \in names \cap Plans : t.plan[p] # Absent}
  IN  IF edited # {} THEN edited ELSE OpenPlans(t)

\* A branch that holds a verified update alone is not held up by open plans.
PlansPass(t, base, rel) ==
  UpdateOnly(t, base) \/
  LET stage  == IF PlanningOnly(PlanChanges(t, base)) THEN "Draft" ELSE "Complete"
      names  == PlanChanges(t, base) \cup ReleasedPlans(t, base, rel)
      plans  == ApplicablePlans(t, names)
      Reaches(p) == Rank(PlanStatus(t.plan[p])) >= Rank(stage)
  IN  /\ names # {} /\ plans = {} => Small(t, rel)
      /\ \A p \in plans : ValidPlan(t, p, p \in names)
      /\ \A p \in plans : \/ Reaches(p)
                          \/ PlanStatus(t.plan[p]) = "Draft" /\ \E q \in plans : Reaches(q)

(* Lines of source, tests and plans may name r; one to be proved by a check *)
(* has a covering test and an enforcing source.                             *)
NamesRequirement(t) ==
  t.lines["rule"] = 1 \/ RequirementCovered(t) \/ \E p \in Plans : t.plan[p] = "proves r"
RequirementProven(t) == RequirementCovered(t) /\ t.lines["rule"] = 1

(* validate_requirements: nothing names a requirement that is retired or unknown. *)
RequirementsPass(t) == IF t.r = "check" THEN RequirementProven(t) ELSE ~NamesRequirement(t)

(* validate_decisions: an accepted record loses no last file under its prefix. *)
DecisionAccepted(t) == t.adr = "accepted"
DecisionsPass(t, base) ==
  DecisionAccepted(t) /\ base.lines["c"] # Absent => t.lines["c"] # Absent

\* proven_elsewhere: what a verified release installed is not checked again.
ChangePasses(t, base, rel) ==
  \/ UpdateOnly(t, base)
  \/ PlansPass(t, base, rel) /\ RequirementsPass(t) /\ DecisionsPass(t, base)

-----------------------------------------------------------------------------
(* One edit, and three-way merges. *)

OneEdit(t) ==
  (UNION {{[t EXCEPT !.plan[p] = text] : text \in PlanTexts \cup {Absent}} : p \in Plans})
    \cup (UNION {{[t EXCEPT !.lines[f] = n] : n \in LineCounts[f]} : f \in Code})
    \* its covering test and the source that enforces it come with a requirement
    \cup {[t EXCEPT !.r = r, !.lines["t"] = IF r = "check" THEN 2 ELSE Min({@, 1}),
                   !.lines["rule"] = IF r = "check" THEN 1 ELSE 0] : r \in Entries}
    \cup {[t EXCEPT !.adr = d] : d \in {"none", "accepted"}}
    \cup {[t EXCEPT !.he = h] : h \in Installations}

Either(o, a, b) == IF a = o THEN b ELSE a
MergedTree(o, a, b) ==
  [plan |-> [p \in Plans |-> Either(o.plan[p], a.plan[p], b.plan[p])],
   lines |-> [f \in Code |-> Either(o.lines[f], a.lines[f], b.lines[f])],
   r |-> Either(o.r, a.r, b.r), adr |-> Either(o.adr, a.adr, b.adr),
   he |-> Either(o.he, a.he, b.he)]
Conflict(o, a, b) == PlanChanges(a, o) \cap PlanChanges(b, o) \cap PlanChanges(a, b) # {}

-----------------------------------------------------------------------------
CountEdit == planEdits < MaxPlanEdits /\ planEdits' = planEdits + 1

EditTree ==
  /\ CountEdit
  /\ work' \in OneEdit(work)
  /\ UNCHANGED <<next, release, branched, overtaken, lastLanding>>

\* What a feature t that lands on next is to a later release; an update repairs nothing.
Landing(t) ==
  CASE PlanningOnly(PlanChanges(t, next)) -> "planning"
    [] UpdateOnly(t, next) -> IF lastLanding = "behind" THEN "behind" ELSE "update"
    [] ~PlanningOnly(PlanChanges(t, next)) /\ ~UpdateOnly(t, next)
         /\ ChangedPlans(t, next) \subseteq ChangedPlans(t, release) -> "work"
    [] OTHER -> "reverting"

\* Shipped: the branch is not behind its base (_current_with_base).
LandFeature ==
  /\ branched = next /\ work # next
  /\ ChangePasses(work, next, release)
  /\ next' = work /\ branched' = work /\ overtaken' = FALSE /\ lastLanding' = Landing(work)
  /\ UNCHANGED <<work, release, planEdits>>

\* Another feature is shipped while this one is worked on.
OthersLand ==
  /\ CountEdit
  /\ \E t \in OneEdit(next) \ {next} :
       ChangePasses(t, next, release) /\ next' = t /\ lastLanding' = Landing(t)
  /\ UNCHANGED <<work, release, branched, overtaken>>

RebaseWork ==
  /\ branched # next /\ ~Conflict(branched, work, next)
  /\ work' = MergedTree(branched, work, next) /\ branched' = next /\ overtaken' = FALSE
  /\ UNCHANGED <<next, release, lastLanding, planEdits>>

\* Merged by hand: checked where it left next, with the release it had then or since.
LandBehind ==
  /\ branched # next /\ work # branched /\ ~Conflict(branched, work, next)
  /\ ChangePasses(work, branched, IF overtaken THEN branched ELSE release)
  /\ next' = MergedTree(branched, work, next) /\ work' = next' /\ branched' = next'
  /\ overtaken' = FALSE /\ lastLanding' = "behind"
  /\ UNCHANGED <<release, planEdits>>

ReleaseNext ==
  /\ next # release
  /\ ChangePasses(next, release, release)
  /\ release' = next /\ overtaken' = (branched # next) /\ lastLanding' = "none"
  /\ UNCHANGED <<work, next, branched, planEdits>>

FirstTree == [plan |-> [p \in Plans |-> Absent], r |-> "none", adr |-> "none", he |-> "first",
              lines |-> [f \in Code |-> IF f \in {"c", "t"} THEN 1 ELSE 0]]

PlansInit ==
  /\ work = FirstTree /\ next = FirstTree /\ release = FirstTree
  /\ branched = FirstTree /\ overtaken = FALSE
  /\ lastLanding = "none"
  /\ planEdits = 0

PlansNext == EditTree \/ LandFeature \/ OthersLand \/ RebaseWork \/ LandBehind \/ ReleaseNext
PlansSpec == PlansInit /\ [][PlansNext]_planVars

-----------------------------------------------------------------------------
(* Properties. *)

(* A feature sees what the release checks: when the feature that landed     *)
(* last changed code and was checked with next as it was, the release check *)
(* of next passes too.  Not after a planning-only feature, which is held to *)
(* the stage Draft only, a verified update, which passes beside open plans, *)
(* one that puts a plan back to its released text, or one merged behind its *)
(* base.  (Of decision records it is not true: one accepted after an earlier *)
(* feature removed the files it covers passes as a feature and stops the    *)
(* release.)                                                                *)
FeatureSeesRelease ==
  lastLanding = "work" => PlansPass(next, release, release) /\ RequirementsPass(next)

(* Many small features are one big change: when such a feature landed last  *)
(* and next is more than a small change away from the release, a plan       *)
(* written since the release is Complete.                                   *)
BigWorkIsPlanned ==
  lastLanding = "work" /\ ~Small(next, release) =>
    \E p \in ChangedPlans(next, release) :
      next.plan[p] # Absent /\ PlanStatus(next.plan[p]) = "Complete"

(* A Complete plan that names the requirement has it live and tested, also  *)
(* when the plan itself was never touched again: in every release, and on   *)
(* next but for a merge of features that were checked apart.                *)
PlansNameLiveRequirements ==
  \A t \in {release} \cup (IF lastLanding = "behind" THEN {} ELSE {next}) : \A p \in Plans :
    t.plan[p] = "proves r" => t.r = "check" /\ RequirementCovered(t)

(* A feature that changes code and lands on the next it was checked with    *)
(* can be released and, when the whole is big, is planned, and the          *)
(* requirements that plans prove are live (validate_plans, size_verdict).   *)
PlansSafe == FeatureSeesRelease /\ BigWorkIsPlanned /\ PlansNameLiveRequirements
=============================================================================
