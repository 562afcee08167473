------------------------- MODULE HardEngUpkeepProofs -------------------------
(***************************************************************************)
(* Proofs about the upkeep of the development tooling (.hooks): what       *)
(* HardEngDebt, HardEngHooks, HardEngTools, HardEngFreshness,              *)
(* HardEngUpdate, HardEngMcp, HardEngInstall and HardEngSetup promise, for *)
(* every value of their constants: any number of checks, launchers, hooks, *)
(* findings, updaters, tool servers, files, releases, lines and events.    *)
(*                                                                         *)
(* Each part has an inductive invariant, the lemmas that it holds at the   *)
(* start and is kept by every action, and the theorem that follows.        *)
(***************************************************************************)
EXTENDS HardEngDebt, HardEngHooks, HardEngTools, HardEngFreshness, HardEngUpdate, HardEngMcp,
        HardEngInstall, HardEngSetup, SequenceTheorems, FiniteSetTheorems, TLAPS

-----------------------------------------------------------------------------
(* Adoption debt.                                                           *)
(* While nothing but the adoption itself changes the tree (fresh = "quiet") *)
(* the gates have found what is there, or the run is known to have failed.  *)

DebtRecords == [pc: {"idle", "run", "settle", "record"}, out: SUBSET Findings,
                before: SUBSET Findings, setup: BOOLEAN]
MainTyped == mainline \in [found: SUBSET Findings, debt: SUBSET Findings, installed: BOOLEAN]

DebtTyped ==
  /\ MainTyped /\ recorded \in BOOLEAN
  /\ found \subseteq Findings /\ debt \subseteq Findings
  /\ adopt \in DebtRecords

PointTyped ==
  point \in [found: SUBSET Findings, debt: SUBSET Findings, installed: BOOLEAN]

QuietAdoption ==
  /\ fresh = "adopted" => adopt.pc = "idle"
  /\ fresh = "quiet" =>
       /\ adopt.pc = "run" => adopt.before = found
       /\ adopt.pc = "settle" => IF adopt.setup
            THEN /\ found \cap Fixable = {}
                 /\ found = adopt.before => adopt.out = found
            ELSE found = adopt.before
       /\ adopt.pc = "record" /\ adopt.setup => adopt.out = found

DebtInv == DebtTyped /\ PointTyped /\ MainDebtExact /\ AdoptedTreePasses /\ QuietAdoption

LEMMA DebtInitInv == DebtInit => DebtInv
<1> SUFFICES ASSUME DebtInit PROVE DebtInv
  OBVIOUS
<1>1. mainline.found \in SUBSET Findings /\ mainline.debt = {} /\ mainline.installed = FALSE
  BY DEF DebtInit
<1>2. mainline = [found |-> mainline.found, debt |-> {}, installed |-> FALSE]
  BY <1>1 DEF DebtInit
<1>3. mainline \in [found: SUBSET Findings, debt: SUBSET Findings, installed: BOOLEAN]
  BY <1>1, <1>2
<1>4. adopt \in DebtRecords
  BY DEF DebtInit, DebtRecords, NoAdopt
<1> QED
  BY <1>1, <1>3, <1>4 DEF DebtInit, DebtInv, DebtTyped, MainTyped, PointTyped, NoAdopt,
     MainDebtExact, AdoptedTreePasses, QuietAdoption

(* A pass over the gates keeps the tree within the findings and, when       *)
(* nothing is left to fix, prints what is there.                            *)
LEMMA RunGatesFinds ==
  ASSUME DebtTyped, NEW after \in {"settle", "record"}, RunGates(after)
  PROVE  /\ found' \subseteq Findings /\ adopt' \in DebtRecords
         /\ adopt'.pc = after /\ adopt'.before = adopt.before
         /\ IF adopt'.setup
            THEN /\ found' = found \ Fixable
                 /\ found \cap Fixable = {} => adopt'.out = found
            ELSE found' = found
<1>1. CASE broken
  BY <1>1 DEF DebtTyped, RunGates, DebtRecords
<1>2. CASE ~broken
  <2>1. PICK seen \in SUBSET (found \cap Fixable) :
          adopt' = [adopt EXCEPT !.pc = after, !.out = (found \ Fixable) \cup seen, !.setup = TRUE]
    BY <1>2 DEF RunGates
  <2>2. found' = found \ Fixable
    BY <1>2 DEF RunGates
  <2>3. (found \ Fixable) \cup seen \in SUBSET Findings
    BY DEF DebtTyped
  <2>4. adopt' \in DebtRecords /\ adopt'.pc = after /\ adopt'.before = adopt.before
        /\ adopt'.out = (found \ Fixable) \cup seen /\ adopt'.setup
    BY <2>1, <2>3 DEF DebtTyped, DebtRecords
  <2> QED BY <2>2, <2>4 DEF DebtTyped
<1> QED BY <1>1, <1>2

LEMMA DebtNextInv == DebtInv /\ [DebtNext]_debtVars => DebtInv'
<1> SUFFICES ASSUME DebtInv, [DebtNext]_debtVars PROVE DebtInv'
  OBVIOUS
<1> USE DebtConstants DEF DebtInv, MainTyped, PointTyped
<1>1. CASE AdoptStarts
  BY <1>1 DEF AdoptStarts, NoAdopt, DebtTyped, DebtRecords, MainDebtExact, AdoptedTreePasses,
     QuietAdoption
<1>2. CASE AdoptRuns
  <2>1. /\ found' \subseteq Findings /\ adopt' \in DebtRecords
        /\ adopt'.pc = "settle" /\ adopt'.before = adopt.before
        /\ IF adopt'.setup
           THEN /\ found' = found \ Fixable
                /\ found \cap Fixable = {} => adopt'.out = found
           ELSE found' = found
    BY <1>2, RunGatesFinds DEF AdoptRuns
  <2>2. fresh = "quiet" => adopt.before = found
    BY <1>2 DEF AdoptRuns, QuietAdoption
  <2>3. QuietAdoption'
    BY <1>2, <2>1, <2>2 DEF AdoptRuns, QuietAdoption
  <2>4. AdoptedTreePasses'
    BY <1>2 DEF AdoptRuns, AdoptedTreePasses, QuietAdoption
  <2> QED BY <1>2, <2>1, <2>3, <2>4 DEF AdoptRuns, DebtTyped, MainDebtExact
<1>3. CASE AdoptSettles
  <2>1. CASE found = adopt.before
    BY <1>3, <2>1 DEF AdoptSettles, DebtTyped, DebtRecords, MainDebtExact, AdoptedTreePasses,
       QuietAdoption
  <2>2. CASE found # adopt.before
    <3>1. /\ found' \subseteq Findings /\ adopt' \in DebtRecords
          /\ adopt'.pc = "record"
          /\ IF adopt'.setup
             THEN /\ found' = found \ Fixable
                  /\ found \cap Fixable = {} => adopt'.out = found
             ELSE found' = found
      BY <1>3, <2>2, RunGatesFinds DEF AdoptSettles
    <3>2. fresh = "quiet" => found \cap Fixable = {}
      BY <1>3, <2>2 DEF AdoptSettles, QuietAdoption
    <3>3. fresh # "adopted"
      BY <1>3 DEF AdoptSettles, QuietAdoption
    <3>4. QuietAdoption'
      BY <1>3, <3>1, <3>2, <3>3 DEF AdoptSettles, QuietAdoption
    <3>5. AdoptedTreePasses'
      BY <1>3, <3>3 DEF AdoptSettles, AdoptedTreePasses
    <3> QED BY <1>3, <3>1, <3>4, <3>5 DEF AdoptSettles, DebtTyped, MainDebtExact
  <2> QED BY <2>1, <2>2
<1>4. CASE Record
  BY <1>4 DEF Record, NoAdopt, DebtTyped, DebtRecords, MainDebtExact, AdoptedTreePasses, Judged,
     QuietAdoption
<1>5. CASE LandBranch
  BY <1>5 DEF LandBranch, Passes, Judged, DebtTyped, DebtRecords, MainDebtExact,
     AdoptedTreePasses,
     QuietAdoption
<1>6. CASE OtherLands
  <2>1. PICK fixed : mainline' = [mainline EXCEPT !.found = @ \ fixed, !.debt = @ \ fixed]
    BY <1>6 DEF OtherLands
  <2>2. /\ mainline'.found = mainline.found \ fixed /\ mainline'.debt = mainline.debt \ fixed
        /\ mainline'.installed = mainline.installed /\ MainTyped'
    BY <2>1 DEF DebtTyped, MainTyped
  <2>3. MainDebtExact'
    BY <2>2 DEF MainDebtExact
  <2>4. UNCHANGED <<point, found, debt, recorded, adopt, fresh>>
    BY <1>6 DEF OtherLands
  <2> QED
    BY <2>2, <2>3, <2>4 DEF DebtTyped, AdoptedTreePasses, Judged, QuietAdoption
<1>7. CASE RebaseBranch
  BY <1>7 DEF RebaseBranch, Merge3, DebtTyped, MainDebtExact, AdoptedTreePasses, QuietAdoption
<1>8. CASE EditCode
  BY <1>8 DEF EditCode, DebtTyped, MainDebtExact, AdoptedTreePasses, QuietAdoption
<1>9. CASE EditDebt
  BY <1>9 DEF EditDebt, DebtTyped, MainDebtExact, AdoptedTreePasses, QuietAdoption
<1>10. CASE SetupBreaks
  BY <1>10 DEF SetupBreaks, DebtTyped, MainDebtExact, AdoptedTreePasses, Judged, QuietAdoption
<1>11. CASE UNCHANGED debtVars
  BY <1>11 DEF debtVars, DebtTyped, MainDebtExact, AdoptedTreePasses, Judged, QuietAdoption
<1> QED
  BY <1>1, <1>2, <1>3, <1>4, <1>5, <1>6, <1>7, <1>8, <1>9, <1>10, <1>11 DEF DebtNext

(* The state half of DebtSafe is the invariant's; the action half follows   *)
(* from it: only a landing or someone else's branch changes the default     *)
(* branch, and neither adds a finding.                                      *)
LEMMA DebtStep ==
  DebtInv /\ [DebtNext]_debtVars => [mainline.installed => mainline'.found \subseteq mainline.found]_debtVars
<1> SUFFICES ASSUME DebtInv, [DebtNext]_debtVars, mainline.installed
             PROVE  mainline'.found \subseteq mainline.found
  OBVIOUS
<1> USE DEF DebtInv, DebtTyped, MainTyped
<1>1. CASE LandBranch
  BY <1>1 DEF LandBranch, Passes, Shrinks, Judged, MainDebtExact
<1>2. CASE OtherLands
  BY <1>2 DEF OtherLands
<1>3. CASE UNCHANGED mainline
  BY <1>3
<1> QED
  BY <1>1, <1>2, <1>3 DEF DebtNext, debtVars, AdoptStarts, AdoptRuns, AdoptSettles, Record,
     RebaseBranch, EditCode, EditDebt, SetupBreaks

(* What main records as debt is what its code fails with, no finding joins  *)
(* it once Hard Eng is installed, and a first adoption passes its own check *)
(* (debt.py, adopt of hard-eng.py).                                         *)
THEOREM DebtSafeHolds == DebtSpec => DebtSafe
<1>1. DebtInv => MainDebtExact /\ AdoptedTreePasses
  BY DEF DebtInv
<1> QED
  BY DebtInitInv, DebtNextInv, DebtStep, <1>1, PTL DEF DebtSpec, DebtSafe, NoFindingJoinsMain

-----------------------------------------------------------------------------
(* The git hook chain.                                                      *)
(* A copy is opened only when the project's last hook is the one to be      *)
(* copied, and the hook is overwritten only when its copy holds the last.   *)

HookTyped ==
  /\ hook \in HookFiles /\ kept \in HookFiles /\ launcher \in Launchers
  /\ latest \in OwnHooks \cup {NoFile} /\ overwritten \in OwnHooks \cup {NoFile}
  /\ step \in {"idle", "swap", "look", "copy", "fill", "install", "write", "mode"}

CopyIsSafe ==
  /\ overwritten # NoFile => husky /\ kept # NoFile
  /\ step = "swap" => husky /\ (ForeignHook => kept # NoFile)
  /\ hook \in OwnHooks => latest = hook
  /\ step \in {"copy", "fill"} => ForeignHook /\ latest \in {NoFile, hook}
  /\ step = "copy" => kept = NoFile \/ Reinstalled
  /\ step = "fill" => kept = Broken
  /\ step \in {"install", "write", "mode"} => latest \in {NoFile, kept, overwritten}

HookInv == HookTyped /\ LastHookKept /\ NoLauncherKept /\ CopyIsSafe

LEMMA HookInitInv == HooksInit => HookInv
BY HookConstants DEF HooksInit, HookInv, HookTyped, HookFiles, LastHookKept, NoLauncherKept,
   CopyIsSafe

(* A hook that bears a manager's marker is one the project wrote.           *)
LEMMA MarkedHookIsOwn == Reinstalled => hook \in OwnHooks
BY DEF Reinstalled, ManagerOf

LEMMA HookNextInv == HookInv /\ [HooksNext]_hookVars => HookInv'
<1> SUFFICES ASSUME HookInv, [HooksNext]_hookVars PROVE HookInv'
  OBVIOUS
<1> USE HookConstants DEF HookInv, HookTyped, HookFiles, LastHookKept, NoLauncherKept, CopyIsSafe,
        Stepping
<1>1. CASE StartInstall
  BY <1>1 DEF StartInstall, Starting, HookPlanned, ForeignHook
<1>2. CASE StartRepair
  BY <1>2 DEF StartRepair, Starting
<1>13. CASE SetupHook
  BY <1>13 DEF SetupHook, Starting
<1>14. CASE SwapHusky
  BY <1>14 DEF SwapHusky, ForeignHook
<1>3. CASE LookAtHook
  <2>1. CASE step' = "copy"
    <3>1. ForeignHook /\ kept # hook /\ CheckFree
      BY <1>3, <2>1 DEF LookAtHook
    <3>2. latest \in {NoFile, hook}
      <4>1. CASE kept = NoFile
        BY <4>1
      <4>2. CASE Reinstalled
        BY <4>2, MarkedHookIsOwn
      <4> QED BY <3>1, <4>1, <4>2 DEF CheckFree
    <3>3. kept = NoFile \/ Reinstalled
      BY <3>1 DEF CheckFree
    <3>4. ForeignHook' /\ (Reinstalled => Reinstalled')
      BY <1>3, <3>1 DEF LookAtHook, ForeignHook, Reinstalled, ManagerOf
    <3> QED BY <1>3, <2>1, <3>1, <3>2, <3>3, <3>4 DEF LookAtHook
  <2>2. CASE step' = "install"
    <3>1. ~ForeignHook \/ kept = hook
      BY <1>3, <2>2 DEF LookAtHook
    <3>2. latest \in {NoFile, kept, overwritten}
      <4>1. CASE latest = hook
        BY <3>1, <4>1 DEF ForeignHook
      <4> QED BY <4>1
    <3> QED BY <1>3, <2>2, <3>2 DEF LookAtHook
  <2>3. CASE step' = "idle"
    BY <1>3, <2>3 DEF LookAtHook
  <2> QED BY <1>3, <2>1, <2>2, <2>3 DEF LookAtHook
<1>4. CASE OpenCopy
  BY <1>4 DEF OpenCopy, ForeignHook
<1>5. CASE FillCopy
  BY <1>5 DEF FillCopy, ForeignHook
<1>6. CASE TruncateHook
  BY <1>6 DEF TruncateHook
<1>7. CASE WriteHook
  BY <1>7 DEF WriteHook
<1>8. CASE MakeRunnable
  BY <1>8 DEF MakeRunnable
<1>9. CASE OthersWrite
  BY <1>9 DEF OthersWrite
<1>10. CASE HookRemoved
  BY <1>10 DEF HookRemoved
<1>11. CASE InstallKilled
  BY <1>11 DEF InstallKilled
<1>12. CASE UNCHANGED hookVars
  BY <1>12 DEF hookVars, ForeignHook, Reinstalled, ManagerOf
<1> QED
  BY <1>1, <1>2, <1>3, <1>4, <1>5, <1>6, <1>7, <1>8, <1>9, <1>10, <1>11, <1>12,
     <1>13, <1>14 DEF HooksNext, InstallStep

(* Only the two steps of a copy change what is kept.                        *)
LEMMA HookStep ==
  HookInv /\ [HooksNext]_hookVars =>
    [(kept \in OwnHooks /\ kept' # kept /\ hook # kept) => Reinstalled]_hookVars
<1> SUFFICES ASSUME HookInv, [HooksNext]_hookVars, kept \in OwnHooks, kept' # kept
             PROVE  Reinstalled
  OBVIOUS
<1>1. CASE OpenCopy
  BY <1>1, HookConstants DEF OpenCopy, HookInv, CopyIsSafe
<1>2. CASE FillCopy
  BY <1>2, HookConstants DEF FillCopy, HookInv, CopyIsSafe
<1>3. OpenCopy \/ FillCopy
  BY DEF HooksNext, InstallStep, hookVars, StartInstall, StartRepair, SetupHook, SwapHusky,
     Starting, Stepping, LookAtHook, TruncateHook, WriteHook, MakeRunnable, OthersWrite, HookRemoved, InstallKilled
<1> QED BY <1>1, <1>2, <1>3

(* The hook the project wrote last survives every installation, but for     *)
(* one an update wrote over in Husky's file beside an older copy, the chain *)
(* never keeps a launcher, and a kept hook gives way only to a newer one of *)
(* its manager (preserve, check_free of hook_chain.py).                     *)
THEOREM HooksSafeHolds == HooksSpec => HooksSafe
<1>1. HookInv => LastHookKept /\ NoLauncherKept
  BY DEF HookInv
<1> QED
  BY HookInitInv, HookNextInv, HookStep, <1>1, PTL DEF HooksSpec, HooksSafe, KeptForItsManager

-----------------------------------------------------------------------------
(* The shared tool launchers.                                               *)
(* A version a check holds the shared lock of is dropped by none, and one   *)
(* check at a time works under install.lock.                                *)

ToolSteps == {"idle", "share", "look", "try", "wait", "check", "stage", "list", "prune", "drop",
              "use", "probe", "uninstall", "reinstall", "probe_again", "gates", "quick",
              "quick_probe"}
UnderInstall == {"check", "stage", "list", "prune", "drop"}
\* Steps that count on the launcher, and those that hold none.
Given == {"try", "list", "prune", "drop", "use", "probe", "uninstall", "reinstall", "probe_again"}
Unheld == {"idle", "share", "gates", "quick", "quick_probe"}

ToolTyped ==
  /\ newestTool \in ToolVersions
  /\ launchers \in [ToolVersions -> {"none", "partial", "whole"}]
  /\ toolStaging \in SUBSET ToolChecks
  /\ job \in [ToolChecks -> [step: ToolSteps, holds: 0..MaxVersion, drops: 0..MaxVersion,
                            left: SUBSET ToolVersions]]

LocksHeld ==
  /\ \A k \in ToolChecks :
       /\ job[k].step \in UnderInstall <=> installing = k
       /\ job[k].step = "drop" <=> job[k].drops # 0
       /\ job[k].step \in Unheld <=> job[k].holds = 0
       /\ job[k].step = "share" => job[k].left # {}
  /\ \A k, j \in ToolChecks : job[j].drops # 0 => job[k].holds # job[j].drops
  /\ installing # NoCheck => installing \in ToolChecks

GivenWhole == \A k \in ToolChecks : job[k].step \in Given => launchers[job[k].holds] = "whole"

ToolInv == ToolTyped /\ LocksHeld /\ GivenWhole /\ StagingKept

LEMMA ToolInitInv == ToolsInit => ToolInv
BY ToolConstants DEF ToolsInit, ToolInv, ToolTyped, ToolVersions, ToolSteps, UnderInstall,
   Given, Unheld, ToolAtRest, JobAt, LocksHeld, GivenWhole, StagingKept

(* A move of one check leaves the others' steps and locks as they are.      *)
ToolJobs == [step: ToolSteps, holds: 0..MaxVersion, drops: 0..MaxVersion,
             left: SUBSET ToolVersions]

LEMMA JobMoves ==
  ASSUME ToolTyped, NEW k \in ToolChecks, NEW s \in ToolSteps, NEW h \in 0..MaxVersion,
         NEW d \in 0..MaxVersion, NEW l \in SUBSET ToolVersions,
         job' = [job EXCEPT ![k] = JobAt(s, h, d, l)]
  PROVE  /\ job' \in [ToolChecks -> ToolJobs]
         /\ job'[k].step = s /\ job'[k].holds = h /\ job'[k].drops = d /\ job'[k].left = l
         /\ \A j \in ToolChecks \ {k} : job'[j] = job[j]
BY DEF ToolTyped, ToolJobs, JobAt

LEMMA JobOthers ==
  ASSUME ToolTyped, NEW k \in ToolChecks, NEW s, NEW h, NEW d, NEW l,
         job' = [job EXCEPT ![k] = JobAt(s, h, d, l)]
  PROVE  job'[k].step = s /\ \A j \in ToolChecks \ {k} : job'[j] = job[j]
BY DEF ToolTyped, JobAt

LEMMA JobGoes ==
  ASSUME ToolTyped, NEW k \in ToolChecks, NEW after \in ToolSteps, Goes(k, after)
  PROVE  /\ job' \in [ToolChecks -> ToolJobs]
         /\ job'[k].step = after /\ job'[k].holds = job[k].holds
         /\ job'[k].drops = job[k].drops /\ job'[k].left = job[k].left
         /\ \A j \in ToolChecks \ {k} : job'[j] = job[j]
<1>1. [job[k] EXCEPT !.step = after] \in ToolJobs
  BY DEF ToolTyped, ToolJobs
<1>2. job' = [job EXCEPT ![k] = [job[k] EXCEPT !.step = after]]
  BY DEF Goes, ToolTyped
<1> QED BY <1>1, <1>2 DEF ToolTyped, ToolJobs

(* What a step has to keep, over the check that moves and the others.       *)
LEMMA ToolInvKept ==
  ASSUME ToolInv, ToolTyped', LocksHeld', NEW k \in ToolChecks,
         \A j \in ToolChecks \ {k} :
           /\ job'[j] = job[j]
           /\ job[j].step \in Given => launchers'[job[j].holds] = "whole"
           /\ job[j].step = "stage" => j \in toolStaging',
         job'[k].step \in Given => launchers'[job'[k].holds] = "whole",
         job'[k].step = "stage" => k \in toolStaging'
  PROVE  ToolInv'
BY DEF ToolInv, GivenWhole, StagingKept

(* The locks, when one check moves.                                         *)
LEMMA LocksKept ==
  ASSUME LocksHeld, NEW k \in ToolChecks,
         \A j \in ToolChecks \ {k} : job'[j] = job[j],
         /\ job'[k].step \in UnderInstall <=> installing' = k
         /\ job'[k].step = "drop" <=> job'[k].drops # 0
         /\ job'[k].step \in Unheld <=> job'[k].holds = 0
         /\ job'[k].step = "share" => job'[k].left # {},
         /\ \A j \in ToolChecks \ {k} : installing' = j <=> installing = j
         /\ installing' # NoCheck => installing' \in ToolChecks,
         \A j \in ToolChecks :
           /\ job'[k].drops # 0 => job'[j].holds # job'[k].drops
           /\ job'[j].drops # 0 => job'[k].holds # job'[j].drops
  PROVE  LocksHeld'
BY DEF LocksHeld

LEMMA ToolStepInv ==
  ASSUME ToolInv, NEW k \in ToolChecks,
         ToolStep(k) \/ CheckEnds(k) \/ InstallFails(k) \/ CheckKilled(k)
  PROVE  ToolInv'
<1> USE ToolConstants DEF ToolInv, Others
<1>0. job[k] \in ToolJobs /\ job[k].holds \in 0..MaxVersion
  BY DEF ToolTyped, ToolJobs
<1>1. CASE FindVersion(k)
  <2>1. PICK v \in 1..newestTool : job' = [job EXCEPT ![k] = JobAt("share", 0, 0, {v})]
    BY <1>1 DEF FindVersion
  <2>a. v \in ToolVersions /\ v # 0
    BY <1>0, <2>1 DEF ToolJobs, ToolVersions, ToolTyped
  <2>2. /\ job' \in [ToolChecks -> ToolJobs]
        /\ job'[k].step = "share" /\ job'[k].holds = 0 /\ job'[k].drops = 0
        /\ job'[k].left = {v}
        /\ \A j \in ToolChecks \ {k} : job'[j] = job[j]
    <3>1. "share" \in ToolSteps
      BY <2>1 DEF ToolSteps
    <3>2. 0 \in 0..MaxVersion /\ 0 \in 0..MaxVersion
      BY <1>0, <2>1, <2>a DEF ToolVersions
    <3>3. {v} \in SUBSET ToolVersions
      BY <1>0, <2>a DEF ToolJobs
    <3> QED BY <2>1, <3>1, <3>2, <3>3 DEF ToolTyped, ToolJobs, JobAt
  <2>3. ToolTyped'
    BY <1>0, <1>1, <2>2 DEF FindVersion, Exits, ToolTyped, ToolJobs, ToolVersions, ToolSteps,
       UnderInstall, Given
  <2>4. LocksHeld'
    <3>1. /\ job'[k].step \in UnderInstall <=> installing' = k
          /\ job'[k].step = "drop" <=> job'[k].drops # 0
          /\ job'[k].step \in Unheld <=> job'[k].holds = 0
          /\ job'[k].step = "share" => job'[k].left # {}
      BY <1>0, <1>1, <2>1, <2>a, <2>2 DEF FindVersion, Exits, LocksHeld, UnderInstall,
         ToolVersions, Unheld
    <3>2. /\ \A j \in ToolChecks \ {k} : installing' = j <=> installing = j
          /\ installing' # NoCheck => installing' \in ToolChecks
      BY <1>1, <1>0 DEF FindVersion, Exits, LocksHeld, UnderInstall
    <3>3. \A j \in ToolChecks :
            /\ job'[k].drops # 0 => job'[j].holds # job'[k].drops
            /\ job'[j].drops # 0 => job'[k].holds # job'[j].drops
      BY <1>0, <1>1, <2>1, <2>a, <2>2 DEF FindVersion, LocksHeld, Dropping, Holding
    <3> QED BY <2>1, <2>2, <3>1, <3>2, <3>3, LocksKept
  <2>5. \A j \in ToolChecks \ {k} :
          /\ job'[j] = job[j]
          /\ job[j].step \in Given => launchers'[job[j].holds] = "whole"
          /\ job[j].step = "stage" => j \in toolStaging'
    BY <1>0, <1>1, <2>1, <2>a, <2>2 DEF FindVersion, LocksHeld, ToolTyped, GivenWhole,
       StagingKept, UnderInstall, Given, ToolVersions
  <2>6. /\ job'[k].step \in Given => launchers'[job'[k].holds] = "whole"
        /\ job'[k].step = "stage" => k \in toolStaging'
    BY <1>0, <1>1, <2>1, <2>a, <2>2 DEF FindVersion, ToolTyped, GivenWhole, StagingKept,
       ToolVersions, ToolSteps, UnderInstall, Given, LocksHeld
  <2> QED BY <2>3, <2>4, <2>5, <2>6, ToolInvKept
<1>2. CASE ShareVersion(k)
  <2>1. PICK v \in job[k].left : ~Dropping(v) /\ job' = [job EXCEPT ![k] = JobAt("look", v, 0, {})]
    BY <1>2 DEF ShareVersion
  <2>a. v \in ToolVersions /\ v # 0
    BY <1>0, <2>1 DEF ToolJobs, ToolVersions, ToolTyped
  <2>2. /\ job' \in [ToolChecks -> ToolJobs]
        /\ job'[k].step = "look" /\ job'[k].holds = v /\ job'[k].drops = 0
        /\ job'[k].left = {}
        /\ \A j \in ToolChecks \ {k} : job'[j] = job[j]
    <3>1. "look" \in ToolSteps
      BY <2>1 DEF ToolSteps
    <3>2. v \in 0..MaxVersion /\ 0 \in 0..MaxVersion
      BY <1>0, <2>1, <2>a DEF ToolVersions
    <3>3. {} \in SUBSET ToolVersions
      BY <1>0, <2>a DEF ToolJobs
    <3> QED BY <2>1, <3>1, <3>2, <3>3 DEF ToolTyped, ToolJobs, JobAt
  <2>3. ToolTyped'
    BY <1>0, <1>2, <2>2 DEF ShareVersion, Exits, ToolTyped, ToolJobs, ToolVersions, ToolSteps,
       UnderInstall, Given
  <2>4. LocksHeld'
    <3>1. /\ job'[k].step \in UnderInstall <=> installing' = k
          /\ job'[k].step = "drop" <=> job'[k].drops # 0
          /\ job'[k].step \in Unheld <=> job'[k].holds = 0
          /\ job'[k].step = "share" => job'[k].left # {}
      BY <1>0, <1>2, <2>1, <2>a, <2>2 DEF ShareVersion, Exits, LocksHeld, UnderInstall,
         ToolVersions, Unheld
    <3>2. /\ \A j \in ToolChecks \ {k} : installing' = j <=> installing = j
          /\ installing' # NoCheck => installing' \in ToolChecks
      BY <1>2, <1>0 DEF ShareVersion, Exits, LocksHeld, UnderInstall
    <3>3. \A j \in ToolChecks :
            /\ job'[k].drops # 0 => job'[j].holds # job'[k].drops
            /\ job'[j].drops # 0 => job'[k].holds # job'[j].drops
      BY <1>0, <1>2, <2>1, <2>a, <2>2 DEF ShareVersion, LocksHeld, Dropping, Holding
    <3> QED BY <2>1, <2>2, <3>1, <3>2, <3>3, LocksKept
  <2>5. \A j \in ToolChecks \ {k} :
          /\ job'[j] = job[j]
          /\ job[j].step \in Given => launchers'[job[j].holds] = "whole"
          /\ job[j].step = "stage" => j \in toolStaging'
    BY <1>0, <1>2, <2>1, <2>a, <2>2 DEF ShareVersion, LocksHeld, ToolTyped, GivenWhole,
       StagingKept, UnderInstall, Given, ToolVersions
  <2>6. /\ job'[k].step \in Given => launchers'[job'[k].holds] = "whole"
        /\ job'[k].step = "stage" => k \in toolStaging'
    BY <1>0, <1>2, <2>1, <2>a, <2>2 DEF ShareVersion, ToolTyped, GivenWhole, StagingKept,
       ToolVersions, ToolSteps, UnderInstall, Given, LocksHeld
  <2> QED BY <2>3, <2>4, <2>5, <2>6, ToolInvKept
<1>3. CASE LookForBinary(k)
  <2>1. PICK after \in {"try", "wait"} :
          /\ Goes(k, after)
          /\ after = "try" => launchers[job[k].holds] = "whole"
    BY <1>3 DEF LookForBinary
  <2>2. /\ job' \in [ToolChecks -> ToolJobs]
        /\ job'[k].step = after /\ job'[k].holds = job[k].holds
        /\ job'[k].drops = job[k].drops /\ job'[k].left = job[k].left
        /\ \A j \in ToolChecks \ {k} : job'[j] = job[j]
    BY <2>1, JobGoes DEF ToolSteps
  <2>3. ToolTyped'
    BY <1>0, <1>3, <2>2 DEF LookForBinary, Exits, ToolTyped, ToolJobs, ToolVersions, ToolSteps,
       UnderInstall, Given
  <2>4. LocksHeld'
    <3>1. /\ job'[k].step \in UnderInstall <=> installing' = k
          /\ job'[k].step = "drop" <=> job'[k].drops # 0
          /\ job'[k].step \in Unheld <=> job'[k].holds = 0
          /\ job'[k].step = "share" => job'[k].left # {}
      BY <1>0, <1>3, <2>1, <2>2 DEF LookForBinary, Exits, LocksHeld, UnderInstall, ToolVersions,
         Unheld
    <3>2. /\ \A j \in ToolChecks \ {k} : installing' = j <=> installing = j
          /\ installing' # NoCheck => installing' \in ToolChecks
      BY <1>3, <1>0 DEF LookForBinary, Exits, LocksHeld, UnderInstall
    <3>3. \A j \in ToolChecks :
            /\ job'[k].drops # 0 => job'[j].holds # job'[k].drops
            /\ job'[j].drops # 0 => job'[k].holds # job'[j].drops
      BY <1>0, <1>3, <2>1, <2>2 DEF LookForBinary, LocksHeld, Dropping, Holding
    <3> QED BY <2>1, <2>2, <3>1, <3>2, <3>3, LocksKept
  <2>5. \A j \in ToolChecks \ {k} :
          /\ job'[j] = job[j]
          /\ job[j].step \in Given => launchers'[job[j].holds] = "whole"
          /\ job[j].step = "stage" => j \in toolStaging'
    BY <1>0, <1>3, <2>1, <2>2 DEF LookForBinary, LocksHeld, ToolTyped, GivenWhole, StagingKept,
       UnderInstall, Given, ToolVersions
  <2>6. /\ job'[k].step \in Given => launchers'[job'[k].holds] = "whole"
        /\ job'[k].step = "stage" => k \in toolStaging'
    BY <1>0, <1>3, <2>1, <2>2 DEF LookForBinary, ToolTyped, GivenWhole, StagingKept,
       ToolVersions, ToolSteps, UnderInstall, Given, LocksHeld
  <2> QED BY <2>3, <2>4, <2>5, <2>6, ToolInvKept
<1>4. CASE SkipInstall(k)
  <2>1. PICK after \in {"use"} :
          /\ Goes(k, after)
    BY <1>4 DEF SkipInstall
  <2>2. /\ job' \in [ToolChecks -> ToolJobs]
        /\ job'[k].step = after /\ job'[k].holds = job[k].holds
        /\ job'[k].drops = job[k].drops /\ job'[k].left = job[k].left
        /\ \A j \in ToolChecks \ {k} : job'[j] = job[j]
    BY <2>1, JobGoes DEF ToolSteps
  <2>3. ToolTyped'
    BY <1>0, <1>4, <2>2 DEF SkipInstall, Exits, ToolTyped, ToolJobs, ToolVersions, ToolSteps,
       UnderInstall, Given
  <2>4. LocksHeld'
    <3>1. /\ job'[k].step \in UnderInstall <=> installing' = k
          /\ job'[k].step = "drop" <=> job'[k].drops # 0
          /\ job'[k].step \in Unheld <=> job'[k].holds = 0
          /\ job'[k].step = "share" => job'[k].left # {}
      BY <1>0, <1>4, <2>1, <2>2 DEF SkipInstall, Exits, LocksHeld, UnderInstall, ToolVersions,
         Unheld
    <3>2. /\ \A j \in ToolChecks \ {k} : installing' = j <=> installing = j
          /\ installing' # NoCheck => installing' \in ToolChecks
      BY <1>4, <1>0 DEF SkipInstall, Exits, LocksHeld, UnderInstall
    <3>3. \A j \in ToolChecks :
            /\ job'[k].drops # 0 => job'[j].holds # job'[k].drops
            /\ job'[j].drops # 0 => job'[k].holds # job'[j].drops
      BY <1>0, <1>4, <2>1, <2>2 DEF SkipInstall, LocksHeld, Dropping, Holding
    <3> QED BY <2>1, <2>2, <3>1, <3>2, <3>3, LocksKept
  <2>5. \A j \in ToolChecks \ {k} :
          /\ job'[j] = job[j]
          /\ job[j].step \in Given => launchers'[job[j].holds] = "whole"
          /\ job[j].step = "stage" => j \in toolStaging'
    BY <1>0, <1>4, <2>1, <2>2 DEF SkipInstall, LocksHeld, ToolTyped, GivenWhole, StagingKept,
       UnderInstall, Given, ToolVersions
  <2>6. /\ job'[k].step \in Given => launchers'[job'[k].holds] = "whole"
        /\ job'[k].step = "stage" => k \in toolStaging'
    BY <1>0, <1>4, <2>1, <2>2 DEF SkipInstall, ToolTyped, GivenWhole, StagingKept, ToolVersions,
       ToolSteps, UnderInstall, Given, LocksHeld
  <2> QED BY <2>3, <2>4, <2>5, <2>6, ToolInvKept
<1>5. CASE LockInstall(k)
  <2>1. PICK after \in {"check"} :
          /\ Goes(k, after)
    BY <1>5 DEF LockInstall
  <2>2. /\ job' \in [ToolChecks -> ToolJobs]
        /\ job'[k].step = after /\ job'[k].holds = job[k].holds
        /\ job'[k].drops = job[k].drops /\ job'[k].left = job[k].left
        /\ \A j \in ToolChecks \ {k} : job'[j] = job[j]
    BY <2>1, JobGoes DEF ToolSteps
  <2>3. ToolTyped'
    BY <1>0, <1>5, <2>2 DEF LockInstall, Exits, ToolTyped, ToolJobs, ToolVersions, ToolSteps,
       UnderInstall, Given
  <2>4. LocksHeld'
    <3>1. /\ job'[k].step \in UnderInstall <=> installing' = k
          /\ job'[k].step = "drop" <=> job'[k].drops # 0
          /\ job'[k].step \in Unheld <=> job'[k].holds = 0
          /\ job'[k].step = "share" => job'[k].left # {}
      BY <1>0, <1>5, <2>1, <2>2 DEF LockInstall, Exits, LocksHeld, UnderInstall, ToolVersions,
         Unheld
    <3>2. /\ \A j \in ToolChecks \ {k} : installing' = j <=> installing = j
          /\ installing' # NoCheck => installing' \in ToolChecks
      BY <1>5, <1>0 DEF LockInstall, Exits, LocksHeld, UnderInstall
    <3>3. \A j \in ToolChecks :
            /\ job'[k].drops # 0 => job'[j].holds # job'[k].drops
            /\ job'[j].drops # 0 => job'[k].holds # job'[j].drops
      BY <1>0, <1>5, <2>1, <2>2 DEF LockInstall, LocksHeld, Dropping, Holding
    <3> QED BY <2>1, <2>2, <3>1, <3>2, <3>3, LocksKept
  <2>5. \A j \in ToolChecks \ {k} :
          /\ job'[j] = job[j]
          /\ job[j].step \in Given => launchers'[job[j].holds] = "whole"
          /\ job[j].step = "stage" => j \in toolStaging'
    BY <1>0, <1>5, <2>1, <2>2 DEF LockInstall, LocksHeld, ToolTyped, GivenWhole, StagingKept,
       UnderInstall, Given, ToolVersions
  <2>6. /\ job'[k].step \in Given => launchers'[job'[k].holds] = "whole"
        /\ job'[k].step = "stage" => k \in toolStaging'
    BY <1>0, <1>5, <2>1, <2>2 DEF LockInstall, ToolTyped, GivenWhole, StagingKept, ToolVersions,
       ToolSteps, UnderInstall, Given, LocksHeld
  <2> QED BY <2>3, <2>4, <2>5, <2>6, ToolInvKept
<1>6. CASE CheckBinary(k)
  <2>1. PICK after \in {"list", "stage"} :
          /\ Goes(k, after)
          /\ IF launchers[job[k].holds] = "whole"
              THEN after = "list" /\ UNCHANGED <<launchers, toolStaging>>
              ELSE /\ after = "stage" /\ toolStaging' = toolStaging \cup {k}
                   /\ launchers' = [launchers EXCEPT ![job[k].holds] = "none"]
    BY <1>6 DEF CheckBinary
  <2>2. /\ job' \in [ToolChecks -> ToolJobs]
        /\ job'[k].step = after /\ job'[k].holds = job[k].holds
        /\ job'[k].drops = job[k].drops /\ job'[k].left = job[k].left
        /\ \A j \in ToolChecks \ {k} : job'[j] = job[j]
    BY <2>1, JobGoes DEF ToolSteps
  <2>3. ToolTyped'
    BY <1>0, <1>6, <2>2 DEF CheckBinary, Exits, ToolTyped, ToolJobs, ToolVersions, ToolSteps,
       UnderInstall, Given
  <2>4. LocksHeld'
    <3>1. /\ job'[k].step \in UnderInstall <=> installing' = k
          /\ job'[k].step = "drop" <=> job'[k].drops # 0
          /\ job'[k].step \in Unheld <=> job'[k].holds = 0
          /\ job'[k].step = "share" => job'[k].left # {}
      BY <1>0, <1>6, <2>1, <2>2 DEF CheckBinary, Exits, LocksHeld, UnderInstall, ToolVersions,
         Unheld
    <3>2. /\ \A j \in ToolChecks \ {k} : installing' = j <=> installing = j
          /\ installing' # NoCheck => installing' \in ToolChecks
      BY <1>6, <1>0 DEF CheckBinary, Exits, LocksHeld, UnderInstall
    <3>3. \A j \in ToolChecks :
            /\ job'[k].drops # 0 => job'[j].holds # job'[k].drops
            /\ job'[j].drops # 0 => job'[k].holds # job'[j].drops
      BY <1>0, <1>6, <2>1, <2>2 DEF CheckBinary, LocksHeld, Dropping, Holding
    <3> QED BY <2>1, <2>2, <3>1, <3>2, <3>3, LocksKept
  <2>5. \A j \in ToolChecks \ {k} :
          /\ job'[j] = job[j]
          /\ job[j].step \in Given => launchers'[job[j].holds] = "whole"
          /\ job[j].step = "stage" => j \in toolStaging'
    <3>1. ASSUME NEW j \in ToolChecks \ {k}, job[j].step \in Given
          PROVE  launchers'[job[j].holds] = "whole"
      <4>1. launchers[job[j].holds] = "whole"
        BY <3>1 DEF GivenWhole
      <4>2. job[j].holds \in ToolVersions
        <5>1. job[j].holds \in 0..MaxVersion /\ job[j].holds # 0
          BY <3>1 DEF ToolTyped, LocksHeld, Given, Unheld
        <5> QED BY <5>1 DEF ToolVersions
      <4> QED BY <2>1, <4>1, <4>2 DEF ToolTyped
    <3> QED BY <2>1, <2>2, <3>1 DEF StagingKept
  <2>6. /\ job'[k].step \in Given => launchers'[job'[k].holds] = "whole"
        /\ job'[k].step = "stage" => k \in toolStaging'
    BY <1>0, <1>6, <2>1, <2>2 DEF CheckBinary, ToolTyped, GivenWhole, StagingKept, ToolVersions,
       ToolSteps, UnderInstall, Given, LocksHeld
  <2> QED BY <2>3, <2>4, <2>5, <2>6, ToolInvKept
<1>7. CASE RenameStaging(k)
  <2>1. PICK after \in {"list"} :
          /\ Goes(k, after)
    BY <1>7 DEF RenameStaging
  <2>2. /\ job' \in [ToolChecks -> ToolJobs]
        /\ job'[k].step = after /\ job'[k].holds = job[k].holds
        /\ job'[k].drops = job[k].drops /\ job'[k].left = job[k].left
        /\ \A j \in ToolChecks \ {k} : job'[j] = job[j]
    BY <2>1, JobGoes DEF ToolSteps
  <2>3. ToolTyped'
    BY <1>0, <1>7, <2>2 DEF RenameStaging, Exits, ToolTyped, ToolJobs, ToolVersions, ToolSteps,
       UnderInstall, Given
  <2>4. LocksHeld'
    <3>1. /\ job'[k].step \in UnderInstall <=> installing' = k
          /\ job'[k].step = "drop" <=> job'[k].drops # 0
          /\ job'[k].step \in Unheld <=> job'[k].holds = 0
          /\ job'[k].step = "share" => job'[k].left # {}
      BY <1>0, <1>7, <2>1, <2>2 DEF RenameStaging, Exits, LocksHeld, UnderInstall, ToolVersions,
         Unheld
    <3>2. /\ \A j \in ToolChecks \ {k} : installing' = j <=> installing = j
          /\ installing' # NoCheck => installing' \in ToolChecks
      BY <1>7, <1>0 DEF RenameStaging, Exits, LocksHeld, UnderInstall
    <3>3. \A j \in ToolChecks :
            /\ job'[k].drops # 0 => job'[j].holds # job'[k].drops
            /\ job'[j].drops # 0 => job'[k].holds # job'[j].drops
      BY <1>0, <1>7, <2>1, <2>2 DEF RenameStaging, LocksHeld, Dropping, Holding
    <3> QED BY <2>1, <2>2, <3>1, <3>2, <3>3, LocksKept
  <2>5. \A j \in ToolChecks \ {k} :
          /\ job'[j] = job[j]
          /\ job[j].step \in Given => launchers'[job[j].holds] = "whole"
          /\ job[j].step = "stage" => j \in toolStaging'
    BY <1>0, <1>7, <2>1, <2>2 DEF RenameStaging, LocksHeld, ToolTyped, GivenWhole, StagingKept,
       UnderInstall, Given, ToolVersions
  <2>6. /\ job'[k].step \in Given => launchers'[job'[k].holds] = "whole"
        /\ job'[k].step = "stage" => k \in toolStaging'
    <3>1. job[k].holds \in ToolVersions
      BY <1>0, <1>7 DEF RenameStaging, LocksHeld, Unheld, ToolVersions
    <3>2. launchers'[job[k].holds] = "whole"
      BY <1>7, <3>1 DEF RenameStaging, ToolTyped
    <3> QED BY <2>1, <2>2, <3>2
  <2> QED BY <2>3, <2>4, <2>5, <2>6, ToolInvKept
<1>8. CASE ListLaunchers(k)
  <2>1. job' = [job EXCEPT ![k] = JobAt("prune", job[k].holds, 0,
            {v \in ToolVersions \ {job[k].holds} : launchers[v] # "none"})]
    BY <1>8 DEF ListLaunchers, Exits, ToolAtRest
  <2>2. /\ job' \in [ToolChecks -> ToolJobs]
        /\ job'[k].step = "prune" /\ job'[k].holds = job[k].holds /\ job'[k].drops = 0
        /\ job'[k].left = {v \in ToolVersions \ {job[k].holds} : launchers[v] # "none"}
        /\ \A j \in ToolChecks \ {k} : job'[j] = job[j]
    <3>1. "prune" \in ToolSteps
      BY <2>1 DEF ToolSteps
    <3>2. job[k].holds \in 0..MaxVersion /\ 0 \in 0..MaxVersion
      BY <1>0, <2>1 DEF ToolVersions
    <3>3. {v \in ToolVersions \ {job[k].holds} : launchers[v] # "none"} \in SUBSET ToolVersions
      BY <1>0 DEF ToolJobs
    <3> QED BY <2>1, <3>1, <3>2, <3>3 DEF ToolTyped, ToolJobs, JobAt
  <2>3. ToolTyped'
    BY <1>0, <1>8, <2>2 DEF ListLaunchers, Exits, ToolTyped, ToolJobs, ToolVersions, ToolSteps,
       UnderInstall, Given
  <2>4. LocksHeld'
    <3>1. /\ job'[k].step \in UnderInstall <=> installing' = k
          /\ job'[k].step = "drop" <=> job'[k].drops # 0
          /\ job'[k].step \in Unheld <=> job'[k].holds = 0
          /\ job'[k].step = "share" => job'[k].left # {}
      BY <1>0, <1>8, <2>1, <2>2 DEF ListLaunchers, Exits, LocksHeld, UnderInstall, ToolVersions,
         Unheld
    <3>2. /\ \A j \in ToolChecks \ {k} : installing' = j <=> installing = j
          /\ installing' # NoCheck => installing' \in ToolChecks
      BY <1>8, <1>0 DEF ListLaunchers, Exits, LocksHeld, UnderInstall
    <3>3. \A j \in ToolChecks :
            /\ job'[k].drops # 0 => job'[j].holds # job'[k].drops
            /\ job'[j].drops # 0 => job'[k].holds # job'[j].drops
      BY <1>0, <1>8, <2>1, <2>2 DEF ListLaunchers, LocksHeld, Dropping, Holding
    <3> QED BY <2>1, <2>2, <3>1, <3>2, <3>3, LocksKept
  <2>5. \A j \in ToolChecks \ {k} :
          /\ job'[j] = job[j]
          /\ job[j].step \in Given => launchers'[job[j].holds] = "whole"
          /\ job[j].step = "stage" => j \in toolStaging'
    BY <1>0, <1>8, <2>1, <2>2 DEF ListLaunchers, LocksHeld, ToolTyped, GivenWhole, StagingKept,
       UnderInstall, Given, ToolVersions
  <2>6. /\ job'[k].step \in Given => launchers'[job'[k].holds] = "whole"
        /\ job'[k].step = "stage" => k \in toolStaging'
    BY <1>0, <1>8, <2>1, <2>2 DEF ListLaunchers, ToolTyped, GivenWhole, StagingKept,
       ToolVersions, ToolSteps, UnderInstall, Given, LocksHeld
  <2> QED BY <2>3, <2>4, <2>5, <2>6, ToolInvKept
<1>9. CASE LockOld(k)
  <2>1. PICK v \in job[k].left, s \in {"prune", "drop"}, d \in 0..MaxVersion :
          /\ job' = [job EXCEPT ![k] = JobAt(s, job[k].holds, d, job[k].left \ {v})]
          /\ IF Holding(v) \/ Dropping(v) THEN s = "prune" /\ d = 0 ELSE s = "drop" /\ d = v
    <3>1. PICK v \in job[k].left :
            job' = [job EXCEPT ![k] =
              IF Holding(v) \/ Dropping(v) THEN JobAt("prune", job[k].holds, 0, job[k].left \ {v})
                                           ELSE JobAt("drop", job[k].holds, v, job[k].left \ {v})]
      BY <1>9 DEF LockOld
    <3>2. v \in 0..MaxVersion /\ 0 \in 0..MaxVersion
      BY <1>0, <3>1 DEF ToolJobs, ToolVersions
    <3>3. CASE Holding(v) \/ Dropping(v)
      BY <3>1, <3>2, <3>3
    <3>4. CASE ~(Holding(v) \/ Dropping(v))
      BY <3>1, <3>2, <3>4
    <3> QED BY <3>3, <3>4
  <2>a. v \in ToolVersions /\ v # 0 /\ job[k].left \ {v} \in SUBSET ToolVersions
    BY <1>0, <2>1 DEF ToolJobs, ToolVersions
  <2>2. /\ job' \in [ToolChecks -> ToolJobs]
        /\ job'[k].step = s /\ job'[k].holds = job[k].holds /\ job'[k].drops = d
        /\ job'[k].left = job[k].left \ {v}
        /\ \A j \in ToolChecks \ {k} : job'[j] = job[j]
    <3>1. s \in ToolSteps
      BY <2>1 DEF ToolSteps
    <3>2. job[k].holds \in 0..MaxVersion /\ d \in 0..MaxVersion
      BY <1>0, <2>1, <2>a DEF ToolVersions
    <3>3. job[k].left \ {v} \in SUBSET ToolVersions
      BY <1>0, <2>a DEF ToolJobs
    <3> QED BY <2>1, <3>1, <3>2, <3>3 DEF ToolTyped, ToolJobs, JobAt
  <2>3. ToolTyped'
    BY <1>0, <1>9, <2>2 DEF LockOld, Exits, ToolTyped, ToolJobs, ToolVersions, ToolSteps,
       UnderInstall, Given
  <2>4. LocksHeld'
    <3>1. /\ job'[k].step \in UnderInstall <=> installing' = k
          /\ job'[k].step = "drop" <=> job'[k].drops # 0
          /\ job'[k].step \in Unheld <=> job'[k].holds = 0
          /\ job'[k].step = "share" => job'[k].left # {}
      BY <1>0, <1>9, <2>1, <2>a, <2>2 DEF LockOld, Exits, LocksHeld, UnderInstall, ToolVersions,
         Unheld
    <3>2. /\ \A j \in ToolChecks \ {k} : installing' = j <=> installing = j
          /\ installing' # NoCheck => installing' \in ToolChecks
      BY <1>9, <1>0 DEF LockOld, Exits, LocksHeld, UnderInstall
    <3>3. \A j \in ToolChecks :
            /\ job'[k].drops # 0 => job'[j].holds # job'[k].drops
            /\ job'[j].drops # 0 => job'[k].holds # job'[j].drops
      BY <1>0, <1>9, <2>1, <2>a, <2>2 DEF LockOld, LocksHeld, Dropping, Holding
    <3> QED BY <2>1, <2>2, <3>1, <3>2, <3>3, LocksKept
  <2>5. \A j \in ToolChecks \ {k} :
          /\ job'[j] = job[j]
          /\ job[j].step \in Given => launchers'[job[j].holds] = "whole"
          /\ job[j].step = "stage" => j \in toolStaging'
    BY <1>0, <1>9, <2>1, <2>a, <2>2 DEF LockOld, LocksHeld, ToolTyped, GivenWhole, StagingKept,
       UnderInstall, Given, ToolVersions
  <2>6. /\ job'[k].step \in Given => launchers'[job'[k].holds] = "whole"
        /\ job'[k].step = "stage" => k \in toolStaging'
    BY <1>0, <1>9, <2>1, <2>a, <2>2 DEF LockOld, ToolTyped, GivenWhole, StagingKept,
       ToolVersions, ToolSteps, UnderInstall, Given, LocksHeld
  <2> QED BY <2>3, <2>4, <2>5, <2>6, ToolInvKept
<1>10. CASE DropBegins(k)
  <2>1. job' = job
    BY <1>10 DEF DropBegins
  <2>2. job' \in [ToolChecks -> ToolJobs]
    BY <2>1 DEF ToolTyped, ToolJobs
  <2>3. ToolTyped'
    BY <1>0, <1>10, <2>2 DEF DropBegins, Exits, ToolTyped, ToolJobs, ToolVersions, ToolSteps,
       UnderInstall, Given
  <2>4. LocksHeld'
    <3>1. /\ job'[k].step \in UnderInstall <=> installing' = k
          /\ job'[k].step = "drop" <=> job'[k].drops # 0
          /\ job'[k].step \in Unheld <=> job'[k].holds = 0
          /\ job'[k].step = "share" => job'[k].left # {}
      BY <1>0, <1>10, <2>1, <2>2 DEF DropBegins, Exits, LocksHeld, UnderInstall, ToolVersions,
         Unheld
    <3>2. /\ \A j \in ToolChecks \ {k} : installing' = j <=> installing = j
          /\ installing' # NoCheck => installing' \in ToolChecks
      BY <1>10, <1>0 DEF DropBegins, Exits, LocksHeld, UnderInstall
    <3>3. \A j \in ToolChecks :
            /\ job'[k].drops # 0 => job'[j].holds # job'[k].drops
            /\ job'[j].drops # 0 => job'[k].holds # job'[j].drops
      BY <1>0, <1>10, <2>1, <2>2 DEF DropBegins, LocksHeld, Dropping, Holding
    <3> QED BY <2>1, <2>2, <3>1, <3>2, <3>3, LocksKept
  <2>5. \A j \in ToolChecks \ {k} :
          /\ job'[j] = job[j]
          /\ job[j].step \in Given => launchers'[job[j].holds] = "whole"
          /\ job[j].step = "stage" => j \in toolStaging'
    BY <1>0, <1>10, <2>1, <2>2 DEF DropBegins, LocksHeld, ToolTyped, GivenWhole, StagingKept,
       UnderInstall, Given, ToolVersions
  <2>6. /\ job'[k].step \in Given => launchers'[job'[k].holds] = "whole"
        /\ job'[k].step = "stage" => k \in toolStaging'
    BY <1>0, <1>10, <2>1, <2>2 DEF DropBegins, ToolTyped, GivenWhole, StagingKept, ToolVersions,
       ToolSteps, UnderInstall, Given, LocksHeld
  <2> QED BY <2>3, <2>4, <2>5, <2>6, ToolInvKept
<1>11. CASE DropEnds(k)
  <2>1. job' = [job EXCEPT ![k] = JobAt("prune", job[k].holds, 0,
            job[k].left)]
    BY <1>11 DEF DropEnds, Exits, ToolAtRest
  <2>2. /\ job' \in [ToolChecks -> ToolJobs]
        /\ job'[k].step = "prune" /\ job'[k].holds = job[k].holds /\ job'[k].drops = 0
        /\ job'[k].left = job[k].left
        /\ \A j \in ToolChecks \ {k} : job'[j] = job[j]
    <3>1. "prune" \in ToolSteps
      BY <2>1 DEF ToolSteps
    <3>2. job[k].holds \in 0..MaxVersion /\ 0 \in 0..MaxVersion
      BY <1>0, <2>1 DEF ToolVersions
    <3>3. job[k].left \in SUBSET ToolVersions
      BY <1>0 DEF ToolJobs
    <3> QED BY <2>1, <3>1, <3>2, <3>3 DEF ToolTyped, ToolJobs, JobAt
  <2>3. ToolTyped'
    BY <1>0, <1>11, <2>2 DEF DropEnds, Exits, ToolTyped, ToolJobs, ToolVersions, ToolSteps,
       UnderInstall, Given
  <2>4. LocksHeld'
    <3>1. /\ job'[k].step \in UnderInstall <=> installing' = k
          /\ job'[k].step = "drop" <=> job'[k].drops # 0
          /\ job'[k].step \in Unheld <=> job'[k].holds = 0
          /\ job'[k].step = "share" => job'[k].left # {}
      BY <1>0, <1>11, <2>1, <2>2 DEF DropEnds, Exits, LocksHeld, UnderInstall, ToolVersions,
         Unheld
    <3>2. /\ \A j \in ToolChecks \ {k} : installing' = j <=> installing = j
          /\ installing' # NoCheck => installing' \in ToolChecks
      BY <1>11, <1>0 DEF DropEnds, Exits, LocksHeld, UnderInstall
    <3>3. \A j \in ToolChecks :
            /\ job'[k].drops # 0 => job'[j].holds # job'[k].drops
            /\ job'[j].drops # 0 => job'[k].holds # job'[j].drops
      BY <1>0, <1>11, <2>1, <2>2 DEF DropEnds, LocksHeld, Dropping, Holding
    <3> QED BY <2>1, <2>2, <3>1, <3>2, <3>3, LocksKept
  <2>5. \A j \in ToolChecks \ {k} :
          /\ job'[j] = job[j]
          /\ job[j].step \in Given => launchers'[job[j].holds] = "whole"
          /\ job[j].step = "stage" => j \in toolStaging'
    BY <1>0, <1>11, <2>1, <2>2 DEF DropEnds, LocksHeld, ToolTyped, GivenWhole, StagingKept,
       UnderInstall, Given, ToolVersions
  <2>6. /\ job'[k].step \in Given => launchers'[job'[k].holds] = "whole"
        /\ job'[k].step = "stage" => k \in toolStaging'
    BY <1>0, <1>11, <2>1, <2>2 DEF DropEnds, ToolTyped, GivenWhole, StagingKept, ToolVersions,
       ToolSteps, UnderInstall, Given, LocksHeld
  <2> QED BY <2>3, <2>4, <2>5, <2>6, ToolInvKept
<1>12. CASE ReleaseInstall(k)
  <2>1. PICK after \in {"use"} :
          /\ Goes(k, after)
    BY <1>12 DEF ReleaseInstall
  <2>2. /\ job' \in [ToolChecks -> ToolJobs]
        /\ job'[k].step = after /\ job'[k].holds = job[k].holds
        /\ job'[k].drops = job[k].drops /\ job'[k].left = job[k].left
        /\ \A j \in ToolChecks \ {k} : job'[j] = job[j]
    BY <2>1, JobGoes DEF ToolSteps
  <2>3. ToolTyped'
    BY <1>0, <1>12, <2>2 DEF ReleaseInstall, Exits, ToolTyped, ToolJobs, ToolVersions,
       ToolSteps, UnderInstall, Given
  <2>4. LocksHeld'
    <3>1. /\ job'[k].step \in UnderInstall <=> installing' = k
          /\ job'[k].step = "drop" <=> job'[k].drops # 0
          /\ job'[k].step \in Unheld <=> job'[k].holds = 0
          /\ job'[k].step = "share" => job'[k].left # {}
      BY <1>0, <1>12, <2>1, <2>2 DEF ReleaseInstall, Exits, LocksHeld, UnderInstall,
         ToolVersions, Unheld
    <3>2. /\ \A j \in ToolChecks \ {k} : installing' = j <=> installing = j
          /\ installing' # NoCheck => installing' \in ToolChecks
      BY <1>12, <1>0, <2>2 DEF ReleaseInstall, Exits, LocksHeld, UnderInstall
    <3>3. \A j \in ToolChecks :
            /\ job'[k].drops # 0 => job'[j].holds # job'[k].drops
            /\ job'[j].drops # 0 => job'[k].holds # job'[j].drops
      BY <1>0, <1>12, <2>1, <2>2 DEF ReleaseInstall, LocksHeld, Dropping, Holding
    <3> QED BY <2>1, <2>2, <3>1, <3>2, <3>3, LocksKept
  <2>5. \A j \in ToolChecks \ {k} :
          /\ job'[j] = job[j]
          /\ job[j].step \in Given => launchers'[job[j].holds] = "whole"
          /\ job[j].step = "stage" => j \in toolStaging'
    BY <1>0, <1>12, <2>1, <2>2 DEF ReleaseInstall, LocksHeld, ToolTyped, GivenWhole,
       StagingKept, UnderInstall, Given, ToolVersions
  <2>6. /\ job'[k].step \in Given => launchers'[job'[k].holds] = "whole"
        /\ job'[k].step = "stage" => k \in toolStaging'
    BY <1>0, <1>12, <2>1, <2>2 DEF ReleaseInstall, ToolTyped, GivenWhole, StagingKept,
       ToolVersions, ToolSteps, UnderInstall, Given, LocksHeld
  <2> QED BY <2>3, <2>4, <2>5, <2>6, ToolInvKept
<1>13. CASE CheckEnds(k)
  <2>1. job' = [job EXCEPT ![k] = JobAt("idle", 0, 0,
            {})]
    BY <1>13 DEF CheckEnds, Exits, ToolAtRest
  <2>2. /\ job' \in [ToolChecks -> ToolJobs]
        /\ job'[k].step = "idle" /\ job'[k].holds = 0 /\ job'[k].drops = 0
        /\ job'[k].left = {}
        /\ \A j \in ToolChecks \ {k} : job'[j] = job[j]
    <3>1. "idle" \in ToolSteps
      BY <2>1 DEF ToolSteps
    <3>2. 0 \in 0..MaxVersion /\ 0 \in 0..MaxVersion
      BY <1>0, <2>1 DEF ToolVersions
    <3>3. {} \in SUBSET ToolVersions
      BY <1>0 DEF ToolJobs
    <3> QED BY <2>1, <3>1, <3>2, <3>3 DEF ToolTyped, ToolJobs, JobAt
  <2>3. ToolTyped'
    BY <1>0, <1>13, <2>2 DEF CheckEnds, Exits, ToolTyped, ToolJobs, ToolVersions, ToolSteps,
       UnderInstall, Given
  <2>4. LocksHeld'
    <3>1. /\ job'[k].step \in UnderInstall <=> installing' = k
          /\ job'[k].step = "drop" <=> job'[k].drops # 0
          /\ job'[k].step \in Unheld <=> job'[k].holds = 0
          /\ job'[k].step = "share" => job'[k].left # {}
      BY <1>0, <1>13, <2>1, <2>2 DEF CheckEnds, Exits, LocksHeld, UnderInstall, ToolVersions,
         Unheld
    <3>2. /\ \A j \in ToolChecks \ {k} : installing' = j <=> installing = j
          /\ installing' # NoCheck => installing' \in ToolChecks
      BY <1>13, <1>0 DEF CheckEnds, Exits, LocksHeld, UnderInstall
    <3>3. \A j \in ToolChecks :
            /\ job'[k].drops # 0 => job'[j].holds # job'[k].drops
            /\ job'[j].drops # 0 => job'[k].holds # job'[j].drops
      BY <1>0, <1>13, <2>1, <2>2 DEF CheckEnds, LocksHeld, Dropping, Holding
    <3> QED BY <2>1, <2>2, <3>1, <3>2, <3>3, LocksKept
  <2>5. \A j \in ToolChecks \ {k} :
          /\ job'[j] = job[j]
          /\ job[j].step \in Given => launchers'[job[j].holds] = "whole"
          /\ job[j].step = "stage" => j \in toolStaging'
    BY <1>0, <1>13, <2>1, <2>2 DEF CheckEnds, LocksHeld, ToolTyped, GivenWhole, StagingKept,
       UnderInstall, Given, ToolVersions
  <2>6. /\ job'[k].step \in Given => launchers'[job'[k].holds] = "whole"
        /\ job'[k].step = "stage" => k \in toolStaging'
    BY <1>0, <1>13, <2>1, <2>2 DEF CheckEnds, ToolTyped, GivenWhole, StagingKept, ToolVersions,
       ToolSteps, UnderInstall, Given, LocksHeld
  <2> QED BY <2>3, <2>4, <2>5, <2>6, ToolInvKept
<1>14. CASE InstallFails(k)
  <2>1. job' = [job EXCEPT ![k] = JobAt("idle", 0, 0,
            {})]
    BY <1>14 DEF InstallFails, Exits, ToolAtRest
  <2>2. /\ job' \in [ToolChecks -> ToolJobs]
        /\ job'[k].step = "idle" /\ job'[k].holds = 0 /\ job'[k].drops = 0
        /\ job'[k].left = {}
        /\ \A j \in ToolChecks \ {k} : job'[j] = job[j]
    <3>1. "idle" \in ToolSteps
      BY <2>1 DEF ToolSteps
    <3>2. 0 \in 0..MaxVersion /\ 0 \in 0..MaxVersion
      BY <1>0, <2>1 DEF ToolVersions
    <3>3. {} \in SUBSET ToolVersions
      BY <1>0 DEF ToolJobs
    <3> QED BY <2>1, <3>1, <3>2, <3>3 DEF ToolTyped, ToolJobs, JobAt
  <2>3. ToolTyped'
    BY <1>0, <1>14, <2>2 DEF InstallFails, Exits, ToolTyped, ToolJobs, ToolVersions, ToolSteps,
       UnderInstall, Given
  <2>4. LocksHeld'
    <3>1. /\ job'[k].step \in UnderInstall <=> installing' = k
          /\ job'[k].step = "drop" <=> job'[k].drops # 0
          /\ job'[k].step \in Unheld <=> job'[k].holds = 0
          /\ job'[k].step = "share" => job'[k].left # {}
      BY <1>0, <1>14, <2>1, <2>2 DEF InstallFails, Exits, LocksHeld, UnderInstall, ToolVersions,
         Unheld
    <3>2. /\ \A j \in ToolChecks \ {k} : installing' = j <=> installing = j
          /\ installing' # NoCheck => installing' \in ToolChecks
      BY <1>14, <1>0 DEF InstallFails, Exits, LocksHeld, UnderInstall
    <3>3. \A j \in ToolChecks :
            /\ job'[k].drops # 0 => job'[j].holds # job'[k].drops
            /\ job'[j].drops # 0 => job'[k].holds # job'[j].drops
      BY <1>0, <1>14, <2>1, <2>2 DEF InstallFails, LocksHeld, Dropping, Holding
    <3> QED BY <2>1, <2>2, <3>1, <3>2, <3>3, LocksKept
  <2>5. \A j \in ToolChecks \ {k} :
          /\ job'[j] = job[j]
          /\ job[j].step \in Given => launchers'[job[j].holds] = "whole"
          /\ job[j].step = "stage" => j \in toolStaging'
    BY <1>0, <1>14, <2>1, <2>2 DEF InstallFails, LocksHeld, ToolTyped, GivenWhole, StagingKept,
       UnderInstall, Given, ToolVersions
  <2>6. /\ job'[k].step \in Given => launchers'[job'[k].holds] = "whole"
        /\ job'[k].step = "stage" => k \in toolStaging'
    BY <1>0, <1>14, <2>1, <2>2 DEF InstallFails, ToolTyped, GivenWhole, StagingKept,
       ToolVersions, ToolSteps, UnderInstall, Given, LocksHeld
  <2> QED BY <2>3, <2>4, <2>5, <2>6, ToolInvKept
<1>15. CASE CheckKilled(k)
  <2>1. job' = [job EXCEPT ![k] = JobAt("idle", 0, 0,
            {})]
    BY <1>15 DEF CheckKilled, Exits, ToolAtRest
  <2>2. /\ job' \in [ToolChecks -> ToolJobs]
        /\ job'[k].step = "idle" /\ job'[k].holds = 0 /\ job'[k].drops = 0
        /\ job'[k].left = {}
        /\ \A j \in ToolChecks \ {k} : job'[j] = job[j]
    <3>1. "idle" \in ToolSteps
      BY <2>1 DEF ToolSteps
    <3>2. 0 \in 0..MaxVersion /\ 0 \in 0..MaxVersion
      BY <1>0, <2>1 DEF ToolVersions
    <3>3. {} \in SUBSET ToolVersions
      BY <1>0 DEF ToolJobs
    <3> QED BY <2>1, <3>1, <3>2, <3>3 DEF ToolTyped, ToolJobs, JobAt
  <2>3. ToolTyped'
    BY <1>0, <1>15, <2>2 DEF CheckKilled, Exits, ToolTyped, ToolJobs, ToolVersions, ToolSteps,
       UnderInstall, Given
  <2>4. LocksHeld'
    <3>1. /\ job'[k].step \in UnderInstall <=> installing' = k
          /\ job'[k].step = "drop" <=> job'[k].drops # 0
          /\ job'[k].step \in Unheld <=> job'[k].holds = 0
          /\ job'[k].step = "share" => job'[k].left # {}
      BY <1>0, <1>15, <2>1, <2>2 DEF CheckKilled, Exits, LocksHeld, UnderInstall, ToolVersions,
         Unheld
    <3>2. /\ \A j \in ToolChecks \ {k} : installing' = j <=> installing = j
          /\ installing' # NoCheck => installing' \in ToolChecks
      BY <1>15, <1>0 DEF CheckKilled, Exits, LocksHeld, UnderInstall
    <3>3. \A j \in ToolChecks :
            /\ job'[k].drops # 0 => job'[j].holds # job'[k].drops
            /\ job'[j].drops # 0 => job'[k].holds # job'[j].drops
      BY <1>0, <1>15, <2>1, <2>2 DEF CheckKilled, LocksHeld, Dropping, Holding
    <3> QED BY <2>1, <2>2, <3>1, <3>2, <3>3, LocksKept
  <2>5. \A j \in ToolChecks \ {k} :
          /\ job'[j] = job[j]
          /\ job[j].step \in Given => launchers'[job[j].holds] = "whole"
          /\ job[j].step = "stage" => j \in toolStaging'
    BY <1>0, <1>15, <2>1, <2>2 DEF CheckKilled, LocksHeld, ToolTyped, GivenWhole, StagingKept,
       UnderInstall, Given, ToolVersions
  <2>6. /\ job'[k].step \in Given => launchers'[job'[k].holds] = "whole"
        /\ job'[k].step = "stage" => k \in toolStaging'
    BY <1>0, <1>15, <2>1, <2>2 DEF CheckKilled, ToolTyped, GivenWhole, StagingKept,
       ToolVersions, ToolSteps, UnderInstall, Given, LocksHeld
  <2> QED BY <2>3, <2>4, <2>5, <2>6, ToolInvKept
<1> QED
  BY <1>1, <1>2, <1>3, <1>4, <1>5, <1>6, <1>7, <1>8, <1>9, <1>10, <1>11, <1>12, <1>13, <1>14,
     <1>15 DEF ToolStep

(* Provisioning touches no launcher: a check keeps the one it holds, or is  *)
(* left without one.                                                        *)
LEMMA ProvisionMoves ==
  ASSUME ToolInv, NEW k \in ToolChecks, NEW s \in ToolSteps \ UnderInstall,
         UNCHANGED <<newestTool, launchers, toolStaging, installing>>,
         job[k].step \notin UnderInstall,
         job' \in [ToolChecks -> ToolJobs], job'[k].step = s, job'[k].drops = 0,
         \A j \in ToolChecks \ {k} : job'[j] = job[j],
         s \in Unheld <=> job'[k].holds = 0,
         s = "share" => job'[k].left # {},
         job'[k].holds # 0 => job'[k].holds = job[k].holds,
         s \in Given => job[k].step \in Given /\ job'[k].holds = job[k].holds
  PROVE  ToolInv'
<1> USE DEF ToolInv
<1>1. ToolTyped'
  BY ToolConstants DEF ToolTyped, ToolJobs, ToolVersions
<1>2. LocksHeld'
  <2>1. /\ job'[k].step \in UnderInstall <=> installing' = k
        /\ job'[k].step = "drop" <=> job'[k].drops # 0
        /\ job'[k].step \in Unheld <=> job'[k].holds = 0
        /\ job'[k].step = "share" => job'[k].left # {}
    BY DEF LocksHeld, UnderInstall
  <2>2. /\ \A j \in ToolChecks \ {k} : installing' = j <=> installing = j
        /\ installing' # NoCheck => installing' \in ToolChecks
    BY DEF LocksHeld
  <2>3. \A j \in ToolChecks :
          /\ job'[k].drops # 0 => job'[j].holds # job'[k].drops
          /\ job'[j].drops # 0 => job'[k].holds # job'[j].drops
    BY DEF LocksHeld
  <2> QED BY <2>1, <2>2, <2>3, LocksKept
<1>3. \A j \in ToolChecks \ {k} :
        /\ job'[j] = job[j]
        /\ job[j].step \in Given => launchers'[job[j].holds] = "whole"
        /\ job[j].step = "stage" => j \in toolStaging'
  BY DEF GivenWhole, StagingKept
<1>4. /\ job'[k].step \in Given => launchers'[job'[k].holds] = "whole"
      /\ job'[k].step = "stage" => k \in toolStaging'
  BY DEF GivenWhole, UnderInstall
<1> QED BY <1>1, <1>2, <1>3, <1>4, ToolInvKept

LEMMA ProvisionGoes ==
  ASSUME ToolInv, NEW k \in ToolChecks,
         NEW s \in {"probe", "uninstall", "reinstall", "probe_again"}, Goes(k, s),
         UNCHANGED <<newestTool, launchers, toolStaging, installing>>,
         job[k].step \in {"use", "probe", "uninstall", "reinstall"}
  PROVE  ToolInv'
<1>1. s \in ToolSteps \ UnderInstall /\ s \notin Unheld /\ s # "share"
  BY DEF ToolSteps, UnderInstall, Unheld
<1>2. job[k].step \notin UnderInstall /\ job[k].step \in Given
  BY DEF UnderInstall, Given
<1>3. job[k].drops = 0 /\ job[k].holds # 0
  BY DEF ToolInv, LocksHeld, Unheld
<1>4. /\ job' \in [ToolChecks -> ToolJobs]
      /\ job'[k].step = s /\ job'[k].holds = job[k].holds /\ job'[k].drops = job[k].drops
      /\ \A j \in ToolChecks \ {k} : job'[j] = job[j]
  BY <1>1, JobGoes DEF ToolInv
<1> QED BY <1>1, <1>2, <1>3, <1>4, ProvisionMoves

(* A check that gives its launcher back, or never held one.                 *)
LEMMA ProvisionFrees ==
  ASSUME ToolInv, NEW k \in ToolChecks, NEW s \in {"share", "gates", "quick", "quick_probe"},
         NEW l \in SUBSET ToolVersions, l # {} \/ s # "share",
         UNCHANGED <<newestTool, launchers, toolStaging, installing>>,
         job[k].step \notin UnderInstall,
         job' = [job EXCEPT ![k] = JobAt(s, 0, 0, l)]
  PROVE  ToolInv'
<1>1. s \in ToolSteps \ UnderInstall /\ s \in Unheld /\ s \notin Given
  BY DEF ToolSteps, UnderInstall, Unheld, Given
<1>2. 0 \in 0..MaxVersion
  BY ToolConstants
<1>3. /\ job' \in [ToolChecks -> ToolJobs]
      /\ job'[k].step = s /\ job'[k].holds = 0 /\ job'[k].drops = 0 /\ job'[k].left = l
      /\ \A j \in ToolChecks \ {k} : job'[j] = job[j]
  BY <1>1, <1>2, JobMoves DEF ToolInv
<1> QED BY <1>1, <1>3, ProvisionMoves

LEMMA ProvisionStepInv ==
  ASSUME ToolInv, NEW k \in ToolChecks, ProvisionStep(k)
  PROVE  ToolInv'
<1>1. CASE InstallTools(k)
  BY <1>1, ProvisionGoes DEF InstallTools, Shared
<1>2. CASE ProbeTools(k)
  <2>1. CASE job[k].step = "probe" /\ Goes(k, "uninstall")
    BY <1>2, <2>1, ProvisionGoes DEF ProbeTools, Shared
  <2>2. CASE job[k].step \in {"probe", "probe_again"} /\ StartGates(k)
    <3>1. job[k].step \notin UnderInstall
      BY <2>2 DEF UnderInstall
    <3>2. job' = [job EXCEPT ![k] = JobAt("gates", 0, 0, {})]
      BY <2>2 DEF StartGates
    <3>3. {} \in SUBSET ToolVersions /\ "gates" # "share"
      OBVIOUS
    <3>4. UNCHANGED <<newestTool, launchers, toolStaging, installing>>
      BY <1>2 DEF ProbeTools, Shared
    <3> QED BY <3>1, <3>2, <3>3, <3>4, ProvisionFrees
  <2> QED BY <1>2, <2>1, <2>2 DEF ProbeTools
<1>3. CASE UninstallTools(k)
  BY <1>3, ProvisionGoes DEF UninstallTools, Shared
<1>4. CASE ReinstallTools(k)
  BY <1>4, ProvisionGoes DEF ReinstallTools, Shared
<1>5. CASE FindInstalled(k)
  <2>1. PICK v \in ToolVersions : job' = [job EXCEPT ![k] = JobAt("quick", 0, 0, {v})]
    BY <1>5 DEF FindInstalled
  <2>2. {v} \in SUBSET ToolVersions /\ job[k].step \notin UnderInstall
    BY <1>5 DEF FindInstalled, UnderInstall
  <2> QED BY <1>5, <2>1, <2>2, ProvisionFrees DEF FindInstalled, Shared
<1>6. \A v \in 1..newestTool : v \in ToolVersions
  BY ToolConstants DEF ToolInv, ToolTyped, ToolVersions
<1>7. CASE RunInstalled(k)
  <2>1. CASE kit = {}
    <3>1. PICK v \in 1..newestTool : job' = [job EXCEPT ![k] = JobAt("share", 0, 0, {v})]
      BY <1>7, <2>1 DEF RunInstalled
    <3>2. {v} \in SUBSET ToolVersions /\ {v} # {} /\ job[k].step \notin UnderInstall
      BY <1>6, <1>7 DEF RunInstalled, UnderInstall
    <3> QED BY <1>7, <3>1, <3>2, ProvisionFrees DEF RunInstalled, Shared
  <2>2. CASE kit # {}
    <3>1. Goes(k, "quick_probe") /\ job[k].step = "quick"
      BY <1>7, <2>2 DEF RunInstalled
    <3>2. job[k].drops = 0 /\ job[k].holds = 0 /\ job[k].step \notin UnderInstall
      BY <3>1 DEF ToolInv, LocksHeld, Unheld, UnderInstall
    <3>3. "quick_probe" \in ToolSteps \ UnderInstall /\ "quick_probe" \in Unheld
          /\ "quick_probe" \notin Given
      BY DEF ToolSteps, UnderInstall, Unheld, Given
    <3>4. /\ job' \in [ToolChecks -> ToolJobs] /\ job'[k].step = "quick_probe"
          /\ job'[k].holds = job[k].holds /\ job'[k].drops = job[k].drops
          /\ \A j \in ToolChecks \ {k} : job'[j] = job[j]
      BY <3>1, <3>3, JobGoes DEF ToolInv
    <3> QED BY <1>7, <3>2, <3>3, <3>4, ProvisionMoves DEF RunInstalled, Shared
  <2> QED BY <2>1, <2>2
<1>8. CASE ProbeInstalled(k)
  <2>0. job[k].step \notin UnderInstall
    BY <1>8 DEF ProbeInstalled, UnderInstall
  <2>1. CASE IsBroken(k)
    <3>1. PICK v \in 1..newestTool : job' = [job EXCEPT ![k] = JobAt("share", 0, 0, {v})]
      BY <1>8, <2>1 DEF ProbeInstalled
    <3>2. {v} \in SUBSET ToolVersions /\ {v} # {}
      BY <1>6
    <3> QED BY <1>8, <2>0, <3>1, <3>2, ProvisionFrees DEF ProbeInstalled, Shared
  <2>2. CASE ~IsBroken(k)
    BY <1>8, <2>0, <2>2, ProvisionFrees DEF ProbeInstalled, Shared, StartGates
  <2> QED BY <2>1, <2>2
<1>9. CASE CheckEnds(k)
  BY <1>9, ToolStepInv
<1> QED BY <1>1, <1>2, <1>3, <1>4, <1>5, <1>7, <1>8, <1>9 DEF ProvisionStep

LEMMA ToolNextInv == ToolInv /\ [ToolsNext]_toolVars => ToolInv'
<1> SUFFICES ASSUME ToolInv, [ToolsNext]_toolVars PROVE ToolInv'
  OBVIOUS
<1> USE ToolConstants
<1>1. ASSUME NEW k \in ToolChecks,
             ToolStep(k) \/ ProvisionStep(k) \/ InstallFails(k) \/ CheckKilled(k)
      PROVE  ToolInv'
  BY <1>1, ToolStepInv, ProvisionStepInv
<1>2. CASE NewLauncher
  BY <1>2 DEF NewLauncher, ToolInv, ToolTyped, ToolVersions, LocksHeld, GivenWhole, StagingKept
<1>3. CASE PruneCheckout
  <2>1. ToolTyped'
    BY <1>3 DEF PruneCheckout, ToolInv, ToolTyped
  <2>2. LocksHeld'
    BY <1>3 DEF PruneCheckout, ToolInv, LocksHeld
  <2>3. \A k \in ToolChecks : job'[k].step = "idle"
    BY <1>3 DEF PruneCheckout, CheckoutHeld
  <2> QED BY <2>1, <2>2, <2>3 DEF ToolInv, GivenWhole, StagingKept, Given
<1>4. CASE CheckoutRemoved
  BY <1>4 DEF CheckoutRemoved, ToolInv, ToolTyped, LocksHeld, GivenWhole, StagingKept
<1>5. CASE UNCHANGED toolVars
  BY <1>5 DEF toolVars, ToolInv, ToolTyped, LocksHeld, GivenWhole, StagingKept
<1> QED BY <1>1, <1>2, <1>3, <1>4, <1>5 DEF ToolsNext

(* What a check has on its PATH is installed, until another check repairs.  *)
Provided == {"probe", "probe_again", "quick_probe", "gates"}

KitInv ==
  /\ kit \subseteq ToolReleases /\ disturbed \subseteq ToolChecks
  /\ onPath \in [ToolChecks -> ToolReleases \cup {"none"}]
  /\ \A k \in ToolChecks : job[k].step \in Provided =>
       onPath[k] # "none" /\ (Found(k) \/ k \in disturbed)
  /\ GatesKeepTools

LEMMA KitInitInv == ToolsInit => KitInv
BY DEF ToolsInit, KitInv, GatesKeepTools, Provided, ToolAtRest, JobAt

(* One check moves, the tools stay.                                         *)
LEMMA KitKept ==
  ASSUME KitInv, UNCHANGED kitVars, NEW k \in ToolChecks,
         \A j \in ToolChecks \ {k} : job'[j] = job[j],
         job'[k].step \in Provided => onPath[k] # "none" /\ (Found(k) \/ k \in disturbed),
         job'[k].step = "gates" => (onPath[k] = "sound" /\ Found(k)) \/ k \in disturbed
  PROVE  KitInv'
BY DEF KitInv, kitVars, Found, GatesKeepTools

(* One check puts a release on its PATH, one of the folder.                 *)
LEMMA KitNamed ==
  ASSUME KitInv, NEW k \in ToolChecks, NEW r \in ToolReleases, Names(k, r),
         kit \subseteq kit', r \in kit', kit' \subseteq ToolReleases,
         disturbed \ {k} \subseteq disturbed', disturbed' \subseteq disturbed,
         \A j \in ToolChecks \ {k} : job'[j] = job[j], job'[k].step # "gates"
  PROVE  KitInv'
<1>1. onPath'[k] = r /\ r # "none" /\ Found(k)'
  BY DEF KitInv, Names, Found, ToolReleases
<1>2. \A j \in ToolChecks \ {k} :
        onPath'[j] = onPath[j] /\ (Found(j) => Found(j)') /\ (j \in disturbed => j \in disturbed')
  BY DEF KitInv, Names, Found
<1>3. onPath' \in [ToolChecks -> ToolReleases \cup {"none"}] /\ disturbed' \subseteq ToolChecks
  BY DEF KitInv, Names
<1> QED BY <1>1, <1>2, <1>3 DEF KitInv, GatesKeepTools

LEMMA ExitKeepsKit ==
  ASSUME ToolTyped, KitInv, NEW k \in ToolChecks, Exits(k)
  PROVE  KitInv'
<1>1. job'[k].step = "idle" /\ \A j \in ToolChecks \ {k} : job'[j] = job[j]
  BY JobOthers DEF Exits, ToolAtRest
<1>2. onPath' \in [ToolChecks -> ToolReleases \cup {"none"}] /\ disturbed' \subseteq ToolChecks
  BY DEF Exits, Names, KitInv
<1>3. \A j \in ToolChecks \ {k} :
        onPath'[j] = onPath[j] /\ (Found(j) => Found(j)') /\ (j \in disturbed => j \in disturbed')
  BY DEF KitInv, Exits, Names, Found
<1> QED BY <1>1, <1>2, <1>3 DEF KitInv, GatesKeepTools, Exits, Provided

LEMMA LauncherStepKeepsKit ==
  ASSUME ToolTyped, KitInv, NEW k \in ToolChecks, ToolStep(k)
  PROVE  KitInv'
<1>1. UNCHANGED kitVars
  BY DEF ToolStep, FindVersion, ShareVersion, LookForBinary, SkipInstall, LockInstall,
     CheckBinary, RenameStaging, ListLaunchers, LockOld, DropBegins, DropEnds, ReleaseInstall,
     Others
<1>2. ASSUME NEW s \in ToolSteps \ Provided, Goes(k, s) PROVE KitInv'
  <2>1. job'[k].step \notin Provided /\ \A j \in ToolChecks \ {k} : job'[j] = job[j]
    BY <1>2, JobGoes
  <2> QED BY <1>1, <2>1, KitKept DEF Provided
<1>3. ASSUME NEW s \in ToolSteps \ Provided, NEW h, NEW d, NEW l,
             job' = [job EXCEPT ![k] = JobAt(s, h, d, l)]
      PROVE  KitInv'
  <2>1. job'[k].step \notin Provided /\ \A j \in ToolChecks \ {k} : job'[j] = job[j]
    BY <1>3, JobOthers
  <2> QED BY <1>1, <2>1, KitKept DEF Provided
<1>4. /\ "share" \in ToolSteps \ Provided /\ "look" \in ToolSteps \ Provided
      /\ "prune" \in ToolSteps \ Provided /\ "drop" \in ToolSteps \ Provided
  BY DEF ToolSteps, Provided
<1>5. CASE LookForBinary(k) \/ SkipInstall(k) \/ LockInstall(k) \/ CheckBinary(k)
           \/ RenameStaging(k) \/ ReleaseInstall(k)
  BY <1>2, <1>5 DEF LookForBinary, SkipInstall, LockInstall, CheckBinary, RenameStaging,
     ReleaseInstall, ToolSteps, Provided
<1>6. CASE FindVersion(k)
  <2>1. PICK v \in 1..newestTool : job' = [job EXCEPT ![k] = JobAt("share", 0, 0, {v})]
    BY <1>6 DEF FindVersion
  <2> QED BY <1>3, <1>4, <2>1
<1>7. CASE ShareVersion(k)
  <2>1. PICK v \in job[k].left : job' = [job EXCEPT ![k] = JobAt("look", v, 0, {})]
    BY <1>7 DEF ShareVersion
  <2> QED BY <1>3, <1>4, <2>1
<1>8. CASE ListLaunchers(k)
  BY <1>3, <1>4, <1>8 DEF ListLaunchers
<1>9. CASE LockOld(k)
  <2>1. PICK v \in job[k].left :
          job' = [job EXCEPT ![k] =
            IF Holding(v) \/ Dropping(v) THEN JobAt("prune", job[k].holds, 0, job[k].left \ {v})
                                         ELSE JobAt("drop", job[k].holds, v, job[k].left \ {v})]
    BY <1>9 DEF LockOld
  <2>2. CASE Holding(v) \/ Dropping(v)
    BY <1>3, <1>4, <2>1, <2>2
  <2>3. CASE ~(Holding(v) \/ Dropping(v))
    BY <1>3, <1>4, <2>1, <2>3
  <2> QED BY <2>2, <2>3
<1>10. CASE DropEnds(k)
  BY <1>3, <1>4, <1>10 DEF DropEnds
<1>11. CASE DropBegins(k)
  BY <1>1, <1>11 DEF DropBegins, KitInv, kitVars, Found, GatesKeepTools
<1> QED BY <1>5, <1>6, <1>7, <1>8, <1>9, <1>10, <1>11 DEF ToolStep

LEMMA ProvisionStepKeepsKit ==
  ASSUME ToolTyped, KitInv, NEW k \in ToolChecks, ProvisionStep(k)
  PROVE  KitInv'
<1>1. CASE InstallTools(k) \/ ReinstallTools(k)
  <2>1. PICK r \in ToolReleases : kit' = kit \cup {r} /\ Names(k, r)
    BY <1>1 DEF InstallTools, ReinstallTools
  <2>2. PICK s \in {"probe", "probe_again"} : Goes(k, s)
    BY <1>1 DEF InstallTools, ReinstallTools
  <2>3. job'[k].step # "gates" /\ \A j \in ToolChecks \ {k} : job'[j] = job[j]
    BY <2>2, JobGoes DEF ToolSteps
  <2>4. kit' \subseteq ToolReleases /\ disturbed' = disturbed \ {k}
    BY <1>1, <2>1 DEF InstallTools, ReinstallTools, KitInv
  <2> QED BY <2>1, <2>3, <2>4, KitNamed
<1>2. CASE ProbeTools(k)
  <2>1. UNCHANGED kitVars
    BY <1>2 DEF ProbeTools
  <2>2. CASE Goes(k, "uninstall")
    <3>1. job'[k].step = "uninstall" /\ \A j \in ToolChecks \ {k} : job'[j] = job[j]
      BY <2>2, JobGoes DEF ToolSteps
    <3> QED BY <2>1, <3>1, KitKept DEF Provided
  <2>3. CASE ~IsBroken(k) /\ StartGates(k)
    <3>1. job'[k].step = "gates" /\ \A j \in ToolChecks \ {k} : job'[j] = job[j]
      BY <2>3, JobOthers DEF StartGates
    <3>2. onPath[k] # "none" /\ (Found(k) \/ k \in disturbed)
      BY <1>2 DEF ProbeTools, KitInv, Provided
    <3>3. (onPath[k] = "sound" /\ Found(k)) \/ k \in disturbed
      BY <2>3, <3>2 DEF IsBroken, KitInv, ToolReleases
    <3> QED BY <2>1, <3>1, <3>2, <3>3, KitKept
  <2> QED BY <1>2, <2>2, <2>3 DEF ProbeTools
<1>3. CASE UninstallTools(k)
  <2>1. job'[k].step = "reinstall" /\ \A j \in ToolChecks \ {k} : job'[j] = job[j]
    BY <1>3, JobGoes DEF UninstallTools, ToolSteps
  <2>2. /\ onPath' \in [ToolChecks -> ToolReleases \cup {"none"}]
        /\ disturbed' \subseteq ToolChecks /\ kit' = {}
    BY <1>3 DEF UninstallTools, Names, KitInv
  <2>3. \A j \in ToolChecks \ {k} :
          onPath'[j] = onPath[j] /\ (onPath[j] # "none" => j \in disturbed')
    BY <1>3 DEF UninstallTools, Names, KitInv
  <2>4. \A j \in ToolChecks \ {k} : job[j].step = "gates" => j \in disturbed'
    BY <2>3 DEF KitInv, Provided
  <2> QED BY <2>1, <2>2, <2>3, <2>4 DEF KitInv, GatesKeepTools, Provided
<1>4. CASE FindInstalled(k)
  <2>1. job'[k].step = "quick" /\ \A j \in ToolChecks \ {k} : job'[j] = job[j]
    <3>1. PICK v \in ToolVersions : job' = [job EXCEPT ![k] = JobAt("quick", 0, 0, {v})]
      BY <1>4 DEF FindInstalled
    <3> QED BY <3>1, JobOthers
  <2> QED BY <1>4, <2>1, KitKept DEF FindInstalled, Provided
<1>5. CASE RunInstalled(k)
  <2>1. CASE kit = {}
    <3>1. job'[k].step = "share" /\ \A j \in ToolChecks \ {k} : job'[j] = job[j]
      <4>1. PICK v \in 1..newestTool : job' = [job EXCEPT ![k] = JobAt("share", 0, 0, {v})]
        BY <1>5, <2>1 DEF RunInstalled
      <4> QED BY <4>1, JobOthers
    <3> QED BY <1>5, <2>1, <3>1, KitKept DEF RunInstalled, Provided, kitVars
  <2>2. CASE kit # {}
    <3>1. PICK r \in kit : Names(k, r) /\ Goes(k, "quick_probe")
      BY <1>5, <2>2 DEF RunInstalled
    <3>2. job'[k].step = "quick_probe" /\ \A j \in ToolChecks \ {k} : job'[j] = job[j]
      BY <3>1, JobGoes DEF ToolSteps
    <3>3. kit' = kit /\ disturbed' = disturbed /\ kit \subseteq ToolReleases
      BY <1>5 DEF RunInstalled, KitInv
    <3> QED BY <3>1, <3>2, <3>3, KitNamed
  <2> QED BY <2>1, <2>2
<1>6. CASE ProbeInstalled(k)
  <2>1. UNCHANGED kitVars
    BY <1>6 DEF ProbeInstalled
  <2>2. CASE IsBroken(k)
    <3>1. job'[k].step = "share" /\ \A j \in ToolChecks \ {k} : job'[j] = job[j]
      <4>1. PICK v \in 1..newestTool : job' = [job EXCEPT ![k] = JobAt("share", 0, 0, {v})]
        BY <1>6, <2>2 DEF ProbeInstalled
      <4> QED BY <4>1, JobOthers
    <3> QED BY <2>1, <3>1, KitKept DEF Provided
  <2>3. CASE ~IsBroken(k)
    <3>1. job'[k].step = "gates" /\ \A j \in ToolChecks \ {k} : job'[j] = job[j]
      BY <1>6, <2>3, JobOthers DEF ProbeInstalled, StartGates
    <3>2. onPath[k] # "none" /\ (Found(k) \/ k \in disturbed)
      BY <1>6 DEF ProbeInstalled, KitInv, Provided
    <3>3. (onPath[k] = "sound" /\ Found(k)) \/ k \in disturbed
      BY <2>3, <3>2 DEF IsBroken, KitInv, ToolReleases
    <3> QED BY <2>1, <3>1, <3>2, <3>3, KitKept
  <2> QED BY <2>2, <2>3
<1>7. CASE CheckEnds(k)
  BY <1>7, ExitKeepsKit DEF CheckEnds
<1> QED BY <1>1, <1>2, <1>3, <1>4, <1>5, <1>6, <1>7 DEF ProvisionStep

LEMMA KitNextInv == ToolInv /\ KitInv /\ [ToolsNext]_toolVars => KitInv'
<1> SUFFICES ASSUME ToolInv, KitInv, [ToolsNext]_toolVars PROVE KitInv'
  OBVIOUS
<1> ToolTyped
  BY DEF ToolInv
<1>1. ASSUME NEW k \in ToolChecks, ToolStep(k) PROVE KitInv'
  BY <1>1, LauncherStepKeepsKit
<1>2. ASSUME NEW k \in ToolChecks, ProvisionStep(k) PROVE KitInv'
  BY <1>2, ProvisionStepKeepsKit
<1>3. ASSUME NEW k \in ToolChecks, InstallFails(k) \/ CheckKilled(k) PROVE KitInv'
  BY <1>3, ExitKeepsKit DEF InstallFails, CheckKilled
<1>4. CASE NewLauncher \/ CheckoutRemoved \/ UNCHANGED toolVars
  BY <1>4 DEF NewLauncher, CheckoutRemoved, toolVars, kitVars, KitInv, GatesKeepTools, Found
<1>5. CASE PruneCheckout
  <2>1. \A k \in ToolChecks : job[k].step = "idle"
    BY <1>5 DEF PruneCheckout, CheckoutHeld
  <2> QED BY <1>5, <2>1 DEF PruneCheckout, KitInv, GatesKeepTools, Provided
<1> QED BY <1>1, <1>2, <1>3, <1>4, <1>5 DEF ToolsNext

(* A check that waits for a version waits for one that is dropping it, one  *)
(* that waits for install.lock for the check that works under it.           *)
LEMMA ToolInvSafe == ToolInv /\ KitInv => ToolsSafe
<1> SUFFICES ASSUME ToolInv, KitInv PROVE ToolsSafe
  OBVIOUS
<1>1. LauncherStays /\ StagingKept /\ GatesKeepTools
  BY DEF ToolInv, KitInv, GivenWhole, Given, LauncherStays
<1>2. ASSUME NEW k \in ToolChecks, job[k].step = "wait", installing # NoCheck
      PROVE  \E j \in ToolChecks : job[j].step \notin {"idle", "share", "wait"}
  BY <1>2 DEF ToolInv, LocksHeld, UnderInstall
<1>3. ASSUME NEW k \in ToolChecks, job[k].step = "share", \A v \in job[k].left : Dropping(v)
      PROVE  \E j \in ToolChecks : job[j].step \notin {"idle", "share", "wait"}
  <2>1. PICK v \in job[k].left : Dropping(v)
    BY <1>3 DEF ToolInv, LocksHeld
  <2>2. v # 0
    BY ToolConstants DEF ToolInv, ToolTyped, ToolVersions
  <2> QED BY <2>1, <2>2 DEF Dropping, ToolInv, LocksHeld
<1>4. NobodyStuck
  BY <1>2, <1>3 DEF NobodyStuck, CheckoutHeld
<1> QED BY <1>1, <1>4 DEF ToolsSafe

(* A check keeps the launcher it was given, the one it stages and, until    *)
(* another repairs a broken release, the tool on its PATH; the locks never  *)
(* leave every check waiting (mise_launcher, prune_launchers, broken_tools).*)
THEOREM ToolsSafeHolds == ToolsSpec => []ToolsSafe
<1>1. ToolsInit => ToolInv /\ KitInv
  BY ToolInitInv, KitInitInv
<1>2. ToolInv /\ KitInv /\ [ToolsNext]_toolVars => (ToolInv /\ KitInv)'
  BY ToolNextInv, KitNextInv
<1> QED BY <1>1, <1>2, ToolInvSafe, PTL DEF ToolsSpec

-----------------------------------------------------------------------------
(* Holds.                                                                   *)
(* A hold a check has accepted ends within MaxHold days of that check.      *)

AcceptedHoldEnds ==
  hold # NoHold /\ hold.first # NoHold => hold.until <= hold.first + MaxHold
FreshInv ==
  /\ today \in Nat /\ inUse \in Int /\ DOMAIN releasedOn \subseteq PackageVersions
  /\ hold \in [version: PackageVersions, until: Int, first: Nat \cup {NoHold}] \cup {NoHold}
  /\ AcceptedHoldEnds /\ HoldsRunOut

LEMMA FreshInitInv == FreshInit => FreshInv
<1>1. Min(PackageVersions) \in PackageVersions
  <2>1. PICK least \in PackageVersions : \A v \in PackageVersions : least =< v
    BY FreshConstants
  <2> QED BY <2>1 DEF Min
<1> QED BY FreshConstants, <1>1 DEF FreshInit, FreshInv, AcceptedHoldEnds, HoldsRunOut

(* The newest eligible version is one of them and at least each of them.    *)
LEMMA NewestIsGreatest ==
  ASSUME FreshInv, NEW v \in EligibleVersions
  PROVE  Newest \in EligibleVersions /\ Newest >= v
<1>1. EligibleVersions \in SUBSET PackageVersions /\ EligibleVersions # {}
  BY DEF FreshInv, EligibleVersions
<1>2. PICK m \in EligibleVersions : \A u \in EligibleVersions : m >= u
  BY <1>1, FreshConstants
<1> QED BY <1>2 DEF Newest, Max

LEMMA CheckKeepsFresh == FreshInv /\ CheckFreshness => FreshInv'
<1> SUFFICES ASSUME FreshInv, CheckFreshness PROVE FreshInv'
  OBVIOUS
<1> USE FreshConstants
<1>1. /\ hold' \in [version: PackageVersions, until: Int, first: Nat \cup {NoHold}] \cup {NoHold}
      /\ hold # NoHold => hold'.version = hold.version /\ hold'.until = hold.until
      /\ hold = NoHold => hold' = NoHold
      /\ hold # NoHold /\ hold.first # NoHold => hold'.first = hold.first
      /\ hold # NoHold /\ hold.first = NoHold =>
           IF ValidHold THEN hold'.first = today ELSE hold'.first = NoHold
  BY DEF FreshInv, CheckFreshness
<1>2. AcceptedHoldEnds'
  BY <1>1 DEF FreshInv, AcceptedHoldEnds, CheckFreshness, ValidHold
<1>3. ASSUME passedNow', NEW v \in DOMAIN releasedOn \ (yanked \cup Unstable),
             v > inUse, releasedOn[v] + Wait <= today
      PROVE  hold # NoHold /\ hold.version >= v /\ today - hold'.first <= MaxHold
  <2>1. v \in EligibleVersions
    BY <1>3 DEF EligibleVersions
  <2>2. Newest >= v /\ Newest \in Int /\ v \in Int
    BY <2>1, NewestIsGreatest DEF FreshInv, EligibleVersions
  <2>3. Stale
    BY <1>3, <2>1, <2>2 DEF Stale, FreshInv
  <2>4. ValidHold /\ HeldBack
    BY <1>3, <2>3 DEF CheckFreshness, FreshnessPasses
  <2>5. today - hold'.first <= MaxHold
    BY <2>4, <1>1 DEF FreshInv, HeldBack, AcceptedHoldEnds
  <2> QED BY <2>2, <2>4, <2>5 DEF HeldBack
<1>4. HoldsRunOut'
  <2> SUFFICES ASSUME passedNow', NEW v \in DOMAIN releasedOn \ (yanked \cup Unstable),
                      v > inUse, releasedOn[v] + Wait <= today
               PROVE  hold' # NoHold /\ hold'.version >= v /\ today - hold'.first <= MaxHold
    BY DEF HoldsRunOut, CheckFreshness
  <2>1. hold # NoHold /\ hold.version >= v /\ today - hold'.first <= MaxHold
    BY <1>3
  <2>2. hold' # NoHold
    BY <2>1 DEF CheckFreshness, FreshInv
  <2> QED BY <1>1, <2>1, <2>2
<1> QED BY <1>1, <1>2, <1>4 DEF FreshInv, CheckFreshness

LEMMA FreshNextInv == FreshInv /\ [FreshNext]_freshVars => FreshInv'
<1> SUFFICES ASSUME FreshInv, [FreshNext]_freshVars PROVE FreshInv'
  OBVIOUS
<1> USE FreshConstants DEF FreshInv, AcceptedHoldEnds
<1>1. CASE CheckFreshness
  BY <1>1, CheckKeepsFresh
<1>2. CASE NextDay
  BY <1>2 DEF NextDay, HoldsRunOut
<1>3. CASE PublishVersion
  BY <1>3 DEF PublishVersion, HoldsRunOut
<1>4. CASE Yank
  BY <1>4 DEF Yank, HoldsRunOut
<1>5. CASE Upgrade
  BY <1>5 DEF Upgrade, HoldsRunOut
<1>6. CASE WriteHold
  <2>1. PICK v \in PackageVersions, d \in 0..(MaxHold + 1) :
          hold' = [version |-> v, until |-> today + d, first |-> NoHold]
    BY <1>6 DEF WriteHold
  <2>2. today + d \in Int /\ passedNow' = FALSE
    BY <1>6 DEF WriteHold
  <2> QED BY <1>6, <2>1, <2>2 DEF WriteHold, HoldsRunOut
<1>7. CASE UNCHANGED freshVars
  BY <1>7 DEF freshVars, HoldsRunOut
<1> QED BY <1>1, <1>2, <1>3, <1>4, <1>5, <1>6, <1>7 DEF FreshNext

(* No check passes over a dependency behind an old enough release on a hold *)
(* first accepted more than MaxHold days before (freshness.py).             *)
THEOREM HoldsRunOutHolds == FreshSpec => []HoldsRunOut
<1>1. FreshInv => HoldsRunOut
  BY DEF FreshInv
<1> QED BY FreshInitInv, FreshNextInv, <1>1, PTL DEF FreshSpec

-----------------------------------------------------------------------------
(* The updater.  What makes the compare-and-swap and the lease safe is what *)
(* a process still knows when it acts on a value read earlier: the base only *)
(* gains commits, the local branch only gains fixes while the lock is held   *)
(* elsewhere, and a value that was replaced never comes back.                *)

UpdPcs == {"idle", "fetch", "inspect", "build", "land", "swap", "exit", "resume", "lease",
           "push", "settle", "merge"}
UpdRecords == [pc: UpdPcs, boss: BOOLEAN, tip: Base \cup {None}, seen: Commit \cup {None},
               built: Commit \cup {None}]
UpdPulls == [head: Commit, checks: {"pending", "passing", "failing"}, auto: BOOLEAN]

UpdTyped ==
  /\ UpdTypeOK
  /\ up \in [Updaters -> UpdRecords]
  /\ updatePull \in UpdPulls \cup {None}

\* What holds of the repository and its pull request.
UpdRepoInv ==
  /\ branch # None => branch.fixes \subseteq OwnFixes /\ IsFiniteSet(branch.fixes)
  /\ checkout # "none" => branch # None
  /\ updatePull # None => remote # None /\ updatePull.head = remote
  /\ updatePull # None /\ updatePull.checks = "passing" => updatePull.head \in passed

HoldsLock(u) == Preparing(u) \/ up[u].pc = "exit"

\* What a process can rely on of the values it has read.
UpdKnows(u) ==
  /\ HoldsLock(u) => lock = u
  /\ up[u].boss => HoldsLock(u)
  /\ up[u].pc = "exit" => up[u].boss
  /\ up[u].pc \in {"inspect", "build", "land", "swap", "resume", "lease"} =>
       up[u].tip \in Base /\ up[u].tip.merged \subseteq base.merged
  /\ up[u].pc \in {"inspect", "build", "land", "swap"} /\ up[u].seen # None =>
       branch # None /\ up[u].seen.fixes \subseteq branch.fixes
  /\ up[u].pc \in {"build", "land", "swap"} /\ up[u].seen # None /\ branch = up[u].seen =>
       ~(Cardinality(Ahead(branch, up[u].tip)) > 1)
  /\ up[u].pc \in {"land", "swap"} => up[u].built \in Commit /\ up[u].built.fixes = {}
  /\ up[u].pc \in {"lease", "push"} => branch # None
  /\ up[u].pc = "push" /\ up[u].seen # None =>
       up[u].seen.fixes \cap TeamFixes \subseteq base.merged
  /\ up[u].pc = "merge" => up[u].built \in passed

UpdInv ==
  /\ UpdTyped
  /\ UpdRepoInv
  /\ \A u \in Updaters : UpdKnows(u)
  /\ RunningWorktreesKept

\* The bodies of the three action properties.
UpdStepSafe ==
  /\ branch # None /\ Cardinality(Ahead(branch, base)) > 1 =>
       branch' # None /\ branch.fixes \subseteq branch'.fixes \cup base'.merged
  /\ remote # None => \A f \in remote.fixes \cap TeamFixes :
       f \in base'.merged \/ (remote' # None /\ f \in remote'.fixes)
  /\ base'.merged # base.merged => updatePull # None /\ updatePull.head \in passed

\* A fix was added to the local branch.
BranchGrows ==
  /\ branch # None /\ branch' # None
  /\ \E f : f \notin branch.fixes /\ branch'.fixes = branch.fixes \cup {f}

LEMMA UpdInitInv == UpdInit => UpdInv
<1> SUFFICES ASSUME UpdInit PROVE UpdInv
  OBVIOUS
<1>1. UpdTyped
  BY UpdateConstants DEF UpdInit, UpdTyped, UpdTypeOK, Revs, Base, Idle, UpdRecords, UpdPcs, Worktree
<1>2. UpdRepoInv /\ RunningWorktreesKept /\ \A u \in Updaters : UpdKnows(u)
  BY DEF UpdInit, UpdRepoInv, RunningWorktreesKept, UpdKnows, HoldsLock, Preparing, Idle
<1> QED
  BY <1>1, <1>2 DEF UpdInv

\* A process that does nothing keeps what it knows, whoever else acts.
LEMMA KnowsStays ==
  ASSUME UpdInv, NEW v \in Updaters, up'[v] = up[v],
         base.merged \subseteq base'.merged, passed \subseteq passed',
         branch # None => branch' # None,
         HoldsLock(v) => lock' = lock,
         Preparing(v) => branch' = branch \/ BranchGrows
  PROVE  UpdKnows(v)'
<1> USE DEF UpdInv
<1>1. UpdKnows(v)
  OBVIOUS
<1>2. HoldsLock(v)' <=> HoldsLock(v)
  BY DEF HoldsLock, Preparing
<1>3. CASE branch' = branch
  BY <1>1, <1>2, <1>3 DEF UpdKnows, HoldsLock, Preparing, Ahead
<1>4. CASE BranchGrows /\ up[v].seen # None /\ Preparing(v)
  <2>1. up[v].pc \in {"inspect", "build", "land", "swap"} =>
          branch' # up[v].seen /\ up[v].seen.fixes \subseteq branch'.fixes
    BY <1>1, <1>4 DEF BranchGrows, UpdKnows
  <2> QED
    BY <1>1, <1>2, <2>1 DEF UpdKnows, HoldsLock, Preparing
<1>5. CASE up[v].seen = None \/ ~Preparing(v)
  BY <1>1, <1>2, <1>5 DEF UpdKnows, HoldsLock, Preparing
<1> QED
  BY <1>3, <1>4, <1>5 DEF Preparing

LEMMA OnePreparing ==
  ASSUME UpdInv, NEW u \in Updaters, NEW v \in Updaters, HoldsLock(u), HoldsLock(v)
  PROVE  u = v
BY DEF UpdInv, UpdKnows

\* A step of one process that leaves the repository as it is: what is left to
\* show is what that process knows after it, and that nobody else's lock goes.
LEMMA ProcessStep ==
  ASSUME UpdInv, NEW u \in Updaters, NEW r \in UpdRecords,
         UNCHANGED <<updRepo, push>>, up' = [up EXCEPT ![u] = r],
         lock' \in Updaters \cup {None}, worktrees' \subseteq Worktree,
         \A w \in worktrees : w.live /\ w.owner # u => w \in worktrees',
         r.pc = "build" => Candidate(u) \in worktrees',
         \A v \in Updaters \ {u} : HoldsLock(v) => lock' = lock,
         UpdKnows(u)'
  PROVE  UpdInv' /\ UpdStepSafe
<1> USE DEF UpdInv, updRepo
<1>1. up' \in [Updaters -> UpdRecords] /\ up'[u] = r /\ \A v \in Updaters \ {u} : up'[v] = up[v]
  BY DEF UpdTyped
<1>2. UpdTyped'
  BY <1>1 DEF UpdTyped, UpdTypeOK
<1>3. UpdRepoInv'
  BY DEF UpdRepoInv
<1>4. ASSUME NEW v \in Updaters PROVE UpdKnows(v)'
  <2>1. CASE v # u
    BY <1>1, <2>1, KnowsStays
  <2> QED
    BY <2>1
<1>5. RunningWorktreesKept'
  <2>1. ASSUME NEW v \in Updaters, up'[v].pc = "build" PROVE Candidate(v) \in worktrees'
    BY <1>1, <2>1 DEF RunningWorktreesKept, Candidate
  <2>2. ASSUME NEW p \in Pushers, push'[p] = "checking"
        PROVE  [kind |-> "push", owner |-> p, live |-> TRUE] \in worktrees'
    BY <2>2, UpdateConstants DEF RunningWorktreesKept
  <2> QED
    BY <2>1, <2>2 DEF RunningWorktreesKept
<1>6. UpdStepSafe
  BY DEF UpdStepSafe
<1> QED
  BY <1>2, <1>3, <1>4, <1>5, <1>6

LEMMA UpdRecordTyped ==
  ASSUME UpdInv, NEW u \in Updaters
  PROVE  /\ up[u] \in UpdRecords /\ Idle \in UpdRecords
         /\ [Idle EXCEPT !.pc = "exit", !.boss = TRUE] \in UpdRecords
BY DEF UpdInv, UpdTyped, Idle, UpdRecords, UpdPcs

LEMMA IdleKnows ==
  ASSUME UpdInv, NEW u \in Updaters, up'[u] = Idle PROVE UpdKnows(u)'
BY DEF UpdKnows, Idle, HoldsLock, Preparing

LEMMA StartUpdateStep ==
  ASSUME UpdInv, NEW u \in Sessions, StartUpdate(u) PROVE UpdInv' /\ UpdStepSafe
<1> DEFINE r == [Idle EXCEPT !.pc = "fetch", !.boss = TRUE]
<1>1. u \in Updaters /\ up \in [Updaters -> UpdRecords] /\ worktrees \subseteq Worktree
  BY DEF Updaters, UpdInv, UpdTyped, UpdTypeOK
<1>2. r \in UpdRecords /\ up' = [up EXCEPT ![u] = r] /\ lock' = u /\ worktrees' = Sweep
      /\ UNCHANGED <<updRepo, push>> /\ lock = None
  BY DEF Idle, UpdRecords, UpdPcs, StartUpdate
<1>3. UpdKnows(u)'
  BY <1>1, <1>2 DEF UpdKnows, HoldsLock, Preparing, Idle
<1>4. \A v \in Updaters : ~HoldsLock(v)
  BY <1>2, UpdateConstants DEF UpdInv, UpdKnows
<1>5. r.pc # "build"
  BY DEF Idle
<1> HIDE DEF r
<1> QED
  BY <1>1, <1>2, <1>3, <1>4, <1>5, ProcessStep DEF Sweep

LEMMA SuperviseStep ==
  ASSUME UpdInv, NEW u \in Sessions, Supervise(u) PROVE UpdInv' /\ UpdStepSafe
<1>1. u \in Updaters /\ up \in [Updaters -> UpdRecords] /\ worktrees \subseteq Worktree
  BY DEF Updaters, UpdInv, UpdTyped, UpdTypeOK
<1>2. up' = [up EXCEPT ![u] = Idle] /\ lock' = None /\ worktrees' = Sweep
      /\ UNCHANGED <<updRepo, push>> /\ up[u].pc = "exit"
  BY DEF Supervise
<1>3. \A v \in Updaters \ {u} : ~HoldsLock(v)
  BY <1>1, <1>2, OnePreparing DEF HoldsLock
<1>4. Idle \in UpdRecords /\ Idle.pc # "build" /\ UpdKnows(u)'
  BY <1>1, <1>2, UpdRecordTyped, IdleKnows DEF Idle
<1> QED
  BY <1>1, <1>2, <1>3, <1>4, ProcessStep DEF Sweep

LEMMA KillSupervisorStep ==
  ASSUME UpdInv, NEW u \in Sessions, KillSupervisor(u) PROVE UpdInv' /\ UpdStepSafe
<1> DEFINE r == IF up[u].pc = "exit" THEN Idle ELSE [up[u] EXCEPT !.boss = FALSE]
<1>1. u \in Updaters /\ up \in [Updaters -> UpdRecords] /\ worktrees \subseteq Worktree
      /\ lock \in Updaters \cup {None}
  BY DEF Updaters, UpdInv, UpdTyped, UpdTypeOK
<1>2. up' = [up EXCEPT ![u] = r] /\ lock' = (IF up[u].pc = "exit" THEN None ELSE lock)
      /\ worktrees' = worktrees /\ UNCHANGED <<updRepo, push>>
  BY DEF KillSupervisor
<1>3. r \in UpdRecords
  BY <1>1, UpdRecordTyped DEF UpdRecords
<1>4. UpdKnows(u)'
  <2>1. CASE up[u].pc = "exit"
    BY <1>1, <1>2, <2>1, IdleKnows
  <2>2. CASE up[u].pc # "exit"
    <3>1. up'[u] = [up[u] EXCEPT !.boss = FALSE] /\ lock' = lock
      BY <1>1, <1>2, <2>2
    <3>2. /\ up'[u].pc = up[u].pc /\ up'[u].tip = up[u].tip /\ up'[u].seen = up[u].seen
          /\ up'[u].built = up[u].built /\ up'[u].boss = FALSE
      BY <1>1, <3>1 DEF UpdRecords
    <3> QED
      BY <1>1, <1>2, <2>2, <3>1, <3>2 DEF UpdInv, UpdKnows, HoldsLock, Preparing, updRepo, Ahead
  <2> QED
    BY <2>1, <2>2
<1>5. \A v \in Updaters \ {u} : HoldsLock(v) => lock' = lock
  BY <1>1, <1>2, OnePreparing DEF HoldsLock
<1>6. r.pc = "build" => Candidate(u) \in worktrees
  BY <1>1 DEF UpdInv, RunningWorktreesKept, Idle, UpdRecords
<1> HIDE DEF r
<1> QED
  BY <1>1, <1>2, <1>3, <1>4, <1>5, <1>6, ProcessStep

\* The end of a worker, by itself or killed, and of a preparation.
LEMMA WorkerEnded ==
  ASSUME UpdInv, NEW u \in Updaters, WorkerEnds(u), UNCHANGED <<updRepo, push>>,
         HoldsLock(u) \/ ~up[u].boss,
         worktrees' \subseteq Worktree,
         \A w \in worktrees : w.live /\ w.owner # u => w \in worktrees'
  PROVE  UpdInv' /\ UpdStepSafe
<1> DEFINE r == IF up[u].boss THEN [Idle EXCEPT !.pc = "exit", !.boss = TRUE] ELSE Idle
<1>1. up \in [Updaters -> UpdRecords] /\ lock \in Updaters \cup {None}
  BY DEF UpdInv, UpdTyped, UpdTypeOK
<1>2. up' = [up EXCEPT ![u] = r] /\ lock' = (IF lock = u /\ ~up[u].boss THEN None ELSE lock)
  BY DEF WorkerEnds
<1>3. r \in UpdRecords /\ r.pc # "build"
  BY UpdRecordTyped DEF Idle
<1>4. UpdKnows(u)'
  <2>1. CASE up[u].boss
    BY <1>1, <1>2, <2>1 DEF UpdInv, UpdKnows, HoldsLock, Preparing, Idle
  <2>2. CASE ~up[u].boss
    BY <1>1, <1>2, <2>2, IdleKnows
  <2> QED
    BY <2>1, <2>2
<1>5. \A v \in Updaters \ {u} : HoldsLock(v) => lock' = lock
  BY <1>2 DEF UpdInv, UpdKnows
<1> HIDE DEF r
<1> QED
  BY <1>1, <1>2, <1>3, <1>4, <1>5, ProcessStep

LEMMA KillWorkerStep ==
  ASSUME UpdInv, NEW u \in Updaters, KillWorker(u) PROVE UpdInv' /\ UpdStepSafe
<1>1. worktrees' = Orphaned(worktrees, u) /\ worktrees \subseteq Worktree
  BY DEF KillWorker, UpdInv, UpdTyped, UpdTypeOK
<1>2. worktrees' \subseteq Worktree /\ \A w \in worktrees : w.live /\ w.owner # u => w \in worktrees'
  BY <1>1 DEF Orphaned, Worktree
<1>3. HoldsLock(u) \/ ~up[u].boss
  BY DEF UpdInv, UpdKnows
<1> QED
  BY <1>2, <1>3, WorkerEnded DEF KillWorker

LEMMA PreparedStep ==
  ASSUME UpdInv, NEW u \in Updaters, Prepared(u), UNCHANGED <<updRepo, push>>,
         up[u].pc \in {"inspect", "build", "land", "swap"},
         worktrees' \subseteq Worktree,
         \A w \in worktrees : w.live /\ w.owner # u => w \in worktrees'
  PROVE  UpdInv' /\ UpdStepSafe
<1>1. CASE u \in Sessions
  BY <1>1, WorkerEnded DEF Prepared, HoldsLock, Preparing
<1>2. CASE u \notin Sessions
  <2> DEFINE r == [Idle EXCEPT !.pc = "resume", !.tip = up[u].tip]
  <2>1. up' = [up EXCEPT ![u] = r] /\ lock' = None
    BY <1>2 DEF Prepared
  <2>2. up \in [Updaters -> UpdRecords]
    BY DEF UpdInv, UpdTyped
  <2>3. r \in UpdRecords /\ r.pc # "build"
    BY <2>2 DEF Idle, UpdRecords, UpdPcs
  <2>4. UpdKnows(u)'
    BY <2>1, <2>2 DEF UpdInv, UpdKnows, HoldsLock, Preparing, Idle, updRepo
  <2>5. \A v \in Updaters \ {u} : ~HoldsLock(v)
    BY OnePreparing DEF HoldsLock, Preparing
  <2> HIDE DEF r
  <2> QED
    BY <2>1, <2>2, <2>3, <2>4, <2>5, ProcessStep
<1> QED
  BY <1>1, <1>2

LEMMA FetchBaseStep ==
  ASSUME UpdInv, NEW u \in Updaters, FetchBase(u) PROVE UpdInv' /\ UpdStepSafe
<1> DEFINE r == [up[u] EXCEPT !.pc = "inspect", !.tip = base, !.seen = branch]
<1>1. up \in [Updaters -> UpdRecords] /\ lock \in Updaters \cup {None} /\ worktrees \subseteq Worktree
      /\ base \in Base /\ branch \in Commit \cup {None}
  BY DEF UpdInv, UpdTyped, UpdTypeOK
<1>2. up' = [up EXCEPT ![u] = r] /\ UNCHANGED <<updRepo, lock, worktrees, push>> /\ up[u].pc = "fetch"
  BY DEF FetchBase
<1>3. r \in UpdRecords /\ r.pc # "build"
  BY <1>1 DEF UpdRecords, UpdPcs
<1>4. UpdKnows(u)'
  BY <1>1, <1>2 DEF UpdInv, UpdKnows, HoldsLock, Preparing, updRepo, UpdRecords
<1> HIDE DEF r
<1> QED
  BY <1>1, <1>2, <1>3, <1>4, ProcessStep

LEMMA InspectStep ==
  ASSUME UpdInv, NEW u \in Updaters, Inspect(u) PROVE UpdInv' /\ UpdStepSafe
<1> DEFINE stops == Unfinished(up[u].tip) \/ BranchCurrent(up[u].tip) \/ checkout # "none"
           r == [up[u] EXCEPT !.pc = "build"]
<1>1. up \in [Updaters -> UpdRecords] /\ lock \in Updaters \cup {None} /\ worktrees \subseteq Worktree
  BY DEF UpdInv, UpdTyped, UpdTypeOK
<1>2. up[u].pc = "inspect" /\ UNCHANGED <<updRepo, failure, push>>
  BY DEF Inspect
<1>3. CASE stops
  BY <1>1, <1>2, <1>3, PreparedStep DEF Inspect
<1>4. CASE ~stops
  <2>1. up' = [up EXCEPT ![u] = r] /\ worktrees' = worktrees \cup {Candidate(u)} /\ lock' = lock
    BY <1>4 DEF Inspect
  <2>2. r \in UpdRecords
    BY <1>1 DEF UpdRecords, UpdPcs
  <2>3. Candidate(u) \in Worktree
    BY DEF Candidate, Worktree
  <2>4. branch # None => ~(Cardinality(Ahead(branch, up[u].tip)) > 1)
    BY <1>4 DEF Unfinished
  <2>5. /\ up'[u].pc = "build" /\ up'[u].tip = up[u].tip /\ up'[u].seen = up[u].seen
        /\ up'[u].boss = up[u].boss
    BY <1>1, <2>1 DEF UpdRecords
  <2>6. UpdKnows(u)'
    BY <1>2, <2>1, <2>4, <2>5 DEF UpdInv, UpdKnows, HoldsLock, Preparing, updRepo, Ahead
  <2> HIDE DEF r
  <2> QED
    BY <1>1, <1>2, <2>1, <2>2, <2>3, <2>6, ProcessStep
<1> QED
  BY <1>3, <1>4

LEMMA BuildStep ==
  ASSUME UpdInv, NEW u \in Updaters, Build(u) PROVE UpdInv' /\ UpdStepSafe
<1> DEFINE commit == [on |-> up[u].tip.at, rev |-> newest, fixes |-> {}]
           r == [up[u] EXCEPT !.pc = "land", !.built = commit]
<1>1. up \in [Updaters -> UpdRecords] /\ lock \in Updaters \cup {None} /\ worktrees \subseteq Worktree
      /\ newest \in Revs
  BY DEF UpdInv, UpdTyped, UpdTypeOK
<1>2. up[u].pc = "build" /\ UNCHANGED <<updRepo, push>> /\ worktrees' = worktrees \ {Candidate(u)}
  BY DEF Build
<1>3. worktrees' \subseteq Worktree /\ \A w \in worktrees : w.live /\ w.owner # u => w \in worktrees'
  BY <1>1, <1>2 DEF Candidate
<1>4. CASE Prepared(u)
  BY <1>2, <1>3, <1>4, PreparedStep
<1>5. CASE up' = [up EXCEPT ![u] = r] /\ lock' = lock
  <2>1. up[u].tip \in Base
    BY <1>2 DEF UpdInv, UpdKnows
  <2>2. commit \in Commit
    BY <1>1, <2>1 DEF Commit, Base
  <2>3. r \in UpdRecords /\ r.pc # "build"
    BY <1>1, <2>2 DEF UpdRecords, UpdPcs
  <2>4. /\ up'[u].pc = "land" /\ up'[u].tip = up[u].tip /\ up'[u].seen = up[u].seen
        /\ up'[u].boss = up[u].boss /\ up'[u].built = commit /\ commit.fixes = {}
    BY <1>1, <1>5 DEF UpdRecords
  <2> HIDE DEF commit
  <2>5. UpdKnows(u)'
    BY <1>2, <1>5, <2>2, <2>4 DEF UpdInv, UpdKnows, HoldsLock, Preparing, updRepo, Ahead
  <2> HIDE DEF r
  <2> QED
    BY <1>1, <1>2, <1>3, <1>5, <2>3, <2>5, ProcessStep
<1> QED
  BY <1>4, <1>5 DEF Build

LEMMA LandStep ==
  ASSUME UpdInv, NEW u \in Updaters, Land(u) PROVE UpdInv' /\ UpdStepSafe
<1> DEFINE r == [up[u] EXCEPT !.pc = "swap"]
<1>1. up \in [Updaters -> UpdRecords] /\ lock \in Updaters \cup {None} /\ worktrees \subseteq Worktree
  BY DEF UpdInv, UpdTyped, UpdTypeOK
<1>2. up[u].pc = "land" /\ UNCHANGED <<updRepo, worktrees, push>>
  BY DEF Land
<1>3. CASE Prepared(u)
  BY <1>1, <1>2, <1>3, PreparedStep
<1>4. CASE up' = [up EXCEPT ![u] = r] /\ lock' = lock
  <2>1. r \in UpdRecords /\ r.pc # "build"
    BY <1>1 DEF UpdRecords, UpdPcs
  <2>2. /\ up'[u].pc = "swap" /\ up'[u].tip = up[u].tip /\ up'[u].seen = up[u].seen
        /\ up'[u].boss = up[u].boss /\ up'[u].built = up[u].built
    BY <1>1, <1>4 DEF UpdRecords
  <2>3. UpdKnows(u)'
    BY <1>2, <1>4, <2>2 DEF UpdInv, UpdKnows, HoldsLock, Preparing, updRepo, Ahead
  <2> HIDE DEF r
  <2> QED
    BY <1>1, <1>2, <1>4, <2>1, <2>3, ProcessStep
<1> QED
  BY <1>3, <1>4 DEF Land

LEMMA DecideStep ==
  ASSUME UpdInv, NEW u \in Publishers, Decide(u) PROVE UpdInv' /\ UpdStepSafe
<1> DEFINE me == [Idle EXCEPT !.tip = base]
           fetch == [me EXCEPT !.pc = "fetch"]
           lease == [me EXCEPT !.pc = "lease"]
<1>1. u \in Updaters /\ up \in [Updaters -> UpdRecords] /\ lock \in Updaters \cup {None}
      /\ worktrees \subseteq Worktree /\ base \in Base
  BY DEF Updaters, UpdInv, UpdTyped, UpdTypeOK
<1>2. UNCHANGED <<updRepo, push>> /\ up[u].pc = "idle"
  BY DEF Decide
<1>3. {fetch, lease} \subseteq UpdRecords /\ fetch.pc # "build" /\ lease.pc # "build"
  BY <1>1 DEF Idle, UpdRecords, UpdPcs
<1>4. CASE lock = None /\ lock' = u /\ worktrees' = Sweep /\ up' = [up EXCEPT ![u] = fetch]
  <2>1. UpdKnows(u)'
    BY <1>1, <1>4 DEF UpdKnows, HoldsLock, Preparing, Idle
  <2>2. \A v \in Updaters : ~HoldsLock(v)
    BY <1>4, UpdateConstants DEF UpdInv, UpdKnows
  <2> HIDE DEF fetch
  <2> QED
    BY <1>1, <1>2, <1>3, <1>4, <2>1, <2>2, ProcessStep DEF Sweep
<1>5. CASE branch # None /\ up' = [up EXCEPT ![u] = lease] /\ UNCHANGED <<lock, worktrees>>
  <2>1. UpdKnows(u)'
    BY <1>1, <1>2, <1>5 DEF UpdKnows, HoldsLock, Preparing, Idle, updRepo
  <2> HIDE DEF lease
  <2> QED
    BY <1>1, <1>2, <1>3, <1>5, <2>1, ProcessStep
<1> QED
  BY <1>4, <1>5 DEF Decide

LEMMA ResumeStep ==
  ASSUME UpdInv, NEW u \in Updaters, Resume(u) PROVE UpdInv' /\ UpdStepSafe
<1> DEFINE lease == [up[u] EXCEPT !.pc = "lease"]
<1>1. up \in [Updaters -> UpdRecords] /\ lock \in Updaters \cup {None} /\ worktrees \subseteq Worktree
  BY DEF UpdInv, UpdTyped, UpdTypeOK
<1>2. UNCHANGED <<updRepo, lock, worktrees, push>> /\ up[u].pc = "resume"
  BY DEF Resume
<1>3. lease \in UpdRecords /\ lease.pc # "build" /\ Idle \in UpdRecords /\ Idle.pc # "build"
  BY <1>1, UpdRecordTyped DEF Idle, UpdRecords, UpdPcs
<1>4. CASE Publishable(u)
  <2>1. up' = [up EXCEPT ![u] = lease]
    BY <1>4 DEF Resume
  <2>2. UpdKnows(u)'
    BY <1>1, <1>2, <1>4, <2>1 DEF UpdInv, UpdKnows, HoldsLock, Preparing, updRepo, Publishable,
       UpdRecords
  <2> HIDE DEF lease
  <2> QED
    BY <1>1, <1>2, <1>3, <2>1, <2>2, ProcessStep
<1>5. CASE ~Publishable(u)
  <2>1. up' = [up EXCEPT ![u] = Idle]
    BY <1>5 DEF Resume
  <2> QED
    BY <1>1, <1>2, <1>3, <2>1, IdleKnows, ProcessStep
<1> QED
  BY <1>4, <1>5

\* What the lease allows to be replaced holds no fix of a teammate that the base lacks:
\* the local branch holds only fixes made here.
LEMMA LeaseRemoteStep ==
  ASSUME UpdInv, NEW u \in Updaters, LeaseRemote(u) PROVE UpdInv' /\ UpdStepSafe
<1> DEFINE r == [Idle EXCEPT !.pc = "push", !.seen = remote]
<1>1. up \in [Updaters -> UpdRecords] /\ lock \in Updaters \cup {None} /\ worktrees \subseteq Worktree
      /\ remote \in Commit \cup {None}
  BY DEF UpdInv, UpdTyped, UpdTypeOK
<1>2. UNCHANGED <<updRepo, lock, worktrees, push>> /\ up[u].pc = "lease"
  BY DEF LeaseRemote
<1>3. r \in UpdRecords /\ r.pc # "build" /\ Idle \in UpdRecords /\ Idle.pc # "build"
  BY <1>1, UpdRecordTyped DEF Idle, UpdRecords, UpdPcs
<1>4. CASE remote = None \/ Replaceable(remote, branch, up[u].tip)
  <2>1. up' = [up EXCEPT ![u] = r]
    BY <1>4 DEF LeaseRemote
  <2>2. remote # None => remote.fixes \cap TeamFixes \subseteq base.merged
    <3>1. branch # None /\ up[u].tip.merged \subseteq base.merged /\ branch.fixes \subseteq OwnFixes
      BY <1>2 DEF UpdInv, UpdKnows, UpdRepoInv
    <3> QED
      BY <1>4, <3>1, UpdateConstants DEF Replaceable, IsAncestor
  <2>3. up'[u].pc = "push" /\ up'[u].seen = remote /\ up'[u].boss = FALSE
    BY <1>1, <2>1 DEF Idle
  <2>4. UpdKnows(u)'
    BY <1>2, <2>2, <2>3 DEF UpdInv, UpdKnows, HoldsLock, Preparing, updRepo
  <2> HIDE DEF r
  <2> QED
    BY <1>1, <1>2, <1>3, <2>1, <2>4, ProcessStep
<1>5. CASE ~(remote = None \/ Replaceable(remote, branch, up[u].tip))
  <2>1. up' = [up EXCEPT ![u] = Idle]
    BY <1>5 DEF LeaseRemote
  <2> QED
    BY <1>1, <1>2, <1>3, <2>1, IdleKnows, ProcessStep
<1> QED
  BY <1>4, <1>5

LEMMA SettleStep ==
  ASSUME UpdInv, NEW u \in Updaters, Settle(u) PROVE UpdInv' /\ UpdStepSafe
<1> DEFINE passes == updatePull # None /\ updatePull.head = branch /\ updatePull.checks = "passing"
           r == [Idle EXCEPT !.pc = "merge", !.built = branch]
<1>1. up \in [Updaters -> UpdRecords] /\ lock \in Updaters \cup {None} /\ worktrees \subseteq Worktree
      /\ branch \in Commit \cup {None}
  BY DEF UpdInv, UpdTyped, UpdTypeOK
<1>2. UNCHANGED <<updRepo, lock, worktrees, push>>
  BY DEF Settle
<1>3. r \in UpdRecords /\ r.pc # "build" /\ Idle \in UpdRecords /\ Idle.pc # "build"
  BY <1>1, UpdRecordTyped DEF Idle, UpdRecords, UpdPcs
<1>4. CASE passes
  <2>1. up' = [up EXCEPT ![u] = r] /\ branch \in passed
    BY <1>4 DEF Settle, UpdInv, UpdRepoInv
  <2>2. UpdKnows(u)'
    BY <1>1, <1>2, <2>1 DEF UpdKnows, HoldsLock, Preparing, updRepo, Idle
  <2> HIDE DEF r
  <2> QED
    BY <1>1, <1>2, <1>3, <2>1, <2>2, ProcessStep
<1>5. CASE ~passes
  <2>1. up' = [up EXCEPT ![u] = Idle]
    BY <1>5 DEF Settle
  <2> QED
    BY <1>1, <1>2, <1>3, <2>1, IdleKnows, ProcessStep
<1> QED
  BY <1>4, <1>5

\* A step of the world around: no process acts, but one may have ended its work.
LEMMA WorldStep ==
  ASSUME UpdInv, up' \in [Updaters -> UpdRecords],
         \A v \in Updaters : up'[v] = up[v] \/ up'[v] = Idle,
         lock' = lock, base.merged \subseteq base'.merged, passed \subseteq passed',
         branch' = branch \/ BranchGrows,
         worktrees' \subseteq Worktree, push' \in [Pushers -> {"idle", "checking"}],
         \A w \in worktrees : w.kind = "candidate" => w \in worktrees',
         \A p \in Pushers : push'[p] = "checking" =>
           [kind |-> "push", owner |-> p, live |-> TRUE] \in worktrees'
  PROVE  (\A v \in Updaters : UpdKnows(v)') /\ RunningWorktreesKept'
<1>1. branch # None => branch' # None
  BY DEF BranchGrows
<1>2. ASSUME NEW v \in Updaters PROVE UpdKnows(v)'
  <2>1. CASE up'[v] = up[v]
    BY <1>1, <2>1, KnowsStays
  <2> QED
    BY <2>1, IdleKnows
<1>3. ASSUME NEW u \in Updaters, up'[u].pc = "build" PROVE Candidate(u) \in worktrees'
  <2>1. up[u].pc = "build"
    BY <1>3 DEF Idle
  <2> QED
    BY <2>1 DEF UpdInv, RunningWorktreesKept, Candidate
<1> QED
  BY <1>2, <1>3 DEF RunningWorktreesKept

\* The branch an update replaces has nothing on top of its update commit that the base
\* lacks: it was so for the base the update fetched, and the branch has not moved since.
LEMMA SwapBranchStep ==
  ASSUME UpdInv, NEW u \in Updaters, SwapBranch(u) PROVE UpdInv' /\ UpdStepSafe
<1>1. /\ up \in [Updaters -> UpdRecords] /\ lock \in Updaters \cup {None}
      /\ worktrees \subseteq Worktree /\ branch \in Commit \cup {None}
      /\ base \in Base /\ newest \in Revs
  BY DEF UpdInv, UpdTyped, UpdTypeOK
<1>2. up[u].pc = "swap" /\ Prepared(u) /\ UNCHANGED <<newest, base, checkout, remote, updatePull>>
      /\ UNCHANGED <<passed, failure, worktrees, push>>
  BY DEF SwapBranch
<1>3. CASE branch # up[u].seen
  BY <1>1, <1>2, <1>3, PreparedStep DEF SwapBranch, updRepo
<1>4. CASE branch = up[u].seen
  <2>1. branch' = up[u].built /\ branch' \in Commit /\ branch' # None /\ branch'.fixes = {}
    BY <1>2, <1>4, UpdateConstants DEF SwapBranch, UpdInv, UpdKnows
  <2>2. PICK r \in UpdRecords :
          /\ up' = [up EXCEPT ![u] = r] /\ r.pc \in {"idle", "exit", "resume"}
          /\ r.pc = "exit" => r.boss /\ lock' = lock
          /\ r.boss => r.pc = "exit"
          /\ r.pc = "resume" => r.tip = up[u].tip
    <3>1. CASE u \in Sessions /\ up[u].boss
      <4>1. up' = [up EXCEPT ![u] = [Idle EXCEPT !.pc = "exit", !.boss = TRUE]] /\ lock' = lock
        BY <1>2, <3>1 DEF Prepared, WorkerEnds
      <4> QED
        BY <4>1, UpdRecordTyped DEF Idle
    <3>2. CASE u \in Sessions /\ ~up[u].boss
      <4>1. up' = [up EXCEPT ![u] = Idle]
        BY <1>2, <3>2 DEF Prepared, WorkerEnds
      <4> QED
        BY <4>1, UpdRecordTyped DEF Idle
    <3>3. CASE u \notin Sessions
      <4>1. up' = [up EXCEPT ![u] = [Idle EXCEPT !.pc = "resume", !.tip = up[u].tip]]
        BY <1>2, <3>3 DEF Prepared
      <4>2. [Idle EXCEPT !.pc = "resume", !.tip = up[u].tip] \in UpdRecords
        BY <1>1 DEF Idle, UpdRecords, UpdPcs
      <4> QED
        BY <4>1, <4>2 DEF Idle
    <3> QED
      BY <3>1, <3>2, <3>3
  <2>3. lock' \in Updaters \cup {None}
    BY <1>1, <1>2 DEF Prepared, WorkerEnds
  <2>4. up'[u] = r /\ up' \in [Updaters -> UpdRecords] /\ \A v \in Updaters \ {u} : up'[v] = up[v]
    BY <1>1, <2>2
  <2>5. UpdTyped'
    BY <1>2, <2>1, <2>3, <2>4 DEF UpdInv, UpdTyped, UpdTypeOK
  <2>6. UpdRepoInv'
    BY <1>2, <2>1, FS_EmptySet DEF UpdInv, UpdRepoInv
  <2>7. ASSUME NEW v \in Updaters PROVE UpdKnows(v)'
    <3>1. CASE v = u
      BY <1>2, <2>1, <2>2, <2>4, <3>1 DEF UpdInv, UpdKnows, HoldsLock, Preparing
    <3>2. CASE v # u
      <4>1. ~HoldsLock(v)
        BY <1>2, <3>2, OnePreparing DEF HoldsLock, Preparing
      <4> QED
        BY <1>2, <2>1, <2>4, <3>2, <4>1, KnowsStays DEF HoldsLock
    <3> QED
      BY <3>1, <3>2
  <2>8. RunningWorktreesKept'
    BY <1>2, <2>2, <2>4 DEF UpdInv, RunningWorktreesKept
  <2>9. branch # None => ~(Cardinality(Ahead(branch, base)) > 1)
    <3> SUFFICES ASSUME branch # None PROVE ~(Cardinality(Ahead(branch, base)) > 1)
      OBVIOUS
    <3>1. up[u].tip.merged \subseteq base.merged /\ ~(Cardinality(Ahead(branch, up[u].tip)) > 1)
          /\ IsFiniteSet(branch.fixes)
      BY <1>2, <1>4 DEF UpdInv, UpdKnows, UpdRepoInv
    <3>2. IsFiniteSet({branch.rev} \cup branch.fixes)
      BY <3>1, FS_AddElement
    <3>3. IsFiniteSet(Ahead(branch, up[u].tip))
      BY <3>2, FS_Subset DEF Ahead
    <3>4. Ahead(branch, base) \subseteq Ahead(branch, up[u].tip)
      BY <3>1 DEF Ahead
    <3> QED
      BY <3>1, <3>3, <3>4, FS_Subset, FS_CardinalityType
  <2>10. UpdStepSafe
    BY <1>2, <2>9 DEF UpdStepSafe
  <2> QED
    BY <2>5, <2>6, <2>7, <2>8, <2>10 DEF UpdInv
<1> QED
  BY <1>3, <1>4

LEMMA PushBranchStep ==
  ASSUME UpdInv, NEW u \in Publishers, PushBranch(u) PROVE UpdInv' /\ UpdStepSafe
<1> DEFINE r == [Idle EXCEPT !.pc = "settle"]
<1>1. /\ u \in Updaters /\ up \in [Updaters -> UpdRecords] /\ lock \in Updaters \cup {None}
      /\ worktrees \subseteq Worktree /\ branch \in Commit \cup {None}
  BY DEF Updaters, UpdInv, UpdTyped, UpdTypeOK
<1>2. up[u].pc = "push" /\ UNCHANGED <<newest, base, branch, checkout, passed>>
      /\ UNCHANGED <<failure, lock, worktrees, push>>
  BY DEF PushBranch
<1>3. CASE remote # up[u].seen
  BY <1>1, <1>2, <1>3, UpdRecordTyped, IdleKnows, ProcessStep DEF PushBranch, updRepo, Idle
<1>4. CASE remote = up[u].seen
  <2>1. up' = [up EXCEPT ![u] = r] /\ remote' = branch
        /\ updatePull' = (IF updatePull = None
                     THEN [head |-> branch, checks |-> "pending", auto |-> FALSE]
                     ELSE IF remote = branch THEN updatePull ELSE Moved(branch))
    BY <1>4 DEF PushBranch
  <2>2. branch # None /\ branch \in Commit
    BY <1>1, <1>2 DEF UpdInv, UpdKnows
  <2>3. r \in UpdRecords
    BY DEF Idle, UpdRecords, UpdPcs
  <2>4. updatePull' \in UpdPulls /\ updatePull'.head = branch
        /\ (updatePull'.checks = "passing" => updatePull'.head \in passed)
    <3>1. CASE updatePull = None
      BY <2>1, <2>2, <3>1 DEF UpdPulls
    <3>2. CASE updatePull # None /\ remote = branch
      BY <2>1, <2>2, <3>2 DEF UpdInv, UpdTyped, UpdRepoInv
    <3>3. CASE updatePull # None /\ remote # branch
      BY <2>1, <2>2, <3>3 DEF UpdInv, UpdTyped, UpdPulls, Moved
    <3> QED
      BY <3>1, <3>2, <3>3
  <2>5. up' \in [Updaters -> UpdRecords] /\ up'[u] = r /\ \A v \in Updaters \ {u} : up'[v] = up[v]
    BY <1>1, <2>1, <2>3
  <2>6. UpdTyped'
    BY <1>2, <2>1, <2>2, <2>4, <2>5 DEF UpdInv, UpdTyped, UpdTypeOK
  <2>7. UpdRepoInv'
    BY <1>2, <2>1, <2>2, <2>4 DEF UpdInv, UpdRepoInv
  <2>8. ASSUME NEW v \in Updaters PROVE UpdKnows(v)'
    <3>1. CASE v = u
      BY <1>2, <2>5, <3>1 DEF UpdKnows, HoldsLock, Preparing, Idle
    <3>2. CASE v # u
      BY <1>2, <2>5, <3>2, KnowsStays
    <3> QED
      BY <3>1, <3>2
  <2>9. RunningWorktreesKept'
    BY <1>2, <2>5 DEF UpdInv, RunningWorktreesKept, Idle
  <2>10. UpdStepSafe
    BY <1>1, <1>2, <1>4 DEF UpdStepSafe, UpdInv, UpdKnows
  <2> QED
    BY <2>6, <2>7, <2>8, <2>9, <2>10 DEF UpdInv
<1> QED
  BY <1>3, <1>4

\* What GitHub lands is the head on the remote, so its fixes are in the base.
LEMMA LandHeadStep ==
  ASSUME UpdInv, updatePull # None, updatePull.head \in passed, LandHead(updatePull.head),
         up' \in [Updaters -> UpdRecords],
         \A v \in Updaters : up'[v] = up[v] \/ up'[v] = Idle,
         UNCHANGED <<newest, branch, checkout, passed, failure, lock, worktrees, push>>
  PROVE  UpdInv' /\ UpdStepSafe
<1> DEFINE h == updatePull.head
<1>1. h \in Commit /\ h = remote /\ base \in Base
  BY DEF UpdInv, UpdTyped, UpdTypeOK, UpdRepoInv, UpdPulls
<1>2. base' \in Base /\ base.merged \subseteq base'.merged /\ h.fixes \subseteq base'.merged
  BY <1>1, UpdateConstants DEF LandHead, Base, Commit
<1>3. updatePull' = None /\ remote' \in {remote, None}
  BY DEF LandHead
<1>4. UpdTyped'
  BY <1>2, <1>3 DEF UpdInv, UpdTyped, UpdTypeOK
<1>5. UpdRepoInv'
  BY <1>3 DEF UpdInv, UpdRepoInv
<1>6. (\A v \in Updaters : UpdKnows(v)') /\ RunningWorktreesKept'
  BY <1>2, WorldStep DEF UpdInv, UpdTyped, UpdTypeOK, RunningWorktreesKept
<1>7. UpdStepSafe
  BY <1>1, <1>2 DEF UpdStepSafe
<1> QED
  BY <1>4, <1>5, <1>6, <1>7 DEF UpdInv

LEMMA MergeHeadStep ==
  ASSUME UpdInv, NEW u \in Publishers, MergeHead(u) PROVE UpdInv' /\ UpdStepSafe
<1>1. u \in Updaters /\ up \in [Updaters -> UpdRecords] /\ Idle \in UpdRecords
  BY UpdRecordTyped DEF Updaters, UpdInv, UpdTyped
<1>2. /\ up' = [up EXCEPT ![u] = Idle] /\ up[u].pc = "merge"
      /\ UNCHANGED <<newest, branch, checkout, passed, failure, lock, worktrees, push>>
  BY DEF MergeHead
<1>3. up' \in [Updaters -> UpdRecords] /\ \A v \in Updaters : up'[v] = up[v] \/ up'[v] = Idle
  BY <1>1, <1>2
<1>4. CASE updatePull # None /\ updatePull.head = up[u].built /\ LandHead(updatePull.head)
  BY <1>1, <1>2, <1>3, <1>4, LandHeadStep DEF UpdInv, UpdKnows
<1>5. CASE /\ \/ updatePull' = updatePull
              \/ updatePull # None /\ updatePull' = [updatePull EXCEPT !.auto = TRUE]
           /\ UNCHANGED <<base, remote>>
  <2>1. UpdTyped'
    BY <1>2, <1>3, <1>5 DEF UpdInv, UpdTyped, UpdTypeOK, UpdPulls
  <2>2. UpdRepoInv'
    BY <1>2, <1>5 DEF UpdInv, UpdTyped, UpdRepoInv, UpdPulls
  <2>3. (\A v \in Updaters : UpdKnows(v)') /\ RunningWorktreesKept'
    BY <1>2, <1>3, <1>5, WorldStep DEF UpdInv, UpdTyped, UpdTypeOK, RunningWorktreesKept
  <2>4. UpdStepSafe
    BY <1>2, <1>5 DEF UpdStepSafe
  <2> QED
    BY <2>1, <2>2, <2>3, <2>4 DEF UpdInv
<1>6. CASE updatePull = None \/ updatePull.head # up[u].built
  <2>1. UNCHANGED <<base, updatePull, remote>>
    BY <1>6, Zenon DEF MergeHead
  <2> QED
    BY <1>5, <2>1
<1>7. CASE ~(updatePull = None \/ updatePull.head # up[u].built)
  <2>1. \/ LandHead(updatePull.head)
        \/ updatePull' = [updatePull EXCEPT !.auto = TRUE] /\ UNCHANGED <<base, remote>>
    BY <1>7, Zenon DEF MergeHead
  <2> QED
    BY <1>4, <1>5, <1>7, <2>1
<1> QED
  BY <1>6, <1>7

\* The steps of pushes, of people and of GitHub.
LEMMA PushSnapshotStep ==
  ASSUME UpdInv, NEW p \in Pushers, PushStarts(p) \/ PushEnds(p) PROVE UpdInv' /\ UpdStepSafe
<1> DEFINE mine == [kind |-> "push", owner |-> p, live |-> TRUE]
<1>1. /\ worktrees \subseteq Worktree /\ push \in [Pushers -> {"idle", "checking"}]
      /\ up \in [Updaters -> UpdRecords]
  BY DEF UpdInv, UpdTyped, UpdTypeOK
<1>2. UNCHANGED <<updRepo, failure, lock, up>>
  BY DEF PushStarts, PushEnds
<1>3. /\ worktrees' \subseteq Worktree /\ push' \in [Pushers -> {"idle", "checking"}]
      /\ \A w \in worktrees : w.owner # p => w \in worktrees'
      /\ \A q \in Pushers : push'[q] = "checking" => (q = p /\ mine \in worktrees')
           \/ (q # p /\ push[q] = "checking")
  <2>1. CASE PushStarts(p)
    <3>1. mine \in Worktree
      BY DEF Worktree
    <3> QED
      BY <1>1, <2>1, <3>1 DEF PushStarts
  <2>2. CASE PushEnds(p)
    <3> DEFINE left(w) == IF w.owner = p THEN [w EXCEPT !.live = FALSE] ELSE w
    <3>1. /\ push' = [push EXCEPT ![p] = "idle"]
          /\ \/ worktrees' = {w \in worktrees : w.owner # p}
             \/ worktrees' = {left(w) : w \in worktrees}
      BY <2>2 DEF PushEnds, Orphaned
    <3>2. \A w \in Worktree : left(w) \in Worktree
      BY DEF Worktree
    <3>3. \A w \in worktrees : w.owner # p => left(w) = w
      OBVIOUS
    <3> HIDE DEF left
    <3>4. worktrees' \subseteq Worktree
      BY <1>1, <3>1, <3>2
    <3>5. \A w \in worktrees : w.owner # p => w \in worktrees'
      BY <3>1, <3>3
    <3> QED
      BY <1>1, <3>1, <3>4, <3>5
  <2> QED
    BY <2>1, <2>2
<1>4. UpdTyped' /\ UpdRepoInv' /\ UpdStepSafe
  BY <1>2, <1>3 DEF UpdInv, UpdTyped, UpdTypeOK, UpdRepoInv, UpdStepSafe, updRepo
<1>5. \A v \in Updaters : UpdKnows(v)'
  BY <1>2, KnowsStays DEF updRepo
<1>6. RunningWorktreesKept'
  <2>1. ASSUME NEW v \in Updaters, up'[v].pc = "build" PROVE Candidate(v) \in worktrees'
    BY <1>2, <1>3, <2>1, UpdateConstants DEF UpdInv, RunningWorktreesKept, Candidate
  <2>2. ASSUME NEW q \in Pushers, push'[q] = "checking"
        PROVE  [kind |-> "push", owner |-> q, live |-> TRUE] \in worktrees'
    BY <1>3, <2>2 DEF UpdInv, RunningWorktreesKept
  <2> QED
    BY <2>1, <2>2 DEF RunningWorktreesKept
<1> QED
  BY <1>4, <1>5, <1>6 DEF UpdInv

LEMMA PersonStep ==
  ASSUME UpdInv, Person PROVE UpdInv' /\ UpdStepSafe
<1>1. UNCHANGED <<newest, base, remote, updatePull, passed, failure, lock, worktrees, push, up>>
  BY DEF Person
<1>2. CASE branch' = branch /\ (checkout' # "none" => branch # None)
           /\ checkout' \in {"none", "clean", "dirty"}
  <2>1. UpdTyped' /\ UpdRepoInv' /\ UpdStepSafe
    BY <1>1, <1>2 DEF UpdInv, UpdTyped, UpdTypeOK, UpdRepoInv, UpdStepSafe
  <2>2. (\A v \in Updaters : UpdKnows(v)') /\ RunningWorktreesKept'
    BY <1>1, <1>2, WorldStep DEF UpdInv, UpdTyped, UpdTypeOK, RunningWorktreesKept
  <2> QED
    BY <2>1, <2>2 DEF UpdInv
<1>3. CASE CommitFix
  <2>1. branch \in Commit /\ branch # None /\ checkout' = "clean"
    BY <1>3 DEF CommitFix, UpdInv, UpdTyped, UpdTypeOK, UpdRepoInv
  <2>2. PICK f \in OwnFixes \ branch.fixes : branch' = [branch EXCEPT !.fixes = branch.fixes \cup {f}]
    BY <1>3 DEF CommitFix
  <2>3. branch' \in Commit /\ branch'.fixes = branch.fixes \cup {f} /\ branch' # None
    BY <2>1, <2>2, UpdateConstants DEF Commit, Fixes
  <2>4. BranchGrows
    BY <2>1, <2>2, <2>3 DEF BranchGrows
  <2>5. UpdTyped' /\ UpdStepSafe
    BY <1>1, <2>1, <2>3 DEF UpdInv, UpdTyped, UpdTypeOK, UpdStepSafe
  <2>6. branch'.fixes \subseteq OwnFixes /\ IsFiniteSet(branch'.fixes)
    BY <2>1, <2>2, <2>3, FS_AddElement DEF UpdInv, UpdRepoInv
  <2>7. UpdRepoInv'
    BY <1>1, <2>3, <2>6 DEF UpdInv, UpdRepoInv
  <2>8. (\A v \in Updaters : UpdKnows(v)') /\ RunningWorktreesKept'
    BY <1>1, <2>4, WorldStep DEF UpdInv, UpdTyped, UpdTypeOK, RunningWorktreesKept
  <2> QED
    BY <2>5, <2>7, <2>8 DEF UpdInv
<1> QED
  BY <1>2, <1>3 DEF Person, OpenCheckout, EditCheckout, CloseCheckout, UpdInv, UpdRepoInv

LEMMA TeammateFixStep ==
  ASSUME UpdInv, TeammateFix PROVE UpdInv' /\ UpdStepSafe
<1>1. UNCHANGED <<newest, base, branch, checkout, passed, failure, lock, worktrees, push, up>>
      /\ remote # None /\ remote \in Commit
  BY DEF TeammateFix, UpdInv, UpdTyped, UpdTypeOK
<1>2. PICK f \in TeamFixes : remote' = [remote EXCEPT !.fixes = remote.fixes \cup {f}]
                             /\ updatePull' = Moved(remote')
  BY DEF TeammateFix
<1>3. remote' \in Commit /\ remote' # None /\ remote'.fixes = remote.fixes \cup {f}
  BY <1>1, <1>2, UpdateConstants DEF Commit, Fixes
<1>4. CASE updatePull = None
  <2>1. updatePull' = None
    BY <1>2, <1>4 DEF Moved
  <2> QED
    BY <1>1, <1>3, <2>1, WorldStep DEF UpdInv, UpdTyped, UpdTypeOK, UpdRepoInv, UpdStepSafe,
       RunningWorktreesKept
<1>5. CASE updatePull # None
  <2>1. updatePull' \in UpdPulls /\ updatePull'.head = remote' /\ updatePull'.checks = "pending"
    BY <1>2, <1>3, <1>5 DEF Moved, UpdInv, UpdTyped, UpdPulls
  <2>2. UpdTyped' /\ UpdRepoInv' /\ UpdStepSafe
    BY <1>1, <1>3, <2>1 DEF UpdInv, UpdTyped, UpdTypeOK, UpdRepoInv, UpdStepSafe
  <2>3. (\A v \in Updaters : UpdKnows(v)') /\ RunningWorktreesKept'
    BY <1>1, WorldStep DEF UpdInv, UpdTyped, UpdTypeOK, RunningWorktreesKept
  <2> QED
    BY <2>2, <2>3 DEF UpdInv
<1> QED
  BY <1>4, <1>5

LEMMA UpstreamStep ==
  ASSUME UpdInv, Release \/ OtherWorkLands \/ FailureExpires \/ ChecksEnd
  PROVE  UpdInv' /\ UpdStepSafe
<1>1. UNCHANGED <<branch, checkout, remote, lock, worktrees, push, up>>
  BY DEF Release, OtherWorkLands, FailureExpires, ChecksEnd, updRepo
<1>2. /\ newest' \in Revs /\ base' \in Base /\ base'.merged = base.merged
      /\ passed \subseteq passed'
      /\ updatePull' \in UpdPulls \cup {None}
      /\ updatePull' # None => updatePull # None /\ updatePull'.head = updatePull.head
      /\ updatePull' # None /\ updatePull'.checks = "passing" =>
           updatePull.checks = "passing" \/ updatePull.head \in passed'
  <2>1. CASE Release
    BY <2>1, UpdateConstants DEF Release, UpdInv, UpdTyped, UpdTypeOK, Revs
  <2>2. CASE OtherWorkLands
    BY <2>2, UpdateConstants DEF OtherWorkLands, UpdInv, UpdTyped, UpdTypeOK, Base
  <2>3. CASE FailureExpires
    BY <2>3 DEF FailureExpires, UpdInv, UpdTyped, UpdTypeOK, updRepo
  <2>4. CASE ChecksEnd
    BY <2>4 DEF ChecksEnd, UpdInv, UpdTyped, UpdTypeOK, UpdPulls
  <2> QED
    BY <2>1, <2>2, <2>3, <2>4
<1>3. UpdTyped' /\ UpdRepoInv' /\ UpdStepSafe
  BY <1>1, <1>2 DEF UpdInv, UpdTyped, UpdTypeOK, UpdRepoInv, UpdStepSafe
<1>4. (\A v \in Updaters : UpdKnows(v)') /\ RunningWorktreesKept'
  BY <1>1, <1>2, WorldStep DEF UpdInv, UpdTyped, UpdTypeOK, RunningWorktreesKept
<1> QED
  BY <1>3, <1>4 DEF UpdInv

LEMMA AutoMergeStep ==
  ASSUME UpdInv, AutoMerge PROVE UpdInv' /\ UpdStepSafe
BY LandHeadStep DEF AutoMerge, UpdInv, UpdTyped, UpdRepoInv

LEMMA UpdStepInv == UpdInv /\ [UpdNext]_updVars => UpdInv' /\ UpdStepSafe
<1> SUFFICES ASSUME UpdInv, [UpdNext]_updVars PROVE UpdInv' /\ UpdStepSafe
  OBVIOUS
<1>1. CASE UNCHANGED updVars
  <2>1. UpdTyped' /\ UpdRepoInv' /\ UpdStepSafe
    BY <1>1 DEF UpdInv, UpdTyped, UpdTypeOK, UpdRepoInv, Ahead, UpdStepSafe, updVars, updRepo
  <2>2. (\A u \in Updaters : UpdKnows(u)') /\ RunningWorktreesKept'
    BY <1>1 DEF UpdInv, UpdKnows, HoldsLock, Preparing, Ahead, RunningWorktreesKept, updVars,
       updRepo, Candidate
  <2> QED
    BY <2>1, <2>2 DEF UpdInv
<1>2. CASE Around
  BY <1>2, KillSupervisorStep, KillWorkerStep, PushSnapshotStep, PersonStep, TeammateFixStep,
     UpstreamStep DEF Around
<1>3. CASE Work
  <2>1. ASSUME NEW u \in Sessions, StartUpdate(u) \/ Supervise(u) PROVE UpdInv' /\ UpdStepSafe
    BY <2>1, StartUpdateStep, SuperviseStep
  <2>2. ASSUME NEW u \in Publishers, Decide(u) \/ PublishStep(u) PROVE UpdInv' /\ UpdStepSafe
    <3>1. u \in Updaters
      BY DEF Updaters
    <3> QED
      BY <2>2, <3>1, DecideStep, ResumeStep, LeaseRemoteStep, PushBranchStep, SettleStep,
         MergeHeadStep DEF PublishStep
  <2>3. ASSUME NEW u \in Updaters, WorkerStep(u) PROVE UpdInv' /\ UpdStepSafe
    BY <2>3, FetchBaseStep, InspectStep, BuildStep, LandStep, SwapBranchStep DEF WorkerStep
  <2> QED
    BY <1>3, <2>1, <2>2, <2>3, PushSnapshotStep, UpstreamStep, AutoMergeStep DEF Work
<1> QED
  BY <1>1, <1>2, <1>3 DEF UpdNext

\* One update prepares at a time in worktrees nobody sweeps, no fix of a person or of a
\* teammate is overwritten, and only heads whose checks were green land, for any number
\* of sessions, update-pr processes, pushes, releases and kills.
THEOREM UpdateStaysSafe == UpdSpec => UpdateSafe
<1>1. UpdSpec => []UpdInv
  BY UpdInitInv, UpdStepInv, PTL DEF UpdSpec
<1>2. UpdInv => OneUpdatePreparing /\ RunningWorktreesKept
  BY OnePreparing DEF UpdInv, OneUpdatePreparing, HoldsLock
<1>3. UpdSpec => [][UpdStepSafe]_updVars
  BY <1>1, UpdStepInv, PTL DEF UpdSpec
<1>4. [UpdStepSafe]_updVars =>
        [branch # None /\ Cardinality(Ahead(branch, base)) > 1 =>
           /\ branch' # None
           /\ branch.fixes \subseteq branch'.fixes \cup base'.merged]_updVars
  BY DEF UpdStepSafe
<1>5. [UpdStepSafe]_updVars =>
        [remote # None => \A f \in remote.fixes \cap TeamFixes :
           f \in base'.merged \/ (remote' # None /\ f \in remote'.fixes)]_updVars
  BY DEF UpdStepSafe
<1>6. [UpdStepSafe]_updVars =>
        [base'.merged # base.merged => updatePull # None /\ updatePull.head \in passed]_updVars
  BY DEF UpdStepSafe
<1>7. UpdSpec => LocalFixesKept
  BY <1>3, <1>4, PTL DEF LocalFixesKept
<1>8. UpdSpec => RemoteFixesKept
  BY <1>3, <1>5, PTL DEF RemoteFixesKept
<1>9. UpdSpec => OnlyGreenHeadsLand
  BY <1>3, <1>6, PTL DEF OnlyGreenHeadsLand
<1> QED
  BY <1>1, <1>2, <1>7, <1>8, <1>9, PTL DEF UpdateSafe

\* The variables hold values of the program.
THEOREM UpdateTyping == UpdSpec => []UpdTypeOK
<1>1. UpdInv => UpdTypeOK
  BY DEF UpdInv, UpdTyped
<1> QED
  BY <1>1, UpdInitInv, UpdStepInv, PTL DEF UpdSpec

-----------------------------------------------------------------------------
(* The tool servers.  What a setup writes is the target it worked out, and  *)
(* with it written the target works out the same: that is why it settles.   *)

LEMMA McpFileTypes ==
  ASSUME NEW f \in McpFiles
  PROVE  /\ f \in [ServerNames -> McpEntries \cup {NoEntry}]
         /\ f["appwrite"] \in {"cloud", "launcher", "launcher+env", "legacy", "custom", NoEntry}
         /\ f["sentry"] \in {"cloud", "org", "launcher", "launcher+env", "custom", NoEntry}
         /\ f["mine"] \in {"custom", NoEntry} /\ f["old"] \in {"retired", NoEntry}
<1>1. /\ f \in [ServerNames -> McpEntries \cup {NoEntry}]
      /\ \A n \in ServerNames : f[n] \in WrittenEntries[n] \cup {NoEntry}
  BY DEF McpFiles, McpEntries
<1>2. {"appwrite", "sentry", "mine", "old"} \subseteq ServerNames
  BY DEF ServerNames, Services
<1>3. /\ WrittenEntries["appwrite"] = {"cloud", "launcher", "launcher+env", "legacy", "custom"}
      /\ WrittenEntries["sentry"] = {"cloud", "org", "launcher", "launcher+env", "custom"}
      /\ WrittenEntries["mine"] = {"custom"} /\ WrittenEntries["old"] = {"retired"}
  BY <1>2 DEF WrittenEntries
<1> QED
  BY <1>1, <1>2, <1>3

LEMMA NoEntryApart ==
  /\ NoEntry \notin {"cloud", "org", "launcher", "launcher+env", "legacy", "custom", "retired"}
  /\ NoEntry # Refused
<1>1. {"appwrite", "sentry", "mine", "old"} \subseteq ServerNames
  BY DEF ServerNames, Services
<1>2. \A n \in ServerNames : NoEntry \notin WrittenEntries[n]
  BY McpConstants DEF McpEntries
<1> QED
  BY <1>1, <1>2, McpConstants DEF WrittenEntries, McpEntries

\* What a file holds of a service after a setup.
LEMMA Written ==
  ASSUME NEW f \in McpFiles, NEW n \in ServerNames
  PROVE  WithServers(f)[n] = IF f[n] = NoEntry THEN DetectedServers[n]
                             ELSE IF f[n] = "retired" THEN NoEntry ELSE f[n]
BY DEF WithServers, RetireServers, RetiredServer

LEMMA Detected ==
  /\ "appwrite" \in mcpEnv.uses => DetectedServers["appwrite"] = AppwriteServer
  /\ "sentry" \in mcpEnv.uses => DetectedServers["sentry"] = SentryServer
  /\ \A n \in ServerNames :
       n \notin {"appwrite", "sentry"} \/ n \notin mcpEnv.uses => DetectedServers[n] = NoEntry
BY DEF DetectedServers, ServerNames, Services

\* The parts of appwrite_server and sentry_server, for any set of existing entries.
AppwriteOf(existing) ==
  LET named == ({mcpEnv.endpoint} \ {NoEntry})
                 \cup (IF "launcher+env" \in existing THEN {"self"} ELSE {})
      cloud == IF named = {} THEN "cloud" \in existing ELSE "cloud" \in named
      own == Scripted("appwrite") /\ existing \cap OwnLauncher # {}
      conflict == \/ Cardinality(named) > 1
                  \/ cloud /\ (own \/ "legacy" \in existing)
                  \/ ~cloud /\ ("cloud" \in existing \/ "legacy" \in existing)
                  \/ own /\ "launcher+env" \in existing
  IN  CASE conflict                           -> Refused
        [] ~conflict /\ cloud                 -> "cloud"
        [] ~conflict /\ ~cloud /\ Scripted("appwrite") -> "launcher"
        [] OTHER                              -> NoEntry

SentryTargets(existing) ==
  {IF e \in OwnLauncher THEN "launcher" ELSE e : e \in existing} \cup ({mcpEnv.url} \ {NoEntry})
SentryOf(existing) ==
  LET targets == SentryTargets(existing)
      it == CHOOSE t \in targets : TRUE
      conflict == \/ Cardinality(targets) > 1
                  \/ targets # {} /\ it \in Hosted /\ mcpEnv.host = "self"
                  \/ targets = {"launcher"} /\ Scripted("sentry") /\ "launcher+env" \in existing
  IN  CASE conflict                                   -> Refused
        [] ~conflict /\ targets # {} /\ it \in Hosted -> it
        [] ~conflict /\ targets = {"launcher"} /\ Scripted("sentry") -> "launcher"
        [] ~conflict /\ targets = {} /\ Scripted("sentry") /\ mcpEnv.host # "cloud" -> "launcher"
        [] OTHER                                      -> NoEntry

LEMMA ServersOf ==
  AppwriteServer = AppwriteOf(Existing("appwrite")) /\ SentryServer = SentryOf(Existing("sentry"))
BY DEF AppwriteServer, SentryServer, AppwriteOf, SentryOf, SentryTargets, NamedEndpoints

\* Written beside what was there, the target is worked out the same again.
LEMMA AppwriteSettles ==
  ASSUME NEW existing, AppwriteOf(existing) \notin {Refused, NoEntry}
  PROVE  AppwriteOf(existing \cup {AppwriteOf(existing)}) = AppwriteOf(existing)
<1> DEFINE named(x) == ({mcpEnv.endpoint} \ {NoEntry})
                         \cup (IF "launcher+env" \in x THEN {"self"} ELSE {})
           cloud(x) == IF named(x) = {} THEN "cloud" \in x ELSE "cloud" \in named(x)
           own(x) == Scripted("appwrite") /\ x \cap OwnLauncher # {}
           conflict(x) ==
                  \/ Cardinality(named(x)) > 1
                  \/ cloud(x) /\ (own(x) \/ "legacy" \in x)
                  \/ ~cloud(x) /\ ("cloud" \in x \/ "legacy" \in x)
                  \/ own(x) /\ "launcher+env" \in x
           more == existing \cup {AppwriteOf(existing)}
<1>1. /\ ~conflict(existing)
      /\ \/ cloud(existing) /\ AppwriteOf(existing) = "cloud"
         \/ ~cloud(existing) /\ Scripted("appwrite") /\ AppwriteOf(existing) = "launcher"
  BY DEF AppwriteOf
<1>2. named(more) = named(existing)
  BY <1>1
<1>3. cloud(more) = cloud(existing)
  BY <1>1, <1>2
<1>4. ~conflict(more)
  <2>1. ~(Cardinality(named(more)) > 1)
    BY <1>1, <1>2
  <2>2. own(more) => own(existing) \/ AppwriteOf(existing) = "launcher"
    BY <1>1 DEF OwnLauncher
  <2>3. "launcher+env" \in existing /\ Scripted("appwrite") => own(existing)
    <3>1. "launcher+env" \in OwnLauncher
      BY DEF OwnLauncher
    <3> QED
      BY <3>1
  <2> QED
    BY <1>1, <1>3, <2>1, <2>2, <2>3
<1>5. CASE cloud(existing) /\ AppwriteOf(existing) = "cloud"
  <2>1. AppwriteOf(more) = "cloud"
    BY <1>3, <1>4, <1>5, Zenon DEF AppwriteOf
  <2> HIDE DEF named, cloud, own, conflict
  <2> QED
    BY <1>5, <2>1
<1>6. CASE ~cloud(existing) /\ Scripted("appwrite") /\ AppwriteOf(existing) = "launcher"
  <2>1. AppwriteOf(more) = "launcher"
    BY <1>3, <1>4, <1>6, Zenon DEF AppwriteOf
  <2> HIDE DEF named, cloud, own, conflict
  <2> QED
    BY <1>6, <2>1
<1> QED
  BY <1>1, <1>5, <1>6

LEMMA SentrySettles ==
  ASSUME NEW existing, SentryOf(existing) \notin {Refused, NoEntry}
  PROVE  SentryOf(existing \cup {SentryOf(existing)}) = SentryOf(existing)
<1> DEFINE it(x) == CHOOSE t \in SentryTargets(x) : TRUE
           conflict(x) ==
                  \/ Cardinality(SentryTargets(x)) > 1
                  \/ SentryTargets(x) # {} /\ it(x) \in Hosted /\ mcpEnv.host = "self"
                  \/ SentryTargets(x) = {"launcher"} /\ Scripted("sentry") /\ "launcher+env" \in x
           entry == SentryOf(existing)
           more == existing \cup {entry}
<1>1. /\ ~conflict(existing)
      /\ \/ SentryTargets(existing) # {} /\ it(existing) \in Hosted /\ entry = it(existing)
         \/ /\ SentryTargets(existing) = {"launcher"} /\ Scripted("sentry")
            /\ it(existing) \notin Hosted /\ entry = "launcher"
         \/ /\ SentryTargets(existing) = {} /\ Scripted("sentry") /\ mcpEnv.host # "cloud"
            /\ entry = "launcher"
  BY DEF SentryOf
<1>2. SentryTargets(more) = SentryTargets(existing)
          \cup {IF entry \in OwnLauncher THEN "launcher" ELSE entry}
  BY DEF SentryTargets
<1>3. CASE SentryTargets(existing) # {} /\ it(existing) \in Hosted /\ entry = it(existing)
  <2>1. it(existing) \in SentryTargets(existing)
    BY <1>3
  <2>2. entry \notin OwnLauncher /\ entry # "launcher+env"
    BY <1>3 DEF Hosted, OwnLauncher
  <2>3. SentryTargets(more) = SentryTargets(existing)
    BY <1>2, <1>3, <2>1, <2>2
  <2>4. it(more) = it(existing)
    BY <2>3
  <2>5. "launcher+env" \in more => "launcher+env" \in existing
    BY <2>2
  <2>6. ~conflict(more)
    BY <1>1, <2>3, <2>4, <2>5
  <2>7. SentryOf(more) = it(more)
    BY <1>3, <2>3, <2>4, <2>6, Zenon DEF SentryOf
  <2> QED
    BY <1>3, <2>4, <2>7
<1>4. CASE entry = "launcher" /\ Scripted("sentry")
           /\ SentryTargets(existing) \subseteq {"launcher"}
  <2>1. SentryTargets(more) = {"launcher"}
    BY <1>2, <1>4 DEF OwnLauncher
  <2>2. Cardinality({"launcher"}) = 1 /\ it(more) = "launcher" /\ "launcher" \notin Hosted
    BY <2>1, FS_Singleton DEF Hosted
  <2>3. "launcher+env" \notin more
    <3>1. "launcher+env" \in existing => SentryTargets(existing) = {"launcher"}
      BY <1>4 DEF SentryTargets, OwnLauncher
    <3> QED
      BY <1>1, <1>4, <3>1
  <2>4. ~conflict(more)
    BY <2>1, <2>2, <2>3
  <2>6. SentryOf(more) = "launcher"
    BY <1>4, <2>1, <2>2, <2>4, Zenon DEF SentryOf
  <2> QED
    BY <1>4, <2>6
<1> QED
  BY <1>1, <1>3, <1>4

LEMMA SameEnvironment ==
  ASSUME mcpEnv' = mcpEnv, NEW x
  PROVE  AppwriteOf(x)' = AppwriteOf(x) /\ SentryOf(x)' = SentryOf(x)
<1>1. AppwriteOf(x)' = AppwriteOf(x)
  BY DEF AppwriteOf, Scripted
<1>2. SentryOf(x)' = SentryOf(x)
  BY DEF SentryOf, SentryTargets, Scripted
<1> QED
  BY <1>1, <1>2

\* What is known of a service after a setup: what was, and what the setup wrote.
LEMMA ExistingAfter ==
  ASSUME McpTypeOK, ConfigureMcp, McpAccepted, NEW s \in Services
  PROVE  \/ Existing(s)' = Existing(s)
         \/ DetectedServers[s] # NoEntry /\ Existing(s)' = Existing(s) \cup {DetectedServers[s]}
<1> DEFINE d == DetectedServers[s]
<1>1. s \in ServerNames /\ d # Refused /\ {claude[s], codex[s], copilot[s]} \cap {"retired"} = {}
  BY McpFileTypes, NoEntryApart DEF McpTypeOK, McpAccepted, ServerNames, Services
<1>2. /\ claude'[s] = IF claude[s] = NoEntry THEN d ELSE claude[s]
      /\ codex'[s] = IF codex[s] = NoEntry THEN d ELSE codex[s]
      /\ copilot'[s] = NoEntry
  <2>1. claude' = WithServers(claude) /\ codex' = WithServers(codex) /\ copilot' = NoServers
    BY DEF ConfigureMcp
  <2>2. claude \in McpFiles /\ codex \in McpFiles
    BY DEF McpTypeOK
  <2>3. claude[s] # "retired" /\ codex[s] # "retired"
    BY <1>1
  <2>4. /\ WithServers(claude)[s] = IF claude[s] = NoEntry THEN d ELSE claude[s]
        /\ WithServers(codex)[s] = IF codex[s] = NoEntry THEN d ELSE codex[s]
    BY <1>1, <2>2, <2>3, Written
  <2> QED
    BY <1>1, <2>1, <2>4 DEF NoServers
<1>3. copilot[s] \in {NoEntry, claude'[s], codex'[s]}
  BY <1>1 DEF McpAccepted, CopilotPreserved, RetiredServer, KeptServer, ConfigureMcp
<1> HIDE DEF d
<1>4. CASE d = NoEntry
  BY <1>2, <1>3, <1>4 DEF Existing
<1>5. CASE d # NoEntry
  BY <1>2, <1>3, <1>5 DEF Existing, d
<1> QED
  BY <1>4, <1>5

LEMMA DetectedSettles ==
  ASSUME McpTypeOK, ConfigureMcp, McpAccepted
  PROVE  DetectedServers' = DetectedServers
<1>1. mcpEnv' = mcpEnv
  BY DEF ConfigureMcp
<1>2. AppwriteServer # Refused /\ "appwrite" \in mcpEnv.uses => AppwriteServer' = AppwriteServer
  <2> SUFFICES ASSUME AppwriteServer # Refused, "appwrite" \in mcpEnv.uses
               PROVE  AppwriteServer' = AppwriteServer
    OBVIOUS
  <2>1. PICK x : x = Existing("appwrite")'
    OBVIOUS
  <2>2. AppwriteServer' = AppwriteOf(x)
    BY <1>1, <2>1 DEF AppwriteServer, AppwriteOf, NamedEndpoints, Scripted
  <2>3. DetectedServers["appwrite"] = AppwriteServer
    BY Detected
  <2>4. "appwrite" \in Services
    BY DEF Services
  <2>5. \/ x = Existing("appwrite")
        \/ AppwriteServer # NoEntry /\ x = Existing("appwrite") \cup {AppwriteServer}
    BY <2>1, <2>3, <2>4, ExistingAfter
  <2> QED
    BY <2>2, <2>5, ServersOf, AppwriteSettles
<1>3. SentryServer # Refused /\ "sentry" \in mcpEnv.uses => SentryServer' = SentryServer
  <2> SUFFICES ASSUME SentryServer # Refused, "sentry" \in mcpEnv.uses
               PROVE  SentryServer' = SentryServer
    OBVIOUS
  <2>1. PICK x : x = Existing("sentry")'
    OBVIOUS
  <2>2. SentryServer' = SentryOf(x)
    BY <1>1, <2>1 DEF SentryServer, SentryOf, SentryTargets, Scripted
  <2>3. DetectedServers["sentry"] = SentryServer
    BY Detected
  <2>4. "sentry" \in Services
    BY DEF Services
  <2>5. \/ x = Existing("sentry")
        \/ SentryServer # NoEntry /\ x = Existing("sentry") \cup {SentryServer}
    BY <2>1, <2>3, <2>4, ExistingAfter
  <2> QED
    BY <2>2, <2>5, ServersOf, SentrySettles
<1>4. \A n \in ServerNames : DetectedServers[n] # Refused
  BY DEF McpAccepted
<1>5. {"appwrite", "sentry"} \subseteq ServerNames
  BY DEF ServerNames, Services
<1>6. \A n \in ServerNames : DetectedServers[n]' = DetectedServers[n]
  BY <1>1, <1>2, <1>3, <1>4, <1>5, Detected DEF DetectedServers
<1>7. \A n \in ServerNames : DetectedServers'[n] = DetectedServers[n]
  BY <1>6
<1> QED
  BY <1>7 DEF DetectedServers

\* A detected server is an entry of its name.
LEMMA DetectedTyped ==
  ASSUME McpTypeOK, NEW n \in ServerNames
  PROVE  DetectedServers[n] \in WrittenEntries[n] \cup {Refused, NoEntry}
<1>1. {"appwrite", "sentry"} \subseteq ServerNames
  BY DEF ServerNames, Services
<1>2. AppwriteServer \in WrittenEntries["appwrite"] \cup {Refused, NoEntry}
  BY <1>1 DEF AppwriteServer, WrittenEntries
<1>3. SentryServer \in WrittenEntries["sentry"] \cup {Refused, NoEntry}
  <2>1. SentryOf(Existing("sentry")) \in Hosted \cup {"launcher", Refused, NoEntry}
    BY DEF SentryOf
  <2> QED
    BY <1>1, <2>1, ServersOf DEF Hosted, WrittenEntries
<1> QED
  BY <1>1, <1>2, <1>3, Detected

\* A service with an agreed target has one live target at most.
LEMMA AppwriteOne ==
  ASSUME McpTypeOK, AppwriteServer # Refused
  PROVE  LiveTargets("appwrite") = {} \/ \E x : LiveTargets("appwrite") = {x}
<1> DEFINE existing == Existing("appwrite")
<1>1. existing \subseteq {"cloud", "launcher", "launcher+env", "legacy", "custom"}
  BY McpFileTypes DEF McpTypeOK, Existing
<1>2. LiveTargets("appwrite") \subseteq {"cloud", "launcher"}
  BY <1>1 DEF LiveTargets, Hosted, OwnLauncher
<1>3. ~("cloud" \in LiveTargets("appwrite") /\ "launcher" \in LiveTargets("appwrite"))
  <2>1. "cloud" \in LiveTargets("appwrite") => "cloud" \in existing
    BY DEF LiveTargets, OwnLauncher
  <2>2. "launcher" \in LiveTargets("appwrite") =>
          Scripted("appwrite") /\ existing \cap OwnLauncher # {}
    BY DEF LiveTargets, Hosted, OwnLauncher
  <2>3. ~("cloud" \in existing /\ Scripted("appwrite") /\ existing \cap OwnLauncher # {})
    BY DEF AppwriteServer
  <2> QED
    BY <2>1, <2>2, <2>3
<1> QED
  BY <1>2, <1>3

LEMMA SentryOne ==
  ASSUME McpTypeOK, SentryServer # Refused
  PROVE  LiveTargets("sentry") = {} \/ \E x : LiveTargets("sentry") = {x}
<1> DEFINE targets == SentryTargets(Existing("sentry"))
<1>1. LiveTargets("sentry") \subseteq targets
  BY DEF LiveTargets, SentryTargets
<1>2. ~(Cardinality(targets) > 1)
  BY ServersOf DEF SentryOf
<1>3. targets \subseteq {"cloud", "org", "launcher", "custom"}
  BY McpFileTypes DEF McpTypeOK, Existing, SentryTargets, OwnLauncher, McpEnvs
<1>4. IsFiniteSet(targets)
  <2>1. IsFiniteSet({"cloud"})
    BY FS_Singleton
  <2>2. IsFiniteSet({"cloud"} \cup {"org"})
    BY <2>1, FS_AddElement
  <2>3. IsFiniteSet(({"cloud"} \cup {"org"}) \cup {"launcher"})
    BY <2>2, FS_AddElement
  <2>4. IsFiniteSet((({"cloud"} \cup {"org"}) \cup {"launcher"}) \cup {"custom"})
    BY <2>3, FS_AddElement
  <2>5. targets \subseteq (({"cloud"} \cup {"org"}) \cup {"launcher"}) \cup {"custom"}
    BY <1>3
  <2> QED
    BY <2>4, <2>5, FS_Subset
<1>5. ASSUME NEW x \in targets, NEW y \in targets PROVE x = y
  <2>1. IsFiniteSet(targets \ {x}) /\ Cardinality(targets \ {x}) = Cardinality(targets) - 1
        /\ Cardinality(targets) \in Nat
    BY <1>4, FS_RemoveElement, FS_CardinalityType
  <2>2. Cardinality(targets \ {x}) = 0
    BY <1>2, <1>4, <1>5, <2>1, FS_CardinalityType
  <2>3. targets \ {x} = {}
    BY <2>1, <2>2, FS_EmptySet
  <2> QED
    BY <1>5, <2>3
<1> HIDE DEF targets
<1> QED
  BY <1>1, <1>5

LEMMA OneTargetHere ==
  ASSUME McpTypeOK, \A n \in ServerNames : DetectedServers[n] # Refused
  PROVE  \A s \in mcpEnv.uses : Cardinality(LiveTargets(s)) <= 1
<1> SUFFICES ASSUME NEW s \in mcpEnv.uses PROVE Cardinality(LiveTargets(s)) <= 1
  OBVIOUS
<1>1. s \in {"appwrite", "sentry"} /\ s \in ServerNames
  BY DEF McpTypeOK, McpEnvs, Services, ServerNames
<1>2. LiveTargets(s) = {} \/ \E x : LiveTargets(s) = {x}
  BY <1>1, Detected, AppwriteOne, SentryOne
<1>3. CASE LiveTargets(s) = {}
  BY <1>3, FS_EmptySet
<1>4. CASE \E x : LiveTargets(s) = {x}
  <2>1. PICK x : LiveTargets(s) = {x}
    BY <1>4
  <2>2. Cardinality({x}) = 1
    BY FS_Singleton
  <2> QED
    BY <2>1, <2>2
<1> QED
  BY <1>2, <1>3, <1>4

McpInv == McpTypeOK /\ SetupSettles /\ OneTarget

LEMMA McpInitInv == McpInit => McpInv
<1> SUFFICES ASSUME McpInit PROVE McpInv
  OBVIOUS
<1>1. NoServers \in McpFiles
  BY DEF NoServers, McpFiles
<1>2. claude \in McpFiles /\ codex \in McpFiles /\ copilot \in McpFiles
  BY <1>1 DEF McpInit
<1>3. approved \subseteq ServerNames /\ mcpEnv \in McpEnvs
  BY DEF McpInit
<1>4. mcpFresh \in BOOLEAN
  BY DEF McpInit
<1>5. mcpEdits \in 0..MaxMcpEdits
  BY McpConstants DEF McpInit
<1>6. McpTypeOK
  BY <1>2, <1>3, <1>4, <1>5 DEF McpTypeOK
<1> QED
  BY <1>6 DEF McpInit, McpInv, SetupSettles, OneTarget

LEMMA ConfigureMcpStep ==
  ASSUME McpInv, ConfigureMcp PROVE McpInv' /\ NoEntryLost
<1>1. McpTypeOK /\ UNCHANGED <<mcpEnv, mcpEdits>> /\ mcpFresh' = McpAccepted
  BY DEF McpInv, ConfigureMcp
<1>2. CASE ~McpAccepted
  <2>1. UNCHANGED <<claude, codex, copilot, approved>>
    BY <1>2 DEF ConfigureMcp
  <2> QED
    BY <1>1, <1>2, <2>1 DEF McpInv, McpTypeOK, SetupSettles, OneTarget, NoEntryLost, McpAccepted,
       CopilotPreserved, KeptServer
<1>3. CASE McpAccepted
  <2>1. /\ claude' = WithServers(claude) /\ codex' = WithServers(codex)
        /\ copilot' = NoServers /\ approved' = ApprovedAfter
    BY <1>3 DEF ConfigureMcp
  <2>2. DetectedServers' = DetectedServers
    BY <1>1, <1>3, DetectedSettles
  <2>3. ASSUME NEW f \in McpFiles
        PROVE  /\ WithServers(f) \in McpFiles
               /\ \A n \in ServerNames : WithServers(f)[n] # "retired"
    <3>1. ASSUME NEW n \in ServerNames
          PROVE  WithServers(f)[n] \in (WrittenEntries[n] \cup {NoEntry}) \ {"retired"}
      <4>1. f[n] \in WrittenEntries[n] \cup {NoEntry}
        BY DEF McpFiles
      <4>2. DetectedServers[n] \in WrittenEntries[n] \cup {NoEntry}
        BY <1>1, <1>3, DetectedTyped DEF McpAccepted
      <4>3. DetectedServers[n] # "retired"
        <5>1. CASE n \in {"appwrite", "sentry"}
          BY <4>2, <5>1, NoEntryApart DEF WrittenEntries
        <5>2. CASE n \notin {"appwrite", "sentry"}
          BY <5>2, Detected, NoEntryApart
        <5> QED
          BY <5>1, <5>2
      <4> QED
        BY <4>1, <4>2, <4>3, Written, NoEntryApart
    <3>2. WithServers(f) \in [ServerNames -> McpEntries \cup {NoEntry}]
      BY <3>1 DEF WithServers, McpEntries
    <3> QED
      BY <3>1, <3>2 DEF McpFiles, McpEntries
  <2>4. NoServers \in McpFiles
    BY DEF NoServers, McpFiles
  <2>5. McpTypeOK'
    <3>1. ApprovedAfter \subseteq ServerNames
      BY <1>1 DEF McpTypeOK, ApprovedAfter, RetireApproved
    <3>2. claude' \in McpFiles /\ codex' \in McpFiles /\ copilot' \in McpFiles
      BY <1>1, <2>1, <2>3, <2>4 DEF McpTypeOK
    <3>3. approved' \subseteq ServerNames
      BY <2>1, <3>1
    <3>4. mcpEnv' \in McpEnvs /\ mcpEdits' \in 0..MaxMcpEdits
      BY <1>1 DEF McpTypeOK
    <3>5. mcpFresh' = TRUE
      BY <1>1, <1>3
    <3> QED
      BY <3>2, <3>3, <3>4, <3>5 DEF McpTypeOK
  <2>6. ASSUME NEW f \in McpFiles, NEW g \in McpFiles, g = WithServers(f)
        PROVE  WithServers(g)' = g
    <3>1. ASSUME NEW n \in ServerNames PROVE WithServers(g)'[n] = g[n]
      <4>1. WithServers(g)'[n] = IF g[n] = NoEntry THEN DetectedServers[n]
                                 ELSE IF g[n] = "retired" THEN NoEntry ELSE g[n]
        BY <2>2 DEF WithServers, RetireServers, RetiredServer
      <4>2. g[n] # "retired" /\ (g[n] = NoEntry => DetectedServers[n] = NoEntry)
        <5>1. g[n] = NoEntry => f[n] \in {NoEntry, "retired"}
          BY <2>6, Written
        <5>2. f[n] = "retired" => DetectedServers[n] = NoEntry
          <6>1. f[n] = "retired" => n \notin {"appwrite", "sentry"}
            BY McpFileTypes, NoEntryApart
          <6> QED
            BY <6>1, Detected
        <5> QED
          BY <2>3, <2>6, <5>1, <5>2, Written
      <4> QED
        BY <4>1, <4>2
    <3>2. g = [n \in ServerNames |-> g[n]]
      BY DEF McpFiles
    <3> QED
      BY <3>1, <3>2 DEF WithServers
  <2>7. WithServers(claude)' = claude' /\ WithServers(codex)' = codex'
    BY <1>1, <2>1, <2>3, <2>6 DEF McpTypeOK, WithServers, RetireServers
  <2>8. ApprovedAfter' = approved'
    <3>1. RetireApproved' = approved'
      <4>1. "old" \notin approved'
        BY <2>1, Detected DEF ApprovedAfter, RetireApproved, Services
      <4>2. \A n \in ServerNames : claude'[n] # "retired"
        BY <1>1, <2>1, <2>3 DEF McpTypeOK
      <4> QED
        BY <2>5, <4>1, <4>2 DEF RetireApproved, RetiredServer, McpTypeOK
    <3>2. \A n \in ServerNames : DetectedServers'[n] # NoEntry /\ WithServers(claude)'[n] # NoEntry
            => n \in approved'
      BY <2>1, <2>2, <2>7 DEF ApprovedAfter
    <3>3. ApprovedAfter' = RetireApproved'
            \cup {n \in ServerNames : DetectedServers'[n] # NoEntry /\ WithServers(claude)'[n] # NoEntry}
      BY DEF ApprovedAfter
    <3> QED
      BY <3>1, <3>2, <3>3
  <2>9. McpAccepted'
    <3>1. \A n \in ServerNames : DetectedServers'[n] # Refused
      BY <1>3, <2>2 DEF McpAccepted
    <3>2. CopilotPreserved'
      BY <2>1 DEF CopilotPreserved, NoServers
    <3> QED
      BY <3>1, <3>2 DEF McpAccepted
  <2>10. OneTarget'
    <3>1. (\A n \in ServerNames : DetectedServers[n] # Refused)'
      BY <2>9 DEF McpAccepted
    <3>2. (\A s \in mcpEnv.uses : Cardinality(LiveTargets(s)) <= 1)'
      BY <2>5, <3>1, OneTargetHere, PTL
    <3> QED
      BY <3>2 DEF OneTarget
  <2>11. NoEntryLost
    BY <1>1, <1>3, <2>1, Written DEF NoEntryLost, McpTypeOK, McpAccepted, CopilotPreserved,
       RetiredServer, KeptServer
  <2> QED
    BY <2>5, <2>7, <2>8, <2>9, <2>10, <2>11 DEF McpInv, SetupSettles
<1> QED
  BY <1>2, <1>3

LEMMA McpEditStep ==
  ASSUME McpInv, EditServers \/ ChangeTarget PROVE McpInv' /\ NoEntryLost
<1>1. mcpFresh' = FALSE /\ mcpEdits' = mcpEdits + 1 /\ mcpEdits' \in 0..MaxMcpEdits
      /\ mcpEdits \in Nat
  BY McpConstants DEF EditServers, ChangeTarget, McpEdit, McpInv, McpTypeOK
<1>2. ASSUME NEW f \in McpFiles, NEW n \in ServerNames, NEW e \in WrittenEntries[n] \cup {NoEntry}
      PROVE  [f EXCEPT ![n] = e] \in McpFiles
  <2>1. e \in McpEntries \cup {NoEntry}
    BY DEF McpEntries
  <2> QED
    BY <2>1 DEF McpFiles
<1>3. {claude', codex', copilot'} \subseteq McpFiles
  BY <1>2 DEF EditServers, ChangeTarget, McpInv, McpTypeOK
<1>4. McpTypeOK'
  BY <1>1, <1>3 DEF EditServers, ChangeTarget, McpInv, McpTypeOK
<1> QED
  BY <1>1, <1>4 DEF McpInv, SetupSettles, OneTarget, NoEntryLost

LEMMA McpStepInv == McpInv /\ [McpNext]_mcpVars => McpInv' /\ [NoEntryLost]_mcpVars
<1> SUFFICES ASSUME McpInv, [McpNext]_mcpVars PROVE McpInv' /\ [NoEntryLost]_mcpVars
  OBVIOUS
<1>1. CASE McpNext
  BY <1>1, ConfigureMcpStep, McpEditStep DEF McpNext
<1>2. CASE UNCHANGED mcpVars
  <2>1. UNCHANGED <<claude, codex, copilot, approved, mcpEnv, mcpFresh, mcpEdits>>
    BY <1>2 DEF mcpVars
  <2>2. DetectedServers' = DetectedServers
    <3>1. AppwriteServer' = AppwriteServer
      BY <2>1 DEF AppwriteServer, Existing, NamedEndpoints, Scripted
    <3>2. SentryServer' = SentryServer
      BY <2>1 DEF SentryServer, Existing, Scripted
    <3> QED
      BY <2>1, <3>1, <3>2 DEF DetectedServers
  <2>3. McpTypeOK'
    BY <2>1 DEF McpInv, McpTypeOK
  <2>4. SetupSettles'
    BY <2>1, <2>2 DEF McpInv, SetupSettles, McpAccepted, CopilotPreserved, KeptServer,
       RetiredServer, WithServers, RetireServers, ApprovedAfter, RetireApproved
  <2>5. OneTarget'
    BY <2>1 DEF McpInv, OneTarget, LiveTargets, Existing, Scripted
  <2> QED
    BY <1>2, <2>3, <2>4, <2>5 DEF McpInv
<1> QED
  BY <1>1, <1>2

\* Setup settles on one target for each service and loses no entry, for any number of
\* edits in between.
THEOREM McpStaysSafe == McpSpec => McpSafe
<1>1. McpSpec => []McpInv /\ [][NoEntryLost]_mcpVars
  BY McpInitInv, McpStepInv, PTL DEF McpSpec
<1>2. McpInv => SetupSettles /\ OneTarget
  BY DEF McpInv
<1> QED
  BY <1>1, <1>2, PTL DEF McpSafe

-----------------------------------------------------------------------------
(* Installing.  The invariant says, for each step of the transaction, which *)
(* paths may hold planned content, what the snapshot is of, and what the    *)
(* index and the record of the staging hold of paths the agent did not      *)
(* stage.                                                                   *)

\* The steps from the snapshot on.
InsSteps == {"write", "swap", "add", "look", "commit", "reset", "error", "back", "restore",
             "failed", "done", "left"}

InsTyped ==
  /\ InsTypeOK
  /\ mode \in {"update", "repair"}
  /\ pc \in InsSteps \cup {"plan", "validate", "status", "snap", "refused", "dead"}

\* Of the edits before the snapshot only those of contents in an update outlive it, and
\* from then on a path holds what was taken, the planned content, or an edit.
InsExpected ==
  \A p \in Planned :
    /\ expected[p] \notin {"mine", "new"}
    /\ pc = "status" => mode = "repair"
    /\ pc \in {"plan", "status", "snap"} /\ mode = "repair" => disk[p] \in {"old", "draft", "late"}
    /\ pc = "snap" /\ mode = "update" => disk[p] \in {"old", IF p \in Links THEN "late" ELSE "mine"}
    /\ pc \in InsSteps => disk[p] \in {expected[p], "new", "mine", "late"}

\* What is about to be replaced was looked at, and an edit since is marked.
InsGap ==
  /\ pc = "swap" => \A p \in at : p \in applied /\ disk[p] \in {expected[p], "late"}
  /\ pc = "restore" => \A p \in at : disk[p] \in {"new", "late"}

\* Planned content is on paths applied; in a rollback, on those still to do.
InsWritten ==
  \A p \in Planned : disk[p] = "new" =>
    /\ pc # "failed"
    /\ IF pc \in {"back", "restore"} THEN p \in todo \cup at
       ELSE p \in applied \/ pc = "dead"

\* Of a path the agent did not stage the index is as it was, or as recorded; a repair keeps
\* no record, and is not rolled back once it staged.
InsIndexed ==
  /\ pc \in {"plan", "validate", "status", "snap", "write", "swap"} => staging.seen = "none"
  /\ mode = "repair" => staging.seen = "none"
  /\ pc = "reset" => mode = "repair"
  /\ masked # "no" => mode = "update"
  /\ \A p \in Planned \ foreign :
       /\ staging.before[p] = "old"
       /\ ~landed /\ (mode = "update" \/ pc \notin {"commit", "reset", "left", "done", "dead"}) =>
            IF staging.seen # "both" \/ pc = "failed" THEN index[p] = "old"
            ELSE index[p] = staging.after[p]

InsLanded == landed => pc \in {"done", "error", "dead"}

\* No path is about to be replaced when the next is looked for.
InsAt == pc \in {"plan", "validate", "status", "snap", "write", "back"} => at = {}

InsInv ==
  InsTyped /\ InsExpected /\ InsGap /\ InsWritten /\ InsIndexed /\ InsLanded /\ InsAt

\* An edit outlives a step.
Survives == \A p \in Planned : disk[p] = "mine" => disk'[p] = "mine"

LEMMA AsCommittedTyped == AsCommitted \in [Planned -> Values]
BY DEF AsCommitted, Values

LEMMA InsInitInv == InsInit => InsInv
<1> SUFFICES ASSUME InsInit PROVE InsInv
  OBVIOUS
<1>1. InsTyped
  BY AsCommittedTyped DEF InsInit, InsTyped, InsTypeOK, Unstaged, InsSteps
<1>2. InsWritten /\ InsIndexed /\ InsExpected
  BY DEF InsInit, InsWritten, InsIndexed, InsExpected, InsSteps, AsCommitted, Unstaged
<1>3. InsGap /\ InsLanded /\ InsAt
  BY DEF InsInit, InsGap, InsLanded, InsAt
<1> QED
  BY <1>1, <1>2, <1>3 DEF InsInv

LEMMA ForemostOf == \A first : Foremost(first) \subseteq todo
BY DEF Foremost

LEMMA PlanInstallStep == ASSUME InsInv, PlanInstall PROVE InsInv' /\ Survives
<1> USE DEF PlanInstall, Untouched, Goto, Fail, Values
<1>1. InsTyped'
  BY DEF InsInv, InsTyped, InsTypeOK, InsSteps
<1>2. InsGap'
  BY DEF InsInv, InsTyped, InsTypeOK, InsGap, InsAt, InsExpected, InsSteps
<1>3. InsWritten'
  BY DEF InsInv, InsTyped, InsTypeOK, InsWritten, InsGap, InsAt, InsExpected, InsSteps
<1>4. InsIndexed'
  BY DEF InsInv, InsTyped, InsTypeOK, InsIndexed, InsLanded
<1>5. InsLanded'
  BY DEF InsInv, InsTyped, InsTypeOK, InsLanded
<1>6. InsAt'
  BY DEF InsInv, InsTyped, InsTypeOK, InsAt
<1>7. Survives
  BY DEF InsInv, InsTyped, InsTypeOK, InsGap, InsExpected, InsSteps, Survives
<1>8. InsExpected'
  BY DEF InsInv, InsTyped, InsTypeOK, InsExpected, InsSteps, InsGap, InsAt
<1> QED
  BY <1>1, <1>2, <1>3, <1>4, <1>5, <1>6, <1>7, <1>8 DEF InsInv

LEMMA CheckLocalStep == ASSUME InsInv, CheckLocal PROVE InsInv' /\ Survives
<1> USE DEF CheckLocal, Untouched, Goto, Fail, Values, NoLocalState
<1>1. InsTyped'
  BY DEF InsInv, InsTyped, InsTypeOK, InsSteps
<1>2. InsGap'
  BY DEF InsInv, InsTyped, InsTypeOK, InsGap, InsAt, InsExpected, InsSteps
<1>3. InsWritten'
  BY DEF InsInv, InsTyped, InsTypeOK, InsWritten, InsGap, InsAt, InsExpected, InsSteps
<1>4. InsIndexed'
  BY DEF InsInv, InsTyped, InsTypeOK, InsIndexed, InsLanded
<1>5. InsLanded'
  BY DEF InsInv, InsTyped, InsTypeOK, InsLanded
<1>6. InsAt'
  BY DEF InsInv, InsTyped, InsTypeOK, InsAt
<1>7. Survives
  BY DEF InsInv, InsTyped, InsTypeOK, InsGap, InsExpected, InsSteps, Survives
<1>8. InsExpected'
  BY DEF InsInv, InsTyped, InsTypeOK, InsExpected, InsSteps, InsGap, InsAt
<1> QED
  BY <1>1, <1>2, <1>3, <1>4, <1>5, <1>6, <1>7, <1>8 DEF InsInv

LEMMA ValidatedStep == ASSUME InsInv, Validated PROVE InsInv' /\ Survives
<1> USE DEF Validated, Untouched, Goto, Fail, Values, NoLocalState
<1>1. InsTyped'
  BY DEF InsInv, InsTyped, InsTypeOK, InsSteps
<1>2. InsGap'
  BY DEF InsInv, InsTyped, InsTypeOK, InsGap, InsAt, InsExpected, InsSteps
<1>3. InsWritten'
  BY DEF InsInv, InsTyped, InsTypeOK, InsWritten, InsGap, InsAt, InsExpected, InsSteps
<1>4. InsIndexed'
  BY DEF InsInv, InsTyped, InsTypeOK, InsIndexed, InsLanded
<1>5. InsLanded'
  BY DEF InsInv, InsTyped, InsTypeOK, InsLanded
<1>6. InsAt'
  BY DEF InsInv, InsTyped, InsTypeOK, InsAt
<1>7. Survives
  BY DEF InsInv, InsTyped, InsTypeOK, InsGap, InsExpected, InsSteps, Survives
<1>8. InsExpected'
  BY DEF InsInv, InsTyped, InsTypeOK, InsExpected, InsSteps, InsGap, InsAt
<1> QED
  BY <1>1, <1>2, <1>3, <1>4, <1>5, <1>6, <1>7, <1>8 DEF InsInv

LEMMA SnapshotStep == ASSUME InsInv, Snapshot PROVE InsInv' /\ Survives
<1> USE DEF Snapshot, Untouched, Goto, Fail, Values
<1>1. InsTyped'
  BY DEF InsInv, InsTyped, InsTypeOK, InsSteps
<1>2. InsGap'
  BY DEF InsInv, InsTyped, InsTypeOK, InsGap, InsAt, InsExpected, InsSteps
<1>3. InsWritten'
  BY DEF InsInv, InsTyped, InsTypeOK, InsWritten, InsGap, InsAt, InsExpected, InsSteps
<1>4. InsIndexed'
  BY DEF InsInv, InsTyped, InsTypeOK, InsIndexed, InsLanded
<1>5. InsLanded'
  BY DEF InsInv, InsTyped, InsTypeOK, InsLanded
<1>6. InsAt'
  BY DEF InsInv, InsTyped, InsTypeOK, InsAt
<1>7. Survives
  BY DEF InsInv, InsTyped, InsTypeOK, InsGap, InsExpected, InsSteps, Survives
<1>8. InsExpected'
  BY DEF InsInv, InsTyped, InsTypeOK, InsExpected, InsSteps, InsGap, InsAt
<1> QED
  BY <1>1, <1>2, <1>3, <1>4, <1>5, <1>6, <1>7, <1>8 DEF InsInv

LEMMA LookAtStep == ASSUME InsInv, LookAt PROVE InsInv' /\ Survives
<1> USE DEF LookAt, Untouched, Goto, Fail, Values
<1>1. InsTyped'
  BY ForemostOf DEF InsInv, InsTyped, InsTypeOK, InsSteps
<1>2. InsGap'
  BY ForemostOf DEF InsInv, InsTyped, InsTypeOK, InsGap, InsAt, InsExpected, InsSteps
<1>3. InsWritten'
  BY ForemostOf DEF InsInv, InsTyped, InsTypeOK, InsWritten, InsGap, InsAt, InsExpected, InsSteps
<1>4. InsIndexed'
  BY DEF InsInv, InsTyped, InsTypeOK, InsIndexed, InsLanded
<1>5. InsLanded'
  BY DEF InsInv, InsTyped, InsTypeOK, InsLanded
<1>6. InsAt'
  BY DEF InsInv, InsTyped, InsTypeOK, InsAt
<1>7. Survives
  BY DEF InsInv, InsTyped, InsTypeOK, InsGap, InsExpected, InsSteps, Survives
<1>8. InsExpected'
  BY ForemostOf DEF InsInv, InsTyped, InsTypeOK, InsExpected, InsSteps, InsGap, InsAt
<1> QED
  BY <1>1, <1>2, <1>3, <1>4, <1>5, <1>6, <1>7, <1>8 DEF InsInv

LEMMA SwapInStep == ASSUME InsInv, SwapIn PROVE InsInv' /\ Survives
<1> USE DEF SwapIn, Untouched, Goto, Fail, Values
<1>1. InsTyped'
  BY DEF InsInv, InsTyped, InsTypeOK, InsSteps
<1>2. InsGap'
  BY DEF InsInv, InsTyped, InsTypeOK, InsGap, InsAt, InsExpected, InsSteps
<1>3. InsWritten'
  BY DEF InsInv, InsTyped, InsTypeOK, InsWritten, InsGap, InsAt, InsExpected, InsSteps
<1>4. InsIndexed'
  BY DEF InsInv, InsTyped, InsTypeOK, InsIndexed, InsLanded
<1>5. InsLanded'
  BY DEF InsInv, InsTyped, InsTypeOK, InsLanded
<1>6. InsAt'
  BY DEF InsInv, InsTyped, InsTypeOK, InsAt
<1>7. Survives
  BY DEF InsInv, InsTyped, InsTypeOK, InsGap, InsExpected, InsSteps, Survives
<1>8. InsExpected'
  BY DEF InsInv, InsTyped, InsTypeOK, InsExpected, InsSteps, InsGap, InsAt
<1> QED
  BY <1>1, <1>2, <1>3, <1>4, <1>5, <1>6, <1>7, <1>8 DEF InsInv

LEMMA ReadIndexStep == ASSUME InsInv, ReadIndex PROVE InsInv' /\ Survives
<1> USE DEF ReadIndex, Untouched, Goto, Fail, Values, Unstaged
<1>1. InsTyped'
  BY AsCommittedTyped DEF InsInv, InsTyped, InsTypeOK, InsSteps
<1>2. InsGap'
  BY DEF InsInv, InsTyped, InsTypeOK, InsGap, InsAt, InsExpected, InsSteps
<1>3. InsWritten'
  BY DEF InsInv, InsTyped, InsTypeOK, InsWritten, InsGap, InsAt, InsExpected, InsSteps
<1>4. InsIndexed'
  BY DEF InsInv, InsTyped, InsTypeOK, InsIndexed, InsLanded
<1>5. InsLanded'
  BY DEF InsInv, InsTyped, InsTypeOK, InsLanded
<1>6. InsAt'
  BY DEF InsInv, InsTyped, InsTypeOK, InsAt
<1>7. Survives
  BY DEF InsInv, InsTyped, InsTypeOK, InsGap, InsExpected, InsSteps, Survives
<1>8. InsExpected'
  BY DEF InsInv, InsTyped, InsTypeOK, InsExpected, InsSteps, InsGap, InsAt
<1> QED
  BY <1>1, <1>2, <1>3, <1>4, <1>5, <1>6, <1>7, <1>8 DEF InsInv

LEMMA CommitInstallStep == ASSUME InsInv, CommitInstall PROVE InsInv' /\ Survives
<1> USE DEF CommitInstall, Untouched, Goto, Fail, Values
<1>1. InsTyped'
  BY DEF InsInv, InsTyped, InsTypeOK, InsSteps
<1>2. InsGap'
  BY DEF InsInv, InsTyped, InsTypeOK, InsGap, InsAt, InsExpected, InsSteps
<1>3. InsWritten'
  BY DEF InsInv, InsTyped, InsTypeOK, InsWritten, InsGap, InsAt, InsExpected, InsSteps
<1>4. InsIndexed'
  BY DEF InsInv, InsTyped, InsTypeOK, InsIndexed, InsLanded
<1>5. InsLanded'
  BY DEF InsInv, InsTyped, InsTypeOK, InsLanded
<1>6. InsAt'
  BY DEF InsInv, InsTyped, InsTypeOK, InsAt
<1>7. Survives
  BY DEF InsInv, InsTyped, InsTypeOK, InsGap, InsExpected, InsSteps, Survives
<1>8. InsExpected'
  BY DEF InsInv, InsTyped, InsTypeOK, InsExpected, InsSteps, InsGap, InsAt
<1> QED
  BY <1>1, <1>2, <1>3, <1>4, <1>5, <1>6, <1>7, <1>8 DEF InsInv

LEMMA StageAllStep == ASSUME InsInv, StageAll PROVE InsInv' /\ Survives
<1> USE DEF StageAll, Untouched, Goto, Fail, Values
<1>1. InsTyped'
  BY DEF InsInv, InsTyped, InsTypeOK, InsSteps
<1>2. InsGap'
  BY DEF InsInv, InsTyped, InsTypeOK, InsGap, InsAt, InsExpected, InsSteps
<1>3. InsWritten'
  BY DEF InsInv, InsTyped, InsTypeOK, InsWritten, InsGap, InsAt, InsExpected, InsSteps
<1>4. InsIndexed'
  <2>1. CASE /\ mode = "update" /\ index' = disk
             /\ staging' = [staging EXCEPT !.seen = "both", !.after = disk]
             /\ pc' \in {"error", "look"}
    <3>1. staging' = [seen |-> "both", before |-> staging.before, after |-> disk]
      BY <2>1 DEF InsInv, InsTyped, InsTypeOK
    <3>2. staging'.seen = "both" /\ staging'.before = staging.before /\ staging'.after = index'
      BY <2>1, <3>1
    <3>3. mode' = "update" /\ foreign' = foreign
      BY <2>1
    <3>4. \A p \in Planned \ foreign : staging.before[p] = "old"
      BY DEF InsInv, InsIndexed
    <3> HIDE DEF StageAll
    <3> QED
      BY <2>1, <3>2, <3>3, <3>4 DEF InsIndexed
  <2>2. CASE mode = "repair"
    BY <2>2 DEF InsInv, InsTyped, InsTypeOK, InsIndexed, InsLanded
  <2>3. CASE UNCHANGED <<index, staging>>
    BY <2>3 DEF InsInv, InsTyped, InsTypeOK, InsIndexed, InsLanded
  <2> QED
    BY <2>1, <2>2, <2>3 DEF InsInv, InsTyped
<1>5. InsLanded'
  BY DEF InsInv, InsTyped, InsTypeOK, InsLanded
<1>6. InsAt'
  BY DEF InsInv, InsTyped, InsTypeOK, InsAt
<1>7. Survives
  BY DEF InsInv, InsTyped, InsTypeOK, InsGap, InsExpected, InsSteps, Survives
<1>8. InsExpected'
  BY DEF InsInv, InsTyped, InsTypeOK, InsExpected, InsSteps, InsGap, InsAt
<1> QED
  BY <1>1, <1>2, <1>3, <1>4, <1>5, <1>6, <1>7, <1>8 DEF InsInv

LEMMA LookAgainStep == ASSUME InsInv, LookAgain PROVE InsInv' /\ Survives
<1> USE DEF LookAgain, Untouched, Goto, Fail, Values
<1>1. InsTyped'
  BY DEF InsInv, InsTyped, InsTypeOK, InsSteps
<1>2. InsGap'
  BY DEF InsInv, InsTyped, InsTypeOK, InsGap, InsAt, InsExpected, InsSteps
<1>3. InsWritten'
  BY DEF InsInv, InsTyped, InsTypeOK, InsWritten, InsGap, InsAt, InsExpected, InsSteps
<1>4. InsIndexed'
  BY DEF InsInv, InsTyped, InsTypeOK, InsIndexed, InsLanded
<1>5. InsLanded'
  BY DEF InsInv, InsTyped, InsTypeOK, InsLanded
<1>6. InsAt'
  BY DEF InsInv, InsTyped, InsTypeOK, InsAt
<1>7. Survives
  BY DEF InsInv, InsTyped, InsTypeOK, InsGap, InsExpected, InsSteps, Survives
<1>8. InsExpected'
  BY DEF InsInv, InsTyped, InsTypeOK, InsExpected, InsSteps, InsGap, InsAt
<1> QED
  BY <1>1, <1>2, <1>3, <1>4, <1>5, <1>6, <1>7, <1>8 DEF InsInv

LEMMA GitCommitStep == ASSUME InsInv, GitCommit PROVE InsInv' /\ Survives
<1> USE DEF GitCommit, Untouched, Goto, Fail, Values
<1>1. InsTyped'
  BY DEF InsInv, InsTyped, InsTypeOK, InsSteps
<1>2. InsGap'
  BY DEF InsInv, InsTyped, InsTypeOK, InsGap, InsAt, InsExpected, InsSteps
<1>3. InsWritten'
  BY DEF InsInv, InsTyped, InsTypeOK, InsWritten, InsGap, InsAt, InsExpected, InsSteps
<1>4. InsIndexed'
  BY DEF InsInv, InsTyped, InsTypeOK, InsIndexed, InsLanded
<1>5. InsLanded'
  BY DEF InsInv, InsTyped, InsTypeOK, InsLanded
<1>6. InsAt'
  BY DEF InsInv, InsTyped, InsTypeOK, InsAt
<1>7. Survives
  BY DEF InsInv, InsTyped, InsTypeOK, InsGap, InsExpected, InsSteps, Survives
<1>8. InsExpected'
  BY DEF InsInv, InsTyped, InsTypeOK, InsExpected, InsSteps, InsGap, InsAt
<1> QED
  BY <1>1, <1>2, <1>3, <1>4, <1>5, <1>6, <1>7, <1>8 DEF InsInv

LEMMA ResetInstallStep == ASSUME InsInv, ResetInstall PROVE InsInv' /\ Survives
<1> USE DEF ResetInstall, Untouched, Goto, Fail, Values, AsCommitted
<1>1. InsTyped'
  BY AsCommittedTyped DEF InsInv, InsTyped, InsTypeOK, InsSteps
<1>2. InsGap'
  BY DEF InsInv, InsTyped, InsTypeOK, InsGap, InsAt, InsExpected, InsSteps
<1>3. InsWritten'
  BY DEF InsInv, InsTyped, InsTypeOK, InsWritten, InsGap, InsAt, InsExpected, InsSteps
<1>4. InsIndexed'
  BY DEF InsInv, InsTyped, InsTypeOK, InsIndexed, InsLanded
<1>5. InsLanded'
  BY DEF InsInv, InsTyped, InsTypeOK, InsLanded
<1>6. InsAt'
  BY DEF InsInv, InsTyped, InsTypeOK, InsAt
<1>7. Survives
  BY DEF InsInv, InsTyped, InsTypeOK, InsGap, InsExpected, InsSteps, Survives
<1>8. InsExpected'
  BY DEF InsInv, InsTyped, InsTypeOK, InsExpected, InsSteps, InsGap, InsAt
<1> QED
  BY <1>1, <1>2, <1>3, <1>4, <1>5, <1>6, <1>7, <1>8 DEF InsInv

LEMMA RecoverStep == ASSUME InsInv, Recover PROVE InsInv' /\ Survives
<1> USE DEF Recover, Untouched, Goto, Fail, Values
<1>1. InsTyped'
  BY DEF InsInv, InsTyped, InsTypeOK, InsSteps
<1>2. InsGap'
  BY DEF InsInv, InsTyped, InsTypeOK, InsGap, InsAt, InsExpected, InsSteps
<1>3. InsWritten'
  BY DEF InsInv, InsTyped, InsTypeOK, InsWritten, InsGap, InsAt, InsExpected, InsSteps
<1>4. InsIndexed'
  BY DEF InsInv, InsTyped, InsTypeOK, InsIndexed, InsLanded
<1>5. InsLanded'
  BY DEF InsInv, InsTyped, InsTypeOK, InsLanded
<1>6. InsAt'
  BY DEF InsInv, InsTyped, InsTypeOK, InsAt
<1>7. Survives
  BY DEF InsInv, InsTyped, InsTypeOK, InsGap, InsExpected, InsSteps, Survives
<1>8. InsExpected'
  BY DEF InsInv, InsTyped, InsTypeOK, InsExpected, InsSteps, InsGap, InsAt
<1> QED
  BY <1>1, <1>2, <1>3, <1>4, <1>5, <1>6, <1>7, <1>8 DEF InsInv

LEMMA LookBackStep == ASSUME InsInv, LookBack PROVE InsInv' /\ Survives
<1> USE DEF LookBack, Untouched, Goto, Fail, Values
<1>1. InsTyped'
  BY ForemostOf DEF InsInv, InsTyped, InsTypeOK, InsSteps
<1>2. InsGap'
  BY ForemostOf DEF InsInv, InsTyped, InsTypeOK, InsGap, InsAt, InsExpected, InsSteps
<1>3. InsWritten'
  BY ForemostOf DEF InsInv, InsTyped, InsTypeOK, InsWritten, InsGap, InsAt, InsExpected, InsSteps
<1>4. InsIndexed'
  BY DEF InsInv, InsTyped, InsTypeOK, InsIndexed, InsLanded
<1>5. InsLanded'
  BY DEF InsInv, InsTyped, InsTypeOK, InsLanded
<1>6. InsAt'
  BY DEF InsInv, InsTyped, InsTypeOK, InsAt
<1>7. Survives
  BY DEF InsInv, InsTyped, InsTypeOK, InsGap, InsExpected, InsSteps, Survives
<1>8. InsExpected'
  BY ForemostOf DEF InsInv, InsTyped, InsTypeOK, InsExpected, InsSteps, InsGap, InsAt
<1> QED
  BY <1>1, <1>2, <1>3, <1>4, <1>5, <1>6, <1>7, <1>8 DEF InsInv

LEMMA RestoreStep == ASSUME InsInv, Restore PROVE InsInv' /\ Survives
<1> USE DEF Restore, Untouched, Goto, Fail, Values
<1>1. InsTyped'
  BY DEF InsInv, InsTyped, InsTypeOK, InsSteps
<1>2. InsGap'
  BY DEF InsInv, InsTyped, InsTypeOK, InsGap, InsAt, InsExpected, InsSteps
<1>3. InsWritten'
  BY DEF InsInv, InsTyped, InsTypeOK, InsWritten, InsGap, InsAt, InsExpected, InsSteps
<1>4. InsIndexed'
  BY DEF InsInv, InsTyped, InsTypeOK, InsIndexed, InsLanded
<1>5. InsLanded'
  BY DEF InsInv, InsTyped, InsTypeOK, InsLanded
<1>6. InsAt'
  BY DEF InsInv, InsTyped, InsTypeOK, InsAt
<1>7. Survives
  BY DEF InsInv, InsTyped, InsTypeOK, InsGap, InsExpected, InsSteps, Survives
<1>8. InsExpected'
  BY DEF InsInv, InsTyped, InsTypeOK, InsExpected, InsSteps, InsGap, InsAt
<1> QED
  BY <1>1, <1>2, <1>3, <1>4, <1>5, <1>6, <1>7, <1>8 DEF InsInv

LEMMA UnstageOwnStep == ASSUME InsInv, UnstageOwn PROVE InsInv' /\ Survives
<1> USE DEF UnstageOwn, Untouched, Goto, Fail, Values, Own
<1>1. InsTyped'
  BY DEF InsInv, InsTyped, InsTypeOK, InsSteps
<1>2. InsGap'
  BY DEF InsInv, InsTyped, InsTypeOK, InsGap, InsAt, InsExpected, InsSteps
<1>3. InsWritten'
  BY DEF InsInv, InsTyped, InsTypeOK, InsWritten, InsGap, InsAt, InsExpected, InsSteps
<1>4. InsIndexed'
  BY DEF InsInv, InsTyped, InsTypeOK, InsIndexed, InsLanded
<1>5. InsLanded'
  BY DEF InsInv, InsTyped, InsTypeOK, InsLanded
<1>6. InsAt'
  BY DEF InsInv, InsTyped, InsTypeOK, InsAt
<1>7. Survives
  BY DEF InsInv, InsTyped, InsTypeOK, InsGap, InsExpected, InsSteps, Survives
<1>8. InsExpected'
  BY DEF InsInv, InsTyped, InsTypeOK, InsExpected, InsSteps, InsGap, InsAt
<1> QED
  BY <1>1, <1>2, <1>3, <1>4, <1>5, <1>6, <1>7, <1>8 DEF InsInv

LEMMA AgentEditsStep == ASSUME InsInv, AgentEdits, Running, UNCHANGED mode PROVE InsInv' /\ Survives
<1> USE DEF AgentEdits, Untouched, Goto, Fail, Values, Running, Unseen
<1>1. InsTyped'
  BY DEF InsInv, InsTyped, InsTypeOK, InsSteps
<1>2. InsGap'
  BY DEF InsInv, InsTyped, InsTypeOK, InsGap, InsAt, InsExpected, InsSteps
<1>3. InsWritten'
  BY DEF InsInv, InsTyped, InsTypeOK, InsWritten, InsGap, InsAt, InsExpected, InsSteps
<1>4. InsIndexed'
  BY DEF InsInv, InsTyped, InsTypeOK, InsIndexed, InsLanded
<1>5. InsLanded'
  BY DEF InsInv, InsTyped, InsTypeOK, InsLanded
<1>6. InsAt'
  BY DEF InsInv, InsTyped, InsTypeOK, InsAt
<1>7. Survives
  BY DEF InsInv, InsTyped, InsTypeOK, InsGap, InsExpected, InsSteps, Survives
<1>8. InsExpected'
  <2>1. PICK p \in Planned : disk' = [disk EXCEPT ![p] = CASE Unseen(p) -> "late"
                                 [] mode = "repair" /\ pc = "plan" -> "draft" [] OTHER -> "mine"]
    OBVIOUS
  <2>2. \A r \in Planned : r # p => disk'[r] = disk[r]
    BY <2>1 DEF InsInv, InsTyped, InsTypeOK
  <2>3. disk'[p] = CASE Unseen(p) -> "late"
                     [] mode = "repair" /\ pc = "plan" -> "draft" [] OTHER -> "mine"
    BY <2>1 DEF InsInv, InsTyped, InsTypeOK
  <2> QED
    BY <2>2, <2>3 DEF InsInv, InsTyped, InsExpected, InsSteps
<1> QED
  BY <1>1, <1>2, <1>3, <1>4, <1>5, <1>6, <1>7, <1>8 DEF InsInv

LEMMA AgentStagesStep == ASSUME InsInv, AgentStages, Running, UNCHANGED mode PROVE InsInv' /\ Survives
<1> USE DEF AgentStages, Untouched, Goto, Fail, Values, Running
<1>1. InsTyped'
  BY DEF InsInv, InsTyped, InsTypeOK, InsSteps
<1>2. InsGap'
  BY DEF InsInv, InsTyped, InsTypeOK, InsGap, InsAt, InsExpected, InsSteps
<1>3. InsWritten'
  BY DEF InsInv, InsTyped, InsTypeOK, InsWritten, InsGap, InsAt, InsExpected, InsSteps
<1>4. InsIndexed'
  BY DEF InsInv, InsTyped, InsTypeOK, InsIndexed, InsLanded
<1>5. InsLanded'
  BY DEF InsInv, InsTyped, InsTypeOK, InsLanded
<1>6. InsAt'
  BY DEF InsInv, InsTyped, InsTypeOK, InsAt
<1>7. Survives
  BY DEF InsInv, InsTyped, InsTypeOK, InsGap, InsExpected, InsSteps, Survives
<1>8. InsExpected'
  BY DEF InsInv, InsTyped, InsTypeOK, InsExpected, InsSteps, InsGap, InsAt
<1> QED
  BY <1>1, <1>2, <1>3, <1>4, <1>5, <1>6, <1>7, <1>8 DEF InsInv

LEMMA TerminateStep == ASSUME InsInv, Terminate, Running, UNCHANGED mode PROVE InsInv' /\ Survives
<1> USE DEF Terminate, Untouched, Goto, Fail, Values, Running
<1>1. InsTyped'
  BY DEF InsInv, InsTyped, InsTypeOK, InsSteps
<1>2. InsGap'
  BY DEF InsInv, InsTyped, InsTypeOK, InsGap, InsAt, InsExpected, InsSteps
<1>3. InsWritten'
  BY DEF InsInv, InsTyped, InsTypeOK, InsWritten, InsGap, InsAt, InsExpected, InsSteps
<1>4. InsIndexed'
  BY DEF InsInv, InsTyped, InsTypeOK, InsIndexed, InsLanded
<1>5. InsLanded'
  BY DEF InsInv, InsTyped, InsTypeOK, InsLanded
<1>6. InsAt'
  BY DEF InsInv, InsTyped, InsTypeOK, InsAt
<1>7. Survives
  BY DEF InsInv, InsTyped, InsTypeOK, InsGap, InsExpected, InsSteps, Survives
<1>8. InsExpected'
  BY DEF InsInv, InsTyped, InsTypeOK, InsExpected, InsSteps, InsGap, InsAt
<1> QED
  BY <1>1, <1>2, <1>3, <1>4, <1>5, <1>6, <1>7, <1>8 DEF InsInv

LEMMA StoppedStep == ASSUME InsInv, Stopped, Running, UNCHANGED mode PROVE InsInv' /\ Survives
<1> USE DEF Stopped, Untouched, Goto, Fail, Values, Running
<1>1. InsTyped'
  BY DEF InsInv, InsTyped, InsTypeOK, InsSteps
<1>2. InsGap'
  BY DEF InsInv, InsTyped, InsTypeOK, InsGap, InsAt, InsExpected, InsSteps
<1>3. InsWritten'
  BY DEF InsInv, InsTyped, InsTypeOK, InsWritten, InsGap, InsAt, InsExpected, InsSteps
<1>4. InsIndexed'
  BY DEF InsInv, InsTyped, InsTypeOK, InsIndexed, InsLanded
<1>5. InsLanded'
  BY DEF InsInv, InsTyped, InsTypeOK, InsLanded
<1>6. InsAt'
  BY DEF InsInv, InsTyped, InsTypeOK, InsAt
<1>7. Survives
  BY DEF InsInv, InsTyped, InsTypeOK, InsGap, InsExpected, InsSteps, Survives
<1>8. InsExpected'
  BY DEF InsInv, InsTyped, InsTypeOK, InsExpected, InsSteps, InsGap, InsAt
<1> QED
  BY <1>1, <1>2, <1>3, <1>4, <1>5, <1>6, <1>7, <1>8 DEF InsInv

LEMMA InsStepInv == InsInv /\ [InsNext]_insVars => InsInv' /\ Survives
<1> SUFFICES ASSUME InsInv, [InsNext]_insVars PROVE InsInv' /\ Survives
  OBVIOUS
<1>1. CASE UNCHANGED insVars
  BY <1>1 DEF insVars, InsInv, InsTyped, InsTypeOK, InsExpected, InsGap, InsWritten, InsIndexed,
     InsLanded, InsAt, Survives
<1>2. CASE InsNext
  BY <1>2, PlanInstallStep, CheckLocalStep, ValidatedStep, SnapshotStep, LookAtStep,
     SwapInStep, ReadIndexStep, CommitInstallStep, StageAllStep, LookAgainStep, GitCommitStep,
     ResetInstallStep, RecoverStep, LookBackStep, RestoreStep, UnstageOwnStep, AgentEditsStep,
     AgentStagesStep, TerminateStep, StoppedStep DEF InsNext
<1> QED
  BY <1>1, <1>2

\* An installation that is rolled back leaves nothing behind, one that landed is kept, and no
\* edit that is looked for is overwritten, for any set of paths and any number of edits,
\* stagings and signals.
THEOREM InstallStaysSafe == InsSpec => InstallSafe
<1>1. InsSpec => []InsInv /\ [][Survives]_insVars
  BY InsInitInv, InsStepInv, PTL DEF InsSpec
<1>2. InsInv => FailureLeavesNothing /\ LandedIsKept
  BY DEF InsInv, InsTyped, InsTypeOK, InsWritten, InsIndexed, InsLanded, InsExpected, InsSteps,
     FailureLeavesNothing, LandedIsKept
<1>3. [Survives]_insVars => [\A p \in Planned : disk[p] = "mine" => disk'[p] = "mine"]_insVars
  BY DEF Survives
<1> QED
  BY <1>1, <1>2, <1>3, PTL DEF InstallSafe, EditsSurvive

\* The variables of an installation hold values of the program.
THEOREM InstallTyping == InsSpec => []InsTypeOK
<1>1. InsSpec => []InsInv
  BY InsInitInv, InsStepInv, PTL DEF InsSpec
<1> QED
  BY <1>1, PTL DEF InsInv, InsTyped

-----------------------------------------------------------------------------
(* Setup.                                                                   *)

(* What Managed(r) in front of some lines looks like.                       *)
LEMMA BlockLines ==
  ASSUME NEW r \in SetupReleases
  PROVE  /\ Block(r) \in Seq(Lines) /\ Len(Block(r)) = 3
         /\ Block(r)[1] = "start" /\ Block(r)[2] = BlockText[r] /\ Block(r)[3] = "end"
         /\ Managed(r) \in Seq(Lines) /\ Len(Managed(r)) = 4
         /\ Managed(r)[1] = "start" /\ Managed(r)[2] = BlockText[r] /\ Managed(r)[3] = "end"
         /\ Managed(r)[4] = "blank"
<1>1. {"start", "end", "blank", BlockText[r]} \subseteq Lines
  <2>1. BlockText[r] \in Range(BlockText)
    BY SetupConstants DEF Range
  <2> QED
    BY <2>1 DEF Lines, Markers
<1> QED
  BY <1>1 DEF Block, Managed

LEMMA ManagedLines ==
  ASSUME NEW r \in SetupReleases, NEW s \in Seq(Lines)
  PROVE  /\ Managed(r) \o s \in Seq(Lines) /\ Len(Managed(r) \o s) = 4 + Len(s)
         /\ \A i \in 1..4 : (Managed(r) \o s)[i] = Managed(r)[i]
         /\ \A i \in 1..Len(s) : (Managed(r) \o s)[4 + i] = s[i]
<1> DEFINE m == Managed(r)
<1>5. m \in Seq(Lines) /\ Len(m) = 4
  BY BlockLines
<1> HIDE DEF m
<1>6. /\ m \o s \in Seq(Lines) /\ Len(m \o s) = Len(m) + Len(s)
      /\ \A i \in 1..(Len(m) + Len(s)) : (m \o s)[i] = IF i <= Len(m) THEN m[i] ELSE s[i - Len(m)]
  BY <1>5, ConcatProperties
<1>1. \A i \in 1..(4 + Len(s)) : (m \o s)[i] = IF i <= 4 THEN m[i] ELSE s[i - 4]
  BY <1>5, <1>6
<1>2. \A i \in 1..Len(s) : 4 + i \in 1..(4 + Len(s)) /\ ~(4 + i <= 4) /\ (4 + i) - 4 = i
  BY LenProperties
<1>3. \A i \in 1..4 : i \in 1..(4 + Len(s)) /\ i <= 4
  BY LenProperties
<1>4. m \o s \in Seq(Lines) /\ Len(m \o s) = 4 + Len(s)
  BY <1>5, <1>6
<1>7. \A i \in 1..4 : (m \o s)[i] = m[i]
  BY <1>1, <1>3
<1>8. \A i \in 1..Len(s) : (m \o s)[4 + i] = s[i]
  BY <1>1, <1>2
<1> QED
  BY <1>4, <1>7, <1>8 DEF m

LEMMA BlockTextUnmarked ==
  ASSUME NEW r \in SetupReleases
  PROVE  BlockText[r] \notin Rules /\ BlockText[r] # "start" /\ BlockText[r] # "end"
BY SetupConstants DEF Markers

(* The first four lines of a text and those behind them.                    *)
LEMMA HeadAndRest ==
  ASSUME NEW text \in Seq(Lines), Len(text) >= 4
  PROVE  /\ SubSeq(text, 1, 4) \in Seq(Lines) /\ Len(SubSeq(text, 1, 4)) = 4
         /\ \A i \in 1..4 : SubSeq(text, 1, 4)[i] = text[i]
         /\ SubSeq(text, 5, Len(text)) \in Seq(Lines)
         /\ Len(SubSeq(text, 5, Len(text))) = Len(text) - 4
         /\ \A i \in 1..(Len(text) - 4) : SubSeq(text, 5, Len(text))[i] = text[4 + i]
<1>1. Len(text) \in Nat /\ \A i \in 1..Len(text) : text[i] \in Lines
  BY LenProperties, ElementOfSeq
<1>2. /\ \A i \in 1..4 : text[i] \in Lines
      /\ \A i \in 5..Len(text) : text[i] \in Lines
  BY <1>1
<1>3. /\ SubSeq(text, 1, 4) \in Seq(Lines)
      /\ Len(SubSeq(text, 1, 4)) = IF 1 <= 4 THEN 4 - 1 + 1 ELSE 0
      /\ \A i \in 1..(4 - 1 + 1) : SubSeq(text, 1, 4)[i] = text[1 + i - 1]
  BY <1>2, SubSeqProperties, 1 \in Int, 4 \in Int
<1> DEFINE n == Len(text)
<1>4. n \in Int /\ n >= 4 /\ \A i \in 5..n : text[i] \in Lines
  BY <1>1, <1>2
<1> HIDE DEF n
<1>5. /\ SubSeq(text, 5, n) \in Seq(Lines)
      /\ Len(SubSeq(text, 5, n)) = IF 5 <= n THEN n - 5 + 1 ELSE 0
      /\ \A i \in 1..(n - 5 + 1) : SubSeq(text, 5, n)[i] = text[5 + i - 1]
  BY <1>4, SubSeqProperties, 5 \in Int
<1>6. Len(SubSeq(text, 5, n)) = n - 4 /\ \A i \in 1..(n - 4) : SubSeq(text, 5, n)[i] = text[4 + i]
  BY <1>4, <1>5
<1>7. Len(SubSeq(text, 1, 4)) = 4 /\ \A i \in 1..4 : SubSeq(text, 1, 4)[i] = text[i]
  BY <1>3
<1> QED
  BY <1>3, <1>5, <1>6, <1>7 DEF n

LEMMA SameText ==
  ASSUME NEW text \in Seq(Lines), NEW s \in Seq(Lines), Len(text) = Len(s),
         \A i \in 1..Len(s) : text[i] = s[i]
  PROVE  text = s
BY SeqEqual

(* A line that occurs once has one place, and the other way round.          *)
LEMMA OnePlace ==
  ASSUME NEW text \in Seq(Lines), NEW line, Count(text, line) = 1
  PROVE  \E p \in 1..Len(text) : /\ text[p] = line
                                 /\ \A q \in 1..Len(text) : text[q] = line => q = p
<1> DEFINE places == {i \in 1..Len(text) : text[i] = line}
<1>1. IsFiniteSet(places)
  BY FS_Interval, FS_Subset, 1 \in Int, Len(text) \in Int
<1>2. Cardinality(places) = 1
  <2>1. {i \in DOMAIN text : text[i] = line} = places
    OBVIOUS
  <2> QED
    BY <2>1 DEF Count
<1>3. PICK p : places = {p}
  BY <1>1, <1>2, FS_Singleton
<1>4. p \in places /\ \A q \in places : q = p
  BY <1>3
<1> QED
  BY <1>4

LEMMA CountOne ==
  ASSUME NEW text \in Seq(Lines), NEW line, NEW p \in 1..Len(text), text[p] = line,
         \A q \in 1..Len(text) : text[q] = line => q = p
  PROVE  Count(text, line) = 1
<1>1. {i \in DOMAIN text : text[i] = line} = {p}
  OBVIOUS
<1> QED
  BY <1>1, FS_Singleton DEF Count

LEMMA Unmarked ==
  ASSUME NEW text \in Seq(Lines)
  PROVE  ~Marked(text) <=> \A i \in 1..Len(text) : text[i] # "start" /\ text[i] # "end"
BY DEF Marked, Range

(* What OwnLines takes of a text when it does not refuse.                   *)
LEMMA OwnLinesOf ==
  ASSUME NEW text \in Seq(Lines), NEW old \in SetupReleases, OwnLines(text, old) # Refusal
  PROVE  /\ OwnLines(text, old) \in Seq(Lines)
         /\ ~Marked(OwnLines(text, old))
         /\ \/ text = Block(old) /\ OwnLines(text, old) = <<>>
            \/ text = OwnLines(text, old)
            \/ text = Managed(old) \o OwnLines(text, old)
<1> DEFINE whole == IF text = Block(old) THEN Managed(old) ELSE text
<1>1. whole \in Seq(Lines)
  BY BlockLines
<1>2. CASE ~Marked(text)
  <2>1. OwnLines(text, old) = text
    BY <1>2 DEF OwnLines
  <2> QED
    BY <2>1, <1>2
<1>3. CASE Marked(text)
  <2>1. /\ Count(whole, "start") = 1 /\ Count(whole, "end") = 1 /\ IsPrefix(Managed(old), whole)
        /\ OwnLines(text, old) = SubSeq(whole, 5, Len(whole))
    BY <1>3 DEF OwnLines
  <2> DEFINE own == SubSeq(whole, 5, Len(whole))
  <2> HIDE DEF whole
  <2>2. /\ Len(whole) >= 4
        /\ \A i \in 1..4 : whole[i] = Managed(old)[i]
    <3>1. Len(whole) >= 4 /\ SubSeq(Managed(old), 1, 4) = SubSeq(whole, 1, 4)
      BY <2>1, <1>1, BlockLines DEF IsPrefix
    <3>2. \A i \in 1..4 : SubSeq(Managed(old), 1, 4)[i] = Managed(old)[i]
      <4>1. Managed(old) \in Seq(Lines) /\ Len(Managed(old)) >= 4
        BY BlockLines
      <4> QED
        BY <4>1, HeadAndRest
    <3>3. \A i \in 1..4 : SubSeq(whole, 1, 4)[i] = whole[i]
      BY <3>1, <1>1, HeadAndRest
    <3> QED
      BY <3>1, <3>2, <3>3
  <2>3. own \in Seq(Lines) /\ Len(own) = Len(whole) - 4
        /\ \A i \in 1..Len(own) : own[i] = whole[4 + i]
    BY <1>1, <2>2, HeadAndRest
  <2>4. ~Marked(own)
    <3>1. \A i \in 1..Len(own) : own[i] # "start" /\ own[i] # "end"
      <4> TAKE i \in 1..Len(own)
      <4>1. 4 + i \in 1..Len(whole) /\ 1 \in 1..Len(whole) /\ 3 \in 1..Len(whole)
        BY <2>2, <2>3, <1>1
      <4>2. whole[1] = "start" /\ whole[3] = "end"
        BY <2>2, BlockLines
      <4>3. whole[4 + i] # "start"
        BY <4>1, <4>2, <2>1, <1>1, OnePlace
      <4>4. whole[4 + i] # "end"
        BY <4>1, <4>2, <2>1, <1>1, OnePlace
      <4> QED
        BY <4>3, <4>4, <2>3
    <3> QED
      BY <3>1, <2>3, Unmarked
  <2>5. whole = Managed(old) \o own
    <3>1. Managed(old) \o own \in Seq(Lines) /\ Len(Managed(old) \o own) = Len(whole)
      <4> HIDE DEF own
      <4>1. /\ Managed(old) \o own \in Seq(Lines)
            /\ Len(Managed(old) \o own) = 4 + Len(own)
        BY <2>3, ManagedLines
      <4>2. Len(whole) \in Nat
        BY <1>1, LenProperties
      <4> QED
        BY <4>1, <4>2, <2>3
    <3>2. \A i \in 1..Len(whole) : (Managed(old) \o own)[i] = whole[i]
      <4> TAKE i \in 1..Len(whole)
      <4>1. CASE i \in 1..4
        BY <4>1, <2>2, <2>3, ManagedLines
      <4>2. CASE i \notin 1..4
        <5>1. i - 4 \in 1..Len(own) /\ 4 + (i - 4) = i
          BY <4>2, <2>3, <1>1, <2>2
        <5> HIDE DEF own
        <5>2. (Managed(old) \o own)[4 + (i - 4)] = own[i - 4]
          BY <5>1, <2>3, ManagedLines
        <5> QED
          BY <5>1, <5>2, <2>3
      <4> QED
        BY <4>1, <4>2
    <3> HIDE DEF own
    <3> QED
      BY <3>1, <3>2, <1>1, SameText
  <2>6. CASE text = Block(old)
    <3>1. whole = Managed(old)
      BY <2>6 DEF whole
    <3>2. Len(own) = 0
      BY <3>1, <2>3, BlockLines
    <3>3. own = <<>>
      BY <3>2, <2>3
    <3> HIDE DEF own
    <3> QED
      BY <2>6, <3>3, <2>1, <2>3, <2>4 DEF own
  <2>7. CASE text # Block(old)
    BY <2>7, <2>1, <2>3, <2>4, <2>5 DEF whole
  <2> QED
    BY <2>6, <2>7
<1> QED
  BY <1>2, <1>3

(* The text that setup writes is read again as what it was made of.         *)
LEMMA OwnLinesBlock ==
  ASSUME NEW r \in SetupReleases
  PROVE  OwnLines(Block(r), r) = <<>> /\ InstructionSuffix(Block(r)) = <<>>
<1>1. Marked(Block(r))
  BY BlockLines, Unmarked
<1>2. Count(Managed(r), "start") = 1 /\ Count(Managed(r), "end") = 1
  <2>1. \A q \in 1..Len(Managed(r)) : (Managed(r)[q] = "start" => q = 1)
                                     /\ (Managed(r)[q] = "end" => q = 3)
    BY BlockLines, BlockTextUnmarked
  <2>2. 1 \in 1..Len(Managed(r)) /\ 3 \in 1..Len(Managed(r))
    BY BlockLines
  <2> QED
    BY <2>1, <2>2, BlockLines, CountOne
<1>3. IsPrefix(Managed(r), Managed(r))
  BY BlockLines DEF IsPrefix
<1>4. SubSeq(Managed(r), 5, Len(Managed(r))) = <<>>
  <2>1. Len(Managed(r)) = 4
    BY BlockLines
  <2> QED
    BY <2>1, SubSeqEmpty, 5 \in Int, 4 \in Int
<1>5. Count(Block(r), "end") = 1
  <2>1. \A q \in 1..Len(Block(r)) : Block(r)[q] = "end" => q = 3
    BY BlockLines, BlockTextUnmarked
  <2> QED
    BY <2>1, BlockLines, CountOne
<1>6. Block(r) # <<>>
  BY BlockLines
<1> QED
  BY <1>1, <1>2, <1>3, <1>4, <1>5, <1>6, BlockLines DEF OwnLines, InstructionSuffix

LEMMA ManagedMarkers ==
  ASSUME NEW r \in SetupReleases, NEW s \in Seq(Lines), ~Marked(s)
  PROVE  \A i \in 1..(4 + Len(s)) :
           /\ (Managed(r) \o s)[i] = "start" => i = 1
           /\ (Managed(r) \o s)[i] = "end" => i = 3
<1> TAKE i \in 1..(4 + Len(s))
<1>1. CASE i \in 1..4
  <2>1. (Managed(r) \o s)[i] = Managed(r)[i]
    BY <1>1, ManagedLines
  <2> QED
    BY <1>1, <2>1, BlockLines, BlockTextUnmarked
<1>2. CASE i \notin 1..4
  <2>1. i - 4 \in 1..Len(s) /\ 4 + (i - 4) = i
    BY <1>2
  <2>2. (Managed(r) \o s)[4 + (i - 4)] = s[i - 4]
    BY <2>1, ManagedLines
  <2>3. s[i - 4] # "start" /\ s[i - 4] # "end"
    BY <2>1, Unmarked
  <2> QED
    BY <2>1, <2>2, <2>3
<1> QED
  BY <1>1, <1>2

LEMMA OwnLinesManaged ==
  ASSUME NEW r \in SetupReleases, NEW s \in Seq(Lines), ~Marked(s)
  PROVE  OwnLines(Managed(r) \o s, r) = s /\ InstructionSuffix(Managed(r) \o s) = s
<1> DEFINE t == Managed(r) \o s
<1>1. /\ t \in Seq(Lines) /\ Len(t) = 4 + Len(s)
      /\ t[1] = "start" /\ t[3] = "end" /\ t[4] = "blank"
      /\ \A i \in 1..Len(s) : t[4 + i] = s[i]
  <2>1. /\ t \in Seq(Lines) /\ Len(t) = 4 + Len(s) /\ \A i \in 1..4 : t[i] = Managed(r)[i]
        /\ \A i \in 1..Len(s) : t[4 + i] = s[i]
    BY ManagedLines
  <2>2. Managed(r)[1] = "start" /\ Managed(r)[3] = "end" /\ Managed(r)[4] = "blank"
    BY BlockLines
  <2> HIDE DEF t
  <2> QED
    BY <2>1, <2>2
<1>2. \A i \in 1..Len(t) : (t[i] = "start" => i = 1) /\ (t[i] = "end" => i = 3)
  BY <1>1, ManagedMarkers
<1>3. \A i \in 1..4 : t[i] = Managed(r)[i]
  BY ManagedLines
<1> HIDE DEF t
<1>4. Count(t, "start") = 1 /\ Count(t, "end") = 1
  <2>1. 1 \in 1..Len(t) /\ 3 \in 1..Len(t)
    BY <1>1
  <2>2. \A q \in 1..Len(t) : t[q] = "start" => q = 1
    BY <1>2
  <2>3. \A q \in 1..Len(t) : t[q] = "end" => q = 3
    BY <1>2
  <2>4. Count(t, "start") = 1
    BY <2>1, <2>2, <1>1, CountOne
  <2>5. Count(t, "end") = 1
    BY <2>1, <2>3, <1>1, CountOne
  <2> QED
    BY <2>4, <2>5
<1>5. Marked(t)
  <2>1. 1 \in 1..Len(t)
    BY <1>1
  <2> QED
    BY <1>1, <2>1, Unmarked
<1>6. t # Block(r)
  <2>1. Len(Block(r)) = 3
    BY BlockLines
  <2>2. Len(s) \in Nat /\ Len(t) = 4 + Len(s)
    BY <1>1, LenProperties
  <2>3. Len(t) # 3
    BY <2>2
  <2> QED
    BY <2>1, <2>3
<1>7. SubSeq(t, 5, Len(t)) = s
  <2>1. SubSeq(t, 5, Len(t)) \in Seq(Lines) /\ Len(SubSeq(t, 5, Len(t))) = Len(s)
    BY <1>1, HeadAndRest, LenProperties
  <2>2. \A i \in 1..Len(s) : SubSeq(t, 5, Len(t))[i] = s[i]
    BY <1>1, HeadAndRest, LenProperties
  <2> QED
    BY <2>1, <2>2, SameText
<1>8. IsPrefix(Managed(r), t)
  <2>1. /\ SubSeq(t, 1, 4) \in Seq(Lines) /\ Len(SubSeq(t, 1, 4)) = 4
        /\ \A i \in 1..4 : SubSeq(t, 1, 4)[i] = t[i]
    BY <1>1, HeadAndRest, LenProperties
  <2>2. /\ SubSeq(Managed(r), 1, 4) \in Seq(Lines) /\ Len(SubSeq(Managed(r), 1, 4)) = 4
        /\ \A i \in 1..4 : SubSeq(Managed(r), 1, 4)[i] = Managed(r)[i]
    <3>1. Managed(r) \in Seq(Lines) /\ Len(Managed(r)) >= 4
      BY BlockLines
    <3> QED
      BY <3>1, HeadAndRest
  <2>3. SubSeq(t, 1, 4) = SubSeq(Managed(r), 1, 4)
    BY <2>1, <2>2, <1>3, SameText
  <2>4. Len(Managed(r)) = 4 /\ Len(t) >= 4
    BY <1>1, BlockLines, LenProperties
  <2> QED
    BY <2>3, <2>4 DEF IsPrefix
<1>9. OwnLines(t, r) = s
  BY <1>4, <1>5, <1>6, <1>7, <1>8 DEF OwnLines
<1>10. InstructionSuffix(t) = s
  <2> DEFINE ends == {i \in 1..(Len(t) - 1) : t[i] = "end" /\ t[i + 1] = "blank"}
  <2>1. ends = {3}
    <3>1. 3 \in ends
      BY <1>1
    <3>2. \A i \in ends : i = 3
      BY <1>1, <1>2
    <3> QED
      BY <3>1, <3>2
  <2>2. t[Len(t)] # "end"
    BY <1>1, <1>2
  <2>3. (CHOOSE i \in ends : \A j \in ends : i <= j) = 3
    <3> HIDE DEF ends
    <3>1. \E i \in ends : \A j \in ends : i <= j
      BY <2>1
    <3>2. (CHOOSE i \in ends : \A j \in ends : i <= j) \in ends
      BY <3>1
    <3> QED
      BY <3>2, <2>1
  <2>4. (CHOOSE i \in ends : \A j \in ends : i <= j) + 2 = 5
    <3> HIDE DEF ends
    <3> DEFINE first == CHOOSE i \in ends : \A j \in ends : i <= j
    <3>1. first = 3
      BY <2>3
    <3> HIDE DEF first
    <3>2. first + 2 = 5
      BY <3>1
    <3> QED
      BY <3>2 DEF first
  <2> HIDE DEF ends
  <2>5. ends # {}
    BY <2>1
  <2>6. SubSeq(t, (CHOOSE i \in ends : \A j \in ends : i <= j) + 2, Len(t)) = s
    BY <2>4, <1>7
  <2> QED
    BY <2>2, <2>5, <2>6 DEF InstructionSuffix, ends
<1> QED
  BY <1>9, <1>10 DEF t

LEMMA SuffixUnmarked ==
  ASSUME NEW s \in Seq(Lines), ~Marked(s)
  PROVE  InstructionSuffix(s) = s
<1>1. \A i \in 1..Len(s) : s[i] # "start" /\ s[i] # "end"
  BY Unmarked
<1>2. {i \in 1..(Len(s) - 1) : s[i] = "end" /\ s[i + 1] = "blank"} = {}
  BY <1>1
<1>3. ~(s # <<>> /\ s[1] = "start")
  <2> SUFFICES ASSUME s # <<>> PROVE s[1] # "start"
    OBVIOUS
  <2>1. 1 \in 1..Len(s)
    OBVIOUS
  <2> QED
    BY <2>1, <1>1
<1> QED
  BY <1>2, <1>3 DEF InstructionSuffix

(* What CI compares is what setup keeps (instruction_suffix).               *)
LEMMA SuffixIsOwn ==
  ASSUME NEW text \in Seq(Lines), NEW old \in SetupReleases, OwnLines(text, old) # Refusal
  PROVE  InstructionSuffix(text) = OwnLines(text, old)
<1> DEFINE own == OwnLines(text, old)
<1>1. /\ own \in Seq(Lines) /\ ~Marked(own)
      /\ \/ text = Block(old) /\ own = <<>>
         \/ text = own
         \/ text = Managed(old) \o own
  BY OwnLinesOf
<1> HIDE DEF own
<1>2. CASE text = Block(old) /\ own = <<>>
  BY <1>2, OwnLinesBlock DEF own
<1>3. CASE text = own
  <2>1. InstructionSuffix(own) = own
    BY <1>1, SuffixUnmarked
  <2> QED
    BY <2>1, <1>3 DEF own
<1>4. CASE text = Managed(old) \o own
  <2>1. InstructionSuffix(Managed(old) \o own) = own
    BY <1>1, OwnLinesManaged
  <2> QED
    BY <2>1, <1>4 DEF own
<1> QED
  BY <1>1, <1>2, <1>3, <1>4

(* A text that ends in the lines s, with no rule of the project above them. *)
EndsIn(text, s, m) ==
  /\ m \in Nat /\ Len(text) = m + Len(s)
  /\ \A i \in 1..m : text[i] \notin Rules
  /\ \A i \in 1..Len(s) : text[m + i] = s[i]

LEMMA EndsInOwn ==
  ASSUME NEW text \in Seq(Lines), NEW old \in SetupReleases, OwnLines(text, old) # Refusal
  PROVE  \E m \in Nat : EndsIn(text, OwnLines(text, old), m)
<1> DEFINE own == OwnLines(text, old)
<1>1. /\ own \in Seq(Lines)
      /\ \/ text = Block(old) /\ own = <<>>
         \/ text = own
         \/ text = Managed(old) \o own
  BY OwnLinesOf
<1>2. /\ \A i \in 1..3 : Block(old)[i] \notin Rules
      /\ \A i \in 1..4 : Managed(old)[i] \notin Rules
  <2>1. "start" \notin Rules /\ "end" \notin Rules /\ "blank" \notin Rules
    BY SetupConstants DEF Markers
  <2> QED
    BY <2>1, BlockLines, BlockTextUnmarked
<1> HIDE DEF own
<1>3. CASE text = Block(old) /\ own = <<>>
  <2>1. Len(text) = 3 + Len(own) /\ Len(own) = 0
    BY <1>3, BlockLines
  <2>2. EndsIn(text, own, 3)
    BY <2>1, <1>2, <1>3 DEF EndsIn
  <2> QED
    BY <2>2 DEF own
<1>4. CASE text = own
  <2>1. EndsIn(text, own, 0)
    BY <1>1, <1>4, LenProperties DEF EndsIn
  <2> QED
    BY <2>1 DEF own
<1>5. CASE text = Managed(old) \o own
  <2>1. EndsIn(text, own, 4)
    BY <1>1, <1>2, <1>5, ManagedLines DEF EndsIn
  <2> QED
    BY <2>1 DEF own
<1> QED
  BY <1>1, <1>3, <1>4, <1>5

LEMMA SameEndSameRules ==
  ASSUME NEW one \in Seq(Lines), NEW other \in Seq(Lines), NEW s \in Seq(Lines),
         NEW m \in Nat, NEW n \in Nat, EndsIn(one, s, m), EndsIn(other, s, n)
  PROVE  SameRules(one, other)
<1>0. Len(s) \in Nat /\ Len(one) = m + Len(s) /\ Len(other) = n + Len(s)
      /\ DOMAIN one = 1..(m + Len(s)) /\ DOMAIN other = 1..(n + Len(s))
  BY LenProperties DEF EndsIn
<1>1. \A i \in RuleLines(one) : i \in Int /\ i > m /\ i - m \in 1..Len(s) /\ s[i - m] = one[i]
                                /\ one[i] \in Rules
  <2> TAKE i \in RuleLines(one)
  <2>1. i \in 1..(m + Len(s)) /\ one[i] \in Rules
    BY <1>0 DEF RuleLines
  <2>2. i \notin 1..m
    BY <2>1 DEF EndsIn
  <2>3. i - m \in 1..Len(s) /\ m + (i - m) = i
    BY <2>1, <2>2, <1>0
  <2>4. one[m + (i - m)] = s[i - m]
    BY <2>3 DEF EndsIn
  <2> QED
    BY <2>1, <2>3, <2>4, <1>0
<1>2. \A i \in RuleLines(other) : i \in Int /\ i > n /\ i - n \in 1..Len(s) /\ s[i - n] = other[i]
                                /\ other[i] \in Rules
  <2> TAKE i \in RuleLines(other)
  <2>1. i \in 1..(n + Len(s)) /\ other[i] \in Rules
    BY <1>0 DEF RuleLines
  <2>2. i \notin 1..n
    BY <2>1 DEF EndsIn
  <2>3. i - n \in 1..Len(s) /\ n + (i - n) = i
    BY <2>1, <2>2, <1>0
  <2>4. other[n + (i - n)] = s[i - n]
    BY <2>3 DEF EndsIn
  <2> QED
    BY <2>1, <2>3, <2>4, <1>0
<1>3. \A k \in 1..Len(s) : s[k] \in Rules =>
        /\ m + k \in RuleLines(one) /\ n + k \in RuleLines(other)
        /\ one[m + k] = s[k] /\ other[n + k] = s[k]
  <2> SUFFICES ASSUME NEW k \in 1..Len(s), s[k] \in Rules
               PROVE  /\ m + k \in RuleLines(one) /\ n + k \in RuleLines(other)
                      /\ one[m + k] = s[k] /\ other[n + k] = s[k]
    OBVIOUS
  <2>1. one[m + k] = s[k] /\ other[n + k] = s[k]
    BY DEF EndsIn
  <2>2. m + k \in 1..(m + Len(s)) /\ n + k \in 1..(n + Len(s))
    BY <1>0
  <2> QED
    BY <2>1, <2>2, <1>0 DEF RuleLines
<1> DEFINE f == [i \in RuleLines(one) |-> n + (i - m)]
<1>4. f \in [RuleLines(one) -> RuleLines(other)]
  <2>1. \A i \in RuleLines(one) : n + (i - m) \in RuleLines(other)
    BY <1>1, <1>3
  <2> QED
    BY <2>1
<1>5. \A j \in RuleLines(other) : \E i \in RuleLines(one) : f[i] = j
  <2> TAKE j \in RuleLines(other)
  <2>1. m + (j - n) \in RuleLines(one)
    BY <1>2, <1>3
  <2>2. n + ((m + (j - n)) - m) = j
    BY <1>2
  <2>3. f[m + (j - n)] = j
    BY <2>1, <2>2
  <2> QED
    BY <2>1, <2>3
<1>6. \A i \in RuleLines(one) : other[f[i]] = one[i]
  <2> TAKE i \in RuleLines(one)
  <2>1. i - m \in 1..Len(s) /\ s[i - m] \in Rules /\ s[i - m] = one[i]
    BY <1>1
  <2>2. other[n + (i - m)] = s[i - m]
    BY <2>1, <1>3
  <2> QED
    BY <2>1, <2>2
<1>7. \A i, j \in RuleLines(one) : i < j => f[i] < f[j]
  <2> TAKE i, j \in RuleLines(one)
  <2>1. i \in Int /\ j \in Int /\ f[i] = n + (i - m) /\ f[j] = n + (j - m)
    BY <1>1
  <2> HIDE DEF f
  <2> QED
    BY <2>1
<1> HIDE DEF f
<1> QED
  BY <1>4, <1>5, <1>6, <1>7 DEF SameRules

(* What setup writes when it does not refuse: the project's own lines, read *)
(* again as what they were, so that a second setup changes nothing.         *)
LEMMA BlockIsOfRules ==
  ASSUME NEW text \in Seq(Lines), NEW old \in SetupReleases, NEW new \in SetupReleases,
         ConfigureInstructions(text, old, new) # Refusal
  PROVE  LET conf == ConfigureInstructions(text, old, new)
         IN  /\ OwnLines(text, old) # Refusal
             /\ conf \in Seq(Lines)
             /\ OwnLines(conf, new) = OwnLines(text, old)
             /\ ConfigureInstructions(conf, new, new) = conf
             /\ SameRules(text, conf)
<1> DEFINE conf == ConfigureInstructions(text, old, new)
           own == OwnLines(text, old)
<1>1. own # Refusal
  <2>1. Refusal # <<>>
    BY SetupConstants, EmptySeq
  <2>2. own = Refusal => conf = Refusal
    BY <2>1 DEF ConfigureInstructions
  <2> QED
    BY <2>2
<1>2. own \in Seq(Lines) /\ ~Marked(own)
  BY <1>1, OwnLinesOf
<1>3. conf = IF own = <<>> THEN Block(new) ELSE Managed(new) \o own
  BY <1>1 DEF ConfigureInstructions
<1> HIDE DEF conf, own
<1>4. conf \in Seq(Lines) /\ OwnLines(conf, new) = own
  <2>1. CASE own = <<>>
    BY <2>1, <1>3, BlockLines, OwnLinesBlock
  <2>2. CASE own # <<>>
    BY <2>2, <1>2, <1>3, ManagedLines, OwnLinesManaged
  <2> QED
    BY <2>1, <2>2
<1>5. OwnLines(conf, new) # Refusal
  BY <1>1, <1>4
<1>6. ConfigureInstructions(conf, new, new) = conf
  BY <1>3, <1>4, <1>5 DEF ConfigureInstructions
<1>7. PICK m \in Nat : EndsIn(text, own, m)
  BY <1>1, EndsInOwn DEF own
<1>8. PICK n \in Nat : EndsIn(conf, own, n)
  <2>1. \E n \in Nat : EndsIn(conf, OwnLines(conf, new), n)
    BY <1>4, <1>5, EndsInOwn
  <2> QED
    BY <2>1, <1>4
<1>9. SameRules(text, conf)
  BY <1>2, <1>4, <1>7, <1>8, SameEndSameRules
<1> QED
  BY <1>1, <1>4, <1>6, <1>9 DEF conf, own

TreeFields(t) ==
  /\ t.agents \in Seq(Lines) /\ t.claudeMd \in ClaudeTexts
  /\ t.files \in [ScaffoldNames -> ScaffoldContents] /\ t.at \in SetupReleases

LEMMA SetupTreesHaveFields ==
  ASSUME NEW t \in SetupTrees
  PROVE  TreeFields(t)
BY DEF SetupTrees, TreeFields

(* What a plan that is not refused writes.                                  *)
LEMMA PlannedTree ==
  ASSUME NEW t \in SetupTrees, NEW new \in SetupReleases, UpdatePlan(t, t.at, new) # Refusal
  PROVE  LET plan == UpdatePlan(t, t.at, new)
         IN  /\ plan \in SetupTrees /\ plan.at = new /\ plan.claudeMd = "none" /\ t.claudeMd # "rules"
             /\ OwnLines(t.agents, t.at) # Refusal
             /\ OwnLines(plan.agents, new) = OwnLines(t.agents, t.at)
             /\ SameRules(t.agents, plan.agents)
             /\ \A n \in ScaffoldNames :
                  /\ n \in Ships[new] => plan.files[n] = new
                  /\ n \in Ships[t.at] \ Ships[new] => plan.files[n] = NoScaffold
                  /\ n \notin Ships[t.at] \cup Ships[new] => plan.files[n] = t.files[n]
                  /\ t.files[n] = Edited => plan.files[n] = Edited
             /\ UpdatePlan(plan, new, new) = plan
<1> DEFINE plan == UpdatePlan(t, t.at, new)
           conf == ConfigureInstructions(t.agents, t.at, new)
<1>1. TreeFields(t)
  BY SetupTreesHaveFields
<1>2. ~LocalScaffoldEdit(t, t.at, new) /\ t.claudeMd # "rules" /\ conf # Refusal
  BY DEF UpdatePlan
<1>3. /\ plan.agents = conf /\ plan.claudeMd = "none" /\ plan.at = new
      /\ plan.files = [n \in ScaffoldNames |->
                         CASE n \in Ships[new] -> new
                           [] n \in Ships[t.at] \ Ships[new] -> NoScaffold
                           [] OTHER -> t.files[n]]
      /\ plan = [agents |-> conf, claudeMd |-> "none", files |-> plan.files, at |-> new]
  BY <1>2 DEF UpdatePlan
<1>4. /\ OwnLines(t.agents, t.at) # Refusal /\ conf \in Seq(Lines)
      /\ OwnLines(conf, new) = OwnLines(t.agents, t.at)
      /\ ConfigureInstructions(conf, new, new) = conf
      /\ SameRules(t.agents, conf)
  BY <1>1, <1>2, BlockIsOfRules DEF TreeFields
<1>5. Ships[new] \subseteq ScaffoldNames /\ Ships[t.at] \subseteq ScaffoldNames
  BY <1>1, SetupConstants DEF TreeFields
<1>6. \A n \in ScaffoldNames :
        /\ n \in Ships[new] => plan.files[n] = new
        /\ n \in Ships[t.at] \ Ships[new] => plan.files[n] = NoScaffold
        /\ n \notin Ships[t.at] \cup Ships[new] => plan.files[n] = t.files[n]
  <2> HIDE DEF plan, conf
  <2> QED
    BY <1>3
<1> HIDE DEF plan, conf
<1>7. plan.files \in [ScaffoldNames -> ScaffoldContents]
  <2>1. \A n \in ScaffoldNames : plan.files[n] \in ScaffoldContents
    BY <1>1, <1>6 DEF ScaffoldContents, TreeFields
  <2>2. DOMAIN plan.files = ScaffoldNames
    BY <1>3
  <2>3. plan.files = [n \in ScaffoldNames |-> plan.files[n]]
    BY <1>3
  <2> QED
    BY <2>1, <2>3
<1>8. plan \in SetupTrees
  BY <1>3, <1>4, <1>7 DEF SetupTrees, ClaudeTexts
<1>9. \A n \in ScaffoldNames : t.files[n] = Edited => plan.files[n] = Edited
  <2> SUFFICES ASSUME NEW n \in ScaffoldNames, t.files[n] = Edited PROVE plan.files[n] = Edited
    OBVIOUS
  <2>1. Edited # NoScaffold /\ Edited # t.at /\ Edited # new
    BY <1>1, SetupConstants DEF TreeFields
  <2>2. n \notin Ships[t.at] \cup Ships[new]
    BY <1>2, <2>1 DEF LocalScaffoldEdit
  <2> QED
    BY <2>2, <1>6
<1>10. UpdatePlan(plan, new, new) = plan
  <2>1. ~LocalScaffoldEdit(plan, new, new)
    <3>1. \A n \in Ships[new] : plan.files[n] = new
      BY <1>5, <1>6
    <3> QED
      BY <3>1 DEF LocalScaffoldEdit
  <2>2. ConfigureInstructions(plan.agents, new, new) = plan.agents /\ plan.agents # Refusal
    BY <1>2, <1>3, <1>4
  <2> DEFINE files == [n \in ScaffoldNames |->
                         CASE n \in Ships[new] -> new
                           [] n \in Ships[new] \ Ships[new] -> NoScaffold
                           [] OTHER -> plan.files[n]]
  <2>3. files = plan.files
    <3>1. \A n \in ScaffoldNames : files[n] = plan.files[n]
      BY <1>6
    <3>2. plan.files = [n \in ScaffoldNames |-> plan.files[n]]
      BY <1>7
    <3>3. files = [n \in ScaffoldNames |-> plan.files[n]]
      BY <3>1
    <3> QED
      BY <3>2, <3>3
  <2>4. UpdatePlan(plan, new, new) =
          [agents |-> plan.agents, claudeMd |-> "none", files |-> files, at |-> new]
    BY <1>3, <2>1, <2>2 DEF UpdatePlan
  <2> HIDE DEF files
  <2> QED
    BY <2>3, <2>4, <1>3
<1> QED
  BY <1>2, <1>3, <1>4, <1>6, <1>8, <1>9, <1>10 DEF plan

(* An update alone proves itself.                                           *)
LEMMA PlanIsInstalled ==
  ASSUME NEW b \in SetupTrees, NEW new \in SetupReleases, new # b.at,
         UpdatePlan(b, b.at, new) # Refusal
  PROVE  ReleaseInstalled(b, UpdatePlan(b, b.at, new))
<1> DEFINE plan == UpdatePlan(b, b.at, new)
<1>1. /\ plan \in SetupTrees /\ plan.at = new
      /\ OwnLines(b.agents, b.at) # Refusal
      /\ OwnLines(plan.agents, new) = OwnLines(b.agents, b.at)
      /\ \A n \in ScaffoldNames :
           /\ n \in Ships[b.at] \ Ships[new] => plan.files[n] = NoScaffold
           /\ n \notin Ships[b.at] \cup Ships[new] => plan.files[n] = b.files[n]
      /\ UpdatePlan(plan, new, new) = plan
  BY PlannedTree
<1> HIDE DEF plan
<1>2. TreeFields(b) /\ TreeFields(plan)
  BY <1>1, SetupTreesHaveFields
<1>3. InstructionSuffix(b.agents) = InstructionSuffix(plan.agents)
  <2>1. InstructionSuffix(b.agents) = OwnLines(b.agents, b.at)
    BY <1>1, <1>2, SuffixIsOwn DEF TreeFields
  <2>2. InstructionSuffix(plan.agents) = OwnLines(plan.agents, new)
    BY <1>1, <1>2, SuffixIsOwn DEF TreeFields
  <2> QED
    BY <2>1, <2>2, <1>1
<1>4. Ships[b.at] \subseteq ScaffoldNames
  BY <1>2, SetupConstants DEF TreeFields
<1>5. ReleaseInstalled(b, plan)
  BY <1>1, <1>3, <1>4 DEF ReleaseInstalled
<1> QED
  BY <1>5 DEF plan

(* What proves itself an update carries no work.                            *)
LEMMA InstalledCarriesNoWork ==
  ASSUME NEW b \in SetupTrees, NEW t \in SetupTrees,
         ReleaseInstalled(b, t), OwnLines(b.agents, b.at) # Refusal
  PROVE  /\ SameRules(b.agents, t.agents)
         /\ \A n \in ScaffoldNames : t.files[n] = Edited => b.files[n] = Edited
<1>1. TreeFields(b) /\ TreeFields(t)
  BY SetupTreesHaveFields
<1>2. UpdatePlan(t, t.at, t.at) = t /\ t # Refusal
  BY SetupConstants DEF ReleaseInstalled
<1>3. /\ OwnLines(t.agents, t.at) # Refusal
      /\ \A n \in ScaffoldNames : n \in Ships[t.at] => t.files[n] = t.at
  BY <1>1, <1>2, PlannedTree DEF TreeFields
<1>4. SameRules(b.agents, t.agents)
  <2> DEFINE own == OwnLines(b.agents, b.at)
             fromTree == OwnLines(t.agents, t.at)
  <2>1. PICK m \in Nat : EndsIn(b.agents, own, m)
    BY <1>1, EndsInOwn DEF TreeFields
  <2>2. PICK n \in Nat : EndsIn(t.agents, fromTree, n)
    BY <1>1, <1>3, EndsInOwn DEF TreeFields
  <2>3. own \in Seq(Lines) /\ fromTree \in Seq(Lines)
    BY <1>1, <1>3, OwnLinesOf DEF TreeFields
  <2>4. InstructionSuffix(b.agents) = own /\ InstructionSuffix(t.agents) = fromTree
    BY <1>1, <1>3, SuffixIsOwn DEF TreeFields
  <2> HIDE DEF own, fromTree
  <2>5. CASE t.agents = b.agents
    BY <2>1, <2>3, <2>5, <1>1, SameEndSameRules DEF TreeFields
  <2>6. CASE t.agents # b.agents
    <3>1. fromTree = own
      BY <2>4, <2>6 DEF ReleaseInstalled
    <3> QED
      BY <2>1, <2>2, <2>3, <3>1, <1>1, SameEndSameRules DEF TreeFields
  <2> QED
    BY <2>5, <2>6
<1>5. ASSUME NEW n \in ScaffoldNames, t.files[n] = Edited
      PROVE  b.files[n] = Edited
  <2>1. Edited # NoScaffold /\ Edited # t.at
    BY <1>1, SetupConstants DEF TreeFields
  <2>2. n \notin Ships[t.at]
    BY <1>3, <1>5, <2>1
  <2>3. n \notin Ships[b.at]
    BY <2>1, <2>2, <1>5 DEF ReleaseInstalled
  <2> QED
    BY <2>2, <2>3, <1>5 DEF ReleaseInstalled
<1> QED
  BY <1>4, <1>5

(* The invariant: a branch that is its base and one update is the plan of   *)
(* that update over the base.                                               *)
UpdatedBase ==
  justUpdated => /\ tree.at > treeBase.at
                 /\ UpdatePlan(treeBase, treeBase.at, tree.at) # Refusal
                 /\ tree = UpdatePlan(treeBase, treeBase.at, tree.at)

SetupInv == SetupTypeOK /\ UpdatedBase

LEMMA SetupInitInv == SetupInit => SetupInv
<1> SUFFICES ASSUME SetupInit PROVE SetupInv
  OBVIOUS
<1>1. PICK own \in {<<>>} \cup {<<r>> : r \in Rules} :
        tree = [agents |-> IF own = <<>> THEN Block(1) ELSE Managed(1) \o own,
                claudeMd |-> "none",
                files |-> [n \in ScaffoldNames |-> IF n \in Ships[1] THEN 1 ELSE NoScaffold],
                at |-> 1]
  BY DEF SetupInit
<1>2. 1 \in SetupReleases
  BY SetupConstants
<1>3. own \in Seq(Lines)
  <2>1. \A r \in Rules : <<r>> \in Seq(Lines)
    BY DEF Lines
  <2> QED
    BY <2>1, EmptySeq
<1>4. tree.agents \in Seq(Lines)
  BY <1>1, <1>2, <1>3, BlockLines, ManagedLines
<1>5. tree.files \in [ScaffoldNames -> ScaffoldContents]
  BY <1>1, <1>2 DEF ScaffoldContents
<1>6. tree \in SetupTrees
  BY <1>1, <1>2, <1>4, <1>5 DEF SetupTrees, ClaudeTexts
<1>7. treeBase = tree /\ justUpdated = FALSE /\ setupEdits = 0
  BY DEF SetupInit
<1>8. 0 \in 0..MaxSetupEdits
  BY SetupConstants
<1> QED
  BY <1>6, <1>7, <1>8 DEF SetupInv, SetupTypeOK, UpdatedBase

LEMMA InstallUpdateInv == SetupInv /\ InstallUpdate => SetupInv' /\ SetupKeepsRules
<1> SUFFICES ASSUME SetupInv, InstallUpdate PROVE SetupInv' /\ SetupKeepsRules
  OBVIOUS
<1>1. PICK new \in SetupReleases : /\ new > tree.at
                                  /\ UpdatePlan(tree, tree.at, new) # Refusal
                                  /\ tree' = UpdatePlan(tree, tree.at, new)
  BY DEF InstallUpdate
<1>2. tree \in SetupTrees /\ treeBase \in SetupTrees
  BY DEF SetupInv, SetupTypeOK
<1>3. /\ tree' \in SetupTrees /\ tree'.at = new /\ tree.claudeMd # "rules"
      /\ SameRules(tree.agents, tree'.agents)
      /\ \A n \in ScaffoldNames : tree.files[n] = Edited => tree'.files[n] = Edited
  BY <1>1, <1>2, PlannedTree
<1>4. UpdatedBase'
  BY <1>1, <1>3 DEF InstallUpdate, UpdatedBase
<1>5. SetupTypeOK'
  BY <1>2, <1>3 DEF InstallUpdate, SetupInv, SetupTypeOK
<1> QED
  BY <1>3, <1>4, <1>5 DEF SetupInv, SetupKeepsRules

LEMMA RepairInstallInv == SetupInv /\ RepairInstall => SetupInv' /\ SetupKeepsRules
<1> SUFFICES ASSUME SetupInv, RepairInstall PROVE SetupInv' /\ SetupKeepsRules
  OBVIOUS
<1>1. tree \in SetupTrees /\ treeBase \in SetupTrees /\ tree.at \in SetupReleases
  BY SetupTreesHaveFields DEF SetupInv, SetupTypeOK, TreeFields
<1>2. UpdatePlan(tree, tree.at, tree.at) # Refusal /\ tree' = UpdatePlan(tree, tree.at, tree.at)
  BY DEF RepairInstall
<1>3. /\ tree' \in SetupTrees /\ tree.claudeMd # "rules"
      /\ SameRules(tree.agents, tree'.agents)
      /\ \A n \in ScaffoldNames : tree.files[n] = Edited => tree'.files[n] = Edited
  BY <1>1, <1>2, PlannedTree
<1> QED
  BY <1>1, <1>3 DEF RepairInstall, SetupInv, SetupTypeOK, UpdatedBase, SetupKeepsRules

LEMMA LandTreeInv == SetupInv /\ LandTree => SetupInv' /\ SetupKeepsRules
BY DEF SetupInv, SetupTypeOK, LandTree, UpdatedBase, SetupKeepsRules

(* An edit puts a line in or takes one out.                                 *)
LEMMA PartOfText ==
  ASSUME NEW text \in Seq(Lines), NEW i \in Int, NEW j \in Int, i >= 1, j <= Len(text)
  PROVE  SubSeq(text, i, j) \in Seq(Lines)
<1>1. \A k \in i..j : text[k] \in Lines
  <2> TAKE k \in i..j
  <2>1. k \in 1..Len(text)
    BY LenProperties
  <2> QED
    BY <2>1, ElementOfSeq
<1> QED
  BY <1>1, SubSeqProperties

LEMMA LineInserted ==
  ASSUME NEW text \in Seq(Lines), NEW i \in 1..(Len(text) + 1), NEW line \in Lines
  PROVE  InsertAt(text, i, line) \in Seq(Lines)
<1>1. SubSeq(text, 1, i - 1) \in Seq(Lines) /\ SubSeq(text, i, Len(text)) \in Seq(Lines)
  BY PartOfText, LenProperties
<1>2. <<line>> \in Seq(Lines)
  OBVIOUS
<1>3. SubSeq(text, 1, i - 1) \o <<line>> \in Seq(Lines)
  BY <1>1, <1>2, ConcatProperties
<1>4. (SubSeq(text, 1, i - 1) \o <<line>>) \o SubSeq(text, i, Len(text)) \in Seq(Lines)
  BY <1>1, <1>3, ConcatProperties
<1> QED
  BY <1>4 DEF InsertAt

LEMMA LineRemoved ==
  ASSUME NEW text \in Seq(Lines), NEW i \in 1..Len(text)
  PROVE  RemoveAt(text, i) \in Seq(Lines)
<1>1. SubSeq(text, 1, i - 1) \in Seq(Lines) /\ SubSeq(text, i + 1, Len(text)) \in Seq(Lines)
  BY PartOfText, LenProperties
<1>2. SubSeq(text, 1, i - 1) \o SubSeq(text, i + 1, Len(text)) \in Seq(Lines)
  BY <1>1, ConcatProperties
<1> QED
  BY <1>2 DEF RemoveAt

LEMMA EditSetupInv == SetupInv /\ EditSetup => SetupInv' /\ SetupKeepsRules
<1> SUFFICES ASSUME SetupInv, EditSetup PROVE SetupInv' /\ SetupKeepsRules
  OBVIOUS
<1>1. tree \in SetupTrees /\ treeBase \in SetupTrees /\ TreeFields(tree) /\ setupEdits \in 0..MaxSetupEdits
  BY SetupTreesHaveFields DEF SetupInv, SetupTypeOK
<1>2. /\ setupEdits' = setupEdits + 1 /\ setupEdits < MaxSetupEdits
      /\ justUpdated' = FALSE /\ treeBase' = treeBase
  BY DEF EditSetup
<1>3. setupEdits' \in 0..MaxSetupEdits /\ setupEdits' # setupEdits
  BY <1>1, <1>2, SetupConstants
<1>4. tree' \in SetupTrees
  <2>1. ASSUME NEW text \in Seq(Lines), tree' = [tree EXCEPT !.agents = text]
        PROVE  tree' \in SetupTrees
    BY <1>1, <2>1 DEF SetupTrees
  <2>2. CASE \E i \in 1..(Len(tree.agents) + 1) : \E line \in Markers \cup Rules :
               tree' = [tree EXCEPT !.agents = InsertAt(@, i, line)]
    <3>1. PICK i \in 1..(Len(tree.agents) + 1), line \in Markers \cup Rules :
            tree' = [tree EXCEPT !.agents = InsertAt(tree.agents, i, line)]
      BY <2>2
    <3>2. line \in Lines
      BY DEF Lines
    <3>3. InsertAt(tree.agents, i, line) \in Seq(Lines)
      BY <1>1, <3>2, LineInserted DEF TreeFields
    <3> QED
      BY <2>1, <3>1, <3>3
  <2>3. CASE \E i \in DOMAIN tree.agents : tree' = [tree EXCEPT !.agents = RemoveAt(@, i)]
    <3>1. DOMAIN tree.agents = 1..Len(tree.agents)
      BY <1>1, LenProperties DEF TreeFields
    <3>2. PICK i \in 1..Len(tree.agents) : tree' = [tree EXCEPT !.agents = RemoveAt(tree.agents, i)]
      BY <2>3, <3>1
    <3>3. RemoveAt(tree.agents, i) \in Seq(Lines)
      BY <1>1, LineRemoved DEF TreeFields
    <3> QED
      BY <2>1, <3>2, <3>3
  <2>4. CASE \E n \in ScaffoldNames : \E c \in {NoScaffold, Edited} :
               tree' = [tree EXCEPT !.files[n] = c]
    <3>1. PICK n \in ScaffoldNames, c \in {NoScaffold, Edited} :
            tree' = [tree EXCEPT !.files = [tree.files EXCEPT ![n] = c]]
      BY <2>4
    <3>2. [tree.files EXCEPT ![n] = c] \in [ScaffoldNames -> ScaffoldContents]
      BY <1>1 DEF TreeFields, ScaffoldContents
    <3> QED
      BY <1>1, <3>1, <3>2 DEF SetupTrees
  <2>5. CASE \E c \in ClaudeTexts : tree' = [tree EXCEPT !.claudeMd = c]
    BY <1>1, <2>5 DEF SetupTrees
  <2> QED
    BY <2>2, <2>3, <2>4, <2>5 DEF EditSetup
<1> QED
  BY <1>1, <1>2, <1>3, <1>4 DEF SetupInv, SetupTypeOK, UpdatedBase, SetupKeepsRules

LEMMA SetupNextInv == SetupInv /\ [SetupNext]_setupVars => SetupInv' /\ [SetupKeepsRules]_setupVars
<1> SUFFICES ASSUME SetupInv, [SetupNext]_setupVars
             PROVE  SetupInv' /\ [SetupKeepsRules]_setupVars
  OBVIOUS
<1>1. CASE InstallUpdate
  BY <1>1, InstallUpdateInv
<1>2. CASE RepairInstall
  BY <1>2, RepairInstallInv
<1>3. CASE LandTree
  BY <1>3, LandTreeInv
<1>4. CASE EditSetup
  BY <1>4, EditSetupInv
<1>5. CASE UNCHANGED setupVars
  BY <1>5 DEF SetupInv, SetupTypeOK, UpdatedBase, setupVars
<1> QED
  BY <1>1, <1>2, <1>3, <1>4, <1>5 DEF SetupNext

LEMMA SetupInvSafe == SetupInv => UpdateProvesItself /\ ProvenCarriesNoWork
<1> SUFFICES ASSUME SetupInv PROVE UpdateProvesItself /\ ProvenCarriesNoWork
  OBVIOUS
<1>1. tree \in SetupTrees /\ treeBase \in SetupTrees /\ TreeFields(tree) /\ TreeFields(treeBase)
  BY SetupTreesHaveFields DEF SetupInv, SetupTypeOK
<1>2. ASSUME justUpdated PROVE ReleaseInstalled(treeBase, tree)
  <2>1. /\ tree.at > treeBase.at /\ UpdatePlan(treeBase, treeBase.at, tree.at) # Refusal
        /\ tree = UpdatePlan(treeBase, treeBase.at, tree.at)
    BY <1>2 DEF SetupInv, UpdatedBase
  <2>2. tree.at # treeBase.at /\ tree.at \in SetupReleases
    <3>1. tree.at \in SetupReleases /\ treeBase.at \in SetupReleases
      BY <1>1 DEF TreeFields
    <3>2. tree.at \in Nat /\ treeBase.at \in Nat
      BY <3>1, SetupConstants
    <3> QED
      BY <2>1, <3>1, <3>2
  <2>3. ReleaseInstalled(treeBase, UpdatePlan(treeBase, treeBase.at, tree.at))
    BY <1>1, <2>1, <2>2, PlanIsInstalled
  <2> QED
    BY <2>1, <2>3
<1> QED
  BY <1>1, <1>2, InstalledCarriesNoWork DEF UpdateProvesItself, ProvenCarriesNoWork

(* An update is let through by CI, what is let through carries the rules    *)
(* and the files of its base, and setup never writes over either            *)
(* (agent_hooks.configure_instructions, update.release_installed), for any  *)
(* AGENTS.md, however often people edit and releases land.                  *)
THEOREM SetupStaysSafe == SetupSpec => SetupSafe
<1>1. SetupSpec => []SetupInv
  BY SetupInitInv, SetupNextInv, PTL DEF SetupSpec
<1>2. SetupSpec => [][SetupKeepsRules]_setupVars
  BY <1>1, SetupNextInv, PTL DEF SetupSpec
<1> QED
  BY <1>1, <1>2, SetupInvSafe, PTL DEF SetupSafe

-----------------------------------------------------------------------------
(* The types of each part. *)

\* The types of findings, of the debt on record and of an adoption's progress.
THEOREM DebtTyping == DebtSpec => []DebtTypeOK
<1>1. DebtInv => DebtTypeOK
  BY DEF DebtInv, DebtTyped, MainTyped, DebtRecords, DebtTypeOK
<1> QED
  BY DebtInitInv, DebtNextInv, <1>1, PTL DEF DebtSpec

\* The types of the push hook, its kept copy and the installer that writes them.
THEOREM HooksTyping == HooksSpec => []HooksTypeOK
<1> DEFINE Typed == runnable \in BOOLEAN /\ husky \in BOOLEAN
<1>1. HooksInit => Typed
  BY DEF HooksInit
<1>2. Typed /\ [HooksNext]_hookVars => Typed'
  BY DEF HooksNext, StartInstall, StartRepair, SetupHook, SwapHusky, Starting, InstallStep,
     LookAtHook, OpenCopy, FillCopy, TruncateHook, WriteHook, MakeRunnable, OthersWrite,
     HookRemoved, InstallKilled, Stepping, hookVars
<1>3. HookInv /\ Typed => HooksTypeOK
  BY DEF HookInv, HookTyped, HooksTypeOK
<1> HIDE DEF Typed
<1> QED
  BY HookInitInv, HookNextInv, <1>1, <1>2, <1>3, PTL DEF HooksSpec

\* The types of launchers, files, locks and of each check's progress.
THEOREM ToolsTyping == ToolsSpec => []ToolsTypeOK
<1>1. ToolInv /\ KitInv => ToolsTypeOK
  <2> SUFFICES ASSUME ToolInv, KitInv PROVE ToolsTypeOK
    OBVIOUS
  <2>1. \A k \in ToolChecks : job[k].holds \in 0..MaxVersion /\ job[k].drops \in 0..MaxVersion
    BY DEF ToolInv, ToolTyped
  <2>2. installing \in ToolChecks \cup {NoCheck}
    BY DEF ToolInv, LocksHeld
  <2> QED
    BY <2>1, <2>2 DEF ToolInv, ToolTyped, KitInv, ToolsTypeOK
<1>2. ToolsInit => ToolInv /\ KitInv
  BY ToolInitInv, KitInitInv
<1>3. ToolInv /\ KitInv /\ [ToolsNext]_toolVars => (ToolInv /\ KitInv)'
  BY ToolNextInv, KitNextInv
<1> QED
  BY <1>1, <1>2, <1>3, PTL DEF ToolsSpec

LEMMA FreshTypeInit == FreshInit => FreshTypeOK
<1> SUFFICES ASSUME FreshInit PROVE FreshTypeOK
  OBVIOUS
<1>1. Min(PackageVersions) \in PackageVersions
  <2>1. PICK least \in PackageVersions : \A v \in PackageVersions : least =< v
    BY FreshConstants
  <2> QED BY <2>1 DEF Min
<1>2. DOMAIN releasedOn = {Min(PackageVersions)} /\ releasedOn[Min(PackageVersions)] = 0
  BY DEF FreshInit
<1>3. today = 0 /\ 0 \in 0..today /\ today \in FreshDays
  BY FreshConstants DEF FreshInit, FreshDays
<1>4. \A v \in DOMAIN releasedOn : releasedOn[v] \in 0..today
  BY <1>2, <1>3
<1>5. /\ yanked = {} /\ inUse = Min(PackageVersions) /\ hold = NoHold /\ passedNow = FALSE
  BY DEF FreshInit
<1> QED
  BY <1>1, <1>2, <1>3, <1>4, <1>5 DEF FreshTypeOK

LEMMA FreshTypeStep == FreshTypeOK /\ [FreshNext]_freshVars => FreshTypeOK'
<1> SUFFICES ASSUME FreshTypeOK, [FreshNext]_freshVars PROVE FreshTypeOK'
  OBVIOUS
<1> USE FreshConstants
<1>1. CASE CheckFreshness
  <2>1. hold' \in HoldTexts \cup {NoHold}
    <3>1. CASE hold # NoHold /\ ValidHold /\ hold.first = NoHold
      <4>1. hold \in HoldTexts /\ hold' = [hold EXCEPT !.first = today] /\ today \in FreshDays
        BY <1>1, <3>1 DEF CheckFreshness, FreshTypeOK
      <4> QED
        BY <4>1 DEF HoldTexts
    <3>2. CASE ~(hold # NoHold /\ ValidHold /\ hold.first = NoHold)
      BY <1>1, <3>2 DEF CheckFreshness, FreshTypeOK
    <3> QED
      BY <3>1, <3>2
  <2>2. passedNow' \in BOOLEAN
    BY <1>1 DEF CheckFreshness, FreshnessPasses
  <2>3. UNCHANGED <<today, releasedOn, yanked, inUse>>
    BY <1>1 DEF CheckFreshness
  <2>4. /\ today' \in FreshDays /\ DOMAIN releasedOn' \subseteq PackageVersions
        /\ \A v \in DOMAIN releasedOn' : releasedOn'[v] \in 0..today'
        /\ yanked' \subseteq DOMAIN releasedOn' /\ inUse' \in PackageVersions
    BY <2>3 DEF FreshTypeOK
  <2> QED
    BY <2>1, <2>2, <2>4 DEF FreshTypeOK
<1>2. CASE NextDay
  <2>1. /\ today' = today + 1 /\ today < LastDay /\ passedNow' = FALSE
        /\ UNCHANGED <<releasedOn, yanked, inUse, hold>>
    BY <1>2 DEF NextDay
  <2>2. today \in 0..LastDay
    BY DEF FreshTypeOK, FreshDays
  <2>3. today' \in 0..LastDay /\ \A d \in 0..today : d \in 0..today'
    BY <2>1, <2>2
  <2>4. today' \in FreshDays
    BY <2>3 DEF FreshDays
  <2>5. \A v \in DOMAIN releasedOn : releasedOn[v] \in 0..today'
    BY <2>3 DEF FreshTypeOK
  <2> QED
    BY <2>1, <2>4, <2>5 DEF FreshTypeOK
<1>3. CASE PublishVersion
  <2>1. PICK v \in PackageVersions \ DOMAIN releasedOn :
          releasedOn' = [u \in DOMAIN releasedOn \cup {v} |-> IF u = v THEN today ELSE releasedOn[u]]
    BY <1>3 DEF PublishVersion
  <2>2. DOMAIN releasedOn' = DOMAIN releasedOn \cup {v}
        /\ \A u \in DOMAIN releasedOn' : releasedOn'[u] = IF u = v THEN today ELSE releasedOn[u]
    BY <2>1
  <2>3. today \in 0..today
    BY DEF FreshTypeOK, FreshDays
  <2> QED
    BY <1>3, <2>2, <2>3 DEF PublishVersion, FreshTypeOK
<1>4. CASE Yank
  BY <1>4 DEF Yank, FreshTypeOK
<1>5. CASE Upgrade
  BY <1>5 DEF Upgrade, FreshTypeOK
<1>6. CASE WriteHold
  <2>1. PICK v \in PackageVersions, d \in 0..(MaxHold + 1) :
          hold' = [version |-> v, until |-> today + d, first |-> NoHold]
    BY <1>6 DEF WriteHold
  <2>2. today + d \in 0..(LastDay + MaxHold + 1)
    BY DEF FreshTypeOK, FreshDays
  <2>3. hold' \in HoldTexts
    BY <2>1, <2>2 DEF HoldTexts
  <2> QED
    BY <1>6, <2>3 DEF WriteHold, FreshTypeOK
<1>7. CASE UNCHANGED freshVars
  BY <1>7 DEF freshVars, FreshTypeOK
<1> QED
  BY <1>1, <1>2, <1>3, <1>4, <1>5, <1>6, <1>7 DEF FreshNext

\* The types of a dependency's versions, holds and days.
THEOREM FreshTyping == FreshSpec => []FreshTypeOK
BY FreshTypeInit, FreshTypeStep, PTL DEF FreshSpec

\* The types of the agents' files, their entries and the environment.
THEOREM McpTyping == McpSpec => []McpTypeOK
<1>1. McpSpec => []McpInv
  BY McpInitInv, McpStepInv, PTL DEF McpSpec
<1>2. McpInv => McpTypeOK
  BY DEF McpInv
<1> QED
  BY <1>1, <1>2, PTL

\* The types of the trees that setup writes and CI compares.
THEOREM SetupTyping == SetupSpec => []SetupTypeOK
<1>1. SetupInv => SetupTypeOK
  BY DEF SetupInv
<1> QED
  BY SetupInitInv, SetupNextInv, <1>1, PTL DEF SetupSpec
==============================================================================
