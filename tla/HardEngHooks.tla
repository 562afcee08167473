----------------------------- MODULE HardEngHooks -----------------------------
(***************************************************************************)
(* Hard Eng's git hook in front of the project's own (.hooks/hook_chain.py, *)
(* project_pre_push, install_planned_hook, repair_current_hook): the hook  *)
(* the project had is kept in a copy beside it, which the launcher runs    *)
(* first.  People and hook managers write the same file at any time, and   *)
(* the installer may be killed between any two of its writes.              *)
(*                                                                         *)
(* One hook name of one hooks folder; installers of a repository run under *)
(* the update lock, one at a time.  The file is .git/hooks/pre-push, which *)
(* the installer writes itself, or Husky's committed .husky/pre-push, which *)
(* an update writes as one of its files.                                   *)
(***************************************************************************)
EXTENDS FiniteSets, Naturals

CONSTANTS
  OwnHooks,      \* texts a project may have as its hook
  Manager,       \* the hook manager whose marker a text bears, or NoManager
  NoManager,
  Launchers,     \* texts Hard Eng has installed (LAUNCHERS), old ones too
  Broken,        \* a file between its truncation and its write
  NoFile,
  MaxHookEvents  \* bound: hooks written by others, and kills

ASSUME HookConstants ==
  /\ Manager \in [OwnHooks -> {NoManager} \cup {Manager[h] : h \in OwnHooks}]
  /\ OwnHooks \cap Launchers = {} /\ {Broken, NoFile} \cap (OwnHooks \cup Launchers) = {}
  /\ Broken # NoFile /\ MaxHookEvents \in Nat

VARIABLES
  husky,     \* the file is Husky's, tracked and run by its shim
  hook,      \* the hook file
  runnable,  \* its executable bit
  kept,      \* the copy beside it, pre-push.project
  step,      \* the installer
  launcher,  \* the text it installs
  latest,    \* history: the last hook the project wrote there
  overwritten, \* history: the one an update wrote over beside an older copy
  hookEvents

hookVars == <<husky, hook, runnable, kept, step, launcher, latest, overwritten, hookEvents>>

HookFiles == OwnHooks \cup Launchers \cup {Broken, NoFile}

HooksInit ==
  /\ husky \in BOOLEAN
  /\ hook \in OwnHooks \cup {NoFile} /\ runnable = TRUE /\ kept = NoFile
  /\ step = "idle" /\ launcher \in Launchers
  /\ latest = hook /\ overwritten = NoFile /\ hookEvents = 0

-----------------------------------------------------------------------------
\* foreign_hook: there is one, and it is none of the texts Hard Eng installs.
ForeignHook == hook \notin Launchers \cup {NoFile}

ManagerOf(text) == IF text \in OwnHooks THEN Manager[text] ELSE NoManager

\* reinstalled: the manager that wrote the kept copy wrote the new hook too.
Reinstalled == ManagerOf(kept) # NoManager /\ ManagerOf(kept) = ManagerOf(hook)

\* Mutant: the kept copy is not looked at.
CheckFree_Mutant == TRUE

\* check_free: the copy is free, holds this very hook, or an older one of its manager.
CheckFree == ~ForeignHook \/ kept \in {NoFile, hook} \/ Reinstalled

\* planned_hook: a hook of the project's in Husky's file is for setup to keep first.
HookPlanned == ~(husky /\ ForeignHook /\ kept = NoFile)

Stepping(next) == step' = next /\ UNCHANGED <<husky, launcher, latest, overwritten, hookEvents>>
Starting ==
  step = "idle" /\ UNCHANGED <<husky, hook, runnable, kept, latest, overwritten, hookEvents>>

\* update, with a release to install; its launcher may be another text, and Husky's file,
\* when it changes, is among those commit_update writes.
StartInstall ==
  /\ Starting /\ HookPlanned /\ launcher' \in Launchers
  /\ step' = IF husky /\ hook # launcher' THEN "swap" ELSE "look"

\* write_verified, of the content planned_hook saw: nothing is kept first.  A project's hook
\* it writes over, beside an older or unfinished copy, is in the project's history alone.
SwapHusky ==
  /\ step = "swap" /\ hook' = launcher /\ step' = "idle"
  /\ overwritten' = IF hook = latest /\ kept # hook THEN latest ELSE overwritten
  /\ UNCHANGED <<husky, runnable, kept, launcher, latest, hookEvents>>

\* Without one, repair_current_hook, of a hook that is missing or not Hard Eng's, or
\* repair_installation, of any.
StartRepair ==
  /\ Starting /\ HookPlanned /\ UNCHANGED launcher /\ step' = "look"

\* The setup command, which installs Husky's file like any other.
SetupHook ==
  /\ Starting /\ husky /\ launcher' \in Launchers /\ step' = "look"

\* install_planned_hook: nothing to do, refused, kept already, or to be kept first.
LookAtHook ==
  /\ step = "look"
  /\ Stepping(IF (hook = launcher /\ runnable) \/ ~CheckFree THEN "idle"
              ELSE IF ForeignHook /\ kept # hook THEN "copy" ELSE "install")
  /\ UNCHANGED <<hook, runnable, kept>>

\* shutil.copy2 opens the copy and then fills it from the hook as it is then.
OpenCopy ==
  /\ step = "copy" /\ kept' = Broken /\ Stepping("fill") /\ UNCHANGED <<hook, runnable>>
FillCopy ==
  /\ step = "fill" /\ kept' = hook /\ Stepping("install") /\ UNCHANGED <<hook, runnable>>

\* write_text truncates and writes the launcher; chmod makes it run.
TruncateHook ==
  /\ step = "install" /\ hook' = Broken
  /\ runnable' = (runnable /\ hook # NoFile)
  /\ Stepping("write") /\ UNCHANGED kept
WriteHook ==
  /\ step = "write" /\ hook' = launcher /\ Stepping("mode") /\ UNCHANGED <<runnable, kept>>
MakeRunnable ==
  /\ step = "mode" /\ runnable' = TRUE /\ Stepping("idle") /\ UNCHANGED <<hook, kept>>

InstallStep ==
  LookAtHook \/ OpenCopy \/ FillCopy \/ TruncateHook \/ WriteHook \/ MakeRunnable

-----------------------------------------------------------------------------
\* A person or a manager writes the hook, which stops an update that is about to write
\* Husky's.  After its look at the hook an installation cannot tell, so a hook written then,
\* which it overwrites, is not followed.
OthersWrite ==
  /\ step \in {"idle", "look", "swap"}
  /\ \E h \in OwnHooks \ {hook} : hook' = h /\ latest' = h
  /\ runnable' = TRUE /\ overwritten' = NoFile /\ step' = IF step = "swap" THEN "idle" ELSE step
  /\ UNCHANGED <<husky, kept, launcher>>

HookRemoved ==
  /\ step = "idle" /\ hook # NoFile
  /\ hook' = NoFile /\ UNCHANGED <<husky, runnable, kept, step, launcher, overwritten>>
  /\ latest' = IF latest = hook /\ kept # hook THEN NoFile ELSE latest

InstallKilled ==
  /\ step # "idle" /\ step' = "idle"
  /\ UNCHANGED <<husky, hook, runnable, kept, launcher, latest, overwritten>>

HooksNext ==
  \/ StartInstall \/ SwapHusky \/ StartRepair \/ SetupHook \/ InstallStep
  \/ /\ hookEvents < MaxHookEvents /\ hookEvents' = hookEvents + 1
     /\ OthersWrite \/ HookRemoved \/ InstallKilled

HooksSpec == HooksInit /\ [][HooksNext]_hookVars

-----------------------------------------------------------------------------
\* The variables hold values of the program.
HooksTypeOK ==
  /\ hook \in HookFiles /\ kept \in HookFiles /\ runnable \in BOOLEAN
  /\ husky \in BOOLEAN /\ overwritten \in OwnHooks \cup {NoFile}
  /\ step \in {"idle", "swap", "look", "copy", "fill", "install", "write", "mode"}

\* The hook the project wrote last is still there, as the hook or as its copy, after any
\* sequence of setups, updates, repairs, kills and reinstallations by managers (preserve),
\* but for one an update wrote over in Husky's committed file, beside an older or unfinished
\* copy.
LastHookKept ==
  \/ latest = NoFile \/ latest \in {hook, kept}
  \/ husky /\ latest = overwritten

\* The launcher never calls a launcher: what is kept is a text of the project, or what a
\* killed installation left (foreign_hook).
NoLauncherKept == kept \notin Launchers

\* A kept hook leaves its copy only for a newer one of the same manager, never for the
\* hook of another tool or person (check_free, reinstalled).
KeptForItsManager ==
  [][(kept \in OwnHooks /\ kept' # kept /\ hook # kept) => Reinstalled]_hookVars

\* The project's last hook survives what is installed over it, but for the exception of
\* LastHookKept, the chain calls no launcher twice, and a kept hook gives way to its own
\* manager only (hook_chain.py).
HooksSafe == [](LastHookKept /\ NoLauncherKept) /\ KeptForItsManager
=============================================================================
