----------------------------- MODULE HardEngTools -----------------------------
(***************************************************************************)
(* The tools that the checks of one checkout share (.hooks/tool_setup.py), *)
(* among them those of snapshots pushed from it, and the launcher that     *)
(* installs them.  A launcher version is installed once, held while a      *)
(* check provisions with it and dropped when a newer one is used and no    *)
(* check holds it; a quick check runs one it finds without holding it.     *)
(*                                                                         *)
(* File locks fall with the process that holds them; removing a folder is  *)
(* not atomic, renaming one is.                                            *)
(***************************************************************************)
EXTENDS FiniteSets, Naturals

CONSTANTS
  ToolChecks,  \* checks of the checkout and of snapshots pushed from it
  MaxVersion,  \* bound: launcher versions are 1..MaxVersion
  MaxMishaps,  \* bound: kills, failed downloads and the checkout's removal
  NoCheck

ASSUME ToolConstants ==
  MaxVersion \in Nat \ {0} /\ MaxMishaps \in Nat /\ NoCheck \notin ToolChecks

VARIABLES
  newestTool,   \* the newest launcher the registry has
  there,        \* whether the checkout still exists
  launchers,    \* [version -> "none", "partial" or "whole" (its binary is there)]
  toolStaging,  \* checks with a staging folder, also those killed since
  installing,   \* the holder of install.lock
  job,          \* [check -> its step and the version it holds the shared lock of]
  kit,          \* the releases of a tool that are installed in the data folder
  onPath,       \* [check -> the release its PATH names]
  disturbed,    \* history: checks whose tool another has uninstalled to repair it
  mishaps

kitVars == <<kit, onPath, disturbed>>
toolVars == <<newestTool, there, launchers, toolStaging, installing, job, kitVars, mishaps>>

ToolVersions == 1..MaxVersion
ToolReleases == {"sound", "broken"}  \* whether it answers --version
JobAt(s, held, dropped, rest) ==
  [step |-> s, holds |-> held, drops |-> dropped, left |-> rest]
ToolAtRest == JobAt("idle", 0, 0, {})

ToolsInit ==
  /\ newestTool = 1 /\ there = TRUE
  /\ launchers = [v \in ToolVersions |-> "none"] /\ toolStaging = {}
  /\ installing = NoCheck /\ job = [k \in ToolChecks |-> ToolAtRest] /\ mishaps = 0
  /\ kit = {} /\ onPath = [k \in ToolChecks |-> "none"] /\ disturbed = {}

-----------------------------------------------------------------------------
Goes(k, next) == job' = [job EXCEPT ![k].step = next]
Others == UNCHANGED <<newestTool, there, kitVars, mishaps>>

\* A version's lock: shared by the checks that use it, exclusive to one that drops it.
Dropping(v) == \E k \in ToolChecks : job[k].drops = v
Holding(v) == \E k \in ToolChecks : job[k].holds = v

\* checkout_storage holds the folder's lock till exit; the registry is asked for a version.
FindVersion(k) ==
  /\ job[k].step = "idle" /\ there
  /\ \E v \in 1..newestTool :
       job' = [job EXCEPT ![k] = JobAt("share", 0, 0, {v})]
  /\ UNCHANGED <<launchers, toolStaging, installing>> /\ Others

\* Mutant: the shared lock is taken of another file than the one a removal locks.
ShareVersion_Mutant(k) ==
  /\ job[k].step = "share"
  /\ \E v \in job[k].left :
       job' = [job EXCEPT ![k] = JobAt("look", v, 0, {})]
  /\ UNCHANGED <<launchers, toolStaging, installing>> /\ Others

ShareVersion(k) ==
  /\ job[k].step = "share"
  /\ \E v \in job[k].left :
       /\ ~Dropping(v)
       /\ job' = [job EXCEPT ![k] = JobAt("look", v, 0, {})]
  /\ UNCHANGED <<launchers, toolStaging, installing>> /\ Others

\* With the binary in place install.lock is only tried, without it is waited for.
LookForBinary(k) ==
  /\ job[k].step = "look"
  /\ Goes(k, IF launchers[job[k].holds] = "whole" THEN "try" ELSE "wait")
  /\ UNCHANGED <<launchers, toolStaging, installing>> /\ Others
SkipInstall(k) ==
  /\ job[k].step = "try" /\ installing # NoCheck
  /\ Goes(k, "use")
  /\ UNCHANGED <<launchers, toolStaging, installing>> /\ Others
LockInstall(k) ==
  /\ job[k].step \in {"try", "wait"} /\ installing = NoCheck
  /\ installing' = k /\ Goes(k, "check")
  /\ UNCHANGED <<launchers, toolStaging>> /\ Others

\* Under the lock: what an interrupted removal left goes, then the install is staged.
CheckBinary(k) ==
  /\ job[k].step = "check"
  /\ IF launchers[job[k].holds] = "whole"
     THEN Goes(k, "list") /\ UNCHANGED <<launchers, toolStaging>>
     ELSE /\ launchers' = [launchers EXCEPT ![job[k].holds] = "none"]
          /\ toolStaging' = toolStaging \cup {k} /\ Goes(k, "stage")
  /\ UNCHANGED installing /\ Others
RenameStaging(k) ==
  /\ job[k].step = "stage" /\ k \in toolStaging
  /\ toolStaging' = toolStaging \ {k}
  /\ launchers' = [launchers EXCEPT ![job[k].holds] = "whole"] /\ Goes(k, "list")
  /\ UNCHANGED installing /\ Others

\* prune_launchers: staging folders go, and every other version no check holds.
ListLaunchers(k) ==
  /\ job[k].step = "list"
  /\ toolStaging' = {}
  /\ job' = [job EXCEPT ![k] = JobAt("prune", job[k].holds, 0,
       {v \in ToolVersions \ {job[k].holds} : launchers[v] # "none"})]
  /\ UNCHANGED <<launchers, installing>> /\ Others
LockOld(k) ==
  /\ job[k].step = "prune"
  /\ \E v \in job[k].left :
       job' = [job EXCEPT ![k] =
         IF Holding(v) \/ Dropping(v) THEN JobAt("prune", job[k].holds, 0, job[k].left \ {v})
                                      ELSE JobAt("drop", job[k].holds, v, job[k].left \ {v})]
  /\ UNCHANGED <<launchers, toolStaging, installing>> /\ Others
DropBegins(k) ==
  /\ job[k].step = "drop" /\ launchers[job[k].drops] = "whole"
  /\ launchers' = [launchers EXCEPT ![job[k].drops] = "partial"]
  /\ UNCHANGED <<toolStaging, installing, job>> /\ Others
DropEnds(k) ==
  /\ job[k].step = "drop"
  /\ launchers' = [launchers EXCEPT ![job[k].drops] = "none"]
  /\ job' = [job EXCEPT ![k] = JobAt("prune", job[k].holds, 0, job[k].left)]
  /\ UNCHANGED <<toolStaging, installing>> /\ Others
ReleaseInstall(k) ==
  /\ job[k].step = "prune" /\ job[k].left = {}
  /\ installing' = NoCheck /\ Goes(k, "use")
  /\ UNCHANGED <<launchers, toolStaging>> /\ Others

-----------------------------------------------------------------------------
(* provision_latest, with the launcher held: the tools go into the data     *)
(* folder of the checkout and on the PATH of the check.                     *)

Shared == UNCHANGED <<newestTool, there, launchers, toolStaging, installing, mishaps>>
Names(k, r) == onPath' = [onPath EXCEPT ![k] = r]

\* The tools are on the PATH: the launcher is given back, the folder's lock stays.
StartGates(k) == job' = [job EXCEPT ![k] = JobAt("gates", 0, 0, {})]

\* mise install and mise env: the newest release that is old enough.
InstallTools(k) ==
  /\ job[k].step = "use"
  /\ \E r \in ToolReleases : kit' = kit \cup {r} /\ Names(k, r)
  /\ Goes(k, "probe") /\ disturbed' = disturbed \ {k} /\ Shared

\* broken_tools: a tool found on the PATH that does not answer --version.
Found(k) == onPath[k] \in kit
IsBroken(k) == Found(k) /\ onPath[k] = "broken"
ProbeTools(k) ==
  /\ \/ job[k].step = "probe" /\ IF IsBroken(k) THEN Goes(k, "uninstall") ELSE StartGates(k)
     \/ job[k].step = "probe_again" /\ ~IsBroken(k) /\ StartGates(k)
  /\ UNCHANGED kitVars /\ Shared

\* mise uninstall --all takes every release, also those other checks have on their PATH.
UninstallTools(k) ==
  /\ job[k].step = "uninstall"
  /\ kit' = {} /\ Names(k, "none")
  /\ disturbed' = disturbed \cup {j \in ToolChecks : onPath[j] # "none" /\ j # k}
  /\ Goes(k, "reinstall") /\ Shared

\* The newest release of all is probed in its turn.
ReinstallTools(k) ==
  /\ job[k].step = "reinstall"
  /\ \E r \in ToolReleases : kit' = kit \cup {r} /\ Names(k, r)
  /\ Goes(k, "probe_again") /\ disturbed' = disturbed \ {k} /\ Shared

\* use_installed_tools, of a quick check: the newest launcher in the folder is run
\* without a lock, and without the network.
NewestLauncher(v) ==
  launchers[v] = "whole" /\ \A w \in ToolVersions : launchers[w] = "whole" => w <= v
FindInstalled(k) ==
  /\ job[k].step = "idle" /\ there
  /\ \E v \in ToolVersions :
       NewestLauncher(v) /\ job' = [job EXCEPT ![k] = JobAt("quick", 0, 0, {v})]
  /\ UNCHANGED kitVars /\ Shared

\* mise env names a release that is installed; with none the tools are provisioned.
\* A launcher that another check has dropped meanwhile ends the check (CheckKilled).
RunInstalled(k) ==
  /\ job[k].step = "quick" /\ \A v \in job[k].left : launchers[v] = "whole"
  /\ IF kit = {}
     THEN /\ \E v \in 1..newestTool : job' = [job EXCEPT ![k] = JobAt("share", 0, 0, {v})]
          /\ UNCHANGED onPath
     ELSE Goes(k, "quick_probe") /\ \E r \in kit : Names(k, r)
  /\ UNCHANGED <<kit, disturbed>> /\ Shared
ProbeInstalled(k) ==
  /\ job[k].step = "quick_probe"
  /\ IF IsBroken(k)
     THEN \E v \in 1..newestTool : job' = [job EXCEPT ![k] = JobAt("share", 0, 0, {v})]
     ELSE StartGates(k)
  /\ UNCHANGED kitVars /\ Shared

\* The process of the check ends, and with it the lock of the folder.
Exits(k) ==
  /\ job' = [job EXCEPT ![k] = ToolAtRest]
  /\ installing' = IF installing = k THEN NoCheck ELSE installing
  /\ Names(k, "none") /\ disturbed' = disturbed \ {k} /\ UNCHANGED kit
CheckEnds(k) ==
  /\ job[k].step = "gates" \/ (job[k].step = "probe_again" /\ IsBroken(k))
  /\ Exits(k)
  /\ UNCHANGED <<newestTool, there, launchers, toolStaging, mishaps>>

-----------------------------------------------------------------------------
\* A download that fails, or a launcher that reports another version, is removed.
InstallFails(k) ==
  /\ job[k].step = "stage" /\ Exits(k) /\ toolStaging' = toolStaging \ {k}
  /\ UNCHANGED <<newestTool, there, launchers>>
\* A check that is killed, or that a command of its provisioning fails.
CheckKilled(k) ==
  /\ job[k].step # "idle" /\ Exits(k) /\ UNCHANGED <<newestTool, there, launchers, toolStaging>>
CheckoutRemoved ==
  /\ there /\ there' = FALSE /\ UNCHANGED <<newestTool, launchers, toolStaging, installing, job, kitVars>>
NewLauncher ==
  /\ newestTool < MaxVersion /\ newestTool' = newestTool + 1
  /\ UNCHANGED <<there, launchers, toolStaging, installing, job, kitVars, mishaps>>

\* prune_checkouts, by a check of another checkout: the owner is gone and no check holds
\* the folder.
CheckoutHeld == \E k \in ToolChecks : job[k].step # "idle"
PruneCheckout ==
  /\ ~there /\ ~CheckoutHeld
  /\ launchers' \in [ToolVersions -> {"none", "partial"}] \ {launchers}
  /\ toolStaging' = {} /\ kit' = {}
  /\ \A v \in ToolVersions : launchers[v] = "none" => launchers'[v] = "none"
  /\ UNCHANGED <<newestTool, there, installing, job, onPath, disturbed, mishaps>>

ToolStep(k) ==
  \/ FindVersion(k) \/ ShareVersion(k) \/ LookForBinary(k) \/ SkipInstall(k) \/ LockInstall(k)
  \/ CheckBinary(k) \/ RenameStaging(k) \/ ListLaunchers(k) \/ LockOld(k)
  \/ DropBegins(k) \/ DropEnds(k) \/ ReleaseInstall(k)
ProvisionStep(k) ==
  \/ InstallTools(k) \/ ProbeTools(k) \/ UninstallTools(k) \/ ReinstallTools(k)
  \/ FindInstalled(k) \/ RunInstalled(k) \/ ProbeInstalled(k) \/ CheckEnds(k)

ToolsNext ==
  \/ \E k \in ToolChecks : ToolStep(k) \/ ProvisionStep(k)
  \/ NewLauncher \/ PruneCheckout
  \/ /\ mishaps < MaxMishaps /\ mishaps' = mishaps + 1
     /\ CheckoutRemoved \/ \E k \in ToolChecks : InstallFails(k) \/ CheckKilled(k)

ToolsSpec == ToolsInit /\ [][ToolsNext]_toolVars

-----------------------------------------------------------------------------
\* The variables hold values of the program.
ToolsTypeOK ==
  /\ newestTool \in ToolVersions /\ launchers \in [ToolVersions -> {"none", "partial", "whole"}]
  /\ toolStaging \subseteq ToolChecks /\ installing \in ToolChecks \cup {NoCheck}
  /\ \A k \in ToolChecks : job[k].holds \in 0..MaxVersion /\ job[k].drops \in 0..MaxVersion
  /\ kit \subseteq ToolReleases /\ disturbed \subseteq ToolChecks

\* A check that was given a launcher has it whole until it ends, although other checks
\* install, are killed in the middle of an installation or a removal, and prune; also
\* after its checkout was deleted (mise_launcher's locks, checkout_storage).
LauncherStays ==
  \A k \in ToolChecks :
    job[k].step \in {"list", "prune", "drop", "use", "probe", "uninstall", "reinstall",
                    "probe_again"} =>
      launchers[job[k].holds] = "whole"

\* What a check stages is not removed as another's leftover (install.lock).
StagingKept == \A k \in ToolChecks : job[k].step = "stage" => k \in toolStaging

\* Waiting for a lock never stops every check: the one waited for can go on.
NobodyStuck ==
  CheckoutHeld =>
    \E k \in ToolChecks : \/ job[k].step \notin {"idle", "share", "wait"}
                          \/ job[k].step = "share" /\ \E v \in job[k].left : ~Dropping(v)
                          \/ job[k].step = "wait" /\ installing = NoCheck

\* While a check runs its gates the tool on its PATH answers and is installed, also after
\* its checkout was deleted and after it gave the launcher back: only another check that
\* repairs a broken release takes it (broken_tools, checkout_storage, prune_checkouts).
GatesKeepTools ==
  \A k \in ToolChecks : job[k].step = "gates" =>
    (onPath[k] = "sound" /\ Found(k)) \/ k \in disturbed

\* Checks share tools and launchers without taking one from each other but to repair it,
\* losing a staged one or waiting for each other for ever (mise_launcher, prune_launchers).
ToolsSafe == LauncherStays /\ StagingKept /\ NobodyStuck /\ GatesKeepTools
=============================================================================
