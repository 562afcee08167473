-------------------------- MODULE HardEngFreshness --------------------------
(***************************************************************************)
(* .hooks/freshness.py: the check that fails when a direct dependency      *)
(* trails its newest stable release that is WAIT days old, and the holds   *)
(* that excuse one version of one package until a date.  One dependency,   *)
(* whose versions are numbers; a day is a step of the clock.               *)
(***************************************************************************)
EXTENDS Integers, FiniteSets, FiniteSetsExt

CONSTANTS PackageVersions,  \* numbers; a greater one is newer
          Unstable,         \* those with a suffix the check does not rank
          Wait, MaxHold,    \* WAIT and MAX_HOLD_DAYS, in days
          LastDay,          \* bounds the clock
          NoHold

\* Finitely many versions are published, the first before the program starts.
ASSUME FreshConstants ==
  /\ PackageVersions \subseteq Int /\ {Wait, MaxHold, LastDay} \subseteq Nat
  /\ \E least \in PackageVersions : \A v \in PackageVersions : least <= v
  /\ \A some \in SUBSET PackageVersions :
       some # {} => \E greatest \in some : \A v \in some : greatest >= v
  /\ NoHold \notin [version : PackageVersions, until : Int, first : Nat \cup {NoHold}]

FreshDays == 0..LastDay

VARIABLES
  today,
  releasedOn,  \* the day each published version came out
  yanked,
  inUse,       \* the locked version
  hold,        \* the package's hold, with the day a check first accepted it
  passedNow    \* the last event was a check that passed

freshVars == <<today, releasedOn, yanked, inUse, hold, passedNow>>

HoldTexts == [version : PackageVersions, until : 0..(LastDay + MaxHold + 1),
              first : FreshDays \cup {NoHold}]

FreshTypeOK ==
  /\ today \in FreshDays
  /\ DOMAIN releasedOn \subseteq PackageVersions
  /\ \A v \in DOMAIN releasedOn : releasedOn[v] \in 0..today
  /\ yanked \subseteq DOMAIN releasedOn
  /\ inUse \in PackageVersions
  /\ hold \in HoldTexts \cup {NoHold}
  /\ passedNow \in BOOLEAN

-----------------------------------------------------------------------------
(* pypi_eligible: the newest ranked release, not yanked, old enough. *)
EligibleVersions ==
  {v \in DOMAIN releasedOn : v \notin Unstable \cup yanked /\ releasedOn[v] + Wait <= today}

Newest == Max(EligibleVersions)

(* behind: eligible and newer than the locked version. *)
Stale == EligibleVersions # {} /\ Newest > inUse

(* held *)
HeldBack == hold # NoHold /\ hold.version = Newest /\ today <= hold.until

(* Mutant: a hold may be written for any date.                              *)
ValidHold_Mutant == TRUE

(* validate_holds: no date further ahead than MAX_HOLD_DAYS. *)
ValidHold == hold # NoHold => hold.until <= today + MaxHold

FreshnessPasses == ValidHold /\ (Stale => HeldBack)

-----------------------------------------------------------------------------
CheckFreshness ==
  /\ passedNow' = FreshnessPasses
  /\ hold' = IF hold # NoHold /\ ValidHold /\ hold.first = NoHold
             THEN [hold EXCEPT !.first = today] ELSE hold
  /\ UNCHANGED <<today, releasedOn, yanked, inUse>>

NextDay ==
  /\ today < LastDay
  /\ today' = today + 1
  /\ passedNow' = FALSE
  /\ UNCHANGED <<releasedOn, yanked, inUse, hold>>

PublishVersion ==
  /\ \E v \in PackageVersions \ DOMAIN releasedOn :
       releasedOn' = [u \in DOMAIN releasedOn \cup {v} |-> IF u = v THEN today ELSE releasedOn[u]]
  /\ passedNow' = FALSE
  /\ UNCHANGED <<today, yanked, inUse, hold>>

Yank ==
  /\ \E v \in DOMAIN releasedOn \ yanked : yanked' = yanked \cup {v}
  /\ passedNow' = FALSE
  /\ UNCHANGED <<today, releasedOn, inUse, hold>>

(* An upgrade locks any published version, a person writes any hold. *)
Upgrade ==
  /\ inUse' \in DOMAIN releasedOn /\ inUse' > inUse
  /\ passedNow' = FALSE
  /\ UNCHANGED <<today, releasedOn, yanked, hold>>

WriteHold ==
  /\ \E v \in PackageVersions : \E d \in 0..(MaxHold + 1) :
       hold' = [version |-> v, until |-> today + d, first |-> NoHold]
  /\ passedNow' = FALSE
  /\ UNCHANGED <<today, releasedOn, yanked, inUse>>

FreshInit ==
  /\ today = 0
  /\ releasedOn = [v \in {Min(PackageVersions)} |-> 0] /\ yanked = {}
  /\ inUse = Min(PackageVersions)
  /\ hold = NoHold /\ passedNow = FALSE

FreshNext == CheckFreshness \/ NextDay \/ PublishVersion \/ Yank \/ Upgrade \/ WriteHold

FreshSpec == FreshInit /\ [][FreshNext]_freshVars

-----------------------------------------------------------------------------
(* A hold runs out: a check that passes over a dependency behind a release  *)
(* old enough does so on a hold that names exactly the newest of them and   *)
(* that no check had accepted more than MaxHold days before, however far    *)
(* ahead its date was written.                                              *)
HoldsRunOut ==
  passedNow =>
    \A v \in DOMAIN releasedOn \ (yanked \cup Unstable) :
      v > inUse /\ releasedOn[v] + Wait <= today =>
        /\ hold # NoHold
        /\ hold.version >= v
        /\ today - hold.first <= MaxHold
=============================================================================
