------------------------------ MODULE HardEngDebt ------------------------------
(***************************************************************************)
(* Adoption debt (.hooks/debt.py, adopt and check of hard-eng.py): the     *)
(* findings the existing code had when Hard Eng was installed are recorded *)
(* once, a check passes with exactly these, and they may only shrink.      *)
(*                                                                         *)
(* A finding is one line of a gate's output made neutral; a gate with no   *)
(* recorded line and a gate without an entry are the same.  One branch is  *)
(* followed from the default branch to its landing, again and again.       *)
(***************************************************************************)
EXTENDS FiniteSets, Naturals

CONSTANTS
  Findings,   \* neutral lines the gates of the project may print
  NeverOld,   \* those of the gates whose findings are never recorded (NEVER)
  Fixable,    \* those a gate fixes while it runs
  MaxEdits    \* bound: edits of people and setup failures between two landings

ASSUME DebtConstants ==
  NeverOld \subseteq Findings /\ Fixable \subseteq Findings /\ MaxEdits \in Nat

VARIABLES
  mainline,  \* the default branch: its findings, its debt, whether Hard Eng is in it
  point,     \* main as it was where the branch forked
  found,     \* findings of the branch's working tree
  debt,      \* hard-eng.debt.json of the working tree
  recorded,  \* whether that file exists
  broken,    \* whether dependency setup fails
  adopt,     \* the adopt command: its step, what its gates printed, the tree before
  fresh,     \* history: "quiet" since adopt began, then "adopted", else "no"
  edits

debtVars == <<mainline, point, found, debt, recorded, broken, adopt, fresh, edits>>

NoAdopt == [pc |-> "idle", out |-> {}, before |-> {}, setup |-> TRUE]

DebtInit ==
  /\ mainline \in [found: SUBSET (Findings \ NeverOld), debt: {{}}, installed: {FALSE}]
  /\ point = mainline /\ found = mainline.found
  /\ debt = {} /\ recorded = FALSE /\ broken = FALSE
  /\ adopt = NoAdopt /\ fresh = "no" /\ edits = 0

-----------------------------------------------------------------------------
(* adopt: run the gates until they fix nothing more, then record. *)

AdoptStarts ==
  /\ adopt.pc = "idle"
  /\ adopt' = [NoAdopt EXCEPT !.pc = "run", !.before = found]
  /\ fresh' = "quiet"
  /\ UNCHANGED <<mainline, point, found, debt, recorded, broken, edits>>

\* Mutant: a failed setup is a finding like those of the gates.
RunGates_Mutant(next) ==
  /\ adopt' = [adopt EXCEPT !.pc = next, !.out = IF broken THEN {"setup"} ELSE found]
  /\ UNCHANGED found

\* A pass over the gates: what a gate prints was there before or after the fixing gates
\* ran.  Failed setup runs nothing else; its own failure is a line never recorded.
RunGates(next) ==
  IF broken
  THEN adopt' = [adopt EXCEPT !.pc = next, !.out = {}, !.setup = FALSE] /\ UNCHANGED found
  ELSE /\ \E seen \in SUBSET (found \cap Fixable) :
            adopt' = [adopt EXCEPT !.pc = next, !.out = (found \ Fixable) \cup seen, !.setup = TRUE]
       /\ found' = found \ Fixable
AdoptRuns ==
  /\ adopt.pc = "run" /\ RunGates("settle")
  /\ UNCHANGED <<mainline, point, debt, recorded, broken, fresh, edits>>

\* settled_run: files changed while the gates ran, so they run once more.
AdoptSettles ==
  /\ adopt.pc = "settle"
  /\ IF found # adopt.before THEN RunGates("record")
     ELSE adopt' = [adopt EXCEPT !.pc = "record"] /\ UNCHANGED found
  /\ UNCHANGED <<mainline, point, debt, recorded, broken, fresh, edits>>

\* record: refuse a first adoption with findings that must not be kept, else write what
\* failed, and of an earlier debt only what it already listed.
Record ==
  LET current == adopt.out \ NeverOld
      refused == adopt.out \cap NeverOld # {} \/ ~adopt.setup
  IN /\ adopt.pc = "record"
     /\ adopt' = NoAdopt
     /\ IF refused /\ ~recorded THEN UNCHANGED <<debt, recorded, fresh>>
        ELSE /\ debt' = IF recorded THEN current \cap debt ELSE current
             /\ recorded' = TRUE
             /\ fresh' = IF fresh = "quiet" /\ ~recorded THEN "adopted" ELSE "no"
     /\ UNCHANGED <<mainline, point, found, broken, edits>>

-----------------------------------------------------------------------------
(* check: require_shrink against the branch point, then judge gate by gate. *)

\* Mutant: the debt file is not compared with the branch point's.
Shrinks_Mutant == TRUE

\* require_shrink: debt appears only with the install and never grows.
Shrinks == debt = {} \/ (IF point.installed THEN debt \subseteq point.debt ELSE TRUE)

\* judge: a gate fails on findings beyond its debt and on recorded ones that are fixed.
Judged == found \ debt = {} /\ debt \ found = {}

Passes == ~broken /\ Shrinks /\ Judged

\* The branch is on the tip of the base and its check has passed: it lands.
LandBranch ==
  /\ adopt.pc = "idle" /\ point = mainline /\ Passes
  /\ mainline' = [found |-> found, debt |-> debt, installed |-> TRUE]
  /\ point' = mainline' /\ edits' = 0
  /\ UNCHANGED <<found, debt, recorded, broken, adopt, fresh>>

-----------------------------------------------------------------------------
(* People. *)

\* Someone else's branch lands: by the same check it has only dropped debt.
OtherLands ==
  /\ mainline.installed
  /\ \E fixed \in SUBSET mainline.debt \ {{}} :
       mainline' = [mainline EXCEPT !.found = @ \ fixed, !.debt = @ \ fixed]
  /\ UNCHANGED <<point, found, debt, recorded, broken, adopt, fresh>>

Merge3(ours, base, theirs) == (theirs \cup (ours \ base)) \ (base \ ours)
RebaseBranch ==
  /\ point # mainline /\ adopt.pc = "idle"
  /\ found' = Merge3(found, point.found, mainline.found)
  /\ debt' = Merge3(debt, point.debt, mainline.debt)
  /\ point' = mainline /\ fresh' = "no"
  /\ UNCHANGED <<mainline, recorded, broken, adopt>>

EditCode ==
  /\ found' \in SUBSET Findings /\ Cardinality((found' \ found) \cup (found \ found')) = 1
  /\ fresh' = "no"
  /\ UNCHANGED <<mainline, point, debt, recorded, broken, adopt>>

EditDebt ==
  /\ debt' \in SUBSET Findings /\ debt' # debt /\ recorded' = TRUE /\ fresh' = "no"
  /\ UNCHANGED <<mainline, point, found, broken, adopt>>

SetupBreaks ==
  /\ broken' = ~broken
  /\ UNCHANGED <<mainline, point, found, debt, recorded, adopt, fresh>>

DebtNext ==
  \/ AdoptStarts \/ AdoptRuns \/ AdoptSettles \/ Record \/ LandBranch
  \/ /\ edits < MaxEdits /\ edits' = edits + 1
     /\ OtherLands \/ RebaseBranch \/ EditCode \/ EditDebt \/ SetupBreaks

DebtSpec == DebtInit /\ [][DebtNext]_debtVars

-----------------------------------------------------------------------------
\* The variables hold values of the program.
DebtTypeOK ==
  /\ mainline \in [found: SUBSET Findings, debt: SUBSET Findings, installed: BOOLEAN]
  /\ found \subseteq Findings /\ debt \subseteq Findings
  /\ adopt.pc \in {"idle", "run", "settle", "record"} /\ adopt.out \subseteq Findings

\* What is recorded on the default branch is what its code fails with, neither more
\* nor less, after any sequence of adoptions, fixes and hand edits (judge).
MainDebtExact == mainline.installed => mainline.debt = mainline.found

\* Once Hard Eng is installed no finding is added to the default branch, whatever was
\* edited into the debt file or adopted again (require_shrink, record).
NoFindingJoinsMain == [][mainline.installed => mainline'.found \subseteq mainline.found]_debtVars

\* A first adoption leaves a tree that passes, although its own gates fixed some of the
\* findings while they were being listed (settled_run).
AdoptedTreePasses == fresh = "adopted" => Judged

\* The debt on the default branch is exact and only shrinks, and a first adoption passes
\* its own check (debt.py).
DebtSafe == [](MainDebtExact /\ AdoptedTreePasses) /\ NoFindingJoinsMain
=============================================================================
