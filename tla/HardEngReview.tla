---------------------------- MODULE HardEngReview ---------------------------
(***************************************************************************)
(* .hooks/challenge.py and review_bypass.py: the independent review a big  *)
(* change needs before it ships, and the admin merge past a required       *)
(* review that nobody but the author could give.                           *)
(*                                                                         *)
(* A revision is a number; the branch only moves forward, except that an   *)
(* author may go back to an earlier revision (git reset).  Each agent runs *)
(* at most one challenge at a time, the two run side by side and both      *)
(* write the one record of a revision.                                     *)
(***************************************************************************)
EXTENDS Naturals, FiniteSets

CONSTANTS Reviewers,          \* the agents that can be asked for a review
          MaxRevision,
          BigRevisions,       \* the revisions whose change is not small
          Checks,             \* the check contexts of a revision
          People,             \* collaborators other than the author
          MaxReviewEvents,    \* bounds what other people do
          Nothing0            \* no record, no verdict, no revision

Verdicts == {"clean", "findings"}
ASSUME ReviewConstants ==
  MaxRevision \in Nat /\ MaxReviewEvents \in Nat /\ Nothing0 \notin Verdicts

Revisions == 0..MaxRevision
Outcomes == Verdicts \cup {"not done"}

VARIABLES
  tip,        \* HEAD of the author's branch, also the pull request's head
  edited,     \* tracked files have uncommitted changes
  records,    \* hard-eng/challenge/<revision>.json: its outcome
  reviewing,  \* what each agent's challenge is doing
  judged,     \* the verdicts a reviewer gave, with what it was shown
  pullNow,    \* what GitHub would say of the pull request
  shipment,   \* the shipment under way
  merged,     \* the merge made: its revision and what it was decided from
  reviewEvents

reviewVars == <<tip, edited, records, reviewing, judged, pullNow, shipment, merged, reviewEvents>>

CheckStates == {"pending", "success", "skipped", "failure"}
Pulls == [required : SUBSET Checks,             \* by protection or by a ruleset
          checks : [Checks -> CheckStates],     \* of the head revision
          strict : BOOLEAN, behind : BOOLEAN,   \* must be, is behind its base
          queue : BOOLEAN, threads : BOOLEAN,   \* merge queue, open conversations
          pushers : SUBSET People,              \* who else may push, so may review
          owned : BOOLEAN]                      \* code owners required, the author the only one

ReviewerAtRest == [at |-> "rest", rev |-> Nothing0, outcome |-> Nothing0, crossed |-> FALSE]
NoShip == [at |-> "rest", rev |-> Nothing0, ready |-> FALSE, alone |-> FALSE, note |-> Nothing0]
NoMerge == [rev |-> Nothing0]

ReviewTypeOK ==
  /\ tip \in Revisions /\ edited \in BOOLEAN
  /\ records \in [Revisions -> Outcomes \cup {Nothing0}]
  /\ \A a \in Reviewers : /\ reviewing[a].at \in {"rest", "reading", "outcome", "storing"}
                          /\ reviewing[a].rev \in Revisions \cup {Nothing0}
                          /\ reviewing[a].outcome \in Outcomes \cup {Nothing0}
                          /\ reviewing[a].crossed \in BOOLEAN
  /\ judged \subseteq Revisions \X Verdicts
  /\ pullNow \in Pulls
  /\ shipment.at \in {"rest", "owners", "checks", "note", "merge"}
  /\ reviewEvents \in 0..MaxReviewEvents

-----------------------------------------------------------------------------
(* challenge.py *)

Event == reviewEvents < MaxReviewEvents /\ reviewEvents' = reviewEvents + 1

(* challenge, review: the revision is read once; uncommitted changes end it. *)
StartReview(a) ==
  /\ Event
  /\ reviewing[a] = ReviewerAtRest
  /\ reviewing' = [reviewing EXCEPT ![a].rev = tip,
       ![a].at = IF edited THEN "outcome" ELSE "reading",
       ![a].outcome = IF edited THEN "not done" ELSE Nothing0]
  /\ UNCHANGED <<tip, edited, records, judged, pullNow, shipment, merged>>

(* The reviewer answers, or times out, fails, or gives no exact verdict; an *)
(* answer does not count when HEAD moved meanwhile.                         *)
EndReview(a) ==
  /\ reviewing[a].at = "reading"
  /\ \E answer \in Outcomes :
       LET outcome == IF answer \in Verdicts /\ tip # reviewing[a].rev THEN "not done" ELSE answer
       IN  /\ reviewing' = [reviewing EXCEPT ![a].at = "outcome", ![a].outcome = outcome]
           /\ judged' = judged \cup ({<<reviewing[a].rev, answer>>}
                                       \cap ({tip} \X Verdicts))
  /\ UNCHANGED <<tip, edited, records, pullNow, shipment, merged, reviewEvents>>

(* Mutant: the outcome is stored whatever is on record.                     *)
KeepEarlier_Mutant(a) ==
  /\ reviewing[a].at = "outcome"
  /\ reviewing' = [reviewing EXCEPT ![a].at = "storing"]
  /\ UNCHANGED <<tip, edited, records, judged, pullNow, shipment, merged, reviewEvents>>

(* An earlier completed review of the revision is kept over one not done. *)
KeepEarlier(a) ==
  /\ reviewing[a].at = "outcome"
  /\ reviewing' = [reviewing EXCEPT ![a] =
       IF reviewing[a].outcome = "not done" /\ records[reviewing[a].rev] \in Verdicts
       THEN ReviewerAtRest ELSE [reviewing[a] EXCEPT !.at = "storing"]]
  /\ UNCHANGED <<tip, edited, records, judged, pullNow, shipment, merged, reviewEvents>>

StoreReview(a) ==
  /\ reviewing[a].at = "storing"
  /\ records' = [records EXCEPT ![reviewing[a].rev] = reviewing[a].outcome]
  /\ reviewing' = [b \in Reviewers |->
       CASE b = a -> ReviewerAtRest
         [] b # a /\ reviewing[b].at = "storing" /\ reviewing[b].rev = reviewing[a].rev
              -> [reviewing[b] EXCEPT !.crossed = TRUE]
         [] OTHER -> reviewing[b]]
  /\ UNCHANGED <<tip, edited, judged, pullNow, shipment, merged, reviewEvents>>

KillReview(a) ==
  /\ Event
  /\ reviewing[a] # ReviewerAtRest
  /\ reviewing' = [reviewing EXCEPT ![a] = ReviewerAtRest]
  /\ UNCHANGED <<tip, edited, records, judged, pullNow, shipment, merged>>

-----------------------------------------------------------------------------
(* review_bypass.py *)

PassedChecks(p) == {c \in Checks : p.checks[c] \in {"success", "skipped"}}
AllGreen(p) == \A c \in Checks : p.checks[c] \in {"success", "skipped"}

(* _other_merge_requirement: what besides the review may hold the merge up. *)
OtherMergeRequirement(p) == p.queue \/ p.strict \/ ~(p.required \subseteq PassedChecks(p))

(* What GitHub holds a merge up for; a review is required on the base.       *)
MergeableButForReview(p) ==
  p.required \subseteq PassedChecks(p) /\ ~p.queue /\ ~p.threads /\ (p.strict => ~p.behind)

(* _ready_state up to the answers of one GraphQL query; the collaborators    *)
(* are asked for in a later call.                                            *)
ReadPull ==
  /\ shipment.at = "rest"
  /\ ~pullNow.threads /\ ~pullNow.behind
  /\ AllGreen(pullNow) /\ ~OtherMergeRequirement(pullNow)
  /\ shipment' = [NoShip EXCEPT !.at = "owners", !.rev = tip,
                             !.ready = MergeableButForReview(pullNow)]
  /\ UNCHANGED <<tip, edited, records, reviewing, judged, pullNow, merged, reviewEvents>>

(* pushers = {viewer}, or a code-owner review only the author could give. *)
OnlyAuthorCanReview(p) == p.pushers = {} \/ p.owned
ReadPushers ==
  /\ shipment.at = "owners"
  /\ shipment' = IF OnlyAuthorCanReview(pullNow)
             THEN [shipment EXCEPT !.at = "checks", !.alone = TRUE]
             ELSE NoShip
  /\ UNCHANGED <<tip, edited, records, reviewing, judged, pullNow, merged, reviewEvents>>

(* _checks, then the pull request must read as it did at first. *)
ConfirmPull ==
  /\ shipment.at = "checks"
  /\ shipment' = IF AllGreen(pullNow) /\ tip = shipment.rev
             THEN [shipment EXCEPT !.at = "note"] ELSE NoShip
  /\ UNCHANGED <<tip, edited, records, reviewing, judged, pullNow, merged, reviewEvents>>

(* shipping_note: a big change needs a record, of whatever outcome. *)
ShippingNote ==
  /\ shipment.at = "note"
  /\ shipment' = IF shipment.rev \in BigRevisions /\ records[shipment.rev] = Nothing0
             THEN NoShip
             ELSE [shipment EXCEPT !.at = "merge", !.note = records[shipment.rev]]
  /\ UNCHANGED <<tip, edited, records, reviewing, judged, pullNow, merged, reviewEvents>>

(* gh pr merge --admin --match-head-commit: GitHub applies no rule but the head. *)
AdminMerge ==
  /\ shipment.at = "merge"
  /\ tip = shipment.rev
  /\ merged = NoMerge
  /\ merged' = [rev |-> tip, read |-> shipment.rev, ready |-> shipment.ready,
                alone |-> shipment.alone, note |-> shipment.note]
  /\ shipment' = NoShip
  /\ UNCHANGED <<tip, edited, records, reviewing, judged, pullNow, reviewEvents>>

AbandonShip ==
  /\ shipment # NoShip
  /\ shipment' = NoShip
  /\ UNCHANGED <<tip, edited, records, reviewing, judged, pullNow, merged, reviewEvents>>

-----------------------------------------------------------------------------
(* The author, GitHub and other people. *)

MoveTip ==
  /\ Event
  /\ tip' \in Revisions \ {tip}
  /\ pullNow' = [pullNow EXCEPT !.checks = [c \in Checks |-> "pending"]]
  /\ UNCHANGED <<edited, records, reviewing, judged, shipment, merged>>

EditTracked ==
  /\ Event
  /\ edited' = ~edited
  /\ UNCHANGED <<tip, records, reviewing, judged, pullNow, shipment, merged>>

CheckReports ==
  /\ \E c \in Checks : /\ pullNow.checks[c] = "pending"
                       /\ \E s \in CheckStates \ {"pending"} :
                            pullNow' = [pullNow EXCEPT !.checks[c] = s]
  /\ UNCHANGED <<tip, edited, records, reviewing, judged, shipment, merged, reviewEvents>>

Toggled(set, x) == IF x \in set THEN set \ {x} ELSE set \cup {x}
RulesChange ==
  /\ Event
  /\ \/ \E f \in {"strict", "behind", "queue", "threads", "owned"} :
          pullNow' = [pullNow EXCEPT ![f] = ~@]
     \/ \E c \in Checks : pullNow' = [pullNow EXCEPT !.required = Toggled(@, c)]
     \/ \E p \in People : pullNow' = [pullNow EXCEPT !.pushers = Toggled(@, p)]
  /\ UNCHANGED <<tip, edited, records, reviewing, judged, shipment, merged>>

ReviewInit ==
  /\ tip = 0 /\ edited = FALSE
  /\ records = [r \in Revisions |-> Nothing0]
  /\ reviewing = [a \in Reviewers |-> ReviewerAtRest]
  /\ judged = {}
  /\ pullNow = [required |-> Checks, checks |-> [c \in Checks |-> "pending"],
             strict |-> FALSE, behind |-> FALSE, queue |-> FALSE, threads |-> FALSE,
             pushers |-> {}, owned |-> TRUE]
  /\ shipment = NoShip /\ merged = NoMerge /\ reviewEvents = 0

ReviewNext ==
  \/ \E a \in Reviewers :
       StartReview(a) \/ EndReview(a) \/ KeepEarlier(a) \/ StoreReview(a) \/ KillReview(a)
  \/ ReadPull \/ ReadPushers \/ ConfirmPull \/ ShippingNote \/ AdminMerge \/ AbandonShip
  \/ MoveTip \/ EditTracked \/ CheckReports \/ RulesChange

ReviewSpec == ReviewInit /\ [][ReviewNext]_reviewVars

-----------------------------------------------------------------------------
(* Properties. *)

(* A big revision is merged only with an outcome on record, and the verdict *)
(* shipping printed is one a reviewer gave of that very revision while it   *)
(* was HEAD.                                                                *)
ShippedAsJudged ==
  merged # NoMerge =>
    /\ merged.rev \in BigRevisions => merged.note # Nothing0
    /\ merged.note \in Verdicts => <<merged.rev, merged.note>> \in judged

(* An admin merge bypasses nothing but the review: what it merges is the    *)
(* revision that was read, all that GitHub would have asked of it besides   *)
(* the review was met when it was read, and then nobody but the author      *)
(* could have given the review.                                             *)
BypassesOnlyTheReview ==
  merged # NoMerge => merged.rev = merged.read /\ merged.ready /\ merged.alone

(* A completed review gives way to one that was not done only when it was   *)
(* stored while the other challenge was already past looking for it.        *)
CompletedReviewKept ==
  \A r \in Revisions :
    records[r] \in Verdicts /\ records'[r] = "not done" =>
      \E a \in Reviewers : reviewing[a].rev = r /\ reviewing[a].crossed

(* What ships is as it was judged, a completed review stays on record, and  *)
(* an admin merge leaves out nothing but the review (challenge.py,          *)
(* review_bypass.py).                                                       *)
ReviewSafe == [](ShippedAsJudged /\ BypassesOnlyTheReview) /\ [][CompletedReviewKept]_reviewVars
=============================================================================
