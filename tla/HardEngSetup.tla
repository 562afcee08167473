---------------------------- MODULE HardEngSetup ----------------------------
(***************************************************************************)
(* What setup writes into a repository and how an update proves that it    *)
(* wrote nothing else: the managed block at the top of AGENTS.md in front  *)
(* of the project's own rules (agent_hooks.configure_instructions), the    *)
(* scaffold files of the release (update.update_plan), and the check by    *)
(* which CI lets a branch of an update through (update.release_installed). *)
(*                                                                         *)
(* AGENTS.md is its lines: the two markers, a blank line, the rules a      *)
(* release ships, and rules of the project.  The tree is compared with the *)
(* base it branched from; people edit it before and after an update.       *)
(***************************************************************************)
EXTENDS Naturals, Sequences, SequencesExt, FiniteSets

CONSTANTS Rules,                   \* lines of the project's own
          SetupReleases,           \* numbered from 1
          BlockText,               \* [release -> the line of rules it ships]
          ScaffoldNames,           \* files some release ships
          Ships,                   \* [release -> the scaffold files it ships]
          NoScaffold,              \* a file that is not there
          Edited,                  \* a content no release ships
          Refusal,                 \* setup raised
          MaxLines, MaxSetupEdits  \* bound AGENTS.md and the edits

VARIABLES
  tree,          \* AGENTS.md, CLAUDE.md, scaffold and installed release of the branch
  treeBase,      \* the same of the base it branched from
  justUpdated,   \* the branch is its base and one update, nothing else
  setupEdits

setupVars == <<tree, treeBase, justUpdated, setupEdits>>

Markers == {"start", "end", "blank"}
Lines == Markers \cup Rules \cup Range(BlockText)
ScaffoldContents == SetupReleases \cup {NoScaffold, Edited}
ClaudeTexts == {"none", "import", "rules"}
SetupTrees == [agents: Seq(Lines), claudeMd: ClaudeTexts,
               files: [ScaffoldNames -> ScaffoldContents], at: SetupReleases]

(* The line of rules a release ships is told from the markers and from the  *)
(* rules of the project, the contents of a file from each other, and a text *)
(* or a tree from a refusal.                                                *)
ASSUME SetupConstants ==
  /\ 1 \in SetupReleases /\ SetupReleases \subseteq Nat
  /\ Ships \in [SetupReleases -> SUBSET ScaffoldNames]
  /\ DOMAIN BlockText = SetupReleases
  /\ \A r \in SetupReleases : BlockText[r] \notin Markers \cup Rules
  /\ Rules \cap Markers = {}
  /\ NoScaffold \notin SetupReleases /\ Edited \notin SetupReleases /\ NoScaffold # Edited
  /\ Refusal \notin Seq(Lines) /\ Refusal \notin SetupTrees
  /\ MaxSetupEdits \in Nat

SetupTypeOK ==
  /\ tree \in SetupTrees /\ treeBase \in SetupTrees
  /\ justUpdated \in BOOLEAN
  /\ setupEdits \in 0..MaxSetupEdits

-----------------------------------------------------------------------------
(* The managed block (agent_hooks.py). *)

Block(r) == <<"start", BlockText[r], "end">>
Managed(r) == <<"start", BlockText[r], "end", "blank">>
Count(text, line) == Cardinality({i \in DOMAIN text : text[i] = line})
Marked(text) == "start" \in Range(text) \/ "end" \in Range(text)

(* configure_instructions: the lines after the block the previous release   *)
(* wrote, or a refusal when the markers do not hold exactly that block.     *)
OwnLines(text, old) ==
  LET whole == IF text = Block(old) THEN Managed(old) ELSE text
  IN  CASE ~Marked(text) -> text
        [] Marked(text) /\ Count(whole, "start") = 1 /\ Count(whole, "end") = 1
             /\ IsPrefix(Managed(old), whole) -> SubSeq(whole, 5, Len(whole))
        [] OTHER -> Refusal

ConfigureInstructions(text, old, new) ==
  LET own == OwnLines(text, old)
  IN  CASE own = Refusal -> Refusal
        [] own = <<>>    -> Block(new)
        [] OTHER         -> Managed(new) \o own

(* instruction_suffix: what follows the first end marker and a blank line. *)
InstructionSuffix(text) ==
  LET ends == {i \in 1..(Len(text) - 1) : text[i] = "end" /\ text[i + 1] = "blank"}
  IN  CASE text # <<>> /\ text[1] = "start" /\ text[Len(text)] = "end"
             /\ Count(text, "end") = 1 -> <<>>
        [] ends # {} /\ ~(text[Len(text)] = "end" /\ text[1] = "start" /\ Count(text, "end") = 1) ->
             SubSeq(text, (CHOOSE i \in ends : \A j \in ends : i <= j) + 2, Len(text))
        [] OTHER -> text

-----------------------------------------------------------------------------
(* The plan of a setup of release new over a tree that release old wrote.   *)

(* Mutant: files are replaced whatever they hold.                           *)
LocalScaffoldEdit_Mutant(t, old, new) == FALSE

(* update_plan: a file the release no longer ships is removed only as the   *)
(* previous one shipped it; setup.py asks the same of those it replaces.    *)
LocalScaffoldEdit(t, old, new) ==
  \E n \in Ships[old] \cup Ships[new] :
    /\ t.files[n] # NoScaffold
    /\ t.files[n] \notin {r \in {old, new} : n \in Ships[r]}

UpdatePlan(t, old, new) ==
  IF \/ LocalScaffoldEdit(t, old, new)
     \/ t.claudeMd = "rules"
     \/ ConfigureInstructions(t.agents, old, new) = Refusal
  THEN Refusal
  ELSE [agents |-> ConfigureInstructions(t.agents, old, new),
        claudeMd |-> "none",
        files |-> [n \in ScaffoldNames |->
                     CASE n \in Ships[new]               -> new
                       [] n \in Ships[old] \ Ships[new]  -> NoScaffold
                       [] OTHER                          -> t.files[n]],
        at |-> new]

(* release_installed, over the paths that differ from the base. *)
ReleaseInstalled(b, t) ==
  /\ t.at # b.at
  /\ UpdatePlan(t, t.at, t.at) = t
  /\ \A n \in Ships[b.at] \ Ships[t.at] : t.files[n] = NoScaffold
  /\ \A n \in ScaffoldNames : t.files[n] # b.files[n] => n \in Ships[b.at] \cup Ships[t.at]
  /\ t.agents # b.agents => InstructionSuffix(b.agents) = InstructionSuffix(t.agents)

-----------------------------------------------------------------------------
InstallUpdate ==
  /\ \E new \in SetupReleases :
       /\ new > tree.at
       /\ UpdatePlan(tree, tree.at, new) # Refusal
       /\ tree' = UpdatePlan(tree, tree.at, new)
  /\ justUpdated' = (tree = treeBase)
  /\ UNCHANGED <<treeBase, setupEdits>>

(* repair_installation: the missing files of the installed release. *)
RepairInstall ==
  LET plan == UpdatePlan(tree, tree.at, tree.at)
  IN  /\ plan # Refusal /\ plan # tree
      /\ tree' = plan
  /\ justUpdated' = FALSE
  /\ UNCHANGED <<treeBase, setupEdits>>

LandTree ==
  /\ treeBase # tree
  /\ treeBase' = tree
  /\ justUpdated' = FALSE
  /\ UNCHANGED <<tree, setupEdits>>

EditSetup ==
  /\ setupEdits < MaxSetupEdits
  /\ setupEdits' = setupEdits + 1
  /\ \/ \E i \in 1..(Len(tree.agents) + 1) : \E line \in Markers \cup Rules :
          /\ Len(tree.agents) < MaxLines
          /\ tree' = [tree EXCEPT !.agents = InsertAt(@, i, line)]
     \/ \E i \in DOMAIN tree.agents : tree' = [tree EXCEPT !.agents = RemoveAt(@, i)]
     \/ \E n \in ScaffoldNames : \E c \in {NoScaffold, Edited} :
          tree' = [tree EXCEPT !.files[n] = c]
     \/ \E c \in ClaudeTexts : tree' = [tree EXCEPT !.claudeMd = c]
  /\ justUpdated' = FALSE
  /\ UNCHANGED treeBase

SetupInit ==
  /\ \E own \in {<<>>} \cup {<<r>> : r \in Rules} :
       tree = [agents |-> IF own = <<>> THEN Block(1) ELSE Managed(1) \o own,
               claudeMd |-> "none",
               files |-> [n \in ScaffoldNames |-> IF n \in Ships[1] THEN 1 ELSE NoScaffold],
               at |-> 1]
  /\ treeBase = tree
  /\ justUpdated = FALSE /\ setupEdits = 0

SetupNext == InstallUpdate \/ RepairInstall \/ LandTree \/ EditSetup
SetupSpec == SetupInit /\ [][SetupNext]_setupVars

-----------------------------------------------------------------------------
(* Properties. *)

(* An update proves itself: whatever the project's AGENTS.md looked like,   *)
(* when the update was not refused, CI accepts the branch it made as        *)
(* exactly the release (release_installed over what update_plan wrote).     *)
UpdateProvesItself == justUpdated => ReleaseInstalled(treeBase, tree)

(* The rules of the project are the same lines in the same order.           *)
RuleLines(text) == {i \in DOMAIN text : text[i] \in Rules}
SameRules(one, other) ==
  \E f \in [RuleLines(one) -> RuleLines(other)] :
    /\ \A j \in RuleLines(other) : \E i \in RuleLines(one) : f[i] = j
    /\ \A i \in RuleLines(one) : other[f[i]] = one[i]
    /\ \A i, j \in RuleLines(one) : i < j => f[i] < f[j]

(* What CI accepts so carries no work of anyone: the project's own lines    *)
(* are those of the base, and no file holds an edit the base has not.  (Of  *)
(* a base whose AGENTS.md setup could not have updated it is not true: the  *)
(* comparison does not see a rule above the block go.)                      *)
ProvenCarriesNoWork ==
  ReleaseInstalled(treeBase, tree) /\ OwnLines(treeBase.agents, treeBase.at) # Refusal =>
    /\ SameRules(treeBase.agents, tree.agents)
    /\ \A n \in ScaffoldNames : tree.files[n] = Edited => treeBase.files[n] = Edited

(* Setup never loses a rule of the project from AGENTS.md or CLAUDE.md, nor *)
(* a local edit of a file it ships.                                         *)
SetupKeepsRules ==
  setupEdits' = setupEdits /\ tree' # tree =>
    /\ SameRules(tree.agents, tree'.agents)
    /\ tree.claudeMd # "rules"
    /\ \A n \in ScaffoldNames : tree.files[n] = Edited => tree'.files[n] = Edited

(* An update proves itself to CI, what is proven is nothing but an update,  *)
(* and setup keeps what people wrote (configure_instructions, update_plan,  *)
(* release_installed).                                                      *)
SetupSafe == [](UpdateProvesItself /\ ProvenCarriesNoWork) /\ [][SetupKeepsRules]_setupVars
=============================================================================
