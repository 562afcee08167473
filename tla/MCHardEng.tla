------------------------------ MODULE MCHardEng ------------------------------
(***************************************************************************)
(* Small instances of the parts of the development tooling (.hooks): one   *)
(* of them runs, chosen at the start, and the others stay as they begin.   *)
(* The parts share no state here, what they touch of each other is in the  *)
(* modules themselves, so the behaviours are those of fourteen separate    *)
(* models in one run.                                                      *)
(***************************************************************************)
EXTENDS HardEngUpdate, HardEngShipping, HardEngGates, HardEngDebt, HardEngSessions,
        HardEngInstall, HardEngImpact, HardEngTools, HardEngHooks, HardEngMcp, HardEngPlans,
        HardEngReview, HardEngFreshness, HardEngSetup, TLC

VARIABLE part  \* the one that runs

-----------------------------------------------------------------------------
(* Three gate lists: writers and readers of one package, a scan of the whole *)
(* repository, and a measured gate between others.                          *)
Gate(pkg, role, parallel) ==
  [pkg |-> pkg, role |-> role, parallel |-> parallel, js |-> pkg = "web", fallow |-> FALSE]
MCWithin == {<<"root", "root">>, <<"lib", "lib">>, <<"web", "web">>,
             <<"lib", "root">>, <<"web", "root">>}
MCReach == [p \in {"root", "lib", "web"} |-> IF p = "web" THEN {"lib"} ELSE {}]
MCGateConfigs == {
  <<Gate("lib", "lint", TRUE), Gate("lib", "build", FALSE), Gate("web", "tests", TRUE),
    Gate("web", "lint", FALSE)>>,
  <<Gate("lib", "tests", FALSE), Gate("root", "scan", TRUE), Gate("root", "lockfiles", FALSE),
    Gate("web", "build", TRUE), [Gate("web", "lint", TRUE) EXCEPT !.fallow = TRUE]>>,
  <<Gate("web", "tests", TRUE), Gate("lib", "lint", FALSE), Gate("lib", "performance", FALSE),
    Gate("web", "build", FALSE)>>}

(* Two packages: app uses lib, and in gate list b lib uses app too.         *)
MCFiles == {"lib.c", "app.c", "schema", "notes", "gates", "scaffold"}
MCOwner == [f \in MCFiles |-> CASE f = "lib.c" -> "lib" [] f \in {"app.c", "notes"} -> "app"
                                [] OTHER -> "none"]
MCReads == [p \in {"lib", "app"} |-> IF p = "lib" THEN {"lib.c"} ELSE {"app.c", "lib.c", "schema"}]
MCConfigured ==
  [v \in {"a", "b"} |->
     [depends_on |-> [p \in {"lib", "app"} |->
        CASE p = "app" -> {"lib"} [] p = "lib" /\ v = "b" -> {"app"} [] OTHER -> {}],
      impact_inputs |-> [p \in {"lib", "app"} |-> IF p = "app" THEN {"schema"} ELSE {}]]]
MCFailing ==
  [p \in {"lib", "app"} |-> IF p = "lib" THEN {} ELSE
     {[read |-> r, rules |-> u, gates |-> g] :
        r \in {x \in [MCReads["app"] -> {"a", "b", "c"}] : x["lib.c"] # x["app.c"]},
        u \in {"release", "c"}, g \in {"a", "b"}}]
MCVersions == [f \in MCFiles |-> IF f = "scaffold" THEN {"a", "b", "c"} ELSE {"a", "b"}]
MCStart == [f \in MCFiles |-> "a"]

(* Hooks of two people and two versions of one manager's.                   *)
MCManager == [h \in {"p1", "p2", "l1", "l2"} |-> IF h \in {"l1", "l2"} THEN "lefthook" ELSE "none"]

(* Release 2 ships a new file, release 3 drops an old one.                  *)
MCShips == 1 :> {"a"} @@ 2 :> {"a", "b"} @@ 3 :> {"b"}
MCBlock == 1 :> "b1" @@ 2 :> "b2" @@ 3 :> "b3"

-----------------------------------------------------------------------------
Parts == {"update", "shipping", "gates", "debt", "sessions", "install", "impact", "tools",
          "hooks", "mcp", "plans", "review", "freshness", "setup"}

(* A part that does not run keeps one of its initial states.  The tool      *)
(* servers start with at most one target named by the environment; people   *)
(* name others later.                                                       *)
Runs(p, fixed) == part = p \/ fixed

HardEngInit ==
  /\ part \in Parts
  /\ UpdInit /\ ShipInit
  /\ GatesInit /\ Runs("gates", gates = CHOOSE c \in MCGateConfigs : TRUE)
  /\ DebtInit /\ Runs("debt", mainline.found = {})
  /\ SesInit /\ Runs("sessions", workTree = log[1])
  /\ InsInit /\ Runs("install", mode = "update")
  /\ ImpactInit /\ ToolsInit
  /\ HooksInit /\ Runs("hooks", hook = NoFile /\ launcher = "launcher" /\ ~husky)
  /\ McpInit /\ Cardinality({f \in {"endpoint", "url", "host"} : mcpEnv[f] # NoEntry}) <= 1
              /\ Runs("mcp", mcpEnv.scripts = {} /\ mcpEnv.endpoint = "cloud")
  /\ PlansInit /\ ReviewInit /\ FreshInit
  /\ SetupInit /\ Runs("setup", Len(tree.agents) = 3)

\* Part p takes a step of its own, the others none.
Step(p, Moves) ==
  /\ part = p /\ Moves /\ UNCHANGED part
  /\ IF p = "update" THEN TRUE ELSE UNCHANGED updVars
  /\ IF p = "shipping" THEN TRUE ELSE UNCHANGED shipVars
  /\ IF p = "gates" THEN TRUE ELSE UNCHANGED gateVars
  /\ IF p = "debt" THEN TRUE ELSE UNCHANGED debtVars
  /\ IF p = "sessions" THEN TRUE ELSE UNCHANGED sesVars
  /\ IF p = "install" THEN TRUE ELSE UNCHANGED insVars
  /\ IF p = "impact" THEN TRUE ELSE UNCHANGED impVars
  /\ IF p = "tools" THEN TRUE ELSE UNCHANGED toolVars
  /\ IF p = "hooks" THEN TRUE ELSE UNCHANGED hookVars
  /\ IF p = "mcp" THEN TRUE ELSE UNCHANGED mcpVars
  /\ IF p = "plans" THEN TRUE ELSE UNCHANGED planVars
  /\ IF p = "review" THEN TRUE ELSE UNCHANGED reviewVars
  /\ IF p = "freshness" THEN TRUE ELSE UNCHANGED freshVars
  /\ IF p = "setup" THEN TRUE ELSE UNCHANGED setupVars

HardEngNext ==
  \/ Step("update", UpdNext)
  \/ Step("shipping", ShipNext)
  \/ Step("gates", GatesNext)
  \/ Step("debt", DebtNext)
  \/ Step("sessions", SesNext)
  \/ Step("install", InsNext)
  \/ Step("impact", ImpactNext)
  \/ Step("tools", ToolsNext)
  \/ Step("hooks", HooksNext)
  \/ Step("mcp", McpNext)
  \/ Step("plans", PlansNext)
  \/ Step("review", ReviewNext)
  \/ Step("freshness", FreshNext)
  \/ Step("setup", SetupNext)

HardEngVars == <<part, updVars, shipVars, gateVars, debtVars, sesVars, insVars, impVars, toolVars,
                 hookVars, mcpVars, planVars, reviewVars, freshVars, setupVars>>

(* The parts that do not run stay as they began, so the state is told apart *)
(* by the part that runs.                                                   *)
PartView ==
  CASE part = "update" -> <<part, updVars>> [] part = "shipping" -> <<part, shipVars>>
    [] part = "gates" -> <<part, gateVars>> [] part = "debt" -> <<part, debtVars>>
    [] part = "sessions" -> <<part, sesVars>> [] part = "install" -> <<part, insVars>>
    [] part = "impact" -> <<part, impVars>> [] part = "tools" -> <<part, toolVars>>
    [] part = "hooks" -> <<part, hookVars>> [] part = "mcp" -> <<part, mcpVars>>
    [] part = "plans" -> <<part, planVars>> [] part = "review" -> <<part, reviewVars>>
    [] part = "freshness" -> <<part, freshVars>> [] part = "setup" -> <<part, setupVars>>

HardEngSpec == HardEngInit /\ [][HardEngNext]_HardEngVars

-----------------------------------------------------------------------------
\* The variables of the part that runs hold values of the program.
HardEngTypeOK ==
  CASE part = "update" -> UpdTypeOK [] part = "shipping" -> ShipTypeOK
    [] part = "gates" -> GatesTypeOK [] part = "debt" -> DebtTypeOK
    [] part = "sessions" -> SesTypeOK [] part = "install" -> InsTypeOK
    [] part = "impact" -> ImpactTypeOK [] part = "tools" -> ToolsTypeOK
    [] part = "hooks" -> HooksTypeOK [] part = "mcp" -> McpTypeOK
    [] part = "plans" -> PlansTypeOK [] part = "review" -> ReviewTypeOK
    [] part = "freshness" -> FreshTypeOK [] part = "setup" -> SetupTypeOK
=============================================================================
