---------------------------- MODULE HardEngProofs ----------------------------
(***************************************************************************)
(* The parts of the development tooling together, as MCHardEng composes    *)
(* them.  HardEngSpec moves one part at a time, and each part behaves in   *)
(* it as its own specification says, so that the theorems about the parts  *)
(* in HardEngWorkProofs and HardEngUpkeepProofs are theorems about it.     *)
(***************************************************************************)
EXTENDS MCHardEng, HardEngWorkProofs, HardEngUpkeepProofs

EachStep ==
  [UpdNext]_updVars /\ [ShipNext]_shipVars /\ [GatesNext]_gateVars /\ [DebtNext]_debtVars
  /\ [SesNext]_sesVars /\ [InsNext]_insVars /\ [ImpactNext]_impVars /\ [ToolsNext]_toolVars
  /\ [HooksNext]_hookVars /\ [McpNext]_mcpVars /\ [PlansNext]_planVars
  /\ [ReviewNext]_reviewVars /\ [FreshNext]_freshVars /\ [SetupNext]_setupVars

EachSpec ==
  UpdSpec /\ ShipSpec /\ GatesSpec /\ DebtSpec /\ SesSpec /\ InsSpec /\ ImpactSpec /\ ToolsSpec
  /\ HooksSpec /\ McpSpec /\ PlansSpec /\ ReviewSpec /\ FreshSpec /\ SetupSpec

LEMMA StepsApart == HardEngNext \/ UNCHANGED HardEngVars => EachStep
<1> SUFFICES ASSUME HardEngNext \/ UNCHANGED HardEngVars PROVE EachStep
  OBVIOUS
<1>1. CASE Step("update", UpdNext)
  BY <1>1 DEF Step, EachStep
<1>2. CASE Step("shipping", ShipNext)
  BY <1>2 DEF Step, EachStep
<1>3. CASE Step("gates", GatesNext)
  BY <1>3 DEF Step, EachStep
<1>4. CASE Step("debt", DebtNext)
  BY <1>4 DEF Step, EachStep
<1>5. CASE Step("sessions", SesNext)
  BY <1>5 DEF Step, EachStep
<1>6. CASE Step("install", InsNext)
  BY <1>6 DEF Step, EachStep
<1>7. CASE Step("impact", ImpactNext)
  BY <1>7 DEF Step, EachStep
<1>8. CASE Step("tools", ToolsNext)
  BY <1>8 DEF Step, EachStep
<1>9. CASE Step("hooks", HooksNext)
  BY <1>9 DEF Step, EachStep
<1>10. CASE Step("mcp", McpNext)
  BY <1>10 DEF Step, EachStep
<1>11. CASE Step("plans", PlansNext)
  BY <1>11 DEF Step, EachStep
<1>12. CASE Step("review", ReviewNext)
  BY <1>12 DEF Step, EachStep
<1>13. CASE Step("freshness", FreshNext)
  BY <1>13 DEF Step, EachStep
<1>14. CASE Step("setup", SetupNext)
  BY <1>14 DEF Step, EachStep
<1>15. CASE UNCHANGED HardEngVars
  BY <1>15 DEF HardEngVars, EachStep
<1> QED
  BY <1>1, <1>2, <1>3, <1>4, <1>5, <1>6, <1>7, <1>8, <1>9, <1>10, <1>11, <1>12, <1>13, <1>14,
     <1>15
  DEF HardEngNext

\* Each part of the composition behaves as its own specification says.
THEOREM EachPartRuns == HardEngSpec => EachSpec
<1>1. HardEngSpec => UpdSpec
  <2>1. HardEngInit => UpdInit
    BY DEF HardEngInit
  <2>2. [HardEngNext]_HardEngVars => [UpdNext]_updVars
    BY StepsApart DEF EachStep
  <2> QED
    BY <2>1, <2>2, PTL DEF HardEngSpec, UpdSpec
<1>2. HardEngSpec => ShipSpec
  <2>1. HardEngInit => ShipInit
    BY DEF HardEngInit
  <2>2. [HardEngNext]_HardEngVars => [ShipNext]_shipVars
    BY StepsApart DEF EachStep
  <2> QED
    BY <2>1, <2>2, PTL DEF HardEngSpec, ShipSpec
<1>3. HardEngSpec => GatesSpec
  <2>1. HardEngInit => GatesInit
    BY DEF HardEngInit
  <2>2. [HardEngNext]_HardEngVars => [GatesNext]_gateVars
    BY StepsApart DEF EachStep
  <2> QED
    BY <2>1, <2>2, PTL DEF HardEngSpec, GatesSpec
<1>4. HardEngSpec => DebtSpec
  <2>1. HardEngInit => DebtInit
    BY DEF HardEngInit
  <2>2. [HardEngNext]_HardEngVars => [DebtNext]_debtVars
    BY StepsApart DEF EachStep
  <2> QED
    BY <2>1, <2>2, PTL DEF HardEngSpec, DebtSpec
<1>5. HardEngSpec => SesSpec
  <2>1. HardEngInit => SesInit
    BY DEF HardEngInit
  <2>2. [HardEngNext]_HardEngVars => [SesNext]_sesVars
    BY StepsApart DEF EachStep
  <2> QED
    BY <2>1, <2>2, PTL DEF HardEngSpec, SesSpec
<1>6. HardEngSpec => InsSpec
  <2>1. HardEngInit => InsInit
    BY DEF HardEngInit
  <2>2. [HardEngNext]_HardEngVars => [InsNext]_insVars
    BY StepsApart DEF EachStep
  <2> QED
    BY <2>1, <2>2, PTL DEF HardEngSpec, InsSpec
<1>7. HardEngSpec => ImpactSpec
  <2>1. HardEngInit => ImpactInit
    BY DEF HardEngInit
  <2>2. [HardEngNext]_HardEngVars => [ImpactNext]_impVars
    BY StepsApart DEF EachStep
  <2> QED
    BY <2>1, <2>2, PTL DEF HardEngSpec, ImpactSpec
<1>8. HardEngSpec => ToolsSpec
  <2>1. HardEngInit => ToolsInit
    BY DEF HardEngInit
  <2>2. [HardEngNext]_HardEngVars => [ToolsNext]_toolVars
    BY StepsApart DEF EachStep
  <2> QED
    BY <2>1, <2>2, PTL DEF HardEngSpec, ToolsSpec
<1>9. HardEngSpec => HooksSpec
  <2>1. HardEngInit => HooksInit
    BY DEF HardEngInit
  <2>2. [HardEngNext]_HardEngVars => [HooksNext]_hookVars
    BY StepsApart DEF EachStep
  <2> QED
    BY <2>1, <2>2, PTL DEF HardEngSpec, HooksSpec
<1>10. HardEngSpec => McpSpec
  <2>1. HardEngInit => McpInit
    BY DEF HardEngInit
  <2>2. [HardEngNext]_HardEngVars => [McpNext]_mcpVars
    BY StepsApart DEF EachStep
  <2> QED
    BY <2>1, <2>2, PTL DEF HardEngSpec, McpSpec
<1>11. HardEngSpec => PlansSpec
  <2>1. HardEngInit => PlansInit
    BY DEF HardEngInit
  <2>2. [HardEngNext]_HardEngVars => [PlansNext]_planVars
    BY StepsApart DEF EachStep
  <2> QED
    BY <2>1, <2>2, PTL DEF HardEngSpec, PlansSpec
<1>12. HardEngSpec => ReviewSpec
  <2>1. HardEngInit => ReviewInit
    BY DEF HardEngInit
  <2>2. [HardEngNext]_HardEngVars => [ReviewNext]_reviewVars
    BY StepsApart DEF EachStep
  <2> QED
    BY <2>1, <2>2, PTL DEF HardEngSpec, ReviewSpec
<1>13. HardEngSpec => FreshSpec
  <2>1. HardEngInit => FreshInit
    BY DEF HardEngInit
  <2>2. [HardEngNext]_HardEngVars => [FreshNext]_freshVars
    BY StepsApart DEF EachStep
  <2> QED
    BY <2>1, <2>2, PTL DEF HardEngSpec, FreshSpec
<1>14. HardEngSpec => SetupSpec
  <2>1. HardEngInit => SetupInit
    BY DEF HardEngInit
  <2>2. [HardEngNext]_HardEngVars => [SetupNext]_setupVars
    BY StepsApart DEF EachStep
  <2> QED
    BY <2>1, <2>2, PTL DEF HardEngSpec, SetupSpec
<1> QED
  BY <1>1, <1>2, <1>3, <1>4, <1>5, <1>6, <1>7, <1>8, <1>9, <1>10, <1>11, <1>12, <1>13, <1>14 DEF EachSpec

\* The variables of the part that runs hold values of the program, whichever
\* part that is and whatever values the constants of the parts have.
THEOREM HardEngTyping == HardEngSpec => []HardEngTypeOK
<1> DEFINE EachTypeOK ==
      UpdTypeOK /\ ShipTypeOK /\ GatesTypeOK /\ DebtTypeOK /\ SesTypeOK /\ InsTypeOK
      /\ ImpactTypeOK /\ ToolsTypeOK /\ HooksTypeOK /\ McpTypeOK /\ PlansTypeOK /\ ReviewTypeOK
      /\ FreshTypeOK /\ SetupTypeOK
<1>1. HardEngSpec => []EachTypeOK
  BY EachPartRuns, UpdateTyping, ShippingTyping, GatesTyping, DebtTyping, SessionsTyping,
     InstallTyping, ImpactTyping, ToolsTyping, HooksTyping, McpTyping, PlansTyping, ReviewTyping,
     FreshTyping, SetupTyping,
     PTL DEF EachSpec
<1>2. HardEngSpec => [](part \in Parts)
  <2>1. HardEngInit => part \in Parts
    BY DEF HardEngInit
  <2>2. part \in Parts /\ [HardEngNext]_HardEngVars => (part \in Parts)'
    BY DEF HardEngNext, HardEngVars, Step
  <2> QED
    BY <2>1, <2>2, PTL DEF HardEngSpec
<1>3. part \in Parts /\ EachTypeOK => HardEngTypeOK
  BY DEF Parts, HardEngTypeOK
<1> HIDE DEF EachTypeOK
<1> QED
  BY <1>1, <1>2, <1>3, PTL
==============================================================================
