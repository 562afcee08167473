----------------------------- MODULE HardEngMcp -----------------------------
(***************************************************************************)
(* .hooks/mcp_setup.py: setup registers the tool servers of the services   *)
(* a repository uses in two harnesses (.mcp.json for Claude Code,          *)
(* .codex/config.toml for Codex) and retires a third                       *)
(* (.github/mcp.json).  People write entries into the same files, and the  *)
(* target of a service is worked out from whatever is already there, so a  *)
(* setup reads what earlier setups and people have written.                *)
(*                                                                         *)
(* An entry is abstracted to what setup tells apart: a hosted URL ("cloud" *)
(* and, for Sentry, a second one, "org"), the repository's own launcher    *)
(* with and without arguments or an environment of its own, the old stdio  *)
(* command ("legacy"), some other command ("custom") and a server of an    *)
(* integration that was retired ("retired").                               *)
(***************************************************************************)
EXTENDS Naturals, FiniteSets

CONSTANTS NoEntry,        \* a file has no entry of that name
          MaxMcpEdits     \* bounds the edits people make

Services == {"appwrite", "sentry"}
ServerNames == Services \cup {"mine", "old"}

(* What a person may write under each name. *)
WrittenEntries == [n \in ServerNames |->
              CASE n = "appwrite" -> {"cloud", "launcher", "launcher+env", "legacy", "custom"}
                [] n = "sentry"   -> {"cloud", "org", "launcher", "launcher+env", "custom"}
                [] n = "mine"     -> {"custom"}
                [] n = "old"      -> {"retired"}]
Refused == "refused"    \* instead of an entry: setup raised
McpEntries == UNION {WrittenEntries[n] : n \in ServerNames}

ASSUME McpConstants ==
  /\ NoEntry \notin McpEntries \cup {Refused}
  /\ MaxMcpEdits \in Nat

VARIABLES
  claude, codex, copilot, \* the entries of the three files, by name
  approved,               \* enabledMcpjsonServers of .claude/settings.json
  mcpEnv,                 \* what the environment and the repository say of the services
  mcpFresh,               \* the last event was a setup that was not refused
  mcpEdits

mcpVars == <<claude, codex, copilot, approved, mcpEnv, mcpFresh, mcpEdits>>

McpFiles == {f \in [ServerNames -> McpEntries \cup {NoEntry}] :
               \A n \in ServerNames : f[n] \in WrittenEntries[n] \cup {NoEntry}}
NoServers == [n \in ServerNames |-> NoEntry]
McpEnvs == [uses : SUBSET Services, scripts : SUBSET Services,
            endpoint : {NoEntry, "cloud", "self"},
            url : {NoEntry, "cloud", "org"}, host : {NoEntry, "cloud", "self"}]

McpTypeOK ==
  /\ {claude, codex, copilot} \subseteq McpFiles
  /\ approved \subseteq ServerNames
  /\ mcpEnv \in McpEnvs
  /\ mcpFresh \in BOOLEAN
  /\ mcpEdits \in 0..MaxMcpEdits

-----------------------------------------------------------------------------
(* What a service's target is: an entry, NoEntry when setup can only print  *)
(* that it is pending, or a refusal.                                        *)

Existing(s) == {claude[s], codex[s], copilot[s]} \ {NoEntry}
Hosted == {"cloud", "org"}
OwnLauncher == {"launcher", "launcher+env"}
Scripted(s) == s \in mcpEnv.scripts     \* ./scripts/<s>-mcp is an executable file

\* service_value: the endpoints named by the environment and by an entry with its own.
NamedEndpoints ==
  ({mcpEnv.endpoint} \ {NoEntry})
    \cup (IF "launcher+env" \in Existing("appwrite") THEN {"self"} ELSE {})

AppwriteServer ==
  LET existing == Existing("appwrite")
      named    == NamedEndpoints
      cloud    == IF named = {} THEN "cloud" \in existing ELSE "cloud" \in named
      launcher == Scripted("appwrite") /\ existing \cap OwnLauncher # {}
      conflict == \/ Cardinality(named) > 1
                  \/ cloud /\ (launcher \/ "legacy" \in existing)
                  \/ ~cloud /\ ("cloud" \in existing \/ "legacy" \in existing)
                  \/ launcher /\ "launcher+env" \in existing
  IN  CASE conflict                           -> Refused
        [] ~conflict /\ cloud                 -> "cloud"
        [] ~conflict /\ ~cloud /\ Scripted("appwrite") -> "launcher"
        [] OTHER                              -> NoEntry

SentryServer ==
  LET existing == Existing("sentry")
      targets  == {IF e \in OwnLauncher THEN "launcher" ELSE e : e \in existing}
                    \cup ({mcpEnv.url} \ {NoEntry})
      found    == CHOOSE t \in targets : TRUE
      conflict == \/ Cardinality(targets) > 1
                  \/ targets # {} /\ found \in Hosted /\ mcpEnv.host = "self"
                  \/ targets = {"launcher"} /\ Scripted("sentry") /\ "launcher+env" \in existing
  IN  CASE conflict                                      -> Refused
        [] ~conflict /\ targets # {} /\ found \in Hosted -> found
        [] ~conflict /\ targets = {"launcher"} /\ Scripted("sentry") -> "launcher"
        [] ~conflict /\ targets = {} /\ Scripted("sentry") /\ mcpEnv.host # "cloud" -> "launcher"
        [] OTHER                                         -> NoEntry

DetectedServers ==
  [n \in ServerNames |->
     CASE n = "appwrite" /\ n \in mcpEnv.uses -> AppwriteServer
       [] n = "sentry" /\ n \in mcpEnv.uses   -> SentryServer
       [] OTHER                               -> NoEntry]

-----------------------------------------------------------------------------
(* The files a setup leaves: retired entries go, a detected server is added *)
(* where its name is free.                                                  *)

RetiredServer(e) == e = "retired"
RetireServers(file) ==
  [n \in ServerNames |-> IF RetiredServer(file[n]) THEN NoEntry ELSE file[n]]
WithServers(file) ==
  [n \in ServerNames |-> IF file[n] = NoEntry THEN DetectedServers[n] ELSE RetireServers(file)[n]]

KeptServer(n, e) == e \in {WithServers(claude)[n], WithServers(codex)[n]}

(* Mutant: the retired file is not compared with the two that stay.         *)
CopilotPreserved_Mutant == TRUE

(* retire_copilot_mcp: every entry of the retired file must be kept elsewhere. *)
CopilotPreserved ==
  \A n \in ServerNames :
    \/ copilot[n] = NoEntry \/ RetiredServer(copilot[n]) \/ KeptServer(n, copilot[n])

\* retire_claude_integrations, then approve_claude_servers
RetireApproved == {n \in approved : ~RetiredServer(claude[n]) /\ n # "old"}
ApprovedAfter ==
  RetireApproved
    \cup {n \in ServerNames : DetectedServers[n] # NoEntry /\ WithServers(claude)[n] # NoEntry}

McpAccepted == (\A n \in ServerNames : DetectedServers[n] # Refused) /\ CopilotPreserved

(* configure_mcp: nothing is written when any part refuses. *)
ConfigureMcp ==
  /\ mcpFresh' = McpAccepted
  /\ IF McpAccepted
     THEN /\ claude' = WithServers(claude)
          /\ codex' = WithServers(codex)
          /\ copilot' = NoServers
          /\ approved' = ApprovedAfter
     ELSE UNCHANGED <<claude, codex, copilot, approved>>
  /\ UNCHANGED <<mcpEnv, mcpEdits>>

-----------------------------------------------------------------------------
(* What people do between setups. *)

McpEdit ==
  /\ mcpEdits < MaxMcpEdits
  /\ mcpEdits' = mcpEdits + 1
  /\ mcpFresh' = FALSE

EditServers ==
  /\ McpEdit
  /\ \E n \in ServerNames : \E e \in WrittenEntries[n] \cup {NoEntry} :
       \/ claude' = [claude EXCEPT ![n] = e] /\ UNCHANGED <<codex, copilot>>
       \/ codex' = [codex EXCEPT ![n] = e] /\ UNCHANGED <<claude, copilot>>
       \/ copilot' = [copilot EXCEPT ![n] = e] /\ UNCHANGED <<claude, codex>>
  /\ UNCHANGED <<approved, mcpEnv>>

ChangeTarget ==
  /\ McpEdit
  /\ mcpEnv' \in McpEnvs
  /\ Cardinality({f \in DOMAIN mcpEnv : mcpEnv'[f] # mcpEnv[f]}) = 1
  /\ UNCHANGED <<claude, codex, copilot, approved>>

McpInit ==
  /\ claude = NoServers /\ codex = NoServers /\ copilot = NoServers
  /\ approved = {}
  /\ mcpEnv \in {e \in McpEnvs : e.uses = Services}
  /\ mcpFresh = FALSE
  /\ mcpEdits = 0

McpNext == ConfigureMcp \/ EditServers \/ ChangeTarget

McpSpec == McpInit /\ [][McpNext]_mcpVars

-----------------------------------------------------------------------------
(* Properties. *)

(* A repeated setup settles: after one that was not refused, running it     *)
(* again is not refused and changes no file, whatever it wrote itself now   *)
(* counts as an existing definition it has to agree with.                   *)
SetupSettles ==
  mcpFresh => /\ McpAccepted
              /\ WithServers(claude) = claude /\ WithServers(codex) = codex
              /\ ApprovedAfter = approved

(* After a setup no two harnesses reach the same service through different  *)
(* live targets: a hosted address in one and the repository's launcher in   *)
(* the other, or two hosted addresses.                                      *)
LiveTargets(s) == {IF e \in OwnLauncher THEN "launcher" ELSE e :
              e \in {e \in Existing(s) : e \in Hosted \/ (e \in OwnLauncher /\ Scripted(s))}}
OneTarget == mcpFresh => \A s \in mcpEnv.uses : Cardinality(LiveTargets(s)) <= 1

(* No step of setup loses an entry that is not of a retired integration:    *)
(* what .mcp.json or .codex/config.toml defines stays as it is, and what    *)
(* the retired file defined is still defined in one of the two.             *)
NoEntryLost ==
  mcpEdits' = mcpEdits =>
    \A n \in ServerNames :
      /\ claude[n] \notin {NoEntry, "retired"} => claude'[n] = claude[n]
      /\ codex[n] \notin {NoEntry, "retired"} => codex'[n] = codex[n]
      /\ copilot[n] \notin {NoEntry, "retired", copilot'[n]} =>
           copilot[n] \in {claude'[n], codex'[n]}

(* Setup settles on one target for each service and loses no entry that is  *)
(* not retired (configure_mcp).                                             *)
McpSafe == [](SetupSettles /\ OneTarget) /\ [][NoEntryLost]_mcpVars
=============================================================================
