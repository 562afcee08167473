\* Each part of the development tooling on a small instance.
SPECIFICATION HardEngSpec
CONSTANTS
    Sessions = {s}  Publishers = {q}  Pushers = {p}
    OwnFixes = {f}  TeamFixes = {t}
    MaxRev = 3  MaxBase = 1  MaxEvents = 3  None = None
    MaxCommit = 3  MaxMoves = 1  MaxShipEvents = 3  Nothing = Nothing
    GateConfigs <- MCGateConfigs  Within <- MCWithin  Reach <- MCReach
    Checkers = {p1, p2}  Workers = 4  Nobody = Nobody
    Findings = {old, new, style, red}  NeverOld = {red}  Fixable = {style}  MaxEdits = 2
    CodeVersions = {0, 1, 2}  GoodCode = {0, 1}  Failures = {h}
    MaxCommits = 2  MaxTurns = 2  Gone = Gone  Torn = Torn
    Links = {link}  Contents = {a, b}  MaxTouches = 3
    Packages = {"lib", "app"}  Files <- MCFiles  Owner <- MCOwner  Unowned = "none"
    Document = {"notes"}  GateList = "gates"  Scaffold = "scaffold"  Releases = {"a", "b"}
    Configured <- MCConfigured  Reads <- MCReads  Failing <- MCFailing
    Versions <- MCVersions  Start <- MCStart  MaxChanges = 3
    OwnHooks = {"p1", "p2", "l1", "l2"}  Manager <- MCManager  NoManager = "none"
    Launchers = {"old launcher", "launcher"}  Broken = "broken"  NoFile = "no file"
    MaxHookEvents = 5
    ToolChecks = {k1, k2}  MaxVersion = 2  MaxMishaps = 2  NoCheck = NoCheck
    NoEntry = NoEntry  MaxMcpEdits = 2
    Absent = Absent  Plans = {m, n}  SmallLines = 1  SmallFiles = 2  MaxPlanEdits = 3
    Reviewers = {ca, co}  MaxRevision = 1  BigRevisions = {1}  Checks = {k}  People = {z}
    MaxReviewEvents = 3  Nothing0 = Nothing0
    PackageVersions = {1, 2, 3}  Unstable = {2}  Wait = 1  MaxHold = 1  LastDay = 2
    NoHold = NoHold
    Rules = {"rule"}  SetupReleases = {1, 2, 3}  ScaffoldNames = {"a", "b", "c"}
    Ships <- MCShips  BlockText <- MCBlock  Refusal = Refusal  NoScaffold = NoScaffold
    Edited = Edited  MaxLines = 7  MaxSetupEdits = 2
VIEW PartView
INVARIANTS
    HardEngTypeOK
    GatesSafe SessionsSafe ToolsSafe PlansSafe HoldsRunOut
PROPERTIES
    UpdateSafe ShippingSafe DebtSafe  ImpactSafe HooksSafe McpSafe ReviewSafe SetupSafe
CHECK_DEADLOCK FALSE
