\* The server and a CLI append to the same log, and a row may be altered.
SPECIFICATION Spec
SYMMETRY EventSymmetry
CONSTANTS
    server = server  cli = cli
    e1 = e1  e2 = e2
    Procs = {server, cli}
    Events = {e1, e2}
    MaxRows = 4
INVARIANTS
    AlterationDetected
    OnlyForksBreak
PROPERTIES
    BrokenForGood
