\* Two writers, and no row is altered.
SPECIFICATION Spec
SYMMETRY EventSymmetry
CONSTANTS
    server = server  cli = cli
    e1 = e1  e2 = e2
    Procs = {server, cli}
    Events = {e1, e2}
    MaxRows = 3
INVARIANTS
    TamperedMeansAltered
