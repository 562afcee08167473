----------------------------- MODULE HardEngGates -----------------------------
(***************************************************************************)
(* One `hard-eng.py check` orders the gates of its packages, starts each   *)
(* once the gates it waits for have finished, and runs every command in a  *)
(* process group that an interrupt stops (gate_schedule.py,                *)
(* process_group.py and the gate runner of hard-eng.py).  Checks of one    *)
(* checkout take turns through hard-eng-check.lock.                        *)
(*                                                                         *)
(* A gate is what the schedule reads of it: its package, its role, whether *)
(* it was declared parallel, whether it is a JavaScript package's and      *)
(* whether its report is Fallow's.                                         *)
(***************************************************************************)
EXTENDS Integers, Sequences, FiniteSets, SequencesExt

CONSTANTS
  GateConfigs,  \* sequences of gates, in the order hard-eng.gates.json has them
  Within,       \* pairs <<path, folder>>: path is folder or inside it
  Reach,        \* package -> packages it depends on, transitively
  Checkers,     \* check processes of one checkout
  Workers,      \* os.cpu_count()
  Nobody        \* no process, no gate

GateEntry == [pkg: DOMAIN Reach, parallel: BOOLEAN, js: BOOLEAN, fallow: BOOLEAN,
              role: {"lockfiles", "performance", "scan", "build", "lint", "tests"}]

ASSUME GateConstants ==
  /\ Workers \in Nat \ {0}
  /\ Nobody \notin Checkers \cup Nat
  /\ GateConfigs \subseteq Seq(GateEntry)

VARIABLES
  gates,     \* the gates of the check, ordered by gate_order
  turn,      \* the holder of hard-eng-check.lock
  check,     \* [Checkers -> the main thread of the check]
  thread,    \* [Checkers -> [gate -> the pool thread that runs it]]
  starting,  \* [Checkers -> the gate whose thread holds STARTING]
  report     \* [gate -> the check whose command wrote the report on disk]

gateVars == <<gates, turn, check, thread, starting, report>>

-----------------------------------------------------------------------------
(* gate_schedule: the order and who waits for whom. *)

EarlyScan(g) == g.role = "scan" /\ g.parallel
Writes(g) == g.role \in {"lockfiles", "build"}    \* every role not in READ_ONLY_ROLES
Timed(g) == g.role = "performance"
Inside(p, folder) == <<p, folder>> \in Within

StaysAfter(g, before) ==
  \/ Writes(before)
  \/ Timed(g) /\ Timed(before)
  \/ ~Timed(g) /\ Inside(before.pkg, g.pkg)

\* A writer or a suite moves up to just behind the last gate it stays after.
Place(order, g) ==
  IF Writes(g) \/ Timed(g)
  THEN InsertAt(order, 1 + Max({0} \cup {i \in DOMAIN order : StaysAfter(g, order[i])}), g)
  ELSE Append(order, g)

GateOrder(checks) ==
  LET Plain(g) == g.role # "lockfiles" /\ ~EarlyScan(g)
      order == FoldLeft(Place, <<>>, SelectSeq(checks, Plain))
      cut == Max({0} \cup {i \in DOMAIN order : Writes(order[i]) \/ Timed(order[i])})
  IN SelectSeq(checks, LAMBDA g : g.role = "lockfiles")
       \o SubSeq(order, 1, cut) \o SelectSeq(checks, EarlyScan)
       \o SubSeq(order, cut + 1, Len(order))

\* What the folds and filters of gate_order build is a list of gates again.
ASSUME GateOrderLists == \A c \in GateConfigs : GateOrder(c) \in Seq(GateEntry)

Related(p, q) == Inside(p, q) \/ Inside(q, p) \/ q \in Reach[p] \/ p \in Reach[q]
ClearsReports(g) == g.js /\ g.role = "tests"

Waits(a, b) ==
  \/ {a.role, b.role} \cap {"lockfiles", "performance"} # {}
  \/ a.pkg = b.pkg /\ ~a.parallel /\ ~b.parallel
  \/ /\ Writes(a) \/ Writes(b)
     /\ EarlyScan(a) \/ EarlyScan(b) \/ ~(a.parallel /\ b.parallel)
     /\ Related(a.pkg, b.pkg)
  \/ a.pkg = b.pkg /\ (ClearsReports(a) \/ ClearsReports(b))
  \/ b.fallow /\ a.role = "tests" /\ a.pkg \in Reach[b.pkg]

Needs(j) == {i \in 1..(j - 1) : Waits(gates[i], gates[j])}

Budget == Max({2, Workers \div 4})    \* serial gates at once
Serial(set) == {i \in set : ~gates[i].parallel}

\* One pass over the waiting gates, in their order, leaves run running: a gate is
\* submitted unless the pool is full by then, it waits for another, or the budget is spent.
Submitted(c, run) ==
  \A j \in c.waiting :
    LET before == {i \in run : i \in c.waiting => i < j}
    IN j \in run <=> /\ Cardinality(before) < Workers
                     /\ Needs(j) \subseteq c.finished
                     /\ gates[j].parallel \/ Cardinality(Serial(before)) < Budget

-----------------------------------------------------------------------------
(* The main thread of a check. *)

Gates == DOMAIN gates
Fresh == [pc |-> "idle", waiting |-> {}, running |-> {}, finished |-> {}, stopped |-> FALSE]

GatesInit ==
  /\ gates \in {GateOrder(c) : c \in GateConfigs}
  /\ turn = Nobody
  /\ check = [p \in Checkers |-> Fresh]
  /\ thread = [p \in Checkers |-> [i \in Gates |-> "none"]]
  /\ starting = [p \in Checkers |-> Nobody]
  /\ report = [i \in Gates |-> Nobody]

\* check_lock: flock without waiting, else wait for it; both end holding it.
TakeTurn(p) ==
  /\ check[p].pc = "idle" /\ turn = Nobody
  /\ turn' = p
  /\ check' = [check EXCEPT ![p] =
       [Fresh EXCEPT !.pc = IF Gates = {} THEN "judged" ELSE "submit", !.waiting = Gates]]
  /\ UNCHANGED <<gates, thread, starting, report>>

Submit(p) ==
  LET c == check[p] IN \E new \in SUBSET c.waiting :
    /\ c.pc = "submit"
    /\ Submitted(c, c.running \cup new)
    /\ check' = [check EXCEPT ![p] = [c EXCEPT
         !.pc = "wait", !.running = c.running \cup new, !.waiting = c.waiting \ new]]
    /\ thread' = [thread EXCEPT ![p] = [i \in Gates |-> IF i \in new THEN "queued" ELSE @[i]]]
    /\ UNCHANGED <<gates, turn, starting, report>>

\* wait(FIRST_COMPLETED): every finished future; a raised one, or a failed setup, ends it.
Collect(p) ==
  LET c == check[p]
      done == {i \in c.running : thread[p][i] \in {"passed", "failed", "raised"}}
      rest == [c EXCEPT !.running = c.running \ done, !.finished = c.finished \cup done]
  IN /\ c.pc = "wait" /\ done # {}
     /\ check' = [check EXCEPT ![p] = [rest EXCEPT !.pc =
          CASE \E i \in done : thread[p][i] = "raised" -> "stop"
            [] \E i \in done : thread[p][i] = "failed" /\ gates[i].role = "lockfiles" -> "leave"
            [] rest.waiting = {} /\ rest.running = {} -> "judged"
            [] OTHER -> "submit"]]
     /\ UNCHANGED <<gates, turn, thread, starting, report>>

\* Ctrl-C reaches the main thread while it submits or waits.
Interrupt(p) ==
  /\ check[p].pc \in {"submit", "wait"}
  /\ check' = [check EXCEPT ![p].pc = "stop"]
  /\ UNCHANGED <<gates, turn, thread, starting, report>>

\* Mutant: the groups are stopped without waiting for a command that is starting.
StopGroups_Mutant(p) ==
  /\ check[p].pc = "stop"
  /\ check' = [check EXCEPT ![p] = [@ EXCEPT !.pc = "leave", !.stopped = TRUE]]
  /\ thread' = [thread EXCEPT ![p] =
       [i \in Gates |-> IF @[i] = "alive" THEN "killed" ELSE @[i]]]
  /\ UNCHANGED <<gates, turn, starting, report>>

\* stop_groups: under STARTING, nothing new starts and every group in RUNNING is killed.
StopGroups(p) ==
  /\ check[p].pc = "stop" /\ starting[p] = Nobody
  /\ check' = [check EXCEPT ![p] = [@ EXCEPT !.pc = "leave", !.stopped = TRUE]]
  /\ thread' = [thread EXCEPT ![p] =
       [i \in Gates |-> IF @[i] = "alive" THEN "killed" ELSE @[i]]]
  /\ UNCHANGED <<gates, turn, starting, report>>

\* The pool is left once its threads have ended; STOPPED is cleared, the lock released.
Ended == {"none", "passed", "failed", "raised"}
LeavePool(p) ==
  /\ check[p].pc \in {"leave", "judged"}
  /\ \A i \in Gates : thread[p][i] \in Ended
  /\ check' = [check EXCEPT ![p] = Fresh]
  /\ thread' = [thread EXCEPT ![p] = [i \in Gates |-> "none"]]
  /\ turn' = Nobody
  /\ UNCHANGED <<gates, starting, report>>

-----------------------------------------------------------------------------
(* A pool thread: run_gate, run_limited_gate and run_in_group. *)

Move(p, i, from, to) ==
  thread[p][i] = from /\ thread' = [thread EXCEPT ![p][i] = to]

\* Tests, suites and scans report into a file of the package.
Reported(g) == g.role \in {"tests", "performance", "scan"}
ReportIs(i, p) == report' = IF Reported(gates[i]) THEN [report EXCEPT ![i] = p] ELSE report

\* prepare_reports removes the last report; a command that cannot be prepared fails.
Prepare(p, i) ==
  /\ \/ Move(p, i, "queued", "prepared") /\ ReportIs(i, Nobody)
     \/ Move(p, i, "queued", "failed") /\ UNCHANGED report
  /\ UNCHANGED <<gates, turn, check, starting>>

\* with STARTING: no new command once STOPPED is set.
Popen(p, i) ==
  /\ starting[p] = Nobody
  /\ IF check[p].stopped
     THEN Move(p, i, "prepared", "raised") /\ UNCHANGED starting
     ELSE Move(p, i, "prepared", "spawned") /\ starting' = [starting EXCEPT ![p] = i]
  /\ UNCHANGED <<gates, turn, check, report>>

AddRunning(p, i) ==
  /\ Move(p, i, "spawned", "alive")
  /\ starting' = [starting EXCEPT ![p] = Nobody]
  /\ UNCHANGED <<gates, turn, check, report>>

\* The command writes its report at the gate's fixed path and exits.
CommandExits(p, i) ==
  /\ Move(p, i, "alive", "exited")
  /\ ReportIs(i, p)
  /\ UNCHANGED <<gates, turn, check, starting>>

\* It is out of time: its group is killed and the gate fails.
CommandTimesOut(p, i) ==
  /\ Move(p, i, "alive", "failed") \/ Move(p, i, "killed", "failed")
  /\ UNCHANGED <<gates, turn, check, starting, report>>

\* The report is read and judged.
ReadReport(p, i) ==
  /\ Move(p, i, "exited", "passed") \/ Move(p, i, "exited", "failed")
  /\ UNCHANGED <<gates, turn, check, starting, report>>

ThreadStep(p, i) ==
  \/ Prepare(p, i) \/ Popen(p, i) \/ AddRunning(p, i)
  \/ CommandExits(p, i) \/ CommandTimesOut(p, i) \/ ReadReport(p, i)

CheckStep(p) ==
  TakeTurn(p) \/ Submit(p) \/ Collect(p) \/ Interrupt(p) \/ StopGroups(p) \/ LeavePool(p)

GatesNext == \E p \in Checkers : CheckStep(p) \/ \E i \in Gates : ThreadStep(p, i)

GatesSpec == GatesInit /\ [][GatesNext]_gateVars

-----------------------------------------------------------------------------
\* The variables hold values of the program.
GatesTypeOK ==
  /\ turn \in Checkers \cup {Nobody}
  /\ starting \in [Checkers -> Gates \cup {Nobody}]
  /\ report \in [Gates -> Checkers \cup {Nobody}]
  /\ \A p \in Checkers :
       check[p].waiting \cup check[p].running \cup check[p].finished \subseteq Gates

Commands == {"spawned", "alive"}
Live(p, i) == thread[p][i] \in Commands

\* While setup or a performance suite runs nothing else does, and no command runs
\* beside a writer of a related package unless both were declared parallel and
\* neither is an early scan (waits, run_checks).
CommandsApart ==
  \A p \in Checkers : \A i \in Gates : Live(p, i) => \A j \in Gates \ {i} : Live(p, j) =>
    /\ {gates[i].role, gates[j].role} \cap {"lockfiles", "performance"} = {}
    /\ Writes(gates[i]) /\ Related(gates[i].pkg, gates[j].pkg) =>
         gates[i].parallel /\ gates[j].parallel /\ ~EarlyScan(gates[j])

\* What a writer leaves is what the later gates read: when a gate is live, the related
\* writers that gate_order put before it have finished and those behind it have not begun.
ReadersSeeWriters ==
  \A p \in Checkers : \A j \in Gates : thread[p][j] \in {"prepared"} \cup Commands =>
    \A i \in 1..(j - 1) :
      Writes(gates[i]) /\ ~gates[i].parallel /\ Related(gates[i].pkg, gates[j].pkg) =>
        thread[p][i] \in Ended \ {"none"}

\* Once stop_groups has run no command of the check is running or starts any more,
\* whichever thread was just starting one when the interrupt came (STARTING, STOPPED).
StoppedForGood ==
  \A p \in Checkers : \A i \in Gates : check[p].stopped => ~Live(p, i)

\* A gate is judged by the report its own command wrote, not by one another check
\* of the checkout left or is writing at the same path (check_lock).
ReadsOwnReport ==
  \A p \in Checkers : \A i \in Gates : 
    thread[p][i] = "exited" /\ Reported(gates[i]) => report[i] = p

\* The schedule never waits for nothing, and a check that was not stopped has
\* judged every gate (run_checks).
EveryGateJudged ==
  \A p \in Checkers :
    /\ check[p].pc = "wait" => check[p].running # {}
    /\ check[p].pc = "judged" => check[p].finished = Gates

\* The schedule keeps writers and readers apart, an interrupt stops every command, every
\* gate is judged and by its own report (gate_schedule.py, process_group.py).
GatesSafe ==
  CommandsApart /\ ReadersSeeWriters /\ StoppedForGood /\ ReadsOwnReport /\ EveryGateJudged
=============================================================================
