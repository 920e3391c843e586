-------------------------- MODULE ProcessLifecycle --------------------------
(***************************************************************************)
(* bootstrap.Run and server.Serve: the life of the admin and gateway       *)
(* processes, from their start over migration or first load, readiness and *)
(* serving, to a graceful or failed stop and the orchestrator's restart.   *)
(*                                                                         *)
(* Each process has a main goroutine (pc), a goroutine running             *)
(* http.Server.Serve (server) that hands its result to main over a channel *)
(* of one element (result), and a context that SIGTERM cancels.  A gateway *)
(* also has the goroutine of Runtime.Run (reporter), which keeps the       *)
(* replica's row in gateway_instances (row) up to date.  Main writes that  *)
(* row too, when the server has stopped.  A statement of Run that the      *)
(* signal or a deadline makes it abandon may still be under way in         *)
(* PostgreSQL (late), and take effect after everything main does.          *)
(***************************************************************************)
EXTENDS Migrations

CONSTANTS
    Gateway,        \* gateway processes
    Required,       \* migrations the queries of a gateway's Load rely on
    Fleets,         \* sets of processes deployed together
    MaxSignals,     \* bound on SIGTERMs
    MaxFaults       \* bound on failures of processes, statements and sockets

Process == Admin \cup Gateway

ASSUME LifecycleAssumption ==
    /\ Admin \cap Gateway = {}
    /\ Required \in Nat
    /\ Fleets \subseteq SUBSET Process
    /\ MaxSignals \in Nat /\ MaxFaults \in Nat

VARIABLES
    pc,             \* main goroutine; "absent" for a process not deployed
    cancelled,      \* the context of signal.NotifyContext is done
    server,         \* the goroutine of http.Server.Serve
    result,         \* what serveResult holds
    ready,          \* health.Readiness
    inflight,       \* a request is being served
    outcome,        \* how the process last ended: its exit code, and whether
                    \* that cut off a request
    reporter,       \* the goroutine of Runtime.Run
    row,            \* gateway_instances.ready
    late,           \* abandoned statements that would still set it to TRUE
    crossed,        \* history: gateways that a signal reached while such a
                    \* statement was on its way
    signals, faults \* SIGTERMs and faults so far

mainVars == <<pc, cancelled, server, result, ready, inflight, outcome>>
reportVars == <<reporter, row, late, crossed>>
bounds == <<signals, faults>>
vars == <<migrationVars, mainVars, reportVars, bounds>>

Deployed == {p \in Process : pc[p] # "absent"}
Alive(p) == pc[p] \notin {"absent", "down"}
Fault == faults < MaxFaults /\ faults' = faults + 1

Unfinished == [code |-> "none", cut |-> FALSE]
At(p, position) == pc' = [pc EXCEPT ![p] = position]

\* The run ends with an exit code once main reaches "exit".
Code(p, code) == outcome' = [outcome EXCEPT ![p].code = code]

-----------------------------------------------------------------------------
(* Start: bootstrap.Run up to server.Run *)

Start(p) ==
    /\ pc[p] = "down"
    /\ At(p, IF p \in Admin THEN "migrate" ELSE "load")
    /\ outcome' = [outcome EXCEPT ![p] = Unfinished]
    /\ IF p \in Admin THEN BeginMigrate(p) ELSE UNCHANGED migrationVars
    /\ UNCHANGED <<cancelled, server, result, ready, inflight, reportVars, bounds>>

\* Migrate makes progress while its context is live.
Migrating(a) ==
    /\ pc[a] = "migrate"
    /\ ~cancelled[a]
    /\ MigrateStep(a)
    /\ UNCHANGED <<mainVars, reportVars, bounds>>

\* A statement fails: a conflict by itself, anything else is a fault.
MigrationFails(a) ==
    /\ pc[a] = "migrate"
    /\ FailMigrate(a)
    /\ IF migrator[a].pc = "conflict" THEN UNCHANGED faults ELSE Fault
    /\ UNCHANGED <<mainVars, reportVars, signals>>

\* The context ends during a statement: by the signal, or after 30 s, which
\* without a fault is only possible while another session holds the lock.
MigrationTimesOut(a) ==
    /\ pc[a] = "migrate"
    /\ AbandonMigrate(a)
    /\ IF cancelled[a] \/ (migrator[a].pc = "lock" /\ lock # Nobody)
       THEN UNCHANGED faults ELSE Fault
    /\ UNCHANGED <<mainVars, reportVars, signals>>

\* Migrate returns.
MigrateReturns(a) ==
    /\ pc[a] = "migrate"
    /\ \/ migrator[a].pc = "migrated" /\ At(a, "listen") /\ UNCHANGED outcome
       \/ migrator[a].pc = "failed" /\ At(a, "exit") /\ Code(a, "failed")
    /\ UNCHANGED <<migrationVars, cancelled, server, result, ready, inflight,
                   reportVars, bounds>>

\* The first Load, and go dataRuntime.Run: its first report is under way.
LoadInitial(g) ==
    /\ pc[g] = "load"
    /\ ~cancelled[g]
    /\ Len(schema) >= Required
    /\ At(g, "listen")
    /\ reporter' = [reporter EXCEPT ![g] = "reporting"]
    /\ UNCHANGED <<migrationVars, cancelled, server, result, ready, inflight,
                   outcome, row, late, crossed, bounds>>

\* No schema yet, no context any more, or a database error: exit code 1.
InitialLoadFails(g) ==
    /\ pc[g] = "load"
    /\ IF cancelled[g] \/ Len(schema) < Required THEN UNCHANGED faults ELSE Fault
    /\ At(g, "exit")
    /\ Code(g, "failed")
    /\ UNCHANGED <<migrationVars, cancelled, server, result, ready, inflight,
                   reportVars, signals>>

-----------------------------------------------------------------------------
(* server.Run and Serve *)

\* net.Listen, and the goroutine that serves.
Listen(p) ==
    /\ pc[p] = "listen"
    /\ At(p, "announce")
    /\ server' = [server EXCEPT ![p] = "up"]
    /\ UNCHANGED <<migrationVars, cancelled, result, ready, inflight, outcome,
                   reportVars, bounds>>

\* The address is taken or the certificate cannot be read.
ListenFails(p) ==
    /\ pc[p] = "listen"
    /\ Fault
    /\ At(p, "stopped")
    /\ Code(p, "failed")
    /\ UNCHANGED <<migrationVars, cancelled, server, result, ready, inflight,
                   reportVars, signals>>

\* readiness.Set(true), whatever has become of the server or the context.
SetReady(p) ==
    /\ pc[p] = "announce"
    /\ At(p, "select")
    /\ ready' = [ready EXCEPT ![p] = TRUE]
    /\ UNCHANGED <<migrationVars, cancelled, server, result, inflight, outcome,
                   reportVars, bounds>>

\* Serve returns an error of its own accord.
ServeFails(p) ==
    /\ server[p] = "up"
    /\ Fault
    /\ server' = [server EXCEPT ![p] = "ended"]
    /\ result' = [result EXCEPT ![p] = "failed"]
    /\ UNCHANGED <<migrationVars, pc, cancelled, ready, inflight, outcome,
                   reportVars, signals>>

\* The select of Serve: the server's failure is returned ...
SelectResult(p) ==
    /\ pc[p] = "select"
    /\ result[p] # "none"
    /\ result' = [result EXCEPT ![p] = "none"]
    /\ ready' = [ready EXCEPT ![p] = FALSE]
    /\ At(p, "stopped")
    /\ Code(p, "failed")
    /\ UNCHANGED <<migrationVars, cancelled, server, inflight, reportVars, bounds>>

\* ... or the context is done.
SelectDone(p) ==
    /\ pc[p] = "select"
    /\ cancelled[p]
    /\ ready' = [ready EXCEPT ![p] = FALSE]
    /\ At(p, "shutdown")
    /\ UNCHANGED <<migrationVars, cancelled, server, result, inflight, outcome,
                   reportVars, bounds>>

\* Shutdown closes the listener; Serve returns ErrServerClosed at once.
BeginShutdown(p) ==
    /\ pc[p] = "shutdown"
    /\ At(p, "draining")
    /\ IF server[p] = "up"
       THEN /\ server' = [server EXCEPT ![p] = "ended"]
            /\ result' = [result EXCEPT ![p] = "closed"]
       ELSE UNCHANGED <<server, result>>
    /\ UNCHANGED <<migrationVars, cancelled, ready, inflight, outcome,
                   reportVars, bounds>>

\* Mutant of Drained: does not wait for the requests in flight.
DrainedAtOnce(p) ==
    /\ pc[p] = "draining"
    /\ At(p, "result")
    /\ Code(p, "ok")
    /\ UNCHANGED <<migrationVars, cancelled, server, result, ready, inflight,
                   reportVars, bounds>>

\* Shutdown returns when no request is in flight ...
Drained(p) ==
    /\ pc[p] = "draining"
    /\ ~inflight[p]
    /\ At(p, "result")
    /\ Code(p, "ok")
    /\ UNCHANGED <<migrationVars, cancelled, server, result, ready, inflight,
                   reportVars, bounds>>

\* Mutant of DrainTimesOut: the context of Shutdown has no deadline.
DrainUnbounded(p) ==
    /\ pc[p] = "draining"
    /\ inflight[p]
    /\ UNCHANGED vars

\* ... or after the timeout, when Close cuts the connections.
DrainTimesOut(p) ==
    /\ pc[p] = "draining"
    /\ inflight[p]
    /\ At(p, "result")
    /\ outcome' = [outcome EXCEPT ![p].code = "failed", ![p].cut = TRUE]
    /\ inflight' = [inflight EXCEPT ![p] = FALSE]
    /\ UNCHANGED <<migrationVars, cancelled, server, result, ready, reportVars, bounds>>

\* serveErr := <-serveResult
TakeResult(p) ==
    /\ pc[p] = "result"
    /\ result[p] # "none"
    /\ result' = [result EXCEPT ![p] = "none"]
    /\ At(p, "stopped")
    /\ IF result[p] = "failed" THEN Code(p, "failed") ELSE UNCHANGED outcome
    /\ UNCHANGED <<migrationVars, cancelled, server, ready, inflight,
                   reportVars, bounds>>

-----------------------------------------------------------------------------
(* Requests *)

AcceptRequest(p) ==
    /\ server[p] = "up"
    /\ ~inflight[p]
    /\ inflight' = [inflight EXCEPT ![p] = TRUE]
    /\ UNCHANGED <<migrationVars, pc, cancelled, server, result, ready, outcome,
                   reportVars, bounds>>

FinishRequest(p) ==
    /\ inflight[p]
    /\ inflight' = [inflight EXCEPT ![p] = FALSE]
    /\ UNCHANGED <<migrationVars, pc, cancelled, server, result, ready, outcome,
                   reportVars, bounds>>

-----------------------------------------------------------------------------
(* The end of bootstrap.Run *)

\* Mutant of Stopped: the row is left to the Run goroutine.
StoppedUnreported(p) ==
    /\ pc[p] = "stopped"
    /\ At(p, "return")
    /\ UNCHANGED <<migrationVars, cancelled, server, result, ready, inflight,
                   outcome, reportVars, bounds>>

\* server.Run has returned: a gateway calls MarkNotReady, which may fail.
Stopped(p) ==
    /\ pc[p] = "stopped"
    /\ At(p, "return")
    /\ \/ /\ row' = IF p \in Gateway THEN [row EXCEPT ![p] = FALSE] ELSE row
          /\ UNCHANGED faults
       \/ p \in Gateway /\ Fault /\ UNCHANGED row
    /\ UNCHANGED <<migrationVars, cancelled, server, result, ready, inflight,
                   outcome, reporter, late, crossed, signals>>

\* The deferred pool.Close: no connection can be acquired from now on, and
\* it waits for those in use.
ClosePool(p) ==
    /\ pc[p] = "return"
    /\ At(p, "exit")
    /\ UNCHANGED <<migrationVars, cancelled, server, result, ready, inflight,
                   outcome, reportVars, bounds>>

\* What is left of a process that is gone.
Gone(p) ==
    /\ At(p, "down")
    /\ cancelled' = [cancelled EXCEPT ![p] = FALSE]
    /\ server' = [server EXCEPT ![p] = "off"]
    /\ result' = [result EXCEPT ![p] = "none"]
    /\ ready' = [ready EXCEPT ![p] = FALSE]
    /\ inflight' = [inflight EXCEPT ![p] = FALSE]
    /\ IF p \in Admin
       THEN LeaveMigrate(p) /\ UNCHANGED reporter
       ELSE /\ reporter' = [reporter EXCEPT ![p] = "off"]
            /\ UNCHANGED migrationVars

\* Once a report under way is done, os.Exit.
Exit(p) ==
    /\ pc[p] = "exit"
    /\ p \in Gateway => reporter[p] # "reporting"
    /\ Gone(p)
    /\ outcome' = [outcome EXCEPT ![p].cut = @ \/ inflight[p]]
    /\ UNCHANGED <<row, late, crossed, bounds>>

\* Nobody waits for a statement any more: PostgreSQL drops it, or goes on.
AbandonReport(g) == late' \in {late, [late EXCEPT ![g] = @ + 1]}

\* The process is killed or crashes.
Crash(p) ==
    /\ Alive(p)
    /\ Fault
    /\ Gone(p)
    /\ outcome' = [outcome EXCEPT ![p] = Unfinished]
    /\ IF p \in Gateway /\ reporter[p] = "reporting"
       THEN AbandonReport(p) ELSE UNCHANGED late
    /\ UNCHANGED <<row, crossed, signals>>

\* A report of readiness may still take effect.
ReportUnderWay(g) == reporter[g] = "reporting" \/ late[g] > 0

Signal(p) ==
    /\ Alive(p)
    /\ ~cancelled[p]
    /\ signals < MaxSignals
    /\ signals' = signals + 1
    /\ cancelled' = [cancelled EXCEPT ![p] = TRUE]
    /\ crossed' = crossed \cup {g \in Gateway \cap {p} : ReportUnderWay(g)}
    /\ UNCHANGED <<migrationVars, pc, server, result, ready, inflight, outcome,
                   reporter, row, late, faults>>

-----------------------------------------------------------------------------
(* Runtime.Run: the gateway's row in gateway_instances *)

\* A heartbeat or a reload reports readiness; with the context done the
\* statement is not even sent.
BeginReport(g) ==
    /\ reporter[g] = "on"
    /\ ~cancelled[g]
    /\ pc[g] # "exit"
    /\ reporter' = [reporter EXCEPT ![g] = "reporting"]
    /\ UNCHANGED <<migrationVars, mainVars, row, late, crossed, bounds>>

\* The statement takes effect and is answered, before or after the signal.
ReportLands(g) ==
    /\ reporter[g] = "reporting"
    /\ row' = [row EXCEPT ![g] = TRUE]
    /\ reporter' = [reporter EXCEPT ![g] = "on"]
    /\ UNCHANGED <<migrationVars, mainVars, late, crossed, bounds>>

\* Exec returns an error: the context is done, or the statement fails or is
\* not answered in time.  PostgreSQL may still be at it.
ReportFails(g) ==
    /\ reporter[g] = "reporting"
    /\ IF cancelled[g] THEN UNCHANGED faults ELSE Fault
    /\ reporter' = [reporter EXCEPT ![g] = "on"]
    /\ AbandonReport(g)
    /\ UNCHANGED <<migrationVars, mainVars, row, crossed, signals>>

\* PostgreSQL is done with an abandoned statement, in whatever state the
\* process is by then: it took effect, or was cancelled.
LateReportEnds(g) ==
    /\ late[g] > 0
    /\ late' = [late EXCEPT ![g] = @ - 1]
    /\ row' \in {row, [row EXCEPT ![g] = TRUE]}
    /\ UNCHANGED <<migrationVars, mainVars, reporter, crossed, bounds>>

\* Run sees the context done, and reports on a context of its own; in vain
\* when main has closed the pool.
LastReport(g) ==
    /\ reporter[g] = "on"
    /\ cancelled[g]
    /\ reporter' = [reporter EXCEPT ![g] = "ended"]
    /\ row' = IF pc[g] = "exit" THEN row ELSE [row EXCEPT ![g] = FALSE]
    /\ UNCHANGED <<migrationVars, mainVars, late, crossed, bounds>>

-----------------------------------------------------------------------------
Init ==
    /\ MigrationsInit
    /\ \E fleet \in Fleets :
          pc = [p \in Process |-> IF p \in fleet THEN "down" ELSE "absent"]
    /\ cancelled = [p \in Process |-> FALSE]
    /\ server = [p \in Process |-> "off"]
    /\ result = [p \in Process |-> "none"]
    /\ ready = [p \in Process |-> FALSE]
    /\ inflight = [p \in Process |-> FALSE]
    /\ outcome = [p \in Process |-> Unfinished]
    /\ reporter = [g \in Gateway |-> "off"]
    /\ row = [g \in Gateway |-> FALSE]
    /\ late = [g \in Gateway |-> 0]
    /\ crossed = {}
    /\ signals = 0 /\ faults = 0

\* What PostgreSQL does with an abandoned session.
Database ==
    /\ AbandonedCommits \/ AbandonedEnds
    /\ UNCHANGED <<mainVars, reportVars, bounds>>

\* The steps of main after the start, other than those of Migrate and Load.
Main(p) ==
    \/ Listen(p)
    \/ ListenFails(p)
    \/ SetReady(p)
    \/ SelectResult(p)
    \/ SelectDone(p)
    \/ BeginShutdown(p)
    \/ Drained(p)
    \/ DrainTimesOut(p)
    \/ TakeResult(p)
    \/ Stopped(p)
    \/ ClosePool(p)
    \/ Exit(p)

Next ==
    \/ \E p \in Process : Start(p)
    \/ \E a \in Admin : Migrating(a)
    \/ \E a \in Admin : MigrationFails(a)
    \/ \E a \in Admin : MigrationTimesOut(a)
    \/ \E a \in Admin : MigrateReturns(a)
    \/ \E g \in Gateway : LoadInitial(g)
    \/ \E g \in Gateway : InitialLoadFails(g)
    \/ \E p \in Process : Main(p)
    \/ \E p \in Process : ServeFails(p)
    \/ \E p \in Process : AcceptRequest(p)
    \/ \E p \in Process : FinishRequest(p)
    \/ \E p \in Process : Crash(p)
    \/ \E p \in Process : Signal(p)
    \/ \E g \in Gateway : BeginReport(g)
    \/ \E g \in Gateway : ReportLands(g)
    \/ \E g \in Gateway : ReportFails(g)
    \/ \E g \in Gateway : LateReportEnds(g)
    \/ \E g \in Gateway : LastReport(g)
    \/ Database

(***************************************************************************)
(* Fairness.  The orchestrator restarts every process ("restart:           *)
(* unless-stopped"); a process that can take a step takes it; statements   *)
(* have deadlines; PostgreSQL ends an abandoned session and grants the     *)
(* advisory lock in the order of the queue, so that a process is not       *)
(* passed over for ever.  Nothing is assumed of requests and signals.      *)
(***************************************************************************)
Fairness ==
    /\ WF_vars(Database /\ lock' = Nobody)
    /\ \A p \in Process : WF_vars(Start(p)) /\ WF_vars(Main(p))
    /\ \A a \in Admin :
          /\ SF_vars(Migrating(a))
          /\ WF_vars(MigrationTimesOut(a) /\ cancelled[a])
          /\ WF_vars(MigrateReturns(a))
    /\ \A g \in Gateway :
          /\ WF_vars(LoadInitial(g) \/ InitialLoadFails(g))
          /\ WF_vars(ReportLands(g) \/ ReportFails(g))

Spec == Init /\ [][Next]_vars /\ Fairness

-----------------------------------------------------------------------------
(* Properties *)

\* Every variable has the values the processes and tables can hold.
TypeOK ==
    /\ MigrationsTypeOK
    /\ pc \in [Process ->
          {"absent", "down", "migrate", "load", "listen", "announce", "select",
           "shutdown", "draining", "result", "stopped", "return", "exit"}]
    /\ server \in [Process -> {"off", "up", "ended"}]
    /\ result \in [Process -> {"none", "failed", "closed"}]
    /\ {cancelled, ready, inflight} \subseteq [Process -> BOOLEAN]
    /\ outcome \in [Process -> [code : {"none", "ok", "failed"}, cut : BOOLEAN]]
    /\ reporter \in [Gateway -> {"off", "on", "reporting", "ended"}]
    /\ row \in [Gateway -> BOOLEAN]
    /\ late \in [Gateway -> Nat] /\ crossed \subseteq Gateway
    /\ signals \in 0 .. MaxSignals /\ faults \in 0 .. MaxFaults

(***************************************************************************)
(* A process that answers /health/ready has the schema it works with: all  *)
(* migrations of its binary, or those a gateway's queries rely on.         *)
(***************************************************************************)
ReadyOnSchema ==
    \A p \in Process :
        ready[p] => Len(schema) >= (IF p \in Admin THEN Files[p] ELSE Required)

(***************************************************************************)
(* Exit code 0 means a graceful stop: no request in flight was cut off.    *)
(* Only a shutdown that times out, a failure or a crash does that.         *)
(***************************************************************************)
CleanExitCutsNothing ==
    \A p \in Process : pc[p] = "down" => ~(outcome[p].code = "ok" /\ outcome[p].cut)

(***************************************************************************)
(* Two goroutines write a gateway's row, and the process ends without      *)
(* waiting for Run.  A gateway that is down is still recorded as ready for *)
(* two reasons only: a fault, or a signal that came while a report of its  *)
(* readiness was on its way.                                               *)
(***************************************************************************)
StoppedIsNotReady ==
    \A g \in Gateway :
        (pc[g] = "down" /\ faults = 0 /\ g \notin crossed) => ~row[g]

(***************************************************************************)
(* A signal or a failure of the server stops the process, and with it its  *)
(* readiness: main never waits for a result that was already taken, for a  *)
(* request, or for a lock.                                                 *)
(***************************************************************************)
ProcessesStop ==
    \A p \in Process :
        (cancelled[p] \/ result[p] = "failed") ~> pc[p] = "down"

(***************************************************************************)
(* Once failures and signals cease, every deployed process becomes and     *)
(* stays ready, in whatever order processes start, migrate and fail.       *)
(***************************************************************************)
AllServe == <>[](\A p \in Deployed : ready[p])
=============================================================================
