---------------------------- MODULE Supervision ----------------------------
(***************************************************************************)
(* Process supervision in PyScada (pyscada/utils/scheduler.py and the      *)
(* BackgroundProcess rows of pyscada/models.py).                           *)
(*                                                                         *)
(* The scheduler daemon reads the table of background processes, forks one *)
(* operating system process per enabled row and remembers it in PROCESSES. *)
(* A row that hangs directly under the scheduler is a protocol worker; a   *)
(* worker inserts one row per device it has to serve, and the scheduler    *)
(* (not the worker) forks the data acquisition (DAQ) process of that row.  *)
(* The scheduler, the workers and the DAQ processes share nothing but the  *)
(* table, the pids in it, signals and waitpid.                             *)
(*                                                                         *)
(* Time is not modelled: a wait of 30 s or 60 s may end with its timeout   *)
(* at any moment. Faulty... and Hasty... operators are mutated forms of    *)
(* the definition they stand above; no action uses them.                   *)
(***************************************************************************)
EXTENDS Integers, Sequences, FiniteSets

CONSTANTS
    Worker,        \* rows of the protocol workers (children of the scheduler row)
    NDev,          \* devices each worker serves
    SingleWorker,  \* those that are SingleDeviceDAQProcessWorkers, not MultiDevice...
    MaxFailed,     \* respawns a worker grants one device (3 in the source)
    MaxPid,        \* bound: forks in a behaviour
    MaxRow,        \* bound: DAQ rows inserted in a behaviour
    Allowed,       \* kinds of environment events that may happen
    MaxEvents      \* bound: environment events in a behaviour

EventKind ==
    ({"daq", "worker"} \X {"fail", "init_fail", "kill", "terminate", "restart",
                           "disable", "enable"})
    \cup ({"scheduler"} \X {"terminate", "restart", "crash", "start"})

ASSUME SupervisionAssumption ==
    /\ NDev \in Nat \ {0}
    /\ MaxFailed \in Nat
    /\ MaxPid \in Nat /\ MaxRow \in Nat /\ MaxEvents \in Nat
    /\ SingleWorker \subseteq Worker
    /\ Allowed \subseteq EventKind
    /\ Worker \cap Int = {}

Pid    == 1..MaxPid
DaqRow == 1..MaxRow
Row    == Worker \cup DaqRow
Dev    == Worker \X (1..NDev)
NoDev  == <<>>

VARIABLES
    rows,      \* DAQ rows present in the table (worker rows are never deleted)
    row,       \* columns of every row; those of a deleted row are its last ones
    nextRow,   \* AutoField of the table
    proc,      \* the operating system's view of each process, and its SIG_QUEUE
    nextPid,   \* pids are handed out in order and never reused
    mem,       \* memory of the worker processes
    sch,       \* control state and signal queue of the scheduler
    tracked,   \* Scheduler.PROCESSES: row -> pid, 0 for no entry
    events     \* environment events so far

table == <<rows, row, nextRow>>
vars == <<rows, row, nextRow, proc, nextPid, mem, sch, tracked, events>>

----------------------------------------------------------------------------
(* Processes and signals.                                                  *)

Live(x)   == x.st \in {"forked", "registered", "init", "run", "stopping"}
Exists(x) == Live(x) \/ x.st = "zombie"      \* kill(pid, 0) succeeds

\* A child of the running scheduler stays a zombie until waitpid; an orphan is
\* reaped by init.
Dead(x)   == [x EXCEPT !.st = IF x.child THEN "zombie" ELSE "gone", !.sig = <<>>]
Reaped(x) == IF x.st = "zombie" THEN [x EXCEPT !.st = "gone"] ELSE x

\* kill(pid, s). Between fork and the end of pre_init_process the handler is the
\* inherited one of the scheduler, and a signal it catches is lost; so is one that
\* arrives once the process has left its loop.
Sent(x, s) ==
    IF s = "KILL" /\ Live(x) THEN Dead(x)
    ELSE IF s # "KILL" /\ x.st \in {"init", "run"} /\ ~ \E i \in DOMAIN x.sig : x.sig[i] = s
    THEN [x EXCEPT !.sig = Append(@, s)]
    ELSE x

\* Scheduler.kill_process on a process that has not gone: signal, then waitpid.
KillProcess(x, s) == IF x.st = "zombie" THEN Reaped(x) ELSE Sent(x, s)

\* Scheduler.kill_processes: every entry of PROCESSES is signalled or, once
\* kill answers ESRCH, popped.
KillProcesses(s) ==
    [p \in Pid |-> IF \E r \in Row : tracked[r] = p THEN KillProcess(proc[p], s)
                   ELSE proc[p]]
Popped ==
    [r \in Row |-> IF tracked[r] # 0 /\ proc[tracked[r]].st = "gone" THEN 0
                   ELSE tracked[r]]

NoProcess == [st |-> "none", job |-> 0, child |-> FALSE, sig |-> <<>>]
NoMem     == [pc |-> "list", todo |-> {}, cur |-> [id |-> 0, pid |-> 0], i |-> 1,
              ids |-> [i \in 1..NDev |-> 0], failed |-> [i \in 1..NDev |-> 0]]

Parent(r)  == row[r].dev[1]
Kids(w)    == {r \in rows : Parent(r) = w}
InTable(r) == r \in Worker \cup rows

Init ==
    /\ rows = {} /\ nextRow = 1
    /\ row = [r \in Row |-> [dev |-> NoDev, enabled |-> TRUE, done |-> FALSE, pid |-> 0]]
    /\ proc = [p \in Pid |-> NoProcess] /\ nextPid = 1
    /\ mem = [p \in Pid |-> NoMem]
    /\ sch = [pc |-> "idle", sig |-> <<>>, toStop |-> {}, toStart |-> {}, target |-> 0]
    /\ tracked = [r \in Row |-> 0]
    /\ events = 0

Event(who, what) ==
    <<who, what>> \in Allowed /\ events < MaxEvents /\ events' = events + 1
Role(r) == IF r \in Worker THEN "worker" ELSE "daq"
----------------------------------------------------------------------------
(* The scheduler: one pass of manage_processes is a query of the table, a   *)
(* walk over the rows it returned, which may block on a process that does  *)
(* not stop, and a sweep over PROCESSES.                                   *)

FaultyWanted(r) == row[r].enabled /\ ~row[r].done
Wanted(r) ==
    /\ row[r].enabled /\ ~row[r].done
    /\ r \in DaqRow => row[Parent(r)].enabled

SchedSnapshot ==
    /\ \/ sch.pc = "idle" /\ sch.sig = <<>>
       \/ sch.pc = "manage"
    /\ sch' = [sch EXCEPT !.pc = "pass",
                          !.toStop  = {r \in Worker \cup rows : ~Wanted(r)},
                          !.toStart = {r \in Worker \cup rows : Wanted(r)}]
    /\ UNCHANGED <<table, proc, nextPid, mem, tracked, events>>

\* What the walk does with a row it read: rows it leaves alone need no step.
MustStop(r) == r \in sch.toStop /\ tracked[r] # 0
FaultyMustSpawn(r) ==
    r \in sch.toStart /\ (r \in DaqRow => tracked[Parent(r)] # 0)
MustSpawn(r) ==
    /\ r \in sch.toStart /\ tracked[r] = 0
    /\ r \in DaqRow => tracked[Parent(r)] # 0

SchedSpawn(r) ==
    /\ sch.pc = "pass" /\ MustSpawn(r) /\ nextPid <= MaxPid
    /\ proc' = [proc EXCEPT ![nextPid] =
                   [st |-> "forked", job |-> r, child |-> TRUE, sig |-> <<>>]]
    /\ nextPid' = nextPid + 1
    /\ tracked' = [tracked EXCEPT ![r] = nextPid]
    /\ sch' = [sch EXCEPT !.toStart = @ \ {r}]
    /\ UNCHANGED <<table, mem, events>>

FaultySchedKillBegin(r) ==
    /\ sch.pc = "pass" /\ MustStop(r)
    /\ r \in DaqRow => ~MustStop(Parent(r))
    /\ sch' = [sch EXCEPT !.pc = "kill", !.target = r, !.toStop = @ \ {r}]
    /\ rows' = rows \ {r}
    /\ UNCHANGED <<row, nextRow, proc, nextPid, mem, tracked, events>>

\* The walk reaches a worker before the rows of its devices.
SchedKillBegin(r) ==
    /\ sch.pc = "pass" /\ MustStop(r)
    /\ r \in DaqRow => ~MustStop(Parent(r))
    /\ sch' = [sch EXCEPT !.pc = "kill", !.target = r, !.toStop = @ \ {r}]
    /\ UNCHANGED <<table, proc, nextPid, mem, tracked, events>>

\* One round of the 1 s loop around kill_process.
SchedKillRound ==
    LET p == tracked[sch.target] IN
    /\ sch.pc = "kill"
    /\ IF proc[p].st = "gone"
       THEN /\ tracked' = [tracked EXCEPT ![sch.target] = 0]
            /\ sch' = [sch EXCEPT !.pc = "pass", !.target = 0]
            /\ UNCHANGED proc
       ELSE /\ proc' = [proc EXCEPT ![p] = KillProcess(@, "TERM")]
            /\ UNCHANGED <<tracked, sch>>
    /\ UNCHANGED <<table, nextPid, mem, events>>

FaultySchedKillTimeout ==
    LET p == tracked[sch.target] IN
    /\ sch.pc = "kill" /\ proc[p].st # "gone"
    /\ proc' = [proc EXCEPT ![p] = KillProcess(@, "KILL")]
    /\ tracked' = [tracked EXCEPT ![sch.target] = 0]
    /\ sch' = [sch EXCEPT !.pc = "pass", !.target = 0]
    /\ UNCHANGED <<table, nextPid, mem, events>>

\* 60 s are over.
SchedKillTimeout ==
    LET p == tracked[sch.target] IN
    /\ sch.pc = "kill" /\ proc[p].st # "gone"
    /\ proc' = [proc EXCEPT ![p] = KillProcess(@, "KILL")]
    /\ sch' = [sch EXCEPT !.pc = "pass", !.target = 0]
    /\ UNCHANGED <<table, nextPid, mem, tracked, events>>

FaultySchedSweep ==
    /\ sch.pc = "pass" /\ \A r \in Row : ~MustStop(r) /\ ~MustSpawn(r)
    /\ proc' = [p \in Pid |-> IF \E r \in Row : tracked[r] = p THEN Reaped(proc[p])
                              ELSE proc[p]]
    /\ sch' = [sch EXCEPT !.pc = "idle", !.toStop = {}, !.toStart = {}]
    /\ UNCHANGED <<table, nextPid, mem, tracked, events>>

\* "check all running processes": zombies are reaped; an entry whose pid is gone
\* leaves PROCESSES, its row is reset (worker) or deleted (device).
SchedSweep ==
    LET dead == {r \in Row : tracked[r] # 0 /\ Popped[r] = 0} IN
    /\ sch.pc = "pass" /\ \A r \in Row : ~MustStop(r) /\ ~MustSpawn(r)
    /\ tracked' = Popped
    /\ proc' = [p \in Pid |-> IF \E r \in Row : tracked[r] = p THEN Reaped(proc[p])
                              ELSE proc[p]]
    /\ row' = [r \in Row |-> IF r \in dead \cap Worker THEN [row[r] EXCEPT !.pid = 0]
                             ELSE row[r]]
    /\ rows' = rows \ dead
    /\ sch' = [sch EXCEPT !.pc = "idle", !.toStop = {}, !.toStart = {}]
    /\ UNCHANGED <<nextRow, nextPid, mem, events>>

FaultySchedTerm ==
    /\ sch.pc = "idle" /\ sch.sig # <<>> /\ Head(sch.sig) = "TERM"
    /\ sch' = [sch EXCEPT !.sig = Tail(@)]
    /\ UNCHANGED <<table, proc, nextPid, mem, tracked, events>>

SchedTerm ==
    /\ sch.pc = "idle" /\ sch.sig # <<>> /\ Head(sch.sig) = "TERM"
    /\ sch' = [sch EXCEPT !.pc = "stop", !.sig = Tail(@)]
    /\ UNCHANGED <<table, proc, nextPid, mem, tracked, events>>

\* stop(): rounds of SIGTERM to all until PROCESSES is empty ...
SchedStopRound ==
    /\ sch.pc = "stop"
    /\ proc' = KillProcesses("TERM") /\ tracked' = Popped
    /\ UNCHANGED <<table, nextPid, mem, sch, events>>

FaultySchedStopEnd ==
    /\ sch.pc = "stop"
    /\ tracked' = [r \in Row |-> 0]
    /\ sch' = [sch EXCEPT !.pc = "stopped", !.sig = <<>>]
    /\ UNCHANGED <<table, proc, nextPid, mem, events>>

\* ... or 60 s are over; whoever is left gets SIGKILL, and init reaps what the
\* exiting scheduler leaves behind.
SchedStopEnd ==
    /\ sch.pc = "stop"
    /\ proc' = [p \in Pid |-> Reaped(KillProcesses("KILL")[p])]
    /\ tracked' = [r \in Row |-> 0]
    /\ sch' = [sch EXCEPT !.pc = "stopped", !.sig = <<>>]
    /\ UNCHANGED <<table, nextPid, mem, events>>

\* restart(): one SIGTERM to all, 60 s in which nothing is reaped or popped,
\* SIGKILL, and a pass of manage_processes.
SchedRestart ==
    /\ sch.pc = "idle" /\ sch.sig # <<>> /\ Head(sch.sig) = "USR1"
    /\ sch' = [sch EXCEPT !.pc = "restart", !.sig = Tail(@)]
    /\ proc' = KillProcesses("TERM") /\ tracked' = Popped
    /\ UNCHANGED <<table, nextPid, mem, events>>

SchedRestartKill ==
    /\ sch.pc = "restart"
    /\ sch' = [sch EXCEPT !.pc = "manage"]
    /\ proc' = KillProcesses("KILL") /\ tracked' = Popped
    /\ UNCHANGED <<table, nextPid, mem, events>>

SchedUp == sch.pc \notin {"stopped", "crashed"}

\* SIGTERM or SIGUSR1 from the command line or systemd.
SchedSignal(s) ==
    /\ SchedUp /\ Event("scheduler", IF s = "TERM" THEN "terminate" ELSE "restart")
    /\ s \notin {sch.sig[i] : i \in DOMAIN sch.sig}
    /\ sch' = [sch EXCEPT !.sig = Append(@, s)]
    /\ UNCHANGED <<table, proc, nextPid, mem, tracked>>

\* The scheduler is killed, or run() logs an unhandled exception and returns:
\* its children live on as orphans.
SchedCrash ==
    /\ SchedUp /\ Event("scheduler", "crash")
    /\ sch' = [pc |-> "crashed", sig |-> <<>>, toStop |-> {}, toStart |-> {}, target |-> 0]
    /\ proc' = [p \in Pid |-> [Reaped(proc[p]) EXCEPT !.child = FALSE]]
    /\ tracked' = [r \in Row |-> 0]
    /\ UNCHANGED <<table, nextPid, mem>>

\* start(): the processes of the DAQ rows left in the table get one SIGTERM and
\* lose their rows; the old workers get nothing.
SchedStart ==
    LET stale == {r \in rows : ~row[r].done /\ ~row[Parent(r)].done} IN
    /\ ~SchedUp /\ Event("scheduler", "start")
    /\ sch' = [sch EXCEPT !.pc = "idle", !.sig = <<>>, !.toStop = {}, !.toStart = {}]
    /\ proc' = [p \in Pid |->
                  [(IF \E r \in stale : row[r].pid = p THEN Sent(proc[p], "TERM")
                    ELSE proc[p]) EXCEPT !.child = FALSE]]
    /\ rows' = rows \ stale
    /\ UNCHANGED <<row, nextRow, nextPid, mem, tracked>>
----------------------------------------------------------------------------
(* Every process after fork: pre_init_process writes pid to the row and    *)
(* clears done, then installs the process's own signal handlers.           *)

Register(p) ==
    LET r == proc[p].job IN
    /\ proc[p].st = "forked"
    /\ proc' = [proc EXCEPT ![p].st = "registered"]
    /\ row' = IF InTable(r) THEN [row EXCEPT ![r].pid = p, ![r].done = FALSE] ELSE row
    /\ UNCHANGED <<rows, nextRow, nextPid, mem, sch, tracked, events>>

IsDaq(p)    == proc[p].job \in DaqRow
IsWorker(p) == proc[p].job \in Worker

Ready(p) ==
    /\ proc[p].st = "registered"
    /\ proc' = [proc EXCEPT ![p].st = IF IsWorker(p) THEN "init" ELSE "run"]
    /\ UNCHANGED <<table, nextPid, mem, sch, tracked, events>>

Signalled(p, s) == proc[p].sig # <<>> /\ Head(proc[p].sig) = s

\* The first half of Process.stop: the row's pid becomes 0.
PidCleared(r) == IF InTable(r) THEN [row EXCEPT ![r].pid = 0] ELSE row
----------------------------------------------------------------------------
(* A worker process.                                                       *)

In(p, pc) == IsWorker(p) /\ proc[p].st \in {"init", "run"} /\ mem[p].pc = pc

\* init_process: the rows of a previous worker, read once.
WorkerList(p) ==
    /\ In(p, "list")
    /\ mem' = [mem EXCEPT ![p].pc = "check",
                  ![p].todo = {[id |-> r, pid |-> row[r].pid, enabled |-> row[r].enabled] :
                                  r \in {k \in Kids(proc[p].job) : ~row[k].done}}]
    /\ UNCHANGED <<table, proc, nextPid, sch, tracked, events>>

NoSuchPid(pid) == pid # 0 /\ proc[pid].st = "gone"

\* kill(pid, 0) answers ESRCH: the row is deleted.
WorkerDropDead(p, e) ==
    /\ In(p, "check") /\ e \in mem[p].todo /\ NoSuchPid(e.pid)
    /\ rows' = rows \ {e.id}
    /\ mem' = [mem EXCEPT ![p].todo = @ \ {e}]
    /\ UNCHANGED <<row, nextRow, proc, nextPid, sch, tracked, events>>

\* BackgroundProcess.stop(cleanup=True): save() writes the record as it was read,
\* with done set, and inserts it again if the row has been deleted meanwhile.
WorkerStopBegin(p, e) ==
    /\ proc[p].job \in SingleWorker /\ In(p, "check") /\ e \in mem[p].todo /\ ~NoSuchPid(e.pid)
    /\ rows' = rows \cup {e.id}
    /\ row' = [row EXCEPT ![e.id].done = TRUE, ![e.id].pid = e.pid, ![e.id].enabled = e.enabled]
    /\ mem' = [mem EXCEPT ![p].todo = @ \ {e}, ![p].cur = [id |-> e.id, pid |-> e.pid],
                          ![p].pc = "wait"]
    /\ UNCHANGED <<nextRow, proc, nextPid, sch, tracked, events>>

\* MultiDeviceDAQProcessWorker: stop() without cleanup is a single SIGTERM.
WorkerStopOnce(p, e) ==
    /\ proc[p].job \notin SingleWorker /\ In(p, "check") /\ e \in mem[p].todo /\ ~NoSuchPid(e.pid)
    /\ proc' = IF e.pid = 0 THEN proc ELSE [proc EXCEPT ![e.pid] = Sent(@, "TERM")]
    /\ mem' = [mem EXCEPT ![p].todo = @ \ {e}]
    /\ UNCHANGED <<table, nextPid, sch, tracked, events>>

Waiting(p) == In(p, "wait") \/ In(p, "rwait")

\* After stop returns: on to the next row of init_process, or, in restart, to the
\* next entry of self.processes. restart removes a stopped entry from the list it
\* iterates over and so skips the entry behind it.
AfterStop(m, stopped) ==
    IF m.pc = "wait" THEN [m EXCEPT !.pc = "check"]
    ELSE [m EXCEPT !.pc = "restart", !.i = @ + (IF stopped THEN 2 ELSE 1)]

\* One second of the 30 s loop: SIGTERM, until kill answers ESRCH. A row with
\* pid 0 is never found stopped.
WorkerWait(p) ==
    LET pid == mem[p].cur.pid IN
    /\ Waiting(p) /\ pid # 0
    /\ IF proc[pid].st = "gone"
       THEN mem' = [mem EXCEPT ![p] = AfterStop(@, TRUE)] /\ UNCHANGED proc
       ELSE proc' = [proc EXCEPT ![pid] = Sent(@, "TERM")] /\ UNCHANGED mem
    /\ UNCHANGED <<table, nextPid, sch, tracked, events>>

WorkerWaitTimeout(p) ==
    LET pid == mem[p].cur.pid IN
    /\ Waiting(p)
    /\ IF NoSuchPid(pid) THEN rows' = rows \ {mem[p].cur.id} ELSE UNCHANGED rows
    /\ proc' = IF pid = 0 THEN proc ELSE [proc EXCEPT ![pid] = Sent(@, "KILL")]
    /\ mem' = [mem EXCEPT ![p] = AfterStop(@, FALSE)]
    /\ UNCHANGED <<row, nextRow, nextPid, sch, tracked, events>>

\* "clean up": the remaining rows go, and self.processes starts empty.
WorkerClean(p) ==
    /\ In(p, "check") /\ mem[p].todo = {}
    /\ rows' = rows \ {r \in Kids(proc[p].job) : proc[p].job \in SingleWorker \/ ~row[r].done}
    /\ mem' = [mem EXCEPT ![p] = [NoMem EXCEPT !.pc = "create"]]
    /\ UNCHANGED <<row, nextRow, proc, nextPid, sch, tracked, events>>

\* bp.save() of a new row for device i of worker w.
InsertRow(w, i) ==
    /\ nextRow <= MaxRow
    /\ rows' = rows \cup {nextRow}
    /\ row' = [row EXCEPT ![nextRow] =
                  [dev |-> <<w, i>>, enabled |-> TRUE, done |-> FALSE, pid |-> 0]]
    /\ nextRow' = nextRow + 1

\* A signal that is waiting when the last row is inserted comes before the first loop().
WorkerCreate(p) ==
    LET i == mem[p].i IN
    /\ In(p, "create")
    /\ InsertRow(proc[p].job, i)
    /\ mem' = [mem EXCEPT ![p].ids[i] = nextRow,
                          ![p].i  = IF i = NDev /\ proc[p].sig = <<>> THEN 1 ELSE i + 1,
                          ![p].pc = IF i = NDev THEN "loop" ELSE "create"]
    /\ proc' = IF i = NDev THEN [proc EXCEPT ![p].st = "run"] ELSE proc
    /\ UNCHANGED <<nextPid, sch, tracked, events>>

\* loop() starts only when no signal waits; a pass that is under way when one arrives goes
\* on, and looks at each device at most once more, from device mem[p].i on, before run()
\* takes the signal out of the queue.
InPass(p, i) == mem[p].i <= i
NextInPass(p, i) == IF proc[p].sig = <<>> THEN 1 ELSE i + 1

FaultyWorkerRespawn(p, i) ==
    /\ In(p, "loop") /\ InPass(p, i)
    /\ mem[p].ids[i] \notin rows
    /\ InsertRow(proc[p].job, i)
    /\ mem' = [mem EXCEPT ![p].ids[i] = nextRow, ![p].failed[i] = @ + 1, ![p].i = NextInPass(p, i)]
    /\ UNCHANGED <<proc, nextPid, sch, tracked, events>>

HastyWorkerRespawn(p, i) ==
    /\ In(p, "loop") /\ InPass(p, i)
    /\ mem[p].ids[i] \notin rows \/ row[mem[p].ids[i]].pid = 0
    /\ mem[p].failed[i] < MaxFailed
    /\ InsertRow(proc[p].job, i)
    /\ mem' = [mem EXCEPT ![p].ids[i] = nextRow, ![p].failed[i] = @ + 1, ![p].i = NextInPass(p, i)]
    /\ UNCHANGED <<proc, nextPid, sch, tracked, events>>

\* loop(): "Process is dead, spawn new instance" when the row is not there.
WorkerRespawn(p, i) ==
    /\ In(p, "loop") /\ InPass(p, i)
    /\ mem[p].ids[i] \notin rows /\ mem[p].failed[i] < MaxFailed
    /\ InsertRow(proc[p].job, i)
    /\ mem' = [mem EXCEPT ![p].ids[i] = nextRow, ![p].failed[i] = @ + 1, ![p].i = NextInPass(p, i)]
    /\ UNCHANGED <<proc, nextPid, sch, tracked, events>>

\* stop() and exit: the devices' processes are left alone.
WorkerExit(p) ==
    /\ row' = PidCleared(proc[p].job)
    /\ proc' = [proc EXCEPT ![p] = Dead(@)]
    /\ mem' = [mem EXCEPT ![p] = NoMem]
    /\ UNCHANGED <<rows, nextRow, nextPid, sch, tracked>>

WorkerStop(p) ==
    /\ In(p, "loop") /\ Signalled(p, "TERM") /\ WorkerExit(p) /\ UNCHANGED events

\* An exception in run(); loop and restart catch theirs.
WorkerFail(p) ==
    /\ IsWorker(p) /\ proc[p].st = "run" /\ mem[p].pc \notin {"restart", "rwait"}
    /\ Event("worker", "fail") /\ WorkerExit(p)

WorkerRestart(p) ==
    /\ In(p, "loop") /\ Signalled(p, "USR1")
    /\ proc' = [proc EXCEPT ![p].sig = Tail(@)]
    /\ mem' = [mem EXCEPT ![p].pc = "restart", ![p].i = 1]
    /\ UNCHANGED <<table, nextPid, sch, tracked, events>>

\* restart(): stop(cleanup=True) for each entry of self.processes whose row
\* exists, then init_process.
WorkerRestartNext(p) ==
    LET i == mem[p].i
        r == IF i \in 1..NDev THEN mem[p].ids[i] ELSE 0 IN
    /\ In(p, "restart")
    /\ IF r \in rows
       THEN /\ row' = [row EXCEPT ![r].done = TRUE]
            /\ mem' = [mem EXCEPT ![p].pc = "rwait",
                                  ![p].cur = [id |-> r, pid |-> row[r].pid]]
       ELSE /\ mem' = IF i > NDev THEN [mem EXCEPT ![p].pc = "list"]
                      ELSE [mem EXCEPT ![p].i = i + 1]
            /\ UNCHANGED row
    /\ UNCHANGED <<rows, nextRow, proc, nextPid, sch, tracked, events>>
----------------------------------------------------------------------------
(* A DAQ process.                                                          *)

\* stop() clears the pid ...
DaqStopping(p) ==
    /\ row' = PidCleared(proc[p].job)
    /\ proc' = [proc EXCEPT ![p].st = "stopping", ![p].sig = <<>>]
    /\ UNCHANGED <<rows, nextRow, nextPid, mem, sch, tracked>>

DaqStop(p) ==
    /\ IsDaq(p) /\ proc[p].st = "run" /\ Signalled(p, "TERM")
    /\ DaqStopping(p) /\ UNCHANGED events

\* An unhandled exception in loop().
DaqFail(p) ==
    /\ IsDaq(p) /\ proc[p].st = "run" /\ Event("daq", "fail") /\ DaqStopping(p)

\* ... cleanup() deletes the row, and the process exits.
DaqExit(p) ==
    /\ IsDaq(p) /\ proc[p].st = "stopping"
    /\ rows' = rows \ {proc[p].job}
    /\ proc' = [proc EXCEPT ![p] = Dead(@)]
    /\ UNCHANGED <<row, nextRow, nextPid, mem, sch, tracked, events>>

\* SIGUSR1: restart() is init_process, which touches neither table nor processes.
DaqReinit(p) ==
    /\ IsDaq(p) /\ proc[p].st = "run" /\ Signalled(p, "USR1")
    /\ proc' = [proc EXCEPT ![p].sig = Tail(@)]
    /\ UNCHANGED <<table, nextPid, mem, sch, tracked, events>>
----------------------------------------------------------------------------
(* The environment.                                                        *)

\* SIGKILL from outside (the admin's "Kill Processes", the OOM killer), or an
\* exception in init_process, which ends the process without cleanup.
Kill(p) ==
    /\ Live(proc[p]) /\ Event(Role(proc[p].job), "kill")
    /\ proc' = [proc EXCEPT ![p] = Dead(@)]
    /\ mem' = [mem EXCEPT ![p] = NoMem]
    /\ UNCHANGED <<table, nextPid, sch, tracked>>

\* An OperationalError in pre_init_process or init_process is caught in the child
\* by the run() of the Scheduler object it inherited; its stop() finds that
\* self.pid is not its own and sends SIGTERM to the scheduler.
InitFail(p) ==
    /\ proc[p].st \in {"forked", "registered", "init"}
    /\ proc[p].child /\ SchedUp /\ Event(Role(proc[p].job), "init_fail")
    /\ proc' = [proc EXCEPT ![p] = Dead(@)]
    /\ sch' = [sch EXCEPT !.sig = IF \E i \in DOMAIN @ : @[i] = "TERM" THEN @
                                  ELSE Append(@, "TERM")]
    /\ mem' = [mem EXCEPT ![p] = NoMem]
    /\ UNCHANGED <<table, nextPid, tracked>>

\* Admin actions "Terminate Processes" (SIGTERM) and "Restart Processes" (SIGUSR1).
AdminSignal(r, s) ==
    /\ InTable(r) /\ row[r].pid # 0
    /\ Event(Role(r), IF s = "TERM" THEN "terminate" ELSE "restart")
    /\ proc' = [proc EXCEPT ![row[r].pid] = Sent(@, s)]
    /\ UNCHANGED <<table, nextPid, mem, sch, tracked>>

\* The "enabled" box of the admin form.
AdminToggle(r) ==
    /\ InTable(r) /\ Event(Role(r), IF row[r].enabled THEN "disable" ELSE "enable")
    /\ row' = [row EXCEPT ![r].enabled = ~@]
    /\ UNCHANGED <<rows, nextRow, proc, nextPid, mem, sch, tracked>>
----------------------------------------------------------------------------
SchedStep ==
    \/ SchedSnapshot \/ SchedKillRound \/ SchedKillTimeout \/ SchedSweep
    \/ SchedTerm \/ SchedStopRound \/ SchedStopEnd
    \/ SchedRestart \/ SchedRestartKill
    \/ \E r \in Row : SchedSpawn(r) \/ SchedKillBegin(r)

WorkerStep(p) ==
    \/ WorkerList(p) \/ WorkerWait(p) \/ WorkerWaitTimeout(p) \/ WorkerClean(p)
    \/ WorkerCreate(p) \/ WorkerStop(p) \/ WorkerRestart(p) \/ WorkerRestartNext(p)
    \/ \E e \in mem[p].todo : WorkerDropDead(p, e) \/ WorkerStopBegin(p, e) \/ WorkerStopOnce(p, e)
    \/ \E i \in 1..NDev : WorkerRespawn(p, i)

DaqStep(p) == DaqStop(p) \/ DaqExit(p) \/ DaqReinit(p)

ProcessStep(p) == Register(p) \/ Ready(p) \/ WorkerStep(p) \/ DaqStep(p)

Environment ==
    \/ SchedCrash \/ SchedStart
    \/ \E s \in {"TERM", "USR1"} : SchedSignal(s)
    \/ \E p \in Pid : Kill(p) \/ InitFail(p) \/ WorkerFail(p) \/ DaqFail(p)
    \/ \E r \in Row : AdminToggle(r) \/ \E s \in {"TERM", "USR1"} : AdminSignal(r, s)

Next == SchedStep \/ (\E p \in Pid : ProcessStep(p)) \/ Environment

Spec == Init /\ [][Next]_vars
----------------------------------------------------------------------------
(* Fairness: the scheduler, the workers and the DAQ processes are loops the *)
(* operating system keeps running. The environment owes nothing.           *)
Fairness == WF_vars(SchedStep) /\ \A p \in Pid : WF_vars(ProcessStep(p))
FairSpec == Spec /\ Fairness

ProcState == {"none", "forked", "registered", "init", "run", "stopping", "zombie", "gone"}
SchedPc   == {"idle", "manage", "pass", "kill", "stop", "restart", "stopped", "crashed"}
WorkerPc  == {"list", "check", "wait", "create", "loop", "restart", "rwait"}
Signal    == {"TERM", "USR1"}
RowId     == 0..MaxRow
PidOrNone == 0..MaxPid
RowOfPid  == [id : RowId, pid : PidOrNone]
Listed    == [id : DaqRow, pid : PidOrNone, enabled : BOOLEAN]

TypeOK ==
    /\ rows \subseteq DaqRow /\ nextRow \in 1..(MaxRow + 1)
    /\ row \in [Row -> [dev : Dev \cup {NoDev}, enabled : BOOLEAN, done : BOOLEAN,
                        pid : PidOrNone]]
    /\ proc \in [Pid -> [st : ProcState, job : Row \cup {0}, child : BOOLEAN,
                         sig : Seq(Signal)]]
    /\ nextPid \in 1..(MaxPid + 1)
    /\ mem \in [Pid -> [pc : WorkerPc, todo : SUBSET Listed, cur : RowOfPid,
                        i : Nat, ids : [1..NDev -> RowId],
                        failed : [1..NDev -> 0..MaxFailed]]]
    /\ sch \in [pc : SchedPc, sig : Seq(Signal), toStop : SUBSET Row,
                toStart : SUBSET Row, target : Row \cup {0}]
    /\ tracked \in [Row -> PidOrNone]
    /\ events \in 0..MaxEvents

\* Every child the scheduler has not reaped is in PROCESSES under its own row:
\* nothing is popped before kill(pid, 0) says that the pid is gone, and a row is
\* forked only while it has no entry.
Tracked ==
    \A p \in Pid : proc[p].child /\ Exists(proc[p]) => tracked[proc[p].job] = p

\* A row never has two processes of the same scheduler, whatever is killed,
\* restarted or disabled and however long a process takes to stop.
OneProcessPerRow ==
    \A p, q \in Pid :
        /\ proc[p].child /\ Live(proc[p])
        /\ proc[q].child /\ Live(proc[q])
        /\ proc[p].job = proc[q].job
        => p = q

\* When stop() has returned, no process the scheduler forked is still running.
NoSurvivors ==
    sch.pc = "stopped" => \A p \in Pid : proc[p].child => ~Live(proc[p])

Serves(p, d) ==
    /\ proc[p].st \in {"forked", "registered", "run"}
    /\ IsDaq(p) /\ row[proc[p].job].dev = d

\* A device is polled by one process at a time: two masters on one bus or one
\* serial port corrupt each other's exchanges.
OneDaqPerDevice ==
    \A d \in Dev : \A p, q \in Pid : Serves(p, d) /\ Serves(q, d) => p = q

\* A DAQ process in its loop can be found, and stopped, through its row.
NoOrphanDaq ==
    \A p \in Pid : IsDaq(p) /\ proc[p].st = "run" => proc[p].job \in rows

\* Worker loop: "Process is dead, spawn new instance". A respawn happens only
\* when no process of that device is running any more.
RespawnOnlyDead ==
    [][\A p \in Pid, i \in 1..NDev :
          mem'[p].failed[i] > mem[p].failed[i]
            => \A q \in Pid : ~Serves(q, <<proc[p].job, i>>)]_vars

\* Once the environment is quiet every device of an enabled worker is polled
\* again - after deaths, restarts of its worker that stop it and wait, and a crash of the
\* scheduler - unless its row is missing and the worker has no respawn left for it, or
\* its row has been disabled.
Served(w, i) ==
    \/ \E q \in Pid : Serves(q, <<w, i>>) /\ proc[q].st = "run"
    \/ \E p \in Pid : /\ In(p, "loop") /\ proc[p].job = w
                     /\ mem[p].failed[i] = MaxFailed /\ mem[p].ids[i] \notin rows
    \/ \E r \in Kids(w) : row[r].dev = <<w, i>> /\ ~row[r].enabled
DevicesServed ==
    \A w \in Worker, i \in 1..NDev : <>[](SchedUp /\ row[w].enabled => Served(w, i))

\* A scheduler that was sent SIGTERM stops, whatever its children do.
StopCompletes == (SchedUp /\ \E k \in DOMAIN sch.sig : sch.sig[k] = "TERM") ~> ~SchedUp

\* A disabled worker and the processes of its devices end up stopped.
DisabledStops ==
    \A w \in Worker :
        <>[](SchedUp /\ ~row[w].enabled =>
               \A p \in Pid : Live(proc[p]) => proc[p].job # w /\ ~\E i \in 1..NDev : Serves(p, <<w, i>>))
============================================================================
