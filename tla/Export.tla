-------------------------------- MODULE Export --------------------------------
(***************************************************************************)
(* Exports of PyScada: the master process that starts one export after the *)
(* other (export/worker.py, MasterProcess), the processes that carry them  *)
(* out (ExportProcess, export_recordeddata_to_file of export/export.py)    *)
(* and the scheduler that spawns and sweeps these processes                *)
(* (utils/scheduler.py, see Supervision).                                  *)
(*                                                                         *)
(* They share two tables without a transaction: a row is read, and written *)
(* back later with all its columns, those that another process has changed *)
(* meanwhile included. Time is counted in passes of the master, which runs *)
(* every 30 seconds, and only as ages: as far as a branch looks at them.   *)
(* Reading a row and writing it back in adjacent lines is one step.        *)
(* GreedyDue, BlindFailed and Forgotten are mutated forms of the operator   *)
(* below them.                                                             *)
(***************************************************************************)
EXTENDS Integers, Sequences, FiniteSets

CONSTANTS
    Tasks,     \* ids of ExportTasks
    Hour,      \* 120 passes: a process not updated for so long is left alone
    Offsets,   \* how many passes the local clock may be behind UTC: ExportTask.start reads
               \* the UTC start as local time
    MaxDelay,  \* bound: how long before its start a task is created, in passes
    MaxDeaths, \* bound: export processes that are killed or end with an exception
    MaxRows    \* bound: rows of BackgroundProcess; each task and each kill of the master
               \* may need one

ASSUME ExportAssumption ==
    /\ Tasks \subseteq Nat /\ IsFiniteSet(Tasks)
    /\ Hour \in Nat \ {0, 1} /\ {MaxDelay, MaxDeaths, MaxRows} \subseteq Nat
    /\ Offsets \subseteq Int

VARIABLES
    offset,   \* of the installation, which is not changed
    passed,   \* has the master made its pass of these 30 seconds?
    task,     \* table ExportTask: per id a row, if there is one
    wait,     \* per task, passes until its start, negative when it is past
    bp,       \* table BackgroundProcess: rows of export processes, in order; age is the
              \* time since last_update, an hour at most; it is looked at, and passes,
              \* only while the pid is 0
    tracked,  \* Scheduler.PROCESSES: rows it has spawned a process for
    proc,     \* per row, the point its process is at, and its copy of the task
    master,   \* the point the master is at, and its copies of tasks
    exports,  \* history: how often each task was exported
    deaths, masterKills   \* history
vars == <<offset, passed, task, wait, bp, tracked, proc, master, exports, deaths, masterKills>>

None == 0
Rows == 1..MaxRows
NoTask == [done |-> FALSE, busy |-> FALSE, failed |-> FALSE, bp |-> None]
NoProcess == [at |-> "none", task |-> NoTask]
Idle == [at |-> "idle", tasks |-> <<>>]
Existing == DOMAIN task

\* time() - start() >= 30; Past is as long ago as any branch looks at.
Older(w) == w + offset < 0
Past == IF offset > 0 THEN -1 - offset ELSE -1
MoreRows == Cardinality(Existing) + masterKills < MaxRows

Init ==
    /\ offset \in Offsets /\ passed = FALSE
    /\ task = <<>> /\ wait = <<>>
    /\ bp = <<>> /\ tracked = {}
    /\ proc = [b \in Rows |-> NoProcess]
    /\ master = Idle
    /\ exports = [t \in Tasks |-> 0] /\ deaths = 0 /\ masterKills = 0

\* The master makes a pass every 30 seconds, also while exports go on.
Tick ==
    /\ passed /\ passed' = FALSE
    /\ wait' = [t \in Existing |-> IF wait[t] = Past THEN Past ELSE wait[t] - 1]
    /\ bp' = [b \in 1..Len(bp) |-> [bp[b] EXCEPT !.age = IF bp[b].pid \/ @ = Hour THEN @ ELSE @ + 1]]
    /\ UNCHANGED <<offset, task, tracked, proc, master, exports, deaths, masterKills>>

\* A task is created by a user, or by the master when the day changes. It starts at once,
\* later, or - on the schedule of the day that is over - at a time that is past.
Create(t) ==
    /\ t \in Tasks \ Existing /\ MoreRows
    /\ task' = [u \in Existing \cup {t} |-> IF u = t THEN NoTask ELSE task[u]]
    /\ \E w \in Past..MaxDelay :
          wait' = [u \in Existing \cup {t} |-> IF u = t THEN w ELSE wait[u]]
    /\ UNCHANGED <<offset, passed, bp, tracked, proc, master, exports, deaths, masterKills>>
----------------------------------------------------------------------------
(* MasterProcess.loop.                                                     *)

InOrder(S) == CHOOSE s \in [1..Cardinality(S) -> S] : \A i, j \in DOMAIN s : i < j => s[i] < s[j]
Copies(S) == [i \in 1..Cardinality(S) |-> <<InOrder(S)[i], task[InOrder(S)[i]]>>]
Running == {t \in Existing : task[t].busy /\ ~task[t].failed}
GreedyDue == {t \in Existing : ~task[t].busy /\ ~task[t].failed /\ wait[t] <= 0}
Due == {t \in Existing : ~task[t].done /\ ~task[t].busy /\ ~task[t].failed /\ wait[t] <= 0}
EndPass == master' = Idle /\ passed' = TRUE

\* If no export is running the first one that is due is next.
Look ==
    /\ master.at = "idle" /\ ~passed
    /\ \/ Running # {} /\ master' = [at |-> "check", tasks |-> Copies(Running)] /\ UNCHANGED passed
       \/ /\ Running = {} /\ Due # {}
          /\ master' = [at |-> "start", tasks |-> <<Copies(Due)[1]>>] /\ UNCHANGED passed
       \/ Running = {} /\ Due = {} /\ EndPass
    /\ UNCHANGED <<offset, task, wait, bp, tracked, proc, exports, deaths, masterKills>>

\* A running task has failed when it has no background process, or one with pid 0. One
\* whose process has not been updated for an hour is left alone, and so is one that has
\* not started yet by the shifted clock.
BlindFailed(t, row) == Older(wait[t]) /\ row.bp = None
HasFailed(t, row) ==
    /\ Older(wait[t])
    /\ row.bp = None \/ (bp[row.bp].age < Hour /\ ~bp[row.bp].pid)

Check ==
    /\ master.at = "check" /\ master.tasks # <<>>
    /\ LET t == Head(master.tasks)
       IN  task' = IF HasFailed(t[1], t[2]) THEN [task EXCEPT ![t[1]] = [t[2] EXCEPT !.failed = TRUE]]
                   ELSE task
    /\ master' = [master EXCEPT !.tasks = Tail(@)]
    /\ UNCHANGED <<offset, passed, wait, bp, tracked, proc, exports, deaths, masterKills>>

EndCheck ==
    /\ master.at = "check" /\ master.tasks = <<>> /\ EndPass
    /\ UNCHANGED <<offset, task, wait, bp, tracked, proc, exports, deaths, masterKills>>

\* The background process is saved first, the task after that.
AddProcess ==
    /\ master.at = "start" /\ Len(bp) < MaxRows
    /\ bp' = Append(bp, [task |-> master.tasks[1][1], pid |-> FALSE, done |-> FALSE,
                         age |-> 0])
    /\ master' = [master EXCEPT !.at = "claim"]
    /\ UNCHANGED <<offset, passed, task, wait, tracked, proc, exports, deaths, masterKills>>

Claim ==
    /\ master.at = "claim" /\ EndPass
    /\ task' = [task EXCEPT ![master.tasks[1][1]] = [master.tasks[1][2] EXCEPT !.busy = TRUE]]
    /\ UNCHANGED <<offset, wait, bp, tracked, proc, exports, deaths, masterKills>>

Master == Look \/ Check \/ EndCheck \/ AddProcess \/ Claim
----------------------------------------------------------------------------
(* The scheduler.                                                          *)

Forgotten(b) == tracked
Tracked(b) == tracked \cup {b}
Spawn(b) ==
    /\ b \in 1..Len(bp) \ tracked /\ ~bp[b].done
    /\ tracked' = Tracked(b)
    /\ proc' = [proc EXCEPT ![b].at = "new"]
    /\ UNCHANGED <<offset, passed, task, wait, bp, master, exports, deaths, masterKills>>

\* A process that is done is told to stop, and does so when its loop has returned.
Terminate(b) ==
    /\ b \in tracked /\ bp[b].done /\ proc[b].at = "idle"
    /\ tracked' = tracked \ {b}
    /\ proc' = [proc EXCEPT ![b] = NoProcess]
    /\ bp' = [bp EXCEPT ![b].pid = FALSE, ![b].age = 0]
    /\ UNCHANGED <<offset, passed, task, wait, master, exports, deaths, masterKills>>

\* The walk over the rows meets one that is done and whose process is dead: kill_process
\* finds that out and pops the entry. The row keeps its pid.
Drop(b) ==
    /\ b \in tracked /\ proc[b].at = "none" /\ bp[b].done
    /\ tracked' = tracked \ {b}
    /\ UNCHANGED <<offset, passed, task, wait, bp, proc, master, exports, deaths, masterKills>>

\* A process has disappeared, and its row was not done when the walk came by: it may be
\* now, when the process died in between.
Sweep(b) ==
    /\ b \in tracked /\ proc[b].at = "none"
    /\ tracked' = tracked \ {b}
    /\ bp' = [bp EXCEPT ![b].pid = FALSE, ![b].age = 0]
    /\ UNCHANGED <<offset, passed, task, wait, proc, master, exports, deaths, masterKills>>

Scheduler(b) == Spawn(b) \/ Terminate(b) \/ Drop(b) \/ Sweep(b)
----------------------------------------------------------------------------
(* An export process: pre_init_process, then ExportProcess.loop.           *)

Step(b, from, to) == proc[b].at = from /\ proc' = [proc EXCEPT ![b].at = to]

Register(b) ==
    /\ Step(b, "new", "ready")
    /\ bp' = [bp EXCEPT ![b].pid = TRUE, ![b].done = FALSE, ![b].age = 0]
    /\ UNCHANGED <<offset, passed, task, wait, tracked, master, exports, deaths, masterKills>>

ReadTask(b) ==
    /\ proc[b].at = "ready"
    /\ proc' = [proc EXCEPT ![b] = [at |-> "read", task |-> task[bp[b].task]]]
    /\ UNCHANGED <<offset, passed, task, wait, bp, tracked, master, exports, deaths, masterKills>>

MarkBusy(b) ==
    /\ proc[b].at = "read" /\ proc' = [proc EXCEPT ![b] = [at |-> "busy", task |-> NoTask]]
    /\ task' = [task EXCEPT ![bp[b].task] = [proc[b].task EXCEPT !.busy = TRUE, !.bp = b]]
    /\ UNCHANGED <<offset, passed, wait, bp, tracked, master, exports, deaths, masterKills>>

\* export_recordeddata_to_file: with no data at all to export the process is not done yet.
WriteFile(b) ==
    /\ Step(b, "busy", "written")
    /\ exports' = [exports EXCEPT ![bp[b].task] = @ + 1]
    /\ \E data \in BOOLEAN : bp' = [bp EXCEPT ![b].done = data, ![b].age = 0]
    /\ UNCHANGED <<offset, passed, task, wait, tracked, master, deaths, masterKills>>

MarkDone(b) ==
    /\ Step(b, "written", "closing")
    /\ task' = [task EXCEPT ![bp[b].task].done = TRUE, ![bp[b].task].busy = FALSE]
    /\ UNCHANGED <<offset, passed, wait, bp, tracked, master, exports, deaths, masterKills>>

Close(b) ==
    /\ Step(b, "closing", "idle")
    /\ bp' = IF bp[b].done THEN bp ELSE [bp EXCEPT ![b].done = TRUE, ![b].age = 0]
    /\ UNCHANGED <<offset, passed, task, wait, tracked, master, exports, deaths, masterKills>>

ExportProcess(b) ==
    Register(b) \/ ReadTask(b) \/ MarkBusy(b) \/ WriteFile(b) \/ MarkDone(b) \/ Close(b)
----------------------------------------------------------------------------
(* Failures.                                                               *)

\* An export process is killed, by the scheduler too when it does not stop within 60 s of
\* being done, or ends with an exception and resets its pid.
Die(b) ==
    /\ proc[b].at # "none" /\ deaths < MaxDeaths /\ deaths' = deaths + 1
    /\ proc' = [proc EXCEPT ![b] = NoProcess]
    /\ \/ UNCHANGED bp
       \/ bp' = [bp EXCEPT ![b].pid = FALSE, ![b].age = 0]
    /\ UNCHANGED <<offset, passed, task, wait, tracked, master, exports, masterKills>>

\* The master is killed and started again.
KillMaster ==
    /\ master # Idle /\ MoreRows /\ masterKills' = masterKills + 1
    /\ master' = Idle
    /\ UNCHANGED <<offset, passed, task, wait, bp, tracked, proc, exports, deaths>>
----------------------------------------------------------------------------
Next ==
    \/ Tick \/ Master \/ KillMaster
    \/ \E t \in Tasks : Create(t)
    \/ \E b \in Rows : Scheduler(b) \/ ExportProcess(b) \/ Die(b)
Spec == Init /\ [][Next]_vars

\* Time passes, and all processes run; one that ends is replaced by the scheduler.
FairSpec ==
    /\ Spec /\ WF_vars(Tick) /\ WF_vars(Master)
    /\ \A b \in Rows : WF_vars(Scheduler(b)) /\ WF_vars(ExportProcess(b))
----------------------------------------------------------------------------
Task == [done : BOOLEAN, busy : BOOLEAN, failed : BOOLEAN, bp : 0..MaxRows]
TypeOK ==
    /\ offset \in Offsets /\ passed \in BOOLEAN /\ wait \in [Existing -> Past..MaxDelay]
    /\ Existing \subseteq Tasks /\ \A t \in Existing : task[t] \in Task /\ task[t].bp <= Len(bp)
    /\ bp \in Seq([task : Existing, pid : BOOLEAN, done : BOOLEAN, age : 0..Hour])
    /\ Len(bp) <= MaxRows /\ tracked \subseteq 1..Len(bp)
    /\ \A b \in Rows : proc[b].at # "none" => b \in tracked
    /\ exports \in [Tasks -> Nat] /\ deaths \in 0..MaxDeaths
    /\ masterKills \in 0..MaxRows

\* A task that is labelled done has been exported. It is exported a second time only if a
\* process was killed, whatever the processes overwrite in each other's rows.
ExportedOnce ==
    \A t \in Existing : /\ task[t].done => exports[t] > 0
                        /\ exports[t] <= 1 + deaths + masterKills

\* Every task is done or given up, and none is labelled busy for ever, which would keep
\* all later ones from being started - also when the process dies that carries it out.
\* Only one thing stops all exports: a death after the row was labelled done and before
\* the task is, so that nobody starts the process again, when no check can notice it. A
\* killed process leaves its pid behind; one that has reset it is given up within the
\* hour, unless the local clock is behind UTC.
Over(t) == task[t].failed \/ (task[t].done /\ ~task[t].busy)
Gone(b) == b \in 1..Len(bp) /\ proc[b].at = "none" /\ b \notin tracked /\ bp[b].done
Stuck(t) == LET b == task[t].bp IN
    /\ task[t].busy /\ Gone(b) /\ deaths > 0
    /\ bp[b].pid \/ (offset > 0 /\ bp[b].age = Hour)
Served == []<>((\A t \in Existing : Over(t)) \/ \E t \in Existing : Stuck(t))
=============================================================================
