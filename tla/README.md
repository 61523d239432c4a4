# A TLA+ model of PyScada

PyScada is a supervision and data acquisition server: a scheduler daemon keeps
a tree of operating system processes that poll devices, execute write tasks,
record values, evaluate events, send mails and export data, and a web
application (Django) with a JavaScript client shows the values and creates the
tasks. The parts communicate through tables of one database, signals, and an
optional channel layer. This directory holds the TLA+ modules of the parts
modelled so far, the TLC configurations that check them and the proofs that
TLAPS checks.

## Inventory

| Component | State | Operations | Interaction | What is hard | What makes it correct |
|---|---|---|---|---|---|
| Scheduler (`utils/scheduler.py`, class `Scheduler`) | `PROCESSES`, signal queue, pid | `start`, `run`, `manage_processes`, `restart`, `stop`, `kill_process`, `spawn_process` | reads and writes the `BackgroundProcess` table, forks, signals, reaps | waits that block a whole pass, signals lost around `fork`, a crash that leaves the children alive | every child is tracked; one process per row; `stop` leaves none |
| Protocol workers (`Single`/`MultiDeviceDAQProcessWorker`) | list of rows and of respawns per device | `init_process`, `loop`, `restart` | insert and delete rows of the devices; the scheduler forks their processes | a restart races the fork of a row's process; rows written back as read | one poller per device; a device comes back |
| DAQ processes (`Single`/`MultiDeviceDAQProcess`) | query time, received flags, driver | `loop`, `cleanup`, `restart` | task tables, channel, recorded data | tasks inserted during a poll; death between a write and its save | each write once, in order, in time; every task finished |
| Task tables and views (`models.py`, `hmi/views.py`) | `DeviceWriteTask`, `DeviceReadTask` | `create_and_notificate`, form views | web workers insert, DAQ processes finish | order of insertion is not the order of stamps; a lost message | a task is found without its message |
| Events, complex events (`models.py`) | `RecordedEvent`, conditions | `do_event_check` | read recorded data, create mails and write tasks | hysteresis, a failure in the middle of a pass, a crash between the event and its mails | one open record per event; each change reported |
| Mail process | `Mail` rows | `send_mail`, deletion after a week | event process inserts | crash between delivery and save | at most three attempts; none lost |
| Export | `ExportTask`, schedule | `loop` of the master and of each export process | `BackgroundProcess` rows | a busy task without a process; staleness | no export blocks the others for ever |
| Recording (`Variable`, `RecordedData`) | previous value, last update | `update_value`, `create_recorded_data_element`, range queries | drivers write, HMI and events read | change-of-value drift, packed keys, several saves | a reader sees the values that were valid |
| Calculated variables | last check | `check_period`, `get_valid_range` | recorded data | borders of periods, late data | each period computed once, over its own data |
| HMI server views | - | `get_cache_data`, form views | tables | a cursor and data saved late | nothing saved is skipped |
| HMI browser client (JS) | `DATA`, buffer limits, cursor | `data_handler`, `add_fetched_data` (`check_buffer` is never called) | answers of the server in any order | merging overlapping ranges | samples sorted, unique, complete |
| Drivers (modbus, visa, smbus, onewire, phant, systemstat) | connection | `request_data`, `write_data` | hardware | - | external here |
| Daemon start, admin, signals, migrations | pid file | `demonize`, admin actions, re-initialisation after a change | signals | two daemons at once | a single daemon |

`PROJECT.json` lists these components with their status, and the hazards with
the line where each bites.

## Modules

| Module | Contents |
|---|---|
| `Supervision`, `MCSupervision` | scheduler, workers, DAQ processes as processes, table, signals, admin; sets of environment events for the runs |
| `DeviceTasks`, `MCDeviceTasks` | `loop()` of a DAQ process, the task tables, the channel, the web workers; small sets of tasks and devices |
| `TaskTable` | abstract: what the tables of device tasks promise to those who create tasks |
| `Mails` | the table of mails and the process that sends them, with any process that adds mails |
| `Events`, `MCEvents` | the event process with its checks, composed with `Mails`; settings of events and groups |
| `Export`, `MCExport` | the export master, the export processes and the scheduler's part in their life |
| `HmiStore` | the merge of samples in the browser client, as operators on series |
| `HmiView` | abstract: what the page promises about the samples it shows |
| `HmiClient`, `MCHmiClient` | the client's data flow with the view that answers it; uses `HmiStore`, implements `HmiView` |
| `...Proofs` | theorems about the module they are named after: `Supervision`, `DeviceTasks`, `Mails`, `Events`, `Export`, `HmiStore`, `HmiClient`; `DeviceProofs` about `Supervision` with the events of `supervision_devices` |

Where the components meet: what `Supervision` calls a DAQ process in its loop is
the `loop` of `DeviceTasks`, and the worker's respawns of `Supervision` (at most three
for a device) are `Respawn` of `DeviceTasks`. `Events` extends `Mails`: a mail job of an
event is `PostMail`, and the mail process runs beside the event process. `Export` has
the part of the scheduler that spawns and sweeps export processes, with the rows of
`BackgroundProcess` they share with the master. What `HmiClient` finds in `rows` is
what `Record` of `DeviceTasks` has stored.

Operators that stand directly before another one and are named after a fault
(`Faulty...`, `Hasty...`, `Greedy...`, ...) are mutated forms of it. No
specification uses them; they are there to show that each property can fail.

### Supervision

*State.* `rows`, `row` and `nextRow` are the `BackgroundProcess` table below the
scheduler: worker rows always exist, DAQ rows are inserted and deleted. `proc` is
the operating system's view of a process: forked (inherited handlers),
registered (`pre_init_process` has written its pid), init (`init_process` of a
worker), run, stopping (between the two halves of `Process.stop`), zombie,
gone; with the queue of caught signals. `mem` is the memory of a worker
(`self.processes` and where it is in `init_process` or `restart`), `sch` the
control state of the scheduler, `tracked` is `PROCESSES`.

*Actions.* `Sched...` are the steps of `manage_processes` (a query of the table,
then the walk over what was read, blocking for each process to be stopped, then
the sweep), of `stop`, `restart` and `start`. `Register` and `Ready` are
`pre_init_process`. `Worker...` are `init_process`, `loop`, `restart` and `stop` of
both kinds of worker, one step per database or signal operation. `Daq...` are
stop, cleanup and re-initialisation of a DAQ process. `Kill`, `InitFail`,
`AdminSignal`, `AdminToggle`, `SchedSignal`, `SchedCrash` and `SchedStart` are the
environment.

*Abstractions.* Time: each wait of 30 s or 60 s may end with its timeout at any
moment, so every outcome of a race with a timeout is covered. Pids are handed
out once and never reused. A worker serves `NDev` devices, for a multi-device
worker the device stands for a port group. An action of the model that reads and
saves a row does both in one step except `BackgroundProcess.stop`, whose stale
save is modelled (`WorkerList` reads, `WorkerStopBegin` writes back pid and `enabled` as they
were). A worker looks at signals between two passes of its `loop` only: `InPass` and
`NextInPass` let a pass go on over the devices whatever has arrived meanwhile.

### DeviceTasks

*State.* `task` holds both task tables; a task is "stamped" when a web worker has
taken its start time and not yet inserted it. `channel` holds one message, as the
capacity in the code. `loop` is the memory and control state of the process.
`data` are the values `loop()` has collected, `recorded` those `run()` has stored.
`calls` and `late` are history variables: they are read by properties only.

*Actions.* `Stamp` and `Create` are a form view and `create_and_notificate`; `Wake` is
the receiver with its timeout; `QueryWrites`, `RequeryWrites`, `Write`, `SaveWrite`,
`WritesOver` the write phase; `QueryReads`, `Request`, `NotDue`, `Poll` the read phase;
`Record` the storage in `run()`; `PropertyTask` a task without a variable, whose
`AttributeError` ends the process; `Crash` and `Respawn` death and restart. The set
of read tasks is a lazy query: it is evaluated again when the poll has returned
(`Answered`), with the limit of its creation.

*Abstractions.* Values and scaling are left out; whether a driver returns data is
a free choice; `dt_query_data` may be over or not; every device has a driver object.

*Refinement.* `TaskTable` knows the state of each task, when it is meant for, how often it was
executed and what was stored, but neither the process nor its queries, list, copies and
channel. It promises that a task is finished once and for good, a write executed before it
is finished, not before its start, and again only if the process died before its outcome
was saved, and that values are stored only for tasks that are done. `Table` maps `task`,
`calls`, `recorded` and the point of `loop` to it; `TableSpec` is checked by `tasks_single` and
proved.

### Mails

*State.* `mail` is the table in the order of ids; a row also counts how often it was
handed to the SMTP server and how often taken. `sender` is the mail process: the rows
left of its pass, the row handed over and not saved, and the outcome.

*Actions.* `PostMail` is a process that adds a mail, such as the event process. `BeginPass` is the query of
`MailProcess.loop`, `DeliverMail` and `SaveMail` are the two halves of `send_mail`,
`DeleteMails` the deletion after a week (time is left out: any of the rows that were
sent may be old enough). `KillSender` may come between any two.

### Events

*State.* `value` and `recent` are what the last hour of recorded data shows of each
variable. `open` counts the records with `active = True`, `last_level`, `active` and
`inside` are columns of group, complex event and item. `worker` is the memory of
`do_event_check`: whose turn it is, the first valid complex event, and the changes it has
yet to save, one by one (`jobs`). `changes` and `edge` are history.

*Actions.* `Change`, `Stay` and `Raise` are `Event.do_event_check` (a record is opened or
closed, nothing changes, or the check ends with an exception). `CheckItem` and
`EndItems` are `ComplexEventGroup.do_event_check`; `SaveLevel`, `SaveRecord`, `HandOver` and
`SetValue` are its saves in the order of the code. `Kill` and `KillMails` may come between
any two; the process starts again with the first event.

*Abstractions.* Variable limits of complex event items and variable properties are
left out, as are the texts of mails. `DefaultAssumption` leaves out settings that end
every check with an exception.

### Export

*State.* `offset` is how far the local clock is behind UTC, `task` the table of export tasks,
`wait` the passes until the start of each, `bp` the rows of their background processes, `proc` the point each process is at with
its copy of the task, `master` the point the master is at with its copies.

*Actions.* `Look`, `Check`, `EndCheck`, `AddProcess` and `Claim` are `MasterProcess.loop`;
`Spawn`, `Terminate`, `Drop` and `Sweep` the scheduler; `Register`, `ReadTask`, `MarkBusy`,
`WriteFile`, `MarkDone` and `Close` `ExportProcess` with `export_recordeddata_to_file`. A row
is read in one step and written back, all columns, in a later one. `Drop` and `Sweep` are the
two ways the scheduler forgets a process that is not there: the walk over the rows meets a
row that is done, finds no process and pops the entry, with the pid left in the row
(scheduler.py:423-436 and 561-570); the sweep behind it resets the pid of the rows that were
not done when they were read. `Die` and `KillMaster` are failures: the model leaves out a
power loss that stops scheduler and processes together.

*Abstractions.* Time is counted in passes of the master. `ExportTask.start` reads a UTC
time as local time (export/models.py:78-79), so `Older` compares with a start that is off by
`offset`, from the zones east of UTC to those west of it. The age of a row passes only while
its pid is 0, where alone it is looked at. What is written to a file and
its format are left out; a task that finds no data is a free choice.

### HmiClient

*State.* The globals of the script keep their names. `rows` is what the server has
recorded, each sample with the time it was taken and the time it was saved. `net` holds
the requests in flight, each with its answer once the server has made one. `KEYS` counts
how often a variable was asked for, `loaded` is history.

*Actions.* `AskTime`, `Poll`, `FetchStatus`, `StatusDone`, `FetchChart` and `ChartDone` are
the branches of `data_handler`; `Answer` is `get_cache_data` with `db_data`; `Done` and `Fail`
are the handlers of an answer, and of an error or a timeout. They may come in any
order. The user's actions are the switch, two hours more, and the picker of dates with
its events; `Record` and `Tick` are the server's.

*Abstractions.* A sample is its time. Seconds and milliseconds are one unit. The
timeline slider stays at its default; drawing, widgets and forms are left out.

*Refinement.* `HmiView` knows two things only, the samples recorded and those shown:
what is shown has been recorded, a chart forgets nothing, and of any other variable at
most one sample is shown. `View` maps `rows` and `DATA` to them; `ViewSpec` is checked by
`hmi_flow` and proved. `Events` implements `Mails` the same way, with the identity as its
mapping (`EventsImplementMails`).

## Runs

| Run | Question | Answer |
|---|---|---|
| `supervision_devices` | Do devices keep exactly one poller, whatever happens to DAQ processes? | `OneDaqPerDevice`, `NoOrphanDaq`, `RespawnOnlyDead`, `DisabledStops` hold |
| `supervision_all` | Does one scheduler keep exact books over its children, and does a device come back, whatever the environment does? | `TypeOK`, `Tracked`, `OneProcessPerRow`, `NoSurvivors`, `StopCompletes`, `DevicesServed` hold |
| `supervision_multi` | Are port groups served again, though their worker waits for nobody, and its restart stops them one by one and skips some? | `DevicesServed` holds |
| `supervision_masters` | One poller per device also when workers restart? | no: finding |
| `supervision_respawn` | Respawn only of dead processes also after a crash of the scheduler? | no: finding |
| `tasks_single` | Are writes executed once, in order, in time, and all tasks finished? | `TypeOK`, `WrittenOnce`, `DoneNotLost`, `OldestFirst`, `TableSpec`, `ReadFresh`, `TasksFinish` hold |
| `tasks_multi` | With two devices in one process, is each read answered by its own device? | `OwnDevice`, `TasksFinish` hold |
| `tasks_property` | Are writes to variable properties executed? | no: finding |
| `events_all` | Do records, levels and mails follow the values, whoever is killed when? | `TypeOK`, `OneOpenRecord`, `EveryChangeMailed`, `GroupFollowsFirst`, `DeliveredOnce`, `NoFlapping`, `Recognised`, `MailsEnd` hold |
| `events_limit` | Is a value beyond a variable limit recorded? | no: finding |
| `export_all` | Is each task exported once and none blocked, whatever is overwritten or dies? | `TypeOK`, `ExportedOnce`, `Served` hold; `Served` excepts one state in which exports stop for good (`Stuck`) |
| `hmi_flow` | Does the page show what is recorded, in order, and load all of it, whatever order answers come in? | `TypeOK`, `PendingIsInFlight`, `BoundedInFlight`, `SortedCharts`, `EverythingLoaded`, `AnswersTaken`, `StatusNeverOlder`, `ViewSpec`, `InitEnds` hold |

*Bounds.* `MaxEvents` is the number of environment events in a behaviour: two
put an event at every point of the recovery from another one. Races that need three
events are not covered by the runs, but the proved invariants hold for any number. `MaxPid` and `MaxRow` bound forks and inserted rows so
that state is finite; they are chosen above what the events of the run can cause
(the runs do not reach them: raising them leaves the number of states as it is).
`MaxFailed` is 3 in the code and in `supervision_devices` and `supervision_multi`, more than
their events can use up. `supervision_all` uses 1, so that two deaths use up the budget. That does
not weaken `DevicesServed`: a device is given up only if its budget is used up *and* the row of
its last respawn is missing, so a device whose one respawn is in the table must be polled again.
The runs have 85,837 (`supervision_devices`), 306,208 (`supervision_all`) and 659,431
(`supervision_multi`) states. In `DeviceTasks` the
clock has two instants (before and after), there are two writes and one read so
that one can overtake another while a read is being answered, and one crash;
`MaxRespawn` is 3, as in the code, in the single-device runs and 1 in the
multi-device run, whose property task uses up every respawn.

`events_all` has two values to be recorded, one kill of either process, two mails
refused and two attempts (the code has three; with two a mail is given up as well), an
event of which changes are mailed, one with a variable limit and a group of two complex
events, one ending the record of the other, that sets a variable. That is enough for a
group to go to a level, to the other and back to its default, and for a kill
between any two saves (348,299 states). `export_all` has two tasks, so that one waits for
the other, one death or kill and an hour of two passes, so that a row can be as old, and a clock that is
an hour ahead of UTC, at it or an hour behind (1,596,454 states). `hmi_flow` has a status and a chart variable and
batches of one, so that two requests of the initialisation and answers to older ones
are in flight together; two samples from before the page was loaded, one failure, which
already toggles the switch (`ErrorLimit` 0), and two actions of the user, enough for a range
and two hours more, or for a range picked and left (118,374 states).

*Why `DisabledStops` and `OneDaqPerDevice` are checked without worker restarts.*
With them they fail: that is the finding of `supervision_masters`. The environment
of `supervision_devices` therefore never starts a worker a second time.

*Fairness.* Weak fairness of the scheduler's step and of each process's step: they
are loops which the operating system keeps running and whose every wait is
bounded. No event of the environment is fair. In `DeviceTasks` the process (with
its respawn, which worker and scheduler see to) and the clock are weakly fair;
nobody has to create a task. In `Events` both processes, in `Export` time, the master, the
scheduler and each export process, in `HmiClient` the timer of the client and the end of
each request are weakly fair: they are loops or have a timeout. Nobody has to record a
value, create a task, touch the page or be killed. Deadlock checking is off: with a stopped scheduler and
no events left, no task left to create, or auto update switched off, the systems may
stop.

## Findings

1. `supervision_masters`: a worker that is restarted while a row's process has been
   forked but has not registered finds pid 0 in the row. It waits out its timeout,
   `pre_init_process` meanwhile clears `done`, the row is deleted under the living
   process and a new one is inserted: two processes poll the device, and one has no
   row through which it could be found.
2. `supervision_respawn`: after a crash of the scheduler `start()` deletes the rows of
   living DAQ processes and does not signal their workers, which take the missing
   rows for dead processes.
3. `tasks_property`: a write task addressed to a variable property ends the DAQ process
   at every attempt, until the worker gives the device up.
4. `events_limit`: an event with a variable limit, which the help text of the field offers
   (models.py:2598), ends the event process at every check: `do_event_check` calls `last()` on
   a single row (models.py:2682). Later events and all groups are never checked.

Observations made while modelling, which no run states as a violation:

- Export: the comment in `export/worker.py:180` means to wait for a process that has been
  updated lately; the test in line 179 skips those that have *not* been for an hour, so that
  `HasFailed` looks only at the others.
- Export: an export process killed between `tp.done = True` (export.py:306) and the save of its
  task (worker.py:73) stops all exports for good. Nobody starts it again, since its row is
  done, `Drop` leaves its pid, and the master tests for pid 0 only, where the comment says 'if the job has no
  valid pid mark as failed' (worker.py:184); the task stays busy, and while one is no other is
  started. `Stuck` is this state, the one that `Served` and the theorem `LockOwnedOrStuck` except. A
  power loss has the same effect at any point of an export.
- Export: `TIME_ZONE` is left to the installation. East of UTC the check of a task comes too
  early: the master may label it failed before its process has registered, and a second
  export then runs beside it. West of UTC it comes hours late, and after an hour line 179
  skips the row, pid 0 or not.
- Export: a task without data is done without a file. The deletion of old tasks compares
  with a time 60 days ahead and never deletes one.
- Events: action 3 makes a write task and never saves it. A default value of 0 counts as
  none. A custom validation is never valid. Limit type 4 has no hysteresis. A kill
  between the save of the level and that of the record loses the record.
- Client: any answer, that of an initial request too, sets `LAST_QUERY_TIME`, to 0 if it has
  no rows. A poll leaves out samples saved after the cursor but taken before it.
  A failure takes back the variables of the last request, which need not be the one that
  failed. At the limit of errors the switch is toggled, not turned off.
- Client, merge of answers (`Dropped` of `HmiStore` names what gets lost, see `MergeLoses`):
  the branches that prepend a part of an overlapping answer take `slice(0,start_id)` or
  `slice(0,stop_id)`, which leave out the element found, and that is the last one before the
  oldest sample held if the answer does not have this one itself: a chart that shows 3 and
  gets 2, 4 does not show 2. An answer that begins with the same sample as those held but goes further
  matches no branch and is ignored as a whole. Both are reached in `hmi_flow` once a range has
  been picked, and the sample stays lost until it is in another answer.

## Proofs

The theorems hold for every value of the constants that the named assumptions of the
modules allow: any number of workers, devices, tasks, mails, events, groups, samples,
variables, requests, crashes.

`SupervisionProofs`. `Tracked`, `OneProcessPerRow` and `NoSurvivors` are conjuncts or
consequences of the inductive invariant `IInv == TypeOK /\ CreateOK /\ Accounted`.
`Accounted` joins `Tracked` with `JobOK` (every process that was ever forked has a row,
so that `KillProcesses`, which ranges over `PROCESSES`, reaches it) and `NoSurvivors`.
`OneProcessPerRow` then follows: two live children of one row would both be its only
entry in `PROCESSES`.
`CreateOK` keeps the index a worker inserts rows with inside the range of its devices,
which `TypeOK` needs. Most actions only let processes fade (a process may change
state or lose its parent, but nobody becomes a child and nothing is popped), and
for these one lemma does the work; `SchedSpawn`, `KillProcesses` and the sweep are
treated alone. The theorems are `TypeCorrect`, `ChildrenTracked`, `OneChildPerRow` and
`StopLeavesNone`.

`DeviceProofs`. `OneDaqPerDevice`, `NoOrphanDaq` and `RespawnOnlyDead` fail when workers are
started a second time (see the findings), so the theorems `OnePollerPerDevice`,
`PollersHaveRows` and `RespawnsReplaceTheDead` assume `Allowed \subseteq DeviceEvents`, as the run
does. `DeviceInv` has five parts: `ProcessInv` (pids in `PROCESSES` and in the table are what they
say), `SchedInv` (a worker is stopped only if disabled), `WorkerInv` (a worker is untouched
unless it leaves for good, so a row of a worker has had one process at most), `RowInv` (a
device has one row, and a live poller has its row), `MemInv` (a worker remembers its rows, and
has none before it creates them). Respawn keeps `RowInv` because the worker looks for the row
it remembers, `SchedSpawn` keeps `WorkerInv` because a worker to be started without an entry
in `PROCESSES` has never run. Most other steps only weaken (`Weakening`): nothing comes to life
and no row is inserted.

`DeviceTasksProofs`. `WrittenOnce` needs to know where an executed write can be: it is
finished, or it is the one asked for and about to be saved, or the process has crashed
since (`OnceInv`). The action properties rest on `OrderInv`: every task of the query's
result is due, and a pending, due write of the device at hand that is not in the
result was inserted after the query, so that it is in `late`. `OwnDevice` needs only that a
single-device process has one device, `DoneNotLost` is inductive with the types. The
theorems are `TypeCorrect`, `ExecutedOnce`, `ExecutedInOrder`, `ExecutedInTime`, `ReadInTime`,
`ReadByItsDevice` and `DoneKept`.
`ProcessImplementsTable` is the refinement: every step of process, views and clock is one of
`TaskTable` or leaves its state alone. A copy of a row that is saved later cannot reopen a
task, because from the query on the task is pending until its own save, and `OnceInv` and
`OrderInv` say so. `FinishedStays` and `FinishedWasExecuted` then follow from the steps of
`TaskTable` alone. `ExecutedInTime` states `NotEarly`, which `TableSpec` contains.
Liveness is out of reach, but two of its ingredients are not. `ProcessNeverStuck`: at
every point the guard of the next step holds (`Ready`, the guards written out, since the prover
cannot reason about ENABLED), or the device has been given up. `PassesEnd`: each step of a
pass goes `Further`, in the product of the order of the phases, the inclusion of the devices
left, the stages of a device and the inclusion of the tasks left, which are finite; so
tasks inserted during a pass cannot keep it from ending. `PassInv` adds that the control state
goes with the memory and that only finitely many tasks exist.

`MailsProofs`. `RowInv` counts for each row: attempts are failures saved, one if the row is
done, one if it is handed over and not saved, and one for each kill. From it
`MailTypeCorrect` and `MailsDeliveredOnce`.

`EventsProofs`. Each step of `Events` is one of `Mails` or leaves its variables alone
(`EventsImplementMails`), so `DeliveredOnce` carries over without a second proof
(`EventMailsDeliveredOnce`). `EventIInv` adds to the types that the worker's jobs are
about existing events and groups, and `EdgeInv`: the value an event last changed at
was beyond its limit, as seen from the other side of the hysteresis, exactly if the event
is open. `HysteresisHolds` is that fact before and after a change. The others are
`EventsTypeCorrect` and `OneOpenRecordAlways`. Two theorems have an assumption on the
settings besides `DefaultAssumption`:
- `GroupsFollow` proves `GroupFollowsFirst` under `LevelsDiffer`: no two complex events of a
  group have the same level, and none has -1, the level of no event (the code tells them
  apart by it). `FollowInv` follows a pass. While a group is checked (`Midway`), either no
  complex event before `worker.item` was valid, or one was and its jobs are what is still to
  be saved. When the check is over (`Following`, `Returning`), level and record are those of
  the first valid one, but for a return to no event that is still to be saved.
- `ChangesMailed` proves `EveryChangeMailed` under `MailSettings`: an action is one of the
  four there are, and no recipient is named twice. `BalanceInv` is the account of each
  change and recipient: what is owed, less the kills, is at most what is posted and due,
  which is at most what is owed. `JobsInv` says why a mail is due once: a level is saved
  before the mails about it are handed over, and no mail is twice among the jobs.

`HmiStoreProofs`. `MergeKeeps`: for every two sorted series, of any length and with times
that occur twice, the merge is sorted, keeps every sample held and invents none. It
follows from what the searches return (`FindLte`, `FindGte`), the three parts being in order.
`MergeLoses`: a sample of the answer that is not in the merge is `Dropped`, one of three kinds.

`HmiClientProofs`. `IInv` has five parts. `ServerInv`: samples of a variable are in order of
time. `NetInv`: requests have distinct names, the counter is their number, and how many are
polls or loads (a load is sent only with at most one request in flight, a poll only with
none). `AnswersInv`: the series of each answer in flight is sorted and was recorded, which
is why it may be merged at any later time. `DataInv`: the same of the samples held. `ClientInv`:
the types of the rest. `LoadInv` says that until a request fails the counts of the variables
tell what has been asked for, that this is loaded or in flight, and that the flags of the
initialisation follow the counts; from it `AllLoaded`. `StatusInv` holds until a request
fails, too: a status variable is in one request at a time (its initial one, which is
counted, or a poll, sent when the initial ones are over), which reaches up to now, and
what is answered is not older than what is shown, because such an answer brings the last
row there was (`NewestAnswered`, from the order in which rows are saved, `SavedInOrder`);
from it `NeverOlder`. The other theorems are `TypeCorrect`, `PendingExact`,
`FewInFlight`, `ChartsSorted`, `NothingForgotten` (contained in `ViewSpec`) and
`ClientImplementsView`.
`NothingOverlooked` carries `MergeLoses` over to the client: whatever was loaded and picked
before, a sample of an answer that is handled is in the chart or was `Dropped`. It needs that a
request has one answer at most, which is handled once (`OneAnswer`). `PageNeverHangs`: with
nothing in flight the counter is 0 and the guard of some branch of `data_handler` holds, those
guards being written out again; that a branch of the initialisation has a batch to ask for
is `BatchExists`.

`ExportProofs`. `IInv` is the types with those of the copies of rows the processes hold
(`Shape`), `DoneInv` (done in a table or in a copy means exported, so that writing a copy
back never lies), `RowsInv` (a process works for a row that is not done) and `CountInv`,
which bounds the exports: a row is given to a task once, and once more for each kill
of the master, because a task that has been claimed never becomes fresh again; and each
row yields one export, and one more for each death. The theorems are `TypeCorrect` and
`ExportsCounted`.
`LockOwnedOrStuck` is about the label busy, a lock on all exports: `LockOwned` lists who
can take it away, and leaves one state in which nobody can, the `Stuck` that `Served` excepts:
a process has died after the label done of its row and before that of its task. `LockInv` is
inductive together with `IInv`. For the row a busy task names, `LockOf` says that it is a row of
this task, whose process has not passed `MarkDone`. If that process is not there and the row is
done (`Ended`), somebody has died, and (`Fate`) the row has kept its pid, or the clock is behind UTC, or
the pid was reset in this pass or the one before, and in the latter case the master has a copy
that names this row, or will make one (`GivenUp`). So unless the clock is behind the check never finds a row
without a pid that is an hour old, which line 179 of `export/worker.py` would skip. `Registered`
says where a pid is left behind: a process that has written its file has entered it. `CopyInv`,
`Unclaimed` and `Started` are what that needs about the copies the master saves: one that is
claimed names no row, and whatever is busy was due.

Model-checked only: the liveness properties (`DevicesServed`, `DisabledStops`,
`StopCompletes`, `TasksFinish`, `Recognised`, `MailsEnd`, `Served`, `InitEnds`), which are out of the
prover's reach. For three of them the proofs have the safety part: `ProcessNeverStuck` and
`PassesEnd` for `TasksFinish`, `LockOwnedOrStuck` for `Served`, `PageNeverHangs` for `InitEnds`.
The guards written out in `Ready` and `Handles` are transcribed from the actions by hand.

Assumptions about constants that these theorems rest on: a DAQ process is started for at least
one device (`TaskAssumption`), as the workers do; the bound on requests for the time is
positive (`MaxTimeReq`); an hour has more than one pass of the export master, and the local
clock is any whole number of passes away from UTC (`ExportAssumption`).

## Not modelled

- Recording of values and calculated variables: change-of-value thresholds, packed keys,
  ranges, periods of the calendar. Only what `db_data` reads is in `HmiClient`. The code is
  arithmetic on the values of one variable that one process works through in order.
- Device drivers: hardware; their answers are free choices.
- Of the client: drawing (plots, gauges, pies, legends, colours), widgets, control items and
  their forms, the timeline slider, notifications and page layout. No state that the data flow
  depends on is kept there, but for `DATA_DISPLAY_...`, which the slider sets; the model has
  their default. The libraries beside it (`jquery`, `flot`, `bootstrap`, ...), which are by far
  the most lines of JavaScript in the repository, are vendored code.
- Of the server's views: rendering of pages and reading of log and hidden configurations.
- File formats of an export, the names and the contents of files; tasks with an unknown format.
- The pid file and the double fork of `demonize`, SIGHUP and SIGUSR2, and the columns `message`
  and `running_since`: they play no part in `Supervision`; `last_update` only in `Export`. The
  read and the save of a row in the sweep are one step.
- Variable limits and variable properties of complex event items, variable properties as
  values of events, and settings that `DefaultAssumption` excludes.
- How devices of a multi-device worker are grouped by port: a port group is a device there.
- Migrations, the command line, admin pages other than the actions on processes.

## What is left to do

1. Reading and saving of a row in the sweep as two steps, with an administrator's change
   between them; a second scheduler and the pid file.
2. Recording as a module of its own under `HmiClient`: thresholds, packed keys and ranges,
   with calculated variables as operators on it.
3. The timeline slider in `HmiClient`.
