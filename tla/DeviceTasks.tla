----------------------------- MODULE DeviceTasks -----------------------------
(***************************************************************************)
(* Read and write tasks of the devices served by one DAQ process:          *)
(* SingleDeviceDAQProcess and MultiDeviceDAQProcess of                     *)
(* pyscada/utils/scheduler.py, with the task tables of pyscada/models.py   *)
(* and the views of pyscada/hmi/views.py that fill them.                   *)
(*                                                                         *)
(* A web worker stamps a task with its own clock, inserts it and sends a   *)
(* message to a channel that holds one. The DAQ process sleeps on that     *)
(* channel; each pass of loop() queries the write tasks, executes them one *)
(* by one, queries the read tasks and polls the devices. The two sides     *)
(* share the task tables only; the process may die between any two steps.  *)
(* Every device is taken to have a driver object: without one (a missing   *)
(* library) its tasks fail at once or are left alone.                      *)
(* Faulty..., StrictDue and BlindAnswered are mutated forms of the         *)
(* definition below them.                                                  *)
(***************************************************************************)
EXTENDS Naturals, FiniteSets

CONSTANTS
    Task,        \* the tasks that may be created
    Kind,        \* Task -> "write", "property" (a write addressed to a variable
                 \* property), "read" (of a device) or "varread" (of a variable)
    Device,      \* the devices of the process
    DeviceOf,    \* Task -> Device
    Multi,       \* a MultiDeviceDAQProcess?
    MaxRespawn,  \* how often the worker starts the process again
    MaxClock,    \* bound: last instant of the clock
    MaxCrash     \* bound: crashes not caused by a task

ASSUME TaskAssumption ==
    /\ Kind \in [Task -> {"write", "property", "read", "varread"}]
    /\ IsFiniteSet(Device) /\ Device # {} /\ DeviceOf \in [Task -> Device]
    /\ Multi \in BOOLEAN /\ (~Multi => Cardinality(Device) = 1)
    /\ MaxRespawn \in Nat /\ MaxClock \in Nat /\ MaxCrash \in Nat

VARIABLES
    clock,     \* time()
    task,      \* the two task tables: [st, start]; "stamped" is not yet inserted
    channel,   \* the message waiting in the channel, or "none"
    loop,      \* memory of the process: see Idle
    respawns, crashes,
    data,      \* finished tasks whose values loop() has not handed over yet
    recorded,  \* tasks whose values have been stored
    calls,     \* history: calls of write_data for each task
    late       \* history: tasks inserted since the last query of write tasks

vars == <<clock, task, channel, loop, respawns, crashes, data, recorded, calls, late>>

Writes == {t \in Task : Kind[t] \in {"write", "property"}}
Reads  == Task \ Writes
IsPending(t)  == task[t].st = "pending"
IsFinished(t) == task[t].st \in {"done", "failed"}

\* pc: what the process does; todo: devices this phase has still to serve; dev: the
\* device at hand; received: the flags dwt_received ("write") and drt_received
\* ("read"); dwts: write tasks the query returned and that are still to do;
\* limit, found: start__lte of the read query, and whether it found a task;
\* asked: the task write_data is called for; ok: it returned a list with a value;
\* began: last_query of this pass, 0 between passes.
Idle == [pc |-> "writes", todo |-> Device, dev |-> {}, received |-> {}, dwts |-> {},
         limit |-> 0, found |-> FALSE, asked |-> {}, ok |-> FALSE, began |-> 0]

Init ==
    /\ clock = 0
    /\ task = [t \in Task |-> [st |-> "none", start |-> 0]]
    /\ channel = "none" /\ loop = Idle
    /\ respawns = 0 /\ crashes = 0
    /\ data = {} /\ recorded = {}
    /\ calls = [t \in Task |-> 0] /\ late = {}
----------------------------------------------------------------------------
(* The web workers.                                                        *)

Tick ==
    /\ clock < MaxClock /\ clock' = clock + 1
    /\ UNCHANGED <<task, channel, loop, respawns, crashes, data, recorded, calls, late>>

\* start=time() in the views, or a later instant entered in the admin.
Stamp(t, s) ==
    /\ task[t].st = "none" /\ s >= clock
    /\ task' = [task EXCEPT ![t] = [st |-> "stamped", start |-> s]]
    /\ UNCHANGED <<clock, channel, loop, respawns, crashes, data, recorded, calls, late>>

\* create_and_notificate: bulk_create, then a message, which is lost when the
\* channel is full or the channel layer cannot be reached. The admin sends none.
Create(t) ==
    /\ task[t].st = "stamped"
    /\ task' = [task EXCEPT ![t].st = "pending"]
    /\ late' = late \cup {t}
    /\ \/ channel = "none" /\ channel' = IF t \in Writes THEN "write" ELSE "read"
       \/ UNCHANGED channel
    /\ UNCHANGED <<clock, loop, respawns, crashes, data, recorded, calls>>
----------------------------------------------------------------------------
(* The process: waiting_action_receiver, then a pass of loop().            *)

FaultyWake ==
    /\ loop.pc = "wait"
    /\ \E got \in {channel, "none"} :
          /\ channel' = IF got = "none" THEN channel ELSE "none"
          /\ loop' = [loop EXCEPT !.pc = "writes", !.todo = Device, !.received = @ \cup {got}]
    /\ UNCHANGED <<clock, task, respawns, crashes, data, recorded, calls, late>>

\* wait_for(channel.receive) ends with a message or with the timeout.
Wake ==
    /\ loop.pc = "wait"
    /\ \E got \in {channel, "none"} :
          /\ channel' = IF got = "none" THEN channel ELSE "none"
          /\ loop' = [loop EXCEPT !.pc = "writes", !.todo = Device,
                                  !.received = @ \cup ({got} \ {"none"})]
    /\ UNCHANGED <<clock, task, respawns, crashes, data, recorded, calls, late>>

FaultyDue(t) == TRUE
StrictDue(t) == task[t].start < clock
Due(t) == task[t].start <= clock

WriteTasks(d) == {t \in Writes : DeviceOf[t] = d /\ IsPending(t) /\ Due(t)}

\* The query of the write tasks of the next device. After a message that finds
\* nothing the process sleeps 0.5 s and asks once more.
QueryWrites(d) ==
    /\ loop.pc = "writes" /\ d \in loop.todo
    /\ loop' = [loop EXCEPT
          !.pc = IF WriteTasks(d) = {} /\ "write" \in loop.received THEN "rewrites" ELSE "write",
          !.todo = @ \ {d}, !.dev = {d}, !.dwts = WriteTasks(d)]
    /\ late' = {}
    /\ UNCHANGED <<clock, task, channel, respawns, crashes, data, recorded, calls>>

RequeryWrites ==
    /\ loop.pc = "rewrites"
    /\ loop' = [loop EXCEPT !.pc = "write", !.dwts = UNION {WriteTasks(d) : d \in loop.dev}]
    /\ late' = {}
    /\ UNCHANGED <<clock, task, channel, respawns, crashes, data, recorded, calls>>

FaultyOldest(t) == t \in loop.dwts
Oldest(t) == t \in loop.dwts /\ \A u \in loop.dwts : task[t].start <= task[u].start

\* write_data of the oldest task: a list with a value, an empty list, or something
\* else (False, None, and True from the Modbus driver).
Write(t) ==
    /\ loop.pc = "write" /\ Oldest(t) /\ Kind[t] = "write"
    /\ \E ok \in BOOLEAN :
          loop' = [loop EXCEPT !.pc = "save", !.asked = {t}, !.ok = ok, !.dwts = @ \ {t}]
    /\ calls' = [calls EXCEPT ![t] = @ + 1]
    /\ UNCHANGED <<clock, task, channel, respawns, crashes, data, recorded, late>>

FaultySaveWrite(t) ==
    /\ loop.pc = "save" /\ loop.asked = {t}
    /\ task' = IF loop.ok THEN [task EXCEPT ![t].st = "done"] ELSE task
    /\ data' = IF loop.ok THEN data \cup {t} ELSE data
    /\ loop' = [loop EXCEPT !.pc = "write", !.asked = {}, !.ok = FALSE]
    /\ UNCHANGED <<clock, channel, respawns, crashes, recorded, calls, late>>

SaveWrite(t) ==
    /\ loop.pc = "save" /\ loop.asked = {t}
    /\ task' = [task EXCEPT ![t].st = IF loop.ok THEN "done" ELSE "failed"]
    /\ data' = IF loop.ok THEN data \cup {t} ELSE data
    /\ loop' = [loop EXCEPT !.pc = "write", !.asked = {}, !.ok = FALSE]
    /\ UNCHANGED <<clock, channel, respawns, crashes, recorded, calls, late>>

\* The next device, or the read phase.
WritesOver ==
    /\ loop.pc = "write" /\ loop.dwts = {}
    /\ loop' = [loop EXCEPT !.pc = IF loop.todo = {} THEN "reads" ELSE "writes",
                            !.received = IF loop.todo = {} THEN @ \ {"write"} ELSE @]
    /\ UNCHANGED <<clock, task, channel, respawns, crashes, data, recorded, calls, late>>

\* The query set drts is kept, not its result: each use but the first asks again,
\* with the instant of its creation.
ReadTasks(limit) == {t \in Reads : IsPending(t) /\ task[t].start <= limit}

QueryReads ==
    /\ loop.pc \in {"reads", "rereads"}
    /\ LET found == ReadTasks(clock) # {}
           again == ~found /\ "read" \in loop.received /\ loop.pc = "reads" IN
       loop' = [loop EXCEPT !.pc = IF again THEN "rereads" ELSE "query", !.limit = clock,
                            !.found = found, !.received = IF again THEN @ ELSE @ \ {"read"}]
    /\ UNCHANGED <<clock, task, channel, respawns, crashes, data, recorded, calls, late>>

\* Polling starts when a task asks for it or dt_query_data is over.
Request ==
    /\ loop.pc = "query"
    /\ loop' = [loop EXCEPT !.pc = "request", !.todo = Device, !.began = clock]
    /\ UNCHANGED <<clock, task, channel, respawns, crashes, data, recorded, calls, late>>

NotDue ==
    /\ loop.pc = "query" /\ ~loop.found
    /\ loop' = [loop EXCEPT !.pc = "record"]
    /\ UNCHANGED <<clock, task, channel, respawns, crashes, data, recorded, calls, late>>

FaultyAnswered(d) == {t \in Reads : IsPending(t) /\ Due(t)}
BlindAnswered(d) == ReadTasks(loop.limit)
\* drts.update(), or drts.filter(device_id=...).update() with several devices.
Answered(d) == {t \in ReadTasks(loop.limit) : Multi => Kind[t] = "read" /\ DeviceOf[t] = d}

FaultyPoll(d) ==
    /\ loop.pc = "request" /\ d \in loop.todo
    /\ \E st \in {"done", "pending"} :
          /\ task' = [t \in Task |-> IF t \in Answered(d) THEN [task[t] EXCEPT !.st = st]
                                    ELSE task[t]]
          /\ data' = IF st = "done" THEN data \cup Answered(d) ELSE data
    /\ loop' = [loop EXCEPT !.todo = @ \ {d}, !.pc = IF loop.todo = {d} THEN "record" ELSE @]
    /\ UNCHANGED <<clock, channel, respawns, crashes, recorded, calls, late>>

\* request_data of one device has returned.
Poll(d) ==
    /\ loop.pc = "request" /\ d \in loop.todo
    /\ \E st \in {"done", "failed"} :
          /\ task' = [t \in Task |-> IF t \in Answered(d) THEN [task[t] EXCEPT !.st = st]
                                    ELSE task[t]]
          /\ data' = IF st = "done" THEN data \cup Answered(d) ELSE data
    /\ loop' = [loop EXCEPT !.todo = @ \ {d}, !.pc = IF loop.todo = {d} THEN "record" ELSE @]
    /\ UNCHANGED <<clock, channel, respawns, crashes, recorded, calls, late>>

FaultyRecord ==
    /\ loop.pc = "record" /\ data' = {}
    /\ loop' = [loop EXCEPT !.pc = "wait", !.dev = {}, !.limit = 0, !.found = FALSE, !.began = 0]
    /\ UNCHANGED <<clock, task, channel, respawns, crashes, recorded, calls, late>>

\* run() stores what loop() returned.
Record ==
    /\ loop.pc = "record" /\ recorded' = recorded \cup data /\ data' = {}
    /\ loop' = [loop EXCEPT !.pc = "wait", !.dev = {}, !.limit = 0, !.found = FALSE, !.began = 0]
    /\ UNCHANGED <<clock, task, channel, respawns, crashes, calls, late>>
----------------------------------------------------------------------------
(* The process ends and is started again.                                  *)

Down == loop' = [Idle EXCEPT !.pc = "down"] /\ data' = {}

\* task.variable is None in a task addressed to a variable property: the
\* AttributeError leaves loop() and ends the process.
PropertyTask(t) ==
    /\ loop.pc = "write" /\ Oldest(t) /\ Kind[t] = "property" /\ Down
    /\ UNCHANGED <<clock, task, channel, respawns, crashes, recorded, calls, late>>

\* The process is killed, or a driver raises, at any other point.
Crash ==
    /\ loop.pc # "down" /\ crashes < MaxCrash /\ crashes' = crashes + 1 /\ Down
    /\ UNCHANGED <<clock, task, channel, respawns, recorded, calls, late>>

Respawn ==
    /\ loop.pc = "down" /\ respawns < MaxRespawn /\ respawns' = respawns + 1
    /\ loop' = Idle
    /\ UNCHANGED <<clock, task, channel, crashes, data, recorded, calls, late>>
----------------------------------------------------------------------------
ProcessStep ==
    \/ Wake \/ RequeryWrites \/ WritesOver \/ QueryReads \/ Request \/ NotDue \/ Record
    \/ Respawn
    \/ \E d \in Device : QueryWrites(d) \/ Poll(d)
    \/ \E t \in Writes : Write(t) \/ SaveWrite(t) \/ PropertyTask(t)

Next ==
    \/ ProcessStep \/ Tick \/ Crash
    \/ \E t \in Task : Create(t) \/ \E s \in 0..MaxClock : Stamp(t, s)

Spec == Init /\ [][Next]_vars

\* The process keeps running and the clock goes on; nobody has to create a task.
FairSpec == Spec /\ WF_vars(ProcessStep) /\ WF_vars(Tick)
----------------------------------------------------------------------------
TypeOK ==
    /\ clock \in 0..MaxClock
    /\ task \in [Task -> [st : {"none", "stamped", "pending", "done", "failed"},
                          start : 0..MaxClock]]
    /\ channel \in {"none", "read", "write"}
    /\ loop \in [pc : {"wait", "writes", "rewrites", "write", "save", "reads", "rereads",
                       "query", "request", "record", "down"},
                 todo : SUBSET Device, dev : SUBSET Device,
                 received : SUBSET {"read", "write"}, dwts : SUBSET Writes,
                 limit : 0..MaxClock, found : BOOLEAN, asked : SUBSET Writes,
                 ok : BOOLEAN, began : 0..MaxClock]
    /\ respawns \in 0..MaxRespawn /\ crashes \in 0..MaxCrash
    /\ data \subseteq Task /\ recorded \subseteq Task
    /\ calls \in [Task -> Nat] /\ late \subseteq Task

\* "Do all the write task for this device starting with the oldest": when a task is
\* executed, the older ones of its device are finished, except those inserted, by a
\* slower web worker, after the query.
OldestFirst ==
    [][\A t \in Writes : calls'[t] # calls[t] =>
          \A u \in Writes : /\ DeviceOf[u] = DeviceOf[t] /\ IsPending(u)
                            /\ task[u].start < task[t].start
                            => u \in late]_vars

\* A write is executed a second time only when the process died between write_data and
\* the save of the task.
WrittenOnce == \A t \in Writes : calls[t] <= 1 + crashes

\* No write is executed before its start.
NotEarly == [][\A t \in Writes : calls'[t] # calls[t] => task[t].start <= clock]_vars

\* A read task is marked done only by a poll that began at or after its start,
\* whatever is inserted while the device is being polled.
ReadFresh ==
    [][\A t \in Reads : task[t].st # "done" /\ task'[t].st = "done"
          => task[t].start <= loop.began]_vars

\* A read task is marked only by the poll of its own device, however many devices the
\* process polls in one pass.
OwnDevice ==
    [][\A t \in Reads : task[t].st # "done" /\ task'[t].st = "done"
          => DeviceOf[t] \in loop.todo \ loop'.todo]_vars

\* The values of a task marked done are stored, or still to be, unless the process
\* died: loop() marks the task before run() stores its values.
DoneNotLost ==
    loop.pc # "down" /\ respawns = 0 => \A t \in Task : task[t].st = "done" => t \in data \cup recorded

\* The process with its web workers implements what the task tables promise: see TaskTable.
Table == INSTANCE TaskTable WITH
             st <- [t \in Task |-> task[t].st], start <- [t \in Task |-> task[t].start],
             held <- loop.asked, deaths <- crashes, stored <- recorded
TableSpec == Table!Spec

\* A task in the table is finished sooner or later, across crashes of the process,
\* unless its worker has used up the respawns it grants.
GivenUp == loop.pc = "down" /\ respawns = MaxRespawn
TasksFinish == \A t \in Task : IsPending(t) ~> IsFinished(t) \/ GivenUp

\* "Do all the write task for this device": every write, those addressed to a variable
\* property included, is finished when nothing else disturbs the process.
AllWritesFinish == \A t \in Writes : IsPending(t) ~> IsFinished(t)
=============================================================================
