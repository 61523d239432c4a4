------------------------- MODULE DeviceTasksProofs -------------------------
(***************************************************************************)
(* TLAPS proofs about DeviceTasks, for every set of tasks and devices and  *)
(* every value of the bounds.                                              *)
(***************************************************************************)
EXTENDS DeviceTasks, FiniteSetTheorems, WellFoundedInduction, TLAPS

\* The sets TypeOK takes task and loop from.
TaskRow == [st : {"none", "stamped", "pending", "done", "failed"}, start : 0..MaxClock]
Loop == [pc : {"wait", "writes", "rewrites", "write", "save", "reads", "rereads",
               "query", "request", "record", "down"},
         todo : SUBSET Device, dev : SUBSET Device,
         received : SUBSET {"read", "write"}, dwts : SUBSET Writes,
         limit : 0..MaxClock, found : BOOLEAN, asked : SUBSET Writes,
         ok : BOOLEAN, began : 0..MaxClock]

LEMMA FreshLoop == Idle \in Loop /\ [Idle EXCEPT !.pc = "down"] \in Loop
<1>1. Idle \in Loop
  BY TaskAssumption DEF Idle, Loop
<1> QED
  BY <1>1 DEF Loop

LEMMA InitTypeOK == Init => TypeOK
<1> SUFFICES ASSUME Init PROVE TypeOK
  OBVIOUS
<1>1. loop \in Loop
  BY FreshLoop DEF Init
<1> QED
  BY <1>1, TaskAssumption DEF Init, TypeOK, Loop

LEMMA NextTypeOK ==
    ASSUME TypeOK, [Next]_vars
    PROVE  TypeOK'
<1> USE TaskAssumption
<1>0. /\ clock \in 0..MaxClock /\ task \in [Task -> TaskRow]
      /\ channel \in {"none", "read", "write"} /\ loop \in Loop
      /\ respawns \in 0..MaxRespawn /\ crashes \in 0..MaxCrash
      /\ data \subseteq Task /\ recorded \subseteq Task
      /\ calls \in [Task -> Nat] /\ late \subseteq Task
  BY DEF TypeOK, TaskRow, Loop
<1> DEFINE Goal == /\ clock' \in 0..MaxClock /\ task' \in [Task -> TaskRow]
                   /\ channel' \in {"none", "read", "write"} /\ loop' \in Loop
                   /\ respawns' \in 0..MaxRespawn /\ crashes' \in 0..MaxCrash
                   /\ data' \subseteq Task /\ recorded' \subseteq Task
                   /\ calls' \in [Task -> Nat] /\ late' \subseteq Task
<1> SUFFICES Goal
  BY DEF TypeOK, TaskRow, Loop
<1>1. CASE Tick
  BY <1>0, <1>1 DEF Tick
<1>2. CASE Crash
  BY <1>0, <1>2, FreshLoop DEF Crash, Down
<1>3. ASSUME NEW t \in Task, Create(t) PROVE Goal
  BY <1>0, <1>3 DEF Create, TaskRow
<1>4. ASSUME NEW t \in Task, NEW s \in 0..MaxClock, Stamp(t, s) PROVE Goal
  BY <1>0, <1>4 DEF Stamp, TaskRow
<1>5. CASE Wake
  <2>1. loop' \in Loop
    <3>1. PICK got \in {channel, "none"} :
              loop' = [loop EXCEPT !.pc = "writes", !.todo = Device,
                                   !.received = loop.received \cup ({got} \ {"none"})]
      BY <1>5 DEF Wake
    <3>2. loop.received \cup ({got} \ {"none"}) \in SUBSET {"read", "write"}
      BY <1>0 DEF Loop
    <3> QED
      BY <1>0, <3>1, <3>2 DEF Loop
  <2> QED
    BY <1>0, <1>5, <2>1 DEF Wake
<1>6. CASE RequeryWrites
  <2>1. UNION {WriteTasks(d) : d \in loop.dev} \in SUBSET Writes
    BY DEF WriteTasks
  <2> QED
    BY <1>0, <1>6, <2>1 DEF RequeryWrites, Loop
<1>7. CASE WritesOver
  BY <1>0, <1>7 DEF WritesOver, Loop
<1>8. CASE QueryReads
  <2> DEFINE found == ReadTasks(clock) # {}
             again == ~found /\ "read" \in loop.received /\ loop.pc = "reads"
  <2>1. loop' = [loop EXCEPT !.pc = IF again THEN "rereads" ELSE "query", !.limit = clock,
                             !.found = found,
                             !.received = IF again THEN @ ELSE @ \ {"read"}]
    BY <1>8 DEF QueryReads
  <2>2. found \in BOOLEAN
    OBVIOUS
  <2> HIDE DEF found, again
  <2>3. loop' \in Loop
    BY <1>0, <2>1, <2>2 DEF Loop
  <2> QED
    BY <1>0, <1>8, <2>3 DEF QueryReads
<1>9. CASE Request
  BY <1>0, <1>9 DEF Request, Loop
<1>10. CASE NotDue
  BY <1>0, <1>10 DEF NotDue, Loop
<1>11. CASE Record
  <2>1. loop' \in Loop
    <3>1. loop' = [loop EXCEPT !.pc = "wait", !.dev = {}, !.limit = 0, !.found = FALSE,
                               !.began = 0]
      BY <1>11 DEF Record
    <3>2. 0 \in 0..MaxClock
      OBVIOUS
    <3> QED
      BY <1>0, <3>1, <3>2 DEF Loop
  <2> QED
    BY <1>0, <1>11, <2>1 DEF Record
<1>12. CASE Respawn
  BY <1>0, <1>12, FreshLoop DEF Respawn
<1>13. ASSUME NEW d \in Device, QueryWrites(d) PROVE Goal
  <2>1. WriteTasks(d) \in SUBSET Writes /\ {d} \in SUBSET Device
    BY DEF WriteTasks
  <2> QED
    BY <1>0, <1>13, <2>1 DEF QueryWrites, Loop
<1>14. ASSUME NEW d \in Device, Poll(d) PROVE Goal
  <2>1. task' \in [Task -> TaskRow]
    BY <1>0, <1>14 DEF Poll, TaskRow
  <2>2. data' \subseteq Task
    BY <1>0, <1>14 DEF Poll, Answered, ReadTasks, Reads
  <2>3. loop' \in Loop
    BY <1>0, <1>14 DEF Poll, Loop
  <2> QED
    BY <1>0, <1>14, <2>1, <2>2, <2>3 DEF Poll
<1>15. ASSUME NEW t \in Writes, Write(t) PROVE Goal
  <2>1. calls' \in [Task -> Nat]
    <3>1. calls' = [calls EXCEPT ![t] = calls[t] + 1] /\ calls[t] + 1 \in Nat
      BY <1>0, <1>15 DEF Write, Writes
    <3> QED
      BY <1>0, <3>1
  <2>2. loop' \in Loop
    <3>1. PICK ok \in BOOLEAN :
              loop' = [loop EXCEPT !.pc = "save", !.asked = {t}, !.ok = ok,
                                   !.dwts = loop.dwts \ {t}]
      BY <1>15 DEF Write
    <3> QED
      BY <1>0, <3>1 DEF Loop
  <2> QED
    BY <1>0, <1>15, <2>1, <2>2 DEF Write
<1>16. ASSUME NEW t \in Writes, SaveWrite(t) PROVE Goal
  <2>1. task' \in [Task -> TaskRow]
    BY ZenonT(40), <1>0, <1>16 DEF SaveWrite, TaskRow
  <2>2. loop' \in Loop
    BY <1>0, <1>16 DEF SaveWrite, Loop
  <2>3. data' \subseteq Task
    BY <1>0, <1>16 DEF SaveWrite, Writes
  <2> QED
    BY <1>0, <1>16, <2>1, <2>2, <2>3 DEF SaveWrite
<1>17. ASSUME NEW t \in Writes, PropertyTask(t) PROVE Goal
  BY <1>0, <1>17, FreshLoop DEF PropertyTask, Down
<1>18. CASE UNCHANGED vars
  BY <1>0, <1>18 DEF vars
<1> QED
  BY <1>1, <1>2, <1>3, <1>4, <1>5, <1>6, <1>7, <1>8, <1>9, <1>10, <1>11, <1>12, <1>13,
     <1>14, <1>15, <1>16, <1>17, <1>18 DEF Next, ProcessStep

\* Whatever arrives and whenever the process dies, the tables and the memory of the
\* process keep their shape (SingleDeviceDAQProcess, MultiDeviceDAQProcess).
THEOREM TypeCorrect == Spec => []TypeOK
BY InitTypeOK, NextTypeOK, PTL DEF Spec

----------------------------------------------------------------------------
(* Executed once.                                                          *)

\* A task is executed at most once between two crashes: it is taken from the list
\* when write_data is called, and finished when that call has been dealt with.
OnceInv ==
    /\ loop.pc # "save" => loop.asked = {}
    /\ \A t \in loop.dwts : IsPending(t) /\ t \notin loop.asked
    /\ \A t \in Writes :
          calls[t] <= crashes + (IF IsFinished(t) \/ t \in loop.asked THEN 1 ELSE 0)

LEMMA OnceStep ==
    ASSUME TypeOK, OnceInv, [Next]_vars
    PROVE  OnceInv'
<1> USE TaskAssumption
<1>0. /\ task \in [Task -> TaskRow] /\ loop \in Loop /\ crashes \in Nat
      /\ calls \in [Task -> Nat]
  BY DEF TypeOK, TaskRow, Loop
\* Steps that leave write tasks alone: they stay in the list or leave it.
<1>q. ASSUME UNCHANGED <<crashes, calls>>, loop'.dwts \subseteq loop.dwts,
             loop'.asked = loop.asked, loop'.pc # "save" => loop.pc # "save",
             \A t \in Writes : (IsPending(t) => IsPending(t)') /\ (IsFinished(t)' <=> IsFinished(t))
      PROVE  OnceInv'
  BY <1>0, <1>q DEF OnceInv, Loop
<1>t. UNCHANGED task => \A t \in Writes : (IsPending(t) => IsPending(t)') /\ (IsFinished(t)' <=> IsFinished(t))
  BY DEF IsPending, IsFinished
<1>1. CASE Tick
  BY <1>1, <1>q, <1>t DEF Tick
<1>2. CASE Crash
  <2>1. loop'.dwts = {} /\ loop'.asked = {} /\ UNCHANGED <<task, calls>> /\ crashes' = crashes + 1
    BY <1>2 DEF Crash, Down, Idle
  <2>2. \A t \in Writes : calls[t] <= crashes + 1
    BY <1>0 DEF OnceInv, Writes
  <2> QED
    BY <1>0, <2>1, <2>2 DEF OnceInv, Writes
<1>3. ASSUME NEW t \in Task, Create(t) PROVE OnceInv'
  BY <1>0, <1>3, <1>q DEF Create, IsPending, IsFinished, Writes
<1>4. ASSUME NEW t \in Task, NEW s \in 0..MaxClock, Stamp(t, s) PROVE OnceInv'
  BY <1>0, <1>4, <1>q DEF Stamp, IsPending, IsFinished, Writes
<1>5. CASE Wake
  BY <1>0, <1>5, <1>q, <1>t DEF Wake, Loop
<1>6. CASE RequeryWrites
  <2>1. \A t \in loop'.dwts : IsPending(t)
    BY <1>0, <1>6 DEF RequeryWrites, WriteTasks, Loop
  <2>2. loop'.asked = {} /\ loop.asked = {} /\ UNCHANGED <<task, calls, crashes>>
    BY <1>0, <1>6 DEF RequeryWrites, OnceInv, Loop
  <2> QED
    BY <2>1, <2>2 DEF OnceInv, IsPending, IsFinished
<1>7. CASE WritesOver
  BY <1>0, <1>7, <1>q, <1>t DEF WritesOver, Loop
<1>8. CASE QueryReads
  BY <1>0, <1>8, <1>q, <1>t DEF QueryReads, Loop
<1>9. CASE Request
  BY <1>0, <1>9, <1>q, <1>t DEF Request, Loop
<1>10. CASE NotDue
  BY <1>0, <1>10, <1>q, <1>t DEF NotDue, Loop
<1>11. CASE Record
  BY <1>0, <1>11, <1>q, <1>t DEF Record, Loop
<1>12. CASE Respawn \/ \E t \in Writes : PropertyTask(t)
  <2>1. loop'.dwts = {} /\ loop'.asked = {} /\ loop.asked = {}
        /\ UNCHANGED <<task, calls, crashes>>
    BY <1>12 DEF Respawn, PropertyTask, Down, Idle, OnceInv
  <2> QED
    BY <2>1 DEF OnceInv, IsFinished
<1>13. ASSUME NEW d \in Device, QueryWrites(d) PROVE OnceInv'
  <2>1. \A t \in loop'.dwts : IsPending(t)
    BY <1>0, <1>13 DEF QueryWrites, WriteTasks, Loop
  <2>2. loop'.asked = {} /\ loop.asked = {} /\ UNCHANGED <<task, calls, crashes>>
    BY <1>0, <1>13 DEF QueryWrites, OnceInv, Loop
  <2> QED
    BY <2>1, <2>2 DEF OnceInv, IsPending, IsFinished
<1>14. ASSUME NEW d \in Device, Poll(d) PROVE OnceInv'
  <2>1. \A t \in Writes : task'[t] = task[t]
    BY <1>0, <1>14 DEF Poll, Answered, ReadTasks, Reads, Writes
  <2>2. \A t \in Writes : (IsPending(t) => IsPending(t)') /\ (IsFinished(t)' <=> IsFinished(t))
    BY <2>1 DEF IsPending, IsFinished
  <2>3. /\ UNCHANGED <<crashes, calls>> /\ loop'.dwts = loop.dwts /\ loop'.asked = loop.asked
        /\ loop.pc = "request"
    BY <1>0, <1>14 DEF Poll, Loop
  <2> QED
    BY <1>q, <2>2, <2>3
<1>15. ASSUME NEW t \in Writes, Write(t) PROVE OnceInv'
  <2>1. /\ t \in loop.dwts /\ loop'.dwts = loop.dwts \ {t} /\ loop'.asked = {t}
        /\ loop'.pc = "save" /\ loop.asked = {} /\ UNCHANGED <<task, crashes>>
        /\ calls' = [calls EXCEPT ![t] = calls[t] + 1]
    BY <1>0, <1>15 DEF Write, Oldest, OnceInv, Loop
  <2>2. ~IsFinished(t) /\ calls[t] <= crashes
    BY <1>0, <2>1 DEF OnceInv, IsPending, IsFinished, Writes
  <2>3. \A u \in Writes : calls'[u] <= crashes' + (IF IsFinished(u)' \/ u \in loop'.asked THEN 1 ELSE 0)
    BY <1>0, <2>1, <2>2 DEF OnceInv, IsFinished, Writes
  <2> QED
    BY <2>1, <2>3 DEF OnceInv, IsPending
<1>16. ASSUME NEW t \in Writes, SaveWrite(t) PROVE OnceInv'
  <2>1. /\ loop'.dwts = loop.dwts /\ loop'.asked = {} /\ loop.asked = {t}
        /\ UNCHANGED <<calls, crashes>> /\ t \notin loop.dwts
    BY <1>0, <1>16 DEF SaveWrite, OnceInv, Loop
  <2>2. IsFinished(t)' /\ \A u \in Task : u # t => task'[u] = task[u]
    BY <1>0, <1>16 DEF SaveWrite, IsFinished, TaskRow, Writes
  <2> QED
    BY <1>0, <2>1, <2>2 DEF OnceInv, IsPending, IsFinished, Writes, Loop
<1>17. CASE UNCHANGED vars
  BY <1>17, <1>q, <1>t DEF vars
<1> QED
  BY <1>1, <1>2, <1>3, <1>4, <1>5, <1>6, <1>7, <1>8, <1>9, <1>10, <1>11, <1>12, <1>13,
     <1>14, <1>15, <1>16, <1>17 DEF Next, ProcessStep

\* A write reaches the device once, and once more for every time the process died
\* (loop() of the DAQ processes: the task is saved right after write_data).
THEOREM ExecutedOnce == Spec => []WrittenOnce
<1>1. Init => OnceInv
  BY TaskAssumption DEF Init, OnceInv, Idle, Writes
<1>2. TypeOK /\ OnceInv /\ [Next]_vars => OnceInv'
  BY OnceStep
<1>3. TypeOK /\ OnceInv => WrittenOnce
  BY DEF TypeOK, OnceInv, WrittenOnce, Writes
<1> QED
  BY <1>1, <1>2, <1>3, TypeCorrect, PTL DEF Spec

----------------------------------------------------------------------------
(* Executed in order, and read in time.                                    *)

\* What the list of write tasks and the limit of the read query stand for.
OrderInv ==
    /\ \A t \in loop.dwts, u \in Writes :
          /\ DeviceOf[u] = DeviceOf[t] /\ IsPending(u)
          /\ task[u].start < task[t].start /\ u \notin late
          => u \in loop.dwts \cup loop.asked
    /\ \A t \in loop.dwts : Due(t)
    /\ loop.pc = "query" => loop.limit <= clock
    /\ loop.pc = "request" => loop.limit <= loop.began

LEMMA OrderStep ==
    ASSUME TypeOK, OnceInv, OrderInv, [Next]_vars
    PROVE  OrderInv'
<1> USE TaskAssumption
<1>0. /\ clock \in Nat /\ task \in [Task -> TaskRow] /\ loop \in Loop
      /\ \A t \in Task : task[t].start \in Nat
      /\ loop.limit \in Nat /\ loop.began \in Nat /\ loop.dwts \subseteq Writes
      /\ Writes \subseteq Task
  BY DEF TypeOK, TaskRow, Loop, Writes
<1> DEFINE ReadPart == /\ loop'.pc = "query" => loop'.limit <= clock'
                       /\ loop'.pc = "request" => loop'.limit <= loop'.began
\* Steps after which the write tasks are what they were.
<1>q. ASSUME loop'.dwts = loop.dwts, loop'.asked = loop.asked, late' = late, clock' = clock,
             \A t \in Writes : task'[t] = task[t], ReadPart
      PROVE  OrderInv'
  BY <1>0, <1>q DEF OrderInv, IsPending, Due
\* Steps that empty the list.
<1>e. ASSUME loop'.dwts = {}, ReadPart PROVE OrderInv'
  BY <1>e DEF OrderInv
<1>1. CASE Tick
  BY <1>0, <1>1 DEF Tick, OrderInv, IsPending, Due
<1>2. CASE Crash \/ Respawn \/ \E t \in Writes : PropertyTask(t)
  <2>1. loop'.dwts = {} /\ loop'.pc \notin {"query", "request"}
    BY <1>2 DEF Crash, Respawn, PropertyTask, Down, Idle
  <2> QED
    BY <1>e, <2>1
<1>3. ASSUME NEW t \in Task, Create(t) PROVE OrderInv'
  <2>1. /\ task' = [task EXCEPT ![t].st = "pending"] /\ late' = late \cup {t}
        /\ UNCHANGED <<loop, clock>>
    BY <1>3 DEF Create
  <2>2. \A u \in Task : /\ task'[u].start = task[u].start
                        /\ u # t => (IsPending(u)' <=> IsPending(u))
    BY <1>0, <2>1 DEF TaskRow, IsPending
  <2> QED
    BY <1>0, <2>1, <2>2 DEF OrderInv, Due
<1>4. ASSUME NEW t \in Task, NEW s \in 0..MaxClock, Stamp(t, s) PROVE OrderInv'
  <2>1. /\ task' = [task EXCEPT ![t] = [st |-> "stamped", start |-> s]]
        /\ task[t].st = "none" /\ UNCHANGED <<loop, clock, late>>
    BY <1>4 DEF Stamp
  <2>2. t \notin loop.dwts /\ ~IsPending(t)'
    BY <1>0, <2>1 DEF OnceInv, IsPending, Writes
  <2>3. \A u \in Task : u # t => task'[u] = task[u]
    BY <1>0, <2>1
  <2> QED
    BY <1>0, <2>1, <2>2, <2>3 DEF OrderInv, IsPending, Due
<1>5. CASE Wake
  BY <1>0, <1>5, <1>q DEF Wake, Loop
<1>6. CASE RequeryWrites
  <2>1. /\ loop'.dwts = UNION {WriteTasks(d) : d \in loop.dev} /\ UNCHANGED <<task, clock>>
        /\ loop'.pc = "write"
    BY <1>0, <1>6 DEF RequeryWrites, Loop
  <2>2. \A t \in loop'.dwts, u \in Writes :
          DeviceOf[u] = DeviceOf[t] /\ IsPending(u) /\ task[u].start < task[t].start
          => u \in loop'.dwts
    BY <1>0, <2>1 DEF WriteTasks, Due
  <2> QED
    BY <2>1, <2>2 DEF OrderInv, IsPending, WriteTasks, Due
<1>7. CASE WritesOver
  BY <1>0, <1>7, <1>q DEF WritesOver, Loop
<1>8. CASE QueryReads
  <2>1. loop'.dwts = loop.dwts /\ loop'.asked = loop.asked /\ loop'.limit = clock
        /\ loop'.pc # "request" /\ UNCHANGED <<task, clock, late>>
    BY <1>0, <1>8 DEF QueryReads, Loop
  <2> QED
    BY <1>0, <1>q, <2>1
<1>9. CASE Request
  <2>1. loop'.dwts = loop.dwts /\ loop'.asked = loop.asked /\ loop'.limit = loop.limit
        /\ loop'.began = clock /\ loop'.pc = "request" /\ loop.pc = "query"
        /\ UNCHANGED <<task, clock, late>>
    BY <1>0, <1>9 DEF Request, Loop
  <2> QED
    BY <1>0, <1>q, <2>1 DEF OrderInv
<1>10. CASE NotDue
  BY <1>0, <1>10, <1>q DEF NotDue, Loop
<1>11. CASE Record
  BY <1>0, <1>11, <1>q DEF Record, Loop
<1>13. ASSUME NEW d \in Device, QueryWrites(d) PROVE OrderInv'
  <2>1. /\ loop'.dwts = WriteTasks(d) /\ UNCHANGED <<task, clock>>
        /\ loop'.pc \notin {"query", "request"}
    BY <1>0, <1>13 DEF QueryWrites, Loop
  <2>2. \A t \in loop'.dwts, u \in Writes :
          DeviceOf[u] = DeviceOf[t] /\ IsPending(u) /\ task[u].start < task[t].start
          => u \in loop'.dwts
    BY <1>0, <2>1 DEF WriteTasks, Due
  <2> QED
    BY <2>1, <2>2 DEF OrderInv, IsPending, WriteTasks, Due
<1>14. ASSUME NEW d \in Device, Poll(d) PROVE OrderInv'
  <2>1. \A t \in Writes : task'[t] = task[t]
    BY <1>0, <1>14 DEF Poll, Answered, ReadTasks, Reads, Writes
  <2>2. /\ loop'.dwts = loop.dwts /\ loop'.asked = loop.asked /\ UNCHANGED <<clock, late>>
        /\ loop'.limit = loop.limit /\ loop'.began = loop.began
        /\ loop.pc = "request" /\ loop'.pc # "query"
    BY <1>0, <1>14 DEF Poll, Loop
  <2>3. ReadPart
    BY <2>2 DEF OrderInv
  <2> QED
    BY <1>q, <2>1, <2>2, <2>3
<1>15. ASSUME NEW t \in Writes, Write(t) PROVE OrderInv'
  <2>1. /\ loop'.dwts = loop.dwts \ {t} /\ loop'.asked = {t} /\ loop.asked = {}
        /\ loop'.pc = "save" /\ UNCHANGED <<task, clock, late>>
    BY <1>0, <1>15 DEF Write, OnceInv, Loop
  <2> QED
    BY <2>1 DEF OrderInv, IsPending, Due
<1>16. ASSUME NEW t \in Writes, SaveWrite(t) PROVE OrderInv'
  <2>1. /\ loop'.dwts = loop.dwts /\ loop'.asked = {} /\ loop.asked = {t}
        /\ loop'.pc = "write" /\ UNCHANGED <<clock, late>>
    BY <1>0, <1>16 DEF SaveWrite, Loop
  <2>2. /\ ~IsPending(t)' /\ \A u \in Task : task'[u].start = task[u].start
        /\ \A u \in Task : u # t => task'[u] = task[u]
    BY <1>0, <1>16 DEF SaveWrite, IsPending, TaskRow
  <2> QED
    BY <1>0, <2>1, <2>2 DEF OrderInv, IsPending, Due
<1>17. CASE UNCHANGED vars
  BY <1>17 DEF vars, OrderInv, IsPending, Due
<1> QED
  BY <1>1, <1>2, <1>3, <1>4, <1>5, <1>6, <1>7, <1>8, <1>9, <1>10, <1>11, <1>13,
     <1>14, <1>15, <1>16, <1>17 DEF Next, ProcessStep

\* write_data is called by Write only, and a read task is marked by Poll only.
LEMMA WhoActs ==
    ASSUME TypeOK, [Next]_vars
    PROVE  /\ \A t \in Writes : calls'[t] # calls[t] => Write(t)
           /\ \A t \in Reads : task[t].st # "done" /\ task'[t].st = "done"
                  => \E d \in Device : Poll(d) /\ t \in Answered(d)
<1>0. /\ task \in [Task -> TaskRow] /\ calls \in [Task -> Nat]
      /\ Writes \subseteq Task /\ Reads \subseteq Task /\ Reads \cap Writes = {}
  BY DEF TypeOK, TaskRow, Writes, Reads
<1>1. ASSUME NEW u \in Writes, Write(u) PROVE \A t \in Writes : calls'[t] # calls[t] => t = u
  BY <1>0, <1>1 DEF Write
<1>2. (\A u \in Writes : ~Write(u)) => UNCHANGED calls
  BY DEF Next, vars, ProcessStep, Tick, Stamp, Create, Wake, QueryWrites, RequeryWrites,
     SaveWrite, WritesOver, QueryReads, Request, NotDue, Poll, Record, PropertyTask, Crash,
     Respawn
<1>3. ASSUME NEW d \in Device, Poll(d)
      PROVE  \A t \in Reads : task[t].st # "done" /\ task'[t].st = "done" => t \in Answered(d)
  BY <1>0, <1>3 DEF Poll
<1>4. ASSUME NEW u \in Task, Create(u) \/ \E s \in 0..MaxClock : Stamp(u, s)
      PROVE  \A t \in Reads : task'[t].st = "done" => task[t].st = "done"
  BY <1>0, <1>4 DEF Create, Stamp, TaskRow
<1>5. ASSUME NEW u \in Writes, SaveWrite(u)
      PROVE  \A t \in Reads : task'[t].st = "done" => task[t].st = "done"
  BY <1>0, <1>5 DEF SaveWrite, TaskRow
<1>6. \/ UNCHANGED task
      \/ \E d \in Device : Poll(d)
      \/ \E u \in Task : Create(u) \/ \E s \in 0..MaxClock : Stamp(u, s)
      \/ \E u \in Writes : SaveWrite(u)
  BY DEF Next, vars, ProcessStep, Tick, Wake, QueryWrites, RequeryWrites,
     Write, WritesOver, QueryReads, Request, NotDue, Record, PropertyTask, Crash, Respawn
<1> QED
  BY <1>1, <1>2, <1>3, <1>4, <1>5, <1>6

LEMMA OrderAlways == Spec => [](TypeOK /\ OnceInv /\ OrderInv)
<1>1. Init => OnceInv /\ OrderInv
  BY TaskAssumption DEF Init, OnceInv, OrderInv, Idle, Writes
<1>2. TypeOK /\ OnceInv /\ OrderInv /\ [Next]_vars => OnceInv' /\ OrderInv'
  BY OnceStep, OrderStep
<1> QED
  BY <1>1, <1>2, TypeCorrect, PTL DEF Spec

\* Write tasks of one device are executed oldest first, however the web workers race
\* and wherever the process died before (order_by('start') in loop()).
THEOREM ExecutedInOrder == Spec => OldestFirst
<1> DEFINE A == \A t \in Writes : calls'[t] # calls[t] =>
                  \A u \in Writes : /\ DeviceOf[u] = DeviceOf[t] /\ IsPending(u)
                                    /\ task[u].start < task[t].start
                                    => u \in late
<1>1. TypeOK /\ OnceInv /\ OrderInv /\ [Next]_vars => A
  <2> SUFFICES ASSUME TypeOK, OnceInv, OrderInv, [Next]_vars, NEW t \in Writes, Write(t),
                      NEW u \in Writes, DeviceOf[u] = DeviceOf[t], IsPending(u),
                      task[u].start < task[t].start
               PROVE  u \in late
    BY WhoActs
  <2>1. t \in loop.dwts /\ loop.asked = {} /\ \A v \in loop.dwts : task[t].start <= task[v].start
    BY DEF Write, Oldest, OnceInv
  <2>2. task[u].start \in Nat /\ task[t].start \in Nat
    BY TaskAssumption DEF TypeOK, Writes
  <2> QED
    BY <2>1, <2>2 DEF OrderInv
<1> QED
  BY <1>1, OrderAlways, PTL DEF Spec, OldestFirst

\* No write task is executed before its start (start__lte=time() in loop()).
THEOREM ExecutedInTime == Spec => NotEarly
<1> DEFINE A == \A t \in Writes : calls'[t] # calls[t] => task[t].start <= clock
<1>1. TypeOK /\ OrderInv /\ [Next]_vars => A
  BY WhoActs DEF OrderInv, Write, Oldest, Due
<1> QED
  BY <1>1, OrderAlways, PTL DEF Spec, NotEarly

\* A read task is answered by a poll that began at or after its start, although drts
\* is evaluated again after the poll (loop(): the instant in its filter is fixed).
THEOREM ReadInTime == Spec => ReadFresh
<1> DEFINE A == \A t \in Reads : task[t].st # "done" /\ task'[t].st = "done"
                  => task[t].start <= loop.began
<1>1. TypeOK /\ OrderInv /\ [Next]_vars => A
  <2> SUFFICES ASSUME TypeOK, OrderInv, NEW t \in Reads,
                      NEW d \in Device, Poll(d), t \in Answered(d)
               PROVE  task[t].start <= loop.began
    BY WhoActs
  <2>1. task[t].start <= loop.limit /\ loop.limit <= loop.began
    BY DEF Answered, ReadTasks, Poll, OrderInv
  <2>2. task[t].start \in Nat /\ loop.limit \in Nat /\ loop.began \in Nat
    BY TaskAssumption DEF TypeOK, Reads
  <2> QED
    BY <2>1, <2>2
<1> QED
  BY <1>1, OrderAlways, PTL DEF Spec, ReadFresh

\* A read task is marked done by the poll of its own device (the filter device_id of
\* MultiDeviceDAQProcess.loop(); a single-device process has no other).
THEOREM ReadByItsDevice == Spec => OwnDevice
<1> DEFINE A == \A t \in Reads : task[t].st # "done" /\ task'[t].st = "done"
                  => DeviceOf[t] \in loop.todo \ loop'.todo
<1>1. TypeOK /\ [Next]_vars => A
  <2> SUFFICES ASSUME TypeOK, NEW t \in Reads, NEW d \in Device, Poll(d), t \in Answered(d)
               PROVE  DeviceOf[t] \in loop.todo \ loop'.todo
    BY WhoActs
  <2>1. DeviceOf[t] = d
    <3>1. CASE Multi
      BY <3>1 DEF Answered
    <3>2. CASE ~Multi
      <4>1. Cardinality(Device) = 1 /\ IsFiniteSet(Device) /\ DeviceOf[t] \in Device
        BY <3>2, TaskAssumption DEF TaskAssumption, Reads
      <4>2. PICK x : Device = {x}
        BY <4>1, FS_Singleton
      <4> QED
        BY <4>1, <4>2
    <3> QED
      BY <3>1, <3>2
  <2>2. d \in loop.todo /\ loop'.todo = loop.todo \ {d}
    BY DEF Poll, TypeOK
  <2> QED
    BY <2>1, <2>2
<1> QED
  BY <1>1, TypeCorrect, PTL DEF Spec, OwnDevice

----------------------------------------------------------------------------
\* What loop() marks done it has put among the values that run() stores: as long as the
\* process has not been started again, they are waiting or stored.
LEMMA DoneStep ==
    ASSUME TypeOK, DoneNotLost, [Next]_vars
    PROVE  DoneNotLost'
<1> SUFFICES ASSUME loop'.pc # "down", respawns' = 0,
                    NEW t \in Task, task'[t].st = "done"
             PROVE  t \in data' \cup recorded'
  BY DEF DoneNotLost
<1>0. /\ task \in [Task -> TaskRow] /\ loop \in Loop /\ respawns \in Nat
      /\ loop.pc # "down" /\ respawns = 0 /\ task[t].st = "done" => t \in data \cup recorded
  BY TaskAssumption DEF TypeOK, TaskRow, Loop, DoneNotLost
<1>1. ~Crash /\ \A u \in Writes : ~PropertyTask(u)
  BY DEF Crash, PropertyTask, Down, Idle
<1>2. ~Respawn
  BY <1>0 DEF Respawn
<1>3. ASSUME UNCHANGED <<task, data, recorded, respawns>>, loop.pc # "down"
      PROVE  t \in data' \cup recorded'
  BY <1>0, <1>3
<1>4. CASE Wake \/ RequeryWrites \/ WritesOver \/ QueryReads \/ Request \/ NotDue
           \/ \E d \in Device : QueryWrites(d)
  BY <1>0, <1>3, <1>4 DEF Wake, RequeryWrites, WritesOver, QueryReads, Request, NotDue, QueryWrites
<1>5. CASE \E u \in Writes : Write(u)
  BY <1>0, <1>3, <1>5 DEF Write
<1>6. CASE Tick \/ UNCHANGED vars
  BY <1>0, <1>3, <1>6 DEF Tick, vars
<1>7. CASE Record
  BY <1>0, <1>7 DEF Record
<1>8. ASSUME NEW u \in Writes, SaveWrite(u) PROVE t \in data' \cup recorded'
  <2>1. loop.pc # "down" /\ respawns = 0 /\ u \in Task /\ UNCHANGED recorded
    BY <1>8 DEF SaveWrite, Writes
  <2>2. CASE t = u
    <3>1. task'[t].st = IF loop.ok THEN "done" ELSE "failed"
      BY <1>0, <1>8, <2>2 DEF SaveWrite, TaskRow
    <3>2. loop.ok
      BY <3>1
    <3> QED
      BY <1>8, <2>2, <3>2 DEF SaveWrite
  <2>3. CASE t # u
    <3>1. task'[t] = task[t]
      BY <1>0, <1>8, <2>3 DEF SaveWrite
    <3> QED
      BY <1>0, <1>8, <2>1, <3>1 DEF SaveWrite
  <2> QED
    BY <2>2, <2>3
<1>9. ASSUME NEW d \in Device, Poll(d) PROVE t \in data' \cup recorded'
  <2>1. PICK st \in {"done", "failed"} :
           /\ task' = [u \in Task |-> IF u \in Answered(d) THEN [task[u] EXCEPT !.st = st]
                                      ELSE task[u]]
           /\ data' = IF st = "done" THEN data \cup Answered(d) ELSE data
    BY <1>9 DEF Poll
  <2>2. loop.pc # "down" /\ respawns = 0 /\ UNCHANGED recorded
    BY <1>9 DEF Poll
  <2>3. CASE t \in Answered(d)
    <3>1. task'[t].st = st
      BY <1>0, <2>1, <2>3 DEF TaskRow
    <3> QED
      BY <2>1, <2>3, <3>1
  <2>4. CASE t \notin Answered(d)
    <3>1. task'[t] = task[t]
      BY <2>1, <2>4
    <3> QED
      BY <1>0, <2>1, <2>2, <3>1
  <2> QED
    BY <2>3, <2>4
<1>10. ASSUME NEW u \in Task, Create(u) \/ \E s \in 0..MaxClock : Stamp(u, s)
       PROVE  t \in data' \cup recorded'
  <2>1. UNCHANGED <<loop, respawns, data, recorded>>
    BY <1>10 DEF Create, Stamp
  <2>2. task'[t] = task[t]
    <3>1. CASE t = u
      BY <1>0, <1>10, <3>1 DEF Create, Stamp, TaskRow
    <3>2. CASE t # u
      BY <1>0, <1>10, <3>2 DEF Create, Stamp
    <3> QED
      BY <3>1, <3>2
  <2> QED
    BY <1>0, <2>1, <2>2
<1> QED
  BY <1>1, <1>2, <1>4, <1>5, <1>6, <1>7, <1>8, <1>9, <1>10 DEF Next, ProcessStep

\* The values of a task marked done are stored or waiting to be (loop() returns them to
\* run()), unless its process died.
THEOREM DoneKept == Spec => []DoneNotLost
<1>1. Init => DoneNotLost
  BY DEF Init, DoneNotLost
<1>2. TypeOK /\ DoneNotLost /\ [Next]_vars => DoneNotLost'
  BY DoneStep
<1> QED
  BY <1>1, <1>2, TypeCorrect, PTL DEF Spec

----------------------------------------------------------------------------
(* DeviceTasks implements TaskTable.                                       *)

\* What is stored, or waiting to be, belongs to tasks that are done; the write whose
\* outcome is not saved is pending; a poll began in the past.
TableInv ==
    /\ \A t \in data \cup recorded : task[t].st = "done"
    /\ \A t \in loop.asked : IsPending(t)
    /\ loop.began <= clock

LEMMA TableStep ==
    ASSUME TypeOK, OnceInv, TableInv, [Next]_vars
    PROVE  TableInv'
<1> USE TaskAssumption
<1>0. /\ clock \in Nat /\ task \in [Task -> TaskRow] /\ loop \in Loop
      /\ loop.began \in Nat /\ loop.asked \subseteq Writes /\ loop.dwts \subseteq Writes
      /\ Writes \subseteq Task /\ data \subseteq Task /\ recorded \subseteq Task
  BY DEF TypeOK, TaskRow, Loop, Writes
\* Steps that finish nothing and hand nothing over.
<1>q. ASSUME data' \cup recorded' \subseteq data \cup recorded, loop'.asked \subseteq loop.asked,
             clock <= clock', clock' \in Nat, loop'.began \in {0, clock, loop.began},
             \A t \in Task : /\ task[t].st = "done" => task'[t].st = "done"
                             /\ IsPending(t) => IsPending(t)'
      PROVE  TableInv'
  BY <1>0, <1>q DEF TableInv
<1>t. UNCHANGED task => \A t \in Task : /\ task[t].st = "done" => task'[t].st = "done"
                                        /\ IsPending(t) => IsPending(t)'
  BY DEF IsPending
<1>1. CASE Tick
  BY <1>0, <1>1, <1>q, <1>t DEF Tick
<1>2. CASE Crash \/ \E t \in Writes : PropertyTask(t)
  <2>1. loop'.asked = {} /\ loop'.began = 0 /\ data' = {} /\ UNCHANGED <<clock, task, recorded>>
    BY <1>2 DEF Crash, PropertyTask, Down, Idle
  <2> QED
    BY <1>0, <1>q, <1>t, <2>1
<1>3. ASSUME NEW t \in Task, Create(t) PROVE TableInv'
  <2>1. UNCHANGED <<clock, loop, data, recorded>>
    BY <1>3 DEF Create
  <2>2. \A u \in Task : /\ task[u].st = "done" => task'[u].st = "done"
                        /\ IsPending(u) => IsPending(u)'
    BY <1>0, <1>3 DEF Create, IsPending, TaskRow
  <2> QED
    BY <1>0, <1>q, <2>1, <2>2
<1>4. ASSUME NEW t \in Task, NEW s \in 0..MaxClock, Stamp(t, s) PROVE TableInv'
  <2>1. UNCHANGED <<clock, loop, data, recorded>>
    BY <1>4 DEF Stamp
  <2>2. \A u \in Task : /\ task[u].st = "done" => task'[u].st = "done"
                        /\ IsPending(u) => IsPending(u)'
    BY <1>0, <1>4 DEF Stamp, IsPending, TaskRow
  <2> QED
    BY <1>0, <1>q, <2>1, <2>2
<1>5. CASE Wake
  BY <1>0, <1>5, <1>q, <1>t DEF Wake, Loop
<1>6. CASE RequeryWrites
  BY <1>0, <1>6, <1>q, <1>t DEF RequeryWrites, Loop
<1>7. CASE WritesOver
  BY <1>0, <1>7, <1>q, <1>t DEF WritesOver, Loop
<1>8. CASE QueryReads
  BY <1>0, <1>8, <1>q, <1>t DEF QueryReads, Loop
<1>9. CASE Request
  BY <1>0, <1>9, <1>q, <1>t DEF Request, Loop
<1>10. CASE NotDue
  BY <1>0, <1>10, <1>q, <1>t DEF NotDue, Loop
<1>11. CASE Record
  <2>1. /\ data' = {} /\ recorded' = recorded \cup data /\ UNCHANGED <<clock, task>>
        /\ loop'.asked = loop.asked /\ loop'.began = 0
    BY <1>0, <1>11 DEF Record, Loop
  <2>2. data' \cup recorded' \subseteq data \cup recorded
    BY <2>1
  <2> QED
    BY <1>0, <1>q, <1>t, <2>1, <2>2
<1>12. CASE Respawn
  <2>1. loop'.asked = {} /\ loop'.began = 0 /\ UNCHANGED <<clock, task, data, recorded>>
    BY <1>12 DEF Respawn, Idle
  <2> QED
    BY <1>0, <1>q, <1>t, <2>1
<1>13. ASSUME NEW d \in Device, QueryWrites(d) PROVE TableInv'
  BY <1>0, <1>13, <1>q, <1>t DEF QueryWrites, Loop
<1>14. ASSUME NEW d \in Device, Poll(d) PROVE TableInv'
  <2>1. PICK st \in {"done", "failed"} :
           /\ task' = [u \in Task |-> IF u \in Answered(d) THEN [task[u] EXCEPT !.st = st]
                                      ELSE task[u]]
           /\ data' = IF st = "done" THEN data \cup Answered(d) ELSE data
    BY <1>14 DEF Poll
  <2>2. UNCHANGED <<clock, recorded>> /\ loop'.asked = loop.asked /\ loop'.began = loop.began
    BY <1>0, <1>14 DEF Poll, Loop
  <2>3. \A u \in Answered(d) : u \in Task /\ u \notin Writes /\ IsPending(u)
    BY DEF Answered, ReadTasks, Reads
  <2>4. \A u \in Task : u \notin Answered(d) => task'[u] = task[u]
    BY <2>1
  <2>5. \A u \in Answered(d) : task'[u].st = st
    BY <1>0, <2>1, <2>3 DEF TaskRow
  <2>6. \A u \in data' \cup recorded' : task'[u].st = "done"
    BY <1>0, <2>1, <2>2, <2>3, <2>4, <2>5 DEF TableInv, IsPending
  <2>7. \A u \in loop'.asked : IsPending(u)'
    BY <1>0, <2>2, <2>3, <2>4 DEF TableInv, IsPending
  <2> QED
    BY <2>2, <2>6, <2>7 DEF TableInv
<1>15. ASSUME NEW t \in Writes, Write(t) PROVE TableInv'
  <2>1. /\ loop'.asked = {t} /\ loop'.began = loop.began /\ t \in loop.dwts
        /\ UNCHANGED <<clock, task, data, recorded>>
    BY <1>0, <1>15 DEF Write, Oldest, Loop
  <2> QED
    BY <2>1 DEF TableInv, OnceInv, IsPending
<1>16. ASSUME NEW t \in Writes, SaveWrite(t) PROVE TableInv'
  <2>1. /\ loop.asked = {t} /\ loop'.asked = {} /\ loop'.began = loop.began
        /\ UNCHANGED <<clock, recorded>> /\ IsPending(t)
        /\ data' = IF loop.ok THEN data \cup {t} ELSE data
    BY <1>0, <1>16 DEF SaveWrite, Loop, TableInv
  <2>2. /\ task'[t].st = IF loop.ok THEN "done" ELSE "failed"
        /\ \A u \in Task : u # t => task'[u] = task[u]
    BY <1>0, <1>16 DEF SaveWrite, TaskRow
  <2>3. \A u \in data' \cup recorded' : task'[u].st = "done"
    BY <1>0, <2>1, <2>2 DEF TableInv, IsPending
  <2> QED
    BY <2>1, <2>3 DEF TableInv
<1>17. CASE UNCHANGED vars
  BY <1>0, <1>17, <1>q, <1>t DEF vars
<1> QED
  BY <1>1, <1>2, <1>3, <1>4, <1>5, <1>6, <1>7, <1>8, <1>9, <1>10, <1>11, <1>12, <1>13,
     <1>14, <1>15, <1>16, <1>17 DEF Next, ProcessStep

\* What TaskTable sees of a row.
Status == [t \in Task |-> task[t].st]
Starts == [t \in Task |-> task[t].start]

LEMMA InitialTable == Init => Table!Init
<1> SUFFICES ASSUME Init PROVE Table!Init
  OBVIOUS
<1>1. Status = [t \in Task |-> "none"] /\ Starts = [t \in Task |-> 0]
  BY DEF Init, Status, Starts
<1>2. loop.asked = {}
  BY DEF Init, Idle
<1> QED
  BY <1>1, <1>2 DEF Init, Table!Init, Status, Starts

\* Each step of the process and of the web workers is a step of the tables, or none.
LEMMA TableNext ==
    ASSUME TypeOK, OnceInv, OrderInv, TableInv, [Next]_vars
    PROVE  [Table!Next]_Table!vars
<1> USE TaskAssumption
<1>0. /\ clock \in Nat /\ task \in [Task -> TaskRow] /\ loop \in Loop
      /\ loop.began \in Nat /\ loop.limit \in Nat
      /\ loop.asked \subseteq Writes /\ loop.dwts \subseteq Writes
      /\ Writes \subseteq Task /\ calls \in [Task -> Nat]
      /\ \A t \in Task : task[t].start \in Nat
  BY DEF TypeOK, TaskRow, Loop, Writes
<1>u. ASSUME UNCHANGED <<clock, task, calls, recorded, crashes>>, loop'.asked = loop.asked
      PROVE  UNCHANGED Table!vars
  BY <1>u DEF Table!vars
<1>s. UNCHANGED task => UNCHANGED <<Status, Starts>>
  BY DEF Status, Starts
<1>1. CASE Tick
  <2>1. Table!Tick
    BY <1>0, <1>1 DEF Tick, Table!Tick
  <2> QED
    BY <2>1 DEF Table!Next
<1>2. CASE Crash
  <2>1. loop'.asked = {} /\ crashes' = crashes + 1 /\ UNCHANGED <<clock, task, calls, recorded>>
    BY <1>2 DEF Crash, Down, Idle
  <2>2. Table!Die
    BY <2>1 DEF Table!Die
  <2> QED
    BY <2>2 DEF Table!Next
<1>3. ASSUME NEW t \in Task, Create(t) PROVE Table!Create(t)
  <2>1. /\ task[t].st = "stamped" /\ UNCHANGED <<clock, loop, calls, recorded, crashes>>
        /\ task' = [task EXCEPT ![t].st = "pending"]
    BY <1>3 DEF Create
  <2>2. Status' = [Status EXCEPT ![t] = "pending"] /\ Starts' = Starts
    BY <1>0, <2>1 DEF Status, Starts, TaskRow
  <2>3. Status[t] = "stamped"
    BY <2>1 DEF Status
  <2> QED
    BY <2>1, <2>2, <2>3 DEF Table!Create, Status, Starts
<1>4. ASSUME NEW t \in Task, NEW s \in 0..MaxClock, Stamp(t, s) PROVE Table!Stamp(t)
  <2>1. /\ task[t].st = "none" /\ s >= clock /\ UNCHANGED <<clock, loop, calls, recorded, crashes>>
        /\ task' = [task EXCEPT ![t] = [st |-> "stamped", start |-> s]]
    BY <1>4 DEF Stamp
  <2>2. /\ Status' = [Status EXCEPT ![t] = "stamped"]
        /\ Starts' = [Starts EXCEPT ![t] = s] /\ Starts'[t] = s
    BY <1>0, <2>1 DEF Status, Starts, TaskRow
  <2>3. Status[t] = "none"
    BY <2>1 DEF Status
  <2> QED
    BY <2>1, <2>2, <2>3 DEF Table!Stamp, Status, Starts
<1>5. CASE Wake
  BY <1>0, <1>5, <1>u DEF Wake, Loop
<1>6. CASE RequeryWrites
  BY <1>0, <1>6, <1>u DEF RequeryWrites, Loop
<1>7. CASE WritesOver
  BY <1>0, <1>7, <1>u DEF WritesOver, Loop
<1>8. CASE QueryReads
  BY <1>0, <1>8, <1>u DEF QueryReads, Loop
<1>9. CASE Request
  BY <1>0, <1>9, <1>u DEF Request, Loop
<1>10. CASE NotDue
  BY <1>0, <1>10, <1>u DEF NotDue, Loop
<1>11. CASE Record
  <2>1. /\ recorded' = recorded \cup data /\ UNCHANGED <<clock, task, calls, crashes>>
        /\ loop'.asked = loop.asked
    BY <1>0, <1>11 DEF Record, Loop
  <2>2. \A t \in recorded' : t \in Task /\ Status[t] = "done"
    BY <2>1 DEF TableInv, TypeOK, Status
  <2>3. Table!Store
    BY <2>1, <2>2 DEF Table!Store, Status
  <2> QED
    BY <2>3 DEF Table!Next
<1>12. CASE Respawn \/ \E t \in Writes : PropertyTask(t)
  <2>1. loop'.asked = {} /\ loop.asked = {} /\ UNCHANGED <<clock, task, calls, recorded, crashes>>
    BY <1>12 DEF Respawn, PropertyTask, Down, Idle, OnceInv
  <2> QED
    BY <1>u, <2>1
<1>13. ASSUME NEW d \in Device, QueryWrites(d) PROVE UNCHANGED Table!vars
  BY <1>0, <1>13, <1>u DEF QueryWrites, Loop
<1>14. ASSUME NEW d \in Device, Poll(d)
       PROVE  \E outcome \in {"done", "failed"} : Table!Answer(Answered(d), outcome)
  <2>1. PICK st \in {"done", "failed"} :
           task' = [u \in Task |-> IF u \in Answered(d) THEN [task[u] EXCEPT !.st = st]
                                   ELSE task[u]]
    BY <1>14 DEF Poll
  <2>2. UNCHANGED <<clock, calls, recorded, crashes>> /\ loop'.asked = loop.asked
        /\ loop.pc = "request"
    BY <1>0, <1>14 DEF Poll, Loop
  <2>3. ASSUME NEW u \in Answered(d) PROVE Status[u] = "pending" /\ Starts[u] <= clock
    <3>1. u \in Task /\ task[u].st = "pending" /\ task[u].start <= loop.limit
      BY <2>3 DEF Answered, ReadTasks, Reads, IsPending
    <3>2. loop.limit <= loop.began /\ loop.began <= clock
      BY <2>2 DEF OrderInv, TableInv
    <3> QED
      BY <1>0, <3>1, <3>2 DEF Status, Starts
  <2>4. /\ Status' = [u \in Task |-> IF u \in Answered(d) THEN st ELSE Status[u]]
        /\ Starts' = Starts
    BY <1>0, <2>1 DEF Status, Starts, TaskRow
  <2>5. Table!Answer(Answered(d), st)
    BY <2>2, <2>3, <2>4 DEF Table!Answer, Status, Starts
  <2> QED
    BY <2>5
<1>15. ASSUME NEW t \in Writes, Write(t) PROVE Table!Execute(t)
  <2>1. /\ t \in loop.dwts /\ loop.asked = {} /\ loop'.asked = {t}
        /\ calls' = [calls EXCEPT ![t] = calls[t] + 1]
        /\ UNCHANGED <<clock, task, recorded, crashes>>
    BY <1>0, <1>15 DEF Write, Oldest, OnceInv, Loop
  <2>2. Status[t] = "pending" /\ Starts[t] <= clock
    BY <1>0, <2>1 DEF OnceInv, OrderInv, IsPending, Due, Status, Starts
  <2> QED
    BY <1>s, <2>1, <2>2 DEF Table!Execute, Status, Starts
<1>16. ASSUME NEW t \in Writes, SaveWrite(t)
       PROVE  \E outcome \in {"done", "failed"} : Table!Save(t, outcome)
  <2>2. PICK outcome \in {"done", "failed"} : outcome = IF loop.ok THEN "done" ELSE "failed"
    OBVIOUS
  <2>1. /\ loop.asked = {t} /\ loop'.asked = {} /\ IsPending(t)
        /\ task' = [task EXCEPT ![t].st = outcome]
        /\ UNCHANGED <<clock, calls, recorded, crashes>>
    BY <1>0, <1>16, <2>2 DEF SaveWrite, Loop, TableInv
  <2>3. Status' = [Status EXCEPT ![t] = outcome] /\ Starts' = Starts
    BY <1>0, <2>1 DEF Status, Starts, TaskRow
  <2>4. Status[t] = "pending"
    BY <1>0, <2>1 DEF Status, IsPending
  <2>5. Table!Save(t, outcome)
    BY <2>1, <2>3, <2>4 DEF Table!Save, Status, Starts
  <2> QED
    BY <2>5
<1>17. CASE UNCHANGED vars
  BY <1>17, <1>u DEF vars
<1>18. \A d \in Device : Answered(d) \in SUBSET (Task \ Writes)
  BY DEF Answered, ReadTasks, Reads
<1> QED
  BY <1>1, <1>2, <1>3, <1>4, <1>5, <1>6, <1>7, <1>8, <1>9, <1>10, <1>11, <1>12, <1>13,
     <1>14, <1>15, <1>16, <1>17, <1>18, <1>u DEF Next, ProcessStep, Table!Next

\* The DAQ process, however often it dies, with the web workers implements what the task
\* tables promise: tasks are finished once and for good, writes are executed before that
\* and not too early, values are stored of tasks that are done (loop() and run()).
THEOREM ProcessImplementsTable == Spec => TableSpec
<1>1. Init => TableInv
  BY TaskAssumption DEF Init, TableInv, Idle
<1>2. TypeOK /\ OnceInv /\ OrderInv /\ TableInv /\ [Next]_vars => TableInv'
  BY TableStep
<1>3. TypeOK /\ OnceInv /\ OrderInv /\ TableInv /\ [Next]_vars => [Table!Next]_Table!vars
  BY TableNext
<1> QED
  BY <1>1, <1>2, <1>3, InitialTable, OrderAlways, PTL DEF Spec, TableSpec, Table!Spec

\* What follows from the steps of the tables alone.
FinishedForGood == [][\A t \in Task : IsFinished(t) => task'[t] = task[t]]_vars
FinishedIsExecuted == \A t \in Writes : IsFinished(t) => calls[t] > 0

LEMMA TableFinishes ==
    ASSUME TypeOK, [Table!Next]_Table!vars, NEW t \in Task, IsFinished(t)
    PROVE  Status'[t] = Status[t] /\ Starts'[t] = Starts[t]
<1>1. Status[t] \in {"done", "failed"}
  BY DEF Status, IsFinished
<1>2. CASE UNCHANGED Table!vars
  BY <1>2 DEF Table!vars, Status, Starts
<1>3. ASSUME NEW u \in Task, Table!Stamp(u) \/ Table!Create(u)
      PROVE  Status'[t] = Status[t] /\ Starts'[t] = Starts[t]
  <2>1. u # t
    BY <1>1, <1>3 DEF Table!Stamp, Table!Create, Status
  <2> QED
    BY <1>3, <2>1 DEF Table!Stamp, Table!Create, Status, Starts
<1>4. ASSUME NEW u \in Writes, NEW outcome \in {"done", "failed"}, Table!Save(u, outcome)
      PROVE  Status'[t] = Status[t] /\ Starts'[t] = Starts[t]
  <2>1. u # t /\ u \in Task
    BY <1>1, <1>4 DEF Table!Save, Status, Writes
  <2> QED
    BY <1>4, <2>1 DEF Table!Save, Status, Starts
<1>5. ASSUME NEW reads \in SUBSET (Task \ Writes), NEW outcome \in {"done", "failed"},
             Table!Answer(reads, outcome)
      PROVE  Status'[t] = Status[t] /\ Starts'[t] = Starts[t]
  <2>1. t \notin reads
    BY <1>1, <1>5 DEF Table!Answer, Status
  <2> QED
    BY <1>5, <2>1 DEF Table!Answer, Status, Starts
<1>6. CASE Table!Tick \/ Table!Store \/ Table!Die \/ \E u \in Writes : Table!Execute(u)
  BY <1>6 DEF Table!Tick, Table!Store, Table!Die, Table!Execute, Status, Starts
<1> QED
  BY <1>2, <1>3, <1>4, <1>5, <1>6 DEF Table!Next

\* No row of a finished task is ever touched again: no poll, no save and no query that
\* was made before it was finished brings it back (task.done, task.failed in loop()).
THEOREM FinishedStays == Spec => FinishedForGood
<1>1. Init => TableInv
  BY TaskAssumption DEF Init, TableInv, Idle
<1>2. TypeOK /\ OnceInv /\ OrderInv /\ TableInv /\ [Next]_vars => TableInv'
  BY TableStep
<1> DEFINE A == \A t \in Task : IsFinished(t) => task'[t] = task[t]
<1>3. TypeOK /\ TypeOK' /\ OnceInv /\ OrderInv /\ TableInv /\ [Next]_vars => A
  <2> SUFFICES ASSUME TypeOK, TypeOK', OnceInv, OrderInv, TableInv, [Next]_vars,
                      NEW t \in Task, IsFinished(t)
               PROVE  task'[t] = task[t]
    OBVIOUS
  <2>1. Status'[t] = Status[t] /\ Starts'[t] = Starts[t]
    BY TableNext, TableFinishes
  <2>2. task[t] \in TaskRow /\ task'[t] \in TaskRow
    BY DEF TypeOK, TaskRow
  <2> QED
    BY <2>1, <2>2 DEF Status, Starts, TaskRow
<1> QED
  BY <1>1, <1>2, <1>3, OrderAlways, TypeCorrect, PTL DEF Spec, FinishedForGood

\* A write that is finished, done or failed, has reached the device: none is finished by
\* an answer to reads, by a death or by the save of another one (task.save() in loop()).
ExecutedInv == \A t \in Writes : IsFinished(t) \/ t \in loop.asked => calls[t] > 0

LEMMA ExecutedStep ==
    ASSUME TypeOK, ExecutedInv, [Table!Next]_Table!vars
    PROVE  ExecutedInv'
<1>0. Writes \subseteq Task /\ calls \in [Task -> Nat]
  BY DEF Writes, TypeOK
<1> DEFINE Ended(t) == Status[t] \in {"done", "failed"}
<1>1. /\ \A t \in Writes : IsFinished(t) <=> Ended(t)
      /\ \A t \in Writes : IsFinished(t)' <=> Status'[t] \in {"done", "failed"}
  BY <1>0 DEF Status, IsFinished
<1> SUFFICES ASSUME NEW t \in Writes, IsFinished(t)' \/ t \in loop'.asked
             PROVE  calls'[t] > 0
  BY DEF ExecutedInv
<1>2. Ended(t) \/ t \in loop.asked => calls[t] > 0
  BY <1>1 DEF ExecutedInv
<1>3. CASE UNCHANGED Table!vars
  BY <1>1, <1>2, <1>3 DEF Table!vars, Status
<1>4. ASSUME NEW u \in Task, Table!Stamp(u) \/ Table!Create(u) PROVE calls'[t] > 0
  <2>1. UNCHANGED calls /\ loop'.asked = loop.asked
    BY <1>4 DEF Table!Stamp, Table!Create
  <2>2. Status'[t] \in {"done", "failed"} => Status'[t] = Status[t]
    BY <1>0, <1>4 DEF Table!Stamp, Table!Create, Status
  <2> QED
    BY <1>1, <1>2, <2>1, <2>2
<1>5. ASSUME NEW u \in Writes, NEW outcome \in {"done", "failed"}, Table!Save(u, outcome)
      PROVE  calls'[t] > 0
  <2>1. UNCHANGED calls /\ loop'.asked = {} /\ loop.asked = {u}
    BY <1>5 DEF Table!Save
  <2>2. t # u => Status'[t] = Status[t]
    BY <1>0, <1>5 DEF Table!Save, Status
  <2> QED
    BY <1>1, <1>2, <2>1, <2>2
<1>6. ASSUME NEW reads \in SUBSET (Task \ Writes), NEW outcome \in {"done", "failed"},
             Table!Answer(reads, outcome)
      PROVE  calls'[t] > 0
  <2>1. UNCHANGED calls /\ loop'.asked = loop.asked
    BY <1>6 DEF Table!Answer
  <2>2. Status'[t] = Status[t]
    BY <1>0, <1>6 DEF Table!Answer, Status
  <2> QED
    BY <1>1, <1>2, <2>1, <2>2
<1>7. CASE Table!Tick \/ Table!Store \/ Table!Die
  <2>1. UNCHANGED calls /\ loop'.asked \subseteq loop.asked /\ Status' = Status
    BY <1>7 DEF Table!Tick, Table!Store, Table!Die, Status
  <2> QED
    BY <1>1, <1>2, <2>1
<1>8. ASSUME NEW u \in Writes, Table!Execute(u) PROVE calls'[t] > 0
  <2>1. /\ calls' = [calls EXCEPT ![u] = calls[u] + 1] /\ loop'.asked = {u}
        /\ Status' = Status
    BY <1>8 DEF Table!Execute, Status
  <2> QED
    BY <1>0, <1>1, <1>2, <2>1
<1> QED
  BY <1>3, <1>4, <1>5, <1>6, <1>7, <1>8 DEF Table!Next

\* See ExecutedInv.
THEOREM FinishedWasExecuted == Spec => []FinishedIsExecuted
<1>1. Init => TableInv /\ ExecutedInv
  BY TaskAssumption DEF Init, TableInv, ExecutedInv, IsFinished, Idle, Writes
<1>2. TypeOK /\ OnceInv /\ OrderInv /\ TableInv /\ [Next]_vars => TableInv'
  BY TableStep
<1>3. TypeOK /\ OnceInv /\ OrderInv /\ TableInv /\ ExecutedInv /\ [Next]_vars => ExecutedInv'
  BY TableNext, ExecutedStep
<1>4. ExecutedInv => FinishedIsExecuted
  BY DEF ExecutedInv, FinishedIsExecuted
<1> QED
  BY <1>1, <1>2, <1>3, <1>4, OrderAlways, PTL DEF Spec
----------------------------------------------------------------------------
(* A pass of loop() ends.                                                  *)

\* What the next step of the process asks for, at each point: a device to be served, an
\* oldest task or none at all, the task write_data was called for, a respawn.
Ready ==
    \/ loop.pc \in {"wait", "rewrites", "reads", "rereads", "query", "record"}
    \/ loop.pc \in {"writes", "request"} /\ \E d \in Device : d \in loop.todo
    \/ loop.pc = "write" /\ (loop.dwts = {} \/ \E t \in Writes : Oldest(t))
    \/ loop.pc = "save" /\ \E t \in Writes : loop.asked = {t}
    \/ loop.pc = "down" /\ respawns < MaxRespawn
NeverStuck == Ready \/ GivenUp

\* How far a pass is: its phase; in a phase, the devices left; for a device, whether the
\* query is to be repeated, its tasks are executed, or they are over; and the tasks left.
Phase(pc) ==
    CASE pc \in {"writes", "rewrites", "write", "save"} -> 1
      [] pc = "reads" -> 2 [] pc = "rereads" -> 3 [] pc = "query" -> 4 [] pc = "request" -> 5
      [] pc = "record" -> 6 [] OTHER -> 7
Stage(pc) == CASE pc = "rewrites" -> 2 [] pc \in {"write", "save"} -> 1 [] OTHER -> 0
Fewer(S, T) == S \subseteq T /\ S # T
SameDevices == Phase(loop'.pc) = Phase(loop.pc) /\ loop'.todo = loop.todo
SameList == SameDevices /\ Stage(loop'.pc) = Stage(loop.pc)
Further ==
    \/ Phase(loop'.pc) > Phase(loop.pc)
    \/ Phase(loop'.pc) = Phase(loop.pc) /\ Fewer(loop'.todo, loop.todo)
    \/ SameDevices /\ Stage(loop'.pc) < Stage(loop.pc)
    \/ SameList /\ Fewer(loop'.dwts, loop.dwts)
    \/ SameList /\ loop'.dwts = loop.dwts /\ loop.pc = "save" /\ loop'.pc = "write"

\* Every step of a pass leaves less of it to be done, and what is left is finite, whatever
\* the web workers insert meanwhile: a pass cannot be kept from ending by new tasks.
InPass == loop.pc \notin {"wait", "down"}
PassGoesOn == [][InPass /\ loop' # loop /\ loop'.pc # "down" => Further]_vars
LittleLeft == IsFiniteSet(loop.todo) /\ IsFiniteSet(loop.dwts)

\* The control state goes with the memory of the process, and the tables are finite.
PassInv ==
    /\ loop.pc \in {"writes", "request"} => loop.todo # {}
    /\ loop.pc = "save" => \E t \in Writes : loop.asked = {t}
    /\ IsFiniteSet({t \in Task : task[t].st # "none"})

LEMMA PassStep ==
    ASSUME TypeOK, PassInv, [Next]_vars
    PROVE  PassInv'
<1> USE TaskAssumption
<1>0. /\ task \in [Task -> TaskRow] /\ loop \in Loop
      /\ Writes \subseteq Task /\ Reads \subseteq Task
  BY DEF TypeOK, TaskRow, Loop, Writes, Reads
<1> DEFINE Rows == {t \in Task : task[t].st # "none"}
           Control == /\ loop'.pc \in {"writes", "request"} => loop'.todo # {}
                      /\ loop'.pc = "save" => \E t \in Writes : loop'.asked = {t}
\* A step adds one row at most.
<1>r. ASSUME NEW u \in Task, \A t \in Task : t # u => (task'[t].st # "none" => task[t].st # "none")
      PROVE  IsFiniteSet(Rows')
  <2>1. IsFiniteSet(Rows \cup {u})
    BY FS_AddElement DEF PassInv
  <2>2. Rows' \subseteq Rows \cup {u}
    BY <1>r
  <2> QED
    BY <2>1, <2>2, FS_Subset
<1>s. ASSUME UNCHANGED task PROVE IsFiniteSet(Rows')
  BY <1>s DEF PassInv
<1>k. ASSUME loop'.pc = loop.pc, loop'.todo = loop.todo, loop'.asked = loop.asked PROVE Control
  BY <1>k DEF PassInv
<1> SUFFICES Control /\ IsFiniteSet(Rows')
  BY DEF PassInv
<1>1. CASE Tick \/ UNCHANGED vars
  BY <1>1, <1>s, <1>k DEF Tick, vars
<1>2. CASE Crash \/ \E t \in Writes : PropertyTask(t)
  BY <1>2, <1>s DEF Crash, PropertyTask, Down, Idle
<1>3. ASSUME NEW t \in Task, Create(t) PROVE Control /\ IsFiniteSet(Rows')
  <2>1. UNCHANGED loop /\ \A u \in Task : u # t => task'[u] = task[u]
    BY <1>0, <1>3 DEF Create
  <2> QED
    BY <1>k, <1>r, <2>1
<1>4. ASSUME NEW t \in Task, NEW s \in 0..MaxClock, Stamp(t, s)
      PROVE  Control /\ IsFiniteSet(Rows')
  <2>1. UNCHANGED loop /\ \A u \in Task : u # t => task'[u] = task[u]
    BY <1>0, <1>4 DEF Stamp
  <2> QED
    BY <1>k, <1>r, <2>1
<1>5. CASE Wake
  BY <1>0, <1>5, <1>s DEF Wake, Loop
<1>6. CASE RequeryWrites
  BY <1>0, <1>6, <1>s DEF RequeryWrites, Loop
<1>7. CASE WritesOver
  BY <1>0, <1>7, <1>s DEF WritesOver, Loop
<1>8. CASE QueryReads
  BY <1>0, <1>8, <1>s DEF QueryReads, Loop
<1>9. CASE Request
  BY <1>0, <1>9, <1>s DEF Request, Loop
<1>10. CASE NotDue \/ Record
  BY <1>0, <1>10, <1>s DEF NotDue, Record, Loop
<1>11. CASE Respawn
  BY <1>11, <1>s DEF Respawn, Idle
<1>12. ASSUME NEW d \in Device, QueryWrites(d) PROVE Control /\ IsFiniteSet(Rows')
  BY <1>0, <1>12, <1>s DEF QueryWrites, Loop
<1>13. ASSUME NEW d \in Device, Poll(d) PROVE Control /\ IsFiniteSet(Rows')
  <2>1. /\ loop'.todo = loop.todo \ {d} /\ d \in loop.todo
        /\ loop'.pc = IF loop.todo = {d} THEN "record" ELSE "request"
    BY <1>0, <1>13 DEF Poll, Loop
  <2>2. Control
    BY <2>1
  <2>3. \A t \in Task : task'[t].st # "none" => task[t].st # "none"
    BY <1>0, <1>13 DEF Poll, Answered, ReadTasks, IsPending
  <2>4. Rows' \subseteq Rows
    BY <2>3
  <2> QED
    BY <2>2, <2>4, FS_Subset DEF PassInv
<1>14. ASSUME NEW t \in Writes, Write(t) PROVE Control /\ IsFiniteSet(Rows')
  BY <1>0, <1>14, <1>s DEF Write, Loop
<1>15. ASSUME NEW t \in Writes, SaveWrite(t) PROVE Control /\ IsFiniteSet(Rows')
  <2>1. loop'.pc = "write" /\ \A u \in Task : u # t => task'[u] = task[u]
    BY <1>0, <1>15 DEF SaveWrite, Loop
  <2> QED
    BY <1>0, <1>r, <2>1
<1> QED
  BY <1>1, <1>2, <1>3, <1>4, <1>5, <1>6, <1>7, <1>8, <1>9, <1>10, <1>11, <1>12, <1>13,
     <1>14, <1>15 DEF Next, ProcessStep

LEMMA PassAlways == Spec => []PassInv
<1>1. Init => PassInv
  <2> SUFFICES ASSUME Init PROVE PassInv
    OBVIOUS
  <2>1. {t \in Task : task[t].st # "none"} = {}
    BY DEF Init
  <2> QED
    BY <2>1, FS_EmptySet, TaskAssumption DEF Init, Idle, PassInv
<1> QED
  BY <1>1, PassStep, TypeCorrect, PTL DEF Spec

\* Of some tasks one is the oldest.
LEMMA OldestExists ==
    ASSUME TypeOK, loop.dwts # {}
    PROVE  \E t \in Writes : Oldest(t)
<1> DEFINE starts == {task[t].start : t \in loop.dwts}
           Below == {ss \in Nat \X Nat : ss[1] < ss[2]}
<1>1. /\ loop.dwts \subseteq Writes /\ Writes \subseteq Task
      /\ \A t \in Task : task[t].start \in Nat
  BY TaskAssumption DEF TypeOK, Writes
<1>2. starts \subseteq Nat /\ starts # {}
  BY <1>1
<1>3. IsWellFoundedOn(Below, Nat)
  BY NatLessThanWellFounded DEF OpToRel, Below
<1> HIDE DEF starts
<1>4. PICK x \in starts : \A y \in starts : ~(<<y, x>> \in Below)
  BY <1>2, <1>3, WFMin
<1>5. PICK t \in loop.dwts : task[t].start = x
  BY DEF starts
<1>6. ASSUME NEW u \in loop.dwts PROVE task[t].start <= task[u].start
  <2>1. task[u].start \in starts /\ task[u].start \in Nat /\ x \in Nat
    BY <1>1, <1>2 DEF starts
  <2>2. ~(task[u].start < x)
    BY <1>4, <2>1 DEF Below
  <2> QED
    BY <1>5, <2>1, <2>2
<1> QED
  BY <1>1, <1>5, <1>6 DEF Oldest

\* The process never waits for something that cannot come: at every point its next step is
\* possible, unless it is down and its worker has used up the respawns.
THEOREM ProcessNeverStuck == Spec => []NeverStuck
<1>1. TypeOK /\ PassInv => NeverStuck
  <2> SUFFICES ASSUME TypeOK, PassInv PROVE NeverStuck
    OBVIOUS
  <2>1. /\ loop \in Loop /\ respawns \in 0..MaxRespawn /\ MaxRespawn \in Nat
        /\ loop.todo \subseteq Device
    BY TaskAssumption DEF TypeOK, Loop
  <2>2. CASE loop.pc = "write"
    BY <2>2, OldestExists DEF NeverStuck, Ready
  <2>3. CASE loop.pc = "down"
    BY <2>1, <2>3 DEF NeverStuck, Ready, GivenUp
  <2>4. CASE loop.pc \in {"writes", "request", "save"}
    BY <2>1, <2>4 DEF NeverStuck, Ready, PassInv
  <2>5. CASE loop.pc \in {"wait", "rewrites", "reads", "rereads", "query", "record"}
    BY <2>5 DEF NeverStuck, Ready
  <2> QED
    BY <2>1, <2>2, <2>3, <2>4, <2>5 DEF Loop
<1> QED
  BY <1>1, TypeCorrect, PassAlways, PTL

LEMMA FurtherStep ==
    ASSUME TypeOK, [Next]_vars, InPass, loop' # loop, loop'.pc # "down"
    PROVE  Further
<1>0. loop \in Loop
  BY DEF TypeOK, Loop
<1>1. ~(Tick \/ Crash \/ UNCHANGED vars) /\ \A t \in Writes : ~PropertyTask(t)
  BY DEF Tick, Crash, PropertyTask, Down, Idle, vars
<1>2. ~(Wake \/ Respawn) /\ \A t \in Task : ~Create(t) /\ \A s \in 0..MaxClock : ~Stamp(t, s)
  BY DEF InPass, Wake, Respawn, Create, Stamp
<1>3. CASE RequeryWrites
  <2>1. loop.pc = "rewrites" /\ loop'.pc = "write" /\ loop'.todo = loop.todo
    BY <1>0, <1>3 DEF RequeryWrites, Loop
  <2> QED
    BY <2>1 DEF Further, SameDevices, Phase, Stage
<1>4. CASE WritesOver
  <2>1. /\ loop.pc = "write" /\ loop'.todo = loop.todo
        /\ loop'.pc = IF loop.todo = {} THEN "reads" ELSE "writes"
    BY <1>0, <1>4 DEF WritesOver, Loop
  <2> QED
    BY <2>1 DEF Further, SameDevices, Phase, Stage
<1>5. CASE QueryReads
  <2>1. \/ loop.pc = "reads" /\ loop'.pc \in {"rereads", "query"}
        \/ loop.pc = "rereads" /\ loop'.pc = "query"
    BY <1>0, <1>5 DEF QueryReads, Loop
  <2> QED
    BY <2>1 DEF Further, Phase
<1>6. CASE Request \/ NotDue
  <2>1. loop.pc = "query" /\ loop'.pc \in {"request", "record"}
    BY <1>0, <1>6 DEF Request, NotDue, Loop
  <2> QED
    BY <2>1 DEF Further, Phase
<1>7. CASE Record
  <2>1. loop.pc = "record" /\ loop'.pc = "wait"
    BY <1>0, <1>7 DEF Record, Loop
  <2> QED
    BY <2>1 DEF Further, Phase
<1>8. ASSUME NEW d \in Device, QueryWrites(d) PROVE Further
  <2>1. /\ loop.pc = "writes" /\ loop'.pc \in {"rewrites", "write"}
        /\ d \in loop.todo /\ loop'.todo = loop.todo \ {d}
    BY <1>0, <1>8 DEF QueryWrites, Loop
  <2> QED
    BY <2>1 DEF Further, Fewer, Phase
<1>9. ASSUME NEW d \in Device, Poll(d) PROVE Further
  <2>1. /\ loop.pc = "request" /\ loop'.pc \in {"request", "record"}
        /\ d \in loop.todo /\ loop'.todo = loop.todo \ {d}
    BY <1>0, <1>9 DEF Poll, Loop
  <2> QED
    BY <2>1 DEF Further, Fewer, Phase
<1>10. ASSUME NEW t \in Writes, Write(t) PROVE Further
  <2>1. /\ loop.pc = "write" /\ loop'.pc = "save" /\ loop'.todo = loop.todo
        /\ t \in loop.dwts /\ loop'.dwts = loop.dwts \ {t}
    BY <1>0, <1>10 DEF Write, Oldest, Loop
  <2> QED
    BY <2>1 DEF Further, SameList, SameDevices, Fewer, Phase, Stage
<1>11. ASSUME NEW t \in Writes, SaveWrite(t) PROVE Further
  <2>1. /\ loop.pc = "save" /\ loop'.pc = "write" /\ loop'.todo = loop.todo
        /\ loop'.dwts = loop.dwts
    BY <1>0, <1>11 DEF SaveWrite, Loop
  <2> QED
    BY <2>1 DEF Further, SameList, SameDevices, Phase, Stage
<1> QED
  BY <1>1, <1>2, <1>3, <1>4, <1>5, <1>6, <1>7, <1>8, <1>9, <1>10, <1>11 DEF Next, ProcessStep

\* See PassGoesOn: the list of write tasks is made by the query and only gets shorter, so
\* the pass ends and the process comes back to its channel.
THEOREM PassesEnd == Spec => PassGoesOn /\ []LittleLeft
<1>1. TypeOK /\ OnceInv /\ PassInv => LittleLeft
  <2> SUFFICES ASSUME TypeOK, OnceInv, PassInv PROVE LittleLeft
    OBVIOUS
  <2>1. loop.todo \subseteq Device /\ loop.dwts \subseteq {t \in Task : task[t].st # "none"}
    BY DEF TypeOK, OnceInv, IsPending, Writes
  <2> QED
    BY <2>1, FS_Subset, TaskAssumption DEF PassInv, LittleLeft
<1>2. TypeOK /\ [Next]_vars => [InPass /\ loop' # loop /\ loop'.pc # "down" => Further]_vars
  BY FurtherStep
<1> QED
  BY <1>1, <1>2, TypeCorrect, OrderAlways, PassAlways, PTL DEF Spec, PassGoesOn
=============================================================================
