------------------------- MODULE SupervisionProofs -------------------------
(***************************************************************************)
(* TLAPS proofs about Supervision, for every set of workers, every number  *)
(* of devices and every value of the bounds.                               *)
(***************************************************************************)
EXTENDS Supervision, TLAPS

\* One element of proc, one of row, one of mem.
Process == [st : ProcState, job : Row \cup {0}, child : BOOLEAN, sig : Seq(Signal)]
Columns == [dev : Dev \cup {NoDev}, enabled : BOOLEAN, done : BOOLEAN, pid : PidOrNone]
Memory  == [pc : WorkerPc, todo : SUBSET Listed, cur : RowOfPid, i : Nat,
            ids : [1..NDev -> RowId], failed : [1..NDev -> 0..MaxFailed]]
Control == [pc : SchedPc, sig : Seq(Signal), toStop : SUBSET Row,
            toStart : SUBSET Row, target : Row \cup {0}]

----------------------------------------------------------------------------
(* The operators on a process record.                                      *)

LEMMA SignalQueue ==
    /\ <<>> \in Seq(Signal)
    /\ \A q \in Seq(Signal) : q # <<>> => Tail(q) \in Seq(Signal)
    /\ \A q \in Seq(Signal), s \in Signal : Append(q, s) \in Seq(Signal)
OBVIOUS

\* Signals, death and waitpid keep a process record well formed.
LEMMA ProcessOps ==
    ASSUME NEW x \in Process, NEW s \in Signal \cup {"KILL"}
    PROVE  /\ Dead(x) \in Process /\ Reaped(x) \in Process
           /\ Sent(x, s) \in Process /\ KillProcess(x, s) \in Process
<1>1. <<>> \in Seq(Signal) /\ (s # "KILL" => Append(x.sig, s) \in Seq(Signal))
  BY DEF Process, Signal
<1>2. Dead(x) \in Process
  BY <1>1 DEF Dead, Process, ProcState
<1>3. Reaped(x) \in Process
  BY DEF Reaped, Process, ProcState
<1>4. Sent(x, s) \in Process
  BY <1>1, <1>2 DEF Sent, Process
<1> QED
  BY <1>2, <1>3, <1>4 DEF KillProcess

\* They never change whose process it is, and never bring a process back.
Fades(x, y) ==
    /\ y.job = x.job /\ y.child = x.child
    /\ Live(y) => Live(x)
    /\ Exists(y) => Exists(x)
    /\ x.st = "gone" => y.st = "gone"
    /\ y.st # "none" => x.st # "none"

LEMMA ProcessFades ==
    ASSUME NEW x \in Process, NEW s \in Signal \cup {"KILL"}
    PROVE  /\ Live(x) => Fades(x, Dead(x))
           /\ Fades(x, Reaped(x)) /\ Fades(x, Sent(x, s)) /\ Fades(x, KillProcess(x, s))
<1>1. Live(x) => Fades(x, Dead(x))
  BY DEF Fades, Dead, Live, Exists, Process
<1>2. Fades(x, Reaped(x))
  BY DEF Fades, Reaped, Live, Exists, Process
<1>3. Fades(x, Sent(x, s))
  BY <1>1 DEF Fades, Sent, Live, Exists, Process
<1> QED
  BY <1>1, <1>2, <1>3 DEF KillProcess

----------------------------------------------------------------------------
(* Type correctness.                                                       *)

\* TypeOK in terms of the record sets above.
LEMMA TypeOKParts ==
    TypeOK <=> /\ rows \subseteq DaqRow /\ nextRow \in 1..(MaxRow + 1)
               /\ row \in [Row -> Columns]
               /\ proc \in [Pid -> Process] /\ nextPid \in 1..(MaxPid + 1)
               /\ mem \in [Pid -> Memory]
               /\ sch \in Control
               /\ tracked \in [Row -> PidOrNone] /\ events \in 0..MaxEvents
BY DEF TypeOK, Columns, Process, Memory, Control

LEMMA InitTypeOK == Init => TypeOK
<1> SUFFICES ASSUME Init PROVE TypeOK
  OBVIOUS
<1> USE SupervisionAssumption DEF Init
<1>1. row \in [Row -> Columns]
  BY DEF Columns, PidOrNone
<1>2. proc \in [Pid -> Process]
  BY DEF NoProcess, Process, ProcState
<1>3. mem \in [Pid -> Memory]
  BY DEF NoMem, Memory, WorkerPc, RowOfPid, RowId, PidOrNone
<1>4. sch \in Control
  BY DEF Control, SchedPc
<1>5. tracked \in [Row -> PidOrNone] /\ events \in 0..MaxEvents
  BY DEF PidOrNone
<1>6. rows \subseteq DaqRow /\ nextRow \in 1..(MaxRow + 1) /\ nextPid \in 1..(MaxPid + 1)
  OBVIOUS
<1> QED
  BY <1>1, <1>2, <1>3, <1>4, <1>5, <1>6, TypeOKParts

\* Rounds of signals and waitpid over all of PROCESSES.
LEMMA SignalAllTypes ==
    ASSUME TypeOK, NEW s \in Signal \cup {"KILL"}
    PROVE  /\ KillProcesses(s) \in [Pid -> Process]
           /\ Popped \in [Row -> PidOrNone]
<1>1. proc \in [Pid -> Process] /\ tracked \in [Row -> PidOrNone]
  BY TypeOKParts
<1>2. KillProcesses(s) \in [Pid -> Process]
  BY <1>1, ProcessOps DEF KillProcesses
<1>3. Popped \in [Row -> PidOrNone]
  BY <1>1, SupervisionAssumption DEF Popped, PidOrNone
<1> QED
  BY <1>2, <1>3

\* What a step of the scheduler may leave in its variables.
LEMMA SchedStepTypeOK ==
    ASSUME TypeOK, SchedStep
    PROVE  TypeOK'
<1> USE SupervisionAssumption
<1>0. /\ rows \subseteq DaqRow /\ nextRow \in 1..(MaxRow + 1)
      /\ row \in [Row -> Columns]
      /\ proc \in [Pid -> Process] /\ nextPid \in 1..(MaxPid + 1)
      /\ mem \in [Pid -> Memory] /\ sch \in Control
      /\ tracked \in [Row -> PidOrNone] /\ events \in 0..MaxEvents
  BY TypeOKParts
<1> DEFINE Goal == /\ rows' \subseteq DaqRow /\ row' \in [Row -> Columns]
                   /\ proc' \in [Pid -> Process] /\ nextPid' \in 1..(MaxPid + 1)
                   /\ sch' \in Control /\ tracked' \in [Row -> PidOrNone]
<1> SUFFICES Goal /\ UNCHANGED <<nextRow, mem, events>>
  BY <1>0 DEF TypeOK, Columns, Process, Memory, Control
<1>1. CASE SchedSnapshot
  BY <1>0, <1>1 DEF SchedSnapshot, Control, SchedPc, table, Row
<1>2. CASE SchedKillRound
  <2> DEFINE p == tracked[sch.target]
  <2>1. CASE proc[p].st = "gone"
    <3>1. UNCHANGED <<table, proc, nextPid, mem, events>>
      BY <1>2, <2>1 DEF SchedKillRound
    <3>2. sch' \in Control
      BY <1>0, <1>2, <2>1 DEF SchedKillRound, Control, SchedPc
    <3>3. tracked' \in [Row -> PidOrNone]
      BY <1>0, <1>2, <2>1 DEF SchedKillRound, PidOrNone
    <3> QED
      BY <1>0, <3>1, <3>2, <3>3 DEF table
  <2>2. CASE proc[p].st # "gone"
    <3>1. \A q \in Pid : KillProcess(proc[q], "TERM") \in Process
      BY <1>0, ProcessOps DEF Signal
    <3>2. proc' = [proc EXCEPT ![p] = KillProcess(proc[p], "TERM")]
      BY <1>2, <2>2 DEF SchedKillRound
    <3>3. proc' \in [Pid -> Process]
      BY <1>0, <3>1, <3>2
    <3> QED
      BY <1>0, <1>2, <2>2, <3>3 DEF SchedKillRound, table
  <2> QED
    BY <2>1, <2>2
<1>3. CASE SchedKillTimeout
  BY <1>0, <1>3, ProcessOps DEF SchedKillTimeout, Control, SchedPc, table
<1>4. CASE SchedSweep
  <2>1. proc' \in [Pid -> Process]
    BY <1>0, <1>4, ProcessOps DEF SchedSweep, Signal
  <2>2. row' \in [Row -> Columns]
    BY <1>0, <1>4 DEF SchedSweep, Columns, PidOrNone
  <2>3. tracked' \in [Row -> PidOrNone]
    BY <1>4, SignalAllTypes DEF SchedSweep, Signal
  <2> QED
    BY <1>0, <1>4, <2>1, <2>2, <2>3 DEF SchedSweep, Control, SchedPc
<1>5. CASE SchedTerm
  BY <1>0, <1>5, SignalQueue DEF SchedTerm, Control, SchedPc, table
<1>6. CASE SchedStopRound
  BY <1>0, <1>6, SignalAllTypes DEF SchedStopRound, table, Signal
<1>7. CASE SchedStopEnd
  <2>1. KillProcesses("KILL") \in [Pid -> Process]
    BY SignalAllTypes
  <2>2. proc' \in [Pid -> Process]
    BY <1>7, <2>1, ProcessOps DEF SchedStopEnd, Signal
  <2> QED
    <3>1. sch' \in Control
      BY <1>0, <1>7, SignalQueue DEF SchedStopEnd, Control, SchedPc
    <3>2. tracked' \in [Row -> PidOrNone]
      BY <1>7 DEF SchedStopEnd, PidOrNone
    <3> QED
      BY <1>0, <1>7, <2>2, <3>1, <3>2 DEF SchedStopEnd, table
<1>8. CASE SchedRestart
  <2>1. proc' \in [Pid -> Process] /\ tracked' \in [Row -> PidOrNone]
    BY <1>8, SignalAllTypes DEF SchedRestart, Signal
  <2> QED
    BY <1>0, <1>8, <2>1, SignalQueue DEF SchedRestart, Control, SchedPc, table
<1>9. CASE SchedRestartKill
  BY <1>0, <1>9, SignalAllTypes DEF SchedRestartKill, Control, SchedPc, table
<1>10. ASSUME NEW r \in Row, SchedSpawn(r) PROVE Goal /\ UNCHANGED <<nextRow, mem, events>>
  <2>1. nextPid \in PidOrNone /\ nextPid + 1 \in 1..(MaxPid + 1)
    BY <1>0, <1>10 DEF SchedSpawn, PidOrNone
  <2>2. [st |-> "forked", job |-> r, child |-> TRUE, sig |-> <<>>] \in Process
    BY <1>10, SignalQueue DEF Process, ProcState
  <2> QED
    BY <1>0, <1>10, <2>1, <2>2 DEF SchedSpawn, Control, table
<1>11. ASSUME NEW r \in Row, SchedKillBegin(r) PROVE Goal /\ UNCHANGED <<nextRow, mem, events>>
  BY <1>0, <1>11 DEF SchedKillBegin, Control, SchedPc, table
<1> QED
  BY <1>1, <1>2, <1>3, <1>4, <1>5, <1>6, <1>7, <1>8, <1>9, <1>10, <1>11 DEF SchedStep

\* The parts of TypeOK a step may use, at the element in question.
LEMMA SentTypes ==
    ASSUME TypeOK
    PROVE  /\ \A p \in Pid : Dead(proc[p]) \in Process
           /\ \A p \in Pid, s \in Signal \cup {"KILL"} : Sent(proc[p], s) \in Process
           /\ \A r \in Row : PidCleared(r) \in [Row -> Columns]
<1>1. proc \in [Pid -> Process] /\ row \in [Row -> Columns]
  BY TypeOKParts
<1>2. \A r \in Row : PidCleared(r) \in [Row -> Columns]
  BY <1>1, SupervisionAssumption DEF PidCleared, Columns, PidOrNone
<1> QED
  BY <1>1, <1>2, ProcessOps DEF Signal

LEMMA InsertRowTypes ==
    ASSUME TypeOK, NEW w \in Worker, NEW i \in 1..NDev, InsertRow(w, i)
    PROVE  /\ nextRow \in DaqRow /\ nextRow \in RowId
           /\ rows' \subseteq DaqRow /\ nextRow' \in 1..(MaxRow + 1)
           /\ row' \in [Row -> Columns]
<1> USE SupervisionAssumption
<1>1. rows \subseteq DaqRow /\ nextRow \in 1..(MaxRow + 1) /\ row \in [Row -> Columns]
  BY TypeOKParts
<1>2. nextRow \in DaqRow /\ nextRow \in RowId /\ nextRow' \in 1..(MaxRow + 1)
  BY <1>1 DEF InsertRow, DaqRow, RowId
<1>3. [dev |-> <<w, i>>, enabled |-> TRUE, done |-> FALSE, pid |-> 0] \in Columns
  BY DEF Columns, Dev, PidOrNone
<1> QED
  BY <1>1, <1>2, <1>3 DEF InsertRow, Row

LEMMA FreshMemory == NoMem \in Memory /\ [NoMem EXCEPT !.pc = "create"] \in Memory
<1>1. NoMem \in Memory
  BY SupervisionAssumption DEF NoMem, Memory, WorkerPc, RowOfPid, RowId, PidOrNone
<1> QED
  BY <1>1 DEF Memory, WorkerPc

LEMMA AfterStopTypes ==
    ASSUME NEW m \in Memory, NEW stopped \in BOOLEAN
    PROVE  AfterStop(m, stopped) \in Memory
<1>1. m.i + 1 \in Nat /\ m.i + 2 \in Nat
  BY DEF Memory
<1> QED
  BY <1>1 DEF AfterStop, Memory, WorkerPc

\* While init_process creates rows, i is the device at hand.
CreateOK == \A p \in Pid : mem[p].pc = "create" => mem[p].i \in 1..NDev

LEMMA WorkerStepTypeOK ==
    ASSUME TypeOK, CreateOK, NEW p \in Pid, WorkerStep(p)
    PROVE  TypeOK'
<1> USE SupervisionAssumption
<1>0. /\ rows \subseteq DaqRow /\ nextRow \in 1..(MaxRow + 1)
      /\ row \in [Row -> Columns]
      /\ proc \in [Pid -> Process] /\ nextPid \in 1..(MaxPid + 1)
      /\ mem \in [Pid -> Memory] /\ sch \in Control
      /\ tracked \in [Row -> PidOrNone] /\ events \in 0..MaxEvents
  BY TypeOKParts
<1> DEFINE Goal == /\ rows' \subseteq DaqRow /\ nextRow' \in 1..(MaxRow + 1)
                   /\ row' \in [Row -> Columns] /\ proc' \in [Pid -> Process]
                   /\ mem' \in [Pid -> Memory]
                   /\ UNCHANGED <<nextPid, sch, tracked, events>>
<1> SUFFICES Goal
  BY <1>0 DEF TypeOK, Columns, Process, Memory, Control
<1>m. mem[p] \in Memory /\ proc[p] \in Process
  BY <1>0
<1>1. CASE WorkerList(p)
  <2>1. {[id |-> r, pid |-> row[r].pid, enabled |-> row[r].enabled] :
             r \in {k \in Kids(proc[p].job) : ~row[k].done}} \in SUBSET Listed
    BY <1>0 DEF Kids, Listed, Columns, Row
  <2> QED
    BY <1>0, <1>m, <1>1, <2>1 DEF WorkerList, Memory, WorkerPc, table
<1>2. CASE WorkerWait(p)
  <2> DEFINE pid == mem[p].cur.pid
  <2>1. CASE proc[pid].st = "gone"
    BY <1>0, <1>m, <1>2, <2>1, AfterStopTypes DEF WorkerWait, table
  <2>2. CASE proc[pid].st # "gone"
    <3>1. proc' = [proc EXCEPT ![pid] = Sent(proc[pid], "TERM")]
      BY <1>2, <2>2 DEF WorkerWait
    <3>2. proc' \in [Pid -> Process]
      BY <1>0, <3>1, SentTypes DEF Signal
    <3> QED
      BY <1>0, <1>2, <2>2, <3>2 DEF WorkerWait, table
  <2> QED
    BY <2>1, <2>2
<1>3. CASE WorkerWaitTimeout(p)
  <2> DEFINE pid == mem[p].cur.pid
  <2>1. proc' = proc \/ proc' = [proc EXCEPT ![pid] = Sent(proc[pid], "KILL")]
    BY <1>3 DEF WorkerWaitTimeout
  <2>2. proc' \in [Pid -> Process]
    BY <1>0, <2>1, SentTypes
  <2>3. mem' \in [Pid -> Memory]
    BY <1>0, <1>m, <1>3, AfterStopTypes DEF WorkerWaitTimeout
  <2> QED
    BY <1>0, <1>3, <2>2, <2>3 DEF WorkerWaitTimeout
<1>4. CASE WorkerClean(p)
  BY <1>0, <1>4, FreshMemory DEF WorkerClean
<1>5. CASE WorkerCreate(p)
  <2> DEFINE i == mem[p].i
  <2>1. i \in 1..NDev /\ proc[p].job \in Worker /\ InsertRow(proc[p].job, i)
    BY <1>5 DEF WorkerCreate, In, IsWorker, CreateOK
  <2>2. /\ nextRow \in RowId /\ rows' \subseteq DaqRow
        /\ nextRow' \in 1..(MaxRow + 1) /\ row' \in [Row -> Columns]
    BY <2>1, InsertRowTypes
  <2>3. [mem[p] EXCEPT !.ids[i] = nextRow,
                       !.i  = IF i = NDev /\ proc[p].sig = <<>> THEN 1 ELSE i + 1,
                       !.pc = IF i = NDev THEN "loop" ELSE "create"] \in Memory
    <3>1. [mem[p].ids EXCEPT ![i] = nextRow] \in [1..NDev -> RowId]
      BY <1>m, <2>1, <2>2 DEF Memory
    <3>2. (IF i = NDev /\ proc[p].sig = <<>> THEN 1 ELSE i + 1) \in Nat
      BY <2>1
    <3>3. (IF i = NDev THEN "loop" ELSE "create") \in WorkerPc
      BY DEF WorkerPc
    <3> HIDE DEF i
    <3> QED
      BY <1>m, <3>1, <3>2, <3>3 DEF Memory
  <2>4. mem' \in [Pid -> Memory]
    BY <1>0, <1>5, <2>3 DEF WorkerCreate
  <2>5. proc' \in [Pid -> Process]
    BY ZenonT(40), <1>0, <1>5 DEF WorkerCreate, Process, ProcState
  <2> QED
    BY <1>5, <2>2, <2>4, <2>5 DEF WorkerCreate
<1>6. CASE WorkerStop(p)
  BY <1>0, <1>m, <1>6, FreshMemory, SentTypes
     DEF WorkerStop, WorkerExit, In, IsWorker, Row
<1>7. CASE WorkerRestart(p)
  <2>1. [proc[p] EXCEPT !.sig = Tail(@)] \in Process
    BY <1>m, <1>7, SignalQueue DEF WorkerRestart, Signalled, Process
  <2>2. [mem[p] EXCEPT !.pc = "restart", !.i = 1] \in Memory
    BY <1>m DEF Memory, WorkerPc
  <2> QED
    BY <1>0, <1>7, <2>1, <2>2 DEF WorkerRestart, table
<1>8. CASE WorkerRestartNext(p)
  <2> DEFINE i == mem[p].i
             r == IF i \in 1..NDev THEN mem[p].ids[i] ELSE 0
  <2>0. /\ UNCHANGED <<rows, nextRow, proc, nextPid, sch, tracked, events>>
        /\ \/ /\ r \in rows /\ row' = [row EXCEPT ![r].done = TRUE]
              /\ mem' = [mem EXCEPT ![p] = [@ EXCEPT !.pc = "rwait",
                                         !.cur = [id |-> r, pid |-> row[r].pid]]]
           \/ /\ row' = row
              /\ \/ mem' = [mem EXCEPT ![p] = [@ EXCEPT !.pc = "list"]]
                 \/ mem' = [mem EXCEPT ![p] = [@ EXCEPT !.i = i + 1]]
    BY <1>8 DEF WorkerRestartNext
  <2>1. i + 1 \in Nat
    BY <1>m DEF Memory
  <2>2. [mem[p] EXCEPT !.pc = "list"] \in Memory /\ [mem[p] EXCEPT !.i = i + 1] \in Memory
    BY <1>m, <2>1 DEF Memory, WorkerPc
  <2> HIDE DEF r, i
  <2>3. ASSUME r \in rows
        PROVE  /\ [mem[p] EXCEPT !.pc = "rwait", !.cur = [id |-> r, pid |-> row[r].pid]] \in Memory
               /\ [row EXCEPT ![r].done = TRUE] \in [Row -> Columns]
    <3>1. r \in RowId /\ r \in Row
      BY <1>0, <2>3 DEF RowId, Row, DaqRow
    <3>2. row[r] \in Columns /\ row[r].pid \in PidOrNone
      BY <1>0, <3>1 DEF Columns
    <3>3. [mem[p] EXCEPT !.pc = "rwait", !.cur = [id |-> r, pid |-> row[r].pid]] \in Memory
      BY <1>m, <3>1, <3>2 DEF Memory, WorkerPc, RowOfPid
    <3> QED
      BY <1>0, <3>1, <3>3 DEF Columns
  <2> QED
    BY <1>0, <1>m, <2>0, <2>2, <2>3
<1>9. ASSUME NEW e \in mem[p].todo, WorkerDropDead(p, e) PROVE Goal
  <2>1. [mem[p] EXCEPT !.todo = @ \ {e}] \in Memory
    BY <1>m DEF Memory
  <2> QED
    BY <1>0, <1>9, <2>1 DEF WorkerDropDead
<1>10. ASSUME NEW e \in mem[p].todo, WorkerStopBegin(p, e) PROVE Goal
  <2> DEFINE c == [id |-> e.id, pid |-> e.pid]
  <2>1. /\ e.id \in DaqRow /\ e.pid \in PidOrNone /\ e.enabled \in BOOLEAN
        /\ c \in RowOfPid
    BY <1>m DEF Memory, Listed, RowOfPid, RowId, DaqRow
  <2>2. [mem[p] EXCEPT !.todo = @ \ {e}, !.cur = c, !.pc = "wait"] \in Memory
    <3> HIDE DEF c
    <3> QED
      BY <1>m, <2>1 DEF Memory, WorkerPc
  <2>3. row' \in [Row -> Columns]
    <3>1. e.id \in Row
      BY <2>1 DEF Row
    <3>2. [row[e.id] EXCEPT !.done = TRUE, !.pid = e.pid, !.enabled = e.enabled] \in Columns
      BY <1>0, <2>1, <3>1 DEF Columns
    <3>3. row' = [row EXCEPT ![e.id] = [@ EXCEPT !.done = TRUE, !.pid = e.pid,
                                                 !.enabled = e.enabled]]
      BY <1>10 DEF WorkerStopBegin
    <3> QED
      BY <1>0, <3>2, <3>3
  <2> QED
    BY <1>0, <1>10, <2>1, <2>2, <2>3 DEF WorkerStopBegin
<1>11. ASSUME NEW e \in mem[p].todo, WorkerStopOnce(p, e) PROVE Goal
  <2>1. [mem[p] EXCEPT !.todo = @ \ {e}] \in Memory
    BY <1>m DEF Memory
  <2>2. proc' = proc \/ proc' = [proc EXCEPT ![e.pid] = Sent(proc[e.pid], "TERM")]
    BY <1>11 DEF WorkerStopOnce
  <2>3. proc' \in [Pid -> Process]
    BY <1>0, <2>2, SentTypes DEF Signal
  <2> QED
    BY <1>0, <1>11, <2>1, <2>3 DEF WorkerStopOnce, table
<1>12. ASSUME NEW i \in 1..NDev, WorkerRespawn(p, i) PROVE Goal
  <2>1. proc[p].job \in Worker /\ InsertRow(proc[p].job, i)
    BY <1>12 DEF WorkerRespawn, In, IsWorker
  <2>2. /\ nextRow \in RowId /\ rows' \subseteq DaqRow
        /\ nextRow' \in 1..(MaxRow + 1) /\ row' \in [Row -> Columns]
    BY <2>1, InsertRowTypes
  <2>3. mem[p].failed[i] + 1 \in 0..MaxFailed
    BY <1>m, <1>12 DEF WorkerRespawn, Memory
  <2>4. [mem[p] EXCEPT !.ids[i] = nextRow, !.failed[i] = @ + 1, !.i = NextInPass(p, i)]
          \in Memory
    <3>1. NextInPass(p, i) \in Nat
      BY DEF NextInPass
    <3> QED
      BY <1>m, <2>2, <2>3, <3>1 DEF Memory
  <2>5. mem' \in [Pid -> Memory]
    BY <1>0, <1>12, <2>4 DEF WorkerRespawn
  <2> QED
    BY <1>0, <1>12, <2>2, <2>5 DEF WorkerRespawn
<1> QED
  BY <1>1, <1>2, <1>3, <1>4, <1>5, <1>6, <1>7, <1>8, <1>9, <1>10, <1>11, <1>12
     DEF WorkerStep

LEMMA ProcessStepTypeOK ==
    ASSUME TypeOK, CreateOK, NEW p \in Pid, ProcessStep(p)
    PROVE  TypeOK'
<1> USE SupervisionAssumption
<1>0. /\ rows \subseteq DaqRow /\ nextRow \in 1..(MaxRow + 1)
      /\ row \in [Row -> Columns]
      /\ proc \in [Pid -> Process] /\ nextPid \in 1..(MaxPid + 1)
      /\ mem \in [Pid -> Memory] /\ sch \in Control
      /\ tracked \in [Row -> PidOrNone] /\ events \in 0..MaxEvents
  BY TypeOKParts
<1>1. CASE WorkerStep(p)
  BY <1>1, WorkerStepTypeOK
<1> DEFINE Goal == /\ rows' \subseteq DaqRow /\ row' \in [Row -> Columns]
                   /\ proc' \in [Pid -> Process]
                   /\ UNCHANGED <<nextRow, nextPid, mem, sch, tracked, events>>
<1>2. Goal => TypeOK'
  BY <1>0 DEF TypeOK, Columns, Process, Memory, Control
<1>3. proc[p] \in Process
  BY <1>0
<1>4. ASSUME Register(p) PROVE Goal
  <2>1. row' \in [Row -> Columns]
    <3>1. p \in PidOrNone
      BY DEF Pid, PidOrNone
    <3> DEFINE new(r) == [row[r] EXCEPT !.pid = p, !.done = FALSE]
    <3>2. \A r \in Row : new(r) \in Columns
      BY <1>0, <3>1 DEF Columns
    <3>3. row' = row \/ row' = [row EXCEPT ![proc[p].job] = new(proc[p].job)]
      BY <1>4 DEF Register
    <3> HIDE DEF new
    <3> QED
      BY <1>0, <3>2, <3>3
  <2>2. [proc[p] EXCEPT !.st = "registered"] \in Process
    BY <1>3 DEF Process, ProcState
  <2> QED
    BY <1>0, <1>4, <2>1, <2>2 DEF Register
<1>5. ASSUME Ready(p) PROVE Goal
  <2>1. \A st \in {"init", "run"} : [proc[p] EXCEPT !.st = st] \in Process
    BY <1>3 DEF Process, ProcState
  <2> QED
    BY <1>0, <1>5, <2>1 DEF Ready, table
<1>6. ASSUME DaqStop(p) PROVE Goal
  <2>1. [proc[p] EXCEPT !.st = "stopping", !.sig = <<>>] \in Process
    BY <1>3, SignalQueue DEF Process, ProcState
  <2>2. row' \in [Row -> Columns]
    BY <1>6, SentTypes DEF DaqStop, DaqStopping, IsDaq, Row
  <2> QED
    BY <1>0, <1>6, <2>1, <2>2 DEF DaqStop, DaqStopping
<1>7. ASSUME DaqExit(p) PROVE Goal
  BY <1>0, <1>7, SentTypes DEF DaqExit
<1>8. ASSUME DaqReinit(p) PROVE Goal
  <2>1. [proc[p] EXCEPT !.sig = Tail(@)] \in Process
    BY <1>3, <1>8, SignalQueue DEF DaqReinit, Signalled, Process
  <2> QED
    BY <1>0, <1>8, <2>1 DEF DaqReinit, table
<1> QED
  BY <1>1, <1>2, <1>4, <1>5, <1>6, <1>7, <1>8 DEF ProcessStep, DaqStep

LEMMA EnvironmentTypeOK ==
    ASSUME TypeOK, Environment
    PROVE  TypeOK'
<1> USE SupervisionAssumption
<1>0. /\ rows \subseteq DaqRow /\ nextRow \in 1..(MaxRow + 1)
      /\ row \in [Row -> Columns]
      /\ proc \in [Pid -> Process] /\ nextPid \in 1..(MaxPid + 1)
      /\ mem \in [Pid -> Memory] /\ sch \in Control
      /\ tracked \in [Row -> PidOrNone] /\ events \in 0..MaxEvents
  BY TypeOKParts
<1> DEFINE Goal == /\ rows' \subseteq DaqRow /\ row' \in [Row -> Columns]
                   /\ proc' \in [Pid -> Process] /\ mem' \in [Pid -> Memory]
                   /\ sch' \in Control /\ tracked' \in [Row -> PidOrNone]
                   /\ events' \in 0..MaxEvents /\ UNCHANGED <<nextRow, nextPid>>
<1> SUFFICES Goal
  BY <1>0 DEF TypeOK, Columns, Process, Memory, Control
<1>e. \A who, what : Event(who, what) => events' \in 0..MaxEvents
  BY <1>0 DEF Event
<1>d. \A p \in Pid : Dead(proc[p]) \in Process
  BY SentTypes
<1>1. CASE SchedCrash
  <2>1. \A p \in Pid : Reaped(proc[p]) \in Process
    BY <1>0, ProcessOps DEF Signal
  <2>2. proc' \in [Pid -> Process]
    BY <1>1, <2>1 DEF SchedCrash, Process
  <2>3. sch' \in Control
    BY <1>1, SignalQueue DEF SchedCrash, Control, SchedPc
  <2>4. tracked' \in [Row -> PidOrNone]
    BY <1>1 DEF SchedCrash, PidOrNone
  <2> QED
    BY <1>0, <1>e, <1>1, <2>2, <2>3, <2>4 DEF SchedCrash, table
<1>2. CASE SchedStart
  <2> DEFINE stale == {r \in rows : ~row[r].done /\ ~row[Parent(r)].done}
             mid(p) == IF \E r \in stale : row[r].pid = p THEN Sent(proc[p], "TERM")
                       ELSE proc[p]
  <2>1. \A p \in Pid : mid(p) \in Process
    BY <1>0, SentTypes DEF Signal
  <2>2. proc' = [p \in Pid |-> [mid(p) EXCEPT !.child = FALSE]]
    BY <1>2 DEF SchedStart
  <2> HIDE DEF mid
  <2>3. proc' \in [Pid -> Process]
    BY <2>1, <2>2 DEF Process
  <2>4. sch' \in Control
    BY <1>0, <1>2, SignalQueue DEF SchedStart, Control, SchedPc
  <2> QED
    BY <1>0, <1>e, <1>2, <2>3, <2>4 DEF SchedStart
<1>3. ASSUME NEW s \in {"TERM", "USR1"}, SchedSignal(s) PROVE Goal
  <2>1. sch' \in Control
    BY <1>0, <1>3, SignalQueue DEF SchedSignal, Control, Signal
  <2> QED
    BY <1>0, <1>e, <1>3, <2>1 DEF SchedSignal, table
<1>4. ASSUME NEW p \in Pid, Kill(p) PROVE Goal
  BY <1>0, <1>e, <1>d, <1>4, FreshMemory DEF Kill, table
<1>5. ASSUME NEW p \in Pid, InitFail(p) PROVE Goal
  <2>1. sch' \in Control
    BY <1>0, <1>5, SignalQueue DEF InitFail, Control, Signal
  <2> QED
    BY <1>0, <1>e, <1>d, <1>5, <2>1, FreshMemory DEF InitFail, table
<1>6. ASSUME NEW p \in Pid, WorkerFail(p) PROVE Goal
  BY <1>0, <1>e, <1>d, <1>6, FreshMemory, SentTypes
     DEF WorkerFail, WorkerExit, IsWorker, Row
<1>7. ASSUME NEW p \in Pid, DaqFail(p) PROVE Goal
  <2>1. [proc[p] EXCEPT !.st = "stopping", !.sig = <<>>] \in Process
    BY <1>0, SignalQueue DEF Process, ProcState
  <2>2. row' \in [Row -> Columns]
    BY <1>7, SentTypes DEF DaqFail, DaqStopping, IsDaq, Row
  <2> QED
    BY <1>0, <1>e, <1>7, <2>1, <2>2 DEF DaqFail, DaqStopping
<1>8. ASSUME NEW r \in Row, AdminToggle(r) PROVE Goal
  <2>1. row' \in [Row -> Columns]
    BY <1>0, <1>8 DEF AdminToggle, Columns
  <2> QED
    BY <1>0, <1>e, <1>8, <2>1 DEF AdminToggle
<1>9. ASSUME NEW r \in Row, NEW s \in {"TERM", "USR1"}, AdminSignal(r, s) PROVE Goal
  <2>1. proc' = [proc EXCEPT ![row[r].pid] = Sent(proc[row[r].pid], s)]
    BY <1>9 DEF AdminSignal
  <2>2. proc' \in [Pid -> Process]
    BY <1>0, <2>1, SentTypes DEF Signal
  <2> QED
    BY <1>0, <1>e, <1>9, <2>2 DEF AdminSignal, table
<1> QED
  BY <1>1, <1>2, <1>3, <1>4, <1>5, <1>6, <1>7, <1>8, <1>9 DEF Environment

\* Only init_process moves i through the devices, one at a time.
LEMMA NextCreateOK ==
    ASSUME TypeOK, CreateOK, [Next]_vars
    PROVE  CreateOK'
<1> USE SupervisionAssumption
<1>0. mem \in [Pid -> Memory]
  BY TypeOKParts
<1>1. CASE UNCHANGED mem
  BY <1>1 DEF CreateOK
<1>2. ASSUME NEW p \in Pid, mem' = [mem EXCEPT ![p] = NoMem] PROVE CreateOK'
  BY <1>0, <1>2 DEF CreateOK, NoMem
<1>3. ASSUME NEW p \in Pid, NEW m, mem' = [mem EXCEPT ![p] = m],
             m.pc = "create" => m.i \in 1..NDev
      PROVE  CreateOK'
  BY <1>0, <1>3 DEF CreateOK
<1>4. ASSUME NEW p \in Pid, WorkerStep(p) PROVE CreateOK'
  <2>1. mem[p] \in Memory
    BY <1>0
  <2>2. CASE WorkerList(p)
    BY <1>0, <2>2 DEF WorkerList, CreateOK
  <2>3. ASSUME WorkerWait(p) \/ WorkerWaitTimeout(p) PROVE CreateOK'
    <3>1. \A b \in BOOLEAN : AfterStop(mem[p], b).pc # "create"
      BY <2>1 DEF AfterStop, Memory
    <3> QED
      BY <1>0, <1>1, <2>3, <3>1 DEF WorkerWait, WorkerWaitTimeout, CreateOK
  <2>4. CASE WorkerClean(p)
    BY <1>0, <2>4 DEF WorkerClean, NoMem, CreateOK
  <2>5. CASE WorkerCreate(p)
    <3>1. mem[p].i \in 1..NDev
      BY <2>5 DEF WorkerCreate, In, CreateOK
    <3> QED
      BY <1>0, <2>1, <2>5, <3>1 DEF WorkerCreate, CreateOK, Memory
  <2>6. CASE WorkerStop(p)
    BY <1>2, <2>6 DEF WorkerStop, WorkerExit
  <2>7. CASE WorkerRestart(p)
    BY <1>0, <2>7 DEF WorkerRestart, CreateOK
  <2>10. CASE WorkerRestartNext(p)
    <3>1. mem[p].pc = "restart"
      BY <2>10 DEF WorkerRestartNext, In
    <3> DEFINE to(x) == [mem[p] EXCEPT !.pc = "rwait", !.cur = x]
               list == [mem[p] EXCEPT !.pc = "list"]
               skip == [mem[p] EXCEPT !.i = mem[p].i + 1]
    <3>2. (\A x : to(x).pc # "create") /\ list.pc # "create" /\ skip.pc # "create"
      BY SMTT(30), <2>1, <3>1 DEF Memory
    <3>3. \/ \E x : mem' = [mem EXCEPT ![p] = to(x)]
          \/ mem' = [mem EXCEPT ![p] = list] \/ mem' = [mem EXCEPT ![p] = skip]
      BY ZenonT(40), <2>10 DEF WorkerRestartNext
    <3> HIDE DEF to, list, skip
    <3> QED
      BY <1>3, <3>2, <3>3
  <2>8. ASSUME NEW e \in mem[p].todo,
               WorkerDropDead(p, e) \/ WorkerStopBegin(p, e) \/ WorkerStopOnce(p, e)
        PROVE  CreateOK'
    BY ZenonT(40), <1>0, <2>1, <2>8
       DEF WorkerDropDead, WorkerStopBegin, WorkerStopOnce, In, CreateOK, Memory
  <2>9. ASSUME NEW i \in 1..NDev, WorkerRespawn(p, i) PROVE CreateOK'
    BY <1>0, <2>1, <2>9 DEF WorkerRespawn, In, CreateOK, Memory
  <2>11. CASE \E e \in mem[p].todo :
              WorkerDropDead(p, e) \/ WorkerStopBegin(p, e) \/ WorkerStopOnce(p, e)
    BY <2>8, <2>11
  <2>12. CASE \E i \in 1..NDev : WorkerRespawn(p, i)
    BY <2>9, <2>12
  <2> QED
    BY <1>4, <2>2, <2>3, <2>4, <2>5, <2>6, <2>7, <2>10, <2>11, <2>12 DEF WorkerStep
<1>5. CASE SchedStep
  BY <1>1, <1>5 DEF SchedStep, SchedSnapshot, SchedKillRound, SchedKillTimeout, SchedSweep,
     SchedTerm, SchedStopRound, SchedStopEnd, SchedRestart, SchedRestartKill, SchedSpawn,
     SchedKillBegin
<1>6. ASSUME NEW p \in Pid, Register(p) \/ Ready(p) \/ DaqStep(p) PROVE CreateOK'
  BY <1>1, <1>6 DEF Register, Ready, DaqStep, DaqStop, DaqStopping, DaqExit, DaqReinit
<1>7. CASE Environment
  BY <1>1, <1>2, <1>7 DEF Environment, SchedCrash, SchedStart, SchedSignal, Kill, InitFail,
     WorkerFail, WorkerExit, DaqFail, DaqStopping, AdminToggle, AdminSignal
<1> QED
  BY <1>1, <1>4, <1>5, <1>6, <1>7 DEF Next, ProcessStep, vars

----------------------------------------------------------------------------
(* PROCESSES holds every child that has not been reaped. Most steps only    *)
(* make processes fade: they leave PROCESSES alone and bring none to life.  *)

\* A process that exists belongs to a row.
JobOK == \A p \in Pid : proc[p].st # "none" => proc[p].job \in Row

Accounted == JobOK /\ Tracked /\ NoSurvivors

LEMMA FadingStep ==
    ASSUME TypeOK, Accounted,
           \A p \in Pid : Fades(proc[p], proc'[p]),
           tracked' = tracked, sch'.pc = "stopped" => sch.pc = "stopped"
    PROVE  Accounted'
BY DEF Accounted, JobOK, Tracked, NoSurvivors, Fades

\* The same when one process changes, or none.
LEMMA FadingProcess ==
    ASSUME TypeOK, Accounted, NEW p \in Pid, NEW x,
           proc' = [proc EXCEPT ![p] = x], Fades(proc[p], x),
           tracked' = tracked, sch'.pc = "stopped" => sch.pc = "stopped"
    PROVE  Accounted'
<1>1. proc \in [Pid -> Process]
  BY TypeOKParts
<1>2. \A q \in Pid : Fades(proc[q], proc'[q])
  BY <1>1 DEF Fades
<1> QED
  BY <1>2, FadingStep

LEMMA NoProcessStep ==
    ASSUME TypeOK, Accounted, UNCHANGED <<proc, tracked>>,
           sch'.pc = "stopped" => sch.pc = "stopped"
    PROVE  Accounted'
<1>1. \A q \in Pid : Fades(proc[q], proc'[q])
  BY DEF Fades
<1> QED
  BY <1>1, FadingStep

\* A round of signals and waitpid pops only what is gone.
LEMMA KillRound ==
    ASSUME TypeOK, Accounted, NEW s \in Signal \cup {"KILL"},
           proc' = KillProcesses(s), tracked' = Popped, sch'.pc # "stopped"
    PROVE  Accounted'
<1>1. proc \in [Pid -> Process]
  BY TypeOKParts
<1>2. \A p \in Pid : Fades(proc[p], proc'[p])
  <2>1. \A p \in Pid : Fades(proc[p], KillProcess(proc[p], s)) /\ Fades(proc[p], proc[p])
    BY <1>1, ProcessFades DEF Fades
  <2> QED
    BY <2>1 DEF KillProcesses
<1>3. JobOK' /\ NoSurvivors'
  BY <1>2 DEF Accounted, JobOK, NoSurvivors, Fades
<1>4. ASSUME NEW p \in Pid, proc'[p].child, Exists(proc'[p])
      PROVE  tracked'[proc'[p].job] = p
  <2>1. proc[p].child /\ Exists(proc[p]) /\ proc'[p].job = proc[p].job
    BY <1>2, <1>4 DEF Fades
  <2>2. tracked[proc[p].job] = p /\ proc[p].job \in Row
    BY <2>1 DEF Accounted, Tracked, JobOK, Exists, Live
  <2>3. proc[p].st # "gone"
    BY <2>1 DEF Exists, Live
  <2> QED
    BY <2>1, <2>2, <2>3 DEF Popped
<1> QED
  BY <1>3, <1>4 DEF Accounted, Tracked

LEMMA InitAccounted == Init => Accounted
BY DEF Init, Accounted, JobOK, Tracked, NoSurvivors, NoProcess, Exists, Live

LEMMA SchedStepAccounted ==
    ASSUME TypeOK, Accounted, SchedStep
    PROVE  Accounted'
<1> USE SupervisionAssumption
<1>0. proc \in [Pid -> Process] /\ tracked \in [Row -> PidOrNone] /\ sch \in Control
  BY TypeOKParts
<1>1. CASE SchedSnapshot
  BY <1>0, <1>1, NoProcessStep DEF SchedSnapshot, Control
<1>2. CASE SchedKillRound
  <2> DEFINE p == tracked[sch.target]
  <2>1. CASE proc[p].st = "gone"
    <3>1. /\ proc' = proc /\ tracked' = [tracked EXCEPT ![sch.target] = 0]
          /\ sch'.pc = "pass"
      BY <1>0, <1>2, <2>1 DEF SchedKillRound, Control
    <3>2. \A q \in Pid : Exists(proc[q]) => proc[q].st # "gone"
      BY DEF Exists, Live
    <3>3. Tracked'
      BY <1>0, <2>1, <3>1, <3>2 DEF Accounted, Tracked
    <3> QED
      BY <3>1, <3>3 DEF Accounted, JobOK, NoSurvivors
  <2>2. CASE proc[p].st # "gone"
    <3>1. /\ proc' = [proc EXCEPT ![p] = KillProcess(proc[p], "TERM")]
          /\ UNCHANGED <<tracked, sch>>
      BY <1>2, <2>2 DEF SchedKillRound
    <3>2. \A q \in Pid : Fades(proc[q], KillProcess(proc[q], "TERM"))
      BY <1>0, ProcessFades DEF Signal
    <3>3. CASE p \in Pid
      BY <3>1, <3>2, <3>3, FadingProcess
    <3>4. CASE p \notin Pid
      BY <1>0, <3>1, <3>4, NoProcessStep
    <3> QED
      BY <3>3, <3>4
  <2> QED
    BY <2>1, <2>2
<1>3. CASE SchedKillTimeout
  <2> DEFINE p == tracked[sch.target]
  <2>1. /\ proc' = [proc EXCEPT ![p] = KillProcess(proc[p], "KILL")]
        /\ tracked' = tracked /\ sch'.pc = "pass"
    BY <1>0, <1>3 DEF SchedKillTimeout, Control
  <2>2. \A q \in Pid : Fades(proc[q], KillProcess(proc[q], "KILL"))
    BY <1>0, ProcessFades
  <2>3. CASE p \in Pid
    BY <2>1, <2>2, <2>3, FadingProcess
  <2>4. CASE p \notin Pid
    BY <1>0, <2>1, <2>4, NoProcessStep
  <2> QED
    BY <2>3, <2>4
<1>4. CASE SchedSweep
  <2>1. \A p \in Pid : Fades(proc[p], Reaped(proc[p])) /\ Fades(proc[p], proc[p])
    BY <1>0, ProcessFades DEF Signal, Fades
  <2>2. \A p \in Pid : Fades(proc[p], proc'[p])
    BY <1>4, <2>1 DEF SchedSweep
  <2>3. sch'.pc = "idle" /\ tracked' = Popped
    BY <1>0, <1>4 DEF SchedSweep, Control
  <2>4. JobOK' /\ NoSurvivors'
    BY <2>2, <2>3 DEF Accounted, JobOK, NoSurvivors, Fades
  <2>5. ASSUME NEW p \in Pid, proc'[p].child, Exists(proc'[p])
        PROVE  tracked'[proc'[p].job] = p
    <3>1. proc[p].child /\ Exists(proc[p]) /\ proc'[p].job = proc[p].job
      BY <2>2, <2>5 DEF Fades
    <3>2. tracked[proc[p].job] = p /\ proc[p].job \in Row /\ proc[p].st # "gone"
      BY <3>1 DEF Accounted, Tracked, JobOK, Exists, Live
    <3> QED
      BY <2>3, <3>1, <3>2 DEF Popped
  <2> QED
    BY <2>4, <2>5 DEF Accounted, Tracked
<1>5. CASE SchedTerm
  BY <1>0, <1>5, NoProcessStep DEF SchedTerm, Control
<1>6. CASE SchedStopRound
  BY <1>0, <1>6, KillRound DEF SchedStopRound, Signal
<1>7. CASE SchedStopEnd
  <2>1. \A p \in Pid : Fades(proc[p], KillProcess(proc[p], "KILL")) /\ Fades(proc[p], proc[p])
    BY <1>0, ProcessFades DEF Fades
  <2>2. \A p \in Pid : KillProcesses("KILL")[p] \in Process /\ Fades(proc[p], KillProcesses("KILL")[p])
    BY <1>0, <2>1, SignalAllTypes DEF KillProcesses
  <2>3. \A p \in Pid : proc'[p] = Reaped(KillProcesses("KILL")[p])
    BY <1>7 DEF SchedStopEnd
  <2>4. \A p \in Pid : Fades(proc[p], proc'[p])
    BY <2>2, <2>3, ProcessFades DEF Fades
  <2>5. ASSUME NEW p \in Pid, proc'[p].child PROVE ~Exists(proc'[p])
    <3>1. CASE ~Exists(proc[p])
      BY <2>4, <3>1 DEF Fades
    <3>2. CASE Exists(proc[p])
      <4>1. proc[p].child /\ tracked[proc[p].job] = p /\ proc[p].job \in Row
        BY <2>4, <2>5, <3>2 DEF Fades, Accounted, Tracked, JobOK, Exists, Live
      <4>2. KillProcesses("KILL")[p] = KillProcess(proc[p], "KILL")
        BY <4>1 DEF KillProcesses
      <4>3. KillProcess(proc[p], "KILL").st \in {"zombie", "gone"}
        BY <1>0, <3>2 DEF KillProcess, Reaped, Sent, Dead, Exists, Live, Process
      <4> QED
        BY <2>2, <2>3, <4>2, <4>3 DEF Reaped, Exists, Live, Process
    <3> QED
      BY <3>1, <3>2
  <2> QED
    BY <2>4, <2>5 DEF Accounted, JobOK, Tracked, NoSurvivors, Fades, Exists
<1>8. CASE SchedRestart
  BY <1>0, <1>8, KillRound DEF SchedRestart, Signal, Control
<1>9. CASE SchedRestartKill
  BY <1>0, <1>9, KillRound DEF SchedRestartKill, Control
<1>10. ASSUME NEW r \in Row, SchedSpawn(r) PROVE Accounted'
  <2> DEFINE child == [st |-> "forked", job |-> r, child |-> TRUE, sig |-> <<>>]
  <2>1. /\ proc' = [proc EXCEPT ![nextPid] = child] /\ nextPid \in Pid
        /\ tracked' = [tracked EXCEPT ![r] = nextPid] /\ tracked[r] = 0
        /\ sch'.pc = "pass"
    BY <1>0, <1>10, TypeOKParts DEF SchedSpawn, MustSpawn, Control, Pid
  <2>2. ASSUME NEW p \in Pid, proc'[p].child, Exists(proc'[p])
        PROVE  tracked'[proc'[p].job] = p
    <3>1. CASE p = nextPid
      BY <1>0, <2>1, <3>1
    <3>2. CASE p # nextPid
      <4>1. proc'[p] = proc[p]
        BY <1>0, <2>1, <3>2
      <4>2. tracked[proc[p].job] = p /\ proc[p].job # r
        BY <2>1, <2>2, <4>1 DEF Accounted, Tracked, Pid
      <4> QED
        BY <1>0, <2>1, <2>2, <4>1, <4>2 DEF Accounted, JobOK, Exists, Live
    <3> QED
      BY <3>1, <3>2
  <2>3. JobOK'
    BY <1>0, <2>1 DEF Accounted, JobOK
  <2> QED
    BY <2>1, <2>2, <2>3 DEF Accounted, Tracked, NoSurvivors
<1>11. ASSUME NEW r \in Row, SchedKillBegin(r) PROVE Accounted'
  BY <1>0, <1>11, NoProcessStep DEF SchedKillBegin, Control
<1> QED
  BY <1>1, <1>2, <1>3, <1>4, <1>5, <1>6, <1>7, <1>8, <1>9, <1>10, <1>11 DEF SchedStep

LEMMA ProcessStepAccounted ==
    ASSUME TypeOK, Accounted, NEW p \in Pid, ProcessStep(p)
    PROVE  Accounted'
<1>0. proc \in [Pid -> Process] /\ mem \in [Pid -> Memory]
  BY TypeOKParts
<1>s. \A q \in Pid : Fades(proc[q], Sent(proc[q], "TERM")) /\ Fades(proc[q], Sent(proc[q], "KILL"))
  BY <1>0, ProcessFades DEF Signal
<1>d. Live(proc[p]) => Fades(proc[p], Dead(proc[p]))
  BY <1>0, ProcessFades DEF Signal
<1>k. ASSUME UNCHANGED <<tracked, sch>>,
             \/ proc' = proc
             \/ \E x : proc' = [proc EXCEPT ![p] = x] /\ Fades(proc[p], x)
             \/ \E pid : proc' = [proc EXCEPT ![pid] = Sent(proc[pid], "TERM")]
             \/ \E pid : proc' = [proc EXCEPT ![pid] = Sent(proc[pid], "KILL")]
      PROVE  Accounted'
  <2>1. CASE proc' = proc
    BY <1>k, <2>1, NoProcessStep
  <2>2. ASSUME NEW x, proc' = [proc EXCEPT ![p] = x], Fades(proc[p], x) PROVE Accounted'
    BY <1>k, <2>2, FadingProcess
  <2>3. ASSUME NEW pid, NEW s \in {"TERM", "KILL"},
               proc' = [proc EXCEPT ![pid] = Sent(proc[pid], s)]
        PROVE  Accounted'
    <3>1. CASE pid \in Pid
      BY <1>k, <1>s, <2>3, <3>1, FadingProcess
    <3>2. CASE pid \notin Pid
      BY <1>0, <1>k, <2>3, <3>2, NoProcessStep
    <3> QED
      BY <3>1, <3>2
  <2> QED
    BY <1>k, <2>1, <2>2, <2>3
<1>1. CASE Register(p)
  <2>1. Fades(proc[p], [proc[p] EXCEPT !.st = "registered"])
    BY <1>0, <1>1 DEF Register, Fades, Process, Live, Exists
  <2> QED
    BY <1>1, <1>k, <2>1 DEF Register
<1>2. CASE Ready(p)
  <2>1. \A st \in {"init", "run"} : Fades(proc[p], [proc[p] EXCEPT !.st = st])
    BY <1>0, <1>2 DEF Ready, Fades, Process, Live, Exists
  <2> QED
    BY <1>2, <1>k, <2>1 DEF Ready
<1>3. CASE DaqStop(p)
  <2>1. Fades(proc[p], [proc[p] EXCEPT !.st = "stopping", !.sig = <<>>])
    BY <1>0, <1>3 DEF DaqStop, Fades, Process, Live, Exists
  <2> QED
    BY <1>3, <1>k, <2>1 DEF DaqStop, DaqStopping
<1>4. CASE DaqExit(p)
  BY <1>4, <1>d, <1>k DEF DaqExit, Live
<1>5. CASE DaqReinit(p)
  <2>1. Fades(proc[p], [proc[p] EXCEPT !.sig = Tail(@)])
    BY <1>0 DEF Fades, Process, Live, Exists
  <2> QED
    BY <1>5, <1>k, <2>1 DEF DaqReinit
<1>6. CASE WorkerStop(p)
  BY <1>6, <1>d, <1>k DEF WorkerStop, WorkerExit, In, Live
<1>7. CASE WorkerRestart(p)
  <2>1. Fades(proc[p], [proc[p] EXCEPT !.sig = Tail(@)])
    BY <1>0 DEF Fades, Process, Live, Exists
  <2> QED
    BY <1>7, <1>k, <2>1 DEF WorkerRestart
<1>8. CASE WorkerCreate(p)
  <2>1. In(p, "create") => Fades(proc[p], [proc[p] EXCEPT !.st = "run"])
    BY <1>0 DEF In, Fades, Process, Live, Exists
  <2> QED
    BY <1>8, <1>k, <2>1 DEF WorkerCreate
<1>9. CASE WorkerWait(p)
  BY <1>9, <1>k DEF WorkerWait
<1>10. CASE WorkerWaitTimeout(p)
  BY <1>10, <1>k DEF WorkerWaitTimeout
<1>11. CASE \E e \in mem[p].todo : WorkerStopOnce(p, e)
  BY <1>11, <1>k DEF WorkerStopOnce
<1>12. CASE WorkerList(p) \/ WorkerClean(p) \/ WorkerRestartNext(p)
  BY <1>12, <1>k DEF WorkerList, WorkerClean, WorkerRestartNext
<1>13. CASE \E e \in mem[p].todo : WorkerDropDead(p, e) \/ WorkerStopBegin(p, e)
  BY <1>13, <1>k DEF WorkerDropDead, WorkerStopBegin
<1>14. CASE \E i \in 1..NDev : WorkerRespawn(p, i)
  BY <1>14, <1>k DEF WorkerRespawn
<1>15. CASE WorkerStep(p)
  BY <1>6, <1>7, <1>8, <1>9, <1>10, <1>11, <1>12, <1>13, <1>14, <1>15 DEF WorkerStep
<1> QED
  BY <1>1, <1>2, <1>3, <1>4, <1>5, <1>15 DEF ProcessStep, DaqStep

LEMMA EnvironmentAccounted ==
    ASSUME TypeOK, Accounted, Environment
    PROVE  Accounted'
<1>0. proc \in [Pid -> Process] /\ sch \in Control /\ tracked \in [Row -> PidOrNone]
  BY TypeOKParts
<1>d. \A p \in Pid : Live(proc[p]) => Fades(proc[p], Dead(proc[p]))
  BY <1>0, ProcessFades DEF Signal
<1>1. CASE SchedCrash
  <2>1. \A p \in Pid : Fades(proc[p], Reaped(proc[p])) /\ Reaped(proc[p]) \in Process
    BY <1>0, ProcessFades, ProcessOps DEF Signal
  <2>2. \A p \in Pid : ~proc'[p].child /\ proc'[p].job = proc[p].job
                       /\ (proc'[p].st # "none" => proc[p].st # "none")
    BY <1>1, <2>1 DEF SchedCrash, Fades, Process
  <2> QED
    BY <2>2 DEF Accounted, JobOK, Tracked, NoSurvivors
<1>2. CASE SchedStart
  <2> DEFINE mid(p) == IF \E r \in {r \in rows : ~row[r].done /\ ~row[Parent(r)].done} :
                                   row[r].pid = p
                       THEN Sent(proc[p], "TERM") ELSE proc[p]
  <2>1. \A p \in Pid : mid(p) \in Process /\ Fades(proc[p], mid(p))
    <3>1. \A p \in Pid : Fades(proc[p], Sent(proc[p], "TERM")) /\ Sent(proc[p], "TERM") \in Process
      BY <1>0, ProcessFades, ProcessOps DEF Signal
    <3>2. \A p \in Pid : Fades(proc[p], proc[p]) /\ proc[p] \in Process
      BY <1>0 DEF Fades
    <3> QED
      BY <3>1, <3>2
  <2>2. proc' = [p \in Pid |-> [mid(p) EXCEPT !.child = FALSE]]
    BY <1>2 DEF SchedStart
  <2> HIDE DEF mid
  <2>3. \A p \in Pid : ~proc'[p].child /\ proc'[p].job = proc[p].job
                       /\ (proc'[p].st # "none" => proc[p].st # "none")
    BY <2>1, <2>2 DEF Fades, Process
  <2> QED
    BY <2>3 DEF Accounted, JobOK, Tracked, NoSurvivors
<1>3. ASSUME NEW s \in {"TERM", "USR1"}, SchedSignal(s) PROVE Accounted'
  BY <1>0, <1>3, NoProcessStep DEF SchedSignal, Control
<1>4. ASSUME NEW p \in Pid, Kill(p) PROVE Accounted'
  BY <1>d, <1>4, FadingProcess DEF Kill
<1>5. ASSUME NEW p \in Pid, InitFail(p) PROVE Accounted'
  <2>1. sch'.pc = sch.pc
    BY <1>0, <1>5 DEF InitFail, Control
  <2>2. Live(proc[p])
    BY <1>5 DEF InitFail, Live
  <2> QED
    BY <1>d, <1>5, <2>1, <2>2, FadingProcess DEF InitFail
<1>6. ASSUME NEW p \in Pid, WorkerFail(p) PROVE Accounted'
  <2>1. Live(proc[p])
    BY <1>6 DEF WorkerFail, Live
  <2> QED
    BY <1>d, <1>6, <2>1, FadingProcess DEF WorkerFail, WorkerExit
<1>7. ASSUME NEW p \in Pid, DaqFail(p) PROVE Accounted'
  <2>1. Fades(proc[p], [proc[p] EXCEPT !.st = "stopping", !.sig = <<>>])
    BY <1>0, <1>7 DEF DaqFail, Fades, Process, Live, Exists
  <2> QED
    BY <1>7, <2>1, FadingProcess DEF DaqFail, DaqStopping
<1>8. ASSUME NEW r \in Row, AdminToggle(r) PROVE Accounted'
  BY <1>8, NoProcessStep DEF AdminToggle
<1>9. ASSUME NEW r \in Row, NEW s \in {"TERM", "USR1"}, AdminSignal(r, s) PROVE Accounted'
  <2> DEFINE pid == row[r].pid
  <2>1. proc' = [proc EXCEPT ![pid] = Sent(proc[pid], s)] /\ UNCHANGED <<tracked, sch>>
    BY <1>9 DEF AdminSignal
  <2>2. \A p \in Pid : Fades(proc[p], Sent(proc[p], s))
    BY <1>0, ProcessFades DEF Signal
  <2>3. CASE pid \in Pid
    BY <2>1, <2>2, <2>3, FadingProcess
  <2>4. CASE pid \notin Pid
    BY <1>0, <2>1, <2>4, NoProcessStep
  <2> QED
    BY <2>3, <2>4
<1> QED
  BY <1>1, <1>2, <1>3, <1>4, <1>5, <1>6, <1>7, <1>8, <1>9 DEF Environment

----------------------------------------------------------------------------
(* The theorems.                                                           *)

IInv == TypeOK /\ CreateOK /\ Accounted

LEMMA Inductive == Spec => []IInv
<1>1. Init => IInv
  <2>1. Init => CreateOK
    BY DEF Init, CreateOK, NoMem
  <2> QED
    BY <2>1, InitTypeOK, InitAccounted DEF IInv
<1>2. IInv /\ [Next]_vars => IInv'
  <2> SUFFICES ASSUME IInv, [Next]_vars PROVE IInv'
    OBVIOUS
  <2> USE DEF IInv
  <2>1. CreateOK'
    BY NextCreateOK
  <2>2. CASE SchedStep
    BY <2>1, <2>2, SchedStepTypeOK, SchedStepAccounted
  <2>3. ASSUME NEW p \in Pid, ProcessStep(p) PROVE IInv'
    BY <2>1, <2>3, ProcessStepTypeOK, ProcessStepAccounted
  <2>4. CASE Environment
    BY <2>1, <2>4, EnvironmentTypeOK, EnvironmentAccounted
  <2>5. CASE UNCHANGED vars
    BY <2>1, <2>5 DEF vars, table, TypeOK, Accounted, JobOK, Tracked, NoSurvivors
  <2> QED
    BY <2>2, <2>3, <2>4, <2>5 DEF Next
<1> QED
  BY <1>1, <1>2, PTL DEF Spec

\* Whatever fails, is killed, restarted or disabled, the table, PROCESSES and the
\* memory of the workers keep their shape (scheduler.py and BackgroundProcess).
THEOREM TypeCorrect == Spec => []TypeOK
BY Inductive, PTL DEF IInv

\* No child of the running scheduler is ever lost: until it has been reaped it is in
\* PROCESSES under its row (Scheduler.kill_process, spawn_process, manage_processes).
THEOREM ChildrenTracked == Spec => []Tracked
BY Inductive, PTL DEF IInv, Accounted

\* manage_processes never forks a second process for a row that has one.
THEOREM OneChildPerRow == Spec => []OneProcessPerRow
<1>1. Tracked => OneProcessPerRow
  BY DEF Tracked, OneProcessPerRow, Exists
<1> QED
  BY <1>1, ChildrenTracked, PTL

\* Scheduler.stop leaves no child behind, however unresponsive the children are.
THEOREM StopLeavesNone == Spec => []NoSurvivors
BY Inductive, PTL DEF IInv, Accounted

=============================================================================
