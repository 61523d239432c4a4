---------------------------- MODULE DeviceProofs ----------------------------
(***************************************************************************)
(* TLAPS proofs about Supervision when no worker is ever started twice:    *)
(* a device is polled by one process, and that process can be found        *)
(* through its row, whatever happens to the processes of the devices.      *)
(***************************************************************************)
EXTENDS MCSupervision, SupervisionProofs

\* The processes of one scheduler: pids are given out in order, every process is a child
\* of it, and what PROCESSES and the table say of a pid is true.
ProcessInv ==
    /\ \A p \in Pid : p >= nextPid => proc[p] = NoProcess
    /\ \A p \in Pid : proc[p].st # "none" => proc[p].child
    /\ \A r \in Row : tracked[r] # 0 => proc[tracked[r]].job = r
    /\ \A r \in DaqRow : row[r].pid # 0 => proc[row[r].pid].job = r

\* The scheduler is never restarted, and stops a worker only if it has been disabled.
SchedInv ==
    /\ sch.pc \in {"idle", "pass", "kill", "stop", "stopped"}
    /\ \A i \in DOMAIN sch.sig : sch.sig[i] = "TERM"
    /\ sch.toStop \cap sch.toStart = {}
    /\ sch.pc \notin {"pass", "kill"} => sch.toStart = {} /\ sch.toStop = {}
    /\ sch.pc = "kill" => sch.target \in Row \ sch.toStart
    /\ \A w \in Worker : w \in sch.toStop \/ (sch.pc = "kill" /\ sch.target = w) => ~row[w].enabled

\* A worker is in its loop and untouched, unless it has been disabled for good or the
\* scheduler is stopping; so none is started twice.
Untouched(p) == Live(proc[p]) /\ proc[p].sig = <<>>
Leaving(w)   == sch.pc \in {"stop", "stopped"} \/ (~row[w].enabled /\ w \notin sch.toStart)
WorkerInv ==
    /\ \A w \in Worker : ~row[w].done
    /\ \A p \in Pid : IsWorker(p) =>
          /\ Untouched(p) \/ Leaving(proc[p].job)
          /\ \A i \in DOMAIN proc[p].sig : proc[p].sig[i] = "TERM"
    /\ \A p, q \in Pid : IsWorker(p) /\ proc[p].job = proc[q].job => p = q

\* A device has one row at most, and a DAQ process that lives has its row.
RowInv ==
    /\ \A r \in rows : r < nextRow /\ row[r].dev \in Dev
    /\ \A r, s \in rows : row[r].dev = row[s].dev => r = s
    /\ \A p \in Pid : IsDaq(p) /\ Live(proc[p]) => proc[p].job \in rows
    /\ \A r \in sch.toStart : r \in DaqRow /\ tracked[r] = 0 => r \in rows

\* A worker remembers the rows of its devices; before it creates them there are none.
Begun(p) == proc[p].st \in {"init", "run"} /\ mem[p].pc \in {"create", "loop"}
Remembers(p) ==
    \A r \in rows : Parent(r) = proc[p].job =>
       /\ mem[p].ids[row[r].dev[2]] = r
       /\ mem[p].pc = "create" => row[r].dev[2] < mem[p].i
MemInv ==
    /\ \A p \in Pid : mem[p].pc \in {"list", "check", "create", "loop"} /\ mem[p].todo = {}
    /\ \A p \in Pid : proc[p].st \in {"none", "forked", "registered"} => mem[p].pc = "list"
    /\ \A p \in Pid : IsWorker(p) /\ Live(proc[p]) =>
          IF Begun(p) THEN Remembers(p) ELSE Kids(proc[p].job) = {}
    /\ \A w \in Worker : Kids(w) # {} => \E p \in Pid : proc[p].job = w

DeviceInv == ProcessInv /\ SchedInv /\ WorkerInv /\ RowInv /\ MemInv
----------------------------------------------------------------------------
\* What such a behaviour leaves out.
LEMMA Excluded ==
    ASSUME Allowed \subseteq DeviceEvents
    PROVE  /\ \A what : Event("worker", what) => what = "disable"
           /\ \A what : Event("scheduler", what) => what = "terminate"
           /\ ~Event("daq", "init_fail")
BY DEF DeviceEvents, Event

LEMMA ThreeKinds ==
    /\ Worker \cap DaqRow = {} /\ 0 \notin Row /\ Worker \subseteq Row /\ DaqRow \subseteq Row
    /\ \A r \in Row : r \in Worker \/ r \in DaqRow
    /\ 0 \notin Pid /\ PidOrNone = Pid \cup {0}
BY SupervisionAssumption DEF DaqRow, Row, Pid, PidOrNone

LEMMA Parts ==
    ASSUME IInv
    PROVE  /\ rows \subseteq DaqRow /\ nextRow \in 1..(MaxRow + 1) /\ row \in [Row -> Columns]
           /\ proc \in [Pid -> Process] /\ nextPid \in 1..(MaxPid + 1) /\ mem \in [Pid -> Memory]
           /\ sch \in Control /\ tracked \in [Row -> PidOrNone]
           /\ Tracked /\ JobOK
BY TypeOKParts DEF IInv, Accounted

\* A process that lives is in PROCESSES.
LEMMA LivesTracked ==
    ASSUME IInv, ProcessInv, NEW p \in Pid, Live(proc[p])
    PROVE  tracked[proc[p].job] = p /\ proc[p].job \in Row
<1>1. proc[p].st # "none"
  BY DEF Live
<1> QED
  BY <1>1, Parts DEF ProcessInv, Tracked, JobOK, Exists

\* Steps after which no process serves that did not before.
Early(x) == x.st \in {"none", "forked", "registered"}
Weakens(x, y) ==
    /\ y.job = x.job /\ y.child = x.child
    /\ Live(y) => Live(x)
    /\ Early(y) => Early(x)
    /\ x = NoProcess => y = NoProcess
    /\ y.st # "none" => x.st # "none"

LEMMA ProcessWeakens ==
    ASSUME NEW x \in Process, NEW s \in Signal \cup {"KILL"}
    PROVE  /\ Weakens(x, x) /\ Weakens(x, Reaped(x)) /\ Weakens(x, Sent(x, s))
           /\ Weakens(x, KillProcess(x, s))
           /\ Live(x) => Weakens(x, Dead(x))
           /\ Live(Sent(x, s)) => Sent(x, s).st = x.st
           /\ Live(KillProcess(x, s)) => KillProcess(x, s).st = x.st
<1>1. Weakens(x, x) /\ Weakens(x, Reaped(x))
  <2>1. Weakens(x, x)
    BY DEF Weakens
  <2>2. CASE x.st = "zombie"
    <3>1. Reaped(x) = [x EXCEPT !.st = "gone"] /\ x # NoProcess
      BY <2>2 DEF Reaped, NoProcess
    <3> QED
      BY <2>2, <3>1 DEF Weakens, Live, Early, Process
  <2> QED
    BY <2>1, <2>2 DEF Reaped
<1>2. Live(x) => Weakens(x, Dead(x)) /\ ~Live(Dead(x))
  BY DEF Weakens, Dead, Live, Early, Process, NoProcess
<1>3. Weakens(x, Sent(x, s)) /\ (Live(Sent(x, s)) => Sent(x, s).st = x.st)
  <2>1. CASE s = "KILL" /\ Live(x)
    BY <1>2, <2>1 DEF Sent
  <2>2. CASE s # "KILL" /\ x.st \in {"init", "run"} /\ ~ \E i \in DOMAIN x.sig : x.sig[i] = s
    <3>1. Sent(x, s) = [x EXCEPT !.sig = Append(@, s)]
      BY <2>2 DEF Sent
    <3> DEFINE y == [x EXCEPT !.sig = Append(@, s)]
    <3>2. y.st = x.st /\ y.job = x.job /\ y.child = x.child
      BY DEF Process
    <3> HIDE DEF y
    <3> QED
      BY <2>2, <3>1, <3>2 DEF Weakens, Live, Early, NoProcess, y
  <2>3. CASE Sent(x, s) = x
    BY <1>1, <2>3
  <2> QED
    BY <2>1, <2>2, <2>3 DEF Sent
<1>4. ~Live(Reaped(x)) \/ Reaped(x) = x
  BY DEF Reaped, Live, Process
<1> QED
  BY <1>1, <1>2, <1>3, <1>4 DEF KillProcess

\* The signals a worker may have in its queue.
OnlyTerm(q) == \A i \in DOMAIN q : q[i] = "TERM"

LEMMA TermOnly ==
    ASSUME NEW x \in Process, OnlyTerm(x.sig), NEW s \in {"TERM", "KILL"}
    PROVE  /\ OnlyTerm(Reaped(x).sig) /\ OnlyTerm(Sent(x, s).sig) /\ OnlyTerm(Dead(x).sig)
           /\ OnlyTerm(KillProcess(x, s).sig)
<1>1. x.sig \in Seq(Signal) /\ OnlyTerm(Append(x.sig, "TERM")) /\ OnlyTerm(<<>>)
  BY DEF Process, OnlyTerm
<1>2. OnlyTerm(Reaped(x).sig) /\ OnlyTerm(Dead(x).sig)
  BY <1>1 DEF Reaped, Dead, Process
<1>3. OnlyTerm(Sent(x, s).sig)
  BY <1>1, <1>2 DEF Sent, Process
<1> QED
  BY <1>2, <1>3 DEF KillProcess

\* A step that brings no process to life and inserts no row keeps the invariant, if it
\* leaves the rows of the devices that are polled and touches only workers that leave.
TableWeakens ==
    /\ nextRow' = nextRow /\ rows' \subseteq rows
    /\ \A r \in Row : row'[r].dev = row[r].dev
    /\ \A r \in DaqRow : row'[r].pid # 0 => proc[row'[r].pid].job = r
    /\ \A w \in Worker : ~row'[w].done
ProcessesWeaken ==
    /\ nextPid' = nextPid /\ \A r \in Row : tracked'[r] \in {0, tracked[r]}
    /\ \A p \in Pid :
          /\ Weakens(proc[p], proc'[p])
          /\ mem'[p] = mem[p] \/ (mem'[p] = NoMem /\ (IsWorker(p) => ~Live(proc'[p])))
          /\ IsWorker(p) /\ Live(proc'[p]) => proc'[p].st = proc[p].st \/ mem[p].pc = "list"
DevicesStay ==
    /\ \A p \in Pid : IsDaq(p) /\ Live(proc'[p]) => proc[p].job \in rows'
    /\ \A r \in sch'.toStart : r \in DaqRow /\ tracked'[r] = 0 => r \in rows'
WorkersStay ==
    \A p \in Pid, w \in Worker : proc[p].job = w =>
       \/ /\ proc'[p].sig = proc[p].sig /\ (Live(proc[p]) => Live(proc'[p]))
          /\ Leaving(w) => Leaving(w)'
       \/ Leaving(w)' /\ OnlyTerm(proc'[p].sig)

Weakening == TableWeakens /\ ProcessesWeaken /\ DevicesStay /\ WorkersStay

LEMMA WeakeningStep ==
    ASSUME IInv, IInv', ProcessInv, WorkerInv, RowInv, MemInv, Weakening
    PROVE  ProcessInv' /\ WorkerInv' /\ RowInv' /\ MemInv'
<1> USE DEF Weakening, TableWeakens, ProcessesWeaken, DevicesStay, WorkersStay
<1>0. /\ rows \subseteq DaqRow /\ row \in [Row -> Columns] /\ tracked \in [Row -> PidOrNone]
      /\ mem \in [Pid -> Memory] /\ row' \in [Row -> Columns]
  BY Parts, TypeOKParts DEF IInv, TypeOK, Columns
<1>1. \A p \in Pid : proc'[p].job = proc[p].job /\ (IsWorker(p)' <=> IsWorker(p))
                     /\ (IsDaq(p)' <=> IsDaq(p))
  BY DEF Weakens, IsWorker, IsDaq
<1>2. ProcessInv'
  <2>1. \A p \in Pid : p >= nextPid' => proc'[p] = NoProcess
    BY DEF ProcessInv, Weakens
  <2>2. \A p \in Pid : proc'[p].st # "none" => proc'[p].child
    BY DEF ProcessInv, Weakens
  <2>3. ASSUME NEW r \in Row, tracked'[r] # 0 PROVE proc'[tracked'[r]].job = r
    <3>1. tracked'[r] = tracked[r] /\ tracked[r] \in Pid
      BY <1>0, <2>3, ThreeKinds
    <3> QED
      BY <1>1, <2>3, <3>1 DEF ProcessInv
  <2>4. ASSUME NEW r \in DaqRow, row'[r].pid # 0 PROVE proc'[row'[r].pid].job = r
    <3>1. row'[r].pid \in Pid
      BY <1>0, <2>4, ThreeKinds DEF Columns
    <3> QED
      BY <1>1, <2>4, <3>1
  <2> QED
    BY <2>1, <2>2, <2>3, <2>4 DEF ProcessInv
<1>3. WorkerInv'
  <2>1. ASSUME NEW p \in Pid, NEW w \in Worker, proc[p].job = w
        PROVE  (Untouched(p)' \/ Leaving(w)') /\ OnlyTerm(proc'[p].sig)
    <3>1. Untouched(p) \/ Leaving(w)
      BY <2>1 DEF WorkerInv, IsWorker
    <3> QED
      BY <2>1, <3>1 DEF WorkerInv, Untouched, OnlyTerm, IsWorker
  <2>2. \A p, q \in Pid : IsWorker(p)' /\ proc'[p].job = proc'[q].job => p = q
    BY <1>1 DEF WorkerInv
  <2>3. \A p \in Pid : IsWorker(p)' =>
           (Untouched(p) \/ Leaving(proc[p].job))' /\ OnlyTerm(proc'[p].sig)
    BY <1>1, <2>1 DEF IsWorker, Leaving
  <2> QED
    BY <2>2, <2>3 DEF WorkerInv, OnlyTerm
<1>4. RowInv'
  <2>1. \A r \in rows' : r < nextRow' /\ row'[r].dev \in Dev
    BY <1>0, ThreeKinds DEF RowInv
  <2>2. \A r, s \in rows' : row'[r].dev = row'[s].dev => r = s
    BY <1>0, ThreeKinds DEF RowInv
  <2> QED
    BY <1>1, <2>1, <2>2 DEF RowInv
<1>5. MemInv'
  <2>1. \A w \in Worker : Kids(w)' \subseteq Kids(w)
    BY <1>0, ThreeKinds DEF Kids, Parent
  <2>2. \A p \in Pid : mem'[p].pc \in {"list", "check", "create", "loop"} /\ mem'[p].todo = {}
    BY DEF MemInv, NoMem
  <2>3. \A p \in Pid : Early(proc'[p]) => mem'[p].pc = "list"
    BY DEF MemInv, NoMem, Weakens, Early
  <2>4. ASSUME NEW p \in Pid, NEW w \in Worker, proc[p].job = w, Live(proc'[p])
        PROVE  (IF Begun(p) THEN Remembers(p) ELSE Kids(proc[p].job) = {})'
    <3>1. mem'[p] = mem[p] /\ Live(proc[p]) /\ proc'[p].job = w /\ IsWorker(p)
      BY <1>1, <2>4 DEF Weakens, IsWorker
    <3>2. Begun(p)' <=> Begun(p)
      BY <2>4, <3>1 DEF Begun
    <3>3. Kids(w)' \subseteq Kids(w)
      BY <2>1
    <3>4. CASE Begun(p)
      <4>1. Remembers(p)
        BY <2>4, <3>1, <3>4 DEF MemInv
      <4>2. \A r \in rows' : r \in rows /\ row'[r].dev = row[r].dev
        BY <1>0, ThreeKinds
      <4>4. Remembers(p)'
        BY <2>4, <3>1, <4>1, <4>2 DEF Remembers, Parent
      <4> QED
        BY <3>2, <3>4, <4>4
    <3>5. CASE ~Begun(p)
      <4>1. Kids(w) = {}
        BY <2>4, <3>1, <3>5 DEF MemInv
      <4>2. Kids(w)' = {}
        BY <3>3, <4>1
      <4> QED
        BY <3>1, <3>2, <3>5, <4>2
    <3> QED
      BY <3>4, <3>5
  <2>5. \A w \in Worker : Kids(w)' # {} => \E p \in Pid : proc'[p].job = w
    BY <1>1, <2>1 DEF MemInv
  <2>6. \A p \in Pid : IsWorker(p)' /\ Live(proc'[p]) =>
           (IF Begun(p) THEN Remembers(p) ELSE Kids(proc[p].job) = {})'
    BY <1>1, <2>4 DEF IsWorker
  <2> QED
    BY <2>2, <2>3, <2>5, <2>6 DEF MemInv, Early
<1> QED
  BY <1>2, <1>3, <1>4, <1>5

\* Parts of Weakening that hold when a step leaves the variables alone.
LEMMA TableSame ==
    ASSUME IInv, ProcessInv, WorkerInv, UNCHANGED table
    PROVE  TableWeakens
BY Parts DEF TableWeakens, ProcessInv, WorkerInv, table

LEMMA ProcessesSame ==
    ASSUME IInv, UNCHANGED <<proc, nextPid, mem, tracked>>
    PROVE  ProcessesWeaken
<1>1. \A p \in Pid : Weakens(proc[p], proc[p])
  BY DEF Weakens
<1>2. tracked \in [Row -> PidOrNone] /\ proc \in [Pid -> Process]
  BY Parts
<1> QED
  BY <1>1, <1>2 DEF ProcessesWeaken

\* The same when one process changes, and it is not a worker.
LEMMA OneDaqWeakens ==
    ASSUME IInv, NEW p, NEW x, p \in Pid => Weakens(proc[p], x) /\ ~IsWorker(p),
           proc' = [proc EXCEPT ![p] = x], UNCHANGED <<nextPid, tracked, sch>>,
           mem' = mem \/ mem' = [mem EXCEPT ![p] = NoMem],
           \A w \in Worker : row'[w].enabled = row[w].enabled
    PROVE  ProcessesWeaken /\ WorkersStay
<1>1. /\ proc \in [Pid -> Process] /\ mem \in [Pid -> Memory] /\ tracked \in [Row -> PidOrNone]
      /\ sch \in Control
  BY Parts
<1>2. \A q \in Pid : Weakens(proc[q], proc[q])
  BY DEF Weakens
<1>3. \A q \in Pid : q # p => proc'[q] = proc[q] /\ mem'[q] = mem[q]
  BY <1>1
<1>4. p \in Pid => proc'[p] = x /\ (mem'[p] = mem[p] \/ mem'[p] = NoMem)
  BY <1>1
<1>5. ProcessesWeaken
  BY <1>1, <1>2, <1>3, <1>4 DEF ProcessesWeaken
<1>6. \A w \in Worker : Leaving(w) => Leaving(w)'
  BY DEF Leaving
<1> QED
  BY <1>3, <1>4, <1>5, <1>6 DEF WorkersStay, IsWorker

\* The rows of live pollers stay when no row is deleted.
LEMMA RowsSame ==
    ASSUME IInv, RowInv, rows' = rows, UNCHANGED <<sch, tracked>>,
           \A p \in Pid : Live(proc'[p]) => Live(proc[p])
    PROVE  DevicesStay
BY DEF DevicesStay, RowInv
----------------------------------------------------------------------------
(* Steps of the scheduler.                                                 *)

LEMMA SnapshotWeakens ==
    ASSUME IInv, DeviceInv, SchedSnapshot
    PROVE  Weakening
<1> USE DEF DeviceInv
<1>0. UNCHANGED <<table, proc, nextPid, mem, tracked>> /\ rows \subseteq DaqRow /\ sch \in Control
  BY Parts DEF SchedSnapshot
<1>1. sch.pc = "idle" /\ sch'.pc = "pass" /\ sch'.toStart = {r \in Worker \cup rows : Wanted(r)}
  BY <1>0 DEF SchedSnapshot, SchedInv, Control
<1>2. TableWeakens /\ ProcessesWeaken
  BY <1>0, TableSame, ProcessesSame
<1>3. DevicesStay
  BY <1>0, <1>1, ThreeKinds DEF DevicesStay, RowInv, table
<1>4. \A w \in Worker : Leaving(w) => Leaving(w)'
  BY <1>0, <1>1 DEF Leaving, Wanted, table
<1> QED
  BY <1>0, <1>2, <1>3, <1>4 DEF Weakening, WorkersStay

LEMMA KillBeginWeakens ==
    ASSUME IInv, DeviceInv, NEW r \in Row, SchedKillBegin(r)
    PROVE  Weakening
<1> USE DEF DeviceInv
<1>0. UNCHANGED <<table, proc, nextPid, mem, tracked>> /\ sch \in Control
  BY Parts DEF SchedKillBegin
<1>1. sch.pc = "pass" /\ sch'.pc = "kill" /\ sch'.toStart = sch.toStart
  BY <1>0 DEF SchedKillBegin, Control
<1>2. TableWeakens /\ ProcessesWeaken
  BY <1>0, TableSame, ProcessesSame
<1>3. DevicesStay
  BY <1>0, <1>1 DEF DevicesStay, RowInv, table
<1>4. \A w \in Worker : Leaving(w) => Leaving(w)'
  BY <1>0, <1>1 DEF Leaving, table
<1> QED
  BY <1>0, <1>2, <1>3, <1>4 DEF Weakening, WorkersStay

\* The process at hand belongs to the row the scheduler stops; a worker only if disabled.
LEMMA KillWeakens ==
    ASSUME IInv, DeviceInv, SchedKillRound \/ SchedKillTimeout
    PROVE  Weakening
<1> USE DEF DeviceInv
<1> DEFINE p == tracked[sch.target]
<1>0. /\ UNCHANGED <<table, nextPid, mem>> /\ sch.pc = "kill"
      /\ proc \in [Pid -> Process] /\ sch \in Control /\ tracked \in [Row -> PidOrNone]
  BY Parts DEF SchedKillRound, SchedKillTimeout
<1>1. /\ sch.target \in Row \ sch.toStart
      /\ sch.target \in Worker => Leaving(sch.target)
      /\ p \in Pid => proc[p].job = sch.target
  BY <1>0, ThreeKinds DEF SchedInv, Leaving, ProcessInv
<1>2. sch'.toStart = sch.toStart /\ sch'.pc \in {"pass", "kill"}
  BY <1>0 DEF SchedKillRound, SchedKillTimeout, Control
<1>3. TableWeakens
  BY <1>0, TableSame
<1>4. \A w \in Worker : Leaving(w) <=> Leaving(w)'
  BY <1>0, <1>2 DEF Leaving, table
<1>5. CASE proc' = proc
  <2>1. \A r \in Row : tracked'[r] = tracked[r] \/ (r = sch.target /\ tracked'[r] = 0)
    BY <1>0, <1>5 DEF SchedKillRound, SchedKillTimeout
  <2>2. \A q \in Pid : Weakens(proc[q], proc[q])
    BY DEF Weakens
  <2>3. ProcessesWeaken
    BY <1>0, <1>5, <2>1, <2>2 DEF ProcessesWeaken
  <2>4. DevicesStay
    BY <1>0, <1>1, <1>2, <1>5, <2>1, ThreeKinds DEF DevicesStay, RowInv, table
  <2> QED
    BY <1>3, <1>4, <1>5, <2>3, <2>4 DEF Weakening, WorkersStay
<1>6. ASSUME NEW s \in {"TERM", "KILL"}, p \in Pid,
             proc' = [proc EXCEPT ![p] = KillProcess(proc[p], s)], tracked' = tracked
      PROVE  Weakening
  <2>1. /\ \A q \in Pid : Weakens(proc[q], proc[q])
        /\ Weakens(proc[p], KillProcess(proc[p], s))
        /\ Live(KillProcess(proc[p], s)) => KillProcess(proc[p], s).st = proc[p].st
    BY <1>0, <1>6, ProcessWeakens DEF Weakens, Signal
  <2>2. \A q \in Pid : q # p => proc'[q] = proc[q]
    BY <1>0, <1>6
  <2>3. proc'[p] = KillProcess(proc[p], s)
    BY <1>0, <1>6
  <2>4. ProcessesWeaken
    BY <1>0, <1>6, <2>1, <2>2, <2>3 DEF ProcessesWeaken
  <2>5. DevicesStay
    BY <1>0, <1>2, <1>6, <2>1, <2>2, <2>3 DEF DevicesStay, RowInv, table, Weakens
  <2>6. ASSUME NEW w \in Worker, proc[p].job = w
        PROVE  Leaving(w)' /\ OnlyTerm(proc'[p].sig)
    <3>1. OnlyTerm(proc[p].sig)
      BY <1>6, <2>6 DEF WorkerInv, OnlyTerm, IsWorker
    <3>2. OnlyTerm(proc'[p].sig)
      BY <1>0, <1>6, <2>3, <3>1, TermOnly
    <3>3. Leaving(w)
      BY <1>1, <1>6, <2>6
    <3> QED
      BY <1>4, <3>2, <3>3
  <2>7. WorkersStay
    BY <1>4, <2>1, <2>2, <2>3, <2>6 DEF WorkersStay
  <2> QED
    BY <1>3, <2>4, <2>5, <2>7 DEF Weakening
<1>7. \/ proc' = proc
      \/ /\ tracked' = tracked
         /\ \/ proc' = [proc EXCEPT ![p] = KillProcess(proc[p], "TERM")]
            \/ proc' = [proc EXCEPT ![p] = KillProcess(proc[p], "KILL")]
  BY DEF SchedKillRound, SchedKillTimeout
<1>8. p \notin Pid /\ proc' # proc => \A x : proc' # [proc EXCEPT ![p] = x]
  BY <1>0
<1> QED
  BY <1>5, <1>6, <1>7, <1>8

\* The sweep deletes rows of processes that are gone only.
LEMMA SweepWeakens ==
    ASSUME IInv, DeviceInv, SchedSweep
    PROVE  Weakening
<1> USE DEF DeviceInv
<1>0. /\ proc \in [Pid -> Process] /\ sch \in Control /\ tracked \in [Row -> PidOrNone]
      /\ row \in [Row -> Columns] /\ rows \subseteq DaqRow
      /\ UNCHANGED <<nextRow, nextPid, mem>> /\ tracked' = Popped /\ sch.pc = "pass"
  BY Parts DEF SchedSweep
<1> DEFINE dead == {r \in Row : tracked[r] # 0 /\ Popped[r] = 0}
<1>1. /\ rows' = rows \ dead /\ sch'.toStart = {} /\ sch'.pc = "idle"
      /\ row' = [r \in Row |-> IF r \in dead \cap Worker THEN [row[r] EXCEPT !.pid = 0]
                               ELSE row[r]]
  BY <1>0 DEF SchedSweep, Control
<1>2. \A p \in Pid : proc'[p] = proc[p] \/ proc'[p] = Reaped(proc[p])
  BY DEF SchedSweep
<1>3. \A p \in Pid : /\ Weakens(proc[p], proc'[p]) /\ proc'[p].sig = proc[p].sig
                     /\ Live(proc[p]) \/ Live(proc'[p]) => proc'[p] = proc[p]
  <2>1. \A p \in Pid : Weakens(proc[p], Reaped(proc[p])) /\ Weakens(proc[p], proc[p])
    BY <1>0, ProcessWeakens DEF Signal
  <2>2. \A x \in Process : /\ Reaped(x).sig = x.sig
                           /\ Live(x) \/ Live(Reaped(x)) => Reaped(x) = x
    BY DEF Reaped, Live, Process
  <2> QED
    BY <1>0, <1>2, <2>1, <2>2
<1>4. TableWeakens
  <2>1. \A r \in Row : row'[r].dev = row[r].dev /\ row'[r].done = row[r].done
    BY <1>0, <1>1 DEF Columns
  <2>2. \A r \in DaqRow : row'[r] = row[r]
    BY <1>1, ThreeKinds
  <2>3. \A w \in Worker : ~row'[w].done
    BY <2>1, ThreeKinds DEF WorkerInv
  <2> HIDE DEF dead
  <2> QED
    BY <1>0, <1>1, <2>1, <2>2, <2>3 DEF TableWeakens, ProcessInv
<1>5. \A r \in Row : tracked'[r] \in {0, tracked[r]}
  BY <1>0 DEF Popped
<1>6. ProcessesWeaken
  BY <1>0, <1>3, <1>5 DEF ProcessesWeaken
<1>7. \A p \in Pid : Live(proc'[p]) => proc[p].job \notin dead
  <2>1. ASSUME NEW p \in Pid, Live(proc'[p]) PROVE Popped[proc[p].job] # 0
    <3>1. Live(proc[p]) /\ tracked[proc[p].job] = p /\ proc[p].job \in Row
      BY <1>3, <2>1, LivesTracked DEF Weakens
    <3> QED
      BY <3>1, ThreeKinds DEF Popped, Live
  <2> QED
    BY <2>1
<1>8. DevicesStay
  BY <1>1, <1>3, <1>7 DEF DevicesStay, RowInv, Weakens
<1>9. \A w \in Worker : Leaving(w) => Leaving(w)'
  <2>1. \A w \in Worker : row'[w].enabled = row[w].enabled
    BY <1>0, <1>1, ThreeKinds DEF Columns
  <2> QED
    BY <1>0, <1>1, <2>1 DEF Leaving
<1>10. WorkersStay
  BY <1>3, <1>9 DEF WorkersStay
<1> QED
  BY <1>4, <1>6, <1>8, <1>10 DEF Weakening

LEMMA TermWeakens ==
    ASSUME IInv, DeviceInv,
           SchedTerm \/ (Allowed \subseteq DeviceEvents /\ \E s \in {"TERM", "USR1"} : SchedSignal(s))
    PROVE  Weakening
<1> USE DEF DeviceInv
<1>0. UNCHANGED <<table, proc, nextPid, mem, tracked>> /\ sch \in Control
  BY Parts DEF SchedSignal, SchedTerm
<1>1. /\ sch'.toStart = sch.toStart /\ sch'.pc \in {sch.pc, "stop"}
      /\ sch'.pc = sch.pc \/ sch.pc = "idle"
  BY <1>0 DEF SchedSignal, SchedTerm, Control
<1>2. TableWeakens /\ ProcessesWeaken
  BY <1>0, TableSame, ProcessesSame
<1>3. DevicesStay
  BY <1>0, <1>1 DEF DevicesStay, RowInv, table
<1>4. \A w \in Worker : Leaving(w) => Leaving(w)'
  BY <1>0, <1>1 DEF Leaving, table
<1> QED
  BY <1>0, <1>2, <1>3, <1>4 DEF Weakening, WorkersStay

\* When the scheduler stops, every worker is leaving.
LEMMA StopWeakens ==
    ASSUME IInv, DeviceInv, SchedStopRound \/ SchedStopEnd
    PROVE  Weakening
<1> USE DEF DeviceInv
<1>0. /\ proc \in [Pid -> Process] /\ sch \in Control /\ tracked \in [Row -> PidOrNone]
      /\ UNCHANGED <<table, nextPid, mem>> /\ sch.pc = "stop"
  BY Parts DEF SchedStopRound, SchedStopEnd
<1>1. sch'.toStart = {} /\ sch'.pc \in {"stop", "stopped"}
  BY <1>0 DEF SchedStopRound, SchedStopEnd, SchedInv, Control
<1>2. \A r \in Row : tracked'[r] \in {0, tracked[r]}
  BY <1>0 DEF SchedStopRound, SchedStopEnd, Popped
<1> DEFINE Ends(x, y) == /\ Weakens(x, y) /\ (Live(y) => y.st = x.st)
                         /\ OnlyTerm(x.sig) => OnlyTerm(y.sig)
<1>3. \A x \in Process, s \in {"TERM", "KILL"} :
         Ends(x, x) /\ Ends(x, KillProcess(x, s)) /\ Ends(x, Reaped(x)) /\ KillProcess(x, s) \in Process
  <2>1. ASSUME NEW x \in Process, NEW s \in {"TERM", "KILL"}
        PROVE  Ends(x, x) /\ Ends(x, KillProcess(x, s)) /\ Ends(x, Reaped(x))
               /\ KillProcess(x, s) \in Process
    <3>1. /\ Weakens(x, x) /\ Weakens(x, Reaped(x)) /\ Weakens(x, KillProcess(x, s))
          /\ Live(KillProcess(x, s)) => KillProcess(x, s).st = x.st
          /\ KillProcess(x, s) \in Process
      BY ProcessWeakens, ProcessOps DEF Signal
    <3>2. Live(Reaped(x)) => Reaped(x).st = x.st
      BY DEF Reaped, Live, Process
    <3>3. OnlyTerm(x.sig) => OnlyTerm(Reaped(x).sig) /\ OnlyTerm(KillProcess(x, s).sig)
      BY TermOnly
    <3> QED
      BY <3>1, <3>2, <3>3
  <2> QED
    BY <2>1
<1>4. \A x, y, z : Ends(x, y) /\ Ends(y, z) => Ends(x, z)
  BY DEF Weakens
<1>5. \A p \in Pid : Ends(proc[p], proc'[p])
  <2>1. ASSUME NEW p \in Pid PROVE Ends(proc[p], proc'[p])
    <3> HIDE DEF Ends
    <3>1. \A s \in {"TERM", "KILL"} : /\ Ends(proc[p], KillProcesses(s)[p])
                                      /\ KillProcesses(s)[p] \in Process
      BY <1>0, <1>3 DEF KillProcesses
    <3>2. CASE SchedStopRound
      BY <3>1, <3>2 DEF SchedStopRound
    <3>3. CASE SchedStopEnd
      <4>1. proc'[p] = Reaped(KillProcesses("KILL")[p])
        BY <3>3 DEF SchedStopEnd
      <4> QED
        BY <1>3, <1>4, <3>1, <4>1
    <3> QED
      BY <3>2, <3>3
  <2> QED
    BY <2>1
<1>6. TableWeakens
  BY <1>0, TableSame
<1>7. ProcessesWeaken
  BY <1>0, <1>2, <1>5 DEF ProcessesWeaken
<1>8. DevicesStay
  BY <1>0, <1>1, <1>5 DEF DevicesStay, RowInv, Weakens, table
<1>9. WorkersStay
  <2>1. \A w \in Worker : Leaving(w)'
    BY <1>1 DEF Leaving
  <2>2. \A p \in Pid : IsWorker(p) => OnlyTerm(proc[p].sig)
    BY DEF WorkerInv, OnlyTerm
  <2> QED
    BY <1>5, <2>1, <2>2 DEF WorkersStay, IsWorker
<1> QED
  BY <1>6, <1>7, <1>8, <1>9 DEF Weakening
----------------------------------------------------------------------------
(* Steps of the processes that start none.                                 *)

LEMMA StartWeakens ==
    ASSUME IInv, DeviceInv, NEW p \in Pid, Register(p) \/ Ready(p)
    PROVE  Weakening
<1> USE DEF DeviceInv
<1>0. /\ proc \in [Pid -> Process] /\ mem \in [Pid -> Memory] /\ tracked \in [Row -> PidOrNone]
      /\ row \in [Row -> Columns] /\ UNCHANGED <<rows, nextRow, nextPid, mem, sch, tracked>>
  BY Parts DEF Register, Ready, table
<1>1. PICK st \in {"registered", "init", "run"} :
         /\ proc' = [proc EXCEPT ![p].st = st]
         /\ st = "registered" <=> proc[p].st = "forked"
  BY DEF Register, Ready
<1>2. proc[p].st \in {"forked", "registered"} /\ mem[p].pc = "list"
  BY DEF Register, Ready, MemInv
<1>3. /\ \A q \in Pid : q # p => proc'[q] = proc[q]
      /\ proc'[p] = [proc[p] EXCEPT !.st = st]
  BY <1>0, <1>1
<1>4. Weakens(proc[p], proc'[p]) /\ proc'[p].sig = proc[p].sig /\ Live(proc'[p]) /\ Live(proc[p])
  BY <1>0, <1>1, <1>2, <1>3 DEF Weakens, Live, Early, NoProcess, Process
<1>5. \A q \in Pid : Weakens(proc[q], proc[q])
  BY DEF Weakens
<1>6. ProcessesWeaken
  BY <1>0, <1>2, <1>3, <1>4, <1>5 DEF ProcessesWeaken
<1>7. \A r \in Row : /\ row'[r].dev = row[r].dev /\ row'[r].enabled = row[r].enabled
                     /\ row'[r].done => row[r].done
                     /\ row'[r].pid = row[r].pid \/ (row'[r].pid = p /\ proc[p].job = r)
  BY <1>0 DEF Register, Ready, table, Columns
<1>8. TableWeakens
  BY <1>0, <1>7, ThreeKinds DEF TableWeakens, ProcessInv, WorkerInv
<1>9. DevicesStay
  BY <1>0, <1>3, <1>4 DEF DevicesStay, RowInv
<1>10. \A w \in Worker : Leaving(w) => Leaving(w)'
  BY <1>0, <1>7, ThreeKinds DEF Leaving
<1>11. WorkersStay
  BY <1>3, <1>4, <1>10 DEF WorkersStay
<1> QED
  BY <1>6, <1>8, <1>9, <1>11 DEF Weakening

\* Clearing the pid of a row changes nothing else.
LEMMA PidClearedWeakens ==
    ASSUME IInv, ProcessInv, WorkerInv, NEW r \in Row, row' = PidCleared(r),
           rows' \subseteq rows, nextRow' = nextRow
    PROVE  TableWeakens /\ \A w \in Worker : row'[w].enabled = row[w].enabled
<1>1. row \in [Row -> Columns]
  BY Parts
<1>2. \A s \in Row : /\ row'[s].dev = row[s].dev /\ row'[s].enabled = row[s].enabled
                     /\ row'[s].done = row[s].done /\ row'[s].pid \in {0, row[s].pid}
  BY <1>1 DEF PidCleared, Columns
<1> QED
  BY <1>2, ThreeKinds DEF TableWeakens, ProcessInv, WorkerInv

\* A worker exits only because it was told to.
LEMMA WorkerStopWeakens ==
    ASSUME IInv, DeviceInv, NEW p \in Pid, WorkerStop(p)
    PROVE  Weakening
<1> USE DEF DeviceInv
<1>0. /\ proc \in [Pid -> Process] /\ mem \in [Pid -> Memory] /\ tracked \in [Row -> PidOrNone]
      /\ UNCHANGED <<rows, nextRow, nextPid, sch, tracked>> /\ row' = PidCleared(proc[p].job)
      /\ proc' = [proc EXCEPT ![p] = Dead(proc[p])] /\ mem' = [mem EXCEPT ![p] = NoMem]
  BY Parts DEF WorkerStop, WorkerExit
<1>1. Live(proc[p]) /\ proc[p].sig # <<>> /\ proc[p].job \in Worker
  BY DEF WorkerStop, In, Live, Signalled, IsWorker
<1>2. TableWeakens /\ \A w \in Worker : row'[w].enabled = row[w].enabled
  BY <1>0, <1>1, PidClearedWeakens, ThreeKinds
<1>3. /\ Weakens(proc[p], proc'[p]) /\ ~Live(proc'[p]) /\ proc'[p].sig = <<>>
      /\ \A q \in Pid : q # p => proc'[q] = proc[q] /\ mem'[q] = mem[q]
      /\ mem'[p] = NoMem
  <2>1. Weakens(proc[p], Dead(proc[p]))
    BY <1>0, <1>1, ProcessWeakens DEF Signal
  <2>2. ~Live(Dead(proc[p])) /\ Dead(proc[p]).sig = <<>>
    BY <1>0 DEF Dead, Live, Process
  <2> QED
    BY <1>0, <2>1, <2>2
<1>4. \A q \in Pid : Weakens(proc[q], proc[q])
  BY DEF Weakens
<1>5. ProcessesWeaken
  BY <1>0, <1>3, <1>4 DEF ProcessesWeaken
<1>6. DevicesStay
  BY <1>0, <1>3 DEF DevicesStay, RowInv
<1>7. WorkersStay
  <2>1. Leaving(proc[p].job)
    BY <1>1 DEF WorkerInv, Untouched, IsWorker
  <2>2. \A w \in Worker : Leaving(w) => Leaving(w)'
    BY <1>0, <1>2 DEF Leaving
  <2>3. OnlyTerm(proc'[p].sig)
    BY <1>3 DEF OnlyTerm
  <2> QED
    BY <1>3, <2>1, <2>2, <2>3 DEF WorkersStay
<1> QED
  BY <1>2, <1>5, <1>6, <1>7 DEF Weakening

LEMMA DaqStepWeakens ==
    ASSUME IInv, DeviceInv, NEW p \in Pid, DaqStep(p) \/ DaqFail(p)
    PROVE  Weakening
<1> USE DEF DeviceInv
<1>0. /\ proc \in [Pid -> Process] /\ rows \subseteq DaqRow
      /\ UNCHANGED <<nextRow, nextPid, mem, sch, tracked>>
  BY Parts DEF DaqStep, DaqStop, DaqFail, DaqStopping, DaqExit, DaqReinit, table
<1>1. /\ proc[p].job \in DaqRow /\ ~IsWorker(p) /\ Live(proc[p])
      /\ tracked[proc[p].job] = p
  <2>1. proc[p].job \in DaqRow /\ Live(proc[p])
    BY DEF DaqStep, DaqStop, DaqFail, DaqExit, DaqReinit, IsDaq, Live
  <2> QED
    BY <2>1, ThreeKinds, LivesTracked DEF IsWorker
<1>2. CASE DaqStop(p) \/ DaqFail(p)
  <2>1. /\ proc' = [proc EXCEPT ![p] = [proc[p] EXCEPT !.st = "stopping", !.sig = <<>>]]
        /\ row' = PidCleared(proc[p].job) /\ rows' = rows
    BY <1>2 DEF DaqStop, DaqFail, DaqStopping
  <2>2. Weakens(proc[p], [proc[p] EXCEPT !.st = "stopping", !.sig = <<>>])
    BY <1>0, <1>1 DEF Weakens, Live, Early, NoProcess, Process
  <2>3. TableWeakens /\ \A w \in Worker : row'[w].enabled = row[w].enabled
    BY <1>0, <1>1, <2>1, PidClearedWeakens, ThreeKinds
  <2>4. ProcessesWeaken /\ WorkersStay
    BY <1>0, <1>1, <2>1, <2>2, <2>3, OneDaqWeakens
  <2>5. \A q \in Pid : Live(proc'[q]) => Live(proc[q])
    BY <1>0, <1>1, <2>1
  <2> QED
    BY <1>0, <2>1, <2>3, <2>4, <2>5, RowsSame DEF Weakening
<1>3. CASE DaqExit(p)
  <2>1. /\ proc' = [proc EXCEPT ![p] = Dead(proc[p])] /\ row' = row
        /\ rows' = rows \ {proc[p].job}
    BY <1>3 DEF DaqExit
  <2>2. Weakens(proc[p], Dead(proc[p])) /\ ~Live(Dead(proc[p]))
    <3>1. ~Live(Dead(proc[p]))
      BY <1>0 DEF Dead, Live, Process
    <3> QED
      BY <1>0, <1>1, <3>1, ProcessWeakens DEF Signal
  <2>3. ProcessesWeaken /\ WorkersStay
    BY <1>0, <1>1, <2>1, <2>2, OneDaqWeakens
  <2>4. TableWeakens
    BY <1>0, <2>1, Parts DEF TableWeakens, ProcessInv, WorkerInv
  <2>5. \A q \in Pid : Live(proc'[q]) => Live(proc[q]) /\ proc[q].job # proc[p].job
    BY <1>0, <1>1, <2>1, <2>2, LivesTracked
  <2>6. DevicesStay
    BY <1>0, <1>1, <2>1, <2>5, ThreeKinds DEF DevicesStay, RowInv
  <2> QED
    BY <2>3, <2>4, <2>6 DEF Weakening
<1>4. CASE DaqReinit(p)
  <2>1. /\ proc' = [proc EXCEPT ![p] = [proc[p] EXCEPT !.sig = Tail(@)]] /\ UNCHANGED table
        /\ rows' = rows /\ row' = row
    BY <1>4 DEF DaqReinit, table
  <2>2. Weakens(proc[p], [proc[p] EXCEPT !.sig = Tail(@)])
    <3> DEFINE y == [proc[p] EXCEPT !.sig = Tail(@)]
    <3>1. y.st = proc[p].st /\ y.job = proc[p].job /\ y.child = proc[p].child
      BY <1>0 DEF Process
    <3> HIDE DEF y
    <3> QED
      BY <1>1, <3>1 DEF Weakens, Live, Early, NoProcess, y
  <2>3. ProcessesWeaken /\ WorkersStay
    BY <1>0, <1>1, <2>1, <2>2, OneDaqWeakens
  <2>4. \A q \in Pid : Live(proc'[q]) => Live(proc[q])
    BY <1>0, <1>1, <2>1
  <2> QED
    BY <1>0, <2>1, <2>3, <2>4, RowsSame, TableSame DEF Weakening
<1> QED
  BY <1>2, <1>3, <1>4 DEF DaqStep

\* Only the processes of devices are killed or sent a signal, and workers are disabled
\* for good.
LEMMA EnvironmentWeakens ==
    ASSUME IInv, DeviceInv, Allowed \subseteq DeviceEvents, Environment
    PROVE  Weakening
<1> USE DEF DeviceInv
<1>0. /\ proc \in [Pid -> Process] /\ row \in [Row -> Columns] /\ rows \subseteq DaqRow
      /\ sch \in Control
  BY Parts
<1>1. ~SchedCrash /\ ~SchedStart /\ \A p \in Pid : ~WorkerFail(p) /\ ~InitFail(p)
  BY Excluded DEF SchedCrash, SchedStart, WorkerFail, InitFail, Role
<1>2. ASSUME NEW p \in Pid, Kill(p) PROVE Weakening
  <2>1. Live(proc[p]) /\ proc[p].job \notin Worker
    BY <1>2, Excluded DEF Kill, Role
  <2>2. /\ proc' = [proc EXCEPT ![p] = Dead(proc[p])] /\ mem' = [mem EXCEPT ![p] = NoMem]
        /\ UNCHANGED <<table, nextPid, sch, tracked>> /\ row' = row /\ rows' = rows
    BY <1>2 DEF Kill, table
  <2>3. Weakens(proc[p], Dead(proc[p])) /\ ~Live(Dead(proc[p]))
    <3>1. ~Live(Dead(proc[p]))
      BY <1>0 DEF Dead, Live, Process
    <3> QED
      BY <1>0, <2>1, <3>1, ProcessWeakens DEF Signal
  <2>4. ProcessesWeaken /\ WorkersStay
    BY <1>0, <2>1, <2>2, <2>3, OneDaqWeakens DEF IsWorker
  <2>5. \A q \in Pid : Live(proc'[q]) => Live(proc[q])
    BY <1>0, <2>1, <2>2
  <2> QED
    BY <2>2, <2>4, <2>5, RowsSame, TableSame DEF Weakening
<1>3. ASSUME NEW p \in Pid, DaqFail(p) PROVE Weakening
  BY <1>3, DaqStepWeakens
<1>4. ASSUME NEW r \in Row, AdminToggle(r) PROVE Weakening
  <2>1. /\ row' = [row EXCEPT ![r].enabled = ~@] /\ rows' = rows
        /\ UNCHANGED <<nextRow, proc, nextPid, mem, sch, tracked>>
    BY <1>4 DEF AdminToggle
  <2>2. r \in Worker => row[r].enabled
    BY <1>4, Excluded DEF AdminToggle, Role
  <2>3. TableWeakens
    BY <1>0, <2>1, ThreeKinds DEF TableWeakens, ProcessInv, WorkerInv, Columns
  <2>4. ProcessesWeaken /\ DevicesStay
    BY <2>1, ProcessesSame, RowsSame
  <2>5. \A w \in Worker : Leaving(w) => Leaving(w)'
    BY <1>0, <2>1, <2>2, ThreeKinds DEF Leaving, Columns
  <2> QED
    BY <2>1, <2>3, <2>4, <2>5 DEF Weakening, WorkersStay
<1>5. ASSUME NEW r \in Row, NEW s \in {"TERM", "USR1"}, AdminSignal(r, s) PROVE Weakening
  <2> DEFINE p == row[r].pid
  <2>1. /\ proc' = [proc EXCEPT ![p] = Sent(proc[p], s)] /\ row' = row /\ rows' = rows
        /\ UNCHANGED <<table, nextPid, mem, sch, tracked>> /\ p # 0
    BY <1>5 DEF AdminSignal, table
  <2>2. r \notin Worker
    BY <1>5, Excluded DEF AdminSignal, Role
  <2>3. p \in Pid /\ proc[p].job = r
    BY <1>0, <2>1, <2>2, ThreeKinds DEF ProcessInv, Columns
  <2>4. Weakens(proc[p], Sent(proc[p], s))
    BY <1>0, <2>3, ProcessWeakens DEF Signal
  <2>5. ProcessesWeaken /\ WorkersStay
    <3> HIDE DEF p
    <3> QED
      BY <1>0, <2>1, <2>2, <2>3, <2>4, OneDaqWeakens DEF IsWorker
  <2>6. \A q \in Pid : Live(proc'[q]) => Live(proc[q])
    BY <1>0, <2>1, <2>3, <2>4 DEF Weakens
  <2> QED
    BY <2>1, <2>5, <2>6, RowsSame, TableSame DEF Weakening
<1>6. CASE \E s \in {"TERM", "USR1"} : SchedSignal(s)
  BY <1>6, TermWeakens
<1> QED
  BY <1>1, <1>2, <1>3, <1>4, <1>5, <1>6 DEF Environment
----------------------------------------------------------------------------
(* Steps that start a process or insert a row.                             *)

\* Nothing has ever run for the row of a worker that is to be started.
LEMMA NeverStarted ==
    ASSUME IInv, DeviceInv, NEW w \in Worker, sch.pc = "pass", w \in sch.toStart, tracked[w] = 0
    PROVE  (\A p \in Pid : proc[p].job # w) /\ Kids(w) = {}
<1> USE DEF DeviceInv
<1>1. ASSUME NEW p \in Pid, proc[p].job = w PROVE FALSE
  <2>1. ~Leaving(w)
    BY DEF Leaving
  <2>2. Live(proc[p])
    BY <1>1, <2>1 DEF WorkerInv, IsWorker, Untouched
  <2> QED
    BY <1>1, <2>2, LivesTracked, ThreeKinds
<1>2. Kids(w) = {}
  BY <1>1 DEF MemInv
<1> QED
  BY <1>1, <1>2

LEMMA SpawnKeeps ==
    ASSUME IInv, DeviceInv, NEW r \in Row, SchedSpawn(r)
    PROVE  ProcessInv' /\ WorkerInv' /\ RowInv' /\ MemInv'
<1> USE DEF DeviceInv
<1> DEFINE n == nextPid
           child == [st |-> "forked", job |-> r, child |-> TRUE, sig |-> <<>>]
<1>0. /\ proc \in [Pid -> Process] /\ tracked \in [Row -> PidOrNone] /\ sch \in Control
      /\ UNCHANGED <<table, mem>> /\ rows' = rows /\ row' = row /\ nextRow' = nextRow
      /\ row \in [Row -> Columns] /\ rows \subseteq DaqRow
  BY Parts DEF SchedSpawn, table
<1>1. /\ n \in Pid /\ n # 0 /\ nextPid' = n + 1
      /\ proc' = [proc EXCEPT ![n] = child]
      /\ tracked' = [tracked EXCEPT ![r] = n] /\ tracked[r] = 0
      /\ sch.pc = "pass" /\ r \in sch.toStart
      /\ sch'.pc = "pass" /\ sch'.toStart = sch.toStart \ {r}
  BY <1>0, Parts DEF SchedSpawn, MustSpawn, Control, Pid
<1> HIDE DEF n
<1>2. /\ proc'[n] = child /\ \A p \in Pid : p # n => proc'[p] = proc[p]
      /\ tracked'[r] = n /\ \A s \in Row : s # r => tracked'[s] = tracked[s]
      /\ proc[n] = NoProcess
  BY <1>0, <1>1 DEF ProcessInv, n, Pid
<1>3. /\ child.st = "forked" /\ child.job = r /\ child.child /\ child.sig = <<>>
      /\ Live(child)
  BY DEF Live
<1> HIDE DEF child
<1>4. \A p \in Pid : p # n /\ tracked[r] = 0 /\ Live(proc[p]) => proc[p].job # r
  BY LivesTracked, ThreeKinds
<1>5. r \in Worker => (\A p \in Pid : proc[p].job # r) /\ Kids(r) = {}
  BY <1>1, NeverStarted
<1>6. ProcessInv'
  <2>1. \A p \in Pid : p >= nextPid' => proc'[p] = NoProcess
    BY <1>1, <1>2 DEF ProcessInv, n, Pid
  <2>2. \A p \in Pid : proc'[p].st # "none" => proc'[p].child
    BY <1>2, <1>3 DEF ProcessInv
  <2>3. ASSUME NEW s \in Row, tracked'[s] # 0 PROVE proc'[tracked'[s]].job = s
    <3>1. CASE s = r
      BY <1>2, <1>3, <3>1
    <3>2. CASE s # r
      <4>1. tracked'[s] = tracked[s] /\ tracked[s] \in Pid /\ proc[tracked[s]].job = s
        BY <1>0, <1>2, <2>3, <3>2, ThreeKinds DEF ProcessInv
      <4>2. tracked[s] # n
        BY <1>2, <4>1, ThreeKinds DEF NoProcess
      <4> QED
        BY <1>2, <4>1, <4>2
    <3> QED
      BY <3>1, <3>2
  <2>4. ASSUME NEW s \in DaqRow, row'[s].pid # 0 PROVE proc'[row'[s].pid].job = s
    <3>1. row[s].pid \in Pid /\ proc[row[s].pid].job = s
      BY <1>0, <2>4, ThreeKinds DEF ProcessInv, Columns
    <3>2. row[s].pid # n
      BY <1>2, <3>1, ThreeKinds DEF NoProcess
    <3> QED
      BY <1>0, <1>2, <3>1, <3>2
  <2> QED
    BY <2>1, <2>2, <2>3, <2>4 DEF ProcessInv
<1>7. WorkerInv'
  <2>1. \A w \in Worker : Leaving(w) => Leaving(w)'
    BY <1>0, <1>1 DEF Leaving
  <2>2. ASSUME NEW p \in Pid, NEW w \in Worker, proc'[p].job = w
        PROVE  (Untouched(p)' \/ Leaving(w)') /\ OnlyTerm(proc'[p].sig)
    <3>1. CASE p = n
      BY <1>2, <1>3, <3>1 DEF Untouched, OnlyTerm
    <3>2. CASE p # n
      <4>1. (Untouched(p) \/ Leaving(w)) /\ OnlyTerm(proc[p].sig)
        BY <1>2, <2>2, <3>2 DEF WorkerInv, IsWorker, OnlyTerm
      <4> QED
        BY <1>2, <2>1, <3>2, <4>1 DEF Untouched
    <3> QED
      BY <3>1, <3>2
  <2>3. \A p \in Pid : IsWorker(p)' =>
           (Untouched(p) \/ Leaving(proc[p].job))' /\ OnlyTerm(proc'[p].sig)
    BY <2>2 DEF IsWorker, Leaving
  <2>4. \A p, q \in Pid : IsWorker(p)' /\ proc'[p].job = proc'[q].job => p = q
    BY <1>2, <1>3, <1>5 DEF WorkerInv, IsWorker
  <2> QED
    BY <1>0, <2>3, <2>4 DEF WorkerInv, OnlyTerm
<1>8. RowInv'
  <2>1. \A p \in Pid : IsDaq(p)' /\ Live(proc'[p]) => proc'[p].job \in rows'
    BY <1>0, <1>1, <1>2, <1>3 DEF RowInv, IsDaq
  <2>2. \A s \in sch'.toStart : s \in DaqRow /\ tracked'[s] = 0 => s \in rows'
    BY <1>0, <1>1, <1>2, ThreeKinds DEF RowInv
  <2> QED
    BY <1>0, <2>1, <2>2 DEF RowInv
<1>9. MemInv'
  <2>1. \A p \in Pid : proc'[p].st \in {"none", "forked", "registered"} => mem'[p].pc = "list"
    BY <1>0, <1>2 DEF MemInv, NoProcess
  <2>2. ASSUME NEW p \in Pid, NEW w \in Worker, proc'[p].job = w, Live(proc'[p])
        PROVE  IF Begun(p)' THEN Remembers(p)' ELSE Kids(w)' = {}
    <3>1. CASE p = n
      BY <1>0, <1>2, <1>3, <1>5, <2>2, <3>1 DEF Begun, Kids, Parent
    <3>2. CASE p # n
      <4>1. proc'[p] = proc[p] /\ IsWorker(p)
        BY <1>2, <2>2, <3>2 DEF IsWorker
      <4>2. IF Begun(p) THEN Remembers(p) ELSE Kids(w) = {}
        BY <2>2, <4>1 DEF MemInv
      <4> QED
        BY <1>0, <4>1, <4>2 DEF Begun, Remembers, Kids, Parent
    <3> QED
      BY <3>1, <3>2
  <2>3. \A p \in Pid : IsWorker(p)' /\ Live(proc'[p]) =>
           (IF Begun(p) THEN Remembers(p) ELSE Kids(proc[p].job) = {})'
    BY <2>2 DEF IsWorker, Kids, Parent
  <2>4. ASSUME NEW w \in Worker, Kids(w)' # {} PROVE \E p \in Pid : proc'[p].job = w
    <3>1. PICK p \in Pid : proc[p].job = w
      BY <1>0, <2>4 DEF MemInv, Kids, Parent
    <3>2. p # n
      BY <1>2, <3>1, ThreeKinds DEF NoProcess
    <3> QED
      BY <1>2, <3>1, <3>2
  <2> QED
    BY <1>0, <2>1, <2>3, <2>4 DEF MemInv
<1> QED
  BY <1>6, <1>7, <1>8, <1>9

\* A worker that has not created its rows finds none: it has nothing to delete.
LEMMA ListCleanKeep ==
    ASSUME IInv, DeviceInv, NEW p \in Pid, WorkerList(p) \/ WorkerClean(p)
    PROVE  ProcessInv' /\ WorkerInv' /\ RowInv' /\ MemInv'
<1> USE DEF DeviceInv
<1> DEFINE w == proc[p].job
<1>0. /\ UNCHANGED <<row, nextRow, proc, nextPid, sch, tracked>> /\ mem \in [Pid -> Memory]
      /\ row' = row /\ proc' = proc
  BY Parts DEF WorkerList, WorkerClean, table
<1>1. w \in Worker /\ proc[p].st \in {"init", "run"} /\ Kids(w) = {}
  <2>1. w \in Worker /\ proc[p].st \in {"init", "run"} /\ mem[p].pc \in {"list", "check"}
    BY DEF WorkerList, WorkerClean, In, IsWorker
  <2> QED
    BY <2>1 DEF MemInv, IsWorker, Live, Begun
<1>2. rows' = rows
  BY <1>0, <1>1 DEF WorkerList, WorkerClean, table
<1>3. \E m : /\ mem' = [mem EXCEPT ![p] = m] /\ m.todo = {} /\ m.pc \in {"check", "create"}
  <2>1. CASE WorkerList(p)
    <3>1. mem' = [mem EXCEPT ![p] = [mem[p] EXCEPT !.pc = "check", !.todo = {}]]
      BY <1>1, <2>1 DEF WorkerList
    <3>2. [mem[p] EXCEPT !.pc = "check", !.todo = {}].todo = {}
          /\ [mem[p] EXCEPT !.pc = "check", !.todo = {}].pc = "check"
      BY <1>0 DEF Memory
    <3> QED
      BY <3>1, <3>2
  <2>2. CASE WorkerClean(p)
    <3> DEFINE m == [NoMem EXCEPT !.pc = "create"]
    <3>1. m.todo = {} /\ m.pc = "create"
      BY DEF NoMem
    <3> HIDE DEF m
    <3> QED
      BY <2>2, <3>1 DEF WorkerClean, m
  <2> QED
    BY <2>1, <2>2
<1>4. /\ mem'[p].todo = {} /\ mem'[p].pc \in {"check", "create"}
      /\ \A q \in Pid : q # p => mem'[q] = mem[q]
  BY <1>0, <1>3
<1>5. ProcessInv' /\ WorkerInv' /\ RowInv'
  <2>1. ProcessInv'
    BY <1>0 DEF ProcessInv
  <2>2. WorkerInv'
    BY <1>0 DEF WorkerInv, IsWorker, Untouched, Leaving
  <2>3. RowInv'
    BY <1>0, <1>2 DEF RowInv, IsDaq
  <2> QED
    BY <2>1, <2>2, <2>3
<1>6. \A v : Kids(v)' = Kids(v)
  BY <1>0, <1>2 DEF Kids, Parent
<1>7. ASSUME NEW q \in Pid, IsWorker(q), Live(proc[q])
      PROVE  (IF Begun(q) THEN Remembers(q) ELSE Kids(proc[q].job) = {})'
  <2>1. CASE q = p
    BY <1>0, <1>1, <1>2, <2>1 DEF Remembers, Kids, Parent
  <2>2. CASE q # p
    BY <1>0, <1>2, <1>4, <1>7, <2>2 DEF MemInv, Begun, Remembers, Kids, Parent
  <2> QED
    BY <2>1, <2>2
<1>8. MemInv'
  <2>1. \A q \in Pid : mem'[q].pc \in {"list", "check", "create", "loop"} /\ mem'[q].todo = {}
    BY <1>4 DEF MemInv
  <2>2. \A q \in Pid : proc'[q].st \in {"none", "forked", "registered"} => mem'[q].pc = "list"
    BY <1>0, <1>1, <1>4 DEF MemInv
  <2>3. \A v \in Worker : Kids(v)' # {} => \E q \in Pid : proc'[q].job = v
    BY <1>0, <1>6 DEF MemInv
  <2>4. \A q \in Pid : (IsWorker(q) /\ Live(proc[q]))' =>
           (IF Begun(q) THEN Remembers(q) ELSE Kids(proc[q].job) = {})'
    BY <1>0, <1>7 DEF IsWorker
  <2> QED
    BY <2>1, <2>2, <2>3, <2>4 DEF MemInv
<1> QED
  BY <1>5, <1>8

\* A row inserted for a device that has none.
LEMMA InsertKeeps ==
    ASSUME IInv, IInv', DeviceInv, NEW p \in Pid, NEW w \in Worker, NEW i \in 1..NDev,
           proc[p].job = w, Begun(p), InsertRow(w, i), UNCHANGED <<nextPid, sch, tracked>>,
           \A r \in rows : row[r].dev # <<w, i>>,
           NEW m, mem'[p] = m, \A q \in Pid : q # p => mem'[q] = mem[q],
           m.todo = {}, m.pc \in {"create", "loop"},
           m.ids = [mem[p].ids EXCEPT ![i] = nextRow],
           m.pc = "create" => mem[p].pc = "create" /\ mem[p].i = i /\ m.i = i + 1,
           proc' = proc \/ proc' = [proc EXCEPT ![p].st = "run"]
    PROVE  ProcessInv' /\ WorkerInv' /\ RowInv' /\ MemInv'
<1> USE DEF DeviceInv
<1> DEFINE n == nextRow
<1>0. /\ rows \subseteq DaqRow /\ row \in [Row -> Columns] /\ proc \in [Pid -> Process]
      /\ mem \in [Pid -> Memory] /\ n \in DaqRow
  BY Parts, InsertRowTypes DEF IInv
<1>1. /\ rows' = rows \cup {n} /\ n \notin rows /\ nextRow' = n + 1
      /\ row'[n] = [dev |-> <<w, i>>, enabled |-> TRUE, done |-> FALSE, pid |-> 0]
      /\ \A r \in Row : r # n => row'[r] = row[r]
  <2>1. n \notin rows
    BY <1>0 DEF RowInv, DaqRow
  <2> QED
    BY <1>0, <2>1, ThreeKinds DEF InsertRow
<1>2. /\ row'[n].dev = <<w, i>> /\ row'[n].dev[1] = w /\ row'[n].dev[2] = i /\ row'[n].pid = 0
      /\ <<w, i>> \in Dev
  BY <1>1 DEF Dev
<1> HIDE DEF n
<1>3. /\ \A q \in Pid : /\ proc'[q].job = proc[q].job /\ proc'[q].child = proc[q].child
                        /\ proc'[q].sig = proc[q].sig /\ (Live(proc'[q]) <=> Live(proc[q]))
                        /\ q # p => proc'[q] = proc[q] /\ mem'[q] = mem[q]
      /\ proc'[p].st \in {"init", "run"} /\ mem'[p] = m
  BY <1>0 DEF Begun, Live, Process
<1>4. \A q \in Pid : proc'[q].st = proc[q].st \/ q = p
  BY <1>3
<1>5. ProcessInv'
  <2>1. \A q \in Pid : q >= nextPid' => proc'[q] = NoProcess
    BY <1>3 DEF ProcessInv, Begun, NoProcess
  <2>2. \A q \in Pid : proc'[q].st # "none" => proc'[q].child
    BY <1>3 DEF ProcessInv, Begun
  <2>3. \A r \in Row : tracked'[r] # 0 => proc'[tracked'[r]].job = r
    BY <1>3, Parts, ThreeKinds DEF ProcessInv
  <2>4. ASSUME NEW r \in DaqRow, row'[r].pid # 0 PROVE proc'[row'[r].pid].job = r
    <3>1. row'[r] = row[r]
      BY <1>1, <1>2, <2>4, ThreeKinds
    <3>2. row[r].pid \in Pid /\ proc[row[r].pid].job = r
      BY <1>0, <2>4, <3>1, ThreeKinds DEF ProcessInv, Columns
    <3> QED
      BY <1>3, <3>1, <3>2
  <2> QED
    BY <2>1, <2>2, <2>3, <2>4 DEF ProcessInv
<1>6. WorkerInv'
  <2>1. \A v \in Worker : row'[v] = row[v]
    BY <1>0, <1>1, ThreeKinds
  <2>2. \A v \in Worker : Leaving(v) => Leaving(v)'
    BY <2>1 DEF Leaving
  <2>3. ASSUME NEW q \in Pid, NEW v \in Worker, proc'[q].job = v
        PROVE  (Untouched(q)' \/ Leaving(v)') /\ OnlyTerm(proc'[q].sig)
    BY <1>3, <2>2, <2>3 DEF WorkerInv, IsWorker, Untouched, OnlyTerm
  <2>4. \A q \in Pid : IsWorker(q)' =>
           (Untouched(q) \/ Leaving(proc[q].job))' /\ OnlyTerm(proc'[q].sig)
    BY <2>3 DEF IsWorker, Leaving
  <2>5. \A q, s \in Pid : IsWorker(q)' /\ proc'[q].job = proc'[s].job => q = s
    BY <1>3 DEF WorkerInv, IsWorker
  <2> QED
    BY <2>1, <2>4, <2>5 DEF WorkerInv, OnlyTerm
<1>7. RowInv'
  <2>1. \A r \in rows : row'[r] = row[r]
    BY <1>0, <1>1, ThreeKinds
  <2>2. \A r \in rows' : r < nextRow' /\ row'[r].dev \in Dev
    BY <1>0, <1>1, <1>2, <2>1 DEF RowInv, DaqRow, n
  <2>3. \A r, s \in rows' : row'[r].dev = row'[s].dev => r = s
    BY <1>1, <1>2, <2>1 DEF RowInv
  <2>4. \A q \in Pid : IsDaq(q)' /\ Live(proc'[q]) => proc'[q].job \in rows'
    BY <1>1, <1>3 DEF RowInv, IsDaq
  <2>5. \A r \in sch'.toStart : r \in DaqRow /\ tracked'[r] = 0 => r \in rows'
    BY <1>1 DEF RowInv
  <2> QED
    BY <2>2, <2>3, <2>4, <2>5 DEF RowInv
<1>8. MemInv'
  <2>1. \A r \in rows : row'[r] = row[r] /\ row[r].dev \in Dev
    BY <1>0, <1>1, ThreeKinds DEF RowInv
  <2>2. Begun(p)' /\ Remembers(p)'
    <3>1. IsWorker(p) /\ Live(proc[p]) /\ Remembers(p)
      BY DEF MemInv, Begun, Live, IsWorker
    <3>2. mem[p].ids \in [1..NDev -> RowId]
      BY <1>0 DEF Memory
    <3>3. ASSUME NEW r \in rows, row[r].dev[1] = w
          PROVE  /\ m.ids[row[r].dev[2]] = r
                 /\ m.pc = "create" => row[r].dev[2] < m.i
      <4>1. row[r].dev[2] # i /\ row[r].dev[2] \in 1..NDev
        BY <2>1, <3>3 DEF Dev
      <4>2. /\ mem[p].ids[row[r].dev[2]] = r
            /\ mem[p].pc = "create" => row[r].dev[2] < mem[p].i
        BY <3>1, <3>3 DEF Remembers, Parent
      <4> QED
        BY <3>2, <4>1, <4>2
    <3>4. m.ids[i] = n /\ (m.pc = "create" => i < m.i)
      <4>1. m.ids[i] = n
        BY <3>2 DEF n
      <4>2. i < i + 1
        OBVIOUS
      <4> QED
        BY <4>1, <4>2
    <3>5. \A r \in rows' : row'[r].dev[1] = w =>
             m.ids[row'[r].dev[2]] = r /\ (m.pc = "create" => row'[r].dev[2] < m.i)
      BY <1>1, <1>2, <2>1, <3>3, <3>4
    <3>6. Remembers(p)'
      BY <1>3, <3>5 DEF Remembers, Parent
    <3> QED
      BY <1>3, <3>6 DEF Begun
  <2>3. ASSUME NEW q \in Pid, NEW v \in Worker, proc[q].job = v, Live(proc[q])
        PROVE  IF Begun(q)' THEN Remembers(q)' ELSE Kids(v)' = {}
    <3>1. CASE q = p
      BY <2>2, <3>1
    <3>2. CASE q # p
      <4>1. v # w
        BY <2>3, <3>2 DEF WorkerInv, IsWorker
      <4>2. IF Begun(q) THEN Remembers(q) ELSE Kids(v) = {}
        BY <2>3 DEF MemInv, IsWorker
      <4>3. Begun(q)' <=> Begun(q)
        BY <1>3, <3>2 DEF Begun
      <4>4. Remembers(q) => Remembers(q)'
        BY <1>1, <1>2, <1>3, <2>1, <2>3, <3>2, <4>1 DEF Remembers, Parent
      <4>5. Kids(v) = {} => Kids(v)' = {}
        BY <1>1, <1>2, <2>1, <4>1 DEF Kids, Parent
      <4> QED
        BY <4>2, <4>3, <4>4, <4>5
    <3> QED
      BY <3>1, <3>2
  <2>4. \A q \in Pid : IsWorker(q)' /\ Live(proc'[q]) =>
           (IF Begun(q) THEN Remembers(q) ELSE Kids(proc[q].job) = {})'
    BY <1>3, <2>3 DEF IsWorker, Kids, Parent
  <2>5. ASSUME NEW v \in Worker, Kids(v)' # {} PROVE \E q \in Pid : proc'[q].job = v
    <3>1. CASE v = w
      BY <1>3, <3>1
    <3>2. CASE v # w
      <4>1. Kids(v) # {}
        BY <1>1, <1>2, <2>1, <2>5, <3>2 DEF Kids, Parent
      <4> QED
        BY <1>3, <4>1 DEF MemInv
    <3> QED
      BY <3>1, <3>2
  <2>6. \A q \in Pid : mem'[q].pc \in {"list", "check", "create", "loop"} /\ mem'[q].todo = {}
    BY <1>3 DEF MemInv
  <2>7. \A q \in Pid : proc'[q].st \in {"none", "forked", "registered"} => mem'[q].pc = "list"
    BY <1>3, <1>4 DEF MemInv
  <2> QED
    BY <2>4, <2>5, <2>6, <2>7 DEF MemInv
<1> QED
  BY <1>5, <1>6, <1>7, <1>8

\* init_process creates the rows in order, the loop only replaces one that has gone.
LEMMA CreateKeeps ==
    ASSUME IInv, IInv', DeviceInv, NEW p \in Pid,
           WorkerCreate(p) \/ \E i \in 1..NDev : WorkerRespawn(p, i)
    PROVE  ProcessInv' /\ WorkerInv' /\ RowInv' /\ MemInv'
<1> USE DEF DeviceInv
<1> DEFINE w == proc[p].job
<1>0. mem[p] \in Memory /\ mem \in [Pid -> Memory] /\ rows \subseteq DaqRow
  BY Parts
<1>1. /\ w \in Worker /\ Begun(p) /\ Remembers(p)
      /\ UNCHANGED <<nextPid, sch, tracked>>
  <2>1. w \in Worker /\ Begun(p) /\ UNCHANGED <<nextPid, sch, tracked>>
    BY DEF WorkerCreate, WorkerRespawn, In, IsWorker, Begun
  <2> QED
    BY <2>1 DEF MemInv, IsWorker, Begun, Live
<1>2. \A r \in rows, i \in 1..NDev : row[r].dev = <<w, i>> =>
         mem[p].ids[i] = r /\ (mem[p].pc = "create" => i < mem[p].i)
  BY <1>1 DEF Remembers, Parent
<1>3. CASE WorkerCreate(p)
  <2> DEFINE i == mem[p].i
             m == [mem[p] EXCEPT !.ids = [@ EXCEPT ![i] = nextRow],
                                 !.i  = IF i = NDev /\ proc[p].sig = <<>> THEN 1 ELSE i + 1,
                                 !.pc = IF i = NDev THEN "loop" ELSE "create"]
  <2>1. /\ i \in 1..NDev /\ InsertRow(w, i) /\ mem[p].pc = "create"
        /\ proc' = proc \/ proc' = [proc EXCEPT ![p].st = "run"]
        /\ mem' = [mem EXCEPT ![p] = m]
    BY <1>0, <1>3 DEF WorkerCreate, In, IInv, CreateOK
  <2>2. \A r \in rows : row[r].dev # <<w, i>>
    BY <1>2, <2>1
  <2>3. /\ m.todo = {} /\ m.pc \in {"create", "loop"}
        /\ m.ids = [mem[p].ids EXCEPT ![i] = nextRow]
        /\ m.pc = "create" => m.i = i + 1
    <3>1. mem[p].todo = {}
      BY DEF MemInv
    <3> QED
      BY <1>0, <3>1 DEF Memory
  <2>4. mem[p].i = i /\ proc[p].job = w
    OBVIOUS
  <2>5. m.pc = "create" => mem[p].pc = "create" /\ mem[p].i = i /\ m.i = i + 1
    BY <2>1, <2>3
  <2>6. mem'[p] = m /\ \A q \in Pid : q # p => mem'[q] = mem[q]
    <3> HIDE DEF m
    <3> QED
      BY <1>0, <2>1
  <2>7. m.todo = {} /\ m.pc \in {"create", "loop"} /\ mem'[p] = m
    BY <2>3, <2>6
  <2> HIDE DEF m, i, w
  <2> QED
    BY SMTT(60), <1>1, <2>1, <2>2, <2>3, <2>4, <2>5, <2>6, <2>7, InsertKeeps
<1>4. ASSUME NEW i \in 1..NDev, WorkerRespawn(p, i)
      PROVE  ProcessInv' /\ WorkerInv' /\ RowInv' /\ MemInv'
  <2> DEFINE m == mem'[p]
  <2>1. /\ InsertRow(w, i) /\ mem[p].pc = "loop" /\ mem[p].ids[i] \notin rows
        /\ proc' = proc
    BY <1>4 DEF WorkerRespawn, In
  <2>2. \A r \in rows : row[r].dev # <<w, i>>
    BY <1>2, <2>1
  <2>3. m.todo = mem[p].todo /\ m.pc = mem[p].pc /\ m.ids = [mem[p].ids EXCEPT ![i] = nextRow]
    BY <1>0, <1>4 DEF WorkerRespawn, Memory
  <2>4. \A q \in Pid : q # p => mem'[q] = mem[q]
    BY <1>0, <1>4 DEF WorkerRespawn
  <2>5. mem[p].todo = {} /\ proc[p].job = w
    BY DEF MemInv
  <2> HIDE DEF m, w
  <2>6. mem'[p] = m
    BY DEF m
  <2>7. m.todo = {} /\ m.pc = "loop" /\ m.pc # "create"
    BY <2>1, <2>3, <2>5
  <2> QED
    BY <1>1, <2>1, <2>2, <2>3, <2>4, <2>5, <2>6, <2>7, InsertKeeps
<1> QED
  BY <1>3, <1>4
----------------------------------------------------------------------------
(* What the scheduler is about to stop and to start.                       *)

\* No step of a process enables a worker.
LEMMA NotEnabled ==
    ASSUME IInv, DeviceInv, Allowed \subseteq DeviceEvents,
           \/ SchedSweep
           \/ \E p \in Pid : \/ Register(p) \/ Ready(p) \/ WorkerStop(p) \/ DaqStep(p)
                             \/ WorkerList(p) \/ WorkerClean(p) \/ WorkerCreate(p)
                             \/ \E i \in 1..NDev : WorkerRespawn(p, i)
           \/ Environment
    PROVE  \A w \in Worker : row'[w].enabled => row[w].enabled
<1>0. /\ row \in [Row -> Columns] /\ nextRow \in 1..(MaxRow + 1)
      /\ \A w \in Worker : w \in Row /\ (nextRow <= MaxRow => nextRow # w)
  BY Parts, ThreeKinds DEF DaqRow
<1>1. ASSUME NEW r \in Row, row' = PidCleared(r)
      PROVE  \A w \in Worker : row'[w].enabled => row[w].enabled
  BY <1>0, <1>1 DEF PidCleared, Columns
<1>2. CASE SchedSweep
  BY <1>0, <1>2 DEF SchedSweep, Columns
<1>3. ASSUME NEW p \in Pid, Register(p) \/ Ready(p)
      PROVE  \A w \in Worker : row'[w].enabled => row[w].enabled
  BY <1>0, <1>3 DEF Register, Ready, Columns, table
<1>4. ASSUME NEW p \in Pid, WorkerStop(p) \/ DaqStep(p) \/ DaqFail(p)
      PROVE  \A w \in Worker : row'[w].enabled => row[w].enabled
  <2>1. row' = row \/ row' = PidCleared(proc[p].job)
    BY <1>4 DEF WorkerStop, WorkerExit, DaqStep, DaqStop, DaqFail, DaqStopping, DaqExit,
       DaqReinit, table
  <2>2. proc[p].job \in Row
    BY <1>4, ThreeKinds DEF WorkerStop, DaqStep, DaqStop, DaqFail, DaqExit, DaqReinit, In,
       IsWorker, IsDaq
  <2> QED
    BY <1>1, <2>1, <2>2
<1>5. ASSUME NEW p \in Pid, \/ WorkerList(p) \/ WorkerClean(p) \/ WorkerCreate(p)
                            \/ \E i \in 1..NDev : WorkerRespawn(p, i)
      PROVE  \A w \in Worker : row'[w].enabled => row[w].enabled
  <2>1. row' = row \/ \E w \in Worker : \E i : InsertRow(w, i)
    BY <1>5 DEF WorkerList, WorkerClean, WorkerCreate, WorkerRespawn, table, In, IsWorker
  <2> QED
    BY <1>0, <2>1 DEF InsertRow
<1>6. CASE Environment
  <2>1. ASSUME NEW r \in Row, AdminToggle(r)
        PROVE  \A w \in Worker : row'[w].enabled => row[w].enabled
    <3>1. row' = [row EXCEPT ![r].enabled = ~@] /\ (r \in Worker => row[r].enabled)
      BY <2>1, Excluded DEF AdminToggle, Role
    <3> QED
      BY <1>0, <3>1 DEF Columns
  <2>2. row' = row \/ (\E r \in Row : AdminToggle(r)) \/ (\E p \in Pid : DaqFail(p))
    BY <1>6, Excluded DEF Environment, SchedCrash, SchedStart, SchedSignal, Kill, InitFail,
       WorkerFail, AdminSignal, table, Role
  <2> QED
    BY <1>4, <2>1, <2>2
<1> QED
  BY <1>2, <1>3, <1>4, <1>5, <1>6

LEMMA SchedKept ==
    ASSUME SchedInv, sch' = sch, \A w \in Worker : row'[w].enabled => row[w].enabled
    PROVE  SchedInv'
BY DEF SchedInv

LEMMA SchedStepKeeps ==
    ASSUME IInv, DeviceInv, Allowed \subseteq DeviceEvents,
           SchedStep \/ \E s \in {"TERM", "USR1"} : SchedSignal(s)
    PROVE  /\ SchedInv' /\ ~SchedRestart /\ ~SchedRestartKill
<1> USE DEF DeviceInv
<1>0. sch \in Control /\ row \in [Row -> Columns]
  BY Parts
<1>q. sch.sig \in Seq(Signal) /\ OnlyTerm(sch.sig)
  BY <1>0 DEF Control, SchedInv, OnlyTerm
<1>1. CASE SchedSnapshot
  <2>1. /\ sch'.pc = "pass" /\ sch'.sig = sch.sig
        /\ sch'.toStop = {r \in Worker \cup rows : ~Wanted(r)}
        /\ sch'.toStart = {r \in Worker \cup rows : Wanted(r)} /\ row' = row
    BY <1>0, <1>1 DEF SchedSnapshot, Control, table
  <2>2. \A w \in Worker : w \in sch'.toStop => ~row[w].enabled
    BY <2>1, ThreeKinds DEF Wanted, WorkerInv
  <2> QED
    BY <2>1, <2>2 DEF SchedInv, SchedSnapshot, SchedRestart, SchedRestartKill
<1>2. CASE SchedKillRound \/ SchedKillTimeout
  <2>1. /\ sch'.sig = sch.sig /\ sch'.toStop = sch.toStop /\ sch'.toStart = sch.toStart
        /\ row' = row /\ sch.pc = "kill"
        /\ sch'.pc = "pass" \/ sch' = sch
    BY <1>0, <1>2 DEF SchedKillRound, SchedKillTimeout, Control, table
  <2> QED
    BY <2>1 DEF SchedInv, SchedRestart, SchedRestartKill
<1>3. CASE SchedSweep
  <2>1. /\ sch'.pc = "idle" /\ sch'.sig = sch.sig /\ sch'.toStop = {} /\ sch'.toStart = {}
    BY <1>0, <1>3 DEF SchedSweep, Control
  <2> QED
    BY <1>3, <2>1 DEF SchedInv, SchedRestart, SchedRestartKill, SchedSweep
<1>4. CASE SchedTerm
  <2>1. /\ sch'.pc = "stop" /\ sch'.sig = Tail(sch.sig) /\ sch'.toStop = {} /\ sch'.toStart = {}
        /\ sch.sig # <<>> /\ row' = row
    BY <1>0, <1>4 DEF SchedTerm, Control, SchedInv, table
  <2>2. OnlyTerm(Tail(sch.sig))
    BY <1>q, <2>1 DEF OnlyTerm
  <2> QED
    BY <1>4, <2>1, <2>2 DEF SchedInv, OnlyTerm, SchedTerm, SchedRestart, SchedRestartKill
<1>5. CASE SchedStopRound
  BY <1>5 DEF SchedStopRound, SchedInv, SchedRestart, SchedRestartKill, table
<1>6. CASE SchedStopEnd
  <2>1. /\ sch'.pc = "stopped" /\ sch'.sig = <<>> /\ sch'.toStop = {} /\ sch'.toStart = {}
    BY <1>0, <1>6 DEF SchedStopEnd, Control, SchedInv
  <2> QED
    BY <1>6, <2>1 DEF SchedInv, SchedRestart, SchedRestartKill, SchedStopEnd
<1>7. ~SchedRestart /\ ~SchedRestartKill
  <2>1. sch.sig # <<>> => Head(sch.sig) = "TERM"
    BY <1>q DEF OnlyTerm
  <2> QED
    BY <2>1 DEF SchedRestart, SchedRestartKill, SchedInv
<1>8. ASSUME NEW r \in Row, SchedSpawn(r) PROVE SchedInv'
  <2>1. /\ sch'.pc = "pass" /\ sch'.sig = sch.sig /\ sch'.toStop = sch.toStop
        /\ sch'.toStart = sch.toStart \ {r} /\ row' = row /\ sch.pc = "pass"
    BY <1>0, <1>8 DEF SchedSpawn, Control, table
  <2> QED
    BY <2>1 DEF SchedInv
<1>9. ASSUME NEW r \in Row, SchedKillBegin(r) PROVE SchedInv'
  <2>1. /\ sch'.pc = "kill" /\ sch'.sig = sch.sig /\ sch'.toStop = sch.toStop \ {r}
        /\ sch'.toStart = sch.toStart /\ row' = row /\ sch.pc = "pass" /\ sch'.target = r
        /\ r \in sch.toStop
    BY <1>0, <1>9 DEF SchedKillBegin, MustStop, Control, table
  <2> QED
    BY <2>1 DEF SchedInv
<1>10. ASSUME NEW s \in {"TERM", "USR1"}, SchedSignal(s) PROVE SchedInv'
  <2>1. s = "TERM"
    BY <1>10, Excluded DEF SchedSignal
  <2>2. /\ sch'.pc = sch.pc /\ sch'.sig = Append(sch.sig, "TERM") /\ sch'.toStop = sch.toStop
        /\ sch'.toStart = sch.toStart /\ row' = row /\ sch'.target = sch.target
    BY <1>0, <1>10, <2>1 DEF SchedSignal, Control, table
  <2>3. OnlyTerm(Append(sch.sig, "TERM"))
    BY <1>q DEF OnlyTerm
  <2> QED
    BY <2>2, <2>3 DEF SchedInv, OnlyTerm
<1> QED
  BY <1>1, <1>2, <1>3, <1>4, <1>5, <1>6, <1>7, <1>8, <1>9, <1>10 DEF SchedStep
----------------------------------------------------------------------------
(* The theorems.                                                           *)

\* A worker takes none of the steps a second start would need.
LEMMA WorkerSteps ==
    ASSUME IInv, DeviceInv, NEW p \in Pid, WorkerStep(p)
    PROVE  \/ WorkerList(p) \/ WorkerClean(p) \/ WorkerCreate(p) \/ WorkerStop(p)
           \/ \E i \in 1..NDev : WorkerRespawn(p, i)
<1> USE DEF DeviceInv
<1>1. ~WorkerWait(p) /\ ~WorkerWaitTimeout(p) /\ ~WorkerRestartNext(p)
  BY DEF WorkerWait, WorkerWaitTimeout, WorkerRestartNext, Waiting, In, MemInv
<1>2. ~WorkerRestart(p)
  <2>1. proc[p].sig \in Seq(Signal)
    BY Parts DEF Process
  <2>2. IsWorker(p) /\ proc[p].sig # <<>> => Head(proc[p].sig) = "TERM"
    BY <2>1 DEF WorkerInv
  <2> QED
    BY <2>2 DEF WorkerRestart, Signalled, In
<1> QED
  BY <1>1, <1>2 DEF WorkerStep, MemInv

LEMMA InitDevice == Init => DeviceInv
<1> SUFFICES ASSUME Init PROVE DeviceInv
  OBVIOUS
<1>1. \A p \in Pid : ~Live(proc[p]) /\ proc[p].job = 0 /\ proc[p].st = "none"
  BY DEF Init, NoProcess, Live
<1>2. ProcessInv /\ SchedInv
  BY <1>1, ThreeKinds DEF Init, ProcessInv, SchedInv
<1>3. WorkerInv /\ RowInv
  BY <1>1, ThreeKinds DEF Init, WorkerInv, RowInv, IsWorker, IsDaq
<1>4. MemInv
  BY <1>1, ThreeKinds DEF Init, MemInv, IsWorker, Kids, NoMem
<1> QED
  BY <1>2, <1>3, <1>4 DEF DeviceInv

LEMMA NextDevice ==
    ASSUME Allowed \subseteq DeviceEvents, IInv, IInv', DeviceInv, [Next]_vars
    PROVE  DeviceInv'
<1>w. Weakening => ProcessInv' /\ WorkerInv' /\ RowInv' /\ MemInv'
  BY WeakeningStep DEF DeviceInv
<1> DEFINE Rest == ProcessInv' /\ WorkerInv' /\ RowInv' /\ MemInv'
<1>1. CASE SchedStep
  <2>1. SchedInv' /\ ~SchedRestart /\ ~SchedRestartKill
    BY <1>1, SchedStepKeeps
  <2>2. ASSUME NEW r \in Row, SchedSpawn(r) \/ SchedKillBegin(r) PROVE Rest
    BY <1>w, <2>2, SpawnKeeps, KillBeginWeakens
  <2>3. Rest
    BY <1>1, <1>w, <2>1, <2>2, SnapshotWeakens, KillWeakens, SweepWeakens, TermWeakens,
       StopWeakens DEF SchedStep
  <2> QED
    BY <2>1, <2>3 DEF DeviceInv
<1>2. ASSUME NEW p \in Pid, ProcessStep(p) PROVE DeviceInv'
  <2>1. \/ Register(p) \/ Ready(p) \/ WorkerStop(p) \/ DaqStep(p)
        \/ WorkerList(p) \/ WorkerClean(p) \/ WorkerCreate(p)
        \/ \E i \in 1..NDev : WorkerRespawn(p, i)
    BY <1>2, WorkerSteps DEF ProcessStep
  <2>2. Rest
    BY <1>w, <2>1, StartWeakens, WorkerStopWeakens, DaqStepWeakens, ListCleanKeep, CreateKeeps
  <2>3. sch' = sch
    BY <2>1 DEF Register, Ready, WorkerStop, WorkerExit, DaqStep, DaqStop, DaqStopping,
       DaqExit, DaqReinit, WorkerList, WorkerClean, WorkerCreate, WorkerRespawn
  <2>4. SchedInv'
    BY <2>1, <2>3, NotEnabled, SchedKept DEF DeviceInv
  <2> QED
    BY <2>2, <2>4 DEF DeviceInv
<1>3. CASE Environment
  <2>1. Rest
    BY <1>w, <1>3, EnvironmentWeakens
  <2>2. SchedInv'
    <3>1. CASE \E s \in {"TERM", "USR1"} : SchedSignal(s)
      BY <3>1, SchedStepKeeps
    <3>2. CASE sch' = sch
      BY <1>3, <3>2, NotEnabled, SchedKept DEF DeviceInv
    <3> QED
      BY <1>3, <3>1, <3>2, Excluded DEF Environment, SchedCrash, SchedStart, Kill, InitFail,
         WorkerFail, DaqFail, DaqStopping, AdminToggle, AdminSignal, Role
  <2> QED
    BY <2>1, <2>2 DEF DeviceInv
<1>4. CASE UNCHANGED vars
  <2>1. ProcessInv' /\ SchedInv' /\ WorkerInv'
    BY <1>4 DEF DeviceInv, vars, ProcessInv, SchedInv, WorkerInv, IsWorker, Untouched, Leaving
  <2>2. RowInv' /\ MemInv'
    BY <1>4 DEF DeviceInv, vars, RowInv, MemInv, IsWorker, IsDaq, Begun, Remembers, Kids, Parent
  <2> QED
    BY <2>1, <2>2 DEF DeviceInv
<1> QED
  BY <1>1, <1>2, <1>3, <1>4 DEF Next

LEMMA DeviceInductive ==
    ASSUME Allowed \subseteq DeviceEvents
    PROVE  Spec => []DeviceInv
<1>1. IInv /\ IInv' /\ DeviceInv /\ [Next]_vars => DeviceInv'
  BY NextDevice
<1> QED
  BY <1>1, InitDevice, Inductive, PTL DEF Spec

\* Two processes that poll a device have the same row, and a row has one process.
LEMMA ServedOnce ==
    ASSUME IInv, DeviceInv
    PROVE  OneDaqPerDevice /\ NoOrphanDaq
<1>1. ASSUME NEW d \in Dev, NEW p \in Pid, NEW q \in Pid, Serves(p, d), Serves(q, d)
      PROVE  p = q
  <2>1. /\ Live(proc[p]) /\ Live(proc[q]) /\ IsDaq(p) /\ IsDaq(q)
        /\ row[proc[p].job].dev = d /\ row[proc[q].job].dev = d
    BY <1>1 DEF Serves, Live
  <2>2. proc[p].job = proc[q].job
    BY <2>1 DEF DeviceInv, RowInv
  <2> QED
    BY <2>1, <2>2, LivesTracked DEF DeviceInv
<1>2. NoOrphanDaq
  BY DEF NoOrphanDaq, DeviceInv, RowInv, Live
<1> QED
  BY <1>1, <1>2 DEF OneDaqPerDevice

\* Whatever happens to the processes of the devices and whenever the scheduler or a worker
\* is stopped: a device is polled by one process (Scheduler.manage_processes,
\* SingleDeviceDAQProcessWorker.loop and MultiDeviceDAQProcessWorker.loop).
THEOREM OnePollerPerDevice ==
    ASSUME Allowed \subseteq DeviceEvents
    PROVE  Spec => []OneDaqPerDevice
BY Inductive, DeviceInductive, ServedOnce, PTL

\* And that process is found through its row: DAQProcess.cleanup deletes the row last, and
\* the sweep of manage_processes deletes rows of processes that are gone only.
THEOREM PollersHaveRows ==
    ASSUME Allowed \subseteq DeviceEvents
    PROVE  Spec => []NoOrphanDaq
BY Inductive, DeviceInductive, ServedOnce, PTL

\* Only WorkerRespawn counts a respawn, and the row it replaces has gone with its process.
THEOREM RespawnsReplaceTheDead ==
    ASSUME Allowed \subseteq DeviceEvents
    PROVE  Spec => RespawnOnlyDead
<1> DEFINE Step == \A p \in Pid, i \in 1..NDev :
                      mem'[p].failed[i] > mem[p].failed[i]
                        => \A q \in Pid : ~Serves(q, <<proc[p].job, i>>)
<1>1. IInv /\ DeviceInv /\ [Next]_vars => [Step]_vars
  <2> SUFFICES ASSUME IInv, DeviceInv, Next, NEW p \in Pid, NEW i \in 1..NDev,
                      mem'[p].failed[i] > mem[p].failed[i], NEW q \in Pid,
                      Serves(q, <<proc[p].job, i>>)
               PROVE  FALSE
    OBVIOUS
  <2>0. mem \in [Pid -> Memory] /\ mem[p].failed[i] \in 0..MaxFailed /\ NoMem.failed[i] = 0
    BY Parts DEF Memory, NoMem
  <2>1. mem' # mem /\ mem'[p] # mem[p] /\ mem'[p].failed # mem[p].failed /\ mem'[p].failed[i] # 0
    BY <2>0
  <2>2. ~SchedStep
    BY <2>1 DEF SchedStep, SchedSnapshot, SchedKillRound, SchedKillTimeout, SchedSweep,
       SchedTerm, SchedStopRound, SchedStopEnd, SchedRestart, SchedRestartKill, SchedSpawn,
       SchedKillBegin
  <2>3. ~Environment
    <3>1. ASSUME NEW x \in Pid, Kill(x) PROVE mem'[p] = mem[p] \/ mem'[p] = NoMem
      BY <2>0, <3>1 DEF Kill
    <3> QED
      BY <2>0, <2>1, <3>1, Excluded DEF Environment, SchedCrash, SchedStart,
         SchedSignal, InitFail, WorkerFail, DaqFail, DaqStopping, AdminToggle, AdminSignal, Role
  <2>4. PICK x \in Pid : WorkerStep(x)
    BY <2>1, <2>2, <2>3 DEF Next, ProcessStep, Register, Ready, DaqStep, DaqStop, DaqStopping,
       DaqExit, DaqReinit
  <2>5. ~WorkerList(x) /\ ~WorkerCreate(x)
    <3>1. ASSUME WorkerList(x) PROVE mem'[p].failed = mem[p].failed
      BY <2>0, <3>1 DEF WorkerList, Memory
    <3>2. ASSUME WorkerCreate(x) PROVE mem'[p].failed = mem[p].failed
      BY <2>0, <3>2 DEF WorkerCreate, Memory
    <3> QED
      BY <2>1, <3>1, <3>2
  <2>6. ~WorkerClean(x) /\ ~WorkerStop(x)
    <3> DEFINE m == [NoMem EXCEPT !.pc = "create"]
    <3>1. m.failed[i] = 0
      BY DEF NoMem
    <3> HIDE DEF m
    <3>2. ASSUME WorkerClean(x) PROVE mem'[p] = mem[p] \/ mem'[p] = m
      BY <2>0, <3>2 DEF WorkerClean, m
    <3>3. ASSUME WorkerStop(x) PROVE mem'[p] = mem[p] \/ mem'[p] = NoMem
      BY <2>0, <3>3 DEF WorkerStop, WorkerExit
    <3> QED
      BY <2>0, <2>1, <3>1, <3>2, <3>3
  <2>7. PICK j \in 1..NDev : WorkerRespawn(x, j)
    BY <2>4, <2>5, <2>6, WorkerSteps
  <2>8. x = p /\ j = i
    BY <2>0, <2>7 DEF WorkerRespawn, Memory
  <2>9. /\ In(p, "loop") /\ mem[p].ids[i] \notin rows
        /\ proc[q].job \in rows /\ row[proc[q].job].dev = <<proc[p].job, i>>
    BY <2>7, <2>8 DEF WorkerRespawn, Serves, DeviceInv, RowInv, Live
  <2>10. Remembers(p)
    BY <2>9 DEF DeviceInv, MemInv, In, Begun, Live, IsWorker
  <2> QED
    BY <2>9, <2>10 DEF Remembers, Parent
<1> QED
  BY <1>1, Inductive, DeviceInductive, PTL DEF Spec, RespawnOnlyDead
=============================================================================
