------------------------------ MODULE TaskTable ------------------------------
(***************************************************************************)
(* What the tables of device tasks promise to those who create tasks,      *)
(* whatever process serves them: a task is finished once and for good; a   *)
(* write is executed before it is finished, not before its start, and      *)
(* again only if the process died before its outcome was saved; nothing is *)
(* stored but for tasks that are done.                                     *)
(***************************************************************************)
EXTENDS Naturals

CONSTANTS Task, Writes   \* the tasks, those of them that write

VARIABLES
    clock,
    st, start,   \* per task, how far it is, and the instant it is meant for
    calls,       \* per task, how often it was executed
    held,        \* the write that was executed and whose outcome is not saved yet
    deaths,      \* how often the process died
    stored       \* tasks whose values are stored

vars == <<clock, st, start, calls, held, deaths, stored>>

Init ==
    /\ clock = 0
    /\ st = [t \in Task |-> "none"] /\ start = [t \in Task |-> 0]
    /\ calls = [t \in Task |-> 0]
    /\ held = {} /\ deaths = 0 /\ stored = {}

Tick ==
    /\ clock' > clock
    /\ UNCHANGED <<st, start, calls, held, deaths, stored>>

\* A task gets its start, now or later, and is then put into its table.
Stamp(t) ==
    /\ st[t] = "none" /\ st' = [st EXCEPT ![t] = "stamped"]
    /\ start'[t] >= clock /\ start' = [start EXCEPT ![t] = start'[t]]
    /\ UNCHANGED <<clock, calls, held, deaths, stored>>

Create(t) ==
    /\ st[t] = "stamped" /\ st' = [st EXCEPT ![t] = "pending"]
    /\ UNCHANGED <<clock, start, calls, held, deaths, stored>>

\* One write after the other is executed, and its outcome saved.
Execute(t) ==
    /\ st[t] = "pending" /\ start[t] <= clock /\ held = {}
    /\ calls' = [calls EXCEPT ![t] = @ + 1] /\ held' = {t}
    /\ UNCHANGED <<clock, st, start, deaths, stored>>

Save(t, outcome) ==
    /\ held = {t} /\ st[t] = "pending" /\ held' = {}
    /\ st' = [st EXCEPT ![t] = outcome]
    /\ UNCHANGED <<clock, start, calls, deaths, stored>>

\* A poll answers some of the reads that are due, all of them in the same way.
Answer(reads, outcome) ==
    /\ \A t \in reads : st[t] = "pending" /\ start[t] <= clock
    /\ st' = [t \in Task |-> IF t \in reads THEN outcome ELSE st[t]]
    /\ UNCHANGED <<clock, start, calls, held, deaths, stored>>

\* Values are stored after their tasks have been marked done.
Store ==
    /\ stored \subseteq stored' /\ \A t \in stored' : st[t] = "done"
    /\ UNCHANGED <<clock, st, start, calls, held, deaths>>

Die ==
    /\ deaths' = deaths + 1 /\ held' = {}
    /\ UNCHANGED <<clock, st, start, calls, stored>>

Next ==
    \/ Tick \/ Store \/ Die
    \/ \E t \in Task : Stamp(t) \/ Create(t)
    \/ \E t \in Writes : Execute(t)
    \/ \E t \in Writes, outcome \in {"done", "failed"} : Save(t, outcome)
    \/ \E reads \in SUBSET (Task \ Writes), outcome \in {"done", "failed"} : Answer(reads, outcome)
Spec == Init /\ [][Next]_vars
=============================================================================
