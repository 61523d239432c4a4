-------------------------------- MODULE Events --------------------------------
(***************************************************************************)
(* The event process of PyScada (event/worker.py) with the checks it makes *)
(* in turn, Event.do_event_check and ComplexEventGroup.do_event_check of   *)
(* models.py, and the mails it hands to the mail process (see Mails).      *)
(*                                                                         *)
(* A check reads the last values, and then makes its changes to the        *)
(* database one after the other, without a transaction: they are its jobs. *)
(* The process may be killed between any two of them; the scheduler starts *)
(* a new one, which begins with the first event.                           *)
(* EndlessTurn, LooseCheck, RashWants, EveryCheck, FlatFound and StuckTurn  *)
(* are mutated forms of the operator below them.                           *)
(***************************************************************************)
EXTENDS Mails

CONSTANTS
    None,
    Variables,
    Values,          \* values the devices record
    Event, Group,    \* rows of the tables Event and ComplexEventGroup, by name
    Agenda,          \* sequence of their names in the order they are checked
    MaxSamples,      \* bound: values recorded
    MaxKills         \* bound: times one of the processes is killed

Complex(g) == Group[g].complexevents
Items(g, k) == Complex(g)[k].items
Owners == DOMAIN Event \cup DOMAIN Group

\* What a change is about: an event occurs (1) or is over (0); a complex event becomes
\* the one of its group (its number), or none is (0).
Topics == ((DOMAIN Event) \X {0, 1})
          \cup UNION {{g} \X (0..Len(Complex(g))) : g \in DOMAIN Group}

ASSUME EventAssumption ==
    /\ Values \subseteq Int /\ None \notin Int
    /\ \A e \in DOMAIN Event :
          /\ Event[e].variable \in Variables /\ Event[e].variable_limit \in Variables \cup {None}
          /\ Event[e].variable_limit = None => Event[e].limit \in Int
          /\ Event[e].hysteresis \in Int /\ Event[e].limit_type \in 0..4
          /\ Event[e].mail_recipients \in Seq(Recipients)
    /\ \A g \in DOMAIN Group :
          /\ Group[g].default_value \in Int \cup {None}
          /\ Group[g].variable_to_change \in Variables \cup {None}
          /\ Group[g].mail_recipients \in Seq(Recipients)
          /\ Len(Complex(g)) \in Nat
          /\ \A k \in 1..Len(Complex(g)) : /\ Complex(g)[k].new_value \in Int \cup {None}
                                           /\ Complex(g)[k].level \in Int
    /\ Agenda # <<>> /\ Agenda \in Seq(Owners)
    /\ DOMAIN Event \cap DOMAIN Group = {} /\ None \notin Variables
    /\ Topics \subseteq Subjects
    /\ MaxSamples \in Nat /\ MaxKills \in Nat

\* Settings under which a check does not end with an exception: a default value has a
\* variable to be set.
ASSUME DefaultAssumption ==
    \A g \in DOMAIN Group : \/ Group[g].default_value \in {None, 0}
                            \/ Group[g].variable_to_change \in Variables

VARIABLES
    value, recent,     \* per variable its last value; was it saved in the last hour?
    open,              \* per event or group: RecordedEvents with active = True
    last_level,        \* per group
    active, inside,    \* ComplexEvent.active and ComplexEventItem.active
    worker,            \* the event process: whose turn it is, the complex event it is at,
                       \* the one it has found, is any valid? and the jobs to do
    changes, edge,     \* history: changes by topic; value at the last change of an event
    samples, kills     \* history

data == <<value, recent>>
records == <<open, last_level, active, inside>>
history == <<changes, edge, samples, kills>>
vars == <<data, records, worker, history, mailVars>>

Start == [turn |-> 1, item |-> 1, found |-> 0, any |-> FALSE, jobs |-> <<>>]
ComplexKeys == UNION {{g} \X (1..Len(Complex(g))) : g \in DOMAIN Group}
ItemKeys == UNION {{<<c[1], c[2], j>> : j \in 1..Len(Items(c[1], c[2]))} : c \in ComplexKeys}
Init ==
    /\ value = [v \in Variables |-> None] /\ recent = {}
    /\ open = [o \in Owners |-> 0]
    /\ last_level = [g \in DOMAIN Group |-> -1]
    /\ active = [c \in ComplexKeys |-> FALSE]
    /\ inside = [key \in ItemKeys |-> FALSE]
    /\ worker = Start
    /\ changes = [t \in Topics |-> 0] /\ edge = [e \in DOMAIN Event |-> None]
    /\ samples = 0 /\ kills = 0
    /\ MailInit
----------------------------------------------------------------------------
(* The values.                                                             *)

Sample(v) ==
    /\ samples < MaxSamples /\ samples' = samples + 1
    /\ \E x \in Values : value' = [value EXCEPT ![v] = x]
    /\ recent' = recent \cup {v}
    /\ UNCHANGED <<records, worker, changes, edge, kills, mailVars>>

\* No value has been saved for an hour.
Expire(v) ==
    /\ v \in recent /\ recent' = recent \ {v}
    /\ UNCHANGED <<value, records, worker, history, mailVars>>
----------------------------------------------------------------------------
(* Event.do_event_check.                                                   *)

Turn == Agenda[worker.turn]
EndlessTurn == [Start EXCEPT !.turn = worker.turn + 1]
NextTurn == [Start EXCEPT !.turn = IF worker.turn = Len(Agenda) THEN 1 ELSE worker.turn + 1]

\* A fixed limit, or the value of a variable.
Limit(e) == IF Event[e].variable_limit = None THEN Event[e].limit ELSE value[Event[e].variable_limit]

\* Is x beyond the limit of event e, which is on or off?
LooseCheck(e, x, on) ==
    LET h == Event[e].hysteresis
        l == Limit(e)
    IN  CASE Event[e].limit_type = 0 -> x < l - h
          [] Event[e].limit_type = 1 -> x <= l - h
          [] Event[e].limit_type = 2 -> x > l + h
          [] Event[e].limit_type = 3 -> x >= l + h
          [] Event[e].limit_type = 4 -> l + Event[e].hysteresis >= x /\ x >= l - Event[e].hysteresis
LimitCheck(e, x, on) ==
    LET h == IF on THEN -Event[e].hysteresis ELSE Event[e].hysteresis
        l == Limit(e)
    IN  CASE Event[e].limit_type = 0 -> x < l - h
          [] Event[e].limit_type = 1 -> x <= l - h
          [] Event[e].limit_type = 2 -> x > l + h
          [] Event[e].limit_type = 3 -> x >= l + h
          [] Event[e].limit_type = 4 -> l + Event[e].hysteresis >= x /\ x >= l - Event[e].hysteresis

\* A job; mails to the recipients, in turn.
JobTo(do, about, arg) == [do |-> do, about |-> about, arg |-> arg]
MailJobs(topic, to) == [i \in 1..Len(to) |-> JobTo("mail", topic, to[i])]

\* Is a mail due when event e occurs or is over?
RashWants(e, on) == Event[e].action >= 1
Wants(e, on) == Event[e].action >= (IF on THEN 1 ELSE 2)

\* Does the outcome of the check differ from what is recorded?
EveryCheck(e, on) == on \/ open[e] > 0
IsChange(e, on) == on # (open[e] > 0)

Known(e) == Turn = e /\ worker.jobs = <<>> /\ Event[e].variable \in recent

\* The event has occurred, or is over: its record is saved, then mails are due. A write
\* task of action 3 is made but never saved.
Change(e) ==
    /\ Known(e) /\ Event[e].variable_limit = None
    /\ LET x == value[Event[e].variable]
           on == LimitCheck(e, x, open[e] > 0)
       IN  /\ IsChange(e, on)
           /\ open' = [open EXCEPT ![e] = IF on THEN @ + 1 ELSE @ - 1]
           /\ changes' = [changes EXCEPT ![<<e, IF on THEN 1 ELSE 0>>] = @ + 1]
           /\ edge' = [edge EXCEPT ![e] = x]
           /\ worker' = [NextTurn EXCEPT !.jobs =
                            IF Wants(e, on)
                            THEN MailJobs(<<e, IF on THEN 1 ELSE 0>>, Event[e].mail_recipients)
                            ELSE <<>>]
    /\ UNCHANGED <<data, last_level, active, inside, samples, kills, mailVars>>

\* Nothing has changed, or nothing is known.
Stay(e) ==
    /\ Turn = e /\ worker.jobs = <<>>
    /\ \/ Event[e].variable \notin recent
       \/ Event[e].variable_limit \notin recent \cup {None}
       \/ /\ Known(e) /\ Event[e].variable_limit = None
          /\ ~IsChange(e, LimitCheck(e, value[Event[e].variable], open[e] > 0))
    /\ worker' = NextTurn
    /\ UNCHANGED <<data, records, history, mailVars>>

\* The limit is the value of a variable: an exception, which ends the process.
Raise(e) ==
    /\ Known(e) /\ Event[e].variable_limit \in recent
    /\ worker' = Start
    /\ UNCHANGED <<data, records, history, mailVars>>
----------------------------------------------------------------------------
(* ComplexEventGroup.do_event_check.                                       *)

\* ComplexEventItem.in_limit: the value is known, and there is a limit.
Judged(i) == value[i.variable] # None /\ (i.limit_low # None \/ i.limit_high # None)
InLimit(i, on) ==
    LET sign == IF on THEN -1 ELSE 1
        x == value[i.variable]
        low == i.limit_low + sign * i.hysteresis_low
        high == i.limit_high - sign * i.hysteresis_high
    IN  /\ i.limit_low # None => (IF i.limit_low_type = 0 THEN x > low ELSE x >= low)
        /\ i.limit_high # None => (IF i.limit_high_type = 0 THEN x < high ELSE x <= high)

\* ComplexEvent.is_valid: a custom validation never is.
ItemHolds(g, k, j) ==
    Judged(Items(g, k)[j]) /\ InLimit(Items(g, k)[j], inside[g, k, j])
IsValid(g, k) ==
    \/ Complex(g)[k].validation = 0 /\ \E j \in 1..Len(Items(g, k)) : ItemHolds(g, k, j)
    \/ /\ Complex(g)[k].validation = 1 /\ Items(g, k) # <<>>
       /\ \A j \in 1..Len(Items(g, k)) : ItemHolds(g, k, j)

LevelJob(g, k) == <<JobTo("level", <<g, k>>, None)>>
RecordJob(g, k) == <<JobTo("record", <<g, k>>, None)>>

\* The first valid complex event becomes the one of the group, unless it is already.
FlatFound(g, k) ==
    worker.found = 0 /\ last_level[g] # Complex(g)[k].level /\ IsValid(g, k)
Found(g, k) ==
    /\ worker.found = 0 /\ ~worker.any
    /\ last_level[g] # Complex(g)[k].level
    /\ IsValid(g, k)

CheckItem(g) ==
    LET k == worker.item
    IN  /\ Turn = g /\ worker.jobs = <<>> /\ k <= Len(Complex(g))
        /\ active' = [active EXCEPT ![<<g, k>>] = IsValid(g, k)]
        /\ inside' = [key \in ItemKeys |->
                         IF key[1] = g /\ key[2] = k /\ Judged(Items(g, k)[key[3]])
                         THEN InLimit(Items(g, k)[key[3]], inside[key]) ELSE inside[key]]
        /\ worker' = [worker EXCEPT
                         !.item = k + 1, !.any = @ \/ IsValid(g, k),
                         !.found = IF Found(g, k) THEN k ELSE @,
                         !.jobs = IF Found(g, k) THEN LevelJob(g, k) \o RecordJob(g, k) ELSE <<>>]
        /\ UNCHANGED <<data, open, last_level, history, mailVars>>

\* What follows from the complex event found, or from the end of the last one: a default
\* value of 0 is no default value.
GroupMails(g, k) ==
    IF IF k > 0 THEN Complex(g)[k].send_mail ELSE Group[g].default_send_mail
    THEN MailJobs(<<g, k>>, Group[g].mail_recipients) ELSE <<>>
SetJobs(g, x) == <<JobTo("set", Group[g].variable_to_change, x)>>
FoundJobs(g, k) ==
    GroupMails(g, k)
    \o IF Complex(g)[k].new_value # None /\ Group[g].variable_to_change # None
       THEN SetJobs(g, Complex(g)[k].new_value) ELSE <<>>
DefaultJobs(g) ==
    LevelJob(g, 0)
    \o (IF Group[g].default_value \in {None, 0} THEN <<>>
        ELSE SetJobs(g, Group[g].default_value))
    \o GroupMails(g, 0) \o RecordJob(g, 0)

StuckTurn == worker
EndTurn == NextTurn
EndItems(g) ==
    /\ Turn = g /\ worker.jobs = <<>> /\ worker.item > Len(Complex(g))
    /\ worker' = [EndTurn EXCEPT !.jobs =
                     IF worker.found > 0 THEN FoundJobs(g, worker.found)
                     ELSE IF ~worker.any /\ last_level[g] # -1 THEN DefaultJobs(g)
                     ELSE <<>>]
    /\ UNCHANGED <<data, records, history, mailVars>>
----------------------------------------------------------------------------
(* The jobs. A job about a group names a complex event of it, or 0.        *)

Job(kind) == worker.jobs # <<>> /\ Head(worker.jobs).do = kind
Subject == Head(worker.jobs).about
JobDone == worker' = [worker EXCEPT !.jobs = Tail(@)]

Level(g, k) == IF k = 0 THEN -1 ELSE Complex(g)[k].level
SaveLevel ==
    /\ Job("level") /\ JobDone
    /\ last_level' = [last_level EXCEPT ![Subject[1]] = Level(Subject[1], Subject[2])]
    /\ changes' = [changes EXCEPT ![Subject] = @ + 1]
    /\ UNCHANGED <<data, open, active, inside, edge, samples, kills, mailVars>>

\* The record of the group is closed or opened.
Stops(g, k) == k = 0 \/ Complex(g)[k].stop_recording
Recorded(g, k) ==
    IF open[g] > 0 THEN (IF Stops(g, k) THEN open[g] - 1 ELSE open[g])
    ELSE IF Stops(g, k) THEN 0 ELSE 1
SaveRecord ==
    /\ Job("record") /\ JobDone
    /\ open' = [open EXCEPT ![Subject[1]] = Recorded(Subject[1], Subject[2])]
    /\ UNCHANGED <<data, last_level, active, inside, history, mailVars>>

HandOver ==
    /\ Job("mail") /\ JobDone
    /\ PostMail(Subject, Head(worker.jobs).arg)
    /\ UNCHANGED <<data, records, history>>

\* The value of the variable to change is recorded like a value of a device.
SetValue ==
    /\ Job("set") /\ JobDone
    /\ value' = [value EXCEPT ![Subject] = Head(worker.jobs).arg]
    /\ recent' = recent \cup {Subject}
    /\ UNCHANGED <<records, history, mailVars>>

Kill ==
    /\ kills + mailKills < MaxKills /\ kills' = kills + 1
    /\ worker' = Start
    /\ UNCHANGED <<data, records, changes, edge, samples, mailVars>>
----------------------------------------------------------------------------
EventWork ==
    \/ \E e \in DOMAIN Event : Change(e) \/ Stay(e) \/ Raise(e)
    \/ \E g \in DOMAIN Group : CheckItem(g) \/ EndItems(g)
    \/ SaveLevel \/ SaveRecord \/ HandOver \/ SetValue
MailProcess == MailWork /\ UNCHANGED <<data, records, worker, history>>
KillMails ==
    /\ kills + mailKills < MaxKills /\ KillSender
    /\ UNCHANGED <<data, records, worker, history>>
Devices == \E v \in Variables : Sample(v) \/ Expire(v)

Next == EventWork \/ Kill \/ MailProcess \/ KillMails \/ Devices
Spec == Init /\ [][Next]_vars

\* Both processes run in a loop, and are started again when they end.
FairSpec == Spec /\ WF_vars(EventWork) /\ WF_vars(MailProcess)
----------------------------------------------------------------------------
TypeOK ==
    /\ value \in [Variables -> Int \cup {None}] /\ recent \subseteq Variables
    /\ open \in [Owners -> Nat] /\ last_level \in [DOMAIN Group -> Int]
    /\ active \in [ComplexKeys -> BOOLEAN]
    /\ inside \in [ItemKeys -> BOOLEAN]
    /\ worker.turn \in 1..Len(Agenda)
    /\ changes \in [Topics -> Nat]
    /\ samples \in 0..MaxSamples /\ kills \in 0..MaxKills
    /\ MailTypeOK

\* Nothing is left to be done for an event or group: its check is not under way.
Settled(o) ==
    /\ \A i \in 1..Len(worker.jobs) : worker.jobs[i].do # "set" => worker.jobs[i].about[1] # o
    /\ Turn = o => worker.item = 1

\* An event or group never has two open records: opening one looks for another.
OneOpenRecord == \A o \in Owners : open[o] <= 1

\* Hysteresis: between an event that occurs and its end the value has moved by twice the
\* hysteresis at least, so that noise does not make records and mails.
NoFlapping ==
    [][\A e \in DOMAIN Event :
          open'[e] # open[e] /\ edge[e] # None /\ Event[e].limit_type # 4 =>
             LET d == value[Event[e].variable] - edge[e]
             IN  (IF d < 0 THEN -d ELSE d) >= 2 * Event[e].hysteresis]_open

\* Every change that the settings promise a mail for has put one into the table for each
\* recipient, and one is missing at most for each time the process was killed; no
\* other change has.
Promised(o, k) ==
    IF o \in DOMAIN Event THEN Event[o].action \in (IF k = 1 THEN {1, 2, 3} ELSE {2, 3})
    ELSE IF k = 0 THEN Group[o].default_send_mail ELSE Complex(o)[k].send_mail
RecipientsOf(o) ==
    LET to == IF o \in DOMAIN Event THEN Event[o].mail_recipients ELSE Group[o].mail_recipients
    IN  {to[i] : i \in 1..Len(to)}
Posted(t, r) == Cardinality({i \in 1..Len(mail) : mail[i].about = t /\ mail[i].to = r})
EveryChangeMailed ==
    \A t \in Topics : Settled(t[1]) =>
       \A r \in RecipientsOf(t[1]) :
          LET owed == IF Promised(t[1], t[2]) THEN changes[t] ELSE 0
          IN  owed - kills <= Posted(t, r) /\ Posted(t, r) <= owed

\* A group is at the level of the first complex event that was valid, or at -1, and it is
\* recorded as that one says.
FirstActive(g) ==
    LET valid == {k \in 1..Len(Complex(g)) : active[<<g, k>>]}
    IN  IF valid = {} THEN 0 ELSE CHOOSE k \in valid : \A l \in valid : k <= l
GroupFollowsFirst ==
    \A g \in DOMAIN Group : kills = 0 /\ Settled(g) =>
       /\ last_level[g] = Level(g, FirstActive(g))
       /\ open[g] = (IF Stops(g, FirstActive(g)) THEN 0 ELSE 1)

\* A value that stays beyond the limit is recorded as an event, whenever the process is
\* killed - unless an event with a variable limit comes first, and ends every pass.
Reached(e) ==
    \E i \in 1..Len(Agenda) : Agenda[i] = e /\ \A j \in 1..i : Agenda[j] \in DOMAIN Event
                                                /\ Event[Agenda[j]].variable_limit = None
Beyond(e) ==
    /\ Reached(e) /\ Event[e].variable \in recent
    /\ LimitCheck(e, value[Event[e].variable], FALSE)
Recognised == \A e \in DOMAIN Event : <>[]Beyond(e) => <>[](open[e] > 0)

\* The same for every event, with the limit as the settings offer it: fixed, or the value
\* of a variable.
LimitExceeded(e) ==
    /\ {Event[e].variable, Event[e].variable_limit} \subseteq recent \cup {None}
    /\ LimitCheck(e, value[Event[e].variable], FALSE)
EveryLimitRecognised == \A e \in DOMAIN Event : <>[]LimitExceeded(e) => <>[](open[e] > 0)

\* Every mail in the table is delivered or given up after its attempts.
MailsEnd ==
    []<>(\A i \in 1..Len(mail) : mail[i].done \/ mail[i].send_fail_count >= MaxAttempts)
=============================================================================
