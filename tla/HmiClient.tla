------------------------------ MODULE HmiClient ------------------------------
(***************************************************************************)
(* The data flow between the browser client of PyScada (data_handler,      *)
(* data_handler_ajax, data_handler_done and data_handler_fail of           *)
(* hmi/static/pyscada/js/pyscada/pyscada_v0-7-0rc14.js) and the view       *)
(* get_cache_data with the query db_data that answers it.                  *)
(*                                                                         *)
(* The client is single-threaded: a handler is one step. It first asks for *)
(* the time of the server, then for the last value of its status variables *)
(* and the history of its chart variables in batches, then polls with the  *)
(* cursor LAST_QUERY_TIME. Answers may come in any order, late or never,   *)
(* while the user switches auto update, picks a range of dates or asks for *)
(* two hours more. Times are ticks of one clock; the conversions between   *)
(* seconds and milliseconds cancel out. The position of the timeline slider *)
(* (DATA_DISPLAY_...) stays at its default, -1.                            *)
(* CarelessPoll, EdgeSeries, StrictToDo, LeakyFinish and BareForgiven are   *)
(* mutated forms of the definition below them.                             *)
(***************************************************************************)
EXTENDS HmiStore, FiniteSetsExt

CONSTANTS
    StatusVars,   \* keys of STATUS_VARIABLE_KEYS
    ChartVars,    \* keys of CHART_VARIABLE_KEYS
    StatusBatch,  \* 5: status variables initialised by one request
    ChartBatch,   \* 10: chart variables initialised by one request
    ErrorLimit,   \* 15: failures after which the switch of auto update is toggled
    Window,       \* 120 minutes: history loaded at first, longest poll
    PollBack,     \* 60 s: how far back a poll without a cursor reaches
    LookBack,     \* 3660 s: how far back a first value is looked for
    History,      \* Var -> rows recorded before the page is loaded
    Start,        \* instant at which the page is loaded
    MaxDelay,     \* how old a sample may be when it is saved
    Ranges,       \* ranges of dates the user may pick
    MaxNow,       \* bound: last instant of the clock
    MaxTimeReq,   \* bound: requests for the time in flight, at most 50 before the
                  \* first times out
    MaxClicks,    \* bound: actions of the user
    MaxFail       \* bound: failed requests

Var == StatusVars \cup ChartVars
Row == [time : Int, saved : Int]

ASSUME ClientAssumption ==
    /\ IsFiniteSet(Var)
    /\ {StatusBatch, ChartBatch, Window, MaxTimeReq} \subseteq Nat \ {0}
    /\ {ErrorLimit, PollBack, LookBack, MaxDelay, MaxClicks, MaxFail} \subseteq Nat
    /\ Start \in Nat /\ MaxNow \in Nat /\ Start > Window * (MaxClicks + 1)
    /\ Ranges \subseteq (Int \X (Nat \ {0}))
    /\ History \in [Var -> Seq(Row)]
    /\ \A v \in Var : \A i, j \in 1..Len(History[v]) :
          /\ History[v][i].time < History[v][i].saved /\ History[v][i].saved <= Start
          /\ i < j => /\ History[v][i].time < History[v][j].time
                      /\ History[v][i].saved <= History[v][j].saved

VARIABLES
    now, rows,              \* the server: its clock and, per variable, what is recorded
    net,                    \* requests in flight, answered or not
    SERVER_TIME, LAST_QUERY_TIME, DATA_FROM_TIMESTAMP, DATA_TO_TIMESTAMP,
    DATA,                   \* per variable, the series of the samples held
    INIT_STATUS_VARIABLES_DONE, INIT_CHART_VARIABLES_DONE, DATA_INIT_STATUS,
    KEYS,                   \* counts of STATUS_VARIABLE_KEYS and CHART_VARIABLE_KEYS
    FETCH_DATA_PENDING, JSON_ERROR_COUNT,
    request_data,           \* implicit global of data_handler_ajax: the last request
    AUTO_UPDATE_ACTIVE, PREVIOUS_AUTO_UPDATE_ACTIVE_STATE,
    picker,                 \* is the date range picker open?
    loaded, failures,       \* history: <<variable, round>> initialised; failed requests
    clicks                  \* history: actions of the user

server  == <<now, rows>>
times   == <<SERVER_TIME, LAST_QUERY_TIME, DATA_FROM_TIMESTAMP, DATA_TO_TIMESTAMP>>
init    == <<INIT_STATUS_VARIABLES_DONE, INIT_CHART_VARIABLES_DONE, DATA_INIT_STATUS>>
ajax    == <<net, FETCH_DATA_PENDING, request_data>>
switch  == <<AUTO_UPDATE_ACTIVE, PREVIOUS_AUTO_UPDATE_ACTIVE_STATE, picker>>
history == <<loaded, failures>>
vars == <<server, times, init, ajax, switch, history, DATA, KEYS, JSON_ERROR_COUNT, clicks>>

None == -1
\* A status variable that is drawn in a chart as well is initialised as a chart variable.
Status == StatusVars \ ChartVars
InitDone == INIT_STATUS_VARIABLES_DONE /\ INIT_CHART_VARIABLES_DONE

Init ==
    /\ now = Start /\ rows = History
    /\ net = {} /\ FETCH_DATA_PENDING = 0
    /\ request_data = [init |-> FALSE, vars |-> {}]
    /\ SERVER_TIME = 0 /\ LAST_QUERY_TIME = 0
    /\ DATA_FROM_TIMESTAMP = 0 /\ DATA_TO_TIMESTAMP = 0
    /\ DATA = [v \in Var |-> <<>>]
    /\ INIT_STATUS_VARIABLES_DONE = FALSE /\ INIT_CHART_VARIABLES_DONE = FALSE
    /\ DATA_INIT_STATUS = 0 /\ KEYS = [v \in Var |-> 0]
    /\ JSON_ERROR_COUNT = 0
    /\ AUTO_UPDATE_ACTIVE = TRUE /\ PREVIOUS_AUTO_UPDATE_ACTIVE_STATE = FALSE
    /\ picker = FALSE
    /\ loaded = {} /\ failures = 0 /\ clicks = 0
----------------------------------------------------------------------------
(* The server.                                                             *)

Tick == now < MaxNow /\ now' = now + 1
        /\ UNCHANGED <<rows, times, init, ajax, switch, history, DATA, KEYS, JSON_ERROR_COUNT>>

\* A DAQ process saves a sample of a variable it read at t, some time before; it reads
\* and saves the samples of one variable in order.
Record(v, t) ==
    /\ now - MaxDelay <= t /\ t < now
    /\ rows[v] # <<>> => Final(rows[v]).time < t
    /\ rows' = [rows EXCEPT ![v] = Append(@, [time |-> t, saved |-> now])]
    /\ UNCHANGED <<now, times, init, ajax, switch, history, DATA, KEYS, JSON_ERROR_COUNT>>

\* get_cache_data: the range asked for. A cursor of 0 means "the last minute", and a
\* poll reaches back two hours at most.
RangeTo(r) == IF r.to = None \/ r.to > now THEN now ELSE r.to
RangeFrom(r) ==
    LET from == IF r.from = 0 THEN now - PollBack ELSE r.from
    IN  IF ~r.init /\ RangeTo(r) - from > Window THEN RangeTo(r) - Window ELSE from

\* db_data: the rows the query returns. The upper bound of the packed key leaves out a
\* sample taken at RangeTo itself.
Selected(r, v) ==
    {i \in 1..Len(rows[v]) :
        /\ RangeFrom(r) - LookBack <= rows[v][i].time /\ rows[v][i].time < RangeTo(r)
        /\ (IF r.init THEN RangeFrom(r) - LookBack ELSE RangeFrom(r)) <= rows[v][i].saved
        /\ rows[v][i].saved <= RangeTo(r)}

\* Rows of one variable are saved in the order of their times, so that the rows of a
\* range follow each other.
InRange(r, v) ==
    LET I == {i \in Selected(r, v) : rows[v][i].time >= RangeFrom(r)}
    IN  IF I = {} THEN <<>>
        ELSE [k \in 1..(Max(I) - Min(I) + 1) |-> rows[v][Min(I) + k - 1].time]

\* An initial request gets the last sample before its range put in front, or else the
\* last sample of all at the end, and its last sample twice.
Twice(s) == IF Len(s) > 1 THEN Append(s, Final(s)) ELSE s
EdgeSeries(r, v) ==
    IF r.init THEN Twice(<<RangeFrom(r)>> \o InRange(r, v)) ELSE InRange(r, v)
Series(r, v) ==
    LET before == {i \in Selected(r, v) : rows[v][i].time < RangeFrom(r)}
    IN  IF ~r.init THEN InRange(r, v)
        ELSE IF before # {} THEN Twice(<<rows[v][Max(before)].time>> \o InRange(r, v))
        ELSE IF rows[v] # <<>> THEN Twice(Append(InRange(r, v), Final(rows[v]).time))
        ELSE <<>>

SelectedRows(r) == UNION {{rows[v][i] : i \in Selected(r, v)} : v \in r.vars}

\* The answer carries the time of the newest sample and of the latest save it is made of.
Response(r) ==
    [server_time |-> now,
     timestamp |-> IF r.vars = {} THEN 0
                   ELSE Max({RangeFrom(r)} \cup {row.time : row \in SelectedRows(r)}),
     date_saved_max |-> IF r.vars = {} THEN None
                        ELSE Max({0} \cup {row.saved : row \in SelectedRows(r)}),
     series |-> [v \in r.vars |-> Series(r, v)]]

Answer(r) ==
    /\ r.answer = {}
    /\ net' = (net \ {r}) \cup {[r EXCEPT !.answer = {Response(r)}]}
    /\ UNCHANGED <<server, times, init, FETCH_DATA_PENDING, request_data, switch,
                   history, DATA, KEYS, JSON_ERROR_COUNT>>
----------------------------------------------------------------------------
(* The periodic handler.                                                   *)

\* Requests need a name here, so that two of the same content may be in flight.
IsFree(i) == /\ \A r \in net : r.id # i
             /\ \A j \in 1..(i - 1) : \E r \in net : r.id = j

\* data_handler_ajax.
Send(isInit, vs, from, to) ==
    /\ \E i \in 1..(Cardinality(net) + 1) :
          /\ IsFree(i)
          /\ net' = net \cup {[id |-> i, init |-> isInit, vars |-> vs, from |-> from, to |-> to,
                               round |-> DATA_INIT_STATUS, answer |-> {}]}
    /\ FETCH_DATA_PENDING' = FETCH_DATA_PENDING + 1
    /\ request_data' = [init |-> isInit, vars |-> vs]

\* The interval timer finds the handler active.
Active == AUTO_UPDATE_ACTIVE \/ ~InitDone

\* Until the first answer, the time of the server is asked for at every pass.
AskTime ==
    /\ Active /\ DATA_TO_TIMESTAMP = 0
    /\ Cardinality(net) < MaxTimeReq
    /\ Send(FALSE, {}, now, None)
    /\ UNCHANGED <<server, times, init, switch, history, DATA, KEYS, JSON_ERROR_COUNT>>

\* New samples are asked for when nothing is in flight.
CarelessPoll ==
    /\ Active /\ DATA_TO_TIMESTAMP # 0 /\ InitDone /\ FETCH_DATA_PENDING <= 1
    /\ Send(FALSE, Var, LAST_QUERY_TIME, None)
    /\ UNCHANGED <<server, times, init, switch, history, DATA, KEYS, JSON_ERROR_COUNT>>
Poll ==
    /\ Active /\ DATA_TO_TIMESTAMP # 0 /\ InitDone /\ FETCH_DATA_PENDING <= 0
    /\ Send(FALSE, Var, LAST_QUERY_TIME, None)
    /\ UNCHANGED <<server, times, init, switch, history, DATA, KEYS, JSON_ERROR_COUNT>>

\* Variables that have to be initialised, and the batches of them a pass may take: as
\* many as a request holds. Which ones depends on the numbers of the variables.
StatusToDo == {v \in Status : KEYS[v] < 1}
StrictToDo == {v \in ChartVars : KEYS[v] < DATA_INIT_STATUS}
ChartToDo == {v \in ChartVars : KEYS[v] <= DATA_INIT_STATUS}
Batches(todo, size) ==
    {b \in SUBSET todo : Cardinality(b) = IF Cardinality(todo) < size THEN Cardinality(todo)
                                          ELSE size}
Counted(b) == [v \in Var |-> IF v \in b THEN KEYS[v] + 1 ELSE KEYS[v]]
MayFetch == DATA_TO_TIMESTAMP # 0 /\ ~InitDone /\ FETCH_DATA_PENDING <= 1

FetchStatus ==
    /\ MayFetch /\ ~INIT_STATUS_VARIABLES_DONE
    /\ \E b \in Batches(StatusToDo, StatusBatch) \ {{}} :
          KEYS' = Counted(b) /\ Send(TRUE, b, DATA_TO_TIMESTAMP, None)
    /\ UNCHANGED <<server, times, init, switch, history, DATA, JSON_ERROR_COUNT>>

StatusDone ==
    /\ MayFetch /\ ~INIT_STATUS_VARIABLES_DONE /\ StatusToDo = {}
    /\ INIT_STATUS_VARIABLES_DONE' = TRUE
    /\ UNCHANGED <<server, times, INIT_CHART_VARIABLES_DONE, DATA_INIT_STATUS, ajax, switch,
                   history, DATA, KEYS, JSON_ERROR_COUNT>>

\* The history of a batch is asked for up to the oldest sample held of any of its
\* variables, or up to DATA_TO_TIMESTAMP.
HistoryTo(b) ==
    LET oldest == Max({DATA_FROM_TIMESTAMP} \cup {First(DATA[v]) : v \in {w \in b : DATA[w] # <<>>}})
    IN  IF oldest = DATA_FROM_TIMESTAMP THEN DATA_TO_TIMESTAMP ELSE oldest

FetchChart ==
    /\ MayFetch /\ INIT_STATUS_VARIABLES_DONE /\ ~INIT_CHART_VARIABLES_DONE
    /\ \E b \in Batches(ChartToDo, ChartBatch) \ {{}} :
          KEYS' = Counted(b) /\ Send(TRUE, b, DATA_FROM_TIMESTAMP, HistoryTo(b))
    /\ UNCHANGED <<server, times, init, switch, history, DATA, JSON_ERROR_COUNT>>

ChartDone ==
    /\ MayFetch /\ INIT_STATUS_VARIABLES_DONE /\ ~INIT_CHART_VARIABLES_DONE /\ ChartToDo = {}
    /\ INIT_CHART_VARIABLES_DONE' = TRUE
    /\ UNCHANGED <<server, times, INIT_STATUS_VARIABLES_DONE, DATA_INIT_STATUS, ajax, switch,
                   history, DATA, KEYS, JSON_ERROR_COUNT>>

DataHandler == AskTime \/ Poll \/ FetchStatus \/ StatusDone \/ FetchChart \/ ChartDone
----------------------------------------------------------------------------
(* The end of a request.                                                   *)

LeakyFinish(r) == net' = net \ {r} /\ UNCHANGED <<request_data, FETCH_DATA_PENDING>>
Finish(r) == net' = net \ {r} /\ FETCH_DATA_PENDING' = FETCH_DATA_PENDING - 1
             /\ UNCHANGED request_data

\* add_fetched_data: of a variable that is not in a chart only the last sample is kept.
Added(v, series) ==
    IF v \in ChartVars THEN Merge(series, DATA[v])
    ELSE IF series = <<>> THEN DATA[v] ELSE <<Final(series)>>

\* An answer makes up for a failure.
BareForgiven == JSON_ERROR_COUNT - 1
Forgiven == IF JSON_ERROR_COUNT > 0 THEN JSON_ERROR_COUNT - 1 ELSE 0

\* data_handler_done.
Done(r) ==
    /\ \E a \in r.answer :
          /\ SERVER_TIME' = a.server_time
          /\ LAST_QUERY_TIME' = IF a.date_saved_max = None THEN LAST_QUERY_TIME
                                ELSE a.date_saved_max
          /\ IF DATA_TO_TIMESTAMP = 0
             THEN /\ DATA_TO_TIMESTAMP' = a.server_time
                  /\ DATA_FROM_TIMESTAMP' = a.server_time - Window
                  /\ UNCHANGED DATA
             ELSE /\ DATA_TO_TIMESTAMP' = Max({DATA_TO_TIMESTAMP, a.timestamp})
                  /\ DATA' = [v \in Var |-> IF v \in r.vars THEN Added(v, a.series[v])
                                            ELSE DATA[v]]
                  /\ UNCHANGED DATA_FROM_TIMESTAMP
    /\ JSON_ERROR_COUNT' = Forgiven
    /\ loaded' = IF r.init THEN loaded \cup (r.vars \X {r.round}) ELSE loaded
    /\ Finish(r)
    /\ UNCHANGED <<server, init, switch, failures, KEYS>>

\* auto_update_click: the switch is turned over, and the failures are forgotten when
\* that turns auto update off.
Toggle(errors) ==
    /\ AUTO_UPDATE_ACTIVE' = ~AUTO_UPDATE_ACTIVE
    /\ JSON_ERROR_COUNT' = IF AUTO_UPDATE_ACTIVE THEN 0 ELSE errors

\* data_handler_fail, after an error or a timeout: the initialisation of the variables
\* of the last request, which need not be the one that failed, is taken back.
Rollback(r) ==
    [v \in Var |-> IF request_data.init /\ v \in request_data.vars THEN KEYS[v] - 1 ELSE KEYS[v]]
Fail(r) ==
    /\ failures < MaxFail /\ failures' = failures + 1
    /\ IF JSON_ERROR_COUNT + 1 > ErrorLimit THEN Toggle(JSON_ERROR_COUNT + 1)
       ELSE JSON_ERROR_COUNT' = JSON_ERROR_COUNT + 1 /\ UNCHANGED AUTO_UPDATE_ACTIVE
    /\ KEYS' = Rollback(r)
    /\ Finish(r)
    /\ UNCHANGED <<server, times, init, PREVIOUS_AUTO_UPDATE_ACTIVE_STATE, picker, loaded, DATA>>
----------------------------------------------------------------------------
(* The user.                                                               *)

ToggleSwitch ==
    /\ Toggle(JSON_ERROR_COUNT)
    /\ UNCHANGED <<server, times, init, ajax, PREVIOUS_AUTO_UPDATE_ACTIVE_STATE, picker, history,
                   DATA, KEYS>>

\* The chart variables are initialised again.
Restart ==
    /\ DATA_INIT_STATUS' = DATA_INIT_STATUS + 1
    /\ INIT_CHART_VARIABLES_DONE' = FALSE
    /\ UNCHANGED <<INIT_STATUS_VARIABLES_DONE, KEYS>>

PlusTwoHours ==
    /\ INIT_CHART_VARIABLES_DONE /\ Restart
    /\ DATA_FROM_TIMESTAMP' = DATA_FROM_TIMESTAMP - Window
    /\ UNCHANGED <<server, SERVER_TIME, LAST_QUERY_TIME, DATA_TO_TIMESTAMP, ajax, switch,
                   history, DATA, JSON_ERROR_COUNT>>

\* show.daterangepicker: the page is shown when it has been initialised once.
ShowPicker ==
    /\ ~picker /\ picker' = TRUE
    /\ InitDone \/ DATA_INIT_STATUS > 0
    /\ PREVIOUS_AUTO_UPDATE_ACTIVE_STATE' = AUTO_UPDATE_ACTIVE
    /\ IF AUTO_UPDATE_ACTIVE THEN Toggle(JSON_ERROR_COUNT)
       ELSE UNCHANGED <<AUTO_UPDATE_ACTIVE, JSON_ERROR_COUNT>>
    /\ UNCHANGED <<server, times, init, ajax, history, DATA, KEYS>>

\* hide.daterangepicker.
Resume(previous) ==
    /\ picker /\ picker' = FALSE
    /\ PREVIOUS_AUTO_UPDATE_ACTIVE_STATE' = previous
    /\ IF ~AUTO_UPDATE_ACTIVE /\ previous THEN Toggle(JSON_ERROR_COUNT)
       ELSE UNCHANGED <<AUTO_UPDATE_ACTIVE, JSON_ERROR_COUNT>>

HidePicker ==
    /\ Resume(PREVIOUS_AUTO_UPDATE_ACTIVE_STATE)
    /\ UNCHANGED <<server, times, init, ajax, history, DATA, KEYS>>

\* A range has been chosen: the callback, then the event that the picker is hidden.
\* Ranges such as "Last 2 hours" turn auto update on, others leave it off.
PickRange(from, to, recent) ==
    /\ Restart
    /\ DATA_FROM_TIMESTAMP' = from
    /\ DATA_TO_TIMESTAMP' = Min({to, SERVER_TIME})
    /\ Resume(recent)
    /\ UNCHANGED <<server, SERVER_TIME, LAST_QUERY_TIME, ajax, history, DATA>>
----------------------------------------------------------------------------
User ==
    /\ clicks < MaxClicks /\ clicks' = clicks + 1
    /\ \/ ToggleSwitch \/ PlusTwoHours \/ ShowPicker \/ HidePicker
       \/ \E range \in Ranges, recent \in BOOLEAN : PickRange(range[1], range[2], recent)
Network == \E r \in net : Answer(r) \/ Done(r) \/ Fail(r)
Recording == \E v \in Var, t \in 1..MaxNow : Record(v, t)

Client == DataHandler /\ UNCHANGED clicks
Ajax == Network /\ UNCHANGED clicks
Server == (Tick \/ Recording) /\ UNCHANGED clicks

Next == Client \/ Ajax \/ Server \/ User
Spec == Init /\ [][Next]_vars

\* The timer of the handler is armed again after every pass, and a request ends with an
\* answer, an error or its timeout. Neither the user nor a device has to do anything.
FairSpec == Spec /\ WF_vars(Client) /\ WF_vars(Ajax)
----------------------------------------------------------------------------
Answers(vs) == [server_time : Int, timestamp : Int, date_saved_max : Int, series : [vs -> Seq(Int)]]
IsRequest(r) ==
    /\ r.id \in Nat /\ r.init \in BOOLEAN /\ r.vars \subseteq Var /\ r.from \in Int /\ r.to \in Int
    /\ r.round \in Nat /\ r.answer \subseteq Answers(r.vars) /\ Cardinality(r.answer) <= 1

TypeOK ==
    /\ now \in Nat /\ rows \in [Var -> Seq(Row)]
    /\ IsFiniteSet(net) /\ \A r \in net : IsRequest(r)
    /\ FETCH_DATA_PENDING \in Int
    /\ request_data \in [init : BOOLEAN, vars : SUBSET Var]
    /\ {SERVER_TIME, LAST_QUERY_TIME, DATA_FROM_TIMESTAMP, DATA_TO_TIMESTAMP} \subseteq Int
    /\ DATA \in [Var -> Seq(Int)]
    /\ {INIT_STATUS_VARIABLES_DONE, INIT_CHART_VARIABLES_DONE} \subseteq BOOLEAN
    /\ DATA_INIT_STATUS \in 0..MaxClicks /\ KEYS \in [Var -> Int]
    /\ JSON_ERROR_COUNT \in Nat
    /\ {AUTO_UPDATE_ACTIVE, PREVIOUS_AUTO_UPDATE_ACTIVE_STATE, picker} \subseteq BOOLEAN
    /\ loaded \subseteq Var \X Nat /\ failures \in 0..MaxFail /\ clicks \in 0..MaxClicks

\* The counter that keeps the handler from flooding the server is exact: each request
\* is taken off once, however it ends. A request too many and nothing would be fetched
\* any more.
PendingIsInFlight == FETCH_DATA_PENDING = Cardinality(net)

\* At most two requests for data are in flight, and one poll among them: polls never
\* overtake each other.
Polls == {r \in net : ~r.init /\ r.vars # {}}
Loads == {r \in net : r.init}
BoundedInFlight == Cardinality(Polls) <= 1 /\ Cardinality(Polls \cup Loads) <= 2

\* The samples of a chart stay in the order of their times, whatever ranges the answers
\* bring in which order: the searches of add_fetched_data and the plots rely on it.
SortedCharts == \A v \in ChartVars : Sorted(DATA[v])

\* Nothing is forgotten when an answer is merged: a chart only gains samples.
ChartsOnlyGrow == [][\A v \in ChartVars : Times(DATA[v]) \subseteq Times(DATA'[v])]_DATA

\* Every sample of an answer that is handled is in the chart afterwards, whatever the chart
\* has shown before, but for the three kinds of samples that add_fetched_data drops.
AnswersTaken ==
    [][\A r \in net : \A a \in r.answer :
          r \notin net' /\ failures' = failures /\ DATA_TO_TIMESTAMP # 0 =>
             \A v \in r.vars \cap ChartVars : \A t \in Times(a.series[v]) :
                \/ t \in Times(DATA'[v])
                \/ DATA[v] # <<>> /\ Dropped(t, a.series[v], DATA[v])]_vars

\* The value shown for a status variable is never replaced by an older one, as long as
\* no request has failed: its one initial answer and the polls are handled in order.
StatusNeverOlder ==
    [][\A v \in Status : failures' = 0 /\ DATA[v] # <<>> => Final(DATA[v]) <= Final(DATA'[v])]_DATA

\* When the initialisation is over and nothing is in flight, every variable has been
\* loaded for the current range, unless a request has failed.
EverythingLoaded ==
    InitDone /\ net = {} /\ failures = 0 =>
       /\ \A v \in Status : <<v, 0>> \in loaded
       /\ \A v \in ChartVars : <<v, DATA_INIT_STATUS>> \in loaded

\* The page implements its promise: see HmiView.
View == INSTANCE HmiView WITH
            Vars <- Var, Charts <- ChartVars,
            recorded <- [v \in Var |-> {rows[v][i].time : i \in 1..Len(rows[v])}],
            shown <- [v \in Var |-> Times(DATA[v])]
ViewSpec == View!Spec

\* The initialisation ends, also after failures and restarts of it.
InitEnds == []<>InitDone
=============================================================================
